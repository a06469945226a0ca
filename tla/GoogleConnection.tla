-------------------------- MODULE GoogleConnection --------------------------
(***************************************************************************)
(* One organization's Google connection: the consent flow that creates it   *)
(* (app/routers/integrations.py), the tokens (app/adapters/google_oauth.py, *)
(* gmail.py), and how a connection that died at Google is noticed, shown,   *)
(* and told to the rep (app/services/sending.py, replies.py).               *)
(*                                                                         *)
(* The row is read once by each cycle and by each request and written       *)
(* later, after calls to Google; only the columns whose value changed       *)
(* against the copy are written, and nothing locks the row.                 *)
(***************************************************************************)
EXTENDS Integers, FiniteSets

CONSTANTS
  States,     \* oauth_states tokens; a grant bears the name of the token it came from
  Procs,      \* threads that use the connection
  Agent,      \* the agent loop among them
  Roles,      \* what each thread does: "reply" and "send" cycles, "status" requests
  MaxFaults,  \* bound on the calls that fail for other reasons than a dead grant
  None

ASSUME ProcAssumption == /\ Agent \in Procs
                         /\ Roles \in [Procs -> SUBSET {"reply", "send", "status"}]
ASSUME ConnectionNoneAssumption == None \notin States \union Procs
ASSUME ConnectionFaultAssumption == MaxFaults \in Nat

VARIABLES
  cred,    \* the google_credentials row
  token,   \* oauth_states: each token's life
  alive,   \* Google: grants that are not revoked or expired
  cached,  \* _verify_cache holds a recent check
  pc, role, copy, \* thread: where it stands, in which role, its copy of the row
  cb,      \* callback request of each token: where it stands and what it read
  mails,   \* mail: times the rep was told to reconnect
  resets,  \* history: times the row was set right again
  excused, \* history: a grant was stored while a thread held a copy of the row, or a
           \* live one was refused twice in a row or taken for dead in a refresh
  faults

vars == <<cred, token, alive, cached, pc, role, copy, cb, mails, resets, excused, faults>>
threads == <<pc, role, copy>>
history == <<mails, resets, excused>>

-----------------------------------------------------------------------------
(* Data *)

(* grant stands for the refresh token, access for the access token of a      *)
(* grant, dated says that the recorded expiry is ahead.                      *)
NoCred == [there |-> FALSE, grant |-> None, access |-> None, dated |-> FALSE,
           broken |-> FALSE, notified |-> FALSE]

NoCall == [pc |-> "none", seen |-> NoCred]

Goto(p, where) == pc' = [pc EXCEPT ![p] = where]
Fault == faults < MaxFaults /\ faults' = faults + 1

(* p's cycle or request ends; its copy of the row goes. *)
Done(p) == /\ Goto(p, "idle")
           /\ role' = [role EXCEPT ![p] = None]
           /\ copy' = [copy EXCEPT ![p] = NoCred]

(* p's session writes the columns that differ from its copy.  An UPDATE of a *)
(* row that is gone is a StaleDataError.                                     *)
Write(p, new) ==
  LET Diff(c) == IF new[c] = copy[p][c] THEN cred[c] ELSE new[c]
  IN /\ cred' = [c \in DOMAIN cred |-> Diff(c)]
     /\ copy' = [copy EXCEPT ![p] = new]

Writable(p, new) == cred.there \/ new = copy[p]

-----------------------------------------------------------------------------
(* Consent flow *)

(* connect: mints a token bound to the organization. *)
Connect(s) ==
  /\ token[s] = "none"
  /\ token' = [token EXCEPT ![s] = "minted"]
  /\ UNCHANGED <<cred, alive, cached, threads, cb, history, faults>>

Expire(s) ==
  /\ token[s] = "minted"
  /\ token' = [token EXCEPT ![s] = "expired"]
  /\ UNCHANGED <<cred, alive, cached, threads, cb, history, faults>>

(* consume_state deletes the token first, whatever comes of the callback. *)
Callback(s) ==
  /\ token[s] \in {"minted", "expired"}
  /\ token' = [token EXCEPT ![s] = "used"]
  /\ cb' = [cb EXCEPT ![s].pc = IF token[s] = "minted" THEN "exchange" ELSE "none"]
  /\ UNCHANGED <<cred, alive, cached, threads, history, faults>>

(* exchange_code; the row is looked up before the account's address is asked. *)
Exchange(s) ==
  /\ cb[s].pc = "exchange"
  /\ alive' = alive \union {s}
  /\ cb' = [cb EXCEPT ![s] = [pc |-> "store", seen |-> cred]]
  /\ UNCHANGED <<cred, token, cached, threads, history, faults>>

ExchangeFails(s) ==
  /\ cb[s].pc = "exchange"
  /\ Fault
  /\ cb' = [cb EXCEPT ![s] = NoCall]
  /\ UNCHANGED <<cred, token, alive, cached, threads, history>>

(* Mutation: a reconnection leaves the flags as they are. *)
StoreKeepsFlags(s) ==
  /\ cb[s].pc = "store"
  /\ cb[s].seen.there = cred.there
  /\ cred' = [cred EXCEPT !.there = TRUE, !.grant = s, !.access = s, !.dated = TRUE]
  /\ cached' = FALSE
  /\ cb' = [cb EXCEPT ![s] = NoCall]
  /\ resets' = resets + 1
  /\ excused' = (excused \/ \E p \in Procs : pc[p] # "idle")
  /\ UNCHANGED <<token, alive, threads, mails, faults>>

(* The flags are reset, if they were set when the row was looked up. *)
Store(s) ==
  LET old == cb[s].seen
  IN /\ cb[s].pc = "store"
     /\ old.there = cred.there
     /\ cred' = [there |-> TRUE, grant |-> s, access |-> s, dated |-> TRUE,
                 broken |-> cred.broken /\ ~old.broken,
                 notified |-> cred.notified /\ ~old.notified]
     /\ cached' = FALSE
     /\ cb' = [cb EXCEPT ![s] = NoCall]
     /\ resets' = resets + 1
     /\ excused' = (excused \/ cred # old \/ \E p \in Procs : pc[p] # "idle")
     /\ UNCHANGED <<token, alive, threads, mails, faults>>

(* A second row for the organization, or a row that is gone. *)
StoreFails(s) ==
  /\ cb[s].pc = "store"
  /\ cb[s].seen.there # cred.there
  /\ cb' = [cb EXCEPT ![s] = NoCall]
  /\ UNCHANGED <<cred, token, alive, cached, threads, history, faults>>

Disconnect ==
  /\ cred.there
  /\ cred' = NoCred
  /\ UNCHANGED <<token, alive, cached, threads, cb, history, faults>>

-----------------------------------------------------------------------------
(* A cycle or a status request uses the connection *)

(* Mutation: no cycle uses a connection that is marked broken. *)
SkipsBroken(r) == cred.broken

(* run_reply_cycle_all_orgs and _verify_connection pass over a broken        *)
(* connection, the latter over one it checked a minute ago as well.          *)
Skips(r) == \/ r \in {"reply", "status"} /\ cred.broken
            \/ r = "status" /\ cached

Begin(p, r) ==
  /\ pc[p] = "idle"
  /\ r \in Roles[p]
  /\ cred.there
  /\ ~Skips(r)
  /\ role' = [role EXCEPT ![p] = r]
  /\ copy' = [copy EXCEPT ![p] = cred]
  /\ cached' = (cached \/ r = "status")
  /\ Goto(p, "token")
  /\ UNCHANGED <<cred, token, alive, cb, history, faults>>

(* The stored access token is used while its recorded expiry is ahead. *)
UseStored(p) ==
  /\ pc[p] = "token"
  /\ copy[p].dated
  /\ Goto(p, "call")
  /\ UNCHANGED <<cred, token, alive, cached, role, copy, cb, history, faults>>

Refreshing(p) == pc[p] = "forced" \/ (pc[p] = "token" /\ ~copy[p].dated)

(* A refresh that works also clears the flags, if the copy has them set. *)
Refresh(p) ==
  LET new == [copy[p] EXCEPT !.access = copy[p].grant, !.dated = TRUE, !.broken = FALSE,
                             !.notified = @ /\ ~copy[p].broken]
  IN /\ Refreshing(p)
     /\ copy[p].grant \in alive
     /\ Writable(p, new)
     /\ Write(p, new)
     /\ resets' = resets + (IF copy[p].broken THEN 1 ELSE 0)
     /\ Goto(p, IF pc[p] = "forced" THEN "again" ELSE "call")
     /\ UNCHANGED <<token, alive, cached, role, cb, mails, excused, faults>>

(* Mutation: the failure is raised, the row stays as it is. *)
RefusedUnmarked(p) ==
  /\ Refreshing(p)
  /\ copy[p].grant \notin alive
  /\ IF role[p] = "status" THEN Done(p) ELSE Goto(p, "notify") /\ UNCHANGED <<role, copy>>
  /\ UNCHANGED <<cred, token, alive, cached, cb, history, faults>>

(* The row is marked, then GoogleAccessRevoked.                              *)
MarkBroken(p) ==
  LET new == [copy[p] EXCEPT !.broken = TRUE]
  IN /\ Refreshing(p)
     /\ Writable(p, new)
     /\ IF role[p] = "status"
          THEN /\ cred' = [cred EXCEPT !.broken = @ \/ ~copy[p].broken]
               /\ Done(p)
          ELSE /\ Write(p, new)
               /\ Goto(p, "notify")
               /\ UNCHANGED role
     /\ UNCHANGED <<token, alive, cached, cb, mails, resets>>

(* invalid_grant. *)
Refused(p) ==
  /\ copy[p].grant \notin alive
  /\ MarkBroken(p)
  /\ UNCHANGED <<excused, faults>>

(* Any other error with 400 or 401 in its text, an invalid_client for one,   *)
(* says nothing about the grant and is taken for the same.                   *)
Misjudged(p) ==
  /\ copy[p].grant \in alive
  /\ Fault
  /\ MarkBroken(p)
  /\ excused' = TRUE

(* The token endpoint cannot be reached or answers with another error, or    *)
(* the row is gone: the exception ends the cycle or the check.               *)
RefreshFails(p) ==
  /\ Refreshing(p)
  /\ IF cred.there THEN Fault ELSE UNCHANGED faults
  /\ Done(p)
  /\ UNCHANGED <<cred, token, alive, cached, cb, history>>

(* Google answers, and there is more to ask. *)
NextCall(p) ==
  /\ pc[p] \in {"call", "again"}
  /\ role[p] # "status"
  /\ copy[p].access \in alive
  /\ Goto(p, "token")
  /\ UNCHANGED <<cred, token, alive, cached, role, copy, cb, history, faults>>

LastCall(p) ==
  /\ pc[p] \in {"call", "again"}
  /\ pc[p] = "call" \/ role[p] # "status"
  /\ copy[p].access \in alive
  /\ Done(p)
  /\ UNCHANGED <<cred, token, alive, cached, cb, history, faults>>

(* 401 because the grant is dead, or for no good reason. *)
CallRefused(p) ==
  /\ pc[p] = "call"
  /\ IF copy[p].access \in alive THEN Fault ELSE UNCHANGED faults
  /\ Goto(p, "forced")
  /\ UNCHANGED <<cred, token, alive, cached, role, copy, cb, history>>

(* A second 401 in a row: the reply cycle notes the error, the send cycle    *)
(* (_mark_google_broken) takes the connection for dead.                      *)
CallRefusedAgain(p) ==
  LET new == [copy[p] EXCEPT !.broken = TRUE]
  IN /\ pc[p] = "again"
     /\ role[p] # "status"
     /\ IF copy[p].access \in alive THEN Fault ELSE UNCHANGED faults
     /\ IF role[p] = "send" /\ Writable(p, new)
          THEN Write(p, new) /\ Goto(p, "notify") /\ UNCHANGED role
          ELSE Done(p) /\ UNCHANGED cred
     /\ excused' = (excused \/ copy[p].access \in alive)
     /\ UNCHANGED <<token, alive, cached, cb, mails, resets>>

(* _verify_connection is through once the forced refresh is. *)
StatusDone(p) ==
  /\ pc[p] = "again"
  /\ role[p] = "status"
  /\ Done(p)
  /\ UNCHANGED <<cred, token, alive, cached, cb, history, faults>>

(* Mutation: the flag is looked at, and never set. *)
NotifyUnmarked(p) ==
  /\ pc[p] = "notify"
  /\ IF copy[p].broken /\ ~copy[p].notified
       THEN Goto(p, "mail") /\ UNCHANGED <<role, copy>>
       ELSE Done(p)
  /\ UNCHANGED <<cred, token, alive, cached, cb, history, faults>>

(* _notify_google_broken: the flag first, then the mail. *)
Notify(p) ==
  LET new == [copy[p] EXCEPT !.notified = TRUE]
  IN /\ pc[p] = "notify"
     /\ IF copy[p].broken /\ ~copy[p].notified /\ Writable(p, new)
          THEN Write(p, new) /\ Goto(p, "mail") /\ UNCHANGED role
          ELSE Done(p) /\ UNCHANGED cred
     /\ UNCHANGED <<token, alive, cached, cb, history, faults>>

MailRep(p) ==
  /\ pc[p] = "mail"
  /\ mails' = mails + 1
  /\ Done(p)
  /\ UNCHANGED <<cred, token, alive, cached, cb, resets, excused, faults>>

MailFails(p) ==
  /\ pc[p] = "mail"
  /\ Fault
  /\ Done(p)
  /\ UNCHANGED <<cred, token, alive, cached, cb, history>>

-----------------------------------------------------------------------------
(* Google and the clock *)

(* The customer revokes the access, or a grant expires. *)
Revoke(s) ==
  /\ s \in alive
  /\ alive' = alive \ {s}
  /\ UNCHANGED <<cred, token, cached, threads, cb, history, faults>>

TokenAges ==
  /\ cred.dated
  /\ cred' = [cred EXCEPT !.dated = FALSE]
  /\ UNCHANGED <<token, alive, cached, threads, cb, history, faults>>

CheckAges ==
  /\ cached
  /\ cached' = FALSE
  /\ UNCHANGED <<cred, token, alive, threads, cb, history, faults>>

-----------------------------------------------------------------------------
(* Specification *)

Init ==
  /\ cred = NoCred
  /\ token = [s \in States |-> "none"]
  /\ alive = {} /\ cached = FALSE
  /\ pc = [p \in Procs |-> "idle"]
  /\ role = [p \in Procs |-> None]
  /\ copy = [p \in Procs |-> NoCred]
  /\ cb = [s \in States |-> NoCall]
  /\ mails = 0 /\ resets = 0 /\ excused = FALSE /\ faults = 0

Consent(s) == \/ Connect(s) \/ Expire(s) \/ Callback(s)
              \/ Exchange(s) \/ ExchangeFails(s) \/ Store(s) \/ StoreFails(s)

(* What a thread does once it has begun. *)
Step(p) == \/ UseStored(p) \/ Refresh(p) \/ Refused(p) \/ Misjudged(p) \/ RefreshFails(p)
           \/ NextCall(p) \/ LastCall(p) \/ CallRefused(p) \/ CallRefusedAgain(p) \/ StatusDone(p)
           \/ Notify(p) \/ MailRep(p) \/ MailFails(p)

Next == \/ \E s \in States : Consent(s) \/ Revoke(s)
        \/ \E p \in Procs : Step(p) \/ \E r \in Roles[p] : Begin(p, r)
        \/ Disconnect \/ TokenAges \/ CheckAges

Spec == Init /\ [][Next]_vars

(* The agent loop runs a send cycle every few minutes (there is something to *)
(* send), each cycle has an end, and the recorded expiry of a token passes.  *)
FairSpec == /\ Spec
            /\ SF_vars(Begin(Agent, "send"))
            /\ WF_vars(Step(Agent))
            /\ SF_vars(LastCall(Agent))
            /\ WF_vars(TokenAges)

-----------------------------------------------------------------------------
(* Properties *)

Dead == cred.there /\ cred.grant \notin alive

(* "Tell the rep their Google connection needs reconnecting (once)"          *)
(* (sending.py:317): a mail for each time the connection was set right and   *)
(* then broke, never two, although the flag is read from a copy, each cycle  *)
(* stumbles over the same dead connection, and a status request may have     *)
(* marked it without a mail.                                                 *)
NotifiedOnce == mails <= resets

(* A connection the organization has just made is not reported broken: only  *)
(* a grant stored while a thread was still working with the one before, two  *)
(* 401s in a row for no good reason, or an error of the token endpoint with  *)
(* 400 or 401 in its text, whatever its cause (google_oauth.py:148), can     *)
(* leave the mark on a live grant.                                           *)
BrokenIsDead == cred.broken => Dead \/ excused

(* And such a mark does not stay: the send cycle tries a connection that is  *)
(* marked broken, and a refresh that works clears the mark.                  *)
LiveIsMended == cred.there /\ cred.broken /\ ~Dead ~> ~cred.broken \/ Dead

(* A grant revoked in Google's own pages, which nothing tells the program,   *)
(* is noticed, whatever the stored token says.                               *)
DeadIsNoticed == Dead ~> cred.broken \/ ~Dead
=============================================================================
