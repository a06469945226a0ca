---------------------------- MODULE GoogleProofs -----------------------------
(***************************************************************************)
(* Proofs about the Google connection, for any tokens, threads, roles and  *)
(* number of faults.  The row is written column by column against copies   *)
(* that may be stale: the invariants say what a copy still has right.      *)
(***************************************************************************)
EXTENDS GoogleConnection, TLAPS

-----------------------------------------------------------------------------
(* Typing *)

Creds == [there: BOOLEAN, grant: States \union {None}, access: States \union {None},
          dated: BOOLEAN, broken: BOOLEAN, notified: BOOLEAN]
Calls == [pc: {"none", "exchange", "store"}, seen: Creds]

Typed ==
  /\ cred \in Creds
  /\ token \in [States -> {"none", "minted", "expired", "used"}]
  /\ alive \subseteq States /\ cached \in BOOLEAN
  /\ pc \in [Procs -> {"idle", "token", "call", "forced", "again", "notify", "mail"}]
  /\ role \in [Procs -> {"reply", "send", "status", None}]
  /\ copy \in [Procs -> Creds]
  /\ cb \in [States -> Calls]
  /\ mails \in Nat /\ resets \in Nat /\ excused \in BOOLEAN /\ faults \in Nat

-----------------------------------------------------------------------------
(* Invariants *)

(* A grant is stored once, when its token is used up; a thread's copy has    *)
(* the grant of the row, unless a reconnection overtook the thread; and      *)
(* after a forced refresh the copy's access token is of its grant.           *)
MarkInv ==
  /\ BrokenIsDead
  /\ cred.broken => cred.there
  /\ \A s \in States : /\ cb[s].pc # "none" => token[s] = "used"
                       /\ cred.grant = s => token[s] = "used" /\ cb[s].pc = "none"
  /\ \A p \in Procs : /\ pc[p] = "again" => copy[p].access = copy[p].grant
                      /\ ~excused /\ pc[p] # "idle" /\ cred.there => copy[p].grant = cred.grant

(* The reply and the send cycle are phases of one thread; status requests    *)
(* mail nobody.                                                              *)
SoleCycler == \A p, q \in Procs :
  (\E r \in Roles[p] : r # "status") /\ (\E r \in Roles[q] : r # "status") => p = q

Mailing == IF \E p \in Procs : pc[p] = "mail" THEN 1 ELSE 0
Owed == IF cred.there /\ ~cred.notified THEN 1 ELSE 0

(* A thread keeps to its roles, and one that may mail knows of the last mail. *)
Informed(p) ==
  /\ pc[p] # "idle" => role[p] \in Roles[p]
  /\ pc[p] \in {"notify", "mail"} => role[p] # "status"
  /\ pc[p] # "idle" /\ role[p] # "status" => (cred.notified => copy[p].notified)

(* A mail that is on its way, or may be begun without another reset, has     *)
(* been accounted for.                                                       *)
MailInv ==
  /\ \A p \in Procs : Informed(p)
  /\ mails + Mailing + Owed <= resets

-----------------------------------------------------------------------------
(* Steps *)

(* The session of a thread writes what it changed: a reply to Google never   *)
(* touches the grant, so the row keeps it, and the row's flags change only   *)
(* where the copy's do.                                                      *)
LEMMA WriteFields ==
  ASSUME Typed, NEW p \in Procs, NEW new \in Creds,
         new.there = copy[p].there, new.grant = copy[p].grant,
         Write(p, new)
  PROVE  /\ cred' \in Creds
         /\ copy' = [copy EXCEPT ![p] = new]
         /\ cred'.there = cred.there
         /\ cred'.grant = cred.grant
         /\ cred'.broken = (IF new.broken = copy[p].broken THEN cred.broken ELSE new.broken)
         /\ cred'.notified = (IF new.notified = copy[p].notified THEN cred.notified ELSE new.notified)
<1> DEFINE D(c) == IF new[c] = copy[p][c] THEN cred[c] ELSE new[c]
<1>1. cred \in Creds /\ copy[p] \in Creds
  BY DEF Typed
<1>2. DOMAIN cred = {"there", "grant", "access", "dated", "broken", "notified"}
  BY <1>1 DEF Creds
<1>3. cred' = [c \in {"there", "grant", "access", "dated", "broken", "notified"} |-> D(c)]
  BY <1>2 DEF Write
<1>4. copy' = [copy EXCEPT ![p] = new]
  BY DEF Write
<1>5. /\ D("there") \in BOOLEAN /\ D("grant") \in States \union {None}
      /\ D("access") \in States \union {None} /\ D("dated") \in BOOLEAN
      /\ D("broken") \in BOOLEAN /\ D("notified") \in BOOLEAN
  BY <1>1 DEF Creds
<1>6. cred' = [there |-> D("there"), grant |-> D("grant"), access |-> D("access"),
               dated |-> D("dated"), broken |-> D("broken"), notified |-> D("notified")]
  BY <1>3
<1>7. cred' \in Creds
  BY <1>5, <1>6 DEF Creds
<1>8. /\ cred'.there = D("there") /\ cred'.grant = D("grant")
      /\ cred'.broken = D("broken") /\ cred'.notified = D("notified")
  BY <1>6
<1>9. D("there") = cred.there /\ D("grant") = cred.grant
  OBVIOUS
<1>10. /\ D("broken") = (IF new.broken = copy[p].broken THEN cred.broken ELSE new.broken)
       /\ D("notified") = (IF new.notified = copy[p].notified THEN cred.notified ELSE new.notified)
  OBVIOUS
<1> QED BY <1>4, <1>7, <1>8, <1>9, <1>10

(* A session that changed nothing writes nothing. *)
LEMMA WriteNothing ==
  ASSUME Typed, NEW p \in Procs, Write(p, copy[p])
  PROVE  cred' = cred
<1>1. cred \in Creds
  BY DEF Typed
<1>2. cred' = [c \in DOMAIN cred |-> cred[c]]
  BY DEF Write
<1> QED BY <1>1, <1>2 DEF Creds

(* What a refresh leaves in the copy. *)
LEMMA RefreshedRow ==
  ASSUME Typed, NEW p \in Procs, NEW new,
         new = [copy[p] EXCEPT !.access = copy[p].grant, !.dated = TRUE, !.broken = FALSE,
                               !.notified = @ /\ ~copy[p].broken]
  PROVE  /\ new \in Creds
         /\ new.there = copy[p].there /\ new.grant = copy[p].grant /\ new.access = copy[p].grant
         /\ new.broken = FALSE
         /\ new.notified = (copy[p].notified /\ ~copy[p].broken)
<1>1. copy[p] \in Creds
  BY DEF Typed
<1>2. new = [there |-> copy[p].there, grant |-> copy[p].grant, access |-> copy[p].grant, dated |-> TRUE,
             broken |-> FALSE, notified |-> copy[p].notified /\ ~copy[p].broken]
  BY <1>1 DEF Creds
<1> QED BY <1>1, <1>2 DEF Creds

(* What a refusal and a mail leave in the copy: one flag. *)
LEMMA MarkedRow ==
  ASSUME NEW row \in Creds
  PROVE  /\ [row EXCEPT !.broken = TRUE] \in Creds
         /\ [row EXCEPT !.broken = TRUE].there = row.there
         /\ [row EXCEPT !.broken = TRUE].grant = row.grant
         /\ [row EXCEPT !.broken = TRUE].access = row.access
         /\ [row EXCEPT !.broken = TRUE].broken = TRUE
         /\ [row EXCEPT !.broken = TRUE].notified = row.notified
         /\ [row EXCEPT !.notified = TRUE] \in Creds
         /\ [row EXCEPT !.notified = TRUE].there = row.there
         /\ [row EXCEPT !.notified = TRUE].grant = row.grant
         /\ [row EXCEPT !.notified = TRUE].access = row.access
         /\ [row EXCEPT !.notified = TRUE].broken = row.broken
         /\ [row EXCEPT !.notified = TRUE].notified = TRUE
BY DEF Creds

LEMMA NoCredIsARow ==
  /\ NoCred \in Creds /\ ~NoCred.there /\ ~NoCred.broken /\ ~NoCred.notified /\ NoCred.grant = None
BY DEF NoCred, Creds

-----------------------------------------------------------------------------
(* Type correctness *)

LEMMA Goes ==
  ASSUME Typed, NEW p \in Procs, NEW w \in {"idle", "token", "call", "forced", "again", "notify", "mail"},
         Goto(p, w)
  PROVE  pc' \in [Procs -> {"idle", "token", "call", "forced", "again", "notify", "mail"}]
BY DEF Typed, Goto

LEMMA Ends ==
  ASSUME Typed, NEW p \in Procs, Done(p)
  PROVE  /\ pc' \in [Procs -> {"idle", "token", "call", "forced", "again", "notify", "mail"}]
         /\ role' \in [Procs -> {"reply", "send", "status", None}]
         /\ copy' \in [Procs -> Creds]
BY NoCredIsARow DEF Typed, Goto, Done

LEMMA Writes ==
  ASSUME Typed, NEW p \in Procs, NEW new \in Creds,
         new.there = copy[p].there, new.grant = copy[p].grant,
         Write(p, new)
  PROVE  cred' \in Creds /\ copy' \in [Procs -> Creds]
<1>1. cred' \in Creds /\ copy' = [copy EXCEPT ![p] = new]
  BY WriteFields
<1> QED BY <1>1 DEF Typed

LEMMA TypedConsent == ASSUME Typed, NEW s \in States, Consent(s) PROVE Typed'
<1>1. CASE Connect(s) \/ Expire(s)
  BY <1>1 DEF Connect, Expire, Typed, threads, history
<1>2. CASE Callback(s)
  <2>1. cb[s] \in Calls
    BY DEF Typed
  <2>2. ASSUME NEW w \in {"exchange", "none"} PROVE [cb[s] EXCEPT !.pc = w] \in Calls
    BY <2>1 DEF Calls
  <2>3. cb' \in [States -> Calls]
    BY <1>2, <2>2 DEF Callback, Typed
  <2> QED BY <1>2, <2>3 DEF Callback, Typed, threads, history
<1>3. CASE Exchange(s)
  <2>1. [pc |-> "store", seen |-> cred] \in Calls
    BY DEF Typed, Calls
  <2>2. cb' \in [States -> Calls]
    BY <1>3, <2>1 DEF Exchange, Typed
  <2> QED BY <1>3, <2>2 DEF Exchange, Typed, threads, history
<1>4. NoCall \in Calls
  BY NoCredIsARow DEF NoCall, Calls
<1>5. CASE ExchangeFails(s) \/ StoreFails(s)
  <2>1. cb' \in [States -> Calls] /\ faults' \in Nat
    BY <1>4, <1>5 DEF ExchangeFails, StoreFails, Fault, Typed
  <2> QED BY <1>5, <2>1 DEF ExchangeFails, StoreFails, Typed, threads, history
<1>6. CASE Store(s)
  <2>1. cb' \in [States -> Calls]
    BY <1>4, <1>6 DEF Store, Typed
  <2>2. cred' \in Creds
    BY <1>6 DEF Store, Creds
  <2>3. resets' \in Nat /\ excused' \in BOOLEAN
    BY <1>6 DEF Store, Typed
  <2> QED BY <1>6, <2>1, <2>2, <2>3 DEF Store, Typed, threads
<1> QED BY <1>1, <1>2, <1>3, <1>5, <1>6 DEF Consent

LEMMA TypedThread == ASSUME Typed, NEW p \in Procs, Step(p) PROVE Typed'
<1>1. copy[p] \in Creds
  BY DEF Typed
<1>2. CASE UseStored(p)
  BY <1>2, Goes DEF UseStored, Typed, history
<1>3. CASE Refresh(p)
  <2> DEFINE new == [copy[p] EXCEPT !.access = copy[p].grant, !.dated = TRUE, !.broken = FALSE,
                                    !.notified = @ /\ ~copy[p].broken]
  <2>1. new \in Creds /\ new.there = copy[p].there /\ new.grant = copy[p].grant
    BY RefreshedRow
  <2>2. cred' \in Creds /\ copy' \in [Procs -> Creds]
    BY <1>3, <2>1, Writes DEF Refresh
  <2>3. pc' \in [Procs -> {"idle", "token", "call", "forced", "again", "notify", "mail"}]
    BY <1>3, Goes DEF Refresh
  <2>4. resets' \in Nat
    BY <1>3 DEF Refresh, Typed
  <2> QED BY <1>3, <2>2, <2>3, <2>4 DEF Refresh, Typed
<1>4. CASE Refused(p) \/ Misjudged(p)
  <2> DEFINE new == [copy[p] EXCEPT !.broken = TRUE]
  <2>1. new \in Creds /\ new.there = copy[p].there /\ new.grant = copy[p].grant
    BY <1>1, MarkedRow
  <2>2. MarkBroken(p)
    BY <1>4 DEF Refused, Misjudged
  <2>3. excused' \in BOOLEAN /\ faults' \in Nat
    <3>1. excused' \in BOOLEAN
      <4>1. excused \in BOOLEAN
        BY DEF Typed
      <4>2. excused' = excused \/ excused' = TRUE
        BY <1>4 DEF Refused, Misjudged
      <4> QED BY <4>1, <4>2
    <3>2. faults' \in Nat
      <4>1. faults' = faults \/ faults' = faults + 1
        BY <1>4 DEF Refused, Misjudged, Fault
      <4> QED BY <4>1 DEF Typed
    <3> QED BY <3>1, <3>2
  <2>4. CASE role[p] = "status"
    <3>1. cred' \in Creds
      BY <2>2, <2>4 DEF MarkBroken, Typed, Creds
    <3> QED BY <2>2, <2>3, <2>4, <3>1, Ends DEF MarkBroken, Typed
  <2>5. CASE role[p] # "status"
    <3>1. Write(p, new) /\ Goto(p, "notify") /\ role' = role
      BY <2>2, <2>5 DEF MarkBroken
    <3>2. cred' \in Creds /\ copy' \in [Procs -> Creds]
      BY <2>1, <3>1, Writes
    <3> QED BY <2>2, <2>3, <3>1, <3>2, Goes DEF MarkBroken, Typed
  <2> QED BY <2>4, <2>5
<1>5. CASE RefreshFails(p)
  BY <1>5, Ends DEF RefreshFails, Fault, Typed, history
<1>6. CASE NextCall(p)
  BY <1>6, Goes DEF NextCall, Typed, history
<1>7. CASE LastCall(p)
  BY <1>7, Ends DEF LastCall, Typed, history
<1>8. CASE CallRefused(p)
  BY <1>8, Goes DEF CallRefused, Fault, Typed, history
<1>9. CASE CallRefusedAgain(p)
  <2> DEFINE new == [copy[p] EXCEPT !.broken = TRUE]
  <2>1. new \in Creds /\ new.there = copy[p].there /\ new.grant = copy[p].grant
    BY <1>1, MarkedRow
  <2>2. faults' \in Nat /\ excused' \in BOOLEAN
    BY <1>9 DEF CallRefusedAgain, Fault, Typed
  <2>3. CASE role[p] = "send" /\ Writable(p, new)
    <3>1. Write(p, new) /\ Goto(p, "notify") /\ role' = role
      BY <1>9, <2>3 DEF CallRefusedAgain
    <3>2. cred' \in Creds /\ copy' \in [Procs -> Creds]
      BY <2>1, <3>1, Writes
    <3> QED BY <1>9, <2>2, <3>1, <3>2, Goes DEF CallRefusedAgain, Typed
  <2>4. CASE ~(role[p] = "send" /\ Writable(p, new))
    <3>1. Done(p) /\ cred' = cred
      BY <1>9, <2>4 DEF CallRefusedAgain
    <3> QED BY <1>9, <2>2, <3>1, Ends DEF CallRefusedAgain, Typed
  <2> QED BY <2>3, <2>4
<1>10. CASE StatusDone(p)
  BY <1>10, Ends DEF StatusDone, Typed, history
<1>11. CASE Notify(p)
  <2> DEFINE new == [copy[p] EXCEPT !.notified = TRUE]
  <2>1. new \in Creds /\ new.there = copy[p].there /\ new.grant = copy[p].grant
    BY <1>1, MarkedRow
  <2>2. CASE copy[p].broken /\ ~copy[p].notified /\ Writable(p, new)
    <3>1. Write(p, new) /\ Goto(p, "mail") /\ role' = role
      BY <1>11, <2>2 DEF Notify
    <3>2. cred' \in Creds /\ copy' \in [Procs -> Creds]
      BY <2>1, <3>1, Writes
    <3> QED BY <1>11, <3>1, <3>2, Goes DEF Notify, Typed, history
  <2>3. CASE ~(copy[p].broken /\ ~copy[p].notified /\ Writable(p, new))
    <3>1. Done(p) /\ cred' = cred
      BY <1>11, <2>3 DEF Notify
    <3> QED BY <1>11, <3>1, Ends DEF Notify, Typed, history
  <2> QED BY <2>2, <2>3
<1>12. CASE MailRep(p)
  BY <1>12, Ends DEF MailRep, Typed
<1>13. CASE MailFails(p)
  BY <1>13, Ends DEF MailFails, Fault, Typed, history
<1> QED
  BY <1>2, <1>3, <1>4, <1>5, <1>6, <1>7, <1>8, <1>9, <1>10, <1>11, <1>12, <1>13 DEF Step

LEMMA TypedBegin == ASSUME Typed, NEW p \in Procs, NEW r \in Roles[p], Begin(p, r) PROVE Typed'
<1>1. r \in {"reply", "send", "status"}
  BY ProcAssumption
<1>2. pc' \in [Procs -> {"idle", "token", "call", "forced", "again", "notify", "mail"}]
  BY Goes DEF Begin
<1>3. role' \in [Procs -> {"reply", "send", "status", None}] /\ copy' \in [Procs -> Creds]
  BY <1>1 DEF Begin, Typed
<1>4. cached' \in BOOLEAN
  BY DEF Begin, Typed
<1> QED BY <1>2, <1>3, <1>4 DEF Begin, Typed, history

LEMMA TypedRest ==
  ASSUME Typed, (\E s \in States : Revoke(s)) \/ Disconnect \/ TokenAges \/ CheckAges \/ UNCHANGED vars
  PROVE  Typed'
<1>1. CASE (\E s \in States : Revoke(s)) \/ CheckAges
  BY <1>1 DEF Revoke, CheckAges, Typed, threads, history
<1>2. CASE Disconnect
  BY <1>2, NoCredIsARow DEF Disconnect, Typed, threads, history
<1>3. CASE TokenAges
  <2>1. cred' \in Creds
    BY <1>3 DEF TokenAges, Typed, Creds
  <2> QED BY <1>3, <2>1 DEF TokenAges, Typed, threads, history
<1>4. CASE UNCHANGED vars
  BY <1>4 DEF vars, Typed
<1> QED BY <1>1, <1>2, <1>3, <1>4

(* The row, the copies of it and the positions of the threads and requests   *)
(* have their types; whatever the threads, the tokens and the faults.        *)
THEOREM Typing == Spec => []Typed
<1>1. Init => Typed
  <2> SUFFICES ASSUME Init PROVE Typed
    OBVIOUS
  <2>1. NoCall \in Calls
    BY NoCredIsARow DEF NoCall, Calls
  <2>2. cb \in [States -> Calls]
    BY <2>1 DEF Init
  <2>3. cred \in Creds /\ copy \in [Procs -> Creds]
    BY NoCredIsARow DEF Init
  <2>4. /\ token \in [States -> {"none", "minted", "expired", "used"}]
        /\ pc \in [Procs -> {"idle", "token", "call", "forced", "again", "notify", "mail"}]
        /\ role \in [Procs -> {"reply", "send", "status", None}]
    BY DEF Init
  <2>5. /\ alive \subseteq States /\ cached \in BOOLEAN
        /\ mails \in Nat /\ resets \in Nat /\ excused \in BOOLEAN /\ faults \in Nat
    BY DEF Init
  <2> QED BY <2>2, <2>3, <2>4, <2>5 DEF Typed
<1>2. Typed /\ [Next]_vars => Typed'
  BY TypedConsent, TypedThread, TypedBegin, TypedRest DEF Next
<1> QED BY <1>1, <1>2, PTL DEF Spec

-----------------------------------------------------------------------------
(* The mark is on a dead grant *)

(* What a thread's step may do to the row: keep its grant, and set the mark  *)
(* only after Google refused the grant of the thread's copy, or a live one   *)
(* was refused twice or misjudged.                                           *)
RowKept(p) ==
  /\ cred'.there = cred.there /\ cred'.grant = cred.grant
  /\ cred'.broken => \/ cred.broken
                     \/ cred.there /\ (excused' \/ (pc[p] # "idle" /\ copy[p].grant \notin alive))

(* And to its copy: keep the grant, and know the access token after a forced *)
(* refresh.                                                                  *)
CopyKept(p) ==
  /\ pc' = [pc EXCEPT ![p] = pc'[p]] /\ copy' = [copy EXCEPT ![p] = copy'[p]]
  /\ pc'[p] # "idle" => pc[p] # "idle" /\ copy'[p].grant = copy[p].grant
  /\ pc'[p] = "again" => copy'[p].access = copy'[p].grant

Aside == UNCHANGED <<token, alive, cb>> /\ (excused => excused')

LEMMA EndsKept ==
  ASSUME Typed, NEW p \in Procs, Done(p)
  PROVE  CopyKept(p)
BY DEF Done, Goto, CopyKept, Typed

LEMMA GoesKept ==
  ASSUME Typed, NEW p \in Procs, NEW w \in {"token", "call", "forced", "notify", "mail"},
         pc[p] # "idle", Goto(p, w), copy' = copy
  PROVE  CopyKept(p)
BY DEF Goto, CopyKept, Typed

LEMMA WritesKept ==
  ASSUME Typed, NEW p \in Procs, NEW new \in Creds, NEW w \in {"call", "again", "notify", "mail"},
         new.there = copy[p].there, new.grant = copy[p].grant,
         w = "again" => new.access = new.grant,
         pc[p] # "idle", Goto(p, w), Write(p, new)
  PROVE  CopyKept(p)
<1>1. copy' = [copy EXCEPT ![p] = new]
  BY WriteFields
<1>2. copy'[p] = new
  BY <1>1 DEF Typed
<1>3. pc'[p] = w /\ pc' = [pc EXCEPT ![p] = w]
  BY DEF Goto, Typed
<1> QED BY <1>1, <1>2, <1>3 DEF CopyKept

(* A thread that marks the row of a dead grant, or of a live one that was    *)
(* refused twice.                                                            *)
LEMMA MarksKept ==
  ASSUME Typed, NEW p \in Procs, pc[p] # "idle",
         Writable(p, [copy[p] EXCEPT !.broken = TRUE]),
         Write(p, [copy[p] EXCEPT !.broken = TRUE]),
         excused' \/ copy[p].grant \notin alive
  PROVE  RowKept(p)
<1> DEFINE new == [copy[p] EXCEPT !.broken = TRUE]
<1>1. copy[p] \in Creds
  BY DEF Typed
<1>2. new \in Creds /\ new.there = copy[p].there /\ new.grant = copy[p].grant
  BY <1>1, MarkedRow
<1> HIDE DEF new
<1>3. Write(p, new) /\ Writable(p, new)
  BY DEF new
<1>4. cred'.there = cred.there /\ cred'.grant = cred.grant
  BY <1>2, <1>3, WriteFields
<1>5. CASE cred.there
  BY <1>4, <1>5 DEF RowKept
<1>6. CASE ~cred.there
  <2>1. new = copy[p]
    BY <1>3, <1>6 DEF Writable
  <2>2. cred' = cred
    BY <1>3, <2>1, WriteNothing
  <2> QED BY <2>2 DEF RowKept
<1> QED BY <1>5, <1>6

LEMMA ThreadKeeps ==
  ASSUME Typed, MarkInv, NEW p \in Procs, Step(p)
  PROVE  RowKept(p) /\ CopyKept(p) /\ Aside
<1>1. copy[p] \in Creds
  BY DEF Typed
<1>2. CASE UseStored(p) \/ NextCall(p) \/ CallRefused(p)
  <2>1. pc[p] # "idle" /\ copy' = copy /\ cred' = cred /\ (Goto(p, "call") \/ Goto(p, "token") \/ Goto(p, "forced"))
    BY <1>2 DEF UseStored, NextCall, CallRefused
  <2>2. CopyKept(p)
    BY <2>1, GoesKept
  <2>3. RowKept(p)
    BY <2>1 DEF RowKept
  <2> QED BY <1>2, <2>2, <2>3 DEF UseStored, NextCall, CallRefused, Aside, history
<1>3. CASE RefreshFails(p) \/ LastCall(p) \/ StatusDone(p) \/ MailRep(p) \/ MailFails(p)
  <2>1. Done(p) /\ cred' = cred /\ UNCHANGED <<token, alive, cb>> /\ excused' = excused
    BY <1>3 DEF RefreshFails, LastCall, StatusDone, MailRep, MailFails, history
  <2> QED BY <2>1, EndsKept DEF RowKept, Aside
<1>4. CASE Refresh(p)
  <2> DEFINE new == [copy[p] EXCEPT !.access = copy[p].grant, !.dated = TRUE, !.broken = FALSE,
                                    !.notified = @ /\ ~copy[p].broken]
  <2>1. /\ new \in Creds /\ new.there = copy[p].there /\ new.grant = copy[p].grant
        /\ new.access = copy[p].grant /\ new.broken = FALSE
    BY ZenonT(60), RefreshedRow
  <2>2. Write(p, new) /\ pc[p] # "idle"
    BY <1>4 DEF Refresh, Refreshing
  <2>3. Goto(p, "again") \/ Goto(p, "call")
    BY <1>4 DEF Refresh
  <2> HIDE DEF new
  <2>4. CopyKept(p)
    BY <2>1, <2>2, <2>3, WritesKept
  <2>5. cred'.there = cred.there /\ cred'.grant = cred.grant /\ (cred'.broken => cred.broken)
    BY <2>1, <2>2, WriteFields
  <2>6. RowKept(p)
    BY <2>5 DEF RowKept
  <2> QED BY <1>4, <2>4, <2>6 DEF Refresh, Aside
<1>5. CASE Refused(p) \/ Misjudged(p)
  <2> DEFINE new == [copy[p] EXCEPT !.broken = TRUE]
  <2>1. /\ pc[p] # "idle" /\ Writable(p, new) /\ UNCHANGED <<token, alive, cb>>
        /\ excused' \/ copy[p].grant \notin alive
        /\ excused => excused'
    BY <1>5 DEF Refused, Misjudged, MarkBroken, Refreshing
  <2>2. CASE role[p] = "status"
    <3>1. Done(p) /\ cred' = [cred EXCEPT !.broken = @ \/ ~copy[p].broken]
      BY <1>5, <2>2 DEF Refused, Misjudged, MarkBroken
    <3>2. /\ cred'.there = cred.there /\ cred'.grant = cred.grant
          /\ cred'.broken = (cred.broken \/ ~copy[p].broken)
      BY <3>1 DEF Typed, Creds
    <3>3. cred'.broken => cred.broken \/ ~copy[p].broken
      BY <3>2
    <3>4. ~cred.there => copy[p].broken
      <4>1. new.broken = TRUE
        BY <1>1, MarkedRow
      <4> HIDE DEF new
      <4>2. ~cred.there => new = copy[p]
        BY <2>1 DEF Writable
      <4> QED BY <4>1, <4>2
    <3>5. cred.there \in BOOLEAN
      BY DEF Typed, Creds
    <3>6. RowKept(p)
      BY <2>1, <3>2, <3>3, <3>4, <3>5 DEF RowKept
    <3> QED BY <2>1, <3>1, <3>6, EndsKept DEF Aside
  <2>3. CASE role[p] # "status"
    <3>1. Write(p, new) /\ Goto(p, "notify")
      BY <1>5, <2>3 DEF Refused, Misjudged, MarkBroken
    <3>2. RowKept(p)
      BY <2>1, <3>1, MarksKept
    <3>3. new \in Creds /\ new.there = copy[p].there /\ new.grant = copy[p].grant
      BY <1>1, MarkedRow
    <3> HIDE DEF new
    <3>4. CopyKept(p)
      BY <2>1, <3>1, <3>3, WritesKept
    <3> QED BY <2>1, <3>2, <3>4 DEF Aside
  <2> QED BY <2>2, <2>3
<1>6. CASE CallRefusedAgain(p)
  <2> DEFINE new == [copy[p] EXCEPT !.broken = TRUE]
  <2>1. pc[p] # "idle" /\ (excused' \/ copy[p].grant \notin alive)
    BY <1>6 DEF CallRefusedAgain, MarkInv
  <2>2. Aside
    BY <1>6 DEF CallRefusedAgain, Aside
  <2>3. CASE role[p] = "send" /\ Writable(p, new)
    <3>1. Write(p, new) /\ Goto(p, "notify")
      BY <1>6, <2>3 DEF CallRefusedAgain
    <3>2. RowKept(p)
      BY <2>1, <2>3, <3>1, MarksKept
    <3>3. new \in Creds /\ new.there = copy[p].there /\ new.grant = copy[p].grant
      BY <1>1, MarkedRow
    <3> HIDE DEF new
    <3>4. CopyKept(p)
      BY <2>1, <3>1, <3>3, WritesKept
    <3> QED BY <2>2, <3>2, <3>4
  <2>4. CASE ~(role[p] = "send" /\ Writable(p, new))
    <3>1. Done(p) /\ cred' = cred
      BY <1>6, <2>4 DEF CallRefusedAgain
    <3> QED BY <2>2, <3>1, EndsKept DEF RowKept
  <2> QED BY <2>3, <2>4
<1>7. CASE Notify(p)
  <2> DEFINE new == [copy[p] EXCEPT !.notified = TRUE]
  <2>1. pc[p] # "idle" /\ Aside
    BY <1>7 DEF Notify, Aside, history
  <2>2. /\ new \in Creds /\ new.there = copy[p].there /\ new.grant = copy[p].grant
        /\ new.broken = copy[p].broken
    BY <1>1, MarkedRow
  <2>3. CASE copy[p].broken /\ ~copy[p].notified /\ Writable(p, new)
    <3>1. Write(p, new) /\ Goto(p, "mail")
      BY <1>7, <2>3 DEF Notify
    <3> HIDE DEF new
    <3>2. cred'.there = cred.there /\ cred'.grant = cred.grant /\ cred'.broken = cred.broken
      BY <2>2, <3>1, WriteFields
    <3>3. CopyKept(p)
      BY <2>1, <2>2, <3>1, WritesKept
    <3> QED BY <2>1, <3>2, <3>3 DEF RowKept
  <2>4. CASE ~(copy[p].broken /\ ~copy[p].notified /\ Writable(p, new))
    <3>1. Done(p) /\ cred' = cred
      BY <1>7, <2>4 DEF Notify
    <3> QED BY <2>1, <3>1, EndsKept DEF RowKept
  <2> QED BY <2>3, <2>4
<1> QED
  BY <1>2, <1>3, <1>4, <1>5, <1>6, <1>7 DEF Step

LEMMA MarkThread == ASSUME Typed, MarkInv, NEW p \in Procs, Step(p) PROVE MarkInv'
<1>1. RowKept(p) /\ CopyKept(p) /\ Aside
  BY ThreadKeeps
<1>2. cred.broken => cred.there /\ (cred.grant \notin alive \/ excused)
  BY DEF MarkInv, BrokenIsDead, Dead
<1>3. ~excused /\ pc[p] # "idle" /\ cred.there => copy[p].grant = cred.grant
  BY DEF MarkInv
<1>4. cred'.broken => cred'.there /\ (cred'.grant \notin alive' \/ excused')
  BY <1>1, <1>2, <1>3 DEF RowKept, Aside
<1>5. ASSUME NEW s \in States
      PROVE  /\ cb'[s].pc # "none" => token'[s] = "used"
             /\ cred'.grant = s => token'[s] = "used" /\ cb'[s].pc = "none"
  BY <1>1 DEF RowKept, Aside, MarkInv
<1>6. ASSUME NEW q \in Procs
      PROVE  /\ pc'[q] = "again" => copy'[q].access = copy'[q].grant
             /\ ~excused' /\ pc'[q] # "idle" /\ cred'.there => copy'[q].grant = cred'.grant
  <2>1. CASE q = p
    BY <1>1, <1>3, <2>1 DEF RowKept, CopyKept, Aside
  <2>2. CASE q # p
    <3>1. pc'[q] = pc[q] /\ copy'[q] = copy[q]
      BY <1>1, <2>2 DEF CopyKept, Typed
    <3> QED BY <1>1, <3>1 DEF RowKept, Aside, MarkInv
  <2> QED BY <2>1, <2>2
<1> QED BY <1>4, <1>5, <1>6 DEF MarkInv, BrokenIsDead, Dead

LEMMA MarkConsent == ASSUME Typed, MarkInv, NEW s \in States, Consent(s) PROVE MarkInv'
<1>1. CASE Connect(s) \/ Expire(s)
  <2>1. UNCHANGED <<cred, alive, cb, pc, copy, excused>>
    BY <1>1 DEF Connect, Expire, threads, history
  <2>2. \A t \in States : token[t] = "used" => token'[t] = "used"
    BY <1>1 DEF Connect, Expire, Typed
  <2> QED BY <2>1, <2>2 DEF MarkInv, BrokenIsDead, Dead
<1>2. CASE Callback(s)
  <2>1. UNCHANGED <<cred, alive, pc, copy, excused>>
    BY <1>2 DEF Callback, threads, history
  <2>2. \A t \in States : IF t = s THEN token'[t] = "used" ELSE token'[t] = token[t] /\ cb'[t] = cb[t]
    BY <1>2 DEF Callback, Typed
  <2>3. cred.grant # s
    BY <1>2 DEF Callback, MarkInv
  <2>4. \A t \in States : /\ cb'[t].pc # "none" => token'[t] = "used"
                          /\ cred.grant = t => token'[t] = "used" /\ cb'[t].pc = "none"
    BY <2>2, <2>3 DEF MarkInv
  <2> QED BY <2>1, <2>4 DEF MarkInv, BrokenIsDead, Dead
<1>3. CASE Exchange(s)
  <2>1. UNCHANGED <<cred, token, pc, copy, excused>> /\ alive' = alive \union {s}
    BY <1>3 DEF Exchange, threads, history
  <2>2. cred.grant # s /\ token[s] = "used"
    BY <1>3 DEF Exchange, MarkInv
  <2>3. \A t \in States : t # s => cb'[t] = cb[t]
    BY <1>3 DEF Exchange, Typed
  <2>4. \A t \in States : /\ cb'[t].pc # "none" => token'[t] = "used"
                          /\ cred.grant = t => token'[t] = "used" /\ cb'[t].pc = "none"
    BY <2>1, <2>2, <2>3 DEF MarkInv
  <2> QED BY <2>1, <2>2, <2>4 DEF MarkInv, BrokenIsDead, Dead
<1>4. CASE ExchangeFails(s) \/ StoreFails(s)
  <2>1. UNCHANGED <<cred, token, alive, pc, copy, excused>>
    BY <1>4 DEF ExchangeFails, StoreFails, threads, history
  <2>2. \A t \in States : cb'[t] = cb[t] \/ cb'[t].pc = "none"
    BY <1>4 DEF ExchangeFails, StoreFails, NoCall, Typed
  <2>3. \A t \in States : /\ cb'[t].pc # "none" => token'[t] = "used"
                          /\ cred.grant = t => token'[t] = "used" /\ cb'[t].pc = "none"
    BY <2>1, <2>2 DEF MarkInv
  <2> QED BY <2>1, <2>3 DEF MarkInv, BrokenIsDead, Dead
<1>5. CASE Store(s)
  <2>1. UNCHANGED <<token, alive, pc, copy>> /\ token[s] = "used"
    BY <1>5 DEF Store, threads, MarkInv
  <2>2. \A t \in States : IF t = s THEN cb'[t].pc = "none" ELSE cb'[t] = cb[t]
    BY <1>5 DEF Store, NoCall, Typed
  <2>3. /\ cred'.there /\ cred'.grant = s
        /\ cred'.broken = (cred.broken /\ ~cb[s].seen.broken)
    BY <1>5 DEF Store
  <2>4. ~excused' => /\ cred = cb[s].seen
                     /\ \A p \in Procs : pc[p] = "idle"
    BY <1>5 DEF Store
  <2>5. excused' \/ ~cred'.broken
    BY <2>3, <2>4
  <2>6. \A t \in States : /\ cb'[t].pc # "none" => token'[t] = "used"
                          /\ cred'.grant = t => token'[t] = "used" /\ cb'[t].pc = "none"
    BY <2>1, <2>2, <2>3 DEF MarkInv
  <2>7. \A p \in Procs : /\ pc'[p] = "again" => copy'[p].access = copy'[p].grant
                         /\ ~excused' /\ pc'[p] # "idle" /\ cred'.there => copy'[p].grant = cred'.grant
    BY <2>1, <2>4 DEF MarkInv
  <2> QED BY <2>3, <2>5, <2>6, <2>7 DEF MarkInv, BrokenIsDead, Dead
<1> QED BY <1>1, <1>2, <1>3, <1>4, <1>5 DEF Consent

LEMMA MarkBegin == ASSUME Typed, MarkInv, NEW p \in Procs, NEW r \in Roles[p], Begin(p, r) PROVE MarkInv'
<1>1. UNCHANGED <<cred, token, alive, cb, excused>>
  BY DEF Begin, history
<1>2. \A q \in Procs : IF q = p THEN pc'[q] = "token" /\ copy'[q] = cred
                                ELSE pc'[q] = pc[q] /\ copy'[q] = copy[q]
  BY DEF Begin, Goto, Typed
<1>3. \A q \in Procs : /\ pc'[q] = "again" => copy'[q].access = copy'[q].grant
                       /\ ~excused' /\ pc'[q] # "idle" /\ cred'.there => copy'[q].grant = cred'.grant
  BY <1>1, <1>2 DEF MarkInv
<1> QED BY <1>1, <1>3 DEF MarkInv, BrokenIsDead, Dead

LEMMA MarkRest ==
  ASSUME Typed, MarkInv, (\E s \in States : Revoke(s)) \/ Disconnect \/ TokenAges \/ CheckAges \/ UNCHANGED vars
  PROVE  MarkInv'
<1>1. CASE \E s \in States : Revoke(s)
  <2>1. UNCHANGED <<cred, token, cb, pc, copy, excused>> /\ alive' \subseteq alive
    BY <1>1 DEF Revoke, threads, history
  <2> QED BY <2>1 DEF MarkInv, BrokenIsDead, Dead
<1>2. CASE CheckAges \/ UNCHANGED vars
  <2>1. UNCHANGED <<cred, token, alive, cb, pc, copy, excused>>
    BY <1>2 DEF CheckAges, vars, threads, history
  <2> QED BY <2>1 DEF MarkInv, BrokenIsDead, Dead
<1>3. CASE Disconnect
  <2>1. UNCHANGED <<token, alive, cb, pc, copy, excused>> /\ cred' = NoCred
    BY <1>3 DEF Disconnect, threads, history
  <2>2. \A s \in States : cred'.grant # s
    BY <2>1, NoCredIsARow, ConnectionNoneAssumption
  <2> QED BY <2>1, <2>2, NoCredIsARow DEF MarkInv, BrokenIsDead, Dead
<1>4. CASE TokenAges
  <2>1. UNCHANGED <<token, alive, cb, pc, copy, excused>> /\ cred' = [cred EXCEPT !.dated = FALSE]
    BY <1>4 DEF TokenAges, threads, history
  <2>2. cred'.there = cred.there /\ cred'.grant = cred.grant /\ cred'.broken = cred.broken
    BY <2>1 DEF Typed, Creds
  <2> QED BY <2>1, <2>2 DEF MarkInv, BrokenIsDead, Dead
<1> QED BY <1>1, <1>2, <1>3, <1>4

(* A connection is marked broken only while its grant is dead at Google.     *)
(* The three exceptions are steps of the model, not assumed away: a consent  *)
(* finished while a thread still worked with the grant before, Google        *)
(* refused a live grant twice in a row, or its token endpoint answered a     *)
(* refresh of a live grant with 400 or 401.  Any number of cycles and status *)
(* requests may work at once; each writes its stale copy back column by      *)
(* column.                                                                   *)
THEOREM MarkedIsDead == Spec => []BrokenIsDead
<1>1. Init => MarkInv
  BY NoCredIsARow, ConnectionNoneAssumption DEF Init, MarkInv, BrokenIsDead, NoCall
<1>2. Typed /\ MarkInv /\ [Next]_vars => MarkInv'
  BY MarkConsent, MarkThread, MarkBegin, MarkRest DEF Next
<1>3. MarkInv => BrokenIsDead
  BY DEF MarkInv
<1> QED BY <1>1, <1>2, <1>3, Typing, PTL DEF Spec

-----------------------------------------------------------------------------
(* The rep is told once *)

(* A step of p that mails nobody: it may clear the flag, and counts that.    *)
MailsNobody(p) ==
  /\ pc' = [pc EXCEPT ![p] = pc'[p]] /\ copy' = [copy EXCEPT ![p] = copy'[p]]
  /\ role' = [role EXCEPT ![p] = role'[p]]
  /\ pc'[p] # "idle" => pc[p] # "idle" /\ role'[p] = role[p]
  /\ pc'[p] # "mail" /\ (pc'[p] = "notify" => role[p] # "status")
  /\ cred'.there = cred.there
  /\ cred'.notified => cred.notified
  /\ pc'[p] # "idle" /\ cred'.notified /\ copy[p].notified => copy'[p].notified
  /\ mails' = mails /\ resets' \in Nat /\ resets' >= resets
  /\ cred.notified /\ ~cred'.notified => resets' = resets + 1

(* What is mailed, under way and owed stays within the resets.               *)
LEMMA Account ==
  ASSUME NEW m \in Nat, NEW r \in Nat, NEW rr \in Nat,
         NEW a \in {0, 1}, NEW aa \in {0, 1}, NEW o \in {0, 1}, NEW oo \in {0, 1},
         m + a + o <= r, rr >= r, aa <= a, oo = 1 /\ o = 0 => rr = r + 1
  PROVE  m + aa + oo <= rr
<1>1. CASE oo <= o
  BY <1>1
<1>2. CASE oo = 1 /\ o = 0
  BY <1>2
<1> QED BY <1>1, <1>2

LEMMA QuietThread ==
  ASSUME Typed, MailInv, NEW p \in Procs, MailsNobody(p)
  PROVE  MailInv'
<1>1. ASSUME NEW q \in Procs PROVE Informed(q)'
  <2>1. Informed(q)
    BY DEF MailInv
  <2>2. CASE q = p
    BY <2>1, <2>2 DEF MailsNobody, Informed
  <2>3. CASE q # p
    <3>1. pc'[q] = pc[q] /\ role'[q] = role[q] /\ copy'[q] = copy[q]
      BY <2>3 DEF MailsNobody, Typed
    <3>2. cred'.notified => cred.notified
      BY DEF MailsNobody
    <3> QED BY <2>1, <3>1, <3>2 DEF Informed
  <2> QED BY <2>2, <2>3
<1>2. \A q \in Procs : pc'[q] = "mail" => pc[q] = "mail"
  <2> TAKE q \in Procs
  <2>1. pc'[p] # "mail"
    BY DEF MailsNobody
  <2>2. q # p => pc'[q] = pc[q]
    BY DEF MailsNobody, Typed
  <2> QED BY <2>1, <2>2
<1>3. Mailing \in {0, 1} /\ Mailing' \in {0, 1} /\ Mailing' <= Mailing
  BY <1>2 DEF Mailing
<1>4. Owed \in {0, 1} /\ Owed' \in {0, 1}
  BY DEF Owed
<1>5. Owed' = 1 /\ Owed = 0 => resets' = resets + 1
  BY DEF Owed, MailsNobody
<1>6. mails \in Nat /\ resets \in Nat /\ mails + Mailing + Owed <= resets
  BY DEF Typed, MailInv
<1>7. mails' = mails /\ resets' \in Nat /\ resets' >= resets
  BY DEF MailsNobody
<1>8. mails' + Mailing' + Owed' <= resets'
  BY ZenonT(60), <1>3, <1>4, <1>5, <1>6, <1>7, Account
<1> QED BY <1>1, <1>8 DEF MailInv

LEMMA EndsQuietly ==
  ASSUME Typed, NEW p \in Procs, Done(p), cred' = cred, mails' = mails, resets' = resets
  PROVE  MailsNobody(p)
<1>1. pc' = [pc EXCEPT ![p] = pc'[p]] /\ pc'[p] = "idle"
  BY DEF Done, Goto, Typed
<1>2. copy' = [copy EXCEPT ![p] = copy'[p]] /\ role' = [role EXCEPT ![p] = role'[p]]
  BY DEF Done, Typed
<1> QED BY <1>1, <1>2 DEF MailsNobody, Typed

LEMMA GoesQuietly ==
  ASSUME Typed, NEW p \in Procs, NEW w \in {"token", "call", "forced"}, pc[p] # "idle",
         Goto(p, w), role' = role, copy' = copy, cred' = cred, mails' = mails, resets' = resets
  PROVE  MailsNobody(p)
<1>1. pc' = [pc EXCEPT ![p] = pc'[p]] /\ pc'[p] = w
  BY DEF Goto, Typed
<1>2. copy' = [copy EXCEPT ![p] = copy'[p]] /\ role' = [role EXCEPT ![p] = role'[p]]
  BY DEF Typed
<1> QED BY <1>1, <1>2 DEF MailsNobody, Typed

(* A thread other than a status request marks the connection.                *)
LEMMA MarksQuietly ==
  ASSUME Typed, NEW p \in Procs, pc[p] # "idle", role[p] # "status",
         Write(p, [copy[p] EXCEPT !.broken = TRUE]), Goto(p, "notify"),
         role' = role, mails' = mails, resets' = resets
  PROVE  MailsNobody(p)
<1> DEFINE new == [copy[p] EXCEPT !.broken = TRUE]
<1>1. copy[p] \in Creds
  BY DEF Typed
<1>2. /\ new \in Creds /\ new.there = copy[p].there /\ new.grant = copy[p].grant
      /\ new.notified = copy[p].notified
  BY <1>1, MarkedRow
<1> HIDE DEF new
<1>3. Write(p, new)
  BY DEF new
<1>4. copy' = [copy EXCEPT ![p] = new] /\ cred'.there = cred.there /\ cred'.notified = cred.notified
  BY <1>2, <1>3, WriteFields
<1>5. copy' = [copy EXCEPT ![p] = copy'[p]] /\ copy'[p] = new
  BY <1>4 DEF Typed
<1>6. pc' = [pc EXCEPT ![p] = pc'[p]] /\ pc'[p] = "notify" /\ role' = [role EXCEPT ![p] = role'[p]]
  BY DEF Goto, Typed
<1>7. copy'[p].notified = copy[p].notified
  BY <1>2, <1>5
<1> QED BY <1>4, <1>5, <1>6, <1>7 DEF MailsNobody, Typed

(* Who is at a mail is a cycle, and there is one.                            *)
LEMMA OneMails ==
  ASSUME SoleCycler, MailInv, NEW p \in Procs, NEW q \in Procs,
         pc[p] # "idle" /\ role[p] # "status", pc[q] # "idle" /\ role[q] # "status"
  PROVE  p = q
<1>1. role[p] \in Roles[p] /\ role[q] \in Roles[q]
  BY DEF MailInv, Informed
<1> QED BY <1>1 DEF SoleCycler

LEMMA MailThread == ASSUME SoleCycler, Typed, MailInv, NEW p \in Procs, Step(p) PROVE MailInv'
<1>1. copy[p] \in Creds
  BY DEF Typed
<1>2. CASE UseStored(p) \/ NextCall(p) \/ CallRefused(p)
  <2>1. /\ pc[p] # "idle" /\ UNCHANGED <<role, copy, cred, mails, resets>>
        /\ Goto(p, "call") \/ Goto(p, "token") \/ Goto(p, "forced")
    BY <1>2 DEF UseStored, NextCall, CallRefused, history
  <2> QED BY <2>1, GoesQuietly, QuietThread
<1>3. CASE RefreshFails(p) \/ LastCall(p) \/ StatusDone(p) \/ MailFails(p)
  <2>1. Done(p) /\ UNCHANGED <<cred, mails, resets>>
    BY <1>3 DEF RefreshFails, LastCall, StatusDone, MailFails, history
  <2> QED BY <2>1, EndsQuietly, QuietThread
<1>4. CASE Refresh(p)
  <2> DEFINE new == [copy[p] EXCEPT !.access = copy[p].grant, !.dated = TRUE, !.broken = FALSE,
                                    !.notified = @ /\ ~copy[p].broken]
  <2>1. /\ new \in Creds /\ new.there = copy[p].there /\ new.grant = copy[p].grant
        /\ new.notified = (copy[p].notified /\ ~copy[p].broken)
    BY ZenonT(60), RefreshedRow
  <2>2. /\ Write(p, new) /\ pc[p] # "idle" /\ mails' = mails /\ role' = role
        /\ resets' = resets + (IF copy[p].broken THEN 1 ELSE 0)
    BY <1>4 DEF Refresh, Refreshing
  <2>3. Goto(p, "again") \/ Goto(p, "call")
    BY <1>4 DEF Refresh
  <2> HIDE DEF new
  <2>4. /\ copy' = [copy EXCEPT ![p] = new] /\ cred'.there = cred.there
        /\ cred'.notified = (IF new.notified = copy[p].notified THEN cred.notified ELSE new.notified)
    BY <2>1, <2>2, WriteFields
  <2>5. copy' = [copy EXCEPT ![p] = copy'[p]] /\ copy'[p] = new
    BY <2>4 DEF Typed
  <2>6. pc' = [pc EXCEPT ![p] = pc'[p]] /\ pc'[p] \in {"again", "call"} /\ role' = [role EXCEPT ![p] = role'[p]]
    BY <2>2, <2>3 DEF Goto, Typed
  <2>7. CASE ~copy[p].broken
    <3>1. new.notified = copy[p].notified
      BY <1>1, <2>1, <2>7 DEF Creds
    <3>2. resets' = resets /\ resets' \in Nat /\ resets' >= resets
      BY <2>2, <2>7 DEF Typed
    <3>3. cred'.notified = cred.notified
      BY <2>4, <3>1
    <3>4. MailsNobody(p)
      BY <2>2, <2>4, <2>5, <2>6, <3>1, <3>2, <3>3 DEF MailsNobody
    <3> QED BY <3>4, QuietThread
  <2>8. CASE copy[p].broken
    <3>1. ~new.notified
      BY <2>1, <2>8
    <3>2. resets' = resets + 1 /\ resets' \in Nat /\ resets' >= resets
      BY <2>2, <2>8 DEF Typed
    <3>3. cred'.notified => cred.notified
      BY <2>4, <3>1
    <3>4. cred'.notified => ~copy[p].notified
      BY <1>1, <2>1, <2>4, <3>1 DEF Creds
    <3>5. MailsNobody(p)
      BY <2>2, <2>4, <2>5, <2>6, <3>2, <3>3, <3>4 DEF MailsNobody
    <3> QED BY <3>5, QuietThread
  <2> QED BY <2>7, <2>8
<1>5. CASE Refused(p) \/ Misjudged(p)
  <2>1. pc[p] # "idle" /\ UNCHANGED <<mails, resets>>
    BY <1>5 DEF Refused, Misjudged, MarkBroken, Refreshing
  <2>2. CASE role[p] = "status"
    <3>1. Done(p) /\ cred' = [cred EXCEPT !.broken = @ \/ ~copy[p].broken]
      BY <1>5, <2>2 DEF Refused, Misjudged, MarkBroken
    <3>2. cred'.there = cred.there /\ cred'.notified = cred.notified
      BY <3>1 DEF Typed, Creds
    <3>3. pc' = [pc EXCEPT ![p] = pc'[p]] /\ pc'[p] = "idle"
      BY <3>1 DEF Done, Goto, Typed
    <3>4. copy' = [copy EXCEPT ![p] = copy'[p]] /\ role' = [role EXCEPT ![p] = role'[p]]
      BY <3>1 DEF Done, Typed
    <3> QED BY <2>1, <3>2, <3>3, <3>4, QuietThread DEF MailsNobody, Typed
  <2>3. CASE role[p] # "status"
    <3>1. Write(p, [copy[p] EXCEPT !.broken = TRUE]) /\ Goto(p, "notify") /\ role' = role
      BY <1>5, <2>3 DEF Refused, Misjudged, MarkBroken
    <3> QED BY <2>1, <2>3, <3>1, MarksQuietly, QuietThread
  <2> QED BY <2>2, <2>3
<1>6. CASE CallRefusedAgain(p)
  <2>1. pc[p] # "idle" /\ role[p] # "status" /\ UNCHANGED <<mails, resets>>
    BY <1>6 DEF CallRefusedAgain
  <2>2. \/ Write(p, [copy[p] EXCEPT !.broken = TRUE]) /\ Goto(p, "notify") /\ role' = role
        \/ Done(p) /\ cred' = cred
    BY <1>6 DEF CallRefusedAgain
  <2> QED BY <2>1, <2>2, MarksQuietly, EndsQuietly, QuietThread
<1>7. CASE Notify(p)
  <2> DEFINE new == [copy[p] EXCEPT !.notified = TRUE]
  <2>1. pc[p] = "notify" /\ UNCHANGED <<mails, resets>>
    BY <1>7 DEF Notify, history
  <2>2. CASE ~(copy[p].broken /\ ~copy[p].notified /\ Writable(p, new))
    <3>1. Done(p) /\ cred' = cred
      BY <1>7, <2>2 DEF Notify
    <3> QED BY <2>1, <3>1, EndsQuietly, QuietThread
  <2>3. CASE copy[p].broken /\ ~copy[p].notified /\ Writable(p, new)
    <3>1. /\ new \in Creds /\ new.there = copy[p].there /\ new.grant = copy[p].grant
          /\ new.notified = TRUE
      BY <1>1, MarkedRow
    <3>2. Write(p, new) /\ Goto(p, "mail") /\ role' = role
      BY <1>7, <2>3 DEF Notify
    <3> HIDE DEF new
    <3>3. role[p] # "status" /\ (cred.notified => copy[p].notified)
      BY <2>1 DEF MailInv, Informed
    <3>4. ~cred.notified
      BY <2>3, <3>3
    <3>5. cred.there
      <4>1. new # copy[p]
        BY <2>3, <3>1
      <4> QED BY <2>3, <4>1 DEF Writable
    <3>6. /\ copy' = [copy EXCEPT ![p] = new] /\ cred'.there = cred.there
          /\ cred'.notified = (IF new.notified = copy[p].notified THEN cred.notified ELSE new.notified)
      BY <3>1, <3>2, WriteFields
    <3>7. cred'.notified
      <4>1. new.notified # copy[p].notified
        BY <2>3, <3>1
      <4> QED BY <3>1, <3>6, <4>1
    <3>8. \A q \in Procs : pc[q] # "mail"
      <4> SUFFICES ASSUME NEW q \in Procs, pc[q] = "mail" PROVE FALSE
        OBVIOUS
      <4>1. role[q] # "status"
        BY DEF MailInv, Informed
      <4>2. p = q
        BY <2>1, <3>3, <4>1, OneMails
      <4> QED BY <2>1, <4>2
    <3>9. pc'[p] = "mail" /\ copy'[p] = new
      BY <3>2, <3>6 DEF Goto, Typed
    <3>10. ASSUME NEW q \in Procs PROVE Informed(q)'
      <4>1. Informed(q)
        BY DEF MailInv
      <4>2. CASE q = p
        BY <2>1, <3>1, <3>2, <3>3, <3>9, <4>1, <4>2 DEF Informed
      <4>3. CASE q # p
        <5>1. pc'[q] = pc[q] /\ role'[q] = role[q]
          BY <3>2, <4>3 DEF Goto, Typed
        <5>2. pc[q] = "idle" \/ role[q] = "status"
          BY <2>1, <3>3, <4>3, OneMails
        <5> QED BY <4>1, <5>1, <5>2 DEF Informed
      <4> QED BY <4>2, <4>3
    <3>11. Mailing = 0 /\ Mailing' = 1 /\ Owed = 1 /\ Owed' = 0
      BY <3>4, <3>5, <3>7, <3>8, <3>9 DEF Mailing, Owed
    <3>12. mails + 0 + 1 <= resets
      BY <3>11 DEF MailInv
    <3>13. mails' + Mailing' + Owed' <= resets'
      BY <2>1, <3>11, <3>12 DEF Typed
    <3> QED BY <3>10, <3>13 DEF MailInv
  <2> QED BY <2>2, <2>3
<1>8. CASE MailRep(p)
  <2>1. pc[p] = "mail" /\ mails' = mails + 1 /\ Done(p) /\ UNCHANGED <<cred, resets>>
    BY <1>8 DEF MailRep
  <2>2. \A q \in Procs : IF q = p THEN pc'[q] = "idle"
                         ELSE pc'[q] = pc[q] /\ role'[q] = role[q] /\ copy'[q] = copy[q]
    BY <2>1 DEF Done, Goto, Typed
  <2>3. ASSUME NEW q \in Procs PROVE Informed(q)'
    <3>1. Informed(q)
      BY DEF MailInv
    <3> QED BY <2>1, <2>2, <3>1 DEF Informed
  <2>4. \A q \in Procs : pc'[q] # "mail"
    <3> SUFFICES ASSUME NEW q \in Procs, pc'[q] = "mail" PROVE FALSE
      OBVIOUS
    <3>1. q # p /\ pc[q] = "mail"
      BY <2>2
    <3>2. role[q] # "status" /\ role[p] # "status"
      BY <2>1, <3>1 DEF MailInv, Informed
    <3> QED BY <2>1, <3>1, <3>2, OneMails
  <2>5. Mailing = 1 /\ Mailing' = 0 /\ Owed' = Owed /\ Owed \in {0, 1}
    BY <2>1, <2>4 DEF Mailing, Owed
  <2>6. mails + 1 + Owed <= resets
    BY <2>5 DEF MailInv
  <2>7. mails' + Mailing' + Owed' <= resets'
    BY <2>1, <2>5, <2>6 DEF Typed
  <2> QED BY <2>3, <2>7 DEF MailInv
<1> QED BY <1>2, <1>3, <1>4, <1>5, <1>6, <1>7, <1>8 DEF Step

LEMMA MailConsent == ASSUME Typed, MailInv, NEW s \in States, Consent(s) PROVE MailInv'
<1>1. CASE Connect(s) \/ Expire(s) \/ Callback(s) \/ Exchange(s) \/ ExchangeFails(s) \/ StoreFails(s)
  <2>1. UNCHANGED <<cred, pc, role, copy, mails, resets>>
    BY <1>1 DEF Connect, Expire, Callback, Exchange, ExchangeFails, StoreFails, threads, history
  <2> QED BY <2>1 DEF MailInv, Informed, Mailing, Owed
<1>2. CASE Store(s)
  <2>1. UNCHANGED <<pc, role, copy, mails>> /\ resets' = resets + 1
    BY <1>2 DEF Store, threads
  <2>2. cred'.notified = (cred.notified /\ ~cb[s].seen.notified)
    BY <1>2 DEF Store
  <2>3. cred'.notified => cred.notified
    BY <2>2
  <2>4. \A p \in Procs : Informed(p)'
    BY <2>1, <2>3 DEF MailInv, Informed
  <2>5. Mailing' = Mailing /\ Mailing \in {0, 1} /\ Owed \in {0, 1} /\ Owed' \in {0, 1}
    BY <2>1 DEF Mailing, Owed
  <2>6. mails \in Nat /\ resets \in Nat /\ mails + Mailing + Owed <= resets
    BY DEF Typed, MailInv
  <2>7. mails' + Mailing' + Owed' <= resets'
    <3>1. resets' \in Nat /\ resets' >= resets /\ mails' = mails
      BY <2>1, <2>6
    <3>2. Mailing' \in {0, 1} /\ Mailing' <= Mailing
      BY <2>5
    <3>3. Owed' = 1 /\ Owed = 0 => resets' = resets + 1
      BY <2>1
    <3> QED BY <2>5, <2>6, <3>1, <3>2, <3>3, Account
  <2> QED BY <2>4, <2>7 DEF MailInv
<1> QED BY <1>1, <1>2 DEF Consent

LEMMA MailBegin == ASSUME Typed, MailInv, NEW p \in Procs, NEW r \in Roles[p], Begin(p, r) PROVE MailInv'
<1>1. UNCHANGED <<cred, mails, resets>> /\ pc[p] = "idle"
  BY DEF Begin, history
<1>2. \A q \in Procs : IF q = p THEN pc'[q] = "token" /\ role'[q] = r /\ copy'[q] = cred
                       ELSE pc'[q] = pc[q] /\ role'[q] = role[q] /\ copy'[q] = copy[q]
  BY DEF Begin, Goto, Typed
<1>3. ASSUME NEW q \in Procs PROVE Informed(q)'
  <2>1. Informed(q)
    BY DEF MailInv
  <2> QED BY <1>1, <1>2, <2>1 DEF Informed
<1>4. \A q \in Procs : pc'[q] = "mail" <=> pc[q] = "mail"
  BY <1>1, <1>2
<1>5. Mailing' = Mailing /\ Owed' = Owed
  BY <1>1, <1>4 DEF Mailing, Owed
<1> QED BY <1>1, <1>3, <1>5 DEF MailInv

LEMMA MailRest ==
  ASSUME Typed, MailInv, (\E s \in States : Revoke(s)) \/ Disconnect \/ TokenAges \/ CheckAges \/ UNCHANGED vars
  PROVE  MailInv'
<1>1. CASE (\E s \in States : Revoke(s)) \/ CheckAges \/ UNCHANGED vars
  <2>1. UNCHANGED <<cred, pc, role, copy, mails, resets>>
    BY <1>1 DEF Revoke, CheckAges, vars, threads, history
  <2> QED BY <2>1 DEF MailInv, Informed, Mailing, Owed
<1>2. CASE Disconnect
  <2>1. UNCHANGED <<pc, role, copy, mails, resets>> /\ cred' = NoCred /\ cred.there
    BY <1>2 DEF Disconnect, threads, history
  <2>2. \A p \in Procs : Informed(p)'
    BY <2>1, NoCredIsARow DEF MailInv, Informed
  <2>3. Mailing' = Mailing /\ Owed' = 0 /\ Mailing \in {0, 1} /\ Owed \in {0, 1}
    BY <2>1, NoCredIsARow DEF Mailing, Owed
  <2>4. mails \in Nat /\ resets \in Nat /\ mails + Mailing + Owed <= resets
    BY DEF Typed, MailInv
  <2>5. mails' + Mailing' + Owed' <= resets'
    BY <2>1, <2>3, <2>4, Account
  <2> QED BY <2>2, <2>5 DEF MailInv
<1>3. CASE TokenAges
  <2>1. UNCHANGED <<pc, role, copy, mails, resets>> /\ cred' = [cred EXCEPT !.dated = FALSE]
    BY <1>3 DEF TokenAges, threads, history
  <2>2. cred'.there = cred.there /\ cred'.notified = cred.notified
    BY <2>1 DEF Typed, Creds
  <2> QED BY <2>1, <2>2 DEF MailInv, Informed, Mailing, Owed
<1> QED BY <1>1, <1>2, <1>3

(* The rep is told once for each time the connection was set right: by       *)
(* consent, or by a refresh that worked again.  The phases of the agent loop *)
(* are one thread; any number of status requests may mark the row meanwhile, *)
(* consents, disconnects and lost mails come at any time.                    *)
THEOREM ToldOnce == ASSUME SoleCycler PROVE Spec => []NotifiedOnce
<1>1. Init => MailInv
  <2> SUFFICES ASSUME Init PROVE MailInv
    OBVIOUS
  <2>1. \A p \in Procs : pc[p] = "idle"
    BY DEF Init
  <2>2. Mailing = 0 /\ Owed = 0
    BY <2>1, NoCredIsARow DEF Init, Mailing, Owed
  <2>3. mails = 0 /\ resets = 0
    BY DEF Init
  <2> QED BY <2>1, <2>2, <2>3 DEF MailInv, Informed
<1>2. Typed /\ MailInv /\ [Next]_vars => MailInv'
  BY MailConsent, MailThread, MailBegin, MailRest DEF Next
<1>3. Typed /\ MailInv => NotifiedOnce
  <2> SUFFICES ASSUME Typed, MailInv PROVE NotifiedOnce
    OBVIOUS
  <2>1. Mailing \in {0, 1} /\ Owed \in {0, 1}
    BY DEF Mailing, Owed
  <2> QED BY <2>1 DEF Typed, MailInv, NotifiedOnce
<1> QED BY <1>1, <1>2, <1>3, Typing, PTL DEF Spec
=============================================================================
