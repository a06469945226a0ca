---------------------------- MODULE ReplyTriage -----------------------------
(***************************************************************************)
(* What happens to a lead's reply: poll_replies, ingest_reply and          *)
(* _handle_slot_selection of app/services/replies.py, run by the agent     *)
(* loop for every organization in turn (before it sends anything) and by   *)
(* POST /replies/poll for one of them.                                     *)
(*                                                                         *)
(* A poll works in one database session: its leads are read once, what the *)
(* triage of a reply writes stays in the session until a commit, and that  *)
(* commit comes after the mails.  select_slot and propose_meeting commit   *)
(* before they mail, and so does a refresh of the Google token, whichever  *)
(* call it happens in.  An exception nobody catches ends the poll and, in  *)
(* the agent loop, the whole cycle; what was not committed is lost.        *)
(***************************************************************************)
EXTENDS Integers, FiniteSets

CONSTANTS
  Orgs,       \* organizations, 1..n, in the order the agent loop visits them
  Leads, LeadOrg,
  Replies,    \* mails of the leads in Gmail
  From,       \* the lead who wrote each
  Meanings,   \* what the classifier may make of each: a set of categories
  Pollers,    \* threads that poll: the agent loop and manual requests
  Agent,      \* the agent loop among them
  AutoReply,  \* org.auto_reply_enabled
  Faults,     \* in play: "gmail", "llm", "mail", "token", "revoked", "slots", "notify", "crash"
  MaxFaults,  \* bound on how many happen
  None

Category == {"SLOT_SELECTED", "UNSUBSCRIBE", "NOT_INTERESTED", "OUT_OF_OFFICE",
             "QUESTION", "MEETING", "CURIOUS", "COMPLEX"}

ASSUME OrgAssumption == /\ Orgs \subseteq Nat \ {0}
                        /\ LeadOrg \in [Leads -> Orgs]
ASSUME ReplyAssumption == /\ From \in [Replies -> Leads]
                          /\ Meanings \in [Replies -> SUBSET Category]
ASSUME PollerAssumption == Agent \in Pollers /\ IsFiniteSet(Pollers)
ASSUME FaultAssumption == MaxFaults \in Nat /\ AutoReply \in BOOLEAN
ASSUME NoneAssumption == None \notin Leads \union Replies \union Orgs

VARIABLES
  arrived,     \* Gmail: the replies that are there to be read
  filed,       \* conversation_messages: how each reply was filed, or "no"
  leadState,   \* leads.state
  offered,     \* leads with proposed_slots
  briefed,     \* leads with an outbound row of RUNDOWN_CATEGORY
  suppressed,  \* suppressed_emails, by lead
  broken,      \* organizations whose google_credentials row is broken
  pc, org,     \* poller: where it stands, and for which organization
  todo,        \* poller: leads of its list that are still to be looked at
  inbox,       \* poller: replies of the current lead still to be looked at
  copy,        \* poller: its lead objects, read when the poll began
  w,           \* poller: the reply in triage and what its session holds of it
  mails,       \* mail: how many answers to each reply have left
  told,        \* mail: replies the rep has been written about
  offers, rundowns, \* history: times offered and rundowns mailed, by lead
  shared,      \* history: replies taken up while another poll was at them
  noSlots,     \* history: replies whose proposal found no times
  faults,      \* failures so far
  cuts         \* history: those that ended a poll

db     == <<filed, leadState, offered, briefed, suppressed>>
poll   == <<pc, org, todo, inbox, copy, w>>
mail   == <<mails, told, offers, rundowns, shared>>
vars   == <<arrived, db, broken, poll, mail, noSlots, faults, cuts>>

-----------------------------------------------------------------------------
(* Data *)

TRIAGEABLE_STATES == {"SEQUENCE_ACTIVE", "ENGAGED", "MEETING_PROPOSED",
                      "OUTREACH_PENDING"}
LeadState == TRIAGEABLE_STATES \union {"AWAITING_APPROVAL", "MEETING_CONFIRMED",
                                       "NOT_INTERESTED", "UNSUBSCRIBED"}
Uncommitted == {"SEQUENCE_ACTIVE", "OUTREACH_PENDING", "ENGAGED"}
ASSUME NoneIsNoState == None \notin LeadState

(* The session's part of one triage: to is the state it assigned to the lead, *)
(* supp and row whether it adds a suppression and a rundown row, open whether *)
(* the inbound row is still to be committed.                                  *)
NoWork == [reply |-> None, cat |-> "no", to |-> None, supp |-> FALSE,
           row |-> FALSE, kind |-> None, open |-> FALSE]

NoCopy == [l \in Leads |-> [state |-> None, offered |-> FALSE]]

Fault(f) == f \in Faults /\ faults < MaxFaults /\ faults' = faults + 1
Cut == cuts' = cuts + 1

Lead(p) == From[w[p].reply]
Goto(p, where) == pc' = [pc EXCEPT ![p] = where]

(* Uniqueness of (org_id, gmail_message_id) and of (org_id, email): another  *)
(* session has filed this reply, or suppressed this lead, since it was read. *)
Conflict(p) == /\ w[p].open
               /\ \/ filed[w[p].reply] # "no"
                  \/ w[p].supp /\ Lead(p) \in suppressed

(* Mutation: an opt-out changes the state of the lead, nothing else. *)
FlushStateOnly(p, to) ==
  /\ filed' = IF w[p].open THEN [filed EXCEPT ![w[p].reply] = w[p].cat] ELSE filed
  /\ leadState' = IF to = None THEN leadState ELSE [leadState EXCEPT ![Lead(p)] = to]
  /\ briefed' = IF w[p].row THEN briefed \union {Lead(p)} ELSE briefed
  /\ UNCHANGED suppressed

(* Mutation: the outbound row of a rundown carries no category. *)
FlushUnmarked(p, to) ==
  /\ filed' = IF w[p].open THEN [filed EXCEPT ![w[p].reply] = w[p].cat] ELSE filed
  /\ leadState' = IF to = None THEN leadState ELSE [leadState EXCEPT ![Lead(p)] = to]
  /\ suppressed' = IF w[p].supp THEN suppressed \union {Lead(p)} ELSE suppressed
  /\ UNCHANGED briefed

(* A commit writes what the session changed, whatever the rows hold by then. *)
Flush(p, to) ==
  /\ filed' = IF w[p].open THEN [filed EXCEPT ![w[p].reply] = w[p].cat] ELSE filed
  /\ leadState' = IF to = None THEN leadState ELSE [leadState EXCEPT ![Lead(p)] = to]
  /\ suppressed' = IF w[p].supp THEN suppressed \union {Lead(p)} ELSE suppressed
  /\ briefed' = IF w[p].row THEN briefed \union {Lead(p)} ELSE briefed

Flushed(p) == [w[p] EXCEPT !.to = None, !.supp = FALSE, !.row = FALSE, !.open = FALSE]

-----------------------------------------------------------------------------
(* The agent cycle and the poll of one organization *)

(* run_reply_cycle_all_orgs passes over a broken connection. *)
Following(o) == {q \in Orgs : q > o /\ q \notin broken}
NextOrg(o) == CHOOSE q \in Following(o) : \A x \in Following(o) : q <= x

(* The leads are selected once and stay in memory for the whole poll. *)
Visit(p, o) ==
  /\ Goto(p, "poll")
  /\ org' = [org EXCEPT ![p] = o]
  /\ todo' = [todo EXCEPT ![p] = {l \in Leads : /\ LeadOrg[l] = o
                                                /\ leadState[l] \in TRIAGEABLE_STATES}]
  /\ inbox' = [inbox EXCEPT ![p] = {}]
  /\ w' = [w EXCEPT ![p] = NoWork]
  /\ copy' = [copy EXCEPT ![p] = [l \in Leads |->
                IF LeadOrg[l] = o THEN [state |-> leadState[l], offered |-> l \in offered]
                                  ELSE NoCopy[l]]]

(* p's poll is over, with or without an exception: its session is closed. *)
Leave(p, where) ==
  /\ Goto(p, where)
  /\ org' = [org EXCEPT ![p] = None]
  /\ todo' = [todo EXCEPT ![p] = {}]
  /\ inbox' = [inbox EXCEPT ![p] = {}]
  /\ copy' = [copy EXCEPT ![p] = NoCopy]
  /\ w' = [w EXCEPT ![p] = NoWork]

(* Mutation: once the replies are read the cycle ends without sending. *)
AfterOrgStops(p, o) == IF Following(o) # {} THEN Visit(p, NextOrg(o)) ELSE Leave(p, "idle")

AfterOrg(p, o) == IF p = Agent
                    THEN IF Following(o) # {} THEN Visit(p, NextOrg(o)) ELSE Leave(p, "send")
                    ELSE Leave(p, "idle")

Start(p) ==
  /\ pc[p] = "idle"
  /\ IF p = Agent THEN AfterOrg(p, 0) ELSE \E o \in Orgs : Visit(p, o)
  /\ UNCHANGED <<arrived, db, broken, mail, noSlots, faults, cuts>>

Looking(p) == pc[p] = "poll" /\ inbox[p] = {}

(* Mutation: one message of the thread is looked at. *)
FetchOne(p, l) ==
  /\ Looking(p)
  /\ l \in todo[p]
  /\ todo' = [todo EXCEPT ![p] = @ \ {l}]
  /\ LET mine == {r \in arrived : From[r] = l}
     IN inbox' = [inbox EXCEPT ![p] = IF mine = {} THEN {} ELSE {CHOOSE r \in mine : TRUE}]
  /\ UNCHANGED <<arrived, db, broken, pc, org, copy, w, mail, noSlots, faults, cuts>>

Fetch(p, l) ==
  /\ Looking(p)
  /\ l \in todo[p]
  /\ todo' = [todo EXCEPT ![p] = @ \ {l}]
  /\ inbox' = [inbox EXCEPT ![p] = {r \in arrived : From[r] = l}]
  /\ UNCHANGED <<arrived, db, broken, pc, org, copy, w, mail, noSlots, faults, cuts>>

(* A GmailError while fetching is noted and the next lead looked at. *)
FetchFails(p, l) ==
  /\ Looking(p)
  /\ l \in todo[p]
  /\ Fault("gmail")
  /\ todo' = [todo EXCEPT ![p] = @ \ {l}]
  /\ UNCHANGED <<arrived, db, broken, pc, org, inbox, copy, w, mail, noSlots, cuts>>

EndPoll(p) ==
  /\ Looking(p)
  /\ todo[p] = {}
  /\ AfterOrg(p, org[p])
  /\ UNCHANGED <<arrived, db, broken, mail, noSlots, faults, cuts>>

(* run_send_cycle_all_orgs, a module of its own. *)
SendPhase ==
  /\ pc[Agent] = "send"
  /\ Leave(Agent, "idle")
  /\ UNCHANGED <<arrived, db, broken, mail, noSlots, faults, cuts>>

Duplicate(p, r) ==
  /\ pc[p] = "poll"
  /\ r \in inbox[p]
  /\ filed[r] # "no"
  /\ inbox' = [inbox EXCEPT ![p] = @ \ {r}]
  /\ UNCHANGED <<arrived, db, broken, pc, org, todo, copy, w, mail, noSlots, faults, cuts>>

-----------------------------------------------------------------------------
(* ingest_reply: how a reply is read and what is done about it *)

(* extract_slot_choice comes before the classifier and is deterministic. *)
Readings(p, r) ==
  IF "SLOT_SELECTED" \in Meanings[r] /\ copy[p][From[r]].state = "MEETING_PROPOSED"
    THEN {"SLOT_SELECTED"}
    ELSE Meanings[r] \ {"SLOT_SELECTED"}

Work(r, cat, to, kind) ==
  [NoWork EXCEPT !.reply = r, !.cat = cat, !.to = to, !.kind = kind, !.open = TRUE]

(* _to_engaged where its callers' conditions reach it. *)
Engaged(s) == IF s = "ENGAGED" THEN None ELSE "ENGAGED"
EngagedFirst(s) == IF s \in {"SEQUENCE_ACTIVE", "OUTREACH_PENDING"} THEN "ENGAGED" ELSE None

Me(p, r) == copy[p][From[r]]

(* Mutation: every lead who is not lost is triaged. *)
TriageableUnlessLost(p, r) == Me(p, r).state \notin {"NOT_INTERESTED", "UNSUBSCRIBED"}

Triageable(p, r) == Me(p, r).state \in TRIAGEABLE_STATES

TakenBy(polls, r) == \E q \in polls : w[q].reply = r

(* Mutation: nobody looks whether the reply has been filed. *)
TriageAgain(p, r, where, work) ==
  /\ pc[p] = "poll"
  /\ r \in inbox[p]
  /\ inbox' = [inbox EXCEPT ![p] = @ \ {r}]
  /\ Goto(p, where)
  /\ w' = [w EXCEPT ![p] = work]
  /\ copy' = [copy EXCEPT ![p][From[r]].state = IF work.to = None THEN @ ELSE work.to]
  /\ shared' = IF TakenBy(Pollers \ {p}, r) THEN shared \union {r} ELSE shared
  /\ UNCHANGED <<arrived, db, broken, org, todo, mails, told, offers, rundowns, noSlots,
                 faults, cuts>>

(* r has no row yet; its triage goes on at where with the given work. *)
Triage(p, r, where, work) ==
  /\ pc[p] = "poll"
  /\ r \in inbox[p]
  /\ filed[r] = "no"
  /\ inbox' = [inbox EXCEPT ![p] = @ \ {r}]
  /\ Goto(p, where)
  /\ w' = [w EXCEPT ![p] = work]
  /\ copy' = [copy EXCEPT ![p][From[r]].state = IF work.to = None THEN @ ELSE work.to]
  /\ shared' = IF TakenBy(Pollers \ {p}, r) THEN shared \union {r} ELSE shared
  /\ UNCHANGED <<arrived, db, broken, org, todo, mails, told, offers, rundowns, noSlots,
                 faults, cuts>>

SelectsSlot(p, r) ==
  /\ "SLOT_SELECTED" \in Readings(p, r)
  /\ Triage(p, r, "book", Work(r, "SLOT_SELECTED", "AWAITING_APPROVAL", "ack"))

(* A reply of a lead who is past triage gets its row and nothing else. *)
RecordsOnly(p, r) ==
  /\ ~Triageable(p, r)
  /\ Readings(p, r) # {}
  /\ Triage(p, r, "commit", Work(r, "RECORDED", None, None))

(* Mutation: the address is suppressed, the lead keeps its state. *)
OptsOutOfListOnly(p, r) ==
  /\ Triageable(p, r)
  /\ \E c \in Readings(p, r) \intersect {"UNSUBSCRIBE", "NOT_INTERESTED"} :
       Triage(p, r, "commit", [Work(r, c, None, None) EXCEPT !.supp = From[r] \notin suppressed])

OptsOut(p, r) ==
  /\ Triageable(p, r)
  /\ \E c \in Readings(p, r) \intersect {"UNSUBSCRIBE", "NOT_INTERESTED"} :
       Triage(p, r, "commit",
              [Work(r, c, IF c = "UNSUBSCRIBE" THEN "UNSUBSCRIBED" ELSE c, None)
                 EXCEPT !.supp = From[r] \notin suppressed])

(* The pending steps are postponed, the lead is left as it is. *)
IsAway(p, r) ==
  /\ Triageable(p, r)
  /\ "OUT_OF_OFFICE" \in Readings(p, r)
  /\ Triage(p, r, "commit", Work(r, "OUT_OF_OFFICE", None, None))

AsksQuestion(p, r) ==
  /\ Triageable(p, r)
  /\ "QUESTION" \in Readings(p, r)
  /\ AutoReply
  /\ Triage(p, r, "mail", Work(r, "QUESTION", EngagedFirst(Me(p, r).state), "answer"))

(* Mutation: a lead who was offered times is offered new ones. *)
ProposesAnew(p, r, c) == /\ c = "MEETING" \/ (c = "CURIOUS" /\ From[r] \in briefed)
                         /\ Me(p, r).state \in Uncommitted

(* A call was asked for, or is the answer to the rundown's question. *)
Proposes(p, r, c) == /\ c = "MEETING" \/ (c = "CURIOUS" /\ From[r] \in briefed)
                     /\ ~Me(p, r).offered
                     /\ Me(p, r).state \in Uncommitted

Briefs(p, r, c) == /\ c \in {"MEETING", "CURIOUS"}
                   /\ AutoReply
                   /\ From[r] \notin briefed
                   /\ Me(p, r).state \in Uncommitted
                   /\ ~Proposes(p, r, c)

ProposesMeeting(p, r) ==
  \E c \in Readings(p, r) : /\ Proposes(p, r, c)
                            /\ Triage(p, r, "slots", Work(r, c, None, "times"))

BriefsLead(p, r) ==
  \E c \in Readings(p, r) :
     /\ Briefs(p, r, c)
     /\ Triage(p, r, "mail", Work(r, c, EngagedFirst(Me(p, r).state), "rundown"))

(* What the LLM writes for the lead may be empty: "" when there is nothing   *)
(* approved to say, or no answer comes.                                      *)
MayBeUnwritten == {"QUESTION", "MEETING", "CURIOUS"}

HandsOff(p, r) ==
  /\ Triageable(p, r)
  /\ \E c \in Readings(p, r) :
       /\ c \in MayBeUnwritten \union {"COMPLEX"}
       /\ ~Proposes(p, r, c)
       /\ Triage(p, r, "tell", Work(r, c, Engaged(Me(p, r).state), None))

(* An answer without content, or one that is not JSON, gets past what        *)
(* classify_reply catches.                                                   *)
ClassifierRaises(p) ==
  /\ pc[p] = "poll"
  /\ \E r \in inbox[p] : filed[r] = "no" /\ "SLOT_SELECTED" \notin Readings(p, r)
  /\ Fault("llm") /\ Cut
  /\ Leave(p, "idle")
  /\ UNCHANGED <<arrived, db, broken, mail, noSlots>>

Take(p, r) ==
  \/ SelectsSlot(p, r)
  \/ RecordsOnly(p, r)
  \/ OptsOut(p, r)
  \/ IsAway(p, r)
  \/ AsksQuestion(p, r)
  \/ ProposesMeeting(p, r)
  \/ BriefsLead(p, r)
  \/ HandsOff(p, r)

-----------------------------------------------------------------------------
(* ingest_reply: the calendar, the mails and the commits *)

(* select_slot commits the booking, and with it the reply. *)
Book(p) ==
  /\ pc[p] = "book"
  /\ ~Conflict(p)
  /\ Flush(p, w[p].to)
  /\ w' = [w EXCEPT ![p] = Flushed(p)]
  /\ Goto(p, "ask")
  /\ UNCHANGED <<arrived, offered, broken, org, todo, inbox, copy, mail, noSlots, faults, cuts>>

(* propose_meeting commits the times and the state before it mails them. *)
SlotsFound(p) ==
  /\ pc[p] = "slots"
  /\ ~Conflict(p)
  /\ Flush(p, "MEETING_PROPOSED")
  /\ offered' = offered \union {Lead(p)}
  /\ offers' = [offers EXCEPT ![Lead(p)] = @ + 1]
  /\ copy' = [copy EXCEPT ![p][Lead(p)] = [state |-> "MEETING_PROPOSED", offered |-> TRUE]]
  /\ w' = [w EXCEPT ![p] = Flushed(p)]
  /\ Goto(p, "mail")
  /\ UNCHANGED <<arrived, broken, org, todo, inbox, mails, told, rundowns, shared,
                 noSlots, faults, cuts>>

(* The calendar has fewer than two free times, or cannot be asked.  The lead *)
(* goes to ENGAGED; from ENGAGED there is no such transition, and the        *)
(* InvalidTransition leaves ingest_reply and the poll.                       *)
SlotsMissing(p) ==
  /\ pc[p] = "slots"
  /\ Fault("slots")
  /\ noSlots' = noSlots \union {w[p].reply}
  /\ IF copy[p][Lead(p)].state = "ENGAGED"
       THEN Leave(p, "idle") /\ Cut
       ELSE /\ Goto(p, "tell")
            /\ copy' = [copy EXCEPT ![p][Lead(p)].state = "ENGAGED"]
            /\ w' = [w EXCEPT ![p].to = "ENGAGED"]
            /\ UNCHANGED <<org, todo, inbox, cuts>>
  /\ UNCHANGED <<arrived, db, broken, mail>>

(* A mail to the lead has left. *)
Delivered(p) ==
  /\ mails' = [mails EXCEPT ![w[p].reply] = @ + 1]
  /\ rundowns' = IF w[p].kind = "rundown" THEN [rundowns EXCEPT ![Lead(p)] = @ + 1]
                                          ELSE rundowns

MailLead(p) ==
  /\ pc[p] = "mail"
  /\ Delivered(p)
  /\ w' = [w EXCEPT ![p].row = (w[p].kind = "rundown")]
  /\ Goto(p, IF w[p].kind \in {"rundown", "times"} THEN "fyi" ELSE "commit")
  /\ UNCHANGED <<arrived, db, broken, org, todo, inbox, copy, told, offers, shared,
                 noSlots, faults, cuts>>

(* Mutation: a failed mail to the lead is only logged. *)
MailFailsQuietly(p) ==
  /\ pc[p] = "mail"
  /\ Fault("mail")
  /\ Delivered(p) \/ UNCHANGED <<mails, rundowns>>
  /\ Goto(p, "commit")
  /\ UNCHANGED <<arrived, db, broken, org, todo, inbox, copy, w, told, offers, shared,
                 noSlots, cuts>>

(* GmailError or OSError: the mail did not leave, or it did and the answer   *)
(* was lost.  A failed acknowledgement of a slot is logged, nothing more.    *)
MailFails(p) ==
  /\ pc[p] = "mail"
  /\ Fault("mail")
  /\ Delivered(p) \/ UNCHANGED <<mails, rundowns>>
  /\ Goto(p, IF w[p].kind = "ack" THEN "commit" ELSE "tell")
  /\ UNCHANGED <<arrived, db, broken, org, todo, inbox, copy, w, told, offers, shared,
                 noSlots, cuts>>

(* The rep is written to: for an approval, for information, or to take over. *)
MailRep(p) ==
  /\ pc[p] \in {"ask", "fyi", "tell"}
  /\ told' = told \union {w[p].reply}
  /\ Goto(p, IF pc[p] = "ask" THEN "mail" ELSE "commit")
  /\ UNCHANGED <<arrived, db, broken, org, todo, inbox, copy, w, mails, offers,
                 rundowns, shared, noSlots, faults, cuts>>

(* A failed information is followed by a hand-off; that, or a failed request *)
(* for approval, leaves ingest_reply.                                        *)
MailRepFails(p) ==
  /\ pc[p] \in {"ask", "fyi", "tell"}
  /\ Fault("notify")
  /\ IF pc[p] = "fyi"
       THEN Goto(p, "tell") /\ UNCHANGED <<org, todo, inbox, copy, w, cuts>>
       ELSE Leave(p, "idle") /\ Cut
  /\ UNCHANGED <<arrived, db, broken, mail, noSlots>>

Commit(p) ==
  /\ pc[p] = "commit"
  /\ ~Conflict(p)
  /\ Flush(p, w[p].to)
  /\ w' = [w EXCEPT ![p] = NoWork]
  /\ Goto(p, "poll")
  /\ UNCHANGED <<arrived, offered, broken, org, todo, inbox, copy, mail, noSlots, faults, cuts>>

(* IntegrityError: everything the session held is rolled back. *)
Collide(p) ==
  /\ pc[p] \in {"book", "slots", "mail", "commit"}
  /\ Conflict(p)
  /\ Leave(p, "idle")
  /\ UNCHANGED <<arrived, db, broken, mail, noSlots, faults, cuts>>

-----------------------------------------------------------------------------
(* The Google token, the process and the world outside *)

UsesToken(p) == pc[p] \in {"slots", "mail"}

(* get_valid_access_token persists a refreshed token in the same session. *)
TokenRefreshed(p) ==
  /\ UsesToken(p)
  /\ w[p].open
  /\ ~Conflict(p)
  /\ Flush(p, w[p].to)
  /\ w' = [w EXCEPT ![p] = Flushed(p)]
  /\ UNCHANGED <<arrived, offered, broken, pc, org, todo, inbox, copy, mail, noSlots, faults, cuts>>

(* The token endpoint cannot be reached: GoogleOAuthError is caught nowhere. *)
TokenFails(p) ==
  /\ UsesToken(p) \/ (Looking(p) /\ todo[p] # {})
  /\ Fault("token") /\ Cut
  /\ Leave(p, "idle")
  /\ UNCHANGED <<arrived, db, broken, mail, noSlots>>

(* GoogleAccessRevoked: the connection is marked broken by a commit in the   *)
(* same session, and the agent loop turns to the next organization, unless   *)
(* the mail that tells the rep of it fails and ends the cycle.               *)
TokenRevoked(p) ==
  /\ UsesToken(p) \/ (Looking(p) /\ todo[p] # {})
  /\ ~Conflict(p)
  /\ Fault("revoked") /\ Cut
  /\ Flush(p, w[p].to)
  /\ broken' = broken \union {org[p]}
  /\ \/ AfterOrg(p, org[p])
     \/ p = Agent /\ "notify" \in Faults /\ Leave(p, "idle")
  /\ UNCHANGED <<arrived, offered, mail, noSlots>>

Crash ==
  /\ Fault("crash") /\ Cut
  /\ \E p \in Pollers : pc[p] # "idle"
  /\ pc' = [p \in Pollers |-> "idle"]
  /\ org' = [p \in Pollers |-> None]
  /\ todo' = [p \in Pollers |-> {}]
  /\ inbox' = [p \in Pollers |-> {}]
  /\ copy' = [p \in Pollers |-> NoCopy]
  /\ w' = [p \in Pollers |-> NoWork]
  /\ UNCHANGED <<arrived, db, broken, mail, noSlots>>

Arrive(r) ==
  /\ r \notin arrived
  /\ arrived' = arrived \union {r}
  /\ UNCHANGED <<db, broken, poll, mail, noSlots, faults, cuts>>

Reconnect(o) ==
  /\ o \in broken
  /\ broken' = broken \ {o}
  /\ UNCHANGED <<arrived, db, poll, mail, noSlots, faults, cuts>>

(* The rep approves or rejects the pending booking. *)
RepDecides(l) ==
  /\ leadState[l] = "AWAITING_APPROVAL"
  /\ \E s \in {"MEETING_CONFIRMED", "MEETING_PROPOSED"} :
       leadState' = [leadState EXCEPT ![l] = s]
  /\ UNCHANGED <<arrived, filed, offered, briefed, suppressed, broken, poll, mail,
                 noSlots, faults, cuts>>

-----------------------------------------------------------------------------
(* Specification *)

Init ==
  /\ arrived = {}
  /\ filed = [r \in Replies |-> "no"]
  /\ leadState \in [Leads -> {"OUTREACH_PENDING", "SEQUENCE_ACTIVE"}]
  /\ offered = {} /\ briefed = {} /\ suppressed = {} /\ broken = {}
  /\ pc = [p \in Pollers |-> "idle"]
  /\ org = [p \in Pollers |-> None]
  /\ todo = [p \in Pollers |-> {}]
  /\ inbox = [p \in Pollers |-> {}]
  /\ copy = [p \in Pollers |-> NoCopy]
  /\ w = [p \in Pollers |-> NoWork]
  /\ mails = [r \in Replies |-> 0]
  /\ told = {}
  /\ offers = [l \in Leads |-> 0]
  /\ rundowns = [l \in Leads |-> 0]
  /\ shared = {}
  /\ noSlots = {}
  /\ faults = 0 /\ cuts = 0

(* What a poller does when nothing goes wrong outside it. *)
Step(p) ==
  \/ Start(p)
  \/ \E l \in Leads : Fetch(p, l)
  \/ \E r \in Replies : Duplicate(p, r) \/ Take(p, r)
  \/ EndPoll(p)
  \/ Book(p)
  \/ SlotsFound(p)
  \/ MailLead(p)
  \/ MailRep(p)
  \/ Commit(p)
  \/ Collide(p)

Fails(p) ==
  \/ \E l \in Leads : FetchFails(p, l)
  \/ ClassifierRaises(p)
  \/ SlotsMissing(p)
  \/ MailFails(p)
  \/ MailRepFails(p)
  \/ TokenFails(p)
  \/ TokenRevoked(p)

Next ==
  \/ \E p \in Pollers : Step(p) \/ Fails(p) \/ TokenRefreshed(p)
  \/ SendPhase
  \/ Crash
  \/ \E r \in Replies : Arrive(r)
  \/ \E o \in Orgs : Reconnect(o)
  \/ \E l \in Leads : RepDecides(l)

Spec == Init /\ [][Next]_vars

(* The agent loop survives every exception and starts its cycle again. *)
FairSpec == Spec /\ WF_vars(Step(Agent) \/ SendPhase)

-----------------------------------------------------------------------------
(* Properties *)

Kinds == {"answer", "rundown", "times", "ack"}
Works == [reply: Replies \union {None}, cat: Category \union {"no", "RECORDED"},
          to: LeadState \union {None}, supp: BOOLEAN, row: BOOLEAN,
          kind: Kinds \union {None}, open: BOOLEAN]

(* Every variable holds what its column or its place in a session can hold.  *)
TypeOK ==
  /\ arrived \subseteq Replies
  /\ filed \in [Replies -> Category \union {"no", "RECORDED"}]
  /\ leadState \in [Leads -> LeadState]
  /\ offered \subseteq Leads /\ briefed \subseteq Leads /\ suppressed \subseteq Leads
  /\ broken \subseteq Orgs
  /\ pc \in [Pollers -> {"idle", "poll", "book", "slots", "mail", "ask", "fyi",
                          "tell", "commit", "send"}]
  /\ org \in [Pollers -> Orgs \union {None}]
  /\ todo \in [Pollers -> SUBSET Leads]
  /\ inbox \in [Pollers -> SUBSET arrived]
  /\ copy \in [Pollers -> [Leads -> [state: LeadState \union {None}, offered: BOOLEAN]]]
  /\ w \in [Pollers -> Works]
  /\ mails \in [Replies -> Nat]
  /\ told \subseteq Replies /\ shared \subseteq Replies /\ noSlots \subseteq Replies
  /\ offers \in [Leads -> Nat] /\ rundowns \in [Leads -> Nat]
  /\ faults \in 0..MaxFaults /\ cuts \in 0..faults

InHand == {w[p].reply : p \in Pollers}

(* One answer to a reply, and one more for each failure that ended a poll.   *)
AnsweredOnce(r) == mails[r] <= 1 + cuts

(* The inbound row, looked up before every triage, keeps a lead from being   *)
(* written to again about the same reply: but for failures that ended a poll *)
(* a second answer takes two polls at the reply at the same time, the loop   *)
(* and POST /replies/poll, neither of which has stored it.  Those may answer *)
(* once each; the unique column then refuses the row of the later one, and   *)
(* no poll that begins afterwards answers again.                             *)
AnsweredOncePerCut ==
  \A r \in Replies : IF r \in shared THEN mails[r] <= Cardinality(Pollers) * (1 + cuts)
                                      ELSE AnsweredOnce(r)

(* The same without the exception, which the code does not keep: the loop and *)
(* a manual poll may both answer a reply, with nothing failing.              *)
NeverAnsweredByBoth == \A r \in Replies : AnsweredOnce(r)

(* Times are offered once, failures or not ("And only once ... a real spam   *)
(* loop", replies.py:275): propose_meeting commits them before it mails, and *)
(* concurrent polls can add no more than their own stale copies.             *)
OfferedOnce == \A l \in Leads : offers[l] <= Cardinality(Pollers)

(* The rundown is sent "at most once per lead" (replies.py:61), but for the  *)
(* failures that lose the row that says so.                                  *)
BriefedOncePerFailure == \A l \in Leads : rundowns[l] <= Cardinality(Pollers) * (1 + faults)

(* Replies that are filed, call for an answer, and that nobody has answered, *)
(* was told of, or is still dealing with.                                    *)
Forgotten == {r \in Replies : /\ filed[r] \in {"SLOT_SELECTED", "QUESTION", "MEETING",
                                                "CURIOUS", "COMPLEX"}
                              /\ mails[r] = 0
                              /\ r \notin told
                              /\ r \notin InHand}

(* Once filed a reply is never triaged again, so it must not be filed and    *)
(* then dropped: only a failure that ends the poll between the commit that   *)
(* filed a reply and the mail that deals with it can do that, to one reply   *)
(* of each poll it hits.  A failed mail or an unusable calendar must not.    *)
ForgottenOnlyByCut == Cardinality(Forgotten) <= Cardinality(Pollers) * cuts

(* A lead whose opt-out was triaged is on the do-not-contact list, whatever  *)
(* another poll does to the lead's row meanwhile.                            *)
OptOutIsListed == \A r \in Replies : filed[r] \in {"UNSUBSCRIBE", "NOT_INTERESTED"}
                                       => From[r] \in suppressed

(* One poll at a time: nothing the triage sends goes to a lead on the        *)
(* do-not-contact list, though it never consults it: the state of the lead,  *)
(* written by the same commit, keeps such a lead out of triage.              *)
OptedOutIsLeftAlone == [][\A r \in Replies : mails'[r] > mails[r]
                                               => From[r] \notin suppressed]_vars

(* Where the calendar cannot produce times the reply goes to a human         *)
(* ("Falls back to human handoff", replies.py:282).                          *)
NoTimesHandsOff == \A r \in noSlots : r \in told \/ r \in InHand

(* The triage moves leads along the table of app/state_machine.py and along  *)
(* the direct assignments LeadLifecycle lists, nothing else.                 *)
Life == INSTANCE LeadLifecycle WITH Leads <- Leads, leadState <- leadState
MovesAllowed == [][Life!Next]_leadState

(* After any finite number of failures the agent loop still gets to the      *)
(* sending half of its cycle, again and again: one organization's replies do *)
(* not starve everybody's outreach.                                          *)
SendsGoOn == []<>(pc[Agent] = "send")

(* And every reply of a lead in triage is filed in the end, unless the lead  *)
(* leaves triage first or the organization's Google connection is broken.    *)
EveryReplyIsFiled ==
  \A r \in Replies : r \in arrived ~> \/ filed[r] # "no"
                                       \/ leadState[From[r]] \notin TRIAGEABLE_STATES
                                       \/ LeadOrg[From[r]] \in broken
=============================================================================
