----------------------------- MODULE SendCycle ------------------------------
(***************************************************************************)
(* The autopilot's mail: run_send_cycle and activate_sequence of           *)
(* app/services/sending.py for one organization, with the reply handlers   *)
(* that retire or postpone the steps it is sending.                        *)
(*                                                                         *)
(* A cycle works in one database session.  What it decides about a message *)
(* stays in the session (autoflush=False) until the commit at its end, or  *)
(* until get_valid_access_token commits in the middle because the Gmail    *)
(* token was refreshed; a commit writes the columns the session changed,   *)
(* whatever the rows hold by then, and gives up the row locks.  Mail that  *)
(* has left cannot be taken back.                                          *)
(***************************************************************************)
EXTENDS Integers, FiniteSets

CONSTANTS
  Leads,             \* the leads of the organization
  N,                 \* messages are 1..N, in the order (lead_id, step)
  LeadOf,            \* the lead of each message
  Workers,           \* threads that may run a send cycle
  Handlers,          \* threads that may run another handler
  Cap,               \* effective_daily_cap
  MAX_SEND_ATTEMPTS, \* a message that failed so often is given up
  RowLocks,          \* the database locks rows (Postgres; SQLite does not)
  Ops,               \* handlers in play: "activate", "propose", "optOut", "handOff", "postpone"
  Outcomes,          \* of a send: "refresh", "revoked", "fail", "lost", "bounce", "crash"
  MaxMails,          \* bound on the copies of one message
  MaxTries,          \* bound on the failures of one message
  None

Messages == 1..N

ASSUME SizeAssumption == /\ N \in Nat
                         /\ LeadOf \in [Messages -> Leads]
ASSUME OrderAssumption == \A m, n, o \in Messages :
                            m < n /\ n < o /\ LeadOf[m] = LeadOf[o] => LeadOf[n] = LeadOf[m]
ASSUME CapAssumption  == Cap \in Nat /\ MAX_SEND_ATTEMPTS \in Nat \ {0}
ASSUME LocksAssumption == RowLocks \in BOOLEAN
ASSUME NoneAssumption == None \notin Leads \union Messages \union Workers

VARIABLES
  status,      \* outreach_messages.status
  attempts,    \* outreach_messages.send_attempts
  due,         \* messages whose scheduled_at has passed
  today,       \* messages whose sent_at lies in the current day
  leadState,   \* leads.state
  suppressed,  \* suppressed_emails, by lead
  lock,        \* the worker that holds a message row FOR UPDATE
  pc,          \* worker: where its cycle stands
  todo,        \* worker: what is left of the due messages it selected
  cur,         \* worker: the message it is sending
  sent, left,  \* worker: its counters sent and remaining_today
  copyLead, copyState, \* worker: the lead object it has in memory, and its state
  mark,        \* worker: statuses assigned in the session, not yet written
  copyTries,   \* worker: send_attempts of the messages it selected
  retry,       \* worker: messages whose send_attempts the session has changed
  dead,        \* worker: leads the session stopped for a hard bounce
  listing,     \* worker: leads whose address the session inserts in suppressed_emails
  h,           \* handler: what it has read and where it stands
  delivered,   \* mail: copies of each message that have left
  tries,       \* history: failed sends of each message
  outToday,    \* history: mails that left today
  late         \* history: mails a worker sent to a lead after it was suppressed

db      == <<status, attempts, due, today, leadState, suppressed>>
session == <<mark, copyTries, retry, dead, listing>>
mail    == <<delivered, tries, outToday, late>>
vars == <<db, lock, pc, todo, cur, sent, left, copyLead, copyState, session, h, mail>>

-----------------------------------------------------------------------------
(* Data *)

MessageStatus == {"DRAFT", "APPROVED", "SENT", "SKIPPED", "FAILED"}
Settled == {"SENT", "SKIPPED", "FAILED"}

(* MEETING_PROPOSED stands for itself and for the states of the booking that *)
(* comes of it: a rejected one leads back to it.                             *)
LeadState == {"OUTREACH_PENDING", "SEQUENCE_ACTIVE", "ENGAGED", "MEETING_PROPOSED",
              "NOT_INTERESTED", "UNSUBSCRIBED"}
Triaged == {"OUTREACH_PENDING", "SEQUENCE_ACTIVE", "ENGAGED", "MEETING_PROPOSED"}
Proposable == {"OUTREACH_PENDING", "SEQUENCE_ACTIVE", "ENGAGED"}
ASSUME NoneIsNoState == None \notin LeadState

MessagesOf(l) == {m \in Messages : LeadOf[m] = l}
First(m) == \A n \in MessagesOf(LeadOf[m]) : m <= n

IdleHandler == [pc |-> "idle", op |-> None, lead |-> None, target |-> None, rows |-> {},
                lists |-> {}]
NoMarks == [m \in Messages |-> "none"]
NoTries == [m \in Messages |-> 0]

(* Mutation: every mail ever sent counts against today's cap. *)
SentEver == {m \in Messages : status[m] = "SENT"}

SentToday == {m \in today : status[m] = "SENT"}

(* The rows are locked by nobody, or by k itself. *)
Unlocked(S, k) == RowLocks => \A m \in S : lock[m] \in {None, k}

(* The outbox this module implements. *)
Stages == [m \in Messages |-> CASE status[m] = "DRAFT"     -> "draft"
                                [] status[m] = "APPROVED"  -> "pending"
                                [] status[m] \in Settled   -> "settled"]

Outbox == INSTANCE Outbox WITH stage <- Stages, copies <- delivered

-----------------------------------------------------------------------------
(* run_send_cycle *)

(* Mutation: FOR UPDATE without SKIP LOCKED's effect. *)
SelectedLocked == {m \in Messages : status[m] = "APPROVED" /\ m \in due}

(* The due rows a cycle gets: FOR UPDATE SKIP LOCKED passes over the rows    *)
(* another worker has locked.                                                *)
Selected == {m \in Messages : /\ status[m] = "APPROVED"
                              /\ m \in due
                              /\ RowLocks => lock[m] = None}

(* Mutation: a cycle is given the whole cap of the day. *)
WholeCap == Cap

(* remaining_today *)
Remaining == Cap - Cardinality(SentToday)

Begin(k) ==
  /\ pc[k] = "idle"
  /\ Remaining > 0
  /\ Selected # {}
  /\ pc' = [pc EXCEPT ![k] = "loop"]
  /\ todo' = [todo EXCEPT ![k] = Selected]
  /\ left' = [left EXCEPT ![k] = Remaining]
  /\ copyTries' = [copyTries EXCEPT ![k] =
                     [m \in Messages |-> IF m \in Selected THEN attempts[m] ELSE 0]]
  /\ lock' = IF RowLocks THEN [m \in Messages |-> IF m \in Selected THEN k ELSE lock[m]]
                         ELSE lock
  /\ UNCHANGED <<db, cur, sent, copyLead, copyState, mark, retry, dead, listing, h, mail>>

(* The state of the lead as the cycle sees it: db.get answers from memory    *)
(* for as long as the lead of the message before is still referenced.        *)
Seen(k, l) == IF copyLead[k] = l THEN copyState[k] ELSE leadState[l]

(* Mutation: the do-not-contact list is not consulted. *)
EligibleByState(k, m) == Seen(k, LeadOf[m]) = "SEQUENCE_ACTIVE"

Eligible(k, m) == /\ Seen(k, LeadOf[m]) = "SEQUENCE_ACTIVE"
                  /\ LeadOf[m] \notin suppressed

(* Mutation: the rows come in any order. *)
AnyNext(k, m) == pc[k] = "loop" /\ m \in todo[k]

NextUp(k, m) == /\ pc[k] = "loop"
                /\ m \in todo[k]
                /\ \A n \in todo[k] : m <= n

LookAt(k, l) == /\ copyLead' = [copyLead EXCEPT ![k] = l]
                /\ copyState' = [copyState EXCEPT ![k] = Seen(k, l)]

SkipMessage(k, m) ==
  /\ NextUp(k, m)
  /\ ~Eligible(k, m)
  /\ LookAt(k, LeadOf[m])
  /\ mark' = [mark EXCEPT ![k][m] = "SKIPPED"]
  /\ todo' = [todo EXCEPT ![k] = @ \ {m}]
  /\ UNCHANGED <<db, lock, pc, cur, sent, left, copyTries, retry, dead, listing, h,
                 mail>>

CapReached(k, m) ==
  /\ NextUp(k, m)
  /\ Eligible(k, m)
  /\ sent[k] >= left[k]
  /\ todo' = [todo EXCEPT ![k] = {}]
  /\ UNCHANGED <<db, lock, pc, cur, sent, left, copyLead, copyState, session, h, mail>>

(* Mutation: the message is recorded as sent before it is. *)
PickMessageMarksSent(k, m) ==
  /\ NextUp(k, m)
  /\ Eligible(k, m)
  /\ sent[k] < left[k]
  /\ LookAt(k, LeadOf[m])
  /\ pc' = [pc EXCEPT ![k] = "send"]
  /\ cur' = [cur EXCEPT ![k] = m]
  /\ todo' = [todo EXCEPT ![k] = @ \ {m}]
  /\ mark' = [mark EXCEPT ![k][m] = "SENT"]
  /\ UNCHANGED <<db, lock, sent, left, copyTries, retry, dead, listing, h,
                 mail>>

PickMessage(k, m) ==
  /\ NextUp(k, m)
  /\ Eligible(k, m)
  /\ sent[k] < left[k]
  /\ LookAt(k, LeadOf[m])
  /\ pc' = [pc EXCEPT ![k] = "send"]
  /\ cur' = [cur EXCEPT ![k] = m]
  /\ todo' = [todo EXCEPT ![k] = @ \ {m}]
  /\ UNCHANGED <<db, lock, sent, left, session, h, mail>>

-----------------------------------------------------------------------------
(* The commit of a worker's session *)

Touched(k) == {m \in Messages : mark[k][m] # "none"} \union retry[k]

(* Only a status the session assigned is written. *)
NewStatus(k) == [m \in Messages |-> IF mark[k][m] = "none" THEN status[m] ELSE mark[k][m]]

(* An address is listed once (the unique column of suppressed_emails): the   *)
(* session's row is refused where another one came first.                    *)
Accepted(adds) == adds \intersect suppressed = {}

FlushSession(k) ==
  /\ Accepted(listing[k])
  /\ Unlocked(Touched(k), k)
  /\ status' = NewStatus(k)
  /\ attempts' = [m \in Messages |-> IF m \in retry[k] THEN copyTries[k][m] ELSE attempts[m]]
  /\ today' = today \union {m \in Messages : mark[k][m] = "SENT"}
  /\ leadState' = [l \in Leads |-> IF l \in dead[k] THEN "NOT_INTERESTED" ELSE leadState[l]]
  /\ suppressed' = suppressed \union listing[k]
  /\ UNCHANGED due

Unlock(k) == lock' = [m \in Messages |-> IF lock[m] = k THEN None ELSE lock[m]]

CleanSession(k) ==
  /\ mark' = [mark EXCEPT ![k] = NoMarks]
  /\ retry' = [retry EXCEPT ![k] = {}]
  /\ dead' = [dead EXCEPT ![k] = {}]
  /\ listing' = [listing EXCEPT ![k] = {}]

(* The cycle is over; nothing of it stays in memory. *)
EndCycle(k) ==
  /\ CleanSession(k)
  /\ pc' = [pc EXCEPT ![k] = "idle"]
  /\ todo' = [todo EXCEPT ![k] = {}]
  /\ cur' = [cur EXCEPT ![k] = None]
  /\ sent' = [sent EXCEPT ![k] = 0]
  /\ left' = [left EXCEPT ![k] = 0]
  /\ copyLead' = [copyLead EXCEPT ![k] = None]
  /\ copyState' = [copyState EXCEPT ![k] = None]
  /\ copyTries' = [copyTries EXCEPT ![k] = NoTries]

Finish(k) ==
  /\ pc[k] = "loop"
  /\ todo[k] = {}
  /\ FlushSession(k)
  /\ Unlock(k)
  /\ EndCycle(k)
  /\ UNCHANGED <<h, mail>>

-----------------------------------------------------------------------------
(* sender.send and what comes of it *)

(* The access token had run out, or Gmail answered 401: the new one is       *)
(* committed, and with it everything the cycle has decided so far.           *)
TokenRefreshed(k) ==
  /\ "refresh" \in Outcomes
  /\ pc[k] = "send"
  /\ FlushSession(k)
  /\ Unlock(k)
  /\ CleanSession(k)
  /\ UNCHANGED <<pc, todo, cur, sent, left, copyLead, copyState, copyTries, h, mail>>

(* Google no longer accepts the connection: it is committed as broken, and   *)
(* the cycle ends.                                                           *)
TokenRevoked(k) ==
  /\ "revoked" \in Outcomes
  /\ pc[k] = "send"
  /\ FlushSession(k)
  /\ Unlock(k)
  /\ EndCycle(k)
  /\ UNCHANGED <<h, mail>>

MailOut(k) ==
  /\ delivered[cur[k]] < MaxMails
  /\ delivered' = [delivered EXCEPT ![cur[k]] = @ + 1]
  /\ outToday' = outToday + 1
  /\ late' = IF LeadOf[cur[k]] \in suppressed
               THEN [late EXCEPT ![k][LeadOf[cur[k]]] = @ + 1]
               ELSE late

(* On to the next message. *)
Continue(k) == /\ pc' = [pc EXCEPT ![k] = "loop"]
               /\ cur' = [cur EXCEPT ![k] = None]

Delivered(k) ==
  /\ pc[k] = "send"
  /\ MailOut(k)
  /\ mark' = [mark EXCEPT ![k][cur[k]] = "SENT"]
  /\ sent' = [sent EXCEPT ![k] = @ + 1]
  /\ Continue(k)
  /\ UNCHANGED <<db, lock, todo, left, copyLead, copyState, copyTries, retry, dead, listing,
                 h, tries>>

(* send_attempts grows by one. *)
CountFailure(k, m) ==
  /\ tries[m] < MaxTries
  /\ tries' = [tries EXCEPT ![m] = @ + 1]
  /\ copyTries' = [copyTries EXCEPT ![k][m] = @ + 1]
  /\ retry' = [retry EXCEPT ![k] = @ \union {m}]

(* Mutation: one attempt too many. *)
GiveUpLate(k, m) ==
  mark' = IF copyTries[k][m] + 1 > MAX_SEND_ATTEMPTS
            THEN [mark EXCEPT ![k][m] = "FAILED"]
            ELSE mark

GiveUpAfterMax(k, m) ==
  mark' = IF copyTries[k][m] + 1 >= MAX_SEND_ATTEMPTS
            THEN [mark EXCEPT ![k][m] = "FAILED"]
            ELSE mark

SendFails(k) ==
  /\ "fail" \in Outcomes
  /\ pc[k] = "send"
  /\ CountFailure(k, cur[k])
  /\ GiveUpAfterMax(k, cur[k])
  /\ Continue(k)
  /\ UNCHANGED <<db, lock, todo, sent, left, copyLead, copyState, dead, listing, h,
                 delivered, outToday, late>>

(* Gmail sent the mail, and its answer was lost: an error to the program. *)
SendLost(k) ==
  /\ "lost" \in Outcomes
  /\ pc[k] = "send"
  /\ MailOut(k)
  /\ CountFailure(k, cur[k])
  /\ GiveUpAfterMax(k, cur[k])
  /\ Continue(k)
  /\ UNCHANGED <<db, lock, todo, sent, left, copyLead, copyState, dead, listing, h>>

(* The other steps of the lead that the session sees pending. *)
(* Mutation: only the steps after the one that bounced are retired. *)
RetirableLater(k, m) == {n \in MessagesOf(LeadOf[m]) :
                           n > m /\ mark[k][n] = "none" /\ status[n] \in {"APPROVED", "DRAFT"}}

Retirable(k, m) == {n \in MessagesOf(LeadOf[m]) \ {m} :
                      mark[k][n] = "none" /\ status[n] \in {"APPROVED", "DRAFT"}}

(* What the session held so far is flushed; the address is listed unless it  *)
(* is on the list already (suppress_email).                                  *)
HardBounce(k) ==
  /\ "bounce" \in Outcomes
  /\ pc[k] = "send"
  /\ Accepted(listing[k])
  /\ CountFailure(k, cur[k])
  /\ mark' = [mark EXCEPT ![k] = [n \in Messages |->
                CASE n = cur[k]                    -> "FAILED"
                  [] n \in Retirable(k, cur[k])    -> "SKIPPED"
                  [] OTHER                         -> mark[k][n]]]
  /\ dead' = [dead EXCEPT ![k] = @ \union {LeadOf[cur[k]]}]
  /\ listing' = [listing EXCEPT ![k] = @ \union ({LeadOf[cur[k]]} \ suppressed)]
  /\ copyState' = [copyState EXCEPT ![k] = "NOT_INTERESTED"]
  /\ Continue(k)
  /\ UNCHANGED <<db, lock, todo, sent, left, copyLead, h, delivered, outToday, late>>

(* The process dies, the database goes away, or an exception the loop does   *)
(* not catch ends the cycle: the session is rolled back.  One of them is the *)
(* IntegrityError of a flush whose row was refused.                          *)
Collides(k) == /\ ~Accepted(listing[k])
               /\ pc[k] = "send" \/ todo[k] = {}

Abort(k) ==
  /\ "crash" \in Outcomes \/ Collides(k)
  /\ pc[k] # "idle"
  /\ Unlock(k)
  /\ EndCycle(k)
  /\ UNCHANGED <<db, h, mail>>

-----------------------------------------------------------------------------
(* The other handlers *)

Sessions == <<lock, pc, todo, cur, sent, left, copyLead, copyState, session, mail>>

(* Mutation: a sequence can be started again, whatever came of it. *)
ReactivateRead(r, l) ==
  /\ "activate" \in Ops
  /\ h[r].pc = "idle"
  /\ l \notin suppressed
  /\ h' = [h EXCEPT ![r] =
             [pc |-> "commit", op |-> "activate", lead |-> l, target |-> None,
              rows |-> MessagesOf(l), lists |-> {}]]
  /\ UNCHANGED <<db, Sessions>>

(* activate_sequence *)
ActivateRead(r, l) ==
  /\ "activate" \in Ops
  /\ h[r].pc = "idle"
  /\ leadState[l] = "OUTREACH_PENDING"
  /\ l \notin suppressed
  /\ \E m \in MessagesOf(l) : status[m] = "DRAFT"
  /\ h' = [h EXCEPT ![r] =
             [pc |-> "commit", op |-> "activate", lead |-> l, target |-> None,
              rows |-> {m \in MessagesOf(l) : status[m] = "DRAFT"}, lists |-> {}]]
  /\ UNCHANGED <<db, Sessions>>

(* The first step is due at once, the others in days. *)
ActivateCommit(r) ==
  /\ h[r].pc = "commit"
  /\ h[r].op = "activate"
  /\ Unlocked(h[r].rows, None)
  /\ status' = [m \in Messages |-> IF m \in h[r].rows THEN "APPROVED" ELSE status[m]]
  /\ due' = (due \ h[r].rows) \union {m \in h[r].rows : First(m)}
  /\ leadState' = [leadState EXCEPT ![h[r].lead] = "SEQUENCE_ACTIVE"]
  /\ h' = [h EXCEPT ![r] = IdleHandler]
  /\ UNCHANGED <<attempts, today, suppressed, Sessions>>

(* propose_meeting, called by the API: it moves the lead and leaves the      *)
(* pending steps as they are, for the cycle to skip.                         *)
ProposeRead(r, l) ==
  /\ "propose" \in Ops
  /\ h[r].pc = "idle"
  /\ leadState[l] \in Proposable
  /\ h' = [h EXCEPT ![r] =
             [pc |-> "commit", op |-> "propose", lead |-> l, target |-> None,
              rows |-> {}, lists |-> {}]]
  /\ UNCHANGED <<db, Sessions>>

ProposeCommit(r) ==
  /\ h[r].pc = "commit"
  /\ h[r].op = "propose"
  /\ leadState' = [leadState EXCEPT ![h[r].lead] = "MEETING_PROPOSED"]
  /\ h' = [h EXCEPT ![r] = IdleHandler]
  /\ UNCHANGED <<status, attempts, due, today, suppressed, Sessions>>

(* ingest_reply: the lead was read when the poll or the request began.  An   *)
(* opt-out ends in UNSUBSCRIBED or NOT_INTERESTED, a reply for a human in    *)
(* ENGAGED, one that is offered times in MEETING_PROPOSED; a lead whose      *)
(* question is answered there stays; an out-of-office notice changes no      *)
(* state.                                                                    *)
Targets(op, st) ==
  CASE op = "optOut"   -> {"UNSUBSCRIBED"}
    [] op = "handOff"  -> {IF t = st THEN None ELSE t : t \in {"ENGAGED", "MEETING_PROPOSED"}}
    [] OTHER           -> {None}

TriageRead(r, l, op) ==
  /\ op \in Ops \ {"activate", "propose"}
  /\ h[r].pc = "idle"
  /\ leadState[l] \in Triaged
  /\ \E t \in Targets(op, leadState[l]) :
       h' = [h EXCEPT ![r] = [pc |-> "rows", op |-> op, lead |-> l, target |-> t,
                              rows |-> {}, lists |-> {}]]
  /\ UNCHANGED <<db, Sessions>>

(* Mutation: only what is queued is retired, the drafts are left. *)
PendingQueued(op) == {"APPROVED"}

Pending(op) == IF op = "postpone" THEN {"APPROVED"} ELSE {"APPROVED", "DRAFT"}

(* _retire_pending_steps and _postpone_pending_steps select their rows, and  *)
(* suppress_email looks for the address.                                     *)
TriageRows(r) ==
  /\ h[r].pc = "rows"
  /\ h' = [h EXCEPT ![r].pc = "commit",
                    ![r].rows = {m \in MessagesOf(h[r].lead) :
                                   status[m] \in Pending(h[r].op)},
                    ![r].lists = IF h[r].op = "optOut" THEN {h[r].lead} \ suppressed
                                                       ELSE {}]
  /\ UNCHANGED <<db, Sessions>>

RetireCommit(r) ==
  /\ h[r].pc = "commit"
  /\ h[r].op \in {"optOut", "handOff"}
  /\ Accepted(h[r].lists)
  /\ Unlocked(h[r].rows, None)
  /\ status' = [m \in Messages |-> IF m \in h[r].rows THEN "SKIPPED" ELSE status[m]]
  /\ leadState' = IF h[r].target = None THEN leadState
                  ELSE [leadState EXCEPT ![h[r].lead] = h[r].target]
  /\ suppressed' = suppressed \union h[r].lists
  /\ h' = [h EXCEPT ![r] = IdleHandler]
  /\ UNCHANGED <<attempts, due, today, Sessions>>

(* A week later: a step overdue by more than that stays due, and the steps   *)
(* after one that does not are not due either.                               *)
PostponeCommit(r) ==
  /\ h[r].pc = "commit"
  /\ h[r].op = "postpone"
  /\ Unlocked(h[r].rows, None)
  /\ \E i \in 1..(N + 1) : due' = due \ {m \in h[r].rows : i <= m}
  /\ h' = [h EXCEPT ![r] = IdleHandler]
  /\ UNCHANGED <<status, attempts, today, leadState, suppressed, Sessions>>

(* A call or the commit of a handler fails. *)
AbortHandler(r) ==
  /\ h[r].pc # "idle"
  /\ h' = [h EXCEPT ![r] = IdleHandler]
  /\ UNCHANGED <<db, Sessions>>

-----------------------------------------------------------------------------
(* Time *)

(* A step falls due, in the order of the steps of its lead. *)
Tick(m) ==
  /\ status[m] = "APPROVED"
  /\ m \notin due
  /\ \A n \in MessagesOf(LeadOf[m]) : n < m /\ status[n] = "APPROVED" => n \in due
  /\ due' = due \union {m}
  /\ UNCHANGED <<status, attempts, today, leadState, suppressed, Sessions, h>>

(* Cycles run between 8 and 18 o'clock: none is under way at midnight. *)
NewDay ==
  /\ \A k \in Workers : pc[k] = "idle"
  /\ today # {}
  /\ today' = {}
  /\ outToday' = 0
  /\ UNCHANGED <<status, attempts, due, leadState, suppressed, lock, pc, todo, cur,
                 sent, left, copyLead, copyState, session, h, delivered, tries, late>>

-----------------------------------------------------------------------------
(* Specification *)

Init ==
  /\ status = [m \in Messages |-> "DRAFT"]
  /\ attempts = NoTries
  /\ due = {} /\ today = {}
  /\ leadState = [l \in Leads |-> "OUTREACH_PENDING"]
  /\ suppressed = {}
  /\ lock = [m \in Messages |-> None]
  /\ pc = [k \in Workers |-> "idle"]
  /\ todo = [k \in Workers |-> {}]
  /\ cur = [k \in Workers |-> None]
  /\ sent = [k \in Workers |-> 0] /\ left = [k \in Workers |-> 0]
  /\ copyLead = [k \in Workers |-> None] /\ copyState = [k \in Workers |-> None]
  /\ mark = [k \in Workers |-> NoMarks]
  /\ copyTries = [k \in Workers |-> NoTries]
  /\ retry = [k \in Workers |-> {}] /\ dead = [k \in Workers |-> {}]
  /\ listing = [k \in Workers |-> {}]
  /\ h = [r \in Handlers |-> IdleHandler]
  /\ delivered = NoTries /\ tries = NoTries
  /\ outToday = 0
  /\ late = [k \in Workers |-> [l \in Leads |-> 0]]

Work(k) ==
  \/ Begin(k)
  \/ \E m \in Messages : SkipMessage(k, m)
  \/ \E m \in Messages : CapReached(k, m)
  \/ \E m \in Messages : PickMessage(k, m)
  \/ TokenRefreshed(k)
  \/ TokenRevoked(k)
  \/ Delivered(k)
  \/ SendLost(k)
  \/ SendFails(k)
  \/ HardBounce(k)
  \/ Finish(k)
  \/ Abort(k)

Handle(r) ==
  \/ \E l \in Leads : ActivateRead(r, l)
  \/ ActivateCommit(r)
  \/ \E l \in Leads : ProposeRead(r, l)
  \/ ProposeCommit(r)
  \/ \E l \in Leads, op \in Ops : TriageRead(r, l, op)
  \/ TriageRows(r)
  \/ RetireCommit(r)
  \/ PostponeCommit(r)
  \/ AbortHandler(r)

Next == \/ \E k \in Workers : Work(k)
        \/ \E r \in Handlers : Handle(r)
        \/ \E m \in Messages : Tick(m)
        \/ NewDay

Spec == Init /\ [][Next]_vars

(* The agent loop wakes every few minutes, whatever happened in the cycle    *)
(* before (app/main.py:60-67), and the clock does not stop.                  *)
FairSpec == /\ Spec
            /\ \A k \in Workers : WF_vars(Work(k))
            /\ \A m \in Messages : WF_vars(Tick(m))
            /\ WF_vars(NewDay)

-----------------------------------------------------------------------------
(* Properties *)

Handler == {IdleHandler} \union
           [pc     : {"rows", "commit"},
            op     : Ops,
            lead   : Leads,
            target : LeadState \union {None},
            rows   : SUBSET Messages,
            lists  : SUBSET Leads]

(* Every variable has its type. *)
TypeOK ==
  /\ status \in [Messages -> MessageStatus]
  /\ attempts \in [Messages -> Nat]
  /\ due \subseteq Messages
  /\ today \subseteq Messages
  /\ leadState \in [Leads -> LeadState]
  /\ suppressed \subseteq Leads
  /\ lock \in [Messages -> Workers \union {None}]
  /\ pc \in [Workers -> {"idle", "loop", "send"}]
  /\ todo \in [Workers -> SUBSET Messages]
  /\ cur \in [Workers -> Messages \union {None}]
  /\ \A k \in Workers : pc[k] = "send" => cur[k] \in Messages
  /\ sent \in [Workers -> Nat]
  /\ left \in [Workers -> Int]
  /\ copyLead \in [Workers -> Leads \union {None}]
  /\ copyState \in [Workers -> LeadState \union {None}]
  /\ \A k \in Workers : copyLead[k] # None => copyState[k] \in LeadState
  /\ mark \in [Workers -> [Messages -> Settled \union {"none"}]]
  /\ copyTries \in [Workers -> [Messages -> Nat]]
  /\ retry \in [Workers -> SUBSET Messages]
  /\ dead \in [Workers -> SUBSET Leads]
  /\ listing \in [Workers -> SUBSET Leads]
  /\ h \in [Handlers -> Handler]
  /\ delivered \in [Messages -> Nat]
  /\ tries \in [Messages -> Nat]
  /\ outToday \in Nat
  /\ late \in [Workers -> [Leads -> Nat]]

(* A step of a sequence reaches the lead once at most, whatever the replies  *)
(* that arrive during the cycle do to its row: "FOR UPDATE SKIP LOCKED       *)
(* prevents double-sends when several workers run the cycle concurrently     *)
(* (no-op on SQLite - run one worker there)" (sending.py:206).               *)
AtMostOnce == \A m \in Messages : delivered[m] <= 1

(* "A send that errors is retried until this cap, then marked FAILED so it   *)
(* can never loop forever" (app/models.py:270-271).                          *)
RetryCap == \A m \in Messages : tries[m] <= MAX_SEND_ATTEMPTS

(* A cycle, its retries and the replies that interfere implement an outbox:  *)
(* what is not approved does not leave; "the pending steps are marked        *)
(* SKIPPED so they can never fire later" (sending.py:194-195): what is sent, *)
(* skipped or given up never waits again, although commits overwrite rows    *)
(* they read long before; and nothing leaves twice.                          *)
OutboxSpec == Outbox!Spec

(* A lead that left its sequence for good or for a human (opt-out, bounce,   *)
(* hand-off) keeps no step that is waiting to be sent or approved, whatever  *)
(* the cycle, the activation or a proposal commits over it.  A lead who is   *)
(* offered times through the API (MEETING_PROPOSED) is none of them:         *)
(* propose_meeting (schedule_manager.py:47) leaves its steps waiting, for    *)
(* the cycle to skip or for the reply that ends in one of these states.      *)
StoppedLeadsHaveNothingPending ==
  \A m \in Messages : leadState[LeadOf[m]] \in {"ENGAGED", "NOT_INTERESTED", "UNSUBSCRIBED"}
                          => status[m] \in Settled

(* What is recorded as SENT has left, in every interleaving and wherever a   *)
(* cycle is cut short: the triage and the statistics rely on it.             *)
SentMeansDelivered == \A m \in Messages : status[m] = "SENT" => delivered[m] > 0

(* After an opt-out or a bounce is committed a worker sends the lead one     *)
(* mail at most, the one it was sending at that moment, although it looked   *)
(* at the lead's other steps with a state it keeps in memory.                *)
OptOutHonoured == \A k \in Workers, l \in Leads : late[k][l] <= 1

(* "Hard ceiling on sequence emails per day" (app/models.py:91).             *)
CapHolds == outToday <= Cap

(* "1 = first touch, 2 = bump" (app/models.py:246): no later step reaches a  *)
(* lead whom the first one has not reached.                                  *)
FirstTouchFirst ==
  \A m, n \in Messages : LeadOf[m] = LeadOf[n] /\ First(m) /\ delivered[n] > 0
                             => delivered[m] > 0

(* What is left of it: a step leaves in its turn (order_by(lead_id, step),   *)
(* sending.py:213).  No mail overtakes an earlier one of its lead that       *)
(* nobody has tried to send, whatever falls due, is postponed, skipped, lost *)
(* or rolled back meanwhile.                                                 *)
Earlier(m, n) == LeadOf[m] = LeadOf[n] /\ m < n
Tried(m) == delivered[m] > 0 \/ tries[m] > 0 \/ status[m] \in Settled
InTurn == \A m, n \in Messages : Earlier(m, n) /\ delivered[n] > 0 => Tried(m)

(* Every approved step is sent, skipped or given up in the end: neither the  *)
(* daily cap, nor failing sends, nor a proposal that takes the lead off its  *)
(* sequence and leaves the step behind keeps it queued forever.              *)
EverySettled ==
  \A m \in Messages : status[m] = "APPROVED" ~> status[m] \in Settled
=============================================================================
