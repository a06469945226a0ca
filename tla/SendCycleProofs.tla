--------------------------- MODULE SendCycleProofs ---------------------------
(***************************************************************************)
(* Proofs about the send cycle, for any set of leads, messages, workers    *)
(* and handlers, any cap and either kind of database.                      *)
(***************************************************************************)
EXTENDS SendCycle, FiniteSetTheorems, TLAPS

-----------------------------------------------------------------------------
(* Typing, in parts *)

DatabaseTyped ==
  /\ status \in [Messages -> MessageStatus]
  /\ attempts \in [Messages -> Nat]
  /\ due \subseteq Messages
  /\ today \subseteq Messages
  /\ leadState \in [Leads -> LeadState]
  /\ suppressed \subseteq Leads

LockTyped == lock \in [Messages -> Workers \union {None}]

WorkersTyped ==
  /\ pc \in [Workers -> {"idle", "loop", "send"}]
  /\ todo \in [Workers -> SUBSET Messages]
  /\ cur \in [Workers -> Messages \union {None}]
  /\ \A k \in Workers : pc[k] = "send" => cur[k] \in Messages
  /\ sent \in [Workers -> Nat]
  /\ left \in [Workers -> Int]

CopyTyped ==
  /\ copyLead \in [Workers -> Leads \union {None}]
  /\ copyState \in [Workers -> LeadState \union {None}]
  /\ \A k \in Workers : copyLead[k] # None => copyState[k] \in LeadState

SessionTyped ==
  /\ mark \in [Workers -> [Messages -> Settled \union {"none"}]]
  /\ copyTries \in [Workers -> [Messages -> Nat]]
  /\ retry \in [Workers -> SUBSET Messages]
  /\ dead \in [Workers -> SUBSET Leads]
  /\ listing \in [Workers -> SUBSET Leads]

HandlersTyped == h \in [Handlers -> Handler]

MailTyped ==
  /\ delivered \in [Messages -> Nat]
  /\ tries \in [Messages -> Nat]
  /\ outToday \in Nat
  /\ late \in [Workers -> [Leads -> Nat]]

(* The parts make up TypeOK. *)
LEMMA TypeParts ==
  TypeOK <=> /\ DatabaseTyped /\ LockTyped /\ WorkersTyped /\ CopyTyped
             /\ SessionTyped /\ HandlersTyped /\ MailTyped
BY DEF TypeOK, DatabaseTyped, LockTyped, WorkersTyped, CopyTyped, SessionTyped,
       HandlersTyped, MailTyped

(* Every message belongs to a lead, and its number is an integer. *)
LEMMA MessageFacts ==
  /\ Messages \subseteq Int
  /\ \A m \in Messages : LeadOf[m] \in Leads
  /\ None \notin Messages /\ None \notin Leads /\ None \notin Workers
BY SizeAssumption, NoneAssumption DEF Messages

(* A commit of a session leaves the tables typed. *)
LEMMA FlushTyping ==
  ASSUME TypeOK, NEW k \in Workers, FlushSession(k)
  PROVE  DatabaseTyped'
<1> USE DEF TypeOK, FlushSession
<1>1. status' \in [Messages -> MessageStatus]
  BY DEF NewStatus, Settled, MessageStatus
<1>2. attempts' \in [Messages -> Nat]
  OBVIOUS
<1>3. due' \subseteq Messages /\ today' \subseteq Messages
  OBVIOUS
<1>4. leadState' \in [Leads -> LeadState]
  BY DEF LeadState
<1>5. suppressed' \subseteq Leads
  OBVIOUS
<1> QED
  BY <1>1, <1>2, <1>3, <1>4, <1>5 DEF DatabaseTyped

(* Giving up the row locks leaves them typed. *)
LEMMA UnlockTyping ==
  ASSUME TypeOK, NEW k \in Workers, Unlock(k)
  PROVE  LockTyped'
BY DEF TypeOK, Unlock, LockTyped

(* The end of a cycle leaves the worker and its session typed. *)
LEMMA EndTyping ==
  ASSUME TypeOK, NEW k \in Workers, EndCycle(k)
  PROVE  WorkersTyped' /\ CopyTyped' /\ SessionTyped'
<1> USE DEF TypeOK, EndCycle, CleanSession, NoMarks, NoTries
<1>1. WorkersTyped'
  BY MessageFacts DEF WorkersTyped
<1>2. CopyTyped'
  BY DEF CopyTyped
<1>3. SessionTyped'
  BY DEF SessionTyped
<1> QED
  BY <1>1, <1>2, <1>3

(* What a worker sees of a lead is a state a lead can have. *)
LEMMA SeenTyped ==
  ASSUME TypeOK, NEW k \in Workers, NEW l \in Leads
  PROVE  Seen(k, l) \in LeadState
BY MessageFacts DEF TypeOK, Seen

(* Looking at a lead leaves the worker's copy typed. *)
LEMMA LookTyping ==
  ASSUME TypeOK, NEW k \in Workers, NEW l \in Leads, LookAt(k, l)
  PROVE  CopyTyped'
BY SeenTyped DEF TypeOK, LookAt, CopyTyped

(* A counted failure leaves the counters typed. *)
LEMMA FailureTyping ==
  ASSUME TypeOK, NEW k \in Workers, NEW m \in Messages, CountFailure(k, m)
  PROVE  /\ tries' \in [Messages -> Nat]
         /\ copyTries' \in [Workers -> [Messages -> Nat]]
         /\ retry' \in [Workers -> SUBSET Messages]
BY DEF TypeOK, CountFailure

(* So does giving a message up. *)
LEMMA GiveUpTyping ==
  ASSUME TypeOK, NEW k \in Workers, NEW m \in Messages, GiveUpAfterMax(k, m)
  PROVE  mark' \in [Workers -> [Messages -> Settled \union {"none"}]]
BY DEF TypeOK, GiveUpAfterMax, Settled

(* A mail that leaves, too. *)
LEMMA MailTyping ==
  ASSUME TypeOK, NEW k \in Workers, pc[k] = "send", MailOut(k)
  PROVE  /\ delivered' \in [Messages -> Nat]
         /\ outToday' \in Nat
         /\ late' \in [Workers -> [Leads -> Nat]]
<1>1. cur[k] \in Messages /\ LeadOf[cur[k]] \in Leads
  BY MessageFacts DEF TypeOK
<1>2. delivered' \in [Messages -> Nat] /\ outToday' \in Nat
  BY <1>1 DEF TypeOK, MailOut
<1>3. late' \in [Workers -> [Leads -> Nat]]
  <2>1. late[k] \in [Leads -> Nat]
    BY DEF TypeOK
  <2>2. [late[k] EXCEPT ![LeadOf[cur[k]]] = @ + 1] \in [Leads -> Nat]
    BY <1>1, <2>1
  <2> QED
    BY <2>2 DEF TypeOK, MailOut
<1> QED
  BY <1>2, <1>3

(* Going on to the next message leaves the worker typed. *)
LEMMA ContinueTyping ==
  ASSUME TypeOK, NEW k \in Workers, Continue(k), UNCHANGED <<todo, left>>,
         sent' \in [Workers -> Nat]
  PROVE  WorkersTyped'
BY DEF TypeOK, Continue, WorkersTyped

(* What a handler keeps of a request has its type. *)
LEMMA HandlerUpdate ==
  ASSUME TypeOK, NEW r \in Handlers, NEW v \in Handler, h' = [h EXCEPT ![r] = v]
  PROVE  HandlersTyped'
BY DEF TypeOK, HandlersTyped

(* The state a reply leads to, if it changes the lead's. *)
LEMMA TargetFacts ==
  ASSUME NEW op, NEW st, NEW t \in Targets(op, st)
  PROVE  /\ t \in {None, "ENGAGED", "MEETING_PROPOSED", "UNSUBSCRIBED"}
         /\ op \in {"optOut", "handOff"} /\ t = None => st \in {"ENGAGED", "MEETING_PROPOSED"}
BY NoneIsNoState DEF Targets, LeadState

(* A handler that has nothing to do is one. *)
LEMMA IdleTyped == IdleHandler \in Handler
BY DEF Handler

(* The request of a handler, while it has one. *)
LEMMA Request ==
  ASSUME TypeOK, NEW r \in Handlers, h[r].pc # "idle"
  PROVE  /\ h[r] \in [pc : {"rows", "commit"}, op : Ops, lead : Leads,
                      target : LeadState \union {None}, rows : SUBSET Messages, lists : SUBSET Leads]
         /\ h[r].lead \in Leads
<1>1. h[r] \in Handler /\ h[r] # IdleHandler
  BY DEF TypeOK, IdleHandler
<1> QED
  BY <1>1 DEF Handler

(* Every step keeps the types. *)
LEMMA TypingStep ==
  ASSUME TypeOK, [Next]_vars
  PROVE  TypeOK'
<1> USE DEF db, session, mail
<1>1. ASSUME NEW k \in Workers, Begin(k) PROVE TypeOK'
  <2> USE <1>1 DEF Begin
  <2>1. Remaining \in Int
    <3>1. SentToday \subseteq Messages
      BY DEF SentToday, TypeOK
    <3>2. IsFiniteSet(SentToday)
      <4>1. IsFiniteSet(Messages)
        BY SizeAssumption, FS_Interval DEF Messages
      <4> QED
        BY <3>1, <4>1, FS_Subset
    <3> QED
      BY <3>2, FS_CardinalityType, CapAssumption DEF Remaining
  <2>2. WorkersTyped'
    BY <2>1 DEF Selected, WorkersTyped, TypeOK
  <2>3. SessionTyped'
    BY DEF SessionTyped, TypeOK
  <2>4. LockTyped'
    BY DEF LockTyped, TypeOK
  <2>5. DatabaseTyped' /\ CopyTyped' /\ HandlersTyped' /\ MailTyped'
    BY DEF DatabaseTyped, CopyTyped, HandlersTyped, MailTyped, TypeOK
  <2> QED
    BY <2>2, <2>3, <2>4, <2>5, TypeParts, PTL
<1>2. ASSUME NEW k \in Workers, NEW m \in Messages, SkipMessage(k, m) PROVE TypeOK'
  <2> USE <1>2 DEF SkipMessage
  <2>1. CopyTyped'
    BY MessageFacts, LookTyping
  <2>2. SessionTyped'
    BY DEF SessionTyped, TypeOK, Settled
  <2>3. WorkersTyped'
    BY DEF WorkersTyped, TypeOK
  <2>4. DatabaseTyped' /\ LockTyped' /\ HandlersTyped' /\ MailTyped'
    BY DEF DatabaseTyped, LockTyped, HandlersTyped, MailTyped, TypeOK
  <2> QED
    BY <2>1, <2>2, <2>3, <2>4, TypeParts, PTL
<1>3. ASSUME NEW k \in Workers, NEW m \in Messages, CapReached(k, m) PROVE TypeOK'
  BY <1>3 DEF CapReached, TypeOK
<1>4. ASSUME NEW k \in Workers, NEW m \in Messages, PickMessage(k, m) PROVE TypeOK'
  <2> USE <1>4 DEF PickMessage
  <2>1. CopyTyped'
    BY MessageFacts, LookTyping
  <2>2. WorkersTyped'
    BY DEF WorkersTyped, TypeOK
  <2>3. DatabaseTyped' /\ LockTyped' /\ SessionTyped' /\ HandlersTyped' /\ MailTyped'
    BY DEF DatabaseTyped, LockTyped, SessionTyped, HandlersTyped, MailTyped, TypeOK
  <2> QED
    BY <2>1, <2>2, <2>3, TypeParts, PTL
<1>5. ASSUME NEW k \in Workers, TokenRefreshed(k) PROVE TypeOK'
  <2> USE <1>5 DEF TokenRefreshed
  <2>1. DatabaseTyped'
    BY FlushTyping
  <2>2. LockTyped'
    BY UnlockTyping
  <2>3. SessionTyped'
    BY DEF CleanSession, NoMarks, SessionTyped, TypeOK
  <2>4. WorkersTyped' /\ CopyTyped' /\ HandlersTyped' /\ MailTyped'
    BY DEF WorkersTyped, CopyTyped, HandlersTyped, MailTyped, TypeOK
  <2> QED
    BY <2>1, <2>2, <2>3, <2>4, TypeParts, PTL
<1>6. ASSUME NEW k \in Workers, TokenRevoked(k) \/ Finish(k) PROVE TypeOK'
  <2>1. FlushSession(k) /\ Unlock(k) /\ EndCycle(k) /\ UNCHANGED <<h, mail>>
    BY <1>6 DEF TokenRevoked, Finish
  <2>2. DatabaseTyped' /\ LockTyped' /\ WorkersTyped' /\ CopyTyped' /\ SessionTyped'
    BY <2>1, FlushTyping, UnlockTyping, EndTyping
  <2>3. HandlersTyped' /\ MailTyped'
    BY <2>1 DEF HandlersTyped, MailTyped, TypeOK
  <2> QED
    BY <2>2, <2>3, TypeParts, PTL
<1>7. ASSUME NEW k \in Workers, Abort(k) PROVE TypeOK'
  <2> USE <1>7 DEF Abort
  <2>1. LockTyped' /\ WorkersTyped' /\ CopyTyped' /\ SessionTyped'
    BY UnlockTyping, EndTyping
  <2>2. DatabaseTyped' /\ HandlersTyped' /\ MailTyped'
    BY DEF DatabaseTyped, HandlersTyped, MailTyped, TypeOK
  <2> QED
    BY <2>1, <2>2, TypeParts, PTL
<1>8. ASSUME NEW k \in Workers, Delivered(k) PROVE TypeOK'
  <2> USE <1>8 DEF Delivered
  <2>1. MailTyped'
    BY MailTyping DEF MailTyped, TypeOK
  <2>2. sent' \in [Workers -> Nat]
    BY DEF TypeOK
  <2>3. WorkersTyped'
    BY <2>2, ContinueTyping
  <2>4. SessionTyped'
    BY DEF SessionTyped, TypeOK, Settled
  <2>5. DatabaseTyped' /\ LockTyped' /\ CopyTyped' /\ HandlersTyped'
    BY DEF DatabaseTyped, LockTyped, CopyTyped, HandlersTyped, TypeOK
  <2> QED
    BY <2>1, <2>3, <2>4, <2>5, TypeParts, PTL
<1>9. ASSUME NEW k \in Workers, SendFails(k) \/ SendLost(k) PROVE TypeOK'
  <2>1. /\ cur[k] \in Messages
        /\ CountFailure(k, cur[k]) /\ GiveUpAfterMax(k, cur[k]) /\ Continue(k)
        /\ UNCHANGED <<db, lock, todo, sent, left, copyLead, copyState, dead, listing, h>>
    BY <1>9 DEF SendFails, SendLost, TypeOK
  <2>2. /\ delivered' \in [Messages -> Nat]
        /\ outToday' \in Nat
        /\ late' \in [Workers -> [Leads -> Nat]]
    BY <1>9, MailTyping DEF SendFails, SendLost, TypeOK
  <2>3. MailTyped' /\ SessionTyped'
    BY <2>1, <2>2, FailureTyping, GiveUpTyping DEF MailTyped, SessionTyped, TypeOK
  <2>4. WorkersTyped'
    BY <2>1, ContinueTyping DEF TypeOK
  <2>5. DatabaseTyped' /\ LockTyped' /\ CopyTyped' /\ HandlersTyped'
    BY <2>1 DEF DatabaseTyped, LockTyped, CopyTyped, HandlersTyped, TypeOK
  <2> QED
    BY <2>3, <2>4, <2>5, TypeParts, PTL
<1>10. ASSUME NEW k \in Workers, HardBounce(k) PROVE TypeOK'
  <2> USE <1>10 DEF HardBounce
  <2>1. cur[k] \in Messages /\ LeadOf[cur[k]] \in Leads
    BY MessageFacts DEF TypeOK
  <2>2. mark' \in [Workers -> [Messages -> Settled \union {"none"}]]
    <3>1. [n \in Messages |-> CASE n = cur[k] -> "FAILED"
                                 [] n \in Retirable(k, cur[k]) -> "SKIPPED"
                                 [] OTHER -> mark[k][n]]
            \in [Messages -> Settled \union {"none"}]
      BY DEF TypeOK, Settled
    <3> QED
      BY <3>1 DEF TypeOK
  <2>3. SessionTyped'
    BY <2>1, <2>2, FailureTyping DEF SessionTyped, TypeOK
  <2>4. CopyTyped'
    BY DEF CopyTyped, TypeOK, LeadState
  <2>5. WorkersTyped'
    BY ContinueTyping DEF TypeOK
  <2>6. MailTyped'
    BY <2>1, FailureTyping DEF MailTyped, TypeOK
  <2>7. DatabaseTyped' /\ LockTyped' /\ HandlersTyped'
    BY DEF DatabaseTyped, LockTyped, HandlersTyped, TypeOK
  <2> QED
    BY <2>3, <2>4, <2>5, <2>6, <2>7, TypeParts, PTL
<1>11. ASSUME NEW r \in Handlers, Handle(r) PROVE TypeOK'
  <2>1. /\ LockTyped' /\ WorkersTyped' /\ CopyTyped'
        /\ SessionTyped' /\ MailTyped'
    <3>1. UNCHANGED Sessions
      BY <1>11 DEF Handle, ActivateRead, ActivateCommit, ProposeRead, ProposeCommit,
                   TriageRead, TriageRows,
                   RetireCommit, PostponeCommit, AbortHandler
    <3> QED
      BY <3>1 DEF Sessions, LockTyped, WorkersTyped, CopyTyped, SessionTyped, MailTyped, TypeOK
  <2>2. h[r] \in Handler /\ (h[r].pc # "idle" => h[r].lead \in Leads)
    <3>1. h[r] \in Handler
      BY DEF TypeOK
    <3>2. h[r] = IdleHandler => h[r].pc = "idle"
      BY DEF IdleHandler
    <3> QED
      BY <3>1, <3>2 DEF Handler
  <2>3. ASSUME NEW l \in Leads, ActivateRead(r, l) PROVE DatabaseTyped' /\ HandlersTyped'
    <3> DEFINE v == [pc |-> "commit", op |-> "activate", lead |-> l,
                     target |-> None,
                     rows |-> {m \in MessagesOf(l) : status[m] = "DRAFT"}, lists |-> {}]
    <3>1. v \in Handler
      BY <2>3 DEF Handler, LeadState, MessagesOf, ActivateRead
    <3> HIDE DEF v
    <3>2. h' = [h EXCEPT ![r] = v]
      BY <2>3 DEF ActivateRead, v
    <3>3. HandlersTyped'
      BY <3>1, <3>2, HandlerUpdate
    <3> QED
      BY <2>3, <3>3 DEF ActivateRead, DatabaseTyped, TypeOK
  <2>4. ASSUME NEW l \in Leads, NEW op \in Ops, TriageRead(r, l, op)
        PROVE  DatabaseTyped' /\ HandlersTyped'
    <3>0. PICK t \in Targets(op, leadState[l]) :
            h' = [h EXCEPT ![r] = [pc |-> "rows", op |-> op, lead |-> l, target |-> t,
                                   rows |-> {}, lists |-> {}]]
      BY <2>4 DEF TriageRead
    <3> DEFINE v == [pc |-> "rows", op |-> op, lead |-> l, target |-> t, rows |-> {},
                     lists |-> {}]
    <3>1. v \in Handler
      BY TargetFacts DEF Handler, LeadState
    <3> HIDE DEF v
    <3>2. h' = [h EXCEPT ![r] = v]
      BY <3>0 DEF v
    <3>3. HandlersTyped'
      BY <3>1, <3>2, HandlerUpdate
    <3> QED
      BY <2>4, <3>3 DEF TriageRead, DatabaseTyped, TypeOK
  <2>5. ASSUME TriageRows(r) PROVE DatabaseTyped' /\ HandlersTyped'
    <3> DEFINE v == [h[r] EXCEPT !.pc = "commit",
                                 !.rows = {m \in MessagesOf(h[r].lead) :
                                             status[m] \in Pending(h[r].op)},
                                 !.lists = IF h[r].op = "optOut" THEN {h[r].lead} \ suppressed
                                          ELSE {}]
    <3>1. v \in Handler
      <4>1. h[r].pc # "idle"
        BY <2>5 DEF TriageRows
      <4>2. h[r] \in [pc : {"rows", "commit"}, op : Ops, lead : Leads,
                      target : LeadState \union {None}, rows : SUBSET Messages, lists : SUBSET Leads]
        BY <4>1, Request
      <4>3. {m \in MessagesOf(h[r].lead) : status[m] \in Pending(h[r].op)} \subseteq Messages
        BY DEF MessagesOf
      <4>4. (IF h[r].op = "optOut" THEN {h[r].lead} \ suppressed ELSE {}) \subseteq Leads
        BY <4>2
      <4> QED
        BY <4>2, <4>3, <4>4 DEF Handler
    <3>2. h' = [h EXCEPT ![r] = v]
      BY <2>5, <2>2 DEF TriageRows, Handler, IdleHandler, TypeOK
    <3> HIDE DEF v
    <3>3. HandlersTyped'
      BY <3>1, <3>2, HandlerUpdate
    <3> QED
      BY <2>5, <3>3 DEF TriageRows, DatabaseTyped, TypeOK
  <2>6. ASSUME ActivateCommit(r) PROVE DatabaseTyped' /\ HandlersTyped'
    <3>1. HandlersTyped'
      BY <2>6, IdleTyped, HandlerUpdate DEF ActivateCommit
    <3>2. status' \in [Messages -> MessageStatus]
      BY <2>6 DEF ActivateCommit, MessageStatus, TypeOK
    <3>3. due' \subseteq Messages
      BY <2>6, <2>2 DEF ActivateCommit, Handler, IdleHandler, TypeOK
    <3>4. leadState' \in [Leads -> LeadState]
      BY <2>6 DEF ActivateCommit, LeadState, TypeOK
    <3> QED
      BY <2>6, <3>1, <3>2, <3>3, <3>4 DEF ActivateCommit, DatabaseTyped, TypeOK
  <2>7. ASSUME RetireCommit(r) PROVE DatabaseTyped' /\ HandlersTyped'
    <3>1. HandlersTyped'
      BY <2>7, IdleTyped, HandlerUpdate DEF RetireCommit
    <3>2. status' \in [Messages -> MessageStatus]
      BY <2>7 DEF RetireCommit, MessageStatus, TypeOK
    <3>3. leadState' \in [Leads -> LeadState]
      BY <2>7, <2>2 DEF RetireCommit, Handler, IdleHandler, TypeOK
    <3>4. suppressed' \subseteq Leads
      BY <2>7, <2>2 DEF RetireCommit, Handler, IdleHandler, TypeOK
    <3> QED
      BY <2>7, <3>1, <3>2, <3>3, <3>4 DEF RetireCommit, DatabaseTyped, TypeOK
  <2>8. ASSUME PostponeCommit(r) PROVE DatabaseTyped' /\ HandlersTyped'
    <3>1. HandlersTyped'
      BY <2>8, IdleTyped, HandlerUpdate DEF PostponeCommit
    <3> QED
      BY <2>8, <3>1 DEF PostponeCommit, DatabaseTyped, TypeOK
  <2>9. ASSUME AbortHandler(r) PROVE DatabaseTyped' /\ HandlersTyped'
    <3>1. HandlersTyped'
      BY <2>9, IdleTyped, HandlerUpdate DEF AbortHandler
    <3> QED
      BY <2>9, <3>1 DEF AbortHandler, DatabaseTyped, TypeOK
  <2>10. ASSUME NEW l \in Leads, ProposeRead(r, l) PROVE DatabaseTyped' /\ HandlersTyped'
    <3> DEFINE v == [pc |-> "commit", op |-> "propose", lead |-> l,
                     target |-> None, rows |-> {}, lists |-> {}]
    <3>1. v \in Handler
      BY <2>10 DEF Handler, LeadState, ProposeRead
    <3> HIDE DEF v
    <3>2. h' = [h EXCEPT ![r] = v]
      BY <2>10 DEF ProposeRead, v
    <3>3. HandlersTyped'
      BY <3>1, <3>2, HandlerUpdate
    <3> QED
      BY <2>10, <3>3 DEF ProposeRead, DatabaseTyped, TypeOK
  <2>11. ASSUME ProposeCommit(r) PROVE DatabaseTyped' /\ HandlersTyped'
    <3>1. HandlersTyped'
      BY <2>11, IdleTyped, HandlerUpdate DEF ProposeCommit
    <3>3. leadState' \in [Leads -> LeadState]
      BY <2>11 DEF ProposeCommit, LeadState, TypeOK
    <3> QED
      BY <2>11, <3>1, <3>3 DEF ProposeCommit, DatabaseTyped, TypeOK
  <2>12. DatabaseTyped' /\ HandlersTyped'
    BY <1>11, <2>3, <2>4, <2>5, <2>6, <2>7, <2>8, <2>9, <2>10, <2>11 DEF Handle
  <2> QED
    BY <2>1, <2>12, TypeParts, PTL
<1>12. ASSUME NEW m \in Messages, Tick(m) PROVE TypeOK'
  BY <1>12 DEF Tick, Sessions, TypeOK
<1>13. CASE NewDay
  BY <1>13 DEF NewDay, TypeOK
<1>14. CASE UNCHANGED vars
  BY <1>14 DEF vars, TypeOK
<1>15. ASSUME NEW k \in Workers, Work(k) PROVE TypeOK'
  BY <1>15, <1>1, <1>2, <1>3, <1>4, <1>5, <1>6, <1>7, <1>8, <1>9, <1>10 DEF Work
<1> QED
  BY <1>11, <1>12, <1>13, <1>14, <1>15 DEF Next

(* The types hold at the start. *)
LEMMA TypingInit == Init => TypeOK
BY DEF Init, TypeOK, NoMarks, NoTries, IdleHandler, Handler, MessageStatus, LeadState

(* Every variable keeps its type, whatever the number of leads, messages,    *)
(* workers and handlers.                                                     *)
THEOREM Typing == Spec => []TypeOK
<1>1. TypeOK /\ [Next]_vars => TypeOK'
  BY TypingStep
<1> QED
  BY TypingInit, <1>1, PTL DEF Spec

-----------------------------------------------------------------------------
(* What is recorded as sent has left *)

(* A mail that left stays in the count. *)
LEMMA DeliveredGrows ==
  ASSUME TypeOK, [Next]_vars, NEW m \in Messages
  PROVE  delivered'[m] >= delivered[m] /\ delivered[m] \in Nat
<1> USE DEF db, session, mail
<1>1. delivered[m] \in Nat
  BY DEF TypeOK
<1>2. ASSUME NEW k \in Workers, Work(k), ~(Delivered(k) \/ SendLost(k))
      PROVE  UNCHANGED delivered
  BY <1>2 DEF Work, Begin, SkipMessage, CapReached, PickMessage, TokenRefreshed, TokenRevoked,
              SendFails, HardBounce, Finish, Abort
<1>3. ASSUME NEW k \in Workers, Delivered(k) \/ SendLost(k)
      PROVE  delivered' = [delivered EXCEPT ![cur[k]] = @ + 1]
  BY <1>3 DEF Delivered, SendLost, MailOut
<1>4. ASSUME NEW r \in Handlers, Handle(r)
      PROVE  UNCHANGED delivered
  BY <1>4 DEF Handle, Sessions, ActivateRead, ActivateCommit, ProposeRead, ProposeCommit,
              TriageRead, TriageRows,
              RetireCommit, PostponeCommit, AbortHandler
<1>5. ASSUME (\E n \in Messages : Tick(n)) \/ NewDay \/ UNCHANGED vars
      PROVE  UNCHANGED delivered
  BY <1>5 DEF Tick, NewDay, vars, Sessions
<1>6. \/ UNCHANGED delivered
      \/ \E k \in Workers : delivered' = [delivered EXCEPT ![cur[k]] = @ + 1]
  BY <1>2, <1>3, <1>4, <1>5 DEF Next
<1>7. ASSUME NEW k \in Workers, delivered' = [delivered EXCEPT ![cur[k]] = @ + 1]
      PROVE  delivered'[m] \in {delivered[m], delivered[m] + 1}
  BY <1>7 DEF TypeOK
<1> QED
  BY <1>1, <1>6, <1>7

(* A row becomes SENT by the commit of a session that marked it so. *)
LEMMA SentByCommit ==
  ASSUME TypeOK, [Next]_vars, NEW m \in Messages, status'[m] = "SENT"
  PROVE  status[m] = "SENT" \/ \E k \in Workers : mark[k][m] = "SENT"
<1> USE DEF db, session, mail
<1>1. ASSUME NEW k \in Workers, Work(k)
      PROVE  UNCHANGED status \/ FlushSession(k)
  BY <1>1 DEF Work, Begin, SkipMessage, CapReached, PickMessage, TokenRefreshed, TokenRevoked,
              Delivered, SendLost, SendFails, HardBounce, Finish, Abort
<1>2. ASSUME NEW k \in Workers, FlushSession(k)
      PROVE  status[m] = "SENT" \/ mark[k][m] = "SENT"
  BY <1>2 DEF FlushSession, NewStatus
<1>3. ASSUME NEW r \in Handlers, Handle(r)
      PROVE  status[m] = "SENT"
  BY <1>3 DEF Handle, ActivateRead, ActivateCommit, ProposeRead, ProposeCommit,
              TriageRead, TriageRows,
              RetireCommit, PostponeCommit, AbortHandler
<1>4. ASSUME (\E n \in Messages : Tick(n)) \/ NewDay \/ UNCHANGED vars
      PROVE  UNCHANGED status
  BY <1>4 DEF Tick, NewDay, vars
<1> QED
  BY <1>1, <1>2, <1>3, <1>4 DEF Next

(* A session marks a message SENT in the step in which its mail leaves. *)
LEMMA MarkedByDelivery ==
  ASSUME TypeOK, [Next]_vars, NEW k \in Workers, NEW m \in Messages, mark'[k][m] = "SENT"
  PROVE  mark[k][m] = "SENT" \/ (Delivered(k) /\ m = cur[k])
<1> USE DEF db, session, mail
<1>1. ASSUME NEW j \in Workers, Work(j)
      PROVE  mark[k][m] = "SENT" \/ (Delivered(k) /\ m = cur[k])
  <2>1. CASE Begin(j) \/ \E n \in Messages : CapReached(j, n) \/ PickMessage(j, n)
    BY <2>1 DEF Begin, CapReached, PickMessage
  <2>2. CASE \E n \in Messages : SkipMessage(j, n)
    BY <2>2 DEF SkipMessage, TypeOK
  <2>3. CASE TokenRefreshed(j) \/ TokenRevoked(j) \/ Finish(j) \/ Abort(j)
    <3>1. mark' = [mark EXCEPT ![j] = NoMarks]
      BY <2>3 DEF TokenRefreshed, TokenRevoked, Finish, Abort, EndCycle, CleanSession
    <3> QED
      BY <3>1 DEF NoMarks, TypeOK
  <2>4. CASE Delivered(j)
    BY <2>4 DEF Delivered, TypeOK
  <2>5. CASE SendFails(j) \/ SendLost(j)
    <3>1. mark' = mark \/ mark' = [mark EXCEPT ![j][cur[j]] = "FAILED"]
      BY <2>5 DEF SendFails, SendLost, GiveUpAfterMax
    <3>2. cur[j] \in Messages
      BY <2>5 DEF SendFails, SendLost, TypeOK
    <3>3. CASE mark' = [mark EXCEPT ![j][cur[j]] = "FAILED"]
      BY <3>2, <3>3 DEF TypeOK
    <3> QED
      BY <3>1, <3>3
  <2>6. CASE HardBounce(j)
    <3>1. cur[j] \in Messages
      BY <2>6 DEF HardBounce, TypeOK
    <3>2. mark'[k][m] \in {"FAILED", "SKIPPED", mark[k][m]}
      BY <2>6, <3>1 DEF HardBounce, TypeOK
    <3> QED
      BY <3>2
  <2> QED
    BY <1>1, <2>1, <2>2, <2>3, <2>4, <2>5, <2>6 DEF Work
<1>2. ASSUME NEW r \in Handlers, Handle(r)
      PROVE  UNCHANGED mark
  BY <1>2 DEF Handle, Sessions, ActivateRead, ActivateCommit, ProposeRead, ProposeCommit,
              TriageRead, TriageRows,
              RetireCommit, PostponeCommit, AbortHandler
<1>3. ASSUME (\E n \in Messages : Tick(n)) \/ NewDay \/ UNCHANGED vars
      PROVE  UNCHANGED mark
  BY <1>3 DEF Tick, NewDay, vars, Sessions
<1> QED
  BY <1>1, <1>2, <1>3 DEF Next

(* What a session is about to record as sent has left as well. *)
RecordsAreTrue ==
  /\ SentMeansDelivered
  /\ \A k \in Workers, m \in Messages : mark[k][m] = "SENT" => delivered[m] > 0

(* What the database or a session calls SENT has left, in every              *)
(* interleaving, after crashes and lost answers too.                         *)
THEOREM SentIsDelivered == Spec => []SentMeansDelivered
<1>1. Init => RecordsAreTrue
  BY DEF Init, NoMarks, RecordsAreTrue, SentMeansDelivered
<1>2. TypeOK /\ RecordsAreTrue /\ [Next]_vars => RecordsAreTrue'
  <2> SUFFICES ASSUME TypeOK, RecordsAreTrue, [Next]_vars
               PROVE  RecordsAreTrue'
    OBVIOUS
  <2>1. ASSUME NEW m \in Messages, status'[m] = "SENT"
        PROVE  delivered'[m] > 0
    <3>1. delivered[m] > 0
      BY <2>1, SentByCommit DEF RecordsAreTrue, SentMeansDelivered
    <3>2. delivered'[m] >= delivered[m] /\ delivered[m] \in Nat
      BY DeliveredGrows
    <3>3. delivered'[m] \in Nat
      BY TypingStep DEF TypeOK
    <3> QED
      BY <3>1, <3>2, <3>3
  <2>2. ASSUME NEW k \in Workers, NEW m \in Messages, mark'[k][m] = "SENT"
        PROVE  delivered'[m] > 0
    <3>1. CASE mark[k][m] = "SENT"
      <4>1. delivered[m] > 0 /\ delivered'[m] >= delivered[m] /\ delivered[m] \in Nat
        BY <3>1, DeliveredGrows DEF RecordsAreTrue
      <4>2. delivered'[m] \in Nat
        BY TypingStep DEF TypeOK
      <4> QED
        BY <4>1, <4>2
    <3>2. CASE Delivered(k) /\ m = cur[k]
      BY <3>2 DEF Delivered, MailOut, TypeOK
    <3> QED
      BY <2>2, <3>1, <3>2, MarkedByDelivery
  <2> QED
    BY <2>1, <2>2 DEF RecordsAreTrue, SentMeansDelivered
<1>3. RecordsAreTrue => SentMeansDelivered
  BY DEF RecordsAreTrue
<1> QED
  BY Typing, <1>1, <1>2, <1>3, PTL DEF Spec

-----------------------------------------------------------------------------
(* Opt-outs *)

(* Nobody is taken off the do-not-contact list. *)
LEMMA SuppressedGrows ==
  ASSUME TypeOK, [Next]_vars
  PROVE  suppressed \subseteq suppressed'
<1> USE DEF db, session, mail
<1>1. ASSUME NEW k \in Workers, Work(k)
      PROVE  UNCHANGED suppressed \/ FlushSession(k)
  BY <1>1 DEF Work, Begin, SkipMessage, CapReached, PickMessage, TokenRefreshed, TokenRevoked,
              Delivered, SendLost, SendFails, HardBounce, Finish, Abort
<1>2. ASSUME NEW k \in Workers, FlushSession(k)
      PROVE  suppressed \subseteq suppressed'
  BY <1>2 DEF FlushSession
<1>3. ASSUME NEW r \in Handlers, Handle(r)
      PROVE  suppressed \subseteq suppressed'
  BY <1>3 DEF Handle, ActivateRead, ActivateCommit, ProposeRead, ProposeCommit,
              TriageRead, TriageRows,
              RetireCommit, PostponeCommit, AbortHandler
<1>4. ASSUME (\E n \in Messages : Tick(n)) \/ NewDay \/ UNCHANGED vars
      PROVE  UNCHANGED suppressed
  BY <1>4 DEF Tick, NewDay, vars
<1> QED
  BY <1>1, <1>2, <1>3, <1>4 DEF Next

(* A worker comes to send a message only when its lead is not suppressed.    *)
LEMMA PickedUnsuppressed ==
  ASSUME TypeOK, [Next]_vars, NEW k \in Workers, pc'[k] = "send"
  PROVE  \/ pc[k] = "send" /\ cur'[k] = cur[k]
         \/ LeadOf[cur'[k]] \notin suppressed /\ late' = late
<1> USE DEF db, session, mail
<1>1. ASSUME NEW j \in Workers, Work(j)
      PROVE  \/ pc[k] = "send" /\ cur'[k] = cur[k]
             \/ LeadOf[cur'[k]] \notin suppressed /\ late' = late
  <2>1. CASE Begin(j)
    BY <2>1 DEF Begin, TypeOK
  <2>2. CASE \E n \in Messages : SkipMessage(j, n) \/ CapReached(j, n)
    BY <2>2 DEF SkipMessage, CapReached
  <2>3. ASSUME NEW n \in Messages, PickMessage(j, n)
        PROVE  \/ pc[k] = "send" /\ cur'[k] = cur[k]
               \/ LeadOf[cur'[k]] \notin suppressed /\ late' = late
    BY <2>3 DEF PickMessage, Eligible, TypeOK
  <2>4. CASE TokenRefreshed(j)
    BY <2>4 DEF TokenRefreshed
  <2>5. CASE TokenRevoked(j) \/ Finish(j) \/ Abort(j)
    BY <2>5 DEF TokenRevoked, Finish, Abort, EndCycle, TypeOK
  <2>6. CASE Delivered(j) \/ SendLost(j) \/ SendFails(j) \/ HardBounce(j)
    <3>1. Continue(j)
      BY <2>6 DEF Delivered, SendLost, SendFails, HardBounce
    <3> QED
      BY <3>1 DEF Continue, TypeOK
  <2> QED
    BY <1>1, <2>1, <2>2, <2>3, <2>4, <2>5, <2>6 DEF Work
<1>2. ASSUME NEW r \in Handlers, Handle(r)
      PROVE  UNCHANGED <<pc, cur>>
  BY <1>2 DEF Handle, Sessions, ActivateRead, ActivateCommit, ProposeRead, ProposeCommit,
              TriageRead, TriageRows,
              RetireCommit, PostponeCommit, AbortHandler
<1>3. ASSUME (\E n \in Messages : Tick(n)) \/ NewDay \/ UNCHANGED vars
      PROVE  UNCHANGED <<pc, cur>>
  BY <1>3 DEF Tick, NewDay, vars, Sessions
<1> QED
  BY <1>1, <1>2, <1>3 DEF Next

(* A late mail is counted for the worker that was sending it, once. *)
LEMMA LateByMail ==
  ASSUME TypeOK, [Next]_vars, NEW k \in Workers, NEW l \in Leads
  PROVE  \/ late'[k][l] = late[k][l]
         \/ /\ pc[k] = "send" /\ LeadOf[cur[k]] = l /\ l \in suppressed
            /\ late'[k][l] = late[k][l] + 1 /\ pc'[k] = "loop"
<1> USE DEF db, session, mail
<1>1. ASSUME NEW j \in Workers, Work(j), ~(Delivered(j) \/ SendLost(j))
      PROVE  UNCHANGED late
  BY <1>1 DEF Work, Begin, SkipMessage, CapReached, PickMessage, TokenRefreshed, TokenRevoked,
              SendFails, HardBounce, Finish, Abort
<1>2. ASSUME NEW j \in Workers, Delivered(j) \/ SendLost(j)
      PROVE  \/ late'[k][l] = late[k][l]
             \/ /\ pc[k] = "send" /\ LeadOf[cur[k]] = l /\ l \in suppressed
                /\ late'[k][l] = late[k][l] + 1 /\ pc'[k] = "loop"
  <2>1. pc[j] = "send" /\ MailOut(j) /\ Continue(j)
    BY <1>2 DEF Delivered, SendLost
  <2>2. late[j] \in [Leads -> Nat] /\ late[k] \in [Leads -> Nat]
    BY DEF TypeOK
  <2>3. pc'[j] = "loop"
    BY <2>1 DEF Continue, TypeOK
  <2>4. CASE LeadOf[cur[j]] \in suppressed
    <3>1. late' = [late EXCEPT ![j][LeadOf[cur[j]]] = @ + 1]
      BY <2>1, <2>4 DEF MailOut
    <3>2. CASE k = j /\ l = LeadOf[cur[j]]
      BY <2>1, <2>2, <2>3, <2>4, <3>1, <3>2 DEF TypeOK
    <3>3. CASE ~(k = j /\ l = LeadOf[cur[j]])
      BY <2>2, <3>1, <3>3 DEF TypeOK
    <3> QED
      BY <3>2, <3>3
  <2>5. CASE LeadOf[cur[j]] \notin suppressed
    BY <2>1, <2>5 DEF MailOut
  <2> QED
    BY <2>4, <2>5
<1>3. ASSUME NEW r \in Handlers, Handle(r)
      PROVE  UNCHANGED late
  BY <1>3 DEF Handle, Sessions, ActivateRead, ActivateCommit, ProposeRead, ProposeCommit,
              TriageRead, TriageRows,
              RetireCommit, PostponeCommit, AbortHandler
<1>4. ASSUME (\E n \in Messages : Tick(n)) \/ NewDay \/ UNCHANGED vars
      PROVE  UNCHANGED late
  BY <1>4 DEF Tick, NewDay, vars, Sessions
<1> QED
  BY <1>1, <1>2, <1>3, <1>4 DEF Next

(* The one late mail of a worker was on its way when the lead was suppressed; *)
(* the worker is not sending to that lead again.                              *)
LateIsOver ==
  /\ OptOutHonoured
  /\ \A k \in Workers, l \in Leads : late[k][l] > 0 =>
       l \in suppressed /\ ~(pc[k] = "send" /\ LeadOf[cur[k]] = l)

(* After an opt-out is committed a worker sends the lead one more mail at    *)
(* most, however many workers, handlers and failures there are.              *)
THEOREM OptOutsAreHonoured == Spec => []OptOutHonoured
<1>1. Init => LateIsOver
  BY DEF Init, LateIsOver, OptOutHonoured
<1>2. TypeOK /\ LateIsOver /\ [Next]_vars => LateIsOver'
  <2> SUFFICES ASSUME TypeOK, LateIsOver, [Next]_vars, NEW k \in Workers, NEW l \in Leads
               PROVE  /\ late'[k][l] <= 1
                      /\ late'[k][l] > 0 =>
                           l \in suppressed' /\ ~(pc'[k] = "send" /\ LeadOf[cur'[k]] = l)
    BY DEF LateIsOver, OptOutHonoured
  <2>1. late[k][l] \in Nat /\ late[k][l] <= 1
    BY DEF TypeOK, LateIsOver, OptOutHonoured
  <2>2. CASE late'[k][l] = late[k][l]
    <3>1. ASSUME late[k][l] > 0
          PROVE  ~(pc'[k] = "send" /\ LeadOf[cur'[k]] = l)
      BY <3>1, PickedUnsuppressed DEF LateIsOver
    <3> QED
      BY <2>1, <2>2, <3>1, SuppressedGrows DEF LateIsOver
  <2>3. CASE /\ pc[k] = "send" /\ LeadOf[cur[k]] = l /\ l \in suppressed
             /\ late'[k][l] = late[k][l] + 1 /\ pc'[k] = "loop"
    <3>1. late[k][l] = 0
      BY <2>1, <2>3 DEF LateIsOver
    <3> QED
      BY <2>3, <3>1, SuppressedGrows
  <2> QED
    BY <2>2, <2>3, LateByMail
<1>3. LateIsOver => OptOutHonoured
  BY DEF LateIsOver
<1> QED
  BY Typing, <1>1, <1>2, <1>3, PTL DEF Spec

-----------------------------------------------------------------------------
(* Workers that keep apart: there is one, or the rows stay locked *)

SoleWorker  == \A j, k \in Workers : j = k
SoleHandler == \A q, r \in Handlers : q = r

(* The database locks rows, and no refreshed token commits before the end of *)
(* a cycle.                                                                  *)
LockedCycles == RowLocks /\ "refresh" \notin Outcomes
Exclusive    == SoleWorker \/ LockedCycles

(* What a cycle has in hand: it is to be sent, is being sent, or its session *)
(* has something to record of it.                                            *)
Holds(k, m) == \/ m \in todo[k]
               \/ pc[k] = "send" /\ cur[k] = m
               \/ m \in retry[k]
               \/ mark[k][m] = "SENT"

HeldIsLocked == \A k \in Workers, m \in Messages : Holds(k, m) => lock[m] = k

(* No message is in the hands of two workers. *)
KeptApart == \A j, k \in Workers, m \in Messages : Holds(j, m) /\ Holds(k, m) => j = k

Apart == KeptApart /\ (LockedCycles => HeldIsLocked)

(* A worker's own variables are changed by the worker alone. *)
LEMMA OthersRest ==
  ASSUME TypeOK, NEW j \in Workers, Work(j), NEW k \in Workers, j # k
  PROVE  /\ pc'[k] = pc[k] /\ todo'[k] = todo[k] /\ cur'[k] = cur[k]
         /\ mark'[k] = mark[k] /\ dead'[k] = dead[k]
         /\ retry'[k] = retry[k] /\ copyTries'[k] = copyTries[k]
         /\ copyLead'[k] = copyLead[k] /\ copyState'[k] = copyState[k]
<1> USE DEF db, session, mail, TypeOK
<1>1. CASE Begin(j)
  BY <1>1 DEF Begin
<1>2. CASE \E m \in Messages : SkipMessage(j, m) \/ CapReached(j, m) \/ PickMessage(j, m)
  BY <1>2 DEF SkipMessage, CapReached, PickMessage, LookAt
<1>3. CASE TokenRefreshed(j)
  BY <1>3 DEF TokenRefreshed, CleanSession
<1>4. CASE TokenRevoked(j) \/ Finish(j) \/ Abort(j)
  BY <1>4 DEF TokenRevoked, Finish, Abort, EndCycle, CleanSession
<1>5. CASE Delivered(j)
  BY <1>5 DEF Delivered, Continue
<1>6. CASE SendFails(j) \/ SendLost(j)
  BY <1>6 DEF SendFails, SendLost, Continue, GiveUpAfterMax, CountFailure
<1>7. CASE HardBounce(j)
  BY <1>7 DEF HardBounce, Continue, CountFailure
<1> QED
  BY <1>1, <1>2, <1>3, <1>4, <1>5, <1>6, <1>7 DEF Work

(* Handlers and the clock leave the sessions and the locks alone. *)
LEMMA SessionsRest ==
  ASSUME [Next]_vars, ~\E k \in Workers : Work(k)
  PROVE  /\ UNCHANGED <<lock, pc, todo, cur, sent, left, mark, copyTries, retry, dead>>
         /\ UNCHANGED <<attempts, delivered, tries, copyLead, copyState>>
<1> USE DEF db, session, mail
<1>1. ASSUME (\E r \in Handlers : Handle(r)) \/ (\E m \in Messages : Tick(m)) \/ NewDay
             \/ UNCHANGED vars
      PROVE  /\ UNCHANGED <<lock, pc, todo, cur, sent, left, mark, copyTries, retry, dead>>
             /\ UNCHANGED <<attempts, delivered, tries, copyLead, copyState>>
  BY <1>1 DEF Handle, Sessions, ActivateRead, ActivateCommit, ProposeRead, ProposeCommit,
              TriageRead, TriageRows,
              RetireCommit, PostponeCommit, AbortHandler, Tick, NewDay, vars
<1> QED
  BY <1>1 DEF Next

(* A worker takes in hand what it selects and nothing else. *)
LEMMA HoldsStep ==
  ASSUME TypeOK, NEW k \in Workers, Work(k), NEW m \in Messages, Holds(k, m)'
  PROVE  Holds(k, m) \/ (Begin(k) /\ m \in Selected)
<1> USE DEF db, session, mail, TypeOK
<1>1. CASE Begin(k)
  BY <1>1 DEF Begin, Holds
<1>2. ASSUME NEW n \in Messages, SkipMessage(k, n)
      PROVE  Holds(k, m)
  BY <1>2 DEF SkipMessage, Holds
<1>3. ASSUME NEW n \in Messages, CapReached(k, n) \/ PickMessage(k, n)
      PROVE  Holds(k, m)
  BY <1>3 DEF CapReached, PickMessage, NextUp, Holds
<1>4. CASE TokenRefreshed(k)
  BY <1>4 DEF TokenRefreshed, CleanSession, NoMarks, Holds
<1>5. CASE TokenRevoked(k) \/ Finish(k) \/ Abort(k)
  BY <1>5 DEF TokenRevoked, Finish, Abort, EndCycle, CleanSession, NoMarks, Holds
<1>6. CASE Delivered(k)
  BY <1>6 DEF Delivered, Continue, Holds
<1>7. CASE SendFails(k) \/ SendLost(k)
  <2>1. cur[k] \in Messages /\ pc[k] = "send" /\ pc'[k] = "loop" /\ todo'[k] = todo[k]
    BY <1>7 DEF SendFails, SendLost, Continue
  <2>2. retry'[k] = retry[k] \union {cur[k]}
    BY <1>7 DEF SendFails, SendLost, CountFailure
  <2>3. mark'[k][m] \in {mark[k][m], "FAILED"}
    BY <1>7, <2>1 DEF SendFails, SendLost, GiveUpAfterMax
  <2> QED
    BY <2>1, <2>2, <2>3 DEF Holds
<1>8. CASE HardBounce(k)
  <2>1. cur[k] \in Messages /\ pc[k] = "send" /\ pc'[k] = "loop" /\ todo'[k] = todo[k]
    BY <1>8 DEF HardBounce, Continue
  <2>2. retry'[k] = retry[k] \union {cur[k]}
    BY <1>8 DEF HardBounce, CountFailure
  <2>3. mark'[k][m] \in {mark[k][m], "FAILED", "SKIPPED"}
    BY <1>8 DEF HardBounce
  <2> QED
    BY <2>1, <2>2, <2>3 DEF Holds
<1> QED
  BY <1>1, <1>2, <1>3, <1>4, <1>5, <1>6, <1>7, <1>8 DEF Work

(* With cycles that keep their locks, what a worker has in hand is locked by *)
(* it, and a row that is locked is selected by nobody.                       *)
LEMMA LocksHold ==
  ASSUME LockedCycles, TypeOK, HeldIsLocked, [Next]_vars
  PROVE  HeldIsLocked'
<1> USE DEF db, session, mail
<1>1. ASSUME NEW k \in Workers, Work(k)
      PROVE  HeldIsLocked'
  <2> SUFFICES ASSUME NEW j \in Workers, NEW m \in Messages, Holds(j, m)'
               PROVE  lock'[m] = j
    BY DEF HeldIsLocked
  <2>1. ~TokenRefreshed(k)
    BY DEF LockedCycles, TokenRefreshed
  <2>2. CASE j # k
    <3>1. Holds(j, m)
      BY <1>1, <2>2, OthersRest DEF Holds
    <3>2. lock[m] = j /\ j # None
      BY <3>1, NoneAssumption DEF HeldIsLocked
    <3>3. CASE Begin(k)
      BY <3>2, <3>3 DEF Begin, Selected, LockedCycles
    <3>4. CASE ~Begin(k)
      <4>1. lock' = lock \/ Unlock(k)
        BY <1>1, <2>1, <3>4 DEF Work, SkipMessage, CapReached, PickMessage, TokenRevoked,
             Delivered, SendLost, SendFails, HardBounce, Finish, Abort
      <4> QED
        BY <2>2, <3>2, <4>1 DEF Unlock
    <3> QED
      BY <3>3, <3>4
  <2>3. CASE j = k /\ Begin(k)
    <3>1. Holds(k, m) \/ m \in Selected
      BY <1>1, <2>3, HoldsStep
    <3> QED
      BY <2>3, <3>1 DEF Begin, HeldIsLocked, LockedCycles
  <2>4. CASE j = k /\ ~Begin(k)
    <3>1. Holds(k, m)
      BY <1>1, <2>4, HoldsStep
    <3>2. CASE TokenRevoked(k) \/ Finish(k) \/ Abort(k)
      <4>1. ~Holds(k, m)'
        BY <3>2 DEF TokenRevoked, Finish, Abort, EndCycle, CleanSession, NoMarks, Holds, TypeOK
      <4> QED
        BY <2>4, <4>1
    <3>3. CASE ~(TokenRevoked(k) \/ Finish(k) \/ Abort(k))
      <4>1. lock' = lock
        BY <1>1, <2>1, <2>4, <3>3 DEF Work, SkipMessage, CapReached, PickMessage,
             Delivered, SendLost, SendFails, HardBounce
      <4> QED
        BY <2>4, <3>1, <4>1 DEF HeldIsLocked
    <3> QED
      BY <3>2, <3>3
  <2> QED
    BY <2>2, <2>3, <2>4
<1>2. ASSUME ~\E k \in Workers : Work(k)
      PROVE  HeldIsLocked'
  BY <1>2, SessionsRest DEF HeldIsLocked, Holds
<1> QED
  BY <1>1, <1>2

(* One worker, or workers whose rows stay locked for as long as a cycle      *)
(* lasts, have no message in hand that another one has.                      *)
LEMMA WorkersKeepApart ==
  ASSUME Exclusive
  PROVE  Spec => []Apart
<1>1. CASE SoleWorker /\ ~LockedCycles
  <2>1. Apart
    BY <1>1 DEF Apart, KeptApart, SoleWorker
  <2> QED
    BY <2>1, PTL
<1>2. CASE LockedCycles
  <2>1. Init => HeldIsLocked
    BY DEF Init, HeldIsLocked, Holds, NoMarks
  <2>2. TypeOK /\ HeldIsLocked /\ [Next]_vars => HeldIsLocked'
    BY <1>2, LocksHold
  <2>3. HeldIsLocked => Apart
    BY DEF HeldIsLocked, Apart, KeptApart
  <2> QED
    BY Typing, <2>1, <2>2, <2>3, PTL DEF Spec
<1> QED
  BY <1>1, <1>2 DEF Exclusive

-----------------------------------------------------------------------------
(* The do-not-contact list refuses nothing *)

(* No mail bounces, or nobody but the one worker lists addresses.            *)
NoCollision == "bounce" \notin Outcomes \/ (SoleWorker /\ "optOut" \notin Ops)

(* What the sessions are about to list is not listed yet. *)
ListingIsNew == \A k \in Workers : Accepted(listing[k])

ListingInv == /\ ListingIsNew
              /\ "bounce" \notin Outcomes => \A k \in Workers : listing[k] = {}
              /\ \A r \in Handlers : h[r].op # "optOut" => h[r].lists = {}

(* A worker's step leaves nothing to collide with.                           *)
LEMMA WorkKeepsListing ==
  ASSUME NoCollision, TypeOK, ListingInv, NEW k \in Workers, Work(k)
  PROVE  ListingInv'
<1> USE DEF db, session, mail
<1>a. listing \in [Workers -> SUBSET Leads]
  BY DEF TypeOK
<1>b. h' = h
  BY DEF Work, Begin, SkipMessage, CapReached, PickMessage, TokenRefreshed, TokenRevoked,
         Delivered, SendLost, SendFails, HardBounce, Finish, Abort
<1>1. CASE HardBounce(k)
  <2>1. "bounce" \in Outcomes /\ suppressed' = suppressed
        /\ listing' = [listing EXCEPT ![k] = @ \union ({LeadOf[cur[k]]} \ suppressed)]
    BY <1>1 DEF HardBounce
  <2>2. \A j \in Workers : listing'[j] \subseteq listing[j] \union ({LeadOf[cur[k]]} \ suppressed)
    BY <1>a, <2>1
  <2> QED
    BY <1>b, <2>1, <2>2 DEF ListingInv, ListingIsNew, Accepted
<1>2. CASE TokenRefreshed(k) \/ TokenRevoked(k) \/ Finish(k)
  <2>1. /\ suppressed' = suppressed \union listing[k]
        /\ listing' = [listing EXCEPT ![k] = {}]
    BY <1>2 DEF TokenRefreshed, TokenRevoked, Finish, FlushSession, EndCycle, CleanSession
  <2>2. \A j \in Workers : listing'[j] = IF j = k THEN {} ELSE listing[j]
    BY <1>a, <2>1
  <2>3. (\A j \in Workers : j = k) \/ \A j \in Workers : listing[j] = {}
    BY DEF NoCollision, SoleWorker, ListingInv
  <2> QED
    BY <1>b, <2>1, <2>2, <2>3 DEF ListingInv, ListingIsNew, Accepted
<1>3. CASE ~HardBounce(k) /\ ~(TokenRefreshed(k) \/ TokenRevoked(k) \/ Finish(k))
  <2>1. suppressed' = suppressed
        /\ (listing' = listing \/ listing' = [listing EXCEPT ![k] = {}])
    BY <1>3 DEF Work, Begin, SkipMessage, CapReached, PickMessage, Delivered, SendLost,
                SendFails, Abort, EndCycle, CleanSession
  <2>2. \A j \in Workers : listing'[j] \subseteq listing[j]
    BY <1>a, <2>1
  <2> QED
    BY <1>b, <2>1, <2>2 DEF ListingInv, ListingIsNew, Accepted
<1> QED
  BY <1>1, <1>2, <1>3

(* A handler's step neither. *)
LEMMA HandleKeepsListing ==
  ASSUME NoCollision, TypeOK, ListingInv, NEW r \in Handlers, Handle(r)
  PROVE  ListingInv'
<1> USE DEF db, session, mail
<1>a. UNCHANGED listing
  BY DEF Handle, Sessions, ActivateRead, ActivateCommit, ProposeRead, ProposeCommit,
         TriageRead, TriageRows, RetireCommit, PostponeCommit, AbortHandler
<1>b. \A q \in Handlers : q # r => h'[q] = h[q]
  BY DEF Handle, ActivateRead, ActivateCommit, ProposeRead, ProposeCommit,
         TriageRead, TriageRows, RetireCommit, PostponeCommit, AbortHandler, TypeOK
<1>1. ASSUME RetireCommit(r)
      PROVE  ListingInv'
  <2>1. /\ h'[r] = IdleHandler /\ suppressed' = suppressed \union h[r].lists
        /\ h[r].op \in {"optOut", "handOff"} /\ h[r].pc = "commit"
    BY <1>1 DEF RetireCommit, TypeOK
  <2>2. h[r].op \in Ops
    BY <2>1, Request
  <2>3. h[r].lists = {} \/ \A k \in Workers : listing[k] = {}
    BY <2>1, <2>2 DEF NoCollision, ListingInv
  <2>4. ListingIsNew'
    BY <1>a, <2>1, <2>3 DEF ListingInv, ListingIsNew, Accepted
  <2> QED
    BY <1>a, <1>b, <2>1, <2>4 DEF ListingInv, IdleHandler
<1>2. ASSUME TriageRows(r)
      PROVE  ListingInv'
  <2>1. /\ h[r].pc = "rows" /\ suppressed' = suppressed
        /\ h'[r] = [h[r] EXCEPT !.pc = "commit",
                                !.rows = {m \in MessagesOf(h[r].lead) :
                                            status[m] \in Pending(h[r].op)},
                                !.lists = IF h[r].op = "optOut" THEN {h[r].lead} \ suppressed
                                          ELSE {}]
    BY <1>2 DEF TriageRows, TypeOK
  <2>2. h[r] \in [pc : {"rows", "commit"}, op : Ops, lead : Leads,
                  target : LeadState \union {None}, rows : SUBSET Messages, lists : SUBSET Leads]
    BY <2>1, Request
  <2>3. h'[r].op # "optOut" => h'[r].lists = {}
    BY <2>1, <2>2
  <2> QED
    BY <1>a, <1>b, <2>1, <2>3 DEF ListingInv, ListingIsNew, Accepted
<1>3. ASSUME ~RetireCommit(r), ~TriageRows(r)
      PROVE  ListingInv'
  <2>1. suppressed' = suppressed
    BY <1>3 DEF Handle, ActivateRead, ActivateCommit, ProposeRead, ProposeCommit,
                TriageRead, PostponeCommit, AbortHandler
  <2>2. h'[r].lists = {}
    BY <1>3 DEF Handle, ActivateRead, ActivateCommit, ProposeRead, ProposeCommit,
                TriageRead, PostponeCommit, AbortHandler, IdleHandler, TypeOK
  <2> QED
    BY <1>a, <1>b, <2>1, <2>2 DEF ListingInv, ListingIsNew, Accepted
<1> QED
  BY <1>1, <1>2, <1>3

(* So no insertion in the list is refused. *)
LEMMA NothingCollides ==
  ASSUME NoCollision
  PROVE  Spec => []ListingIsNew
<1>1. Init => ListingInv
  BY DEF Init, ListingInv, ListingIsNew, Accepted, IdleHandler
<1>2. TypeOK /\ ListingInv /\ [Next]_vars => ListingInv'
  <2> SUFFICES ASSUME TypeOK, ListingInv, [Next]_vars
               PROVE  ListingInv'
    OBVIOUS
  <2>1. ASSUME (\E n \in Messages : Tick(n)) \/ NewDay \/ UNCHANGED vars
        PROVE  ListingInv'
    <3>1. UNCHANGED <<suppressed, listing, h>>
      BY <2>1 DEF Tick, NewDay, vars, Sessions, db, session
    <3> QED
      BY <3>1 DEF ListingInv, ListingIsNew, Accepted
  <2> QED
    BY <2>1, WorkKeepsListing, HandleKeepsListing DEF Next
<1>3. ListingInv => ListingIsNew
  BY DEF ListingInv
<1> QED
  BY Typing, <1>1, <1>2, <1>3, PTL DEF Spec

-----------------------------------------------------------------------------
(* No cycle cut short, no answer lost, one handler at a time *)

Undisturbed == Exclusive /\ SoleHandler /\ Outcomes \intersect {"crash", "lost"} = {}
               /\ NoCollision

(* A message whose mail has left is recorded as sent, if only in the session. *)
MailedIsRecorded ==
  \A m \in Messages : delivered[m] > 0 =>
    /\ status[m] # "DRAFT"
    /\ status[m] = "APPROVED" => \E k \in Workers : mark[k][m] = "SENT"

QueueIsUnsent ==
  \A k \in Workers : \A m \in todo[k] : delivered[m] = 0 /\ status[m] # "DRAFT"

SendingIsUnsent ==
  \A k \in Workers : pc[k] = "send" =>
    delivered[cur[k]] = 0 /\ status[cur[k]] # "DRAFT" /\ cur[k] \notin todo[k]

IdleIsClean == \A k \in Workers : pc[k] = "idle" => todo[k] = {} /\ mark[k] = NoMarks

(* No worker has a draft that a handler is about to approve. *)
ActivatedIsUnsent ==
  \A r \in Handlers : h[r].pc = "commit" /\ h[r].op = "activate" => \A m \in h[r].rows :
    /\ delivered[m] = 0 /\ status[m] # "APPROVED"
    /\ \A k \in Workers : m \notin todo[k] /\ ~(pc[k] = "send" /\ cur[k] = m)

(* A request that has yet to select its rows is a reply. *)
SelectingIsTriage == \A r \in Handlers : h[r].pc = "rows" => h[r].op # "activate"

OnceInv == /\ AtMostOnce /\ MailedIsRecorded /\ QueueIsUnsent /\ SendingIsUnsent
           /\ IdleIsClean /\ ActivatedIsUnsent /\ SelectingIsTriage

(* A handler holds rows of messages. *)
LEMMA HandlerRows ==
  ASSUME TypeOK
  PROVE  \A r \in Handlers : h[r].rows \subseteq Messages
<1> SUFFICES ASSUME NEW r \in Handlers
             PROVE  h[r].rows \subseteq Messages
  OBVIOUS
<1>1. h[r] \in Handler
  BY DEF TypeOK
<1>2. CASE h[r] = IdleHandler
  BY <1>2 DEF IdleHandler
<1>3. CASE h[r] # IdleHandler
  BY <1>1, <1>3 DEF Handler
<1> QED
  BY <1>2, <1>3

(* The commit of a session neither loses the record of a mail nor brings a   *)
(* row back to what it was before.                                           *)
LEMMA FlushKeepsRecords ==
  ASSUME TypeOK, OnceInv, NEW k \in Workers, FlushSession(k), UNCHANGED delivered,
         \A j \in Workers : j # k => mark'[j] = mark[j]
  PROVE  /\ MailedIsRecorded'
         /\ \A m \in Messages : status'[m] = "DRAFT" => status[m] = "DRAFT"
         /\ \A m \in Messages : status'[m] = "APPROVED" => status[m] = "APPROVED"
<1>1. \A m \in Messages : /\ status'[m] = IF mark[k][m] = "none" THEN status[m] ELSE mark[k][m]
                          /\ mark[k][m] \in {"SENT", "SKIPPED", "FAILED", "none"}
  BY DEF FlushSession, NewStatus, TypeOK, Settled
<1>2. ASSUME NEW m \in Messages, delivered[m] > 0
      PROVE  /\ status'[m] # "DRAFT"
             /\ status'[m] = "APPROVED" => \E j \in Workers : mark'[j][m] = "SENT"
  <2>1. /\ status[m] # "DRAFT"
        /\ status[m] = "APPROVED" => \E j \in Workers : mark[j][m] = "SENT"
    BY <1>2 DEF OnceInv, MailedIsRecorded
  <2>2. CASE mark[k][m] = "none" /\ status[m] = "APPROVED"
    <3>1. PICK j \in Workers : mark[j][m] = "SENT"
      BY <2>1, <2>2
    <3>2. j # k
      BY <2>2, <3>1
    <3> QED
      BY <1>1, <2>2, <3>1, <3>2
  <2> QED
    BY <1>1, <2>1, <2>2
<1>3. MailedIsRecorded'
  BY <1>2 DEF MailedIsRecorded
<1> QED
  BY <1>1, <1>3

(* A row that was mailed and is open is marked by the worker that holds it,  *)
(* so no cycle that begins selects it.                                       *)
LEMMA SelectedIsUnsent ==
  ASSUME TypeOK, OnceInv, Apart, Exclusive, NEW k \in Workers, pc[k] = "idle"
  PROVE  \A m \in Selected : m \in Messages /\ status[m] = "APPROVED" /\ delivered[m] = 0
<1> SUFFICES ASSUME NEW m \in Selected, delivered[m] # 0
             PROVE  FALSE
  BY DEF Selected
<1>1. m \in Messages /\ status[m] = "APPROVED" /\ (RowLocks => lock[m] = None)
  BY DEF Selected
<1>2. delivered[m] > 0
  BY <1>1 DEF TypeOK
<1>3. PICK j \in Workers : mark[j][m] = "SENT"
  BY <1>1, <1>2 DEF OnceInv, MailedIsRecorded
<1>4. CASE SoleWorker
  BY <1>1, <1>3, <1>4 DEF SoleWorker, OnceInv, IdleIsClean, NoMarks
<1>5. CASE LockedCycles
  BY <1>1, <1>3, <1>5, NoneAssumption DEF LockedCycles, Apart, HeldIsLocked, Holds
<1> QED
  BY <1>4, <1>5 DEF Exclusive

(* A step of a worker keeps the invariant. *)
LEMMA WorkKeepsOnce ==
  ASSUME TypeOK, OnceInv, Apart, ListingIsNew, Undisturbed, NEW k \in Workers, Work(k)
  PROVE  OnceInv'
<1> USE DEF db, session, mail
<1>a. \A j \in Workers : j # k => /\ pc'[j] = pc[j] /\ todo'[j] = todo[j]
                                  /\ cur'[j] = cur[j] /\ mark'[j] = mark[j]
  BY OthersRest
<1>b. delivered \in [Messages -> Nat]
  BY DEF TypeOK
<1>c. \A j \in Workers : todo[j] \subseteq Messages /\ (pc[j] = "send" => cur[j] \in Messages)
  BY DEF TypeOK
<1>d. \A r \in Handlers : h[r].rows \subseteq Messages
  BY HandlerRows
<1>1. ASSUME Begin(k) PROVE OnceInv'
  <2>1. /\ UNCHANGED <<status, delivered, mark, h, cur>>
        /\ pc[k] = "idle" /\ pc'[k] = "loop" /\ todo'[k] = Selected
    BY <1>1 DEF Begin, TypeOK
  <2>2. \A m \in Selected : m \in Messages /\ status[m] = "APPROVED" /\ delivered[m] = 0
    BY <2>1, SelectedIsUnsent DEF Undisturbed
  <2>3. AtMostOnce' /\ MailedIsRecorded' /\ SelectingIsTriage'
    BY <2>1 DEF OnceInv, AtMostOnce, MailedIsRecorded, SelectingIsTriage
  <2>4. QueueIsUnsent' /\ SendingIsUnsent' /\ IdleIsClean'
    BY <1>a, <2>1, <2>2 DEF OnceInv, QueueIsUnsent, SendingIsUnsent, IdleIsClean
  <2>5. ActivatedIsUnsent'
    BY <1>a, <2>1, <2>2 DEF OnceInv, ActivatedIsUnsent
  <2> QED
    BY <2>3, <2>4, <2>5 DEF OnceInv
<1>2. ASSUME NEW n \in Messages, SkipMessage(k, n) PROVE OnceInv'
  <2>1. /\ UNCHANGED <<status, delivered, h, cur, pc>>
        /\ pc[k] = "loop" /\ n \in todo[k] /\ todo'[k] = todo[k] \ {n}
        /\ \A m \in Messages : m # n => mark'[k][m] = mark[k][m]
    BY <1>2 DEF SkipMessage, NextUp, TypeOK
  <2>2. delivered[n] = 0
    BY <2>1 DEF OnceInv, QueueIsUnsent
  <2>3. AtMostOnce' /\ SelectingIsTriage' /\ QueueIsUnsent' /\ SendingIsUnsent' /\ IdleIsClean'
    BY <1>a, <2>1 DEF OnceInv, AtMostOnce, SelectingIsTriage, QueueIsUnsent, SendingIsUnsent,
                      IdleIsClean
  <2>4. MailedIsRecorded'
    BY <1>a, <1>b, <2>1, <2>2 DEF OnceInv, MailedIsRecorded
  <2>5. ActivatedIsUnsent'
    BY <1>a, <2>1 DEF OnceInv, ActivatedIsUnsent
  <2> QED
    BY <2>3, <2>4, <2>5 DEF OnceInv
<1>3. ASSUME NEW n \in Messages, CapReached(k, n) PROVE OnceInv'
  <2>1. /\ UNCHANGED <<status, delivered, h, cur, pc, mark>>
        /\ pc[k] = "loop" /\ todo'[k] = {}
    BY <1>3 DEF CapReached, NextUp, TypeOK
  <2> QED
    BY <1>a, <2>1 DEF OnceInv, AtMostOnce, MailedIsRecorded, QueueIsUnsent, SendingIsUnsent,
                      IdleIsClean, ActivatedIsUnsent, SelectingIsTriage
<1>4. ASSUME NEW n \in Messages, PickMessage(k, n) PROVE OnceInv'
  <2>1. /\ UNCHANGED <<status, delivered, h, mark>>
        /\ pc'[k] = "send" /\ cur'[k] = n /\ n \in todo[k] /\ todo'[k] = todo[k] \ {n}
    BY <1>4 DEF PickMessage, NextUp, TypeOK
  <2>2. AtMostOnce' /\ MailedIsRecorded' /\ SelectingIsTriage'
    BY <2>1 DEF OnceInv, AtMostOnce, MailedIsRecorded, SelectingIsTriage
  <2>3. QueueIsUnsent' /\ SendingIsUnsent' /\ IdleIsClean'
    BY <1>a, <2>1 DEF OnceInv, QueueIsUnsent, SendingIsUnsent, IdleIsClean
  <2>4. ActivatedIsUnsent'
    BY <1>a, <2>1 DEF OnceInv, ActivatedIsUnsent
  <2> QED
    BY <2>2, <2>3, <2>4 DEF OnceInv
<1>5. ASSUME TokenRefreshed(k) PROVE OnceInv'
  <2>1. /\ UNCHANGED <<delivered, h, pc, todo, cur>> /\ pc[k] = "send"
        /\ FlushSession(k)
    BY <1>5 DEF TokenRefreshed
  <2>2. AtMostOnce' /\ SelectingIsTriage' /\ IdleIsClean'
    BY <1>a, <2>1 DEF OnceInv, AtMostOnce, SelectingIsTriage, IdleIsClean
  <2>3. MailedIsRecorded'
    BY <1>a, <2>1, FlushKeepsRecords
  <2>4. QueueIsUnsent' /\ SendingIsUnsent'
    BY <1>a, <1>c, <2>1, FlushKeepsRecords DEF OnceInv, QueueIsUnsent, SendingIsUnsent
  <2>5. ActivatedIsUnsent'
    BY <1>a, <1>d, <2>1, FlushKeepsRecords DEF OnceInv, ActivatedIsUnsent
  <2> QED
    BY <2>2, <2>3, <2>4, <2>5 DEF OnceInv
<1>6. ASSUME TokenRevoked(k) \/ Finish(k) PROVE OnceInv'
  <2>1. FlushSession(k) /\ EndCycle(k) /\ UNCHANGED <<h, delivered>>
    BY <1>6 DEF TokenRevoked, Finish
  <2>2. pc'[k] = "idle" /\ todo'[k] = {} /\ mark'[k] = NoMarks
    BY <2>1 DEF EndCycle, CleanSession, TypeOK
  <2>3. AtMostOnce' /\ SelectingIsTriage'
    BY <2>1 DEF OnceInv, AtMostOnce, SelectingIsTriage
  <2>4. QueueIsUnsent' /\ SendingIsUnsent'
    BY <1>a, <1>c, <2>1, <2>2, FlushKeepsRecords DEF OnceInv, QueueIsUnsent, SendingIsUnsent
  <2>5. IdleIsClean'
    BY <1>a, <2>2 DEF OnceInv, IdleIsClean, NoMarks
  <2>6. MailedIsRecorded'
    BY <1>a, <2>1, FlushKeepsRecords
  <2>7. ActivatedIsUnsent'
    BY <1>a, <1>d, <2>1, <2>2, FlushKeepsRecords DEF OnceInv, ActivatedIsUnsent
  <2> QED
    BY <2>3, <2>4, <2>5, <2>6, <2>7 DEF OnceInv
<1>7. ASSUME Delivered(k) PROVE OnceInv'
  <2>1. /\ UNCHANGED <<status, h, todo>>
        /\ pc[k] = "send" /\ cur[k] \in Messages /\ pc'[k] = "loop"
        /\ delivered'[cur[k]] = delivered[cur[k]] + 1
        /\ \A m \in Messages : m # cur[k] => delivered'[m] = delivered[m]
        /\ mark'[k][cur[k]] = "SENT"
        /\ \A m \in Messages : m # cur[k] => mark'[k][m] = mark[k][m]
    <3>1. cur[k] \in Messages
      BY <1>7 DEF Delivered, TypeOK
    <3>2. mark' = [mark EXCEPT ![k][cur[k]] = "SENT"]
      BY <1>7 DEF Delivered
    <3>3. /\ mark'[k][cur[k]] = "SENT"
          /\ \A m \in Messages : m # cur[k] => mark'[k][m] = mark[k][m]
      BY <3>1, <3>2 DEF TypeOK
    <3>4. delivered' = [delivered EXCEPT ![cur[k]] = @ + 1]
      BY <1>7 DEF Delivered, MailOut
    <3>5. pc[k] = "send" /\ pc'[k] = "loop" /\ UNCHANGED <<status, h, todo>>
      BY <1>7 DEF Delivered, Continue, TypeOK
    <3> QED
      BY <1>b, <3>1, <3>3, <3>4, <3>5
  <2>2. delivered[cur[k]] = 0 /\ status[cur[k]] # "DRAFT" /\ cur[k] \notin todo[k]
    BY <2>1 DEF OnceInv, SendingIsUnsent
  (* Nobody else has it in hand. *)
  <2>3. \A j \in Workers : j # k => cur[k] \notin todo[j] /\ ~(pc[j] = "send" /\ cur[j] = cur[k])
    BY <2>1 DEF Apart, KeptApart, Holds
  <2>4. AtMostOnce'
    BY <2>1, <2>2 DEF OnceInv, AtMostOnce
  <2>5. MailedIsRecorded'
    <3> SUFFICES ASSUME NEW m \in Messages, delivered'[m] > 0
                 PROVE  /\ status'[m] # "DRAFT"
                        /\ status'[m] = "APPROVED" => \E j \in Workers : mark'[j][m] = "SENT"
      BY DEF MailedIsRecorded
    <3>1. CASE m = cur[k]
      BY <2>1, <2>2, <3>1
    <3>2. CASE m # cur[k]
      <4>1. /\ status[m] # "DRAFT"
            /\ status[m] = "APPROVED" => \E j \in Workers : mark[j][m] = "SENT"
        BY <2>1, <3>2 DEF OnceInv, MailedIsRecorded
      <4> QED
        BY <1>a, <2>1, <3>2, <4>1
    <3> QED
      BY <3>1, <3>2
  <2>6. QueueIsUnsent'
    BY <1>a, <1>c, <2>1, <2>2, <2>3 DEF OnceInv, QueueIsUnsent
  <2>7. SendingIsUnsent' /\ IdleIsClean' /\ SelectingIsTriage'
    BY <1>a, <1>c, <2>1, <2>2, <2>3 DEF OnceInv, SendingIsUnsent, IdleIsClean, SelectingIsTriage
  <2>8. ActivatedIsUnsent'
    BY <1>a, <1>d, <2>1 DEF OnceInv, ActivatedIsUnsent
  <2> QED
    BY <2>4, <2>5, <2>6, <2>7, <2>8 DEF OnceInv
<1>8. ASSUME SendFails(k) \/ HardBounce(k) PROVE OnceInv'
  <2>1. /\ UNCHANGED <<status, h, todo, delivered>>
        /\ pc[k] = "send" /\ cur[k] \in Messages /\ pc'[k] = "loop"
    BY <1>8 DEF SendFails, HardBounce, Continue, TypeOK
  <2>2. \A m \in Messages : m # cur[k] /\ mark[k][m] = "SENT" => mark'[k][m] = "SENT"
    <3>1. CASE SendFails(k)
      <4>1. mark' = mark \/ mark' = [mark EXCEPT ![k][cur[k]] = "FAILED"]
        BY <3>1 DEF SendFails, GiveUpAfterMax
      <4>2. CASE mark' = [mark EXCEPT ![k][cur[k]] = "FAILED"]
        BY <2>1, <4>2 DEF TypeOK
      <4> QED
        BY <4>1, <4>2
    <3>2. CASE HardBounce(k)
      BY <2>1, <3>2 DEF HardBounce, Retirable, TypeOK
    <3> QED
      BY <1>8, <3>1, <3>2
  <2>3. delivered[cur[k]] = 0
    BY <2>1 DEF OnceInv, SendingIsUnsent
  <2>4. MailedIsRecorded'
    BY <1>a, <1>b, <2>1, <2>2, <2>3 DEF OnceInv, MailedIsRecorded
  <2>5. AtMostOnce' /\ QueueIsUnsent' /\ SendingIsUnsent' /\ IdleIsClean' /\ SelectingIsTriage'
    BY <1>a, <2>1 DEF OnceInv, AtMostOnce, QueueIsUnsent, SendingIsUnsent, IdleIsClean,
                      SelectingIsTriage
  <2>6. ActivatedIsUnsent'
    BY <1>a, <2>1 DEF OnceInv, ActivatedIsUnsent
  <2> QED
    BY <2>4, <2>5, <2>6 DEF OnceInv
<1>9. ~SendLost(k) /\ ~Abort(k)
  BY DEF SendLost, Abort, Collides, ListingIsNew, Undisturbed
<1> QED
  BY <1>1, <1>2, <1>3, <1>4, <1>5, <1>6, <1>7, <1>8, <1>9 DEF Work

(* A step of the handler keeps the invariant. *)
LEMMA HandleKeepsOnce ==
  ASSUME TypeOK, OnceInv, Undisturbed, NEW r \in Handlers, Handle(r)
  PROVE  OnceInv'
<1> USE DEF db, session, mail
<1>a. Handlers = {r}
  BY DEF Undisturbed, SoleHandler
<1>b. delivered \in [Messages -> Nat]
  BY DEF TypeOK
<1>c. UNCHANGED <<delivered, pc, todo, cur, mark>>
  BY DEF Handle, Sessions, ActivateRead, ActivateCommit, ProposeRead, ProposeCommit,
         TriageRead, TriageRows,
         RetireCommit, PostponeCommit, AbortHandler
<1>d. AtMostOnce' /\ IdleIsClean'
  BY <1>c DEF OnceInv, AtMostOnce, IdleIsClean
<1>e. \A k \in Workers : /\ todo[k] \subseteq Messages
                         /\ pc[k] = "send" => cur[k] \in Messages
  BY DEF TypeOK
<1>f. h[r].rows \subseteq Messages
  BY HandlerRows
(* The rows change to SKIPPED or not at all. *)
<1>g. ASSUME \A m \in Messages : status'[m] \in {status[m], "SKIPPED"}
      PROVE  MailedIsRecorded' /\ QueueIsUnsent' /\ SendingIsUnsent'
  BY <1>c, <1>e, <1>g DEF OnceInv, MailedIsRecorded, QueueIsUnsent, SendingIsUnsent
(* The handler is not about to approve anything. *)
<1>h. ASSUME ~(h'[r].pc = "commit" /\ h'[r].op = "activate"),
             h'[r].pc = "rows" => h'[r].op # "activate"
      PROVE  ActivatedIsUnsent' /\ SelectingIsTriage'
  BY <1>a, <1>h DEF ActivatedIsUnsent, SelectingIsTriage
<1>1. ASSUME NEW l \in Leads, ActivateRead(r, l) PROVE OnceInv'
  <2>1. /\ UNCHANGED status
        /\ h'[r].pc = "commit"
        /\ h'[r].rows = {m \in MessagesOf(l) : status[m] = "DRAFT"}
    BY <1>1 DEF ActivateRead, TypeOK
  <2>2. \A m \in h'[r].rows : m \in Messages /\ status[m] = "DRAFT"
    BY <2>1 DEF MessagesOf
  <2>3. \A m \in h'[r].rows :
          /\ delivered[m] = 0 /\ status[m] # "APPROVED"
          /\ \A k \in Workers : m \notin todo[k] /\ ~(pc[k] = "send" /\ cur[k] = m)
    BY <1>b, <2>2 DEF OnceInv, MailedIsRecorded, QueueIsUnsent, SendingIsUnsent
  <2>4. ActivatedIsUnsent' /\ SelectingIsTriage'
    BY <1>a, <1>c, <2>1, <2>3 DEF ActivatedIsUnsent, SelectingIsTriage
  <2> QED
    BY <1>d, <1>g, <2>1, <2>4 DEF OnceInv
<1>2. ASSUME ActivateCommit(r) PROVE OnceInv'
  <2>1. /\ h[r].pc = "commit" /\ h[r].op = "activate" /\ h'[r] = IdleHandler
        /\ \A m \in Messages : status'[m] = IF m \in h[r].rows THEN "APPROVED" ELSE status[m]
    BY <1>2 DEF ActivateCommit, TypeOK
  <2>2. \A m \in h[r].rows : delivered[m] = 0
    BY <2>1 DEF OnceInv, ActivatedIsUnsent
  <2>3. MailedIsRecorded'
    BY <1>c, <2>1, <2>2 DEF OnceInv, MailedIsRecorded
  <2>4. QueueIsUnsent' /\ SendingIsUnsent'
    BY <1>c, <1>e, <2>1 DEF OnceInv, QueueIsUnsent, SendingIsUnsent
  <2>5. ActivatedIsUnsent' /\ SelectingIsTriage'
    BY <1>h, <2>1 DEF IdleHandler
  <2> QED
    BY <1>d, <2>3, <2>4, <2>5 DEF OnceInv
<1>3. ASSUME NEW l \in Leads, NEW op \in Ops, TriageRead(r, l, op) PROVE OnceInv'
  <2>1. UNCHANGED status /\ h'[r].pc = "rows" /\ h'[r].op # "activate"
    BY <1>3 DEF TriageRead, TypeOK
  <2> QED
    BY <1>d, <1>g, <1>h, <2>1 DEF OnceInv
<1>4. ASSUME TriageRows(r) PROVE OnceInv'
  <2>1. h[r].op # "activate"
    BY <1>4 DEF TriageRows, OnceInv, SelectingIsTriage
  <2>2. h'[r] = [h[r] EXCEPT !.pc = "commit",
                             !.rows = {m \in MessagesOf(h[r].lead) :
                                         status[m] \in Pending(h[r].op)},
                             !.lists = IF h[r].op = "optOut" THEN {h[r].lead} \ suppressed
                                      ELSE {}]
    BY <1>4 DEF TriageRows, TypeOK
  <2>3. h[r].pc # "idle"
    BY <1>4 DEF TriageRows
  <2>4. h'[r].op = h[r].op /\ h'[r].pc = "commit"
    BY <2>2, <2>3, Request
  <2>5. UNCHANGED status
    BY <1>4 DEF TriageRows
  <2> QED
    BY <1>d, <1>g, <1>h, <2>1, <2>4, <2>5 DEF OnceInv
<1>5. ASSUME ProposeCommit(r) \/ RetireCommit(r) \/ PostponeCommit(r) \/ AbortHandler(r)
      PROVE  OnceInv'
  <2>1. h'[r] = IdleHandler
    BY <1>5 DEF ProposeCommit, RetireCommit, PostponeCommit, AbortHandler, TypeOK
  <2>2. \A m \in Messages : status'[m] \in {status[m], "SKIPPED"}
    BY <1>5 DEF ProposeCommit, RetireCommit, PostponeCommit, AbortHandler
  <2>3. ActivatedIsUnsent' /\ SelectingIsTriage'
    BY <1>h, <2>1 DEF IdleHandler
  <2> QED
    BY <1>d, <1>g, <2>2, <2>3 DEF OnceInv
<1>6. ASSUME NEW l \in Leads, ProposeRead(r, l) PROVE OnceInv'
  <2>1. UNCHANGED status /\ h'[r].pc = "commit" /\ h'[r].op = "propose"
    BY <1>6 DEF ProposeRead, TypeOK
  <2> QED
    BY <1>d, <1>g, <1>h, <2>1 DEF OnceInv
<1> QED
  BY <1>1, <1>2, <1>3, <1>4, <1>5, <1>6 DEF Handle

(* The invariant behind it. *)
LEMMA OnceAlways ==
  ASSUME Undisturbed
  PROVE  Spec => []OnceInv
<1>1. Init => OnceInv
  BY DEF Init, NoTries, NoMarks, IdleHandler, OnceInv, AtMostOnce, MailedIsRecorded, QueueIsUnsent,
         SendingIsUnsent, IdleIsClean, ActivatedIsUnsent, SelectingIsTriage
<1>2. TypeOK /\ Apart /\ ListingIsNew /\ OnceInv /\ [Next]_vars => OnceInv'
  <2> SUFFICES ASSUME TypeOK, Apart, ListingIsNew, OnceInv, [Next]_vars
               PROVE  OnceInv'
    OBVIOUS
  <2>1. ASSUME (\E n \in Messages : Tick(n)) \/ NewDay \/ UNCHANGED vars
        PROVE  OnceInv'
    <3>1. UNCHANGED <<status, delivered, pc, todo, cur, mark, h>>
      BY <2>1 DEF Tick, NewDay, vars, Sessions, db, session, mail
    <3> QED
      BY <3>1 DEF OnceInv, AtMostOnce, MailedIsRecorded, QueueIsUnsent, SendingIsUnsent,
                  IdleIsClean, ActivatedIsUnsent, SelectingIsTriage
  <2> QED
    BY Undisturbed, <2>1, WorkKeepsOnce, HandleKeepsOnce DEF Next
<1>3. Spec => []Apart
  BY WorkersKeepApart DEF Undisturbed
<1>4. Spec => []ListingIsNew
  BY NothingCollides DEF Undisturbed
<1> QED
  BY Typing, <1>1, <1>2, <1>3, <1>4, PTL DEF Spec

(* "FOR UPDATE SKIP LOCKED prevents double-sends when several workers run    *)
(* the cycle concurrently (no-op on SQLite - run one worker there)"          *)
(* (sending.py:206): with any number of workers whose rows stay locked to    *)
(* the end of a cycle, or one worker without locks, no step reaches its lead *)
(* twice, as long as no cycle is cut short and no answer of Gmail is lost.   *)
(* A session refused for an address somebody else has listed meanwhile is    *)
(* such a cut: NoCollision excludes it (no bounces, or one worker and no     *)
(* opt-outs).  A token refreshed in the middle of a cycle gives the locks up;             *)
(* SendDouble.cfg shows two workers sending a step twice then.               *)
THEOREM LockedAtMostOnce ==
  ASSUME Undisturbed
  PROVE  Spec => []AtMostOnce
<1>1. OnceInv => AtMostOnce
  BY DEF OnceInv
<1> QED
  BY OnceAlways, <1>1, PTL

-----------------------------------------------------------------------------
(* OUTBOX.  A step of a sequence, once settled, never waits again: proofs    *)
(* about the statuses a send cycle and a reply handler write, for any number *)
(* of workers whose sessions are stale, refused or lost half-way, and one    *)
(* handler at a time.                                                        *)
-----------------------------------------------------------------------------
(* The invariant *)

(* The lead's sequence was started, or a reply came before it was. *)
Started(l) == leadState[l] # "OUTREACH_PENDING"

(* Nothing of a sequence that was not started has been approved or settled. *)
UnstartedIsDraft == \A m \in Messages : ~Started(LeadOf[m]) => status[m] = "DRAFT"

(* What a worker has selected or is sending is no draft, and its session     *)
(* assigns statuses to started sequences alone.  Where it stopped a lead     *)
(* nothing of the lead stays pending.                                        *)
SessionFollows(k) ==
  /\ \A m \in todo[k] : status[m] # "DRAFT"
  /\ pc[k] = "send" => status[cur[k]] # "DRAFT"
  /\ \A m \in Messages : mark[k][m] # "none" => Started(LeadOf[m])
  /\ \A m \in Messages : LeadOf[m] \in dead[k]
       => Started(LeadOf[m]) /\ (status[m] \in Settled \/ mark[k][m] # "none")
  /\ \A l \in dead[k] : Started(l)

(* What a handler has read is still so, as far as its commit relies on it.   *)
HandlerFollows(r) ==
  /\ h[r].rows \subseteq {m \in Messages : LeadOf[m] = h[r].lead}
  /\ h[r].pc = "rows" => h[r].op # "activate"
  /\ h[r].target \in {None, "ENGAGED", "MEETING_PROPOSED", "UNSUBSCRIBED"}
  /\ h[r].pc = "commit" /\ h[r].op = "activate" => ~Started(h[r].lead)
  /\ h[r].pc # "idle" /\ h[r].op \in {"optOut", "handOff"} /\ h[r].target = None
       => Started(h[r].lead)
  /\ h[r].pc = "commit" /\ h[r].op \in {"optOut", "handOff"}
       => \A m \in MessagesOf(h[r].lead) : status[m] \in Settled \/ m \in h[r].rows

StageInv ==
  /\ UnstartedIsDraft
  /\ StoppedLeadsHaveNothingPending
  /\ \A k \in Workers : SessionFollows(k)
  /\ \A r \in Handlers : HandlerFollows(r)

-----------------------------------------------------------------------------
(* How the rows move *)

(* The actions of a worker and of a handler that write no row at all. *)
LEMMA QuietSteps ==
  ASSUME [Next]_vars,
         ~\E k \in Workers : TokenRefreshed(k) \/ TokenRevoked(k) \/ Finish(k),
         ~\E r \in Handlers : ActivateCommit(r) \/ ProposeCommit(r) \/ RetireCommit(r)
  PROVE  UNCHANGED <<status, leadState>>
<1> USE DEF db, session, mail
<1>1. ASSUME NEW k \in Workers, Work(k)
      PROVE  UNCHANGED <<status, leadState>>
  BY <1>1 DEF Work, Begin, SkipMessage, CapReached, PickMessage, Delivered, SendLost,
              SendFails, HardBounce, Abort
<1>2. ASSUME NEW r \in Handlers, Handle(r)
      PROVE  UNCHANGED <<status, leadState>>
  BY <1>2 DEF Handle, ActivateRead, ProposeRead, TriageRead, TriageRows, PostponeCommit,
              AbortHandler
<1>3. ASSUME (\E m \in Messages : Tick(m)) \/ NewDay \/ UNCHANGED vars
      PROVE  UNCHANGED <<status, leadState>>
  BY <1>3 DEF Tick, NewDay, vars
<1> QED
  BY <1>1, <1>2, <1>3 DEF Next

(* Rows and leads only move forward: no step becomes a draft again, what is  *)
(* settled stays so, and a started sequence is never unstarted.              *)
Forward ==
  /\ \A m \in Messages : status'[m] = "DRAFT" => status[m] = "DRAFT"
  /\ \A m \in Messages : status[m] \in Settled => status'[m] \in Settled
  /\ \A m \in Messages : status'[m] = "APPROVED"
       => status[m] = "APPROVED" \/ (status[m] = "DRAFT" /\ ~Started(LeadOf[m]))
  /\ \A l \in Leads : Started(l) => Started(l)'

(* The commit of a session settles rows of started sequences. *)
LEMMA FlushForward ==
  ASSUME TypeOK, NEW k \in Workers, SessionFollows(k), FlushSession(k)
  PROVE  /\ Forward
         /\ \A m \in Messages : status'[m] \in {status[m]} \union Settled
         /\ \A l \in Leads : leadState'[l] = IF l \in dead[k] THEN "NOT_INTERESTED"
                                                               ELSE leadState[l]
         /\ \A l \in Leads : ~Started(l) => leadState'[l] = leadState[l]
         /\ \A m \in Messages : ~Started(LeadOf[m]) => status'[m] = status[m]
<1>1. \A m \in Messages : /\ status'[m] = IF mark[k][m] = "none" THEN status[m] ELSE mark[k][m]
                          /\ mark[k][m] \in Settled \union {"none"}
  BY DEF FlushSession, NewStatus, TypeOK
<1>2. \A l \in Leads : leadState'[l] = IF l \in dead[k] THEN "NOT_INTERESTED" ELSE leadState[l]
  BY DEF FlushSession
<1>3. \A l \in Leads : Started(l) => Started(l)'
  BY <1>2 DEF Started
<1>4. \A l \in Leads : ~Started(l) => leadState'[l] = leadState[l]
  BY <1>2 DEF SessionFollows, Started
<1>5. \A m \in Messages : ~Started(LeadOf[m]) => status'[m] = status[m]
  BY <1>1 DEF SessionFollows
<1>6. \A m \in Messages : status'[m] \in {status[m]} \union Settled
  BY <1>1
<1>7. Forward
  BY <1>3, <1>6 DEF Forward, Settled
<1> QED
  BY <1>2, <1>4, <1>5, <1>6, <1>7

(* The rows a handler approves are drafts of a sequence nobody has started.  *)
LEMMA ActivateForward ==
  ASSUME TypeOK, StageInv, NEW r \in Handlers, ActivateCommit(r)
  PROVE  /\ Forward
         /\ h[r].lead \in Leads
         /\ \A m \in h[r].rows : m \in Messages /\ LeadOf[m] = h[r].lead /\ status[m] = "DRAFT"
         /\ \A m \in Messages : status'[m] = IF m \in h[r].rows THEN "APPROVED" ELSE status[m]
         /\ \A l \in Leads : leadState'[l] = IF l = h[r].lead THEN "SEQUENCE_ACTIVE"
                                                               ELSE leadState[l]
<1>1. h[r].pc = "commit" /\ h[r].op = "activate"
  BY DEF ActivateCommit
<1>2. h[r].lead \in Leads
  <2>1. h[r] \in Handler /\ h[r] # IdleHandler
    BY <1>1 DEF TypeOK, IdleHandler
  <2> QED
    BY <2>1 DEF Handler
<1>3. ~Started(h[r].lead) /\ \A m \in h[r].rows : m \in Messages /\ LeadOf[m] = h[r].lead
  BY <1>1 DEF StageInv, HandlerFollows
<1>4. \A m \in h[r].rows : status[m] = "DRAFT"
  BY <1>3 DEF StageInv, UnstartedIsDraft
<1>5. \A m \in Messages : status'[m] = IF m \in h[r].rows THEN "APPROVED" ELSE status[m]
  BY DEF ActivateCommit
<1>6. \A l \in Leads : leadState'[l] = IF l = h[r].lead THEN "SEQUENCE_ACTIVE" ELSE leadState[l]
  BY DEF ActivateCommit, TypeOK
<1>7. Forward
  BY <1>3, <1>4, <1>5, <1>6 DEF Forward, Started, Settled
<1> QED
  BY <1>2, <1>3, <1>4, <1>5, <1>6, <1>7

(* A proposal moves the lead and leaves the rows as they are. *)
LEMMA ProposeForward ==
  ASSUME TypeOK, NEW r \in Handlers, ProposeCommit(r)
  PROVE  /\ Forward
         /\ status' = status
         /\ \A l \in Leads : leadState'[l] \in {leadState[l], "MEETING_PROPOSED"}
<1>1. \A l \in Leads : leadState'[l] \in {leadState[l], "MEETING_PROPOSED"}
  BY DEF ProposeCommit, TypeOK
<1>2. status' = status
  BY DEF ProposeCommit
<1> QED
  BY <1>1, <1>2 DEF Forward, Started

(* A reply settles the rows it selected; the lead is where it belongs then.  *)
LEMMA RetireForward ==
  ASSUME TypeOK, StageInv, NEW r \in Handlers, RetireCommit(r)
  PROVE  /\ Forward
         /\ h[r].lead \in Leads
         /\ \A m \in h[r].rows : m \in Messages /\ LeadOf[m] = h[r].lead
         /\ \A m \in Messages : status'[m] = IF m \in h[r].rows THEN "SKIPPED" ELSE status[m]
         /\ \A m \in MessagesOf(h[r].lead) : status'[m] \in Settled
         /\ \A l \in Leads : l # h[r].lead => leadState'[l] = leadState[l]
         /\ leadState'[h[r].lead] # "OUTREACH_PENDING"
<1>1. h[r].pc = "commit" /\ h[r].op \in {"optOut", "handOff"}
  BY DEF RetireCommit
<1>2. h[r].lead \in Leads
  <2>1. h[r] \in Handler /\ h[r] # IdleHandler
    BY <1>1 DEF TypeOK, IdleHandler
  <2> QED
    BY <2>1 DEF Handler
<1>3. HandlerFollows(r)
  BY DEF StageInv
<1>4. \A m \in h[r].rows : m \in Messages /\ LeadOf[m] = h[r].lead
  BY <1>3 DEF HandlerFollows
<1>5. \A m \in Messages : status'[m] = IF m \in h[r].rows THEN "SKIPPED" ELSE status[m]
  BY DEF RetireCommit
<1>6. \A m \in MessagesOf(h[r].lead) : status'[m] \in Settled
  BY <1>1, <1>3, <1>5 DEF HandlerFollows, Settled, MessagesOf
<1>7. leadState' = IF h[r].target = None THEN leadState
                   ELSE [leadState EXCEPT ![h[r].lead] = h[r].target]
  BY DEF RetireCommit
<1>8. \A l \in Leads : l # h[r].lead => leadState'[l] = leadState[l]
  BY <1>7 DEF TypeOK
<1>9. leadState'[h[r].lead] # "OUTREACH_PENDING"
  <2>1. CASE h[r].target = None
    BY <1>1, <1>3, <1>7, <2>1 DEF HandlerFollows, Started
  <2>2. CASE h[r].target # None
    BY <1>2, <1>3, <1>7, <2>2 DEF HandlerFollows, Started, TypeOK
  <2> QED
    BY <2>1, <2>2
<1>10. Forward
  BY <1>2, <1>5, <1>8, <1>9 DEF Forward, Started, Settled
<1> QED
  BY <1>2, <1>4, <1>5, <1>6, <1>8, <1>9, <1>10

(* Every step moves rows and leads forward only. *)
LEMMA ForwardStep ==
  ASSUME TypeOK, StageInv, [Next]_vars
  PROVE  Forward
<1>1. ASSUME NEW k \in Workers, TokenRefreshed(k) \/ TokenRevoked(k) \/ Finish(k)
      PROVE  Forward
  <2>1. FlushSession(k) /\ SessionFollows(k)
    BY <1>1 DEF TokenRefreshed, TokenRevoked, Finish, StageInv
  <2> QED
    BY <2>1, FlushForward
<1>2. ASSUME NEW r \in Handlers, ActivateCommit(r) \/ RetireCommit(r)
      PROVE  Forward
  BY <1>2, ActivateForward, RetireForward
<1>3. ASSUME UNCHANGED <<status, leadState>>
      PROVE  Forward
  BY <1>3 DEF Forward, Started
<1>4. ASSUME NEW r \in Handlers, ProposeCommit(r)
      PROVE  Forward
  BY <1>4, ProposeForward
<1> QED
  BY <1>1, <1>2, <1>3, <1>4, QuietSteps

(* So a step that is not the worker's own leaves its session as it is. *)
LEMMA WorkerRests ==
  ASSUME TypeOK, [Next]_vars, NEW k \in Workers, ~Work(k)
  PROVE  /\ pc'[k] = pc[k] /\ todo'[k] = todo[k] /\ cur'[k] = cur[k]
         /\ mark'[k] = mark[k] /\ dead'[k] = dead[k]
         /\ copyLead'[k] = copyLead[k] /\ copyState'[k] = copyState[k]
<1>1. CASE \E j \in Workers : Work(j)
  BY <1>1, OthersRest
<1>2. CASE ~\E j \in Workers : Work(j)
  BY <1>2, SessionsRest
<1> QED
  BY <1>1, <1>2

(* What a worker has selected belongs to a started sequence. *)
LEMMA SelectedIsStarted ==
  ASSUME TypeOK, StageInv, NEW k \in Workers
  PROVE  /\ \A m \in todo[k] : m \in Messages /\ status[m] # "DRAFT" /\ Started(LeadOf[m])
         /\ pc[k] = "send" =>
              cur[k] \in Messages /\ status[cur[k]] # "DRAFT" /\ Started(LeadOf[cur[k]])
BY DEF TypeOK, StageInv, UnstartedIsDraft, SessionFollows

(* A session that selects nothing new, assigns statuses to the messages it   *)
(* has selected and stops no other lead keeps following the rows.            *)
LEMMA SessionGoesOn ==
  ASSUME TypeOK, StageInv, Forward, NEW k \in Workers,
         todo'[k] \subseteq todo[k],
         pc'[k] = "send" => cur'[k] \in todo[k] \/ (pc[k] = "send" /\ cur'[k] = cur[k]),
         dead'[k] = dead[k],
         \A m \in Messages : mark'[k][m] = mark[k][m] \/ (mark'[k][m] # "none" /\ Started(LeadOf[m]))
  PROVE  SessionFollows(k)'
<1>1. dead[k] \subseteq Leads /\ \A m \in Messages : LeadOf[m] \in Leads
  BY MessageFacts DEF TypeOK
<1>2. SessionFollows(k)
  BY DEF StageInv
<1>3. /\ \A m \in todo'[k] : status'[m] # "DRAFT"
      /\ pc'[k] = "send" => status'[cur'[k]] # "DRAFT"
  BY SelectedIsStarted DEF Forward
<1>4. \A m \in Messages : mark'[k][m] # "none" => Started(LeadOf[m])'
  BY <1>1, <1>2 DEF SessionFollows, Forward
<1>5. \A m \in Messages : LeadOf[m] \in dead'[k]
        => Started(LeadOf[m])' /\ (status'[m] \in Settled \/ mark'[k][m] # "none")
  BY <1>1, <1>2 DEF SessionFollows, Forward
<1>6. \A l \in dead'[k] : Started(l)'
  BY <1>1, <1>2 DEF SessionFollows, Forward
<1> QED
  BY <1>3, <1>4, <1>5, <1>6 DEF SessionFollows

(* A worker's step keeps its session in line with the rows. *)
LEMMA WorkFollows ==
  ASSUME TypeOK, StageInv, Forward, NEW k \in Workers, Work(k)
  PROVE  SessionFollows(k)'
<1> USE DEF db, session, mail
<1>a. SessionFollows(k) /\ dead[k] \subseteq Leads /\ \A m \in Messages : LeadOf[m] \in Leads
  BY MessageFacts DEF StageInv, TypeOK
<1>1. CASE Begin(k)
  <2>1. /\ UNCHANGED <<status, leadState, mark, dead>>
        /\ pc'[k] = "loop" /\ todo'[k] = Selected
    BY <1>1 DEF Begin, TypeOK
  <2> QED
    BY <1>a, <2>1 DEF SessionFollows, Selected, Started
<1>2. ASSUME NEW n \in Messages, SkipMessage(k, n) PROVE SessionFollows(k)'
  <2>1. /\ n \in todo[k] /\ todo'[k] = todo[k] \ {n}
        /\ pc'[k] = pc[k] /\ cur'[k] = cur[k] /\ dead'[k] = dead[k]
        /\ \A m \in Messages : mark'[k][m] = IF m = n THEN "SKIPPED" ELSE mark[k][m]
    BY <1>2 DEF SkipMessage, NextUp, TypeOK
  <2>2. \A m \in Messages : mark'[k][m] = mark[k][m]
                              \/ (mark'[k][m] # "none" /\ Started(LeadOf[m]))
    BY <2>1, SelectedIsStarted
  <2> QED
    BY <2>1, <2>2, SessionGoesOn
<1>3. ASSUME NEW n \in Messages, CapReached(k, n) \/ PickMessage(k, n)
      PROVE  SessionFollows(k)'
  <2>1. /\ n \in todo[k] /\ todo'[k] \subseteq todo[k]
        /\ pc'[k] = "send" => cur'[k] = n
        /\ dead'[k] = dead[k] /\ mark'[k] = mark[k]
    BY <1>3 DEF CapReached, PickMessage, NextUp, TypeOK
  <2> QED
    BY <2>1, SessionGoesOn
<1>4. CASE TokenRefreshed(k)
  <2>1. /\ todo'[k] = todo[k] /\ pc'[k] = pc[k] /\ cur'[k] = cur[k]
        /\ dead'[k] = {} /\ mark'[k] = NoMarks
    BY <1>4 DEF TokenRefreshed, CleanSession, TypeOK
  <2>2. /\ \A m \in todo'[k] : status'[m] # "DRAFT"
        /\ pc'[k] = "send" => status'[cur'[k]] # "DRAFT"
    BY <2>1, SelectedIsStarted DEF Forward
  <2> QED
    BY <2>1, <2>2 DEF SessionFollows, NoMarks
<1>5. CASE TokenRevoked(k) \/ Finish(k) \/ Abort(k)
  <2>1. todo'[k] = {} /\ pc'[k] = "idle" /\ dead'[k] = {} /\ mark'[k] = NoMarks
    BY <1>5 DEF TokenRevoked, Finish, Abort, EndCycle, CleanSession, TypeOK
  <2> QED
    BY <2>1 DEF SessionFollows, NoMarks
<1>6. CASE Delivered(k) \/ SendFails(k) \/ SendLost(k)
  <2>1. /\ pc[k] = "send" /\ todo'[k] = todo[k] /\ dead'[k] = dead[k] /\ pc'[k] = "loop"
        /\ mark' = mark \/ \E s \in Settled : mark' = [mark EXCEPT ![k][cur[k]] = s]
    BY <1>6 DEF Delivered, SendFails, SendLost, GiveUpAfterMax, Continue, Settled, TypeOK
  <2>2. cur[k] \in Messages /\ Started(LeadOf[cur[k]])
    BY <2>1, SelectedIsStarted
  <2>3. \A m \in Messages : mark'[k][m] = mark[k][m]
                              \/ (mark'[k][m] # "none" /\ Started(LeadOf[m]))
    BY <2>1, <2>2 DEF TypeOK, Settled
  <2> QED
    BY <2>1, <2>3, SessionGoesOn
<1>7. CASE HardBounce(k)
  <2>1. /\ pc[k] = "send" /\ todo'[k] = todo[k] /\ pc'[k] = "loop"
        /\ dead'[k] = dead[k] \union {LeadOf[cur[k]]}
        /\ UNCHANGED <<status, leadState>>
        /\ \A m \in Messages : mark'[k][m] = CASE m = cur[k]                 -> "FAILED"
                                               [] m \in Retirable(k, cur[k]) -> "SKIPPED"
                                               [] OTHER                      -> mark[k][m]
    BY <1>7 DEF HardBounce, Continue, TypeOK
  <2>2. cur[k] \in Messages /\ Started(LeadOf[cur[k]])
    BY <2>1, SelectedIsStarted
  <2>3. \A m \in Messages : mark'[k][m] # "none" => mark[k][m] # "none"
                                                    \/ LeadOf[m] = LeadOf[cur[k]]
    BY <2>1 DEF Retirable, MessagesOf
  <2>4. \A m \in Messages : mark[k][m] # "none" => mark'[k][m] # "none"
    BY <2>1
  <2>5. ASSUME NEW m \in Messages, LeadOf[m] = LeadOf[cur[k]]
        PROVE  status[m] \in Settled \/ mark'[k][m] # "none"
    BY <2>1, <2>5 DEF Retirable, MessagesOf, TypeOK, MessageStatus, Settled
  <2> QED
    BY <1>a, <2>1, <2>2, <2>3, <2>4, <2>5 DEF SessionFollows, Started
<1> QED
  BY <1>1, <1>2, <1>3, <1>4, <1>5, <1>6, <1>7 DEF Work

(* A handler's request is changed by the handler alone. *)
LEMMA HandlerRests ==
  ASSUME TypeOK, [Next]_vars, NEW r \in Handlers, ~Handle(r)
  PROVE  h'[r] = h[r]
<1> USE DEF db, session, mail
<1>1. ASSUME NEW q \in Handlers, Handle(q), q # r
      PROVE  h'[r] = h[r]
  BY <1>1 DEF Handle, ActivateRead, ActivateCommit, ProposeRead, ProposeCommit,
              TriageRead, TriageRows, RetireCommit,
              PostponeCommit, AbortHandler, TypeOK
<1>2. ASSUME NEW k \in Workers, Work(k)
      PROVE  h' = h
  BY <1>2 DEF Work, Begin, SkipMessage, CapReached, PickMessage, TokenRefreshed, TokenRevoked,
              Delivered, SendLost, SendFails, HardBounce, Finish, Abort
<1>3. ASSUME (\E m \in Messages : Tick(m)) \/ NewDay \/ UNCHANGED vars
      PROVE  h' = h
  BY <1>3 DEF Tick, NewDay, vars
<1> QED
  BY <1>1, <1>2, <1>3 DEF Next

(* What a handler has read stays so while the cycles write. *)
LEMMA WaitingFollows ==
  ASSUME TypeOK, StageInv, Forward, NEW r \in Handlers, h'[r] = h[r],
         \A l \in Leads : ~Started(l) => ~Started(l)'
  PROVE  HandlerFollows(r)'
<1>1. HandlerFollows(r)
  BY DEF StageInv
<1>2. CASE h[r].pc = "idle"
  BY <1>1, <1>2 DEF HandlerFollows
<1>3. CASE h[r].pc # "idle"
  <2>1. h[r].lead \in Leads
    BY <1>3, Request
  <2>2. h[r].pc = "commit" /\ h[r].op = "activate" => ~Started(h[r].lead)'
    BY <1>1, <2>1 DEF HandlerFollows
  <2>3. h[r].op \in {"optOut", "handOff"} /\ h[r].target = None => Started(h[r].lead)'
    BY <1>1, <1>3, <2>1 DEF HandlerFollows, Forward
  <2>4. h[r].pc = "commit" /\ h[r].op \in {"optOut", "handOff"}
          => \A m \in MessagesOf(h[r].lead) : status'[m] \in Settled \/ m \in h[r].rows
    BY <1>1 DEF HandlerFollows, Forward, MessagesOf
  <2>5. (h[r].lead)' = h[r].lead
    OBVIOUS
  <2> QED
    BY <1>1, <2>2, <2>3, <2>4, <2>5 DEF HandlerFollows, Started, MessagesOf
<1> QED
  BY <1>2, <1>3

(* A handler's step keeps its request in line with the rows. *)
LEMMA HandleFollows ==
  ASSUME TypeOK, StageInv, NEW r \in Handlers, Handle(r)
  PROVE  HandlerFollows(r)'
<1>a. HandlerFollows(r)
  BY DEF StageInv
<1>1. ASSUME NEW l \in Leads, ActivateRead(r, l) PROVE HandlerFollows(r)'
  <2>1. /\ h'[r] = [pc |-> "commit", op |-> "activate", lead |-> l, target |-> None,
                    rows |-> {m \in MessagesOf(l) : status[m] = "DRAFT"}, lists |-> {}]
        /\ leadState' = leadState /\ ~Started(l)
    BY <1>1 DEF ActivateRead, TypeOK, db, Started
  <2> QED
    BY <2>1 DEF HandlerFollows, MessagesOf, Started
<1>2. ASSUME NEW l \in Leads, NEW op \in Ops, TriageRead(r, l, op) PROVE HandlerFollows(r)'
  <2>1. PICK t \in Targets(op, leadState[l]) :
          h' = [h EXCEPT ![r] = [pc |-> "rows", op |-> op, lead |-> l, target |-> t,
                                 rows |-> {}, lists |-> {}]]
    BY <1>2 DEF TriageRead
  <2>2. /\ h'[r] = [pc |-> "rows", op |-> op, lead |-> l, target |-> t,
                    rows |-> {}, lists |-> {}]
        /\ leadState' = leadState /\ op # "activate"
    BY <1>2, <2>1 DEF TriageRead, TypeOK, db
  <2>3. t \in {None, "ENGAGED", "MEETING_PROPOSED", "UNSUBSCRIBED"}
    BY TargetFacts
  <2>4. op \in {"optOut", "handOff"} /\ t = None => Started(l)
    BY TargetFacts DEF Started
  <2> QED
    BY <2>2, <2>3, <2>4 DEF HandlerFollows, Started
<1>3. ASSUME TriageRows(r) PROVE HandlerFollows(r)'
  <2>1. /\ h[r].pc = "rows" /\ UNCHANGED <<status, leadState>>
        /\ h'[r] = [h[r] EXCEPT !.pc = "commit",
                                !.rows = {m \in MessagesOf(h[r].lead) :
                                            status[m] \in Pending(h[r].op)},
                                !.lists = IF h[r].op = "optOut" THEN {h[r].lead} \ suppressed
                                         ELSE {}]
    BY <1>3 DEF TriageRows, TypeOK, db
  <2>2. h[r] \in [pc : {"rows", "commit"}, op : Ops, lead : Leads,
                  target : LeadState \union {None}, rows : SUBSET Messages, lists : SUBSET Leads]
    BY <2>1, Request
  <2>3. /\ h'[r].pc = "commit" /\ h'[r].op = h[r].op /\ h'[r].lead = h[r].lead
        /\ h'[r].target = h[r].target
        /\ h'[r].rows = {m \in MessagesOf(h[r].lead) : status[m] \in Pending(h[r].op)}
    BY <2>1, <2>2
  <2>4. h[r].op # "activate"
    BY <1>a, <2>1 DEF HandlerFollows
  <2>5. h[r].op \in {"optOut", "handOff"}
          => \A m \in MessagesOf(h[r].lead) : status[m] \in Settled \/ m \in h'[r].rows
    BY <2>3 DEF Pending, MessagesOf, TypeOK, MessageStatus, Settled
  <2> QED
    BY <1>a, <2>1, <2>3, <2>4, <2>5 DEF HandlerFollows, MessagesOf, Started
<1>4. ASSUME \/ ActivateCommit(r) \/ ProposeCommit(r) \/ RetireCommit(r)
             \/ PostponeCommit(r) \/ AbortHandler(r)
      PROVE  HandlerFollows(r)'
  <2>1. h'[r] = IdleHandler
    BY <1>4 DEF ActivateCommit, ProposeCommit, RetireCommit, PostponeCommit, AbortHandler,
                TypeOK
  <2> QED
    BY <2>1 DEF HandlerFollows, IdleHandler
<1>5. ASSUME NEW l \in Leads, ProposeRead(r, l) PROVE HandlerFollows(r)'
  <2>1. h'[r] = [pc |-> "commit", op |-> "propose", lead |-> l, target |-> None,
                 rows |-> {}, lists |-> {}]
    BY <1>5 DEF ProposeRead, TypeOK
  <2> QED
    BY <2>1 DEF HandlerFollows
<1> QED
  BY <1>1, <1>2, <1>3, <1>4, <1>5 DEF Handle

(* A sequence is started by a handler alone. *)
LEMMA OnlyHandlersStart ==
  ASSUME TypeOK, StageInv, [Next]_vars, ~\E r \in Handlers : Handle(r)
  PROVE  \A l \in Leads : ~Started(l) => ~Started(l)'
<1>1. ASSUME NEW k \in Workers, TokenRefreshed(k) \/ TokenRevoked(k) \/ Finish(k)
      PROVE  \A l \in Leads : ~Started(l) => ~Started(l)'
  <2>1. FlushSession(k) /\ SessionFollows(k)
    BY <1>1 DEF TokenRefreshed, TokenRevoked, Finish, StageInv
  <2> QED
    BY <2>1, FlushForward DEF Started
<1> QED
  BY <1>1, QuietSteps DEF Started, Handle

(* The statuses of rows and leads agree after every commit. *)
LEMMA RowsAgree ==
  ASSUME TypeOK, StageInv, [Next]_vars
  PROVE  UnstartedIsDraft' /\ StoppedLeadsHaveNothingPending'
<1>a. \A m \in Messages : LeadOf[m] \in Leads
  BY MessageFacts
<1>b. Forward
  BY ForwardStep
<1>c. UnstartedIsDraft /\ StoppedLeadsHaveNothingPending
  BY DEF StageInv
<1>1. ASSUME NEW k \in Workers, TokenRefreshed(k) \/ TokenRevoked(k) \/ Finish(k)
      PROVE  UnstartedIsDraft' /\ StoppedLeadsHaveNothingPending'
  <2>1. FlushSession(k) /\ SessionFollows(k)
    BY <1>1 DEF TokenRefreshed, TokenRevoked, Finish, StageInv
  <2>2. UnstartedIsDraft'
    BY <1>a, <1>b, <1>c, <2>1, FlushForward DEF UnstartedIsDraft, Forward
  <2>3. ASSUME NEW m \in Messages, LeadOf[m] \in dead[k]
        PROVE  status'[m] \in Settled
    <3>1. status'[m] = IF mark[k][m] = "none" THEN status[m] ELSE mark[k][m]
      BY <2>1 DEF FlushSession, NewStatus
    <3>2. mark[k][m] \in Settled \union {"none"}
      BY DEF TypeOK
    <3> QED
      BY <2>1, <2>3, <3>1, <3>2 DEF SessionFollows
  <2>4. StoppedLeadsHaveNothingPending'
    BY <1>a, <1>b, <1>c, <2>1, <2>3, FlushForward
       DEF StoppedLeadsHaveNothingPending, Forward
  <2> QED
    BY <2>2, <2>4
<1>2. ASSUME NEW r \in Handlers, ActivateCommit(r)
      PROVE  UnstartedIsDraft' /\ StoppedLeadsHaveNothingPending'
  BY <1>a, <1>c, <1>2, ActivateForward
     DEF UnstartedIsDraft, StoppedLeadsHaveNothingPending, Started
<1>3. ASSUME NEW r \in Handlers, RetireCommit(r)
      PROVE  UnstartedIsDraft' /\ StoppedLeadsHaveNothingPending'
  BY <1>a, <1>c, <1>3, RetireForward
     DEF UnstartedIsDraft, StoppedLeadsHaveNothingPending, Started, MessagesOf
<1>4. ASSUME UNCHANGED <<status, leadState>>
      PROVE  UnstartedIsDraft' /\ StoppedLeadsHaveNothingPending'
  BY <1>c, <1>4 DEF UnstartedIsDraft, StoppedLeadsHaveNothingPending, Started
<1>5. ASSUME NEW r \in Handlers, ProposeCommit(r)
      PROVE  UnstartedIsDraft' /\ StoppedLeadsHaveNothingPending'
  BY <1>a, <1>c, <1>5, ProposeForward
     DEF UnstartedIsDraft, StoppedLeadsHaveNothingPending, Started
<1> QED
  BY <1>1, <1>2, <1>3, <1>4, <1>5, QuietSteps

(* With one handler at a time every step keeps the invariant. *)
LEMMA StageStep ==
  ASSUME SoleHandler, TypeOK, StageInv, [Next]_vars
  PROVE  StageInv'
<1>1. Forward
  BY ForwardStep
<1>2. ASSUME NEW k \in Workers
      PROVE  SessionFollows(k)'
  <2>1. CASE Work(k)
    BY <1>1, <2>1, WorkFollows
  <2>2. CASE ~Work(k)
    BY <1>1, <2>2, WorkerRests, SessionGoesOn
  <2> QED
    BY <2>1, <2>2
<1>3. ASSUME NEW r \in Handlers
      PROVE  HandlerFollows(r)'
  <2>1. CASE Handle(r)
    BY <2>1, HandleFollows
  <2>2. CASE ~Handle(r)
    <3>1. ~\E q \in Handlers : Handle(q)
      BY <2>2 DEF SoleHandler
    <3> QED
      BY <1>1, <2>2, <3>1, HandlerRests, OnlyHandlersStart, WaitingFollows
  <2> QED
    BY <2>1, <2>2
<1> QED
  BY <1>2, <1>3, RowsAgree DEF StageInv

(* Initially everything is a draft and nobody is at work. *)
LEMMA StageInit == Init => StageInv
<1> SUFFICES ASSUME Init
             PROVE  StageInv
  OBVIOUS
<1>1. UnstartedIsDraft /\ StoppedLeadsHaveNothingPending
  BY MessageFacts DEF Init, UnstartedIsDraft, StoppedLeadsHaveNothingPending
<1>2. \A k \in Workers : SessionFollows(k)
  BY MessageFacts DEF Init, SessionFollows, NoMarks
<1>3. \A r \in Handlers : HandlerFollows(r)
  BY DEF Init, HandlerFollows, IdleHandler
<1> QED
  BY <1>1, <1>2, <1>3 DEF StageInv

LEMMA StageAlways ==
  ASSUME SoleHandler
  PROVE  Spec => []StageInv
<1>1. TypeOK /\ StageInv /\ [Next]_vars => StageInv'
  BY StageStep
<1> QED
  BY Typing, StageInit, <1>1, PTL DEF Spec

(* A lead that left its sequence for good or for a human keeps no step that  *)
(* is waiting, whatever became of the cycles that were sending to it and of  *)
(* the proposals that moved it meanwhile: for any number of workers,  *)
(* crashes and lost answers included, as long as one handler works at a time.*)
THEOREM StoppedLeads ==
  ASSUME SoleHandler
  PROVE  Spec => []StoppedLeadsHaveNothingPending
<1>1. StageInv => StoppedLeadsHaveNothingPending
  BY DEF StageInv
<1> QED
  BY StageAlways, <1>1, PTL

-----------------------------------------------------------------------------
(* The send cycle implements the outbox *)

(* The stage of a step follows from the status of its row. *)
LEMMA StageOf ==
  ASSUME TypeOK
  PROVE  /\ Stages = [m \in Messages |-> Stages[m]]
         /\ \A m \in Messages :
              /\ status[m] = "DRAFT" <=> Stages[m] = "draft"
              /\ status[m] = "APPROVED" <=> Stages[m] = "pending"
              /\ status[m] \in Settled <=> Stages[m] = "settled"
BY DEF TypeOK, MessageStatus, Settled, Stages

(* So does the stage after a step. *)
LEMMA NextStages ==
  ASSUME TypeOK', NEW T, T \in [Messages -> {"draft", "pending", "settled"}],
         \A m \in Messages : /\ status'[m] = "DRAFT" => T[m] = "draft"
                             /\ status'[m] = "APPROVED" => T[m] = "pending"
                             /\ status'[m] \in Settled => T[m] = "settled"
  PROVE  Stages' = T
<1> DEFINE c(m) == CASE status'[m] = "DRAFT"     -> "draft"
                     [] status'[m] = "APPROVED"  -> "pending"
                     [] status'[m] \in Settled   -> "settled"
<1>1. Stages' = [m \in Messages |-> c(m)]
  BY DEF Stages, Settled
<1>2. \A m \in Messages : c(m) = T[m]
  BY DEF TypeOK, MessageStatus, Settled
<1> HIDE DEF c
<1> QED
  BY <1>1, <1>2

(* Rows of S that were not settled and now are, while the others keep their  *)
(* stage, are a step of the outbox, or none.                                 *)
LEMMA SettlingStep ==
  ASSUME TypeOK, TypeOK', delivered' = delivered,
         \A m \in Messages : status'[m] \in {status[m]} \union Settled,
         \A m \in Messages : status[m] \in Settled => status'[m] \in Settled
  PROVE  [Outbox!Next]_<<Stages, delivered>>
<1> DEFINE S == {m \in Messages : status[m] \notin Settled /\ status'[m] \in Settled}
<1>1. Stages' = [m \in Messages |-> IF m \in S THEN "settled" ELSE Stages[m]]
  <2> DEFINE T == [m \in Messages |-> IF m \in S THEN "settled" ELSE Stages[m]]
  <2>1. T \in [Messages -> {"draft", "pending", "settled"}]
    BY StageOf DEF TypeOK, MessageStatus, Settled
  <2>2. \A m \in Messages : /\ status'[m] = "DRAFT" => T[m] = "draft"
                            /\ status'[m] = "APPROVED" => T[m] = "pending"
                            /\ status'[m] \in Settled => T[m] = "settled"
    BY StageOf DEF Settled
  <2> QED
    BY <2>1, <2>2, NextStages
<1>2. CASE S = {}
  BY <1>1, <1>2, StageOf
<1>3. CASE S # {}
  <2>1. \A m \in S : Stages[m] # "settled"
    BY StageOf
  <2>2. Outbox!Settle(S)
    BY <1>1, <2>1 DEF Outbox!Settle, Outbox!MoveTo
  <2>3. S \in (SUBSET Messages) \ {{}}
    BY <1>3
  <2> QED
    BY <2>2, <2>3 DEF Outbox!Next
<1> QED
  BY <1>2, <1>3

(* The commit of an activation puts drafts in the queue of the outbox. *)
LEMMA QueueingStep ==
  ASSUME TypeOK, TypeOK', StageInv, NEW r \in Handlers, ActivateCommit(r)
  PROVE  [Outbox!Next]_<<Stages, delivered>>
<1> DEFINE S == h[r].rows
<1>1. /\ \A m \in S : m \in Messages /\ status[m] = "DRAFT"
      /\ \A m \in Messages : status'[m] = IF m \in S THEN "APPROVED" ELSE status[m]
      /\ delivered' = delivered
  BY ActivateForward DEF ActivateCommit, Sessions, mail
<1>2. Stages' = [m \in Messages |-> IF m \in S THEN "pending" ELSE Stages[m]]
  <2> DEFINE T == [m \in Messages |-> IF m \in S THEN "pending" ELSE Stages[m]]
  <2>1. T \in [Messages -> {"draft", "pending", "settled"}]
    BY StageOf DEF TypeOK, MessageStatus, Settled
  <2>2. \A m \in Messages : /\ status'[m] = "DRAFT" => T[m] = "draft"
                            /\ status'[m] = "APPROVED" => T[m] = "pending"
                            /\ status'[m] \in Settled => T[m] = "settled"
    BY <1>1, StageOf DEF Settled
  <2> QED
    BY <2>1, <2>2, NextStages
<1>3. CASE S = {}
  BY <1>1, <1>2, <1>3, StageOf
<1>4. CASE S # {}
  <2>1. \A m \in S : Stages[m] = "draft"
    BY <1>1, StageOf
  <2>2. Outbox!Queue(S)
    BY <1>1, <1>2, <2>1 DEF Outbox!Queue, Outbox!MoveTo
  <2>3. S \in (SUBSET Messages) \ {{}}
    BY <1>1, <1>4
  <2> QED
    BY <2>2, <2>3 DEF Outbox!Next
<1> QED
  BY <1>3, <1>4

(* A delivery is the one mail of its step. *)
LEMMA MailStep ==
  ASSUME TypeOK, OnceInv, NEW k \in Workers, Delivered(k)
  PROVE  [Outbox!Next]_<<Stages, delivered>>
<1>1. /\ cur[k] \in Messages /\ status' = status
      /\ delivered' = [delivered EXCEPT ![cur[k]] = @ + 1]
  BY DEF Delivered, MailOut, TypeOK, db
<1>2. delivered[cur[k]] = 0 /\ status[cur[k]] # "DRAFT"
  BY DEF Delivered, OnceInv, SendingIsUnsent
<1>3. Stages' = Stages
  BY <1>1 DEF Stages
<1>4. Stages[cur[k]] # "draft"
  BY <1>1, <1>2, StageOf
<1>5. delivered' = [delivered EXCEPT ![cur[k]] = 1]
  BY <1>1, <1>2 DEF TypeOK
<1>6. Outbox!Mail(cur[k])
  BY <1>2, <1>3, <1>4, <1>5 DEF Outbox!Mail
<1> QED
  BY <1>1, <1>6 DEF Outbox!Next

(* Every step is a step of the outbox, or none. *)
LEMMA OutboxStep ==
  ASSUME Undisturbed, TypeOK, TypeOK', StageInv, OnceInv, [Next]_vars
  PROVE  [Outbox!Next]_<<Stages, delivered>>
<1>1. ASSUME NEW k \in Workers, TokenRefreshed(k) \/ TokenRevoked(k) \/ Finish(k)
      PROVE  [Outbox!Next]_<<Stages, delivered>>
  <2>1. FlushSession(k) /\ SessionFollows(k) /\ delivered' = delivered
    BY <1>1 DEF TokenRefreshed, TokenRevoked, Finish, StageInv, mail
  <2> QED
    BY <2>1, FlushForward, SettlingStep DEF Forward
<1>2. ASSUME NEW r \in Handlers, ActivateCommit(r)
      PROVE  [Outbox!Next]_<<Stages, delivered>>
  BY <1>2, QueueingStep
<1>3. ASSUME NEW r \in Handlers, RetireCommit(r)
      PROVE  [Outbox!Next]_<<Stages, delivered>>
  <2>1. delivered' = delivered
    BY <1>3 DEF RetireCommit, Sessions, mail
  <2> QED
    BY <1>3, <2>1, RetireForward, SettlingStep DEF Forward, Settled
<1>4. ASSUME NEW k \in Workers, Delivered(k)
      PROVE  [Outbox!Next]_<<Stages, delivered>>
  BY <1>4, MailStep
<1>5. ASSUME ~\E k \in Workers : TokenRefreshed(k) \/ TokenRevoked(k) \/ Finish(k)
                                   \/ Delivered(k),
             ~\E r \in Handlers : ActivateCommit(r) \/ RetireCommit(r)
      PROVE  UNCHANGED <<Stages, delivered>>
  <2>1. status' = status
    BY <1>5, QuietSteps, ProposeForward
  <2>2. \A k \in Workers : ~SendLost(k)
    BY DEF Undisturbed, SendLost
  <2>3. delivered' = delivered
    <3>1. ASSUME NEW k \in Workers, Work(k)
          PROVE  delivered' = delivered
      BY <1>5, <2>2, <3>1 DEF Work, Begin, SkipMessage, CapReached, PickMessage, SendFails,
                              HardBounce, Abort, mail
    <3>2. ASSUME (\E r \in Handlers : Handle(r)) \/ (\E m \in Messages : Tick(m)) \/ NewDay
                 \/ UNCHANGED vars
          PROVE  delivered' = delivered
      BY <3>2 DEF Handle, Sessions, ActivateRead, ActivateCommit, ProposeRead, ProposeCommit,
                  TriageRead, TriageRows,
                  RetireCommit, PostponeCommit, AbortHandler, Tick, NewDay, vars, mail
    <3> QED
      BY <3>1, <3>2 DEF Next
  <2> QED
    BY <2>1, <2>3 DEF Stages
<1> QED
  BY <1>1, <1>2, <1>3, <1>4, <1>5

(* Workers that keep apart and one handler at a time, with no cycle cut      *)
(* short, by a collision in the do-not-contact list or otherwise, and no     *)
(* answer lost, implement the outbox: drafts do not leave, what is settled   *)
(* never waits again although commits write over rows that were read long    *)
(* before, and no step leaves twice.                                         *)
THEOREM ImplementsOutbox ==
  ASSUME Undisturbed
  PROVE  Spec => OutboxSpec
<1>1. Init => Outbox!Init
  <2> SUFFICES ASSUME Init
               PROVE  Outbox!Init
    OBVIOUS
  <2>1. status = [m \in Messages |-> "DRAFT"] /\ delivered = [m \in Messages |-> 0]
    BY DEF Init, NoTries
  <2>2. Stages = [m \in Messages |-> Stages[m]] /\ \A m \in Messages : Stages[m] = "draft"
    BY <2>1, TypingInit, StageOf
  <2> QED
    BY <2>1, <2>2 DEF Outbox!Init
<1>2. SoleHandler
  BY DEF Undisturbed
<1>3. TypeOK /\ TypeOK' /\ StageInv /\ OnceInv /\ [Next]_vars
        => [Outbox!Next]_<<Stages, delivered>>
  BY OutboxStep
<1>4. Spec => [](TypeOK /\ StageInv /\ OnceInv)
  BY <1>2, Typing, StageAlways, OnceAlways, PTL
<1> QED
  BY <1>1, <1>3, <1>4, PTL DEF Spec, OutboxSpec, Outbox!Spec

-----------------------------------------------------------------------------
(* LIMITS.  The counts the send cycle keeps: the attempts of a message, kept *)
(* in the session and in its row, and the mails of the day, kept in the      *)
(* session's counters and in the rows marked SENT.                           *)
-----------------------------------------------------------------------------
(* Attempts *)

(* What has yet to be tried in this cycle was loaded with all its failures.  *)
Fresh(k, m) == /\ m \notin retry[k]
               /\ copyTries[k][m] = tries[m]
               /\ tries[m] < MAX_SEND_ATTEMPTS

CountFollows(k) ==
  /\ \A m \in retry[k] : copyTries[k][m] = tries[m]
  /\ \A m \in todo[k] : Fresh(k, m)
  /\ pc[k] = "send" => Fresh(k, cur[k]) /\ cur[k] \notin todo[k]
  /\ pc[k] = "idle" => todo[k] = {} /\ retry[k] = {} /\ mark[k] = NoMarks

(* A failure is in the row, or the session will write it. *)
FailuresAreKept ==
  \A m \in Messages : attempts[m] = tries[m] \/ \E k \in Workers : m \in retry[k]

(* What may be tried again has attempts left, or the session will settle it. *)
OpenHasTriesLeft ==
  \A m \in Messages : status[m] \in {"DRAFT", "APPROVED"}
    => \/ tries[m] < MAX_SEND_ATTEMPTS
       \/ \E k \in Workers : m \in retry[k] /\ mark[k][m] # "none"

RetryInv == /\ RetryCap
            /\ \A k \in Workers : CountFollows(k)
            /\ FailuresAreKept
            /\ OpenHasTriesLeft

-----------------------------------------------------------------------------
(* Mails of the day *)

MarkedSent == {m \in Messages : \E k \in Workers : mark[k][m] = "SENT"}

(* The cycle's counters agree with the mails of the day, and what it has yet *)
(* to send is recorded as sent nowhere.                                      *)
CycleCounts(k) ==
  /\ \A m \in todo[k] : status[m] # "SENT" /\ mark[k][m] # "SENT"
  /\ pc[k] = "send" => /\ status[cur[k]] # "SENT" /\ mark[k][cur[k]] # "SENT"
                       /\ cur[k] \notin todo[k]
                       /\ sent[k] < left[k]
  /\ pc[k] # "idle" => sent[k] <= left[k] /\ outToday + left[k] = Cap + sent[k]
  /\ pc[k] = "idle" => todo[k] = {} /\ mark[k] = NoMarks /\ sent[k] = 0

(* What is recorded as sent stays so. *)
SentStaysSent == \A k \in Workers, m \in Messages :
                   status[m] = "SENT" => mark[k][m] \in {"none", "SENT"}

CapInv == /\ CapHolds
          /\ \A k \in Workers : CycleCounts(k)
          /\ SentStaysSent
          /\ outToday = Cardinality(SentToday \union MarkedSent)

-----------------------------------------------------------------------------
(* The attempts are counted *)

(* A commit writes the failures of the session and leaves no open row        *)
(* without an attempt left, but where another worker will settle it.         *)
LEMMA FlushKeepsTries ==
  ASSUME TypeOK, RetryInv, NEW k \in Workers, FlushSession(k), UNCHANGED tries,
         retry'[k] = {}, \A j \in Workers : j # k => mark'[j] = mark[j] /\ retry'[j] = retry[j]
  PROVE  FailuresAreKept' /\ OpenHasTriesLeft'
<1>a. CountFollows(k)
  BY DEF RetryInv
<1>1. \A m \in Messages :
        /\ attempts'[m] = IF m \in retry[k] THEN copyTries[k][m] ELSE attempts[m]
        /\ status'[m] = IF mark[k][m] = "none" THEN status[m] ELSE mark[k][m]
        /\ mark[k][m] \in {"SENT", "SKIPPED", "FAILED", "none"}
  BY DEF FlushSession, NewStatus, TypeOK, Settled
<1>2. ASSUME NEW m \in Messages, attempts'[m] # tries[m]
      PROVE  \E j \in Workers : m \in retry'[j]
  <2>1. m \notin retry[k] /\ attempts[m] # tries[m]
    BY <1>a, <1>1, <1>2 DEF CountFollows
  <2>2. PICK j \in Workers : m \in retry[j]
    BY <2>1 DEF RetryInv, FailuresAreKept
  <2> QED
    BY <2>1, <2>2
<1>3. ASSUME NEW m \in Messages, status'[m] \in {"DRAFT", "APPROVED"},
             ~(tries[m] < MAX_SEND_ATTEMPTS)
      PROVE  \E j \in Workers : m \in retry'[j] /\ mark'[j][m] # "none"
  <2>1. mark[k][m] = "none" /\ status[m] \in {"DRAFT", "APPROVED"}
    BY <1>1, <1>3
  <2>2. PICK j \in Workers : m \in retry[j] /\ mark[j][m] # "none"
    BY <1>3, <2>1 DEF RetryInv, OpenHasTriesLeft
  <2> QED
    BY <2>1, <2>2
<1>4. FailuresAreKept'
  BY <1>2 DEF FailuresAreKept
<1>5. OpenHasTriesLeft'
  BY <1>3 DEF OpenHasTriesLeft
<1> QED
  BY <1>4, <1>5

(* What a session has counted and marked beyond what it had. *)
LEMMA MarksKeepOpen ==
  ASSUME RetryInv, UNCHANGED <<status, tries>>, NEW k \in Workers, retry' = retry,
         \A j \in Workers : j # k => mark'[j] = mark[j],
         \A m \in Messages : mark[k][m] # "none" => mark'[k][m] # "none"
  PROVE  OpenHasTriesLeft'
<1> SUFFICES ASSUME NEW m \in Messages, status[m] \in {"DRAFT", "APPROVED"},
                    ~(tries[m] < MAX_SEND_ATTEMPTS)
             PROVE  \E j \in Workers : m \in retry'[j] /\ mark'[j][m] # "none"
  BY DEF OpenHasTriesLeft
<1>1. PICK j \in Workers : m \in retry[j] /\ mark[j][m] # "none"
  BY DEF RetryInv, OpenHasTriesLeft
<1> QED
  BY <1>1

(* A failed attempt is counted, and the last one settles the message.        *)
LEMMA FailureKeepsTries ==
  ASSUME TypeOK, RetryInv, KeptApart, NEW k \in Workers, pc[k] = "send",
         CountFailure(k, cur[k]), UNCHANGED <<todo, attempts, status>>, pc'[k] = "loop",
         \A j \in Workers : j # k => /\ pc'[j] = pc[j] /\ cur'[j] = cur[j] /\ mark'[j] = mark[j]
                                    /\ retry'[j] = retry[j] /\ copyTries'[j] = copyTries[j],
         mark' \in [Workers -> [Messages -> Settled \union {"none"}]],
         \A m \in Messages : mark[k][m] # "none" => mark'[k][m] # "none",
         copyTries[k][cur[k]] + 1 >= MAX_SEND_ATTEMPTS => mark'[k][cur[k]] # "none"
  PROVE  RetryInv'
<1>a. CountFollows(k) /\ cur[k] \in Messages /\ todo[k] \subseteq Messages
      /\ retry[k] \subseteq Messages /\ MAX_SEND_ATTEMPTS \in Nat
  BY CapAssumption DEF RetryInv, TypeOK
<1>b. tries \in [Messages -> Nat] /\ copyTries[k] \in [Messages -> Nat]
  BY DEF TypeOK
<1>1. /\ tries' = [tries EXCEPT ![cur[k]] = tries[cur[k]] + 1]
      /\ copyTries'[k] = [copyTries[k] EXCEPT ![cur[k]] = copyTries[k][cur[k]] + 1]
      /\ retry'[k] = retry[k] \union {cur[k]}
  BY DEF CountFailure, TypeOK
<1>2. copyTries[k][cur[k]] = tries[cur[k]] /\ tries[cur[k]] < MAX_SEND_ATTEMPTS
      /\ cur[k] \notin todo[k]
  BY <1>a DEF CountFollows, Fresh
<1>3. \A m \in Messages : m # cur[k] => tries'[m] = tries[m] /\ copyTries'[k][m] = copyTries[k][m]
  BY <1>b, <1>1
<1>4. tries'[cur[k]] = tries[cur[k]] + 1 /\ copyTries'[k][cur[k]] = tries[cur[k]] + 1
  BY <1>a, <1>b, <1>1, <1>2
<1>5. RetryCap'
  BY <1>a, <1>b, <1>2, <1>3, <1>4 DEF RetryInv, RetryCap
<1>6. \A m \in todo[k] : m \notin retry'[k] /\ copyTries'[k][m] = tries'[m]
                           /\ tries'[m] < MAX_SEND_ATTEMPTS
  BY <1>a, <1>1, <1>2, <1>3 DEF CountFollows, Fresh
<1>7. \A m \in retry'[k] : copyTries'[k][m] = tries'[m]
  BY <1>a, <1>1, <1>3, <1>4 DEF CountFollows
<1>8. CountFollows(k)'
  BY <1>6, <1>7 DEF CountFollows, Fresh
(* The message is in nobody else's hands. *)
<1>9. ASSUME NEW j \in Workers, j # k
      PROVE  CountFollows(j)'
  <2>1. /\ todo[j] \subseteq Messages /\ retry[j] \subseteq Messages
        /\ pc[j] = "send" => cur[j] \in Messages
    BY DEF TypeOK
  <2>2. /\ cur[k] \notin todo[j] /\ cur[k] \notin retry[j]
        /\ pc[j] = "send" => cur[j] # cur[k]
    BY <1>a, <1>9 DEF KeptApart, Holds
  <2>3. CountFollows(j)
    BY DEF RetryInv
  <2> QED
    BY <1>3, <1>9, <2>1, <2>2, <2>3 DEF CountFollows, Fresh
<1>10. FailuresAreKept'
  <2> SUFFICES ASSUME NEW m \in Messages, attempts[m] # tries'[m]
               PROVE  \E j \in Workers : m \in retry'[j]
    BY DEF FailuresAreKept
  <2>1. CASE m = cur[k]
    BY <1>1, <2>1
  <2>2. CASE m # cur[k]
    <3>1. PICK j \in Workers : m \in retry[j]
      BY <1>3, <2>2 DEF RetryInv, FailuresAreKept
    <3> QED
      BY <1>1, <3>1
  <2> QED
    BY <2>1, <2>2
<1>11. OpenHasTriesLeft'
  <2> SUFFICES ASSUME NEW m \in Messages, status[m] \in {"DRAFT", "APPROVED"},
                      ~(tries'[m] < MAX_SEND_ATTEMPTS)
               PROVE  \E j \in Workers : m \in retry'[j] /\ mark'[j][m] # "none"
    BY DEF OpenHasTriesLeft
  <2>1. CASE m = cur[k]
    <3>1. copyTries[k][cur[k]] + 1 >= MAX_SEND_ATTEMPTS
      BY <1>a, <1>b, <1>2, <1>4, <2>1
    <3> QED
      BY <1>1, <2>1, <3>1
  <2>2. CASE m # cur[k]
    <3>1. PICK j \in Workers : m \in retry[j] /\ mark[j][m] # "none"
      BY <1>3, <2>2 DEF RetryInv, OpenHasTriesLeft
    <3> QED
      BY <1>1, <3>1
  <2> QED
    BY <2>1, <2>2
<1> QED
  BY <1>5, <1>8, <1>9, <1>10, <1>11 DEF RetryInv

(* A row that waits and is in no worker's hands has attempts left, and they  *)
(* are all in the row.                                                       *)
LEMMA SelectedHasTriesLeft ==
  ASSUME TypeOK, RetryInv, Apart, Exclusive, NEW k \in Workers, pc[k] = "idle"
  PROVE  \A m \in Selected : /\ m \in Messages /\ attempts[m] = tries[m]
                              /\ tries[m] < MAX_SEND_ATTEMPTS
<1> SUFFICES ASSUME NEW m \in Selected
             PROVE  /\ m \in Messages /\ attempts[m] = tries[m]
                    /\ tries[m] < MAX_SEND_ATTEMPTS
  OBVIOUS
<1>1. m \in Messages /\ status[m] = "APPROVED" /\ (RowLocks => lock[m] = None)
  BY DEF Selected
<1>2. \A j \in Workers : m \notin retry[j]
  <2> SUFFICES ASSUME NEW j \in Workers, m \in retry[j]
               PROVE  FALSE
    OBVIOUS
  <2>1. CASE SoleWorker
    BY <2>1 DEF SoleWorker, RetryInv, CountFollows
  <2>2. CASE LockedCycles
    BY <1>1, <2>2, NoneAssumption DEF LockedCycles, Apart, HeldIsLocked, Holds
  <2> QED
    BY <2>1, <2>2 DEF Exclusive
<1>3. attempts[m] = tries[m]
  BY <1>1, <1>2 DEF RetryInv, FailuresAreKept
<1>4. tries[m] < MAX_SEND_ATTEMPTS
  BY <1>1, <1>2 DEF RetryInv, OpenHasTriesLeft
<1> QED
  BY <1>1, <1>3, <1>4

(* A worker's step keeps the count. *)
LEMMA WorkKeepsTries ==
  ASSUME Exclusive, "crash" \notin Outcomes, TypeOK, Apart, ListingIsNew, RetryInv,
         NEW k \in Workers, Work(k)
  PROVE  RetryInv'
<1> USE DEF db, session, mail
<1>a. CountFollows(k) /\ todo[k] \subseteq Messages /\ (pc[k] = "send" => cur[k] \in Messages)
  BY DEF RetryInv, TypeOK
<1>b. \A j \in Workers : j # k => /\ pc'[j] = pc[j] /\ cur'[j] = cur[j] /\ todo'[j] = todo[j]
                                  /\ mark'[j] = mark[j] /\ retry'[j] = retry[j]
                                  /\ copyTries'[j] = copyTries[j]
  BY OthersRest
<1>c. ASSUME UNCHANGED tries, NEW j \in Workers, j # k
      PROVE  CountFollows(j)'
  BY <1>b, <1>c DEF RetryInv, CountFollows, Fresh
<1>1. ASSUME Begin(k) PROVE RetryInv'
  <2>1. /\ UNCHANGED <<status, attempts, mark, retry, tries>>
        /\ pc[k] = "idle" /\ pc'[k] = "loop" /\ todo'[k] = Selected
        /\ \A m \in Selected : copyTries'[k][m] = attempts[m]
    BY <1>1 DEF Begin, Selected, TypeOK
  <2>2. mark[k] = NoMarks /\ retry[k] = {}
    BY <1>a, <2>1 DEF CountFollows
  <2>3. \A m \in Selected : attempts[m] = tries[m] /\ tries[m] < MAX_SEND_ATTEMPTS
    BY <2>1, SelectedHasTriesLeft
  <2>4. CountFollows(k)'
    BY <2>1, <2>2, <2>3 DEF CountFollows, Fresh
  <2> QED
    BY <1>c, <2>1, <2>4 DEF RetryInv, RetryCap, FailuresAreKept, OpenHasTriesLeft
<1>2. ASSUME NEW n \in Messages, SkipMessage(k, n) PROVE RetryInv'
  <2>1. /\ UNCHANGED <<status, attempts, retry, copyTries, tries, pc>>
        /\ pc[k] = "loop" /\ todo'[k] = todo[k] \ {n}
        /\ \A m \in Messages : mark'[k][m] = IF m = n THEN "SKIPPED" ELSE mark[k][m]
    BY <1>2 DEF SkipMessage, NextUp, TypeOK
  <2>2. CountFollows(k)'
    BY <1>a, <2>1 DEF CountFollows, Fresh
  <2>3. OpenHasTriesLeft'
    BY <1>b, <2>1, MarksKeepOpen
  <2> QED
    BY <1>c, <2>1, <2>2, <2>3 DEF RetryInv, RetryCap, FailuresAreKept
<1>3. ASSUME NEW n \in Messages, CapReached(k, n) \/ PickMessage(k, n) PROVE RetryInv'
  <2>1. /\ UNCHANGED <<status, attempts, retry, copyTries, tries, mark>>
        /\ \/ pc'[k] = "loop" /\ todo'[k] = {}
           \/ pc'[k] = "send" /\ n \in todo[k] /\ cur'[k] = n /\ todo'[k] = todo[k] \ {n}
    BY <1>3 DEF CapReached, PickMessage, NextUp, TypeOK
  <2>2. CountFollows(k)'
    BY <1>a, <2>1 DEF CountFollows, Fresh
  <2> QED
    BY <1>c, <2>1, <2>2 DEF RetryInv, RetryCap, FailuresAreKept, OpenHasTriesLeft
<1>4. ASSUME TokenRefreshed(k) \/ TokenRevoked(k) \/ Finish(k) PROVE RetryInv'
  <2>1. FlushSession(k) /\ UNCHANGED tries /\ retry'[k] = {} /\ mark'[k] = NoMarks
    BY <1>4 DEF TokenRefreshed, TokenRevoked, Finish, EndCycle, CleanSession, TypeOK
  <2>2. FailuresAreKept' /\ OpenHasTriesLeft'
    BY <1>b, <2>1, FlushKeepsTries
  <2>3. \/ pc'[k] = "idle" /\ todo'[k] = {}
        \/ pc[k] = "send" /\ UNCHANGED <<pc, todo, cur, copyTries>>
    BY <1>4 DEF TokenRefreshed, TokenRevoked, Finish, EndCycle, TypeOK
  <2>4. CountFollows(k)'
    BY <1>a, <2>1, <2>3 DEF CountFollows, Fresh
  <2> QED
    BY <1>c, <2>1, <2>2, <2>4 DEF RetryInv, RetryCap
<1>5. ASSUME Delivered(k) PROVE RetryInv'
  <2>1. /\ UNCHANGED <<status, attempts, retry, copyTries, tries, todo>>
        /\ pc[k] = "send" /\ pc'[k] = "loop"
        /\ mark' = [mark EXCEPT ![k][cur[k]] = "SENT"]
    BY <1>5 DEF Delivered, Continue, TypeOK
  <2>2. \A m \in Messages : mark[k][m] # "none" => mark'[k][m] # "none"
    BY <1>a, <2>1 DEF TypeOK
  <2>3. CountFollows(k)'
    BY <1>a, <2>1 DEF CountFollows, Fresh
  <2>4. OpenHasTriesLeft'
    BY <1>b, <2>1, <2>2, MarksKeepOpen
  <2> QED
    BY <1>c, <2>1, <2>3, <2>4 DEF RetryInv, RetryCap, FailuresAreKept
<1>6. ASSUME SendFails(k) \/ SendLost(k) PROVE RetryInv'
  <2>1. /\ pc[k] = "send" /\ CountFailure(k, cur[k]) /\ GiveUpAfterMax(k, cur[k])
        /\ UNCHANGED <<todo, attempts, status>> /\ pc'[k] = "loop"
    BY <1>6 DEF SendFails, SendLost, Continue, TypeOK
  <2>2. mark' \in [Workers -> [Messages -> Settled \union {"none"}]]
    BY <1>a, <2>1, GiveUpTyping
  <2>3. \A m \in Messages : mark[k][m] # "none" => mark'[k][m] # "none"
    BY <1>a, <2>1 DEF GiveUpAfterMax, TypeOK
  <2>4. copyTries[k][cur[k]] + 1 >= MAX_SEND_ATTEMPTS => mark'[k][cur[k]] # "none"
    BY <1>a, <2>1 DEF GiveUpAfterMax, TypeOK
  <2> QED
    BY <1>b, <2>1, <2>2, <2>3, <2>4, FailureKeepsTries DEF Apart
<1>7. ASSUME HardBounce(k) PROVE RetryInv'
  <2>1. /\ pc[k] = "send" /\ CountFailure(k, cur[k])
        /\ UNCHANGED <<todo, attempts, status>> /\ pc'[k] = "loop"
        /\ mark' = [mark EXCEPT ![k] = [n \in Messages |->
             CASE n = cur[k]                    -> "FAILED"
               [] n \in Retirable(k, cur[k])    -> "SKIPPED"
               [] OTHER                         -> mark[k][n]]]
    BY <1>7 DEF HardBounce, Continue, TypeOK
  <2>2. mark' \in [Workers -> [Messages -> Settled \union {"none"}]]
    BY <2>1 DEF TypeOK, Settled
  <2>3. /\ \A m \in Messages : mark[k][m] # "none" => mark'[k][m] # "none"
        /\ mark'[k][cur[k]] # "none"
    BY <1>a, <2>1 DEF TypeOK
  <2> QED
    BY <1>b, <2>1, <2>2, <2>3, FailureKeepsTries DEF Apart
<1>8. ~Abort(k)
  BY DEF Abort, Collides, ListingIsNew
<1> QED
  BY <1>1, <1>2, <1>3, <1>4, <1>5, <1>6, <1>7, <1>8 DEF Work

(* A send that errors is tried MAX_SEND_ATTEMPTS times at most, although the *)
(* counts of a cycle are written by its commits alone and replies change the *)
(* rows in between.  Lost answers count as errors.  A crash is excluded: it  *)
(* forgets the attempts of the cycle it cuts short; so does a session that   *)
(* is refused for an address listed twice (NoCollision).                     *)
THEOREM RetriesAreCapped ==
  ASSUME Exclusive, SoleHandler, "crash" \notin Outcomes, NoCollision
  PROVE  Spec => []RetryCap
<1>1. Init => RetryInv
  <2> SUFFICES ASSUME Init
               PROVE  RetryInv
    OBVIOUS
  <2>1. RetryCap
    BY CapAssumption DEF Init, NoTries, RetryCap
  <2>2. \A k \in Workers : CountFollows(k)
    BY DEF Init, CountFollows
  <2>3. FailuresAreKept /\ OpenHasTriesLeft
    BY CapAssumption DEF Init, NoTries, FailuresAreKept, OpenHasTriesLeft
  <2> QED
    BY <2>1, <2>2, <2>3 DEF RetryInv
<1>2. TypeOK /\ StageInv /\ Apart /\ ListingIsNew /\ RetryInv /\ [Next]_vars => RetryInv'
  <2> SUFFICES ASSUME TypeOK, StageInv, Apart, ListingIsNew, RetryInv, [Next]_vars
               PROVE  RetryInv'
    OBVIOUS
  <2>1. CASE \E k \in Workers : Work(k)
    BY <2>1, WorkKeepsTries
  <2>2. CASE ~\E k \in Workers : Work(k)
    <3>1. /\ UNCHANGED <<lock, pc, todo, cur, sent, left, mark, copyTries, retry, dead>>
          /\ UNCHANGED <<attempts, delivered, tries>>
      BY <2>2, SessionsRest
    <3>2. OpenHasTriesLeft'
      BY <3>1, ForwardStep DEF Forward, RetryInv, OpenHasTriesLeft
    <3> QED
      BY <3>1, <3>2 DEF RetryInv, RetryCap, CountFollows, Fresh, FailuresAreKept
  <2> QED
    BY <2>1, <2>2
<1>3. RetryInv => RetryCap
  BY DEF RetryInv
<1> QED
  BY Typing, StageAlways, WorkersKeepApart, NothingCollides, <1>1, <1>2, <1>3, PTL DEF Spec

-----------------------------------------------------------------------------
(* The mails of the day are counted *)

(* One worker, no cycle cut short, no answer lost, and no reply that retires *)
(* steps: its commit may write SKIPPED over a row that was marked SENT since *)
(* it was read, and the mail no longer counts against the day.               *)
Uncut == SoleWorker /\ SoleHandler /\ Outcomes \intersect {"crash", "lost"} = {}
         /\ Ops \intersect {"optOut", "handOff"} = {}

(* The mails that count today are finitely many. *)
LEMMA CountedFinite ==
  /\ IsFiniteSet(Messages)
  /\ \A S \in SUBSET Messages : IsFiniteSet(S) /\ Cardinality(S) \in Nat
<1>1. IsFiniteSet(Messages)
  BY SizeAssumption, FS_Interval DEF Messages
<1> QED
  BY <1>1, FS_Subset, FS_CardinalityType

(* The commit of a session moves its mails into the rows. *)
LEMMA FlushKeepsCount ==
  ASSUME SoleWorker, TypeOK, CapInv, NEW k \in Workers, FlushSession(k), CleanSession(k)
  PROVE  /\ SentToday' \union MarkedSent' = SentToday \union MarkedSent
         /\ SentStaysSent'
         /\ \A m \in Messages : status[m] # "SENT" /\ mark[k][m] # "SENT"
              => status'[m] # "SENT"
         /\ mark'[k] = NoMarks
<1>a. Workers = {k}
  BY DEF SoleWorker
<1>1. /\ \A m \in Messages : /\ status'[m] = IF mark[k][m] = "none" THEN status[m]
                                             ELSE mark[k][m]
                             /\ mark'[k][m] = "none"
      /\ today' = today \union {m \in Messages : mark[k][m] = "SENT"}
      /\ today \subseteq Messages
      /\ mark'[k] = NoMarks
  BY DEF FlushSession, NewStatus, CleanSession, NoMarks, TypeOK
<1>2. \A m \in Messages : status[m] = "SENT" => mark[k][m] \in {"none", "SENT"}
  BY DEF CapInv, SentStaysSent
<1>3. MarkedSent = {m \in Messages : mark[k][m] = "SENT"} /\ MarkedSent' = {}
  BY <1>a, <1>1 DEF MarkedSent
<1>4. SentToday' = SentToday \union {m \in Messages : mark[k][m] = "SENT"}
  BY <1>1, <1>2 DEF SentToday
<1>5. SentStaysSent'
  BY <1>a, <1>1 DEF SentStaysSent
<1> QED
  BY <1>1, <1>3, <1>4, <1>5

(* A worker's step keeps the count of the day. *)
LEMMA WorkKeepsCap ==
  ASSUME Uncut, TypeOK, ListingIsNew, CapInv, NEW k \in Workers, Work(k)
  PROVE  CapInv'
<1> USE DEF db, session, mail
<1>a. SoleWorker /\ Workers = {k} /\ CycleCounts(k) /\ todo[k] \subseteq Messages
      /\ (pc[k] = "send" => cur[k] \in Messages)
  BY DEF Uncut, SoleWorker, CapInv, TypeOK
<1>b. /\ outToday \in Nat /\ Cap \in Nat /\ sent[k] \in Nat /\ left[k] \in Int
      /\ outToday <= Cap /\ outToday = Cardinality(SentToday \union MarkedSent)
  BY CapAssumption DEF TypeOK, CapInv, CapHolds
(* Steps that neither send nor commit. *)
<1>c. ASSUME UNCHANGED <<status, today, outToday>>,
             \A m \in Messages : mark'[k][m] # mark[k][m]
                                   => /\ mark[k][m] # "SENT" /\ mark'[k][m] # "SENT"
                                      /\ status[m] # "SENT"
      PROVE  /\ CapHolds' /\ SentStaysSent'
             /\ outToday' = Cardinality(SentToday' \union MarkedSent')
  <2>1. SentToday' = SentToday
    BY <1>c DEF SentToday
  <2>2. MarkedSent' = MarkedSent
    BY <1>a, <1>c DEF MarkedSent
  <2> QED
    BY <1>a, <1>b, <1>c, <2>1, <2>2 DEF CapInv, CapHolds, SentStaysSent
<1>1. ASSUME Begin(k) PROVE CapInv'
  <2>1. /\ UNCHANGED <<status, today, mark, outToday, sent>>
        /\ pc[k] = "idle" /\ pc'[k] = "loop" /\ todo'[k] = Selected
        /\ left'[k] = Remaining /\ Remaining > 0
    BY <1>1 DEF Begin, TypeOK
  <2>2. mark[k] = NoMarks /\ sent[k] = 0
    BY <1>a, <2>1 DEF CycleCounts
  <2>3. MarkedSent = {}
    BY <1>a, <2>2 DEF MarkedSent, NoMarks
  <2>4. Remaining = Cap - outToday
    BY <1>b, <2>3 DEF Remaining
  <2>5. CycleCounts(k)'
    BY <1>b, <2>1, <2>2, <2>4 DEF CycleCounts, Selected, NoMarks
  <2> QED
    BY <1>a, <1>c, <2>1, <2>5 DEF CapInv
<1>2. ASSUME NEW n \in Messages, SkipMessage(k, n) PROVE CapInv'
  <2>1. /\ UNCHANGED <<status, today, outToday>>
        /\ pc'[k] = pc[k] /\ pc[k] = "loop" /\ sent'[k] = sent[k] /\ left'[k] = left[k]
        /\ n \in todo[k] /\ todo'[k] = todo[k] \ {n}
        /\ \A m \in Messages : mark'[k][m] = IF m = n THEN "SKIPPED" ELSE mark[k][m]
    BY <1>2 DEF SkipMessage, NextUp, TypeOK
  <2>2. CycleCounts(k)'
    BY <1>a, <2>1 DEF CycleCounts
  <2>3. status[n] # "SENT" /\ mark[k][n] # "SENT"
    BY <1>a, <2>1 DEF CycleCounts
  <2> QED
    BY <1>a, <1>c, <2>1, <2>2, <2>3 DEF CapInv
<1>3. ASSUME NEW n \in Messages, CapReached(k, n) \/ PickMessage(k, n) PROVE CapInv'
  <2>1. /\ UNCHANGED <<status, today, outToday, mark, sent, left>>
        /\ pc[k] = "loop"
        /\ \/ pc'[k] = "loop" /\ todo'[k] = {}
           \/ /\ pc'[k] = "send" /\ n \in todo[k] /\ cur'[k] = n /\ todo'[k] = todo[k] \ {n}
              /\ sent[k] < left[k]
    BY <1>3 DEF CapReached, PickMessage, NextUp, TypeOK
  <2>2. CycleCounts(k)'
    BY <1>a, <2>1 DEF CycleCounts
  <2> QED
    BY <1>a, <1>c, <2>1, <2>2 DEF CapInv
<1>4. ASSUME TokenRefreshed(k) \/ TokenRevoked(k) \/ Finish(k) PROVE CapInv'
  <2>1. FlushSession(k) /\ CleanSession(k) /\ UNCHANGED outToday
    BY <1>4 DEF TokenRefreshed, TokenRevoked, Finish, EndCycle
  <2>2. \/ pc'[k] = "idle" /\ todo'[k] = {} /\ sent'[k] = 0
        \/ pc[k] = "send" /\ UNCHANGED <<pc, todo, cur, sent, left>>
    BY <1>4 DEF TokenRefreshed, TokenRevoked, Finish, EndCycle, TypeOK
  <2>3. /\ SentToday' \union MarkedSent' = SentToday \union MarkedSent
        /\ SentStaysSent'
        /\ \A m \in Messages : status[m] # "SENT" /\ mark[k][m] # "SENT"
             => status'[m] # "SENT"
        /\ mark'[k] = NoMarks
    BY <1>a, <2>1, FlushKeepsCount
  <2>4. CycleCounts(k)'
    BY <1>a, <2>1, <2>2, <2>3 DEF CycleCounts, NoMarks
  <2> QED
    BY <1>a, <1>b, <2>1, <2>3, <2>4 DEF CapInv, CapHolds
<1>5. ASSUME Delivered(k) PROVE CapInv'
  <2>1. /\ UNCHANGED <<status, today, todo, left>>
        /\ pc[k] = "send" /\ pc'[k] = "loop"
        /\ mark' = [mark EXCEPT ![k][cur[k]] = "SENT"]
        /\ sent'[k] = sent[k] + 1 /\ outToday' = outToday + 1
    BY <1>5 DEF Delivered, MailOut, Continue, TypeOK
  <2>2. \A m \in Messages : mark'[k][m] = IF m = cur[k] THEN "SENT" ELSE mark[k][m]
    BY <1>a, <2>1 DEF TypeOK
  <2>3. /\ status[cur[k]] # "SENT" /\ mark[k][cur[k]] # "SENT" /\ cur[k] \notin todo[k]
        /\ sent[k] < left[k] /\ outToday + left[k] = Cap + sent[k]
    BY <1>a, <2>1 DEF CycleCounts
  <2>4. CycleCounts(k)'
    BY <1>a, <1>b, <2>1, <2>2, <2>3 DEF CycleCounts
  <2>5. SentToday' \union MarkedSent' = (SentToday \union MarkedSent) \union {cur[k]}
    <3>1. SentToday' = SentToday
      BY <2>1 DEF SentToday
    <3>2. MarkedSent' = MarkedSent \union {cur[k]}
      BY <1>a, <2>1, <2>2 DEF MarkedSent
    <3> QED
      BY <3>1, <3>2
  <2>6. cur[k] \notin SentToday \union MarkedSent
    BY <1>a, <2>3 DEF SentToday, MarkedSent
  <2>7. IsFiniteSet(SentToday \union MarkedSent)
    BY CountedFinite DEF SentToday, MarkedSent, TypeOK
  <2>8. Cardinality(SentToday' \union MarkedSent') = outToday + 1
    BY <1>b, <2>5, <2>6, <2>7, FS_AddElement
  <2>9. CapHolds' /\ SentStaysSent'
    BY <1>a, <1>b, <2>1, <2>2, <2>3 DEF CapHolds, CapInv, SentStaysSent
  <2> QED
    BY <1>a, <2>1, <2>4, <2>8, <2>9 DEF CapInv
<1>6. ASSUME SendFails(k) \/ HardBounce(k) PROVE CapInv'
  <2>1. /\ UNCHANGED <<status, today, outToday, todo, left, sent>>
        /\ pc[k] = "send" /\ pc'[k] = "loop"
    BY <1>6 DEF SendFails, HardBounce, Continue, TypeOK
  <2>2. status[cur[k]] # "SENT" /\ mark[k][cur[k]] # "SENT"
    BY <1>a, <2>1 DEF CycleCounts
  <2>3. \A m \in Messages : mark'[k][m] # mark[k][m]
                              => /\ mark[k][m] # "SENT" /\ mark'[k][m] # "SENT"
                                 /\ status[m] # "SENT"
    <3>1. CASE SendFails(k)
      BY <1>a, <2>2, <3>1 DEF SendFails, GiveUpAfterMax, TypeOK
    <3>2. CASE HardBounce(k)
      BY <1>a, <2>2, <3>2 DEF HardBounce, Retirable, TypeOK
    <3> QED
      BY <1>6, <3>1, <3>2
  <2>4. CycleCounts(k)'
    BY <1>a, <2>1, <2>3 DEF CycleCounts
  <2> QED
    BY <1>a, <1>c, <2>1, <2>3, <2>4 DEF CapInv
<1>7. ~SendLost(k) /\ ~Abort(k)
  BY DEF SendLost, Abort, Collides, ListingIsNew, Uncut
<1> QED
  BY <1>1, <1>2, <1>3, <1>4, <1>5, <1>6, <1>7 DEF Work

(* So does everyone else's, for nobody writes over a row marked SENT. *)
LEMMA OthersKeepCap ==
  ASSUME Uncut, TypeOK, StageInv, CapInv, [Next]_vars, ~\E k \in Workers : Work(k)
  PROVE  CapInv'
<1> USE DEF db, session, mail
<1>1. UNCHANGED <<pc, todo, cur, sent, left, mark>>
  BY SessionsRest
<1>2. MarkedSent' = MarkedSent
  BY <1>1 DEF MarkedSent
<1>3. ASSUME UNCHANGED <<today, outToday>>,
             \A m \in Messages : status[m] = "SENT" <=> status'[m] = "SENT"
      PROVE  CapInv'
  <2>1. SentToday' = SentToday
    BY <1>3 DEF SentToday, TypeOK
  <2>2. \A k \in Workers : CycleCounts(k)'
    <3> SUFFICES ASSUME NEW k \in Workers
                 PROVE  CycleCounts(k)'
      OBVIOUS
    <3>1. CycleCounts(k) /\ todo[k] \subseteq Messages /\ (pc[k] = "send" => cur[k] \in Messages)
      BY DEF CapInv, TypeOK
    <3> QED
      BY <1>1, <1>3, <3>1 DEF CycleCounts
  <2> QED
    BY <1>1, <1>2, <1>3, <2>1, <2>2 DEF CapInv, CapHolds, SentStaysSent
<1>4. ASSUME NEW r \in Handlers, Handle(r)
      PROVE  CapInv'
  <2>1. CASE ActivateCommit(r)
    <3>1. UNCHANGED <<today, outToday>>
      BY <2>1 DEF ActivateCommit, Sessions
    <3> QED
      BY <1>3, <2>1, <3>1, ActivateForward
  <2>2. CASE ~ActivateCommit(r)
    <3>1. ~RetireCommit(r)
      BY Request DEF RetireCommit, Uncut
    <3>2. UNCHANGED <<status, today, outToday>>
      BY <1>4, <2>2, <3>1 DEF Handle, Sessions, ActivateRead, ProposeRead, ProposeCommit,
                              TriageRead, TriageRows, PostponeCommit, AbortHandler
    <3> QED
      BY <1>3, <3>2
  <2> QED
    BY <2>1, <2>2
<1>5. ASSUME (\E m \in Messages : Tick(m)) \/ UNCHANGED vars
      PROVE  CapInv'
  <2>1. UNCHANGED <<status, today, outToday>>
    BY <1>5 DEF Tick, Sessions, vars
  <2> QED
    BY <1>3, <2>1
<1>6. ASSUME NewDay
      PROVE  CapInv'
  <2>1. /\ \A k \in Workers : pc[k] = "idle"
        /\ today' = {} /\ outToday' = 0 /\ UNCHANGED status
    BY <1>6 DEF NewDay
  <2>2. \A k \in Workers : mark[k] = NoMarks /\ CycleCounts(k)
    BY <2>1 DEF CapInv, CycleCounts
  <2>3. SentToday' \union MarkedSent' = {}
    BY <1>2, <2>1, <2>2 DEF SentToday, MarkedSent, NoMarks
  <2>4. Cardinality(SentToday' \union MarkedSent') = 0
    BY <2>3, FS_EmptySet
  <2>5. \A k \in Workers : CycleCounts(k)'
    BY <1>1, <2>1, <2>2 DEF CycleCounts
  <2>6. CapHolds' /\ SentStaysSent'
    BY <1>1, <2>1, CapAssumption DEF CapHolds, CapInv, SentStaysSent
  <2> QED
    BY <2>1, <2>4, <2>5, <2>6 DEF CapInv
<1> QED
  BY <1>4, <1>5, <1>6 DEF Next

(* With one worker the cap of the day holds, refreshed tokens, failures,     *)
(* bounces and postponed steps included: the counters of a session, which    *)
(* were set when its cycle began, stay in line with the rows that count.     *)
THEOREM CapIsKept ==
  ASSUME Uncut
  PROVE  Spec => []CapHolds
<1>a. SoleHandler
  BY DEF Uncut
<1>1. Init => CapInv
  <2> SUFFICES ASSUME Init
               PROVE  CapInv
    OBVIOUS
  <2>1. SentToday \union MarkedSent = {} /\ outToday = 0
    BY DEF Init, SentToday, MarkedSent, NoMarks
  <2>2. CapHolds /\ outToday = Cardinality(SentToday \union MarkedSent)
    BY <2>1, CapAssumption, FS_EmptySet DEF CapHolds
  <2>3. (\A k \in Workers : CycleCounts(k)) /\ SentStaysSent
    BY DEF Init, CycleCounts, SentStaysSent, NoMarks
  <2> QED
    BY <2>2, <2>3 DEF CapInv
<1>2. TypeOK /\ StageInv /\ ListingIsNew /\ CapInv /\ [Next]_vars => CapInv'
  BY WorkKeepsCap, OthersKeepCap
<1>3. CapInv => CapHolds
  BY DEF CapInv
<1>4. NoCollision
  BY DEF Uncut, NoCollision
<1> QED
  BY <1>a, <1>4, Typing, StageAlways, NothingCollides, <1>1, <1>2, <1>3, PTL DEF Spec
-----------------------------------------------------------------------------
(* IN TURN.  A mail does not overtake an earlier one of its lead: proofs     *)
(* about the order in which steps fall due and leave, for one handler and    *)
(* one worker, or any number where the database locks no rows (a worker that *)
(* passes over what another has locked may well overtake it).  Cycles may be *)
(* cut short and answers lost.                                               *)
-----------------------------------------------------------------------------

InLine == SoleHandler /\ (SoleWorker \/ ~RowLocks)

(* Approved steps of a lead fall due in order, and none is approved while an *)
(* earlier one is a draft.                                                   *)
DueInTurn ==
  \A m, n \in Messages : Earlier(m, n) /\ status[n] = "APPROVED" =>
    \/ status[m] \in Settled
    \/ status[m] = "APPROVED" /\ (n \in due => m \in due)

(* A worker between two cycles holds no lock. *)
IdleHasNoLock == \A k \in Workers, m \in Messages : pc[k] = "idle" => lock[m] # k

(* A handler approves a whole sequence, and postpones all that is approved.  *)
HandlerInTurn(r) ==
  /\ h[r].pc = "commit" /\ h[r].op = "activate"
       => MessagesOf(h[r].lead) \subseteq h[r].rows
  /\ h[r].pc = "commit" /\ h[r].op = "postpone"
       => \A m \in MessagesOf(h[r].lead) : status[m] = "APPROVED" => m \in h[r].rows

(* The worker has come to the lead of m, skipped m, and will skip what is    *)
(* left of the lead.                                                         *)
Skipping(k, m) ==
  /\ copyLead[k] = LeadOf[m]
  /\ copyState[k] # "SEQUENCE_ACTIVE" \/ LeadOf[m] \in suppressed
  /\ \A t \in todo[k] : m < t

InHand(k, m) == m \in todo[k] \/ (pc[k] = "send" /\ cur[k] = m)

(* Of what comes before a step in a worker's hands, nothing is left out.     *)
WorkerInTurn(k) ==
  /\ \A m \in Messages : \A n \in todo[k] :
       Earlier(m, n) => InHand(k, m) \/ Tried(m) \/ Skipping(k, m)
  /\ pc[k] = "send" => \A m \in Messages : Earlier(m, cur[k]) => Tried(m)
  /\ pc[k] = "send" => cur[k] \notin todo[k]

TurnInv ==
  /\ InTurn /\ DueInTurn /\ IdleHasNoLock
  /\ \A k \in Workers : WorkerInTurn(k)
  /\ \A r \in Handlers : HandlerInTurn(r)


(* A trial stays on record. *)
LEMMA TriedStays ==
  ASSUME TypeOK, StageInv, [Next]_vars, NEW m \in Messages, Tried(m)
  PROVE  Tried(m)'
<1> USE DEF db, session, mail
<1>1. Forward
  BY ForwardStep
<1>2. ASSUME NEW k \in Workers, Work(k)
      PROVE  tries' = tries \/ tries' = [tries EXCEPT ![cur[k]] = @ + 1]
  BY <1>2 DEF Work, Begin, SkipMessage, CapReached, PickMessage, TokenRefreshed, TokenRevoked,
              Delivered, SendLost, SendFails, HardBounce, Finish, Abort, CountFailure
<1>3. ASSUME NEW k \in Workers, Work(k), tries[m] > 0
      PROVE  tries'[m] > 0
  <2>1. tries[m] \in Nat /\ tries \in [Messages -> Nat]
    BY DEF TypeOK
  <2>2. tries'[m] \in {tries[m], tries[m] + 1}
    BY <1>2, <1>3, <2>1
  <2> QED
    BY <1>3, <2>1, <2>2
<1>4. tries[m] > 0 => tries'[m] > 0
  BY <1>3, SessionsRest
<1>5. delivered[m] > 0 => delivered'[m] > 0
  <2>1. delivered'[m] \in Nat
    BY TypingStep DEF TypeOK
  <2> QED
    BY <2>1, DeliveredGrows
<1>6. status[m] \in Settled => status'[m] \in Settled
  BY <1>1 DEF Forward
<1> QED
  BY <1>4, <1>5, <1>6 DEF Tried

(* But for an activation, a step of the system settles rows or leaves them. *)
LEMMA OnlySettled ==
  ASSUME TypeOK, StageInv, [Next]_vars, ~\E r \in Handlers : ActivateCommit(r)
  PROVE  \A m \in Messages : status'[m] \in {status[m]} \union Settled
<1>1. ASSUME NEW k \in Workers, TokenRefreshed(k) \/ TokenRevoked(k) \/ Finish(k)
      PROVE  \A m \in Messages : status'[m] \in {status[m]} \union Settled
  <2>1. FlushSession(k) /\ SessionFollows(k)
    BY <1>1 DEF TokenRefreshed, TokenRevoked, Finish, StageInv
  <2> QED
    BY <2>1, FlushForward
<1>2. ASSUME NEW r \in Handlers, RetireCommit(r)
      PROVE  \A m \in Messages : status'[m] \in {status[m]} \union Settled
  BY <1>2, RetireForward DEF Settled
<1>3. ASSUME NEW r \in Handlers, ProposeCommit(r)
      PROVE  \A m \in Messages : status'[m] \in {status[m]} \union Settled
  BY <1>3, ProposeForward
<1> QED
  BY <1>1, <1>2, <1>3, QuietSteps

(* What falls due, falls due by an activation, a postponement or the clock. *)
LEMMA DueRests ==
  ASSUME [Next]_vars,
         ~\E r \in Handlers : ActivateCommit(r) \/ PostponeCommit(r),
         ~\E m \in Messages : Tick(m)
  PROVE  due' = due
<1> USE DEF db, session, mail
<1>1. ASSUME NEW k \in Workers, Work(k)
      PROVE  due' = due
  BY <1>1 DEF Work, Begin, SkipMessage, CapReached, PickMessage, Delivered, SendLost,
              SendFails, HardBounce, Abort, TokenRefreshed, TokenRevoked, Finish, FlushSession
<1>2. ASSUME NEW r \in Handlers, Handle(r)
      PROVE  due' = due
  BY <1>2 DEF Handle, ActivateRead, ProposeRead, ProposeCommit, TriageRead, TriageRows,
              RetireCommit, AbortHandler
<1>3. ASSUME NewDay \/ UNCHANGED vars
      PROVE  due' = due
  BY <1>3 DEF NewDay, vars
<1> QED
  BY <1>1, <1>2, <1>3 DEF Next

(* The steps of a lead fall due in order. *)
LEMMA DueStep ==
  ASSUME TypeOK, StageInv, DueInTurn, \A r \in Handlers : HandlerInTurn(r), [Next]_vars
  PROVE  DueInTurn'
<1> SUFFICES ASSUME NEW m \in Messages, NEW n \in Messages, Earlier(m, n),
                    status'[n] = "APPROVED"
             PROVE  status'[m] \in Settled
                      \/ (status'[m] = "APPROVED" /\ (n \in due' => m \in due'))
  BY DEF DueInTurn, Earlier
<1>a. m < n /\ LeadOf[m] = LeadOf[n] /\ ~(n <= m)
  BY MessageFacts DEF Earlier
<1>1. ASSUME NEW r \in Handlers, ActivateCommit(r)
      PROVE  (status'[m] = "APPROVED" /\ n \notin due')
             \/ (status'[m] = status[m] /\ status'[n] = status[n]
                 /\ (m \in due' <=> m \in due) /\ (n \in due' <=> n \in due))
  <2>1. /\ \A i \in h[r].rows : i \in Messages /\ LeadOf[i] = h[r].lead
        /\ \A i \in Messages : status'[i] = IF i \in h[r].rows THEN "APPROVED" ELSE status[i]
    BY <1>1, ActivateForward
  <2>2. MessagesOf(h[r].lead) \subseteq h[r].rows
    BY <1>1 DEF ActivateCommit, HandlerInTurn
  <2>3. due' = (due \ h[r].rows) \union {i \in h[r].rows : First(i)}
    BY <1>1 DEF ActivateCommit
  <2>4. ~First(n)
    BY <1>a DEF First, MessagesOf
  <2>5. CASE n \in h[r].rows
    <3>1. m \in h[r].rows
      BY <1>a, <2>1, <2>2, <2>5 DEF MessagesOf
    <3> QED
      BY <2>1, <2>3, <2>4, <2>5, <3>1
  <2>6. CASE n \notin h[r].rows
    <3>1. m \notin h[r].rows
      BY <1>a, <2>1, <2>2, <2>6 DEF MessagesOf
    <3> QED
      BY <2>1, <2>3, <2>6, <3>1
  <2> QED
    BY <2>5, <2>6
<1>2. CASE \E r \in Handlers : ActivateCommit(r)
  BY <1>1, <1>2 DEF DueInTurn
<1>3. CASE ~\E r \in Handlers : ActivateCommit(r)
  <2>1. /\ status'[m] \in {status[m]} \union Settled
        /\ status[n] = "APPROVED"
    BY <1>3, OnlySettled DEF Settled
  <2>2. \/ status[m] \in Settled
        \/ status[m] = "APPROVED" /\ (n \in due => m \in due)
    BY <2>1 DEF DueInTurn
  <2>3. CASE status[m] \in Settled
    BY <2>1, <2>3
  <2>4. CASE status[m] = "APPROVED"
    <3>1. ASSUME NEW r \in Handlers, PostponeCommit(r), n \in due'
          PROVE  m \in due'
      <4>1. h[r].pc = "commit" /\ h[r].op = "postpone"
        BY <3>1 DEF PostponeCommit
      <4>2. PICK i \in 1..(N + 1) : due' = due \ {x \in h[r].rows : i <= x}
        BY <3>1 DEF PostponeCommit
      <4>3. m \in due
        BY <2>2, <2>4, <3>1, <4>2 DEF Settled
      <4>4. CASE m \in h[r].rows
        <5>1. LeadOf[n] = h[r].lead
          BY <1>a, <4>4 DEF StageInv, HandlerFollows
        <5>2. n \in h[r].rows
          BY <2>1, <4>1, <5>1 DEF HandlerInTurn, MessagesOf
        <5>3. ~(i <= n) /\ i \in Int
          BY <3>1, <4>2, <5>2, SizeAssumption
        <5> QED
          BY <1>a, <4>2, <4>3, <5>3, MessageFacts
      <4> QED
        BY <4>2, <4>3, <4>4
    <3>2. ASSUME NEW x \in Messages, Tick(x), n \in due'
          PROVE  m \in due'
      <4>1. /\ due' = due \union {x}
            /\ \A y \in MessagesOf(LeadOf[x]) : y < x /\ status[y] = "APPROVED" => y \in due
        BY <3>2 DEF Tick
      <4>2. CASE x = n
        BY <1>a, <2>4, <4>1, <4>2 DEF MessagesOf
      <4> QED
        BY <2>2, <2>4, <3>2, <4>1, <4>2 DEF Settled
    <3>3. n \in due' => m \in due'
      BY <1>3, <2>2, <2>4, <3>1, <3>2, DueRests DEF Settled
    <3> QED
      BY <2>1, <2>4, <3>3
  <2> QED
    BY <2>2, <2>3, <2>4
<1> QED
  BY <1>2, <1>3

(* A worker gives up its locks as its cycle ends, and others take none for   *)
(* it.                                                                       *)
LEMMA LockStep ==
  ASSUME TypeOK, IdleHasNoLock, [Next]_vars
  PROVE  IdleHasNoLock'
<1> USE DEF db, session, mail
<1> SUFFICES ASSUME NEW k \in Workers, NEW m \in Messages, pc'[k] = "idle"
             PROVE  lock'[m] # k
  BY DEF IdleHasNoLock
<1>a. k # None
  BY NoneAssumption
<1>1. ASSUME NEW j \in Workers, Work(j), j # k
      PROVE  lock'[m] # k
  <2>1. pc[k] = "idle" /\ lock[m] # k
    BY <1>1, OthersRest DEF IdleHasNoLock
  <2>2. lock'[m] \in {lock[m], j, None}
    BY <1>1 DEF Work, Begin, SkipMessage, CapReached, PickMessage, TokenRefreshed, TokenRevoked,
                Delivered, SendLost, SendFails, HardBounce, Finish, Abort, Unlock
  <2> QED
    BY <1>a, <1>1, <2>1, <2>2
<1>2. ASSUME Work(k)
      PROVE  lock'[m] # k
  <2>1. CASE TokenRevoked(k) \/ Finish(k) \/ Abort(k)
    BY <1>a, <2>1 DEF TokenRevoked, Finish, Abort, Unlock
  <2>2. CASE ~(TokenRevoked(k) \/ Finish(k) \/ Abort(k))
    <3>1. pc'[k] # "idle"
      BY <1>2, <2>2 DEF Work, Begin, SkipMessage, CapReached, PickMessage, TokenRefreshed,
         Delivered, SendLost, SendFails, HardBounce, Continue, NextUp, TypeOK
    <3> QED
      BY <3>1
  <2> QED
    BY <2>1, <2>2
<1>3. CASE ~\E j \in Workers : Work(j)
  BY <1>3, SessionsRest DEF IdleHasNoLock
<1> QED
  BY <1>1, <1>2, <1>3

(* What a handler has read covers what its commit is about. *)
LEMMA HandlerStep ==
  ASSUME SoleHandler, TypeOK, StageInv, [Next]_vars, NEW r \in Handlers, HandlerInTurn(r)
  PROVE  HandlerInTurn(r)'
<1>1. ASSUME NEW l \in Leads, ActivateRead(r, l)
      PROVE  HandlerInTurn(r)'
  <2>1. /\ h'[r] = [pc |-> "commit", op |-> "activate", lead |-> l, target |-> None,
                    rows |-> {m \in MessagesOf(l) : status[m] = "DRAFT"}, lists |-> {}]
        /\ ~Started(l)
    BY <1>1 DEF ActivateRead, TypeOK, Started
  <2>2. \A m \in MessagesOf(l) : status[m] = "DRAFT"
    BY <2>1 DEF StageInv, UnstartedIsDraft, MessagesOf
  <2> QED
    BY <2>1, <2>2 DEF HandlerInTurn, MessagesOf
<1>2. ASSUME NEW l \in Leads, NEW op \in Ops, TriageRead(r, l, op)
      PROVE  HandlerInTurn(r)'
  <2>1. h'[r].pc = "rows"
    BY <1>2 DEF TriageRead, TypeOK
  <2> QED
    BY <2>1 DEF HandlerInTurn
<1>3. ASSUME TriageRows(r)
      PROVE  HandlerInTurn(r)'
  <2>1. /\ h[r].pc = "rows" /\ status' = status
        /\ h'[r] = [h[r] EXCEPT !.pc = "commit",
                                !.rows = {m \in MessagesOf(h[r].lead) :
                                            status[m] \in Pending(h[r].op)},
                                !.lists = IF h[r].op = "optOut" THEN {h[r].lead} \ suppressed
                                         ELSE {}]
    BY <1>3 DEF TriageRows, TypeOK, db
  <2>2. h[r] \in [pc : {"rows", "commit"}, op : Ops, lead : Leads,
                  target : LeadState \union {None}, rows : SUBSET Messages, lists : SUBSET Leads]
    BY <2>1, Request
  <2>3. /\ h'[r].op = h[r].op /\ h'[r].lead = h[r].lead
        /\ h'[r].rows = {m \in MessagesOf(h[r].lead) : status[m] \in Pending(h[r].op)}
    BY <2>1, <2>2
  <2>4. h[r].op # "activate"
    BY <2>1 DEF StageInv, HandlerFollows
  <2> QED
    BY <2>1, <2>3, <2>4 DEF HandlerInTurn, MessagesOf, Pending
<1>4. ASSUME \/ ActivateCommit(r) \/ ProposeCommit(r) \/ RetireCommit(r)
             \/ PostponeCommit(r) \/ AbortHandler(r)
      PROVE  HandlerInTurn(r)'
  <2>1. h'[r] = IdleHandler
    BY <1>4 DEF ActivateCommit, ProposeCommit, RetireCommit, PostponeCommit, AbortHandler,
                TypeOK
  <2> QED
    BY <2>1 DEF HandlerInTurn, IdleHandler
<1>5. ASSUME ~Handle(r)
      PROVE  HandlerInTurn(r)'
  <2>1. h'[r] = h[r]
    BY <1>5, HandlerRests
  <2>2. ~\E q \in Handlers : ActivateCommit(q)
    BY <1>5 DEF SoleHandler, Handle
  <2>3. \A m \in Messages : status'[m] = "APPROVED" => status[m] = "APPROVED"
    BY <2>2, OnlySettled DEF Settled
  <2> QED
    BY <2>1, <2>3 DEF HandlerInTurn, MessagesOf
<1>6. ASSUME NEW l \in Leads, ProposeRead(r, l)
      PROVE  HandlerInTurn(r)'
  <2>1. h'[r].op = "propose"
    BY <1>6 DEF ProposeRead, TypeOK
  <2> QED
    BY <2>1 DEF HandlerInTurn
<1> QED
  BY <1>1, <1>2, <1>3, <1>4, <1>5, <1>6 DEF Handle

(* A cycle that begins leaves out no step that is approved, due and earlier  *)
(* than one it selects.                                                      *)
LEMMA BeginInTurn ==
  ASSUME InLine, TypeOK, DueInTurn, IdleHasNoLock, NEW k \in Workers, pc[k] = "idle"
  PROVE  \A n \in Selected : \A m \in Messages :
           Earlier(m, n) => m \in Selected \/ status[m] \in Settled
<1> SUFFICES ASSUME NEW n \in Selected, NEW m \in Messages, Earlier(m, n),
                    status[m] \notin Settled
             PROVE  m \in Selected
  OBVIOUS
<1>1. n \in Messages /\ status[n] = "APPROVED" /\ n \in due
  BY DEF Selected
<1>2. status[m] = "APPROVED" /\ m \in due
  BY <1>1 DEF DueInTurn
<1>3. RowLocks => lock[m] = None
  BY DEF InLine, SoleWorker, IdleHasNoLock, TypeOK
<1> QED
  BY <1>2, <1>3 DEF Selected

(* Where a worker skips a lead, what comes next is of the same lead, and is  *)
(* skipped as well.                                                          *)
LEMMA SkippingGoesOn ==
  ASSUME TypeOK, NEW k \in Workers, NEW m \in Messages, NEW n \in todo[k], Earlier(m, n),
         Skipping(k, m), NEW o \in Messages, NextUp(k, o)
  PROVE  LeadOf[o] = LeadOf[m] /\ ~Eligible(k, o) /\ Seen(k, LeadOf[o]) = copyState[k]
<1>1. n \in Messages /\ m < n /\ LeadOf[m] = LeadOf[n]
  BY DEF TypeOK, Earlier
<1>2. o \in todo[k] /\ o <= n /\ m < o
  BY DEF NextUp, Skipping
<1>3. LeadOf[o] = LeadOf[m]
  BY <1>1, <1>2, OrderAssumption, MessageFacts
<1> QED
  BY <1>3 DEF Skipping, Eligible, Seen

(* A worker that takes no further step in hand, and lays none aside but when *)
(* it has tried to send it, leaves none out.                                 *)
LEMMA TurnGoesOn ==
  ASSUME TypeOK, NEW k \in Workers, WorkerInTurn(k),
         \A m \in Messages : Tried(m) => Tried(m)',
         \A m \in Messages : InHand(k, m) => InHand(k, m)' \/ Tried(m)',
         suppressed \subseteq suppressed',
         todo'[k] \subseteq todo[k],
         pc'[k] = "send" => pc[k] = "send" /\ cur'[k] = cur[k],
         copyLead'[k] = copyLead[k],
         copyState'[k] = copyState[k] \/ copyState'[k] # "SEQUENCE_ACTIVE"
  PROVE  WorkerInTurn(k)'
<1>1. \A m \in Messages : Skipping(k, m) => Skipping(k, m)'
  BY DEF Skipping
<1>2. ASSUME NEW m \in Messages, NEW n \in todo'[k], Earlier(m, n)
      PROVE  InHand(k, m)' \/ Tried(m)' \/ Skipping(k, m)'
  BY <1>1, <1>2 DEF WorkerInTurn
<1>3. ASSUME pc'[k] = "send", NEW m \in Messages, Earlier(m, cur'[k])
      PROVE  Tried(m)'
  BY <1>3 DEF WorkerInTurn
<1>4. pc'[k] = "send" => cur'[k] \notin todo'[k]
  BY DEF WorkerInTurn
<1> QED
  BY <1>2, <1>3, <1>4 DEF WorkerInTurn, Earlier

(* The steps of a worker leave out nothing. *)
LEMMA WorkInTurn ==
  ASSUME InLine, TypeOK, StageInv, TurnInv, NEW k \in Workers, Work(k)
  PROVE  WorkerInTurn(k)'
<1> USE DEF db, session, mail
<1>a. [Next]_vars
  BY DEF Next
<1>b. \A m \in Messages : Tried(m) => Tried(m)'
  BY <1>a, TriedStays
<1>c. suppressed \subseteq suppressed'
  BY <1>a, SuppressedGrows
<1>d. WorkerInTurn(k)
  BY DEF TurnInv
<1>1. CASE Begin(k)
  <2>1. /\ pc[k] = "idle" /\ pc'[k] = "loop" /\ todo'[k] = Selected
        /\ UNCHANGED <<status, delivered, tries>>
    BY <1>1 DEF Begin, TypeOK
  <2>2. \A n \in Selected : \A m \in Messages :
          Earlier(m, n) => m \in Selected \/ status[m] \in Settled
    BY <2>1, BeginInTurn DEF TurnInv
  <2> QED
    BY <2>1, <2>2 DEF WorkerInTurn, InHand, Tried, Earlier
<1>2. ASSUME NEW o \in Messages, SkipMessage(k, o)
      PROVE  WorkerInTurn(k)'
  <2>1. /\ NextUp(k, o) /\ ~Eligible(k, o)
        /\ todo'[k] = todo[k] \ {o} /\ pc'[k] = "loop" /\ pc[k] = "loop"
        /\ copyLead'[k] = LeadOf[o] /\ copyState'[k] = Seen(k, LeadOf[o])
        /\ suppressed' = suppressed
    BY <1>2 DEF SkipMessage, NextUp, LookAt, TypeOK
  <2>2. ASSUME NEW m \in Messages, NEW n \in todo'[k], Earlier(m, n)
        PROVE  InHand(k, m)' \/ Tried(m)' \/ Skipping(k, m)'
    <3>1. n \in todo[k] /\ (InHand(k, m) \/ Tried(m) \/ Skipping(k, m))
      BY <1>d, <2>1, <2>2 DEF WorkerInTurn
    <3>2. CASE InHand(k, m) /\ m # o
      BY <2>1, <3>2 DEF InHand
    <3>3. CASE m = o
      <4>1. \A t \in todo'[k] : t \in Int /\ o <= t /\ t # o
        BY <2>1, MessageFacts DEF NextUp, TypeOK
      <4>2. \A t \in todo'[k] : o < t
        BY <4>1, MessageFacts
      <4> QED
        BY <2>1, <3>3, <4>2 DEF Skipping, Eligible
    <3>4. CASE Skipping(k, m)
      <4>1. LeadOf[o] = LeadOf[m] /\ Seen(k, LeadOf[o]) = copyState[k]
        BY <2>1, <2>2, <3>1, <3>4, SkippingGoesOn
      <4> QED
        BY <2>1, <3>4, <4>1 DEF Skipping
    <3> QED
      BY <1>b, <3>1, <3>2, <3>3, <3>4
  <2> QED
    BY <2>1, <2>2 DEF WorkerInTurn, Earlier
<1>3. ASSUME NEW o \in Messages, PickMessage(k, o)
      PROVE  WorkerInTurn(k)'
  <2>1. /\ NextUp(k, o) /\ Eligible(k, o) /\ o \in todo[k] /\ pc[k] = "loop"
        /\ todo'[k] = todo[k] \ {o} /\ pc'[k] = "send" /\ cur'[k] = o
    BY <1>3 DEF PickMessage, NextUp, TypeOK
  <2>2. ASSUME NEW m \in Messages, NEW n \in todo[k], Earlier(m, n)
        PROVE  m \in todo[k] \/ Tried(m)
    <3>1. InHand(k, m) \/ Tried(m) \/ Skipping(k, m)
      BY <1>d, <2>2 DEF WorkerInTurn
    <3>2. ~Skipping(k, m)
      BY <2>1, <2>2, SkippingGoesOn
    <3> QED
      BY <2>1, <3>1, <3>2 DEF InHand
  <2>3. ASSUME NEW m \in Messages, Earlier(m, o)
        PROVE  Tried(m)
    <3>1. m \notin todo[k]
      BY <2>1, <2>3, MessageFacts DEF NextUp, Earlier
    <3> QED
      BY <2>1, <2>2, <2>3, <3>1
  <2>4. ASSUME NEW m \in Messages, NEW n \in todo'[k], Earlier(m, n)
        PROVE  InHand(k, m)' \/ Tried(m)'
    <3>1. m \in todo[k] \/ Tried(m)
      BY <2>1, <2>2, <2>4
    <3> QED
      BY <1>b, <2>1, <3>1 DEF InHand
  <2> QED
    BY <1>b, <2>1, <2>3, <2>4 DEF WorkerInTurn, Earlier
<1>4. CASE (\E o \in Messages : CapReached(k, o)) \/ TokenRevoked(k) \/ Finish(k) \/ Abort(k)
  <2>1. todo'[k] = {} /\ pc'[k] # "send"
    BY <1>4 DEF CapReached, NextUp, TokenRevoked, Finish, Abort, EndCycle, TypeOK
  <2> QED
    BY <2>1 DEF WorkerInTurn
<1>5. CASE TokenRefreshed(k)
  <2>1. /\ pc'[k] = pc[k] /\ todo'[k] = todo[k] /\ cur'[k] = cur[k]
        /\ copyLead'[k] = copyLead[k] /\ copyState'[k] = copyState[k]
    BY <1>5 DEF TokenRefreshed
  <2> QED
    BY <1>b, <1>c, <1>d, <2>1, TurnGoesOn DEF InHand
<1>6. CASE Delivered(k) \/ SendLost(k) \/ SendFails(k) \/ HardBounce(k)
  <2>1. /\ pc[k] = "send" /\ pc'[k] = "loop" /\ todo'[k] = todo[k]
        /\ copyLead'[k] = copyLead[k]
        /\ copyState'[k] = copyState[k] \/ copyState'[k] = "NOT_INTERESTED"
    BY <1>6 DEF Delivered, SendLost, SendFails, HardBounce, Continue, TypeOK
  <2>2. cur[k] \in Messages
    BY <2>1 DEF TypeOK
  <2>3. CASE delivered' = [delivered EXCEPT ![cur[k]] = @ + 1]
    <3>1. delivered'[cur[k]] > 0
      BY <2>2, <2>3 DEF TypeOK
    <3> QED
      BY <1>b, <1>c, <1>d, <2>1, <3>1, TurnGoesOn DEF InHand, Tried
  <2>4. CASE tries' = [tries EXCEPT ![cur[k]] = @ + 1]
    <3>1. tries'[cur[k]] > 0
      BY <2>2, <2>4 DEF TypeOK
    <3> QED
      BY <1>b, <1>c, <1>d, <2>1, <3>1, TurnGoesOn DEF InHand, Tried
  <2> QED
    BY <1>6, <2>3, <2>4 DEF Delivered, SendLost, SendFails, HardBounce, MailOut, CountFailure
<1> QED
  BY <1>1, <1>2, <1>3, <1>4, <1>5, <1>6 DEF Work

(* A mail leaves after its predecessors were tried. *)
LEMMA MailInTurn ==
  ASSUME TypeOK, StageInv, TurnInv, [Next]_vars
  PROVE  InTurn'
<1> USE DEF db, session, mail
<1> SUFFICES ASSUME NEW m \in Messages, NEW n \in Messages, Earlier(m, n), delivered'[n] > 0
             PROVE  Tried(m)'
  BY DEF InTurn, Earlier
<1>1. CASE delivered[n] > 0
  BY <1>1, TriedStays DEF TurnInv, InTurn
<1>2. CASE ~(delivered[n] > 0)
  <2>1. PICK k \in Workers : Work(k)
    BY <1>2, SessionsRest
  <2>2. /\ pc[k] = "send"
        /\ delivered' = [delivered EXCEPT ![cur[k]] = @ + 1]
    BY <1>2, <2>1 DEF Work, Begin, SkipMessage, CapReached, PickMessage, TokenRefreshed,
       TokenRevoked, Delivered, SendLost, SendFails, HardBounce, Finish, Abort, MailOut
  <2>3. cur[k] = n
    BY <1>2, <2>2 DEF TypeOK
  <2>4. Tried(m)
    BY <2>2, <2>3 DEF TurnInv, WorkerInTurn
  <2> QED
    BY <2>4, TriedStays
<1> QED
  BY <1>1, <1>2

(* No mail overtakes an earlier one of its lead that nobody has tried to     *)
(* send: for any leads, steps and caps, through failures, lost answers,      *)
(* bounces, aborted cycles and replies at any moment.                        *)
THEOREM StepsLeaveInTurn ==
  ASSUME InLine
  PROVE  Spec => []InTurn
<1>a. SoleHandler
  BY DEF InLine
<1>1. Init => TurnInv
  <2> SUFFICES ASSUME Init
               PROVE  TurnInv
    OBVIOUS
  <2>1. InTurn
    BY DEF Init, InTurn, NoTries
  <2>2. DueInTurn /\ \A k \in Workers : WorkerInTurn(k)
    BY DEF Init, DueInTurn, WorkerInTurn
  <2>3. IdleHasNoLock
    BY NoneAssumption DEF Init, IdleHasNoLock
  <2>4. \A r \in Handlers : HandlerInTurn(r)
    BY DEF Init, HandlerInTurn, IdleHandler
  <2> QED
    BY <2>1, <2>2, <2>3, <2>4 DEF TurnInv
<1>2. TypeOK /\ StageInv /\ TurnInv /\ [Next]_vars => TurnInv'
  <2> SUFFICES ASSUME TypeOK, StageInv, TurnInv, [Next]_vars
               PROVE  TurnInv'
    OBVIOUS
  <2>1. InTurn' /\ DueInTurn' /\ IdleHasNoLock'
    BY MailInTurn, DueStep, LockStep DEF TurnInv
  <2>2. \A r \in Handlers : HandlerInTurn(r)'
    BY <1>a, HandlerStep DEF TurnInv
  <2>3. ASSUME NEW k \in Workers
        PROVE  WorkerInTurn(k)'
    <3>1. CASE Work(k)
      BY <3>1, WorkInTurn
    <3>2. CASE ~Work(k)
      <4>1. /\ pc'[k] = pc[k] /\ todo'[k] = todo[k] /\ cur'[k] = cur[k]
            /\ copyLead'[k] = copyLead[k] /\ copyState'[k] = copyState[k]
        BY <3>2, WorkerRests
      <4>2. \A m \in Messages : Tried(m) => Tried(m)'
        BY TriedStays
      <4>3. WorkerInTurn(k) /\ suppressed \subseteq suppressed'
        BY SuppressedGrows DEF TurnInv
      <4> QED
        BY <4>1, <4>2, <4>3, TurnGoesOn DEF InHand
    <3> QED
      BY <3>1, <3>2
  <2> QED
    BY <2>1, <2>2, <2>3 DEF TurnInv
<1>3. TurnInv => InTurn
  BY DEF TurnInv
<1> QED
  BY <1>a, Typing, StageAlways, <1>1, <1>2, <1>3, PTL DEF Spec
=============================================================================
