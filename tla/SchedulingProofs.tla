-------------------------- MODULE SchedulingProofs --------------------------
(***************************************************************************)
(* Proofs about Scheduling.  Steps 1 to 3 hold for any number of requests  *)
(* in progress at once; step 4 needs requests handled one at a time.       *)
(***************************************************************************)
EXTENDS Scheduling, TLAPS

(* What a thread holds is what its next steps need, and a row that exists   *)
(* names its lead and its time.                                             *)
KnowsItsRows(r) ==
  /\ rq[r].pc \in {"findSlots", "proposeCommit", "selectCommit", "moveCommit"}
       => rq[r].lead \in Leads
  /\ At(r, "selectCommit") => rq[r].slot \in Slots
  /\ At(r, "moveCommit") => \E from \in Life!LeadState : <<from, rq[r].target>> \in Moves
  /\ rq[r].pc \in {"checkFree", "createEvent", "approveCommit", "mailLead",
                   "rejectCommit"}
       => /\ rq[r].booking \in Bookings
          /\ booking[rq[r].booking].status # "NONE"
          /\ booking[rq[r].booking].lead = rq[r].lead
          /\ rq[r].lead \in Leads
  /\ rq[r].pc \in {"checkFree", "createEvent", "approveCommit", "mailLead"}
       => rq[r].booking \in approveCalls
  /\ rq[r].pc \in {"approveCommit", "mailLead"} => events[rq[r].booking] > 0

RequestsKnowTheirRows == \A r \in Requests : KnowsItsRows(r)

RowsAreComplete ==
  \A b \in Bookings : booking[b].status # "NONE"
    => booking[b].lead \in Leads /\ booking[b].slot \in Slots

(* Holds whatever requests run at once. *)
IInv ==
  /\ TypeOK
  /\ RequestsKnowTheirRows
  /\ RowsAreComplete
  /\ ApprovalGuarantee
  /\ ConfirmationsAreReal
  /\ AwaitingLeadHasOpenBooking

(* What a request read is still so: true when no other request can write.   *)
SnapshotIsFresh(r) ==
  /\ rq[r].pc \in {"findSlots", "proposeCommit"}
       => leadState[rq[r].lead] \in Proposable
  /\ At(r, "selectCommit") => leadState[rq[r].lead] = "MEETING_PROPOSED"
  /\ At(r, "moveCommit") => <<leadState[rq[r].lead], rq[r].target>> \in Moves
  /\ rq[r].pc \in {"checkFree", "createEvent", "approveCommit", "rejectCommit"}
       => Decidable(rq[r].booking)
  /\ At(r, "createEvent")
       => \A b \in Bookings : events[b] > 0
            => ~Overlap(booking[rq[r].booking].slot, MeetingLen,
                        booking[b].slot, MeetingLen)

SnapshotsAreFresh == \A r \in Requests : SnapshotIsFresh(r)

(* Holds when requests run one at a time. *)
SerialInv ==
  /\ IInv
  /\ SnapshotsAreFresh
  /\ OpenBookingIsDecidable
  /\ OneEventPerBooking
  /\ NoDoubleBooking

-----------------------------------------------------------------------------
(* Typing *)

LEMMA IdleIsRequest == Idle \in Request
BY DEF Idle, Request, PC

(* The other handlers end in these states. *)
LEMMA MoveTargets ==
  ASSUME NEW from, NEW to, <<from, to>> \in Moves
  PROVE  /\ from \in Proposable \union {"NEW", "SCORED", "MEETING_PROPOSED"}
         /\ to \in {"SCORED", "OUTREACH_PENDING", "SEQUENCE_ACTIVE", "ENGAGED",
                    "NOT_INTERESTED", "UNSUBSCRIBED"}
         /\ Life!MayMove(from, to)
BY DEF Moves, ScoreMoves, GenerateMoves, ActivateMoves, BounceMoves,
       OptOutMoves, EngagedMoves, TRIAGEABLE_STATES, Proposable,
       Life!MayMove, Life!ALLOWED_TRANSITIONS, Life!BypassTargets

(* Only three actions write the bookings table, and all three are commits.  *)
LEMMA BookingWriters ==
  ASSUME [Next]_vars, booking' # booking
  PROVE  \E r \in Requests : SelectCommit(r) \/ ApproveCommit(r) \/ RejectCommit(r)
BY DEF Next, Step, vars, ProposeRead, FindSlots, ProposeCommit, SelectRead,
       ApproveRead, CheckFree, CreateEvent, CreateEventUnanswered, MailLead,
       RejectRead, MoveRead, MoveCommit, CallFails, Crash, RepEditsCalendar

(* Only create_event writes the calendar. *)
LEMMA EventWriters ==
  ASSUME [Next]_vars, events' # events
  PROVE  \E r \in Requests : CreateEvent(r) \/ CreateEventUnanswered(r)
BY DEF Next, Step, vars, ProposeRead, FindSlots, ProposeCommit, SelectRead,
       SelectCommit, ApproveRead, CheckFree, ApproveCommit, MailLead,
       RejectRead, RejectCommit, MoveRead, MoveCommit, CallFails, Crash,
       RepEditsCalendar

(* Only the five commits write the state of a lead. *)
LEMMA LeadWriters ==
  ASSUME [Next]_vars, leadState' # leadState
  PROVE  \E r \in Requests : \/ ProposeCommit(r) \/ SelectCommit(r)
                             \/ ApproveCommit(r) \/ RejectCommit(r)
                             \/ MoveCommit(r)
BY DEF Next, Step, vars, ProposeRead, FindSlots, SelectRead, ApproveRead,
       CheckFree, CreateEvent, CreateEventUnanswered, MailLead, RejectRead,
       MoveRead, CallFails, Crash, RepEditsCalendar

(* A thread's record changes by a step of that thread, or becomes idle.     *)
LEMMA OwnSteps ==
  ASSUME TypeOK, [Next]_vars, NEW q \in Requests, rq'[q] # rq[q]
  PROVE  Step(q) \/ rq'[q] = Idle
<1>1. ASSUME NEW r \in Requests, Step(r), r # q PROVE rq'[q] = rq[q]
  BY <1>1 DEF Step, TypeOK, ProposeRead, FindSlots, ProposeCommit, SelectRead,
       SelectCommit, ApproveRead, CheckFree, CreateEvent, CreateEventUnanswered,
       ApproveCommit, MailLead, RejectRead, RejectCommit, MoveRead, MoveCommit,
       CallFails, Done, Goto
<1>2. ASSUME Crash PROVE rq'[q] = Idle
  BY <1>2 DEF Crash
<1>3. RepEditsCalendar \/ UNCHANGED vars => rq' = rq
  BY DEF RepEditsCalendar, vars
<1> QED
  BY <1>1, <1>2, <1>3 DEF Next

(* Every variable keeps its type in every step. *)
LEMMA TypingStep == TypeOK /\ RequestsKnowTheirRows /\ [Next]_vars => TypeOK'
<1> SUFFICES ASSUME TypeOK, RequestsKnowTheirRows, [Next]_vars PROVE TypeOK'
  OBVIOUS
<1> USE IdleIsRequest
<1>1. ASSUME NEW r \in Requests, NEW l \in Leads, ProposeRead(r, l) PROVE TypeOK'
  BY <1>1 DEF TypeOK, ProposeRead, Idle, Request, PC
<1>2. ASSUME NEW r \in Requests, FindSlots(r) PROVE TypeOK'
  <2>1. PICK S \in SUBSET Slots :
          rq' = [rq EXCEPT ![r].pc = "proposeCommit", ![r].slots = S]
    BY <1>2 DEF FindSlots
  <2>2. [[rq[r] EXCEPT !.pc = "proposeCommit"] EXCEPT !.slots = S] \in Request
    BY DEF TypeOK, Request, PC
  <2>3. rq' \in [Requests -> Request]
    BY <2>1, <2>2 DEF TypeOK
  <2> QED
    BY <1>2, <2>3 DEF TypeOK, FindSlots
<1>3. ASSUME NEW r \in Requests, ProposeCommit(r) PROVE TypeOK'
  BY <1>3 DEF TypeOK, ProposeCommit, Done, Request, At, Life!LeadState,
              RequestsKnowTheirRows, KnowsItsRows
<1>4. ASSUME NEW r \in Requests, NEW l \in Leads, NEW s \in Slots, SelectRead(r, l, s)
      PROVE TypeOK'
  BY <1>4 DEF TypeOK, SelectRead, Idle, Request, PC
<1>5. ASSUME NEW r \in Requests, SelectCommit(r) PROVE TypeOK'
  <2>1. PICK b \in Bookings :
          booking' = [booking EXCEPT ![b] = [status |-> "AWAITING_APPROVAL",
                                             lead   |-> rq[r].lead,
                                             slot   |-> rq[r].slot,
                                             event  |-> FALSE]]
    BY <1>5 DEF SelectCommit
  <2>2. rq[r].lead \in Leads /\ rq[r].slot \in Slots
    BY <1>5 DEF SelectCommit, At, RequestsKnowTheirRows, KnowsItsRows
  <2>3. [status |-> "AWAITING_APPROVAL", lead |-> rq[r].lead,
         slot |-> rq[r].slot, event |-> FALSE] \in BookingRow
    BY <2>2 DEF BookingRow, BookingStatus
  <2>4. booking' \in [Bookings -> BookingRow]
    BY <2>1, <2>3 DEF TypeOK
  <2> QED
    BY <1>5, <2>2, <2>4 DEF TypeOK, SelectCommit, Done, Life!LeadState
<1>6. ASSUME NEW r \in Requests, NEW b \in Bookings, ApproveRead(r, b) PROVE TypeOK'
  BY <1>6 DEF TypeOK, ApproveRead, Idle, Request, PC, BookingRow
<1>7. ASSUME NEW r \in Requests, CheckFree(r) PROVE TypeOK'
  BY <1>7 DEF TypeOK, CheckFree, Goto, Request, PC
<1>8. ASSUME NEW r \in Requests, CreateEvent(r) PROVE TypeOK'
  BY <1>8 DEF TypeOK, CreateEvent, Goto, Request, PC, At,
              RequestsKnowTheirRows, KnowsItsRows
<1>9. ASSUME NEW r \in Requests, CreateEventUnanswered(r) PROVE TypeOK'
  BY <1>9 DEF TypeOK, CreateEventUnanswered, Done, Request, At,
              RequestsKnowTheirRows, KnowsItsRows
<1>10. ASSUME NEW r \in Requests, ApproveCommit(r) PROVE TypeOK'
  <2> DEFINE b == rq[r].booking
  <2>1. b \in Bookings
    BY <1>10 DEF ApproveCommit, At, RequestsKnowTheirRows, KnowsItsRows
  <2>2. [[booking[b] EXCEPT !.status = "APPROVED"] EXCEPT !.event = TRUE] \in BookingRow
    BY ZenonT(60), <2>1 DEF TypeOK, BookingRow, BookingStatus
  <2>3. booking' = [booking EXCEPT ![b].status = "APPROVED", ![b].event = TRUE]
    BY <1>10 DEF ApproveCommit
  <2>4. booking' \in [Bookings -> BookingRow]
    BY <2>1, <2>2, <2>3 DEF TypeOK
  <2>5. rq' \in [Requests -> Request]
    BY <1>10 DEF TypeOK, ApproveCommit, Goto, Request, PC
  <2> QED
    BY <1>10, <2>4, <2>5 DEF TypeOK, ApproveCommit, Life!LeadState
<1>11. ASSUME NEW r \in Requests, MailLead(r) PROVE TypeOK'
  BY <1>11 DEF TypeOK, MailLead, Done, At, RequestsKnowTheirRows, KnowsItsRows
<1>12. ASSUME NEW r \in Requests, NEW b \in Bookings, RejectRead(r, b) PROVE TypeOK'
  BY <1>12 DEF TypeOK, RejectRead, Idle, Request, PC, BookingRow
<1>13. ASSUME NEW r \in Requests, RejectCommit(r) PROVE TypeOK'
  BY ZenonT(60), <1>13 DEF TypeOK, RejectCommit, Done, BookingRow, BookingStatus,
               Life!LeadState
<1>14. ASSUME NEW r \in Requests, NEW l \in Leads, NEW to \in Life!LeadState,
              MoveRead(r, l, to)
       PROVE TypeOK'
  BY <1>14 DEF TypeOK, MoveRead, Idle, Request, PC
<1>15. ASSUME NEW r \in Requests, MoveCommit(r) PROVE TypeOK'
  <2>1. rq[r].target \in Life!LeadState
    BY <1>15, MoveTargets DEF MoveCommit, At, RequestsKnowTheirRows,
       KnowsItsRows, Life!LeadState
  <2> QED
    BY <1>15, <2>1 DEF TypeOK, MoveCommit, Done
<1>16. ASSUME NEW r \in Requests, CallFails(r) PROVE TypeOK'
  BY <1>16 DEF TypeOK, CallFails, Done
<1>17. CASE Crash
  BY <1>17 DEF TypeOK, Crash
<1>18. CASE RepEditsCalendar
  BY <1>18 DEF TypeOK, RepEditsCalendar
<1>19. CASE UNCHANGED vars
  BY <1>19 DEF TypeOK, vars
<1> QED
  BY <1>1, <1>2, <1>3, <1>4, <1>5, <1>6, <1>7, <1>8, <1>9, <1>10, <1>11, <1>12,
     <1>13, <1>14, <1>15, <1>16, <1>17, <1>18, <1>19 DEF Next, Step

-----------------------------------------------------------------------------
(* Any number of requests at once *)

(* A booking row is never taken back or given to another lead or time, and   *)
(* neither is a calendar event or the record of an approve call.             *)
LEMMA RowsOnlyGrow ==
  ASSUME TypeOK, RequestsKnowTheirRows, [Next]_vars, NEW b \in Bookings
  PROVE  /\ booking[b].status # "NONE"
              => /\ booking'[b].status # "NONE"
                 /\ booking'[b].lead = booking[b].lead
                 /\ booking'[b].slot = booking[b].slot
         /\ events[b] \in Nat /\ events'[b] \in Nat /\ events[b] <= events'[b]
         /\ approveCalls \subseteq approveCalls'
<1>1. booking[b].status # "NONE" => /\ booking'[b].status # "NONE"
                                    /\ booking'[b].lead = booking[b].lead
                                    /\ booking'[b].slot = booking[b].slot
  <2>1. ASSUME NEW r \in Requests, SelectCommit(r), booking[b].status # "NONE"
        PROVE booking'[b] = booking[b]
    BY <2>1 DEF SelectCommit, TypeOK
  <2>2. ASSUME NEW r \in Requests, ApproveCommit(r) \/ RejectCommit(r)
        PROVE  /\ booking'[b].status \in {booking[b].status, "APPROVED", "REJECTED"}
               /\ booking'[b].lead = booking[b].lead
               /\ booking'[b].slot = booking[b].slot
    BY <2>2 DEF ApproveCommit, RejectCommit, TypeOK, BookingRow
  <2> QED
    BY <2>1, <2>2, BookingWriters
<1>2. events[b] \in Nat /\ events'[b] \in Nat /\ events[b] <= events'[b]
  <2>1. ASSUME NEW r \in Requests, CreateEvent(r) \/ CreateEventUnanswered(r)
        PROVE  events'[b] \in {events[b], events[b] + 1}
    BY <2>1 DEF CreateEvent, CreateEventUnanswered, TypeOK
  <2>2. events[b] \in Nat
    BY DEF TypeOK
  <2> QED
    BY <2>1, <2>2, EventWriters
<1>3. approveCalls \subseteq approveCalls'
  BY DEF Next, Step, vars, ProposeRead, FindSlots, ProposeCommit, SelectRead,
       SelectCommit, ApproveRead, CheckFree, CreateEvent, CreateEventUnanswered,
       ApproveCommit, MailLead, RejectRead, RejectCommit, MoveRead, MoveCommit,
       CallFails, Crash, RepEditsCalendar
<1> QED
  BY <1>1, <1>2, <1>3

LEMMA RequestsStep == IInv /\ [Next]_vars => RequestsKnowTheirRows'
<1> SUFFICES ASSUME IInv, [Next]_vars, NEW q \in Requests PROVE KnowsItsRows(q)'
  BY DEF RequestsKnowTheirRows
<1> USE DEF IInv
<1>a. KnowsItsRows(q) /\ rq[q] \in Request
  BY DEF RequestsKnowTheirRows, TypeOK
<1>1. CASE rq'[q] = rq[q]
  BY <1>1, <1>a, RowsOnlyGrow DEF KnowsItsRows, At, TypeOK
<1>2. CASE rq'[q] = Idle
  BY <1>2 DEF KnowsItsRows, At, Idle
<1>3. ASSUME NEW l \in Leads, ProposeRead(q, l) PROVE KnowsItsRows(q)'
  BY <1>3 DEF ProposeRead, KnowsItsRows, At, Idle, TypeOK
<1>4. ASSUME FindSlots(q) PROVE KnowsItsRows(q)'
  BY <1>4, <1>a DEF FindSlots, KnowsItsRows, At, TypeOK, Request
<1>5. ASSUME NEW l \in Leads, NEW s \in Slots, SelectRead(q, l, s) PROVE KnowsItsRows(q)'
  BY <1>5 DEF SelectRead, KnowsItsRows, At, Idle, TypeOK
<1>6. ASSUME NEW b \in Bookings, ApproveRead(q, b) \/ RejectRead(q, b)
      PROVE KnowsItsRows(q)'
  <2>1. /\ rq'[q].booking = b /\ rq'[q].lead = booking[b].lead
        /\ rq'[q].pc \in {"checkFree", "rejectCommit"}
        /\ booking[b].status = "AWAITING_APPROVAL" /\ booking' = booking
        /\ rq'[q].pc = "checkFree" => b \in approveCalls'
    <3>1. CASE ApproveRead(q, b)
      BY <3>1 DEF ApproveRead, Decidable, Idle, TypeOK
    <3>2. CASE RejectRead(q, b)
      BY <3>2 DEF RejectRead, Rejectable, Idle, TypeOK
    <3> QED
      BY <1>6, <3>1, <3>2
  <2>2. booking[b].lead \in Leads
    BY <2>1 DEF RowsAreComplete
  <2> QED
    BY <2>1, <2>2 DEF KnowsItsRows, At
<1>7. ASSUME CheckFree(q) \/ ApproveCommit(q) PROVE KnowsItsRows(q)'
  <2>1. /\ rq'[q].lead = rq[q].lead /\ rq'[q].booking = rq[q].booking
        /\ rq'[q].pc \in {"createEvent", "mailLead"}
        /\ rq[q].pc \in {"checkFree", "approveCommit"}
        /\ rq'[q].pc = "mailLead" => rq[q].pc = "approveCommit"
    BY <1>7, <1>a DEF CheckFree, ApproveCommit, Goto, At, TypeOK, Request
  <2> QED
    BY <2>1, <1>a, RowsOnlyGrow DEF KnowsItsRows, At, TypeOK
<1>8. ASSUME CreateEvent(q) PROVE KnowsItsRows(q)'
  <2>1. /\ rq'[q].lead = rq[q].lead /\ rq'[q].booking = rq[q].booking
        /\ rq'[q].pc = "approveCommit" /\ rq[q].pc = "createEvent"
    BY <1>8, <1>a DEF CreateEvent, Goto, At, TypeOK, Request
  <2>2. rq[q].booking \in Bookings /\ events'[rq[q].booking] > 0
    BY <1>8, <2>1, <1>a DEF CreateEvent, KnowsItsRows, TypeOK
  <2> QED
    BY <2>1, <2>2, <1>a, RowsOnlyGrow DEF KnowsItsRows, At, TypeOK
<1>9. ASSUME NEW l \in Leads, NEW to \in Life!LeadState, MoveRead(q, l, to)
      PROVE KnowsItsRows(q)'
  BY <1>9 DEF MoveRead, KnowsItsRows, At, Idle, TypeOK
<1>10. ProposeCommit(q) \/ SelectCommit(q) \/ CreateEventUnanswered(q) \/ MailLead(q)
        \/ RejectCommit(q) \/ MoveCommit(q) \/ CallFails(q) => rq'[q] = Idle
  BY DEF ProposeCommit, SelectCommit, CreateEventUnanswered, MailLead,
         RejectCommit, MoveCommit, CallFails, Done, TypeOK
<1> QED
  BY <1>1, <1>2, <1>3, <1>4, <1>5, <1>6, <1>7, <1>8, <1>9, <1>10, OwnSteps DEF Step

(* What the row written by a select request holds. *)
LEMMA SelectWrites ==
  ASSUME TypeOK, RequestsKnowTheirRows, NEW r \in Requests, SelectCommit(r)
  PROVE  /\ rq[r].lead \in Leads /\ rq[r].slot \in Slots
         /\ \E b \in Bookings :
              /\ booking[b].status = "NONE"
              /\ booking'[b].status = "AWAITING_APPROVAL"
              /\ booking'[b].lead = rq[r].lead
              /\ booking'[b].slot = rq[r].slot
              /\ \A c \in Bookings \ {b} : booking'[c] = booking[c]
         /\ leadState' = [leadState EXCEPT ![rq[r].lead] = "AWAITING_APPROVAL"]
BY DEF SelectCommit, TypeOK, RequestsKnowTheirRows, KnowsItsRows, At

(* What the commit of a decision writes. *)
LEMMA DecisionWrites ==
  ASSUME TypeOK, RequestsKnowTheirRows, NEW r \in Requests,
         ApproveCommit(r) \/ RejectCommit(r)
  PROVE  /\ rq[r].booking \in Bookings
         /\ booking[rq[r].booking].status # "NONE"
         /\ booking[rq[r].booking].lead = rq[r].lead
         /\ rq[r].lead \in Leads
         /\ \A c \in Bookings : /\ booking'[c].lead = booking[c].lead
                                /\ booking'[c].slot = booking[c].slot
         /\ \A c \in Bookings \ {rq[r].booking} : booking'[c] = booking[c]
         /\ ApproveCommit(r) =>
              /\ booking'[rq[r].booking].status = "APPROVED"
              /\ events[rq[r].booking] > 0
              /\ leadState' = [leadState EXCEPT ![rq[r].lead] = "MEETING_CONFIRMED"]
         /\ RejectCommit(r) =>
              /\ booking'[rq[r].booking].status = "REJECTED"
              /\ leadState' = [leadState EXCEPT ![rq[r].lead] = "MEETING_PROPOSED"]
<1>1. CASE ApproveCommit(r)
  BY <1>1 DEF ApproveCommit, RejectCommit, TypeOK, BookingRow, At,
              RequestsKnowTheirRows, KnowsItsRows
<1>2. CASE RejectCommit(r)
  BY <1>2 DEF ApproveCommit, RejectCommit, TypeOK, BookingRow, At,
              RequestsKnowTheirRows, KnowsItsRows
<1> QED
  BY <1>1, <1>2

LEMMA RowsStep == IInv /\ [Next]_vars => RowsAreComplete'
<1> SUFFICES ASSUME IInv, [Next]_vars, NEW b \in Bookings, booking'[b].status # "NONE"
             PROVE  booking'[b].lead \in Leads /\ booking'[b].slot \in Slots
  BY DEF RowsAreComplete
<1> USE DEF IInv
<1>1. CASE booking[b].status # "NONE"
  BY <1>1, RowsOnlyGrow DEF RowsAreComplete
<1>2. CASE booking[b].status = "NONE"
  <2>1. PICK r \in Requests : SelectCommit(r) \/ ApproveCommit(r) \/ RejectCommit(r)
    BY <1>2, BookingWriters
  <2>2. CASE SelectCommit(r)
    BY <2>2, <1>2, SelectWrites
  <2>3. CASE ApproveCommit(r) \/ RejectCommit(r)
    BY <2>3, <1>2, DecisionWrites
  <2> QED
    BY <2>1, <2>2, <2>3
<1> QED
  BY <1>1, <1>2

LEMMA ApprovalStep == IInv /\ [Next]_vars => ApprovalGuarantee'
<1> SUFFICES ASSUME IInv, [Next]_vars, NEW b \in Bookings, events'[b] > 0
             PROVE  b \in approveCalls' /\ booking'[b].status # "NONE"
  BY DEF ApprovalGuarantee
<1> USE DEF IInv
<1>1. CASE events'[b] = events[b]
  BY <1>1, RowsOnlyGrow DEF ApprovalGuarantee
<1>2. CASE events'[b] # events[b]
  <2>1. PICK r \in Requests : CreateEvent(r) \/ CreateEventUnanswered(r)
    BY <1>2, EventWriters
  <2>2. At(r, "createEvent") /\ rq[r].booking = b
    BY <2>1, <1>2 DEF CreateEvent, CreateEventUnanswered, TypeOK
  <2> QED
    BY <2>2, RowsOnlyGrow DEF RequestsKnowTheirRows, KnowsItsRows, At
<1> QED
  BY <1>1, <1>2

LEMMA ConfirmationStep == IInv /\ [Next]_vars => ConfirmationsAreReal'
<1> SUFFICES ASSUME IInv, [Next]_vars PROVE ConfirmationsAreReal'
  OBVIOUS
<1> USE DEF IInv
<1>1. ASSUME NEW b \in Bookings, booking'[b].status = "APPROVED" PROVE events'[b] > 0
  <2>1. CASE booking[b].status = "APPROVED"
    BY <2>1, RowsOnlyGrow DEF ConfirmationsAreReal
  <2>2. CASE booking[b].status # "APPROVED"
    <3>1. PICK r \in Requests : SelectCommit(r) \/ ApproveCommit(r) \/ RejectCommit(r)
      BY <1>1, <2>2, BookingWriters
    <3>2. ~SelectCommit(r)
      BY <1>1, <2>2, SelectWrites
    <3>3. rq[r].booking = b /\ events[rq[r].booking] > 0
      BY <1>1, <2>2, <3>1, <3>2, DecisionWrites
    <3> QED
      BY <3>3, RowsOnlyGrow
  <2> QED
    BY <2>1, <2>2
<1>2. ASSUME NEW b \in Bookings, b \in confirmed' PROVE events'[b] > 0
  <2>1. CASE b \in confirmed
    BY <2>1, RowsOnlyGrow DEF ConfirmationsAreReal
  <2>2. CASE b \notin confirmed
    <3>1. PICK r \in Requests : MailLead(r) /\ rq[r].booking = b
      BY <1>2, <2>2 DEF Next, Step, vars, ProposeRead, FindSlots, ProposeCommit,
         SelectRead, SelectCommit, ApproveRead, CheckFree, CreateEvent,
         CreateEventUnanswered, ApproveCommit, MailLead, RejectRead,
         RejectCommit, MoveRead, MoveCommit, CallFails, Crash, RepEditsCalendar
    <3>2. events[b] > 0
      BY <3>1 DEF MailLead, At, RequestsKnowTheirRows, KnowsItsRows
    <3> QED
      BY <3>2, RowsOnlyGrow
  <2> QED
    BY <2>1, <2>2
<1>3. ASSUME NEW l \in Leads, leadState'[l] = "MEETING_CONFIRMED"
      PROVE  \E b \in Bookings : booking'[b].lead = l /\ events'[b] > 0
  <2>1. CASE leadState[l] = "MEETING_CONFIRMED"
    <3>1. PICK b \in Bookings : booking[b].lead = l /\ events[b] > 0
      BY <2>1 DEF ConfirmationsAreReal
    <3> QED
      BY <3>1, RowsOnlyGrow DEF ApprovalGuarantee
  <2>2. CASE leadState[l] # "MEETING_CONFIRMED"
    <3>1. PICK r \in Requests : \/ ProposeCommit(r) \/ SelectCommit(r)
                                \/ ApproveCommit(r) \/ RejectCommit(r)
                                \/ MoveCommit(r)
      BY <1>3, <2>2, LeadWriters
    <3>2. ~ProposeCommit(r) /\ ~SelectCommit(r) /\ ~RejectCommit(r)
      BY <1>3, <2>2 DEF ProposeCommit, SelectCommit, RejectCommit, TypeOK
    <3>3. ASSUME MoveCommit(r) PROVE FALSE
      <4>1. rq[r].target = "MEETING_CONFIRMED"
        BY <1>3, <2>2, <3>3 DEF MoveCommit, TypeOK
      <4> QED
        BY <4>1, <3>3, MoveTargets DEF MoveCommit, At, RequestsKnowTheirRows, KnowsItsRows
    <3>4. rq[r].lead = l
      BY <1>3, <2>2, <3>1, <3>2, <3>3 DEF ApproveCommit, TypeOK
    <3> QED
      BY <3>1, <3>2, <3>3, <3>4, DecisionWrites, RowsOnlyGrow
  <2> QED
    BY <2>1, <2>2
<1> QED
  BY <1>1, <1>2, <1>3 DEF ConfirmationsAreReal

LEMMA AwaitingStep == IInv /\ [Next]_vars => AwaitingLeadHasOpenBooking'
<1> SUFFICES ASSUME IInv, [Next]_vars, NEW l \in Leads,
                    leadState'[l] = "AWAITING_APPROVAL"
             PROVE  \E b \in Bookings : /\ booking'[b].lead = l
                                       /\ booking'[b].status = "AWAITING_APPROVAL"
  BY DEF AwaitingLeadHasOpenBooking
<1> USE DEF IInv
<1>1. CASE \E r \in Requests : SelectCommit(r) /\ rq[r].lead = l
  BY <1>1, SelectWrites
<1>2. CASE ~\E r \in Requests : SelectCommit(r) /\ rq[r].lead = l
  <2>1. leadState[l] = "AWAITING_APPROVAL"
    <3> SUFFICES ASSUME leadState[l] # "AWAITING_APPROVAL" PROVE FALSE
      OBVIOUS
    <3>1. PICK r \in Requests : \/ ProposeCommit(r) \/ SelectCommit(r)
                                \/ ApproveCommit(r) \/ RejectCommit(r)
                                \/ MoveCommit(r)
      BY LeadWriters
    <3>2. ~ProposeCommit(r) /\ ~ApproveCommit(r) /\ ~RejectCommit(r)
      BY DEF ProposeCommit, ApproveCommit, RejectCommit, TypeOK
    <3>3. ASSUME MoveCommit(r) PROVE FALSE
      <4>1. rq[r].target = "AWAITING_APPROVAL"
        BY <3>3 DEF MoveCommit, TypeOK
      <4> QED
        BY <4>1, <3>3, MoveTargets DEF MoveCommit, At, RequestsKnowTheirRows, KnowsItsRows
    <3>4. ASSUME SelectCommit(r) PROVE rq[r].lead = l
      BY <3>4 DEF SelectCommit, TypeOK
    <3> QED
      BY <1>2, <3>1, <3>2, <3>3, <3>4
  <2>2. PICK b \in Bookings : booking[b].lead = l /\ booking[b].status = "AWAITING_APPROVAL"
    BY <2>1 DEF AwaitingLeadHasOpenBooking
  <2>3. booking'[b].status = "AWAITING_APPROVAL"
    <3> SUFFICES ASSUME booking'[b].status # "AWAITING_APPROVAL" PROVE FALSE
      OBVIOUS
    <3>1. PICK r \in Requests : SelectCommit(r) \/ ApproveCommit(r) \/ RejectCommit(r)
      BY <2>2, BookingWriters
    <3>2. ~SelectCommit(r)
      BY <2>2, SelectWrites
    <3>3. rq[r].booking = b /\ rq[r].lead = l
      BY <2>2, <3>1, <3>2, DecisionWrites
    <3>4. leadState'[l] \in {"MEETING_CONFIRMED", "MEETING_PROPOSED"}
      BY <3>1, <3>2, <3>3, DecisionWrites DEF TypeOK
    <3> QED
      BY <3>4
  <2> QED
    BY <2>2, <2>3, RowsOnlyGrow
<1> QED
  BY <1>1, <1>2

LEMMA InitIInv == Init => IInv
<1> SUFFICES ASSUME Init PROVE IInv
  OBVIOUS
<1>1. TypeOK
  BY IdleIsRequest DEF Init, TypeOK, NoBooking, BookingRow, Life!LeadState
<1>2. RequestsKnowTheirRows
  BY DEF Init, RequestsKnowTheirRows, KnowsItsRows, At, Idle
<1>3. RowsAreComplete /\ ApprovalGuarantee /\ ConfirmationsAreReal
        /\ AwaitingLeadHasOpenBooking
  BY DEF Init, NoBooking, RowsAreComplete, ApprovalGuarantee,
         ConfirmationsAreReal, AwaitingLeadHasOpenBooking
<1> QED
  BY <1>1, <1>2, <1>3 DEF IInv

(* The invariant of every execution, however many requests run at once.      *)
THEOREM Invariance == Spec => []IInv
<1>1. Init => IInv
  BY InitIInv
<1>2. IInv /\ [Next]_vars => IInv'
  <2> SUFFICES ASSUME IInv, [Next]_vars PROVE IInv'
    OBVIOUS
  <2>1. TypeOK'
    BY TypingStep DEF IInv
  <2> QED
    BY <2>1, RequestsStep, RowsStep, ApprovalStep, ConfirmationStep, AwaitingStep
       DEF IInv
<1> QED
  BY <1>1, <1>2, PTL DEF Spec

(* Rows, requests and the calendar keep their types, for any number of       *)
(* concurrent requests.                                                      *)
THEOREM Typing == Spec => []TypeOK
<1>1. IInv => TypeOK
  BY DEF IInv
<1> QED
  BY <1>1, Invariance, PTL

(* No calendar event without an accepted approve call (README.md:55), for    *)
(* any leads, bookings and times and any number of concurrent requests.      *)
THEOREM ApprovalGuaranteed == Spec => []ApprovalGuarantee
<1>1. IInv => ApprovalGuarantee
  BY DEF IInv
<1> QED
  BY <1>1, Invariance, PTL

(* An approved booking, a confirmed lead and a confirmation mail stand for a *)
(* real event, for any number of concurrent requests.                        *)
THEOREM ConfirmationsReal == Spec => []ConfirmationsAreReal
<1>1. IInv => ConfirmationsAreReal
  BY DEF IInv
<1> QED
  BY <1>1, Invariance, PTL

(* A waiting lead has an entry on the rep's pending list, for any number of  *)
(* concurrent requests.                                                      *)
THEOREM AwaitingHasBooking == Spec => []AwaitingLeadHasOpenBooking
<1>1. IInv => AwaitingLeadHasOpenBooking
  BY DEF IInv
<1> QED
  BY <1>1, Invariance, PTL

-----------------------------------------------------------------------------
(* Requests one at a time *)

OneAtATime == \A q, r \in Requests : q = r

(* A slot overlaps itself, so an event blocks a second one for its booking.  *)
LEMMA OverlapSelf == ASSUME NEW s \in Int PROVE Overlap(s, MeetingLen, s, MeetingLen)
BY LengthAssumption DEF Overlap

LEMMA OverlapSym ==
  ASSUME NEW s \in Int, NEW t \in Int, Overlap(s, MeetingLen, t, MeetingLen)
  PROVE  Overlap(t, MeetingLen, s, MeetingLen)
BY DEF Overlap

(* Steps that leave the tables alone leave a snapshot as fresh as it was.    *)
LEMMA FreshnessKept ==
  ASSUME NEW q \in Requests, SnapshotIsFresh(q), rq'[q] = rq[q],
         UNCHANGED <<leadState, booking, events>>
  PROVE  SnapshotIsFresh(q)'
BY DEF SnapshotIsFresh, At, Decidable

LEMMA FreshStep ==
  OneAtATime /\ SerialInv /\ [Next]_vars => SnapshotsAreFresh'
<1> SUFFICES ASSUME OneAtATime, SerialInv, [Next]_vars, NEW q \in Requests
             PROVE  SnapshotIsFresh(q)'
  BY DEF SnapshotsAreFresh
<1> USE DEF SerialInv, IInv
<1>a. SnapshotIsFresh(q) /\ KnowsItsRows(q) /\ rq[q] \in Request
  BY DEF SnapshotsAreFresh, RequestsKnowTheirRows, TypeOK
<1>1. CASE rq'[q] = Idle
  BY <1>1 DEF SnapshotIsFresh, At, Idle
<1>2. CASE RepEditsCalendar \/ UNCHANGED vars
  BY <1>2, <1>a, FreshnessKept DEF RepEditsCalendar, vars
<1>3. ASSUME NEW l \in Leads, ProposeRead(q, l) PROVE SnapshotIsFresh(q)'
  BY <1>3 DEF ProposeRead, SnapshotIsFresh, At, Idle, TypeOK
<1>4. ASSUME FindSlots(q) PROVE SnapshotIsFresh(q)'
  <2>1. /\ rq'[q].pc = "proposeCommit" /\ rq'[q].lead = rq[q].lead
        /\ rq[q].pc = "findSlots" /\ leadState' = leadState
    BY <1>4, <1>a DEF FindSlots, At, TypeOK, Request
  <2> QED
    BY <2>1, <1>a DEF SnapshotIsFresh, At
<1>5. ASSUME NEW l \in Leads, NEW s \in Slots, SelectRead(q, l, s)
      PROVE SnapshotIsFresh(q)'
  BY <1>5 DEF SelectRead, SnapshotIsFresh, At, Idle, TypeOK
<1>6. ASSUME NEW b \in Bookings, ApproveRead(q, b) PROVE SnapshotIsFresh(q)'
  BY <1>6 DEF ApproveRead, Decidable, SnapshotIsFresh, At, Idle, TypeOK
<1>7. ASSUME NEW b \in Bookings, RejectRead(q, b) PROVE SnapshotIsFresh(q)'
  <2>1. /\ rq'[q].pc = "rejectCommit" /\ rq'[q].booking = b
        /\ UNCHANGED <<leadState, booking>>
        /\ booking[b].status = "AWAITING_APPROVAL"
    BY <1>7 DEF RejectRead, Rejectable, Idle, TypeOK
  <2>2. Decidable(b)
    BY <2>1 DEF OpenBookingIsDecidable, Decidable
  <2> QED
    BY <2>1, <2>2 DEF SnapshotIsFresh, At, Decidable
<1>8. ASSUME CheckFree(q) PROVE SnapshotIsFresh(q)'
  <2>1. /\ rq'[q].pc = "createEvent" /\ rq'[q].booking = rq[q].booking
        /\ rq[q].pc = "checkFree" /\ UNCHANGED <<leadState, booking, events>>
        /\ Free(booking[rq[q].booking].slot, MeetingLen)
    BY <1>8, <1>a DEF CheckFree, Goto, At, TypeOK, Request
  <2> QED
    BY <2>1, <1>a DEF SnapshotIsFresh, At, Free, Decidable
<1>9. ASSUME CreateEvent(q) PROVE SnapshotIsFresh(q)'
  <2>1. /\ rq'[q].pc = "approveCommit" /\ rq'[q].booking = rq[q].booking
        /\ rq[q].pc = "createEvent" /\ UNCHANGED <<leadState, booking>>
    BY <1>9, <1>a DEF CreateEvent, Goto, At, TypeOK, Request
  <2> QED
    BY <2>1, <1>a DEF SnapshotIsFresh, At, Decidable
<1>10. ASSUME ApproveCommit(q) PROVE SnapshotIsFresh(q)'
  <2>1. rq'[q].pc = "mailLead"
    BY <1>10, <1>a DEF ApproveCommit, Goto, At, TypeOK, Request
  <2> QED
    BY <2>1 DEF SnapshotIsFresh, At
<1>11. ASSUME NEW l \in Leads, NEW to \in Life!LeadState, MoveRead(q, l, to)
       PROVE SnapshotIsFresh(q)'
  BY <1>11 DEF MoveRead, SnapshotIsFresh, At, Idle, TypeOK
<1>12. ProposeCommit(q) \/ SelectCommit(q) \/ CreateEventUnanswered(q) \/ MailLead(q)
        \/ RejectCommit(q) \/ MoveCommit(q) \/ CallFails(q) \/ Crash => rq'[q] = Idle
  BY DEF ProposeCommit, SelectCommit, CreateEventUnanswered, MailLead,
         RejectCommit, MoveCommit, CallFails, Crash, Done, TypeOK
<1>13. \/ Step(q) \/ Crash \/ RepEditsCalendar \/ UNCHANGED vars
  BY DEF Next, OneAtATime
<1> QED
  BY <1>1, <1>2, <1>3, <1>4, <1>5, <1>6, <1>7, <1>8, <1>9, <1>10, <1>11, <1>12,
     <1>13 DEF Step

(* A commit that takes a lead out of AWAITING_APPROVAL closes its booking.   *)
LEMMA OpenStep ==
  OneAtATime /\ SerialInv /\ [Next]_vars => OpenBookingIsDecidable'
<1> SUFFICES ASSUME OneAtATime, SerialInv, [Next]_vars,
                    NEW b \in Bookings, NEW c \in Bookings,
                    booking'[b].status = "AWAITING_APPROVAL"
             PROVE  /\ leadState'[booking'[b].lead] = "AWAITING_APPROVAL"
                    /\ booking'[c].status = "AWAITING_APPROVAL"
                         /\ booking'[c].lead = booking'[b].lead => b = c
  BY DEF OpenBookingIsDecidable
<1> USE DEF SerialInv, IInv
<1>1. ASSUME NEW r \in Requests, SelectCommit(r)
      PROVE  /\ leadState'[booking'[b].lead] = "AWAITING_APPROVAL"
             /\ booking'[c].status = "AWAITING_APPROVAL"
                  /\ booking'[c].lead = booking'[b].lead => b = c
  <2>1. leadState[rq[r].lead] = "MEETING_PROPOSED"
    BY <1>1 DEF SelectCommit, SnapshotsAreFresh, SnapshotIsFresh
  <2> DEFINE l == rq[r].lead
  <2>2. PICK n \in Bookings :
          /\ booking[n].status = "NONE"
          /\ booking'[n].status = "AWAITING_APPROVAL"
          /\ booking'[n].lead = l
          /\ \A d \in Bookings \ {n} : booking'[d] = booking[d]
    BY <1>1, SelectWrites
  <2>3. l \in Leads /\ leadState' = [leadState EXCEPT ![l] = "AWAITING_APPROVAL"]
    BY <1>1, SelectWrites
  <2>4. \A d \in Bookings \ {n} : booking[d].status = "AWAITING_APPROVAL"
          => /\ booking[d].lead # l
             /\ booking[d].lead \in Leads
             /\ leadState[booking[d].lead] = "AWAITING_APPROVAL"
    BY <2>1 DEF OpenBookingIsDecidable, RowsAreComplete
  <2>5. CASE b = n
    BY <2>2, <2>3, <2>4, <2>5 DEF TypeOK
  <2>6. CASE b # n
    <3>1. booking'[b] = booking[b] /\ booking[b].status = "AWAITING_APPROVAL"
      BY <2>2, <2>6
    <3>2. leadState'[booking'[b].lead] = "AWAITING_APPROVAL"
      BY <3>1, <2>3, <2>4, <2>6 DEF TypeOK
    <3>3. c = n => booking'[c].lead # booking'[b].lead
      BY <3>1, <2>2, <2>4, <2>6
    <3>4. c # n => booking'[c] = booking[c]
      BY <2>2
    <3> QED
      BY <3>1, <3>2, <3>3, <3>4 DEF OpenBookingIsDecidable
  <2> QED
    BY <2>5, <2>6
<1>2. ASSUME NEW r \in Requests, ApproveCommit(r) \/ RejectCommit(r)
      PROVE  /\ leadState'[booking'[b].lead] = "AWAITING_APPROVAL"
             /\ booking'[c].status = "AWAITING_APPROVAL"
                  /\ booking'[c].lead = booking'[b].lead => b = c
  <2> DEFINE d == rq[r].booking
  <2>1. d \in Bookings /\ Decidable(d)
    BY <1>2 DEF ApproveCommit, RejectCommit, SnapshotsAreFresh, SnapshotIsFresh,
       RequestsKnowTheirRows, KnowsItsRows, At
  <2>2. /\ booking'[d].status # "AWAITING_APPROVAL"
        /\ booking[d].lead = rq[r].lead
        /\ \A e \in Bookings : booking'[e].lead = booking[e].lead
        /\ \A e \in Bookings \ {d} : booking'[e] = booking[e]
    BY <1>2, DecisionWrites
  <2>3. b # d /\ booking'[b] = booking[b] /\ booking[b].lead # rq[r].lead
    BY <2>1, <2>2 DEF OpenBookingIsDecidable, Decidable
  <2>4. leadState'[booking'[b].lead] = leadState[booking[b].lead]
    <3>1. booking[b].lead \in Leads
      BY <2>3 DEF RowsAreComplete
    <3>2. PICK st : leadState' = [leadState EXCEPT ![rq[r].lead] = st]
      BY <1>2, DecisionWrites
    <3> QED
      BY <2>3, <3>1, <3>2 DEF TypeOK
  <2> QED
    BY <2>2, <2>3, <2>4 DEF OpenBookingIsDecidable
<1>3. ASSUME NEW r \in Requests, ProposeCommit(r) \/ MoveCommit(r)
      PROVE  /\ leadState'[booking'[b].lead] = "AWAITING_APPROVAL"
             /\ booking'[c].status = "AWAITING_APPROVAL"
                  /\ booking'[c].lead = booking'[b].lead => b = c
  <2>1. rq[r].lead \in Leads /\ leadState[rq[r].lead] # "AWAITING_APPROVAL"
    <3>1. CASE ProposeCommit(r)
      BY <3>1 DEF ProposeCommit, SnapshotsAreFresh, SnapshotIsFresh, At, Proposable,
         RequestsKnowTheirRows, KnowsItsRows
    <3>2. CASE MoveCommit(r)
      <4>1. <<leadState[rq[r].lead], rq[r].target>> \in Moves
        BY <3>2 DEF MoveCommit, SnapshotsAreFresh, SnapshotIsFresh
      <4> QED
        BY <3>2, <4>1, MoveTargets DEF MoveCommit, At, Proposable,
           RequestsKnowTheirRows, KnowsItsRows
    <3> QED
      BY <1>3, <3>1, <3>2
  <2>2. booking' = booking
    BY <1>3 DEF ProposeCommit, MoveCommit
  <2>3. leadState'[booking[b].lead] = leadState[booking[b].lead]
    <3>1. booking[b].lead \in Leads /\ booking[b].lead # rq[r].lead
      BY <2>1, <2>2 DEF OpenBookingIsDecidable, RowsAreComplete
    <3>2. PICK st : leadState' = [leadState EXCEPT ![rq[r].lead] = st]
      BY <1>3 DEF ProposeCommit, MoveCommit
    <3> QED
      BY <3>1, <3>2 DEF TypeOK
  <2> QED
    BY <2>2, <2>3 DEF OpenBookingIsDecidable
<1>4. CASE booking' = booking /\ leadState' = leadState
  BY <1>4 DEF OpenBookingIsDecidable
<1> QED
  BY <1>1, <1>2, <1>3, <1>4, BookingWriters, LeadWriters

(* The event that create_event makes is the first one near its time.         *)
LEMMA EventsStep ==
  OneAtATime /\ SerialInv /\ [Next]_vars => OneEventPerBooking' /\ NoDoubleBooking'
<1> SUFFICES ASSUME OneAtATime, SerialInv, [Next]_vars
             PROVE  OneEventPerBooking' /\ NoDoubleBooking'
  OBVIOUS
<1> USE DEF SerialInv, IInv
<1>a. \A b \in Bookings : events[b] > 0
        => booking[b].slot \in Int /\ booking'[b].slot = booking[b].slot
  BY RowsOnlyGrow, SlotsAssumption DEF ApprovalGuarantee, RowsAreComplete
<1>1. CASE events' = events
  <2>1. OneEventPerBooking'
    BY <1>1 DEF OneEventPerBooking
  <2>2. NoDoubleBooking'
    BY <1>1, <1>a DEF NoDoubleBooking
  <2> QED
    BY <2>1, <2>2
<1>2. ASSUME NEW r \in Requests, CreateEvent(r) \/ CreateEventUnanswered(r)
      PROVE  OneEventPerBooking' /\ NoDoubleBooking'
  <2> DEFINE d == rq[r].booking
  <2>1. /\ At(r, "createEvent") /\ booking' = booking
        /\ events' = [events EXCEPT ![d] = @ + 1]
    BY <1>2 DEF CreateEvent, CreateEventUnanswered
  <2>2. d \in Bookings /\ booking[d].slot \in Int
    BY <2>1, SlotsAssumption DEF At, RequestsKnowTheirRows, KnowsItsRows, RowsAreComplete
  <2>3. \A b \in Bookings : events[b] > 0
          => ~Overlap(booking[d].slot, MeetingLen, booking[b].slot, MeetingLen)
    BY <2>1 DEF SnapshotsAreFresh, SnapshotIsFresh
  <2>4. events[d] = 0
    BY <2>2, <2>3, OverlapSelf DEF TypeOK
  <2>5. OneEventPerBooking'
    BY <2>1, <2>2, <2>4 DEF OneEventPerBooking, TypeOK
  <2>6. \A b \in Bookings \ {d} : events'[b] > 0
          => /\ ~Overlap(booking[d].slot, MeetingLen, booking[b].slot, MeetingLen)
             /\ ~Overlap(booking[b].slot, MeetingLen, booking[d].slot, MeetingLen)
    BY <2>1, <2>2, <2>3, <1>a, OverlapSym DEF TypeOK
  <2>7. \A b \in Bookings \ {d} : events'[b] = events[b]
    BY <2>1 DEF TypeOK
  <2>8. NoDoubleBooking'
    BY <2>1, <2>6, <2>7 DEF NoDoubleBooking
  <2> QED
    BY <2>5, <2>8
<1> QED
  BY <1>1, <1>2, EventWriters

LEMMA SerialInvariance == OneAtATime /\ SerialInv /\ [Next]_vars => SerialInv'
<1> SUFFICES ASSUME OneAtATime, SerialInv, [Next]_vars PROVE SerialInv'
  OBVIOUS
<1>1. TypeOK'
  BY TypingStep DEF SerialInv, IInv
<1> QED
  BY <1>1, RequestsStep, RowsStep, ApprovalStep, ConfirmationStep, AwaitingStep,
     FreshStep, OpenStep, EventsStep DEF SerialInv, IInv

LEMMA InitSerial == Init => SerialInv
<1>1. Init => SnapshotsAreFresh
  BY DEF Init, SnapshotsAreFresh, SnapshotIsFresh, At, Idle
<1>2. Init => OpenBookingIsDecidable /\ OneEventPerBooking /\ NoDoubleBooking
  BY DEF Init, NoBooking, OpenBookingIsDecidable, OneEventPerBooking, NoDoubleBooking
<1> QED
  BY <1>1, <1>2, InitIInv DEF SerialInv

(* The invariant of requests that run one at a time, whatever calls fail and *)
(* wherever the process dies.                                                *)
LEMMA SerialAlways ==
  ASSUME OneAtATime
  PROVE  Spec => []SerialInv
<1>1. SerialInv /\ [Next]_vars => SerialInv'
  BY SerialInvariance
<1> QED
  BY <1>1, InitSerial, PTL DEF Spec

(* When requests run one at a time two events never overlap.                 *)
THEOREM SerialNoDoubleBooking ==
  ASSUME OneAtATime
  PROVE  Spec => []NoDoubleBooking
<1>1. SerialInv => NoDoubleBooking
  BY DEF SerialInv
<1> QED
  BY <1>1, SerialAlways, PTL

(* When requests run one at a time a booking gets one event at most: the     *)
(* retry after a lost answer or a crash finds the event of the first try.    *)
THEOREM SerialOneEvent ==
  ASSUME OneAtATime
  PROVE  Spec => []OneEventPerBooking
<1>1. SerialInv => OneEventPerBooking
  BY DEF SerialInv
<1> QED
  BY <1>1, SerialAlways, PTL

(* When requests run one at a time the pending list has no dead entry.       *)
THEOREM SerialOpenBookings ==
  ASSUME OneAtATime
  PROVE  Spec => []OpenBookingIsDecidable
<1>1. SerialInv /\ [Next]_vars => SerialInv'
  BY SerialInvariance
<1>2. SerialInv => OpenBookingIsDecidable
  BY DEF SerialInv
<1> QED
  BY <1>1, <1>2, InitSerial, PTL DEF Spec

(* One step of the handlers is a step of the lead lifecycle, or none.        *)
LEMMA LifecycleStep ==
  SerialInv /\ [Next]_vars => [Life!Next]_leadState
<1> SUFFICES ASSUME SerialInv, [Next]_vars, leadState' # leadState
             PROVE  \E l \in Leads, to \in Life!LeadState :
                      /\ Life!MayMove(leadState[l], to)
                      /\ leadState' = [leadState EXCEPT ![l] = to]
  BY DEF Life!Next
<1> USE DEF SerialInv, IInv
<1>1. PICK r \in Requests : \/ ProposeCommit(r) \/ SelectCommit(r)
                            \/ ApproveCommit(r) \/ RejectCommit(r)
                            \/ MoveCommit(r)
  BY LeadWriters
<1> DEFINE l == rq[r].lead
<1>2. l \in Leads
  BY <1>1 DEF ProposeCommit, SelectCommit, ApproveCommit, RejectCommit, MoveCommit,
     At, RequestsKnowTheirRows, KnowsItsRows
<1>3. CASE ProposeCommit(r)
  <2>1. leadState[l] \in Proposable
    BY <1>3 DEF ProposeCommit, At, SnapshotsAreFresh, SnapshotIsFresh
  <2>2. Life!MayMove(leadState[l], "MEETING_PROPOSED")
    BY <2>1 DEF Proposable, Life!MayMove, Life!ALLOWED_TRANSITIONS
  <2> QED
    BY <1>2, <1>3, <2>2 DEF ProposeCommit, Life!LeadState
<1>4. CASE SelectCommit(r)
  <2>1. leadState[l] = "MEETING_PROPOSED"
    BY <1>4 DEF SelectCommit, SnapshotsAreFresh, SnapshotIsFresh
  <2>2. Life!MayMove(leadState[l], "AWAITING_APPROVAL")
    BY <2>1 DEF Life!MayMove, Life!ALLOWED_TRANSITIONS
  <2> QED
    BY <1>2, <1>4, <2>2 DEF SelectCommit, Life!LeadState
<1>5. CASE ApproveCommit(r) \/ RejectCommit(r)
  <2>1. leadState[l] = "AWAITING_APPROVAL"
    BY ZenonT(60), <1>5, DecisionWrites DEF ApproveCommit, RejectCommit, At, Decidable,
       SnapshotsAreFresh, SnapshotIsFresh
  <2>2. /\ Life!MayMove(leadState[l], "MEETING_CONFIRMED")
        /\ Life!MayMove(leadState[l], "MEETING_PROPOSED")
    BY <2>1 DEF Life!MayMove, Life!ALLOWED_TRANSITIONS
  <2> QED
    BY <1>2, <1>5, <2>2 DEF ApproveCommit, RejectCommit, Life!LeadState
<1>6. CASE MoveCommit(r)
  <2>1. <<leadState[l], rq[r].target>> \in Moves
    BY <1>6 DEF MoveCommit, SnapshotsAreFresh, SnapshotIsFresh
  <2>2. Life!MayMove(leadState[l], rq[r].target) /\ rq[r].target \in Life!LeadState
    BY <2>1, MoveTargets DEF Life!LeadState
  <2> QED
    BY <1>2, <1>6, <2>2 DEF MoveCommit
<1> QED
  BY <1>1, <1>3, <1>4, <1>5, <1>6

(* When requests run one at a time the handlers implement LeadLifecycle: a   *)
(* lead only moves along the state machine and never leaves a final state.   *)
THEOREM SerialLifecycle ==
  ASSUME OneAtATime
  PROVE  Spec => LifecycleSpec
<1>1. Init => Life!Init
  BY DEF Init, Life!Init
<1>2. SerialInv /\ [Next]_vars => SerialInv'
  BY SerialInvariance
<1> QED
  BY <1>1, <1>2, InitSerial, LifecycleStep, PTL DEF Spec, LifecycleSpec, Life!Spec

(* When requests run one at a time a decision is never taken back: not that  *)
(* of the rep on a booking, and not a lead's terminal state.                 *)
THEOREM SerialDecisionsFinal ==
  ASSUME OneAtATime
  PROVE  Spec => DecisionsAreFinal
<1>1. SerialInv /\ [Next]_vars => SerialInv'
  BY SerialInvariance
<1>2. SerialInv /\ [Next]_vars =>
        [/\ \A b \in Bookings : booking[b].status \in {"APPROVED", "REJECTED"}
             => booking'[b].status = booking[b].status
         /\ \A l \in Leads : leadState[l] \in Life!Terminal
             => leadState'[l] = leadState[l]]_vars
  <2> SUFFICES ASSUME SerialInv, [Next]_vars
               PROVE  /\ \A b \in Bookings : booking[b].status \in {"APPROVED", "REJECTED"}
                           => booking'[b].status = booking[b].status
                      /\ \A l \in Leads : leadState[l] \in Life!Terminal
                           => leadState'[l] = leadState[l]
    OBVIOUS
  <2>1. ASSUME NEW b \in Bookings, booking[b].status \in {"APPROVED", "REJECTED"}
        PROVE  booking'[b].status = booking[b].status
    <3> SUFFICES ASSUME booking'[b].status # booking[b].status PROVE FALSE
      OBVIOUS
    <3>1. PICK r \in Requests : SelectCommit(r) \/ ApproveCommit(r) \/ RejectCommit(r)
      BY BookingWriters
    <3>2. ~SelectCommit(r)
      BY <2>1, SelectWrites DEF SerialInv, IInv
    <3>3. rq[r].booking = b
      BY <3>1, <3>2, DecisionWrites DEF SerialInv, IInv
    <3>4. Decidable(b)
      BY <3>1, <3>2, <3>3 DEF ApproveCommit, RejectCommit, At, SerialInv,
         SnapshotsAreFresh, SnapshotIsFresh
    <3> QED
      BY <2>1, <3>4 DEF Decidable
  <2>2. ASSUME NEW l \in Leads, leadState[l] \in Life!Terminal
        PROVE  leadState'[l] = leadState[l]
    <3>1. [Life!Next]_leadState
      BY LifecycleStep
    <3>2. \A to \in Life!LeadState : ~Life!MayMove(leadState[l], to)
      BY <2>2 DEF Life!Terminal, Life!MayMove, Life!ALLOWED_TRANSITIONS, Life!BypassTargets
    <3> QED
      BY <3>1, <3>2 DEF Life!Next, SerialInv, IInv, TypeOK
  <2> QED
    BY <2>1, <2>2
<1> QED
  BY <1>1, <1>2, InitSerial, PTL DEF Spec, DecisionsAreFinal
=============================================================================
