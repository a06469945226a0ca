----------------------------- MODULE Scheduling -----------------------------
(***************************************************************************)
(* The human-approved meeting workflow: propose_meeting, select_slot,      *)
(* approve_booking and reject_booking of app/services/schedule_manager.py, *)
(* as the requests of app/routers/bookings.py run them, together with the  *)
(* other handlers that write the state of a lead.                          *)
(*                                                                         *)
(* FastAPI runs these synchronous handlers on a pool of threads, each with *)
(* a database session of its own.  A handler reads its rows, works on that *)
(* copy, calls Google, and its commit writes the columns it assigned,      *)
(* whatever the rows hold by then (sessions are created with               *)
(* autoflush=False, expire_on_commit=False; no row is locked).  So every   *)
(* handler is a sequence of steps: one that reads and checks, one for each *)
(* call to the calendar, one that commits.                                 *)
(***************************************************************************)
EXTENDS Integers, FiniteSets

CONSTANTS
  Leads,       \* the leads of one organization
  Bookings,    \* ids of PendingBooking rows (the bound on rows ever created)
  Slots,       \* times a meeting may start at, in some unit of time
  MeetingLen,  \* length of a booked meeting: select_slot's duration_minutes
  Durations,   \* lengths a proposal may ask for: propose's duration_minutes
  RepTimes,    \* times at which the rep may have appointments of her own
  Requests,    \* worker threads: how many requests may be in progress at once
  None         \* no lead, booking, slot or target

ASSUME SlotsAssumption    == Slots \subseteq Int /\ RepTimes \subseteq Int
ASSUME LengthAssumption   == MeetingLen \in Nat \ {0} /\ Durations \subseteq Nat \ {0}
ASSUME NoneAssumption     == None \notin Leads \union Bookings \union Slots

VARIABLES
  leadState,   \* leads.state
  proposed,    \* leads.proposed_slots
  booking,     \* pending_bookings: status, lead_id, slot_start, calendar_event_id
  rq,          \* what each thread has read and where it stands
  repBusy,     \* Google: the rep's own appointments
  events,      \* Google: how many events exist for each booking
  confirmed,   \* mail: bookings whose lead was told "your meeting is confirmed"
  approveCalls \* history: bookings an approve request was accepted for

vars == <<leadState, proposed, booking, rq, repBusy, events, confirmed,
          approveCalls>>

Life == INSTANCE LeadLifecycle WITH Leads <- Leads, leadState <- leadState

-----------------------------------------------------------------------------
(* Data *)

BookingStatus == {"AWAITING_APPROVAL", "APPROVED", "REJECTED"}

NoBooking == [status |-> "NONE", lead |-> None, slot |-> None, event |-> FALSE]

Idle == [pc |-> "idle", lead |-> None, booking |-> None, slots |-> {},
         slot |-> None, target |-> None]

Overlap(s, m, t, n) == s < t + n /\ t < s + m

(* Mutation: only events with the very same start are seen as busy. *)
FreeSameStart(s, m) ==
  /\ s \notin repBusy
  /\ \A b \in Bookings : events[b] > 0 => booking[b].slot # s

(* Nothing on the calendar overlaps the m units of time from s. *)
Free(s, m) ==
  /\ \A t \in repBusy : ~Overlap(s, m, t, MeetingLen)
  /\ \A b \in Bookings : events[b] > 0
                           => ~Overlap(s, m, booking[b].slot, MeetingLen)

At(r, pc) == rq[r].pc = pc
Goto(r, pc) == rq' = [rq EXCEPT ![r].pc = pc]
Done(r) == rq' = [rq EXCEPT ![r] = Idle]

-----------------------------------------------------------------------------
(* propose_meeting *)

Proposable == {"OUTREACH_PENDING", "SEQUENCE_ACTIVE", "ENGAGED"}

ProposeRead(r, l) ==
  /\ At(r, "idle")
  /\ leadState[l] \in Proposable
  /\ rq' = [rq EXCEPT ![r] = [Idle EXCEPT !.pc = "findSlots", !.lead = l]]
  /\ UNCHANGED <<leadState, proposed, booking, repBusy, events, confirmed,
                 approveCalls>>

(* find_available_slots answers with free times; two at least are needed. *)
FindSlots(r) ==
  /\ At(r, "findSlots")
  /\ \E d \in Durations : \E S \in SUBSET {s \in Slots : Free(s, d)} :
       /\ Cardinality(S) \in 2..3
       /\ rq' = [rq EXCEPT ![r].pc = "proposeCommit", ![r].slots = S]
  /\ UNCHANGED <<leadState, proposed, booking, repBusy, events, confirmed,
                 approveCalls>>

ProposeCommit(r) ==
  /\ At(r, "proposeCommit")
  /\ leadState' = [leadState EXCEPT ![rq[r].lead] = "MEETING_PROPOSED"]
  /\ proposed' = [proposed EXCEPT ![rq[r].lead] = rq[r].slots]
  /\ Done(r)
  /\ UNCHANGED <<booking, repBusy, events, confirmed, approveCalls>>

-----------------------------------------------------------------------------
(* select_slot, called by the API and by the reply triage *)

SelectRead(r, l, s) ==
  /\ At(r, "idle")
  /\ leadState[l] = "MEETING_PROPOSED"
  /\ s \in proposed[l]
  /\ rq' = [rq EXCEPT ![r] = [Idle EXCEPT !.pc = "selectCommit", !.lead = l,
                                          !.slot = s]]
  /\ UNCHANGED <<leadState, proposed, booking, repBusy, events, confirmed,
                 approveCalls>>

(* Mutation: the chosen time goes on the calendar before the rep has agreed. *)
SelectCommitPencilsIn(r) ==
  /\ At(r, "selectCommit")
  /\ \E b \in Bookings :
       /\ booking[b].status = "NONE"
       /\ booking' = [booking EXCEPT ![b] = [status |-> "AWAITING_APPROVAL",
                                             lead   |-> rq[r].lead,
                                             slot   |-> rq[r].slot,
                                             event  |-> FALSE]]
       /\ events' = [events EXCEPT ![b] = 1]
  /\ leadState' = [leadState EXCEPT ![rq[r].lead] = "AWAITING_APPROVAL"]
  /\ Done(r)
  /\ UNCHANGED <<proposed, repBusy, confirmed, approveCalls>>

SelectCommit(r) ==
  /\ At(r, "selectCommit")
  /\ \E b \in Bookings :
       /\ booking[b].status = "NONE"
       /\ booking' = [booking EXCEPT ![b] = [status |-> "AWAITING_APPROVAL",
                                             lead   |-> rq[r].lead,
                                             slot   |-> rq[r].slot,
                                             event  |-> FALSE]]
  /\ leadState' = [leadState EXCEPT ![rq[r].lead] = "AWAITING_APPROVAL"]
  /\ Done(r)
  /\ UNCHANGED <<proposed, repBusy, events, confirmed, approveCalls>>

-----------------------------------------------------------------------------
(* approve_booking *)

(* Mutation: only the state of the lead is checked, not the booking's. *)
DecidableByLead(b) == /\ booking[b].status # "NONE"
                      /\ leadState[booking[b].lead] = "AWAITING_APPROVAL"

Decidable(b) == /\ booking[b].status = "AWAITING_APPROVAL"
                /\ leadState[booking[b].lead] = "AWAITING_APPROVAL"

ApproveRead(r, b) ==
  /\ At(r, "idle")
  /\ Decidable(b)
  /\ rq' = [rq EXCEPT ![r] = [Idle EXCEPT !.pc = "checkFree", !.booking = b,
                                          !.lead = booking[b].lead]]
  /\ approveCalls' = approveCalls \union {b}
  /\ UNCHANGED <<leadState, proposed, booking, repBusy, events, confirmed>>

(* Mutation: the slot is not checked again. *)
CheckFreeSkipped(r) ==
  /\ At(r, "checkFree")
  /\ Goto(r, "createEvent")
  /\ UNCHANGED <<leadState, proposed, booking, repBusy, events, confirmed,
                 approveCalls>>

(* Mutation: the decision is committed without the call to create_event. *)
CheckFreeThenCommit(r) ==
  /\ At(r, "checkFree")
  /\ Free(booking[rq[r].booking].slot, MeetingLen)
  /\ Goto(r, "approveCommit")
  /\ UNCHANGED <<leadState, proposed, booking, repBusy, events, confirmed,
                 approveCalls>>

CheckFree(r) ==
  /\ At(r, "checkFree")
  /\ Free(booking[rq[r].booking].slot, MeetingLen)
  /\ Goto(r, "createEvent")
  /\ UNCHANGED <<leadState, proposed, booking, repBusy, events, confirmed,
                 approveCalls>>

CreateEvent(r) ==
  /\ At(r, "createEvent")
  /\ events' = [events EXCEPT ![rq[r].booking] = @ + 1]
  /\ Goto(r, "approveCommit")
  /\ UNCHANGED <<leadState, proposed, booking, repBusy, confirmed, approveCalls>>

(* The request timed out or its answer was lost: Google made the event, the *)
(* handler gets a CalendarError and commits nothing.                         *)
CreateEventUnanswered(r) ==
  /\ At(r, "createEvent")
  /\ events' = [events EXCEPT ![rq[r].booking] = @ + 1]
  /\ Done(r)
  /\ UNCHANGED <<leadState, proposed, booking, repBusy, confirmed, approveCalls>>

ApproveCommit(r) ==
  /\ At(r, "approveCommit")
  /\ booking' = [booking EXCEPT ![rq[r].booking].status = "APPROVED",
                                ![rq[r].booking].event = TRUE]
  /\ leadState' = [leadState EXCEPT ![rq[r].lead] = "MEETING_CONFIRMED"]
  /\ Goto(r, "mailLead")
  /\ UNCHANGED <<proposed, repBusy, events, confirmed, approveCalls>>

MailLead(r) ==
  /\ At(r, "mailLead")
  /\ confirmed' = confirmed \union {rq[r].booking}
  /\ Done(r)
  /\ UNCHANGED <<leadState, proposed, booking, repBusy, events, approveCalls>>

-----------------------------------------------------------------------------
(* reject_booking *)

(* The booking's own status is all it asks; what the transition table says   *)
(* of the lead's state, whichever it is, decides the rest.                   *)
Rejectable(b) ==
  /\ booking[b].status = "AWAITING_APPROVAL"
  /\ "MEETING_PROPOSED" \in Life!ALLOWED_TRANSITIONS[leadState[booking[b].lead]]

RejectRead(r, b) ==
  /\ At(r, "idle")
  /\ Rejectable(b)
  /\ rq' = [rq EXCEPT ![r] = [Idle EXCEPT !.pc = "rejectCommit", !.booking = b,
                                          !.lead = booking[b].lead]]
  /\ UNCHANGED <<leadState, proposed, booking, repBusy, events, confirmed,
                 approveCalls>>

(* Mutation: the lead falls back, the booking stays open. *)
RejectCommitLeadOnly(r) ==
  /\ At(r, "rejectCommit")
  /\ leadState' = [leadState EXCEPT ![rq[r].lead] = "MEETING_PROPOSED"]
  /\ Done(r)
  /\ UNCHANGED <<proposed, booking, repBusy, events, confirmed, approveCalls>>

(* Mutation: the booking is rejected, the lead does not fall back. *)
RejectCommitBookingOnly(r) ==
  /\ At(r, "rejectCommit")
  /\ booking' = [booking EXCEPT ![rq[r].booking].status = "REJECTED"]
  /\ Done(r)
  /\ UNCHANGED <<leadState, proposed, repBusy, events, confirmed, approveCalls>>

RejectCommit(r) ==
  /\ At(r, "rejectCommit")
  /\ booking' = [booking EXCEPT ![rq[r].booking].status = "REJECTED"]
  /\ leadState' = [leadState EXCEPT ![rq[r].lead] = "MEETING_PROPOSED"]
  /\ Done(r)
  /\ UNCHANGED <<proposed, repBusy, events, confirmed, approveCalls>>

-----------------------------------------------------------------------------
(* The other handlers that move a lead, each a set of <<from, to>> pairs:   *)
(* from is the state its guard accepts, to the one its commit writes.       *)

ScoreMoves    == {<<"NEW", "SCORED">>}
GenerateMoves == {<<"SCORED", "OUTREACH_PENDING">>}
ActivateMoves == {<<"OUTREACH_PENDING", "SEQUENCE_ACTIVE">>}
BounceMoves   == {<<"SEQUENCE_ACTIVE", "NOT_INTERESTED">>}

(* Mutation: a reply is triaged while an approval is pending, too. *)
TriageableWhileAwaiting == {"SEQUENCE_ACTIVE", "ENGAGED", "MEETING_PROPOSED",
                            "OUTREACH_PENDING", "AWAITING_APPROVAL"}

TRIAGEABLE_STATES == {"SEQUENCE_ACTIVE", "ENGAGED", "MEETING_PROPOSED",
                      "OUTREACH_PENDING"}
OptOutMoves  == TRIAGEABLE_STATES \X {"UNSUBSCRIBED", "NOT_INTERESTED"}
EngagedMoves == (TRIAGEABLE_STATES \ {"ENGAGED"}) \X {"ENGAGED"}

Moves == ScoreMoves \union GenerateMoves \union ActivateMoves \union BounceMoves
           \union OptOutMoves \union EngagedMoves

MoveRead(r, l, to) ==
  /\ At(r, "idle")
  /\ <<leadState[l], to>> \in Moves
  /\ rq' = [rq EXCEPT ![r] = [Idle EXCEPT !.pc = "moveCommit", !.lead = l,
                                          !.target = to]]
  /\ UNCHANGED <<leadState, proposed, booking, repBusy, events, confirmed,
                 approveCalls>>

MoveCommit(r) ==
  /\ At(r, "moveCommit")
  /\ leadState' = [leadState EXCEPT ![rq[r].lead] = rq[r].target]
  /\ Done(r)
  /\ UNCHANGED <<proposed, booking, repBusy, events, confirmed, approveCalls>>

-----------------------------------------------------------------------------
(* Failures and the world outside *)

(* A call to Google or to the mail server fails, or the slot is taken: the *)
(* handler ends with an error and what it had not committed is dropped.    *)
CallFails(r) ==
  /\ rq[r].pc \in {"findSlots", "checkFree", "createEvent", "mailLead"}
  /\ Done(r)
  /\ UNCHANGED <<leadState, proposed, booking, repBusy, events, confirmed,
                 approveCalls>>

(* The process dies with every request in progress; the database, the      *)
(* calendar and the mail already sent survive.                             *)
Crash ==
  /\ \E r \in Requests : rq[r] # Idle
  /\ rq' = [r \in Requests |-> Idle]
  /\ UNCHANGED <<leadState, proposed, booking, repBusy, events, confirmed,
                 approveCalls>>

RepEditsCalendar ==
  /\ repBusy' \in SUBSET RepTimes
  /\ UNCHANGED <<leadState, proposed, booking, rq, events, confirmed,
                 approveCalls>>

-----------------------------------------------------------------------------
Init ==
  /\ leadState = [l \in Leads |-> "NEW"]
  /\ proposed = [l \in Leads |-> {}]
  /\ booking = [b \in Bookings |-> NoBooking]
  /\ rq = [r \in Requests |-> Idle]
  /\ repBusy = {}
  /\ events = [b \in Bookings |-> 0]
  /\ confirmed = {}
  /\ approveCalls = {}

Step(r) ==
  \/ \E l \in Leads : ProposeRead(r, l)
  \/ FindSlots(r)
  \/ ProposeCommit(r)
  \/ \E l \in Leads, s \in Slots : SelectRead(r, l, s)
  \/ SelectCommit(r)
  \/ \E b \in Bookings : ApproveRead(r, b)
  \/ CheckFree(r)
  \/ CreateEvent(r)
  \/ CreateEventUnanswered(r)
  \/ ApproveCommit(r)
  \/ MailLead(r)
  \/ \E b \in Bookings : RejectRead(r, b)
  \/ RejectCommit(r)
  \/ \E l \in Leads, to \in Life!LeadState : MoveRead(r, l, to)
  \/ MoveCommit(r)
  \/ CallFails(r)

Next == (\E r \in Requests : Step(r)) \/ Crash \/ RepEditsCalendar

Spec == Init /\ [][Next]_vars

-----------------------------------------------------------------------------
(* Properties *)

PC == {"idle", "findSlots", "proposeCommit", "selectCommit", "checkFree",
       "createEvent", "approveCommit", "mailLead", "rejectCommit", "moveCommit"}

BookingRow == [status : BookingStatus \union {"NONE"}, lead : Leads \union {None},
               slot : Slots \union {None}, event : BOOLEAN]

Request == [pc : PC, lead : Leads \union {None}, booking : Bookings \union {None},
            slots : SUBSET Slots, slot : Slots \union {None},
            target : Life!LeadState \union {None}]

(* Every variable has its type. *)
TypeOK ==
  /\ leadState \in [Leads -> Life!LeadState]
  /\ proposed \in [Leads -> SUBSET Slots]
  /\ booking \in [Bookings -> BookingRow]
  /\ rq \in [Requests -> Request]
  /\ repBusy \subseteq RepTimes
  /\ events \in [Bookings -> Nat]
  /\ confirmed \subseteq Bookings
  /\ approveCalls \subseteq Bookings

(* "No calendar event is ever created without an explicit approval call"    *)
(* (README.md:55), in every interleaving of requests and whatever fails: an  *)
(* event belongs to a booking the lead made and an approve request accepted. *)
ApprovalGuarantee ==
  \A b \in Bookings : events[b] > 0 => /\ b \in approveCalls
                                       /\ booking[b].status # "NONE"

(* What the program says about a meeting is true of the calendar: an         *)
(* approved booking, a lead in MEETING_CONFIRMED and a lead who was mailed   *)
(* "your meeting is confirmed" have an event, however requests interleave    *)
(* and wherever approve_booking is cut short.                                *)
ConfirmationsAreReal ==
  /\ \A b \in Bookings :
       booking[b].status = "APPROVED" \/ b \in confirmed => events[b] > 0
  /\ \A l \in Leads : leadState[l] = "MEETING_CONFIRMED"
       => \E b \in Bookings : booking[b].lead = l /\ events[b] > 0

(* A lead never waits for an approval nobody can give: in AWAITING_APPROVAL  *)
(* there is a booking of the lead on the rep's pending list, in every        *)
(* interleaving (no timeout moves a lead out of that state): two selections  *)
(* leave two open bookings, and rejecting one, which asks nothing of the     *)
(* lead but a transition, does not strand her beside a decided row.          *)
AwaitingLeadHasOpenBooking ==
  \A l \in Leads : leadState[l] = "AWAITING_APPROVAL"
    => \E b \in Bookings : /\ booking[b].lead = l
                           /\ booking[b].status = "AWAITING_APPROVAL"

(* The pending list has no dead entry: an open booking's lead is waiting for *)
(* it, and for it alone, through every failure and crash between requests    *)
(* that run one at a time.  approve_booking refuses a booking whose lead is  *)
(* in another state; reject_booking takes it from any state that may go to   *)
(* MEETING_PROPOSED, and refuses it from the others.                         *)
OpenBookingIsDecidable ==
  \A b, c \in Bookings : booking[b].status = "AWAITING_APPROVAL" =>
    /\ leadState[booking[b].lead] = "AWAITING_APPROVAL"
    /\ booking[c].status = "AWAITING_APPROVAL" /\ booking[c].lead = booking[b].lead
         => b = c

(* A booking gets one calendar event at most, retries after an error and     *)
(* after a crash included (is_slot_free then finds the event of the attempt  *)
(* before).                                                                  *)
OneEventPerBooking == \A b \in Bookings : events[b] <= 1

(* Two events made here never overlap in time, whatever times were proposed  *)
(* to two leads and in whatever order they picked and the rep approved.      *)
NoDoubleBooking ==
  \A b, c \in Bookings : b # c /\ events[b] > 0 /\ events[c] > 0
    => ~Overlap(booking[b].slot, MeetingLen, booking[c].slot, MeetingLen)

(* A booking's decision is final, and so is a lead's terminal state.         *)
DecisionsAreFinal ==
  [][/\ \A b \in Bookings : booking[b].status \in {"APPROVED", "REJECTED"}
          => booking'[b].status = booking[b].status
     /\ \A l \in Leads : leadState[l] \in Life!Terminal
          => leadState'[l] = leadState[l]]_vars

(* NOT_INTERESTED and UNSUBSCRIBED are terminal (app/state_machine.py:14): a *)
(* lead who opted out is never on the way to a meeting or to mail again.      *)
OptOutIsFinal ==
  [][\A l \in Leads : leadState[l] \in {"NOT_INTERESTED", "UNSUBSCRIBED"}
        => leadState'[l] \in {"NOT_INTERESTED", "UNSUBSCRIBED"}]_vars

(* "The calendar event is created only when the booking is approved"         *)
(* (app/models.py:345): a booking the rep rejected has none.                 *)
RejectedHasNoEvent ==
  \A b \in Bookings : booking[b].status = "REJECTED" => events[b] = 0

(* The handlers implement the lead lifecycle: no request, however it is cut  *)
(* short, takes a lead along a path the state machine does not have.         *)
LifecycleSpec == Life!Spec
=============================================================================
