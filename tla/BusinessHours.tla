--------------------------- MODULE BusinessHours ----------------------------
(***************************************************************************)
(* _business_hour_slots of app/adapters/calendar.py: the walk that finds    *)
(* the times Julian offers, one action for each turn of its two loops.      *)
(* Time is counted in ticks of an organization's local time; a busy         *)
(* interval and a slot are pairs <<from, to>> of ticks since the beginning  *)
(* of the day on which the calendar is asked.                               *)
(***************************************************************************)
EXTENDS Integers, Sequences

CONSTANTS
  DayTicks,         \* ticks of a day
  Opening, Closing, \* business hours, in ticks of a day
  HalfHour,         \* ticks of the step taken past a busy time
  Requests          \* what the calendar may be asked for, and when

ASSUME HoursAssumption == /\ HalfHour \in Nat \ {0}
                          /\ Opening \in Nat /\ Closing \in Opening..DayTicks
                          /\ DayTicks \in Nat

(* The weekday of the day it is, Monday = 0; the busy intervals; the length  *)
(* of a meeting; how many times are wanted, and in how many days.            *)
ASSUME RequestsAssumption ==
  \A r \in Requests : /\ r.weekday \in 0..6
                      /\ \A b \in r.busy : b[1] \in Int /\ b[2] \in Int
                      /\ r.duration \in Nat /\ r.count \in Nat /\ r.days \in Nat

VARIABLES
  request,  \* the arguments
  day,      \* the day looked at, 1 for tomorrow
  cursor,   \* the time looked at
  slots,    \* the times found so far
  loop      \* "day" at the head of the outer loop, "slot" of the inner, "done"

hoursVars == <<request, day, cursor, slots, loop>>

-----------------------------------------------------------------------------
WorkingDay(d) == (request.weekday + d) % 7 < 5
OpensAt(d) == d * DayTicks + Opening
ClosesAt(d) == d * DayTicks + Closing

Weekend ==
  /\ loop = "day" /\ day <= request.days
  /\ ~WorkingDay(day)
  /\ day' = day + 1
  /\ UNCHANGED <<request, cursor, slots, loop>>

OpenDay ==
  /\ loop = "day" /\ day <= request.days
  /\ WorkingDay(day)
  /\ cursor' = OpensAt(day)
  /\ loop' = "slot"
  /\ UNCHANGED <<request, day, slots>>

NoDaysLeft ==
  /\ loop = "day" /\ day > request.days
  /\ loop' = "done"
  /\ UNCHANGED <<request, day, cursor, slots>>

candidate == <<cursor, cursor + request.duration>>

(* Mutation: an interval that ends inside the slot does not count. *)
OverlapsAtStart(b, s) == b[1] <= s[1] /\ b[2] > s[1]

Overlaps(b, s) == b[1] < s[2] /\ b[2] > s[1]

Taken == \E b \in request.busy : Overlaps(b, candidate)

GoesOn == candidate[2] <= ClosesAt(day) /\ Len(slots) < request.count

Offer ==
  /\ loop = "slot" /\ GoesOn /\ ~Taken
  /\ slots' = Append(slots, candidate)
  /\ cursor' = cursor + 2 * request.duration
  /\ UNCHANGED <<request, day, loop>>

StepOver ==
  /\ loop = "slot" /\ GoesOn /\ Taken
  /\ cursor' = cursor + HalfHour
  /\ UNCHANGED <<request, day, slots, loop>>

CloseDay ==
  /\ loop = "slot" /\ ~GoesOn
  /\ IF Len(slots) >= request.count
       THEN loop' = "done" /\ UNCHANGED day
       ELSE loop' = "day" /\ day' = day + 1
  /\ UNCHANGED <<request, cursor, slots>>

-----------------------------------------------------------------------------
HoursInit ==
  /\ request \in Requests
  /\ day = 1
  /\ cursor = 0
  /\ slots = <<>>
  /\ loop = "day"

Walk == Weekend \/ OpenDay \/ NoDaysLeft \/ Offer \/ StepOver \/ CloseDay

HoursSpec == HoursInit /\ [][Walk]_hoursVars

-----------------------------------------------------------------------------
(* Properties *)

Within(d, s) == OpensAt(d) <= s[1] /\ s[2] <= ClosesAt(d)
Ticks(s) == s[1]..(s[2] - 1)
IsFree(s) == \A b \in request.busy : Ticks(b) \intersect Ticks(s) = {}

(* "Walk the org's business hours (9:00-17:00 local, weekdays) and pick free *)
(* slots" (calendar.py:59): no more times are offered than were asked for,   *)
(* each as long as the meeting, within the hours of a working day that was   *)
(* to be searched, and without a moment in which the rep is busy.            *)
SlotsAreFree ==
  /\ Len(slots) <= request.count
  /\ \A i \in DOMAIN slots :
       /\ slots[i][2] = slots[i][1] + request.duration
       /\ \E d \in 1..request.days : WorkingDay(d) /\ Within(d, slots[i])
       /\ IsFree(slots[i])

(* "space proposals out" (calendar.py:77): a later time does not begin       *)
(* before an earlier one ends, and on one day there is a meeting's length    *)
(* between them.                                                             *)
SlotsAreSpaced ==
  \A i, j \in DOMAIN slots : i < j =>
    /\ slots[i][2] <= slots[j][1]
    /\ \A d \in 1..request.days :
         Within(d, slots[i]) /\ Within(d, slots[j]) =>
           slots[j][1] - slots[i][2] >= request.duration

(* A meeting whose length keeps the walk on the half hours, and intervals    *)
(* that take some time.                                                      *)
Regular == /\ request.duration > 0
           /\ \E m \in 0..(2 * request.duration) : 2 * request.duration = m * HalfHour
           /\ \A b \in request.busy : b[1] < b[2]

(* Nobody is told that there is no time when there is one: when fewer times  *)
(* are offered than were asked for, every half hour of the days searched at  *)
(* which the rep is free is in a time offered, or in the room kept after it. *)
NoneIsMissed ==
  (loop = "done" /\ Len(slots) < request.count /\ Regular) =>
    \A d \in 1..request.days : \A k \in 0..(Closing - Opening) :
      LET t == OpensAt(d) + k * HalfHour
          s == <<t, t + request.duration>>
      IN WorkingDay(d) /\ Within(d, s) /\ IsFree(s) =>
           \E i \in DOMAIN slots : slots[i][1] <= t /\ t < slots[i][2] + request.duration

(* What is offered is free and spaced out, and nothing that suits is missed. *)
OffersAreRight == SlotsAreFree /\ SlotsAreSpaced /\ NoneIsMissed
=============================================================================
