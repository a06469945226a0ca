--------------------------- MODULE AlgorithmProofs --------------------------
(***************************************************************************)
(* Proofs about the walk over the business hours, for any calendar and any  *)
(* request; about the reading of replies, for any offer and any reply; and  *)
(* about the funnel of the dashboard, for any rows.                         *)
(***************************************************************************)
EXTENDS BusinessHours, MCAlgorithms, FiniteSetTheorems, SequenceTheorems, TLAPS

-----------------------------------------------------------------------------
(* Types *)

Typed == /\ request \in Requests
         /\ day \in Nat \ {0}
         /\ cursor \in Int
         /\ slots \in Seq(Int \X Int)
         /\ loop \in {"day", "slot", "done"}

LEMMA RequestTyped ==
  ASSUME Typed
  PROVE  /\ request.duration \in Nat /\ request.count \in Nat /\ request.days \in Nat
         /\ request.weekday \in 0..6
         /\ \A b \in request.busy : b[1] \in Int /\ b[2] \in Int
BY RequestsAssumption DEF Typed

LEMMA HoursTyped ==
  ASSUME NEW d \in Int
  PROVE  OpensAt(d) \in Int /\ ClosesAt(d) \in Int
BY HoursAssumption DEF OpensAt, ClosesAt

LEMMA TypedStep ==
  ASSUME Typed, [Walk]_hoursVars
  PROVE  Typed' /\ request' = request
<1>1. CASE Weekend \/ NoDaysLeft \/ CloseDay \/ UNCHANGED hoursVars
  BY <1>1 DEF Typed, Weekend, NoDaysLeft, CloseDay, hoursVars
<1>2. CASE OpenDay
  BY <1>2, HoursTyped DEF Typed, OpenDay
<1>3. CASE StepOver
  BY <1>3, HoursAssumption DEF Typed, StepOver
<1>4. CASE Offer
  <2>1. candidate \in Int \X Int
    BY RequestTyped DEF candidate, Typed
  <2>2. slots' \in Seq(Int \X Int)
    BY <1>4, <2>1 DEF Offer, Typed
  <2>3. cursor' \in Int
    BY <1>4, RequestTyped DEF Offer, Typed
  <2> QED
    BY <1>4, <2>2, <2>3 DEF Offer, Typed
<1> QED
  BY <1>1, <1>2, <1>3, <1>4 DEF Walk

(* Every variable of the walk keeps its type. *)
LEMMA Typing == HoursSpec => []Typed
<1>1. HoursInit => Typed
  BY DEF HoursInit, Typed
<1>2. Typed /\ [Walk]_hoursVars => Typed'
  BY TypedStep
<1> QED
  BY <1>1, <1>2, PTL DEF HoursSpec

(* What a slot is made of. *)
LEMMA SlotTyped ==
  ASSUME Typed, NEW i \in 1..Len(slots)
  PROVE  slots[i][1] \in Int /\ slots[i][2] \in Int
<1>1. slots[i] \in Int \X Int
  BY ElementOfSeq, Zenon DEF Typed
<1> QED
  BY <1>1

-----------------------------------------------------------------------------
(* Days *)

(* A day closes before a later one opens. *)
LEMMA DaysInOrder ==
  ASSUME NEW d \in Int, NEW e \in Int, d < e
  PROVE  ClosesAt(d) <= OpensAt(e)
<1>1. /\ DayTicks \in Nat /\ Opening \in Nat /\ Closing \in Nat /\ Closing <= DayTicks
  BY HoursAssumption
<1>2. d * DayTicks + DayTicks <= e * DayTicks
  <2>1. (d + 1) * DayTicks <= e * DayTicks
    BY <1>1
  <2> QED
    BY <1>1, <2>1
<1> QED
  BY <1>1, <1>2 DEF ClosesAt, OpensAt

(* What takes some time is within the hours of one day only. *)
LEMMA OneDay ==
  ASSUME NEW d \in Int, NEW e \in Int, NEW s \in Int \X Int, s[1] < s[2],
         Within(d, s), Within(e, s)
  PROVE  d = e
<1>1. /\ OpensAt(d) <= s[1] /\ s[2] <= ClosesAt(d) /\ OpensAt(e) <= s[1] /\ s[2] <= ClosesAt(e)
  BY DEF Within
<1>2. /\ s[1] \in Int /\ s[2] \in Int
      /\ OpensAt(d) \in Int /\ ClosesAt(d) \in Int /\ OpensAt(e) \in Int /\ ClosesAt(e) \in Int
  BY HoursTyped
<1>3. CASE d < e
  BY <1>1, <1>2, <1>3, DaysInOrder
<1>4. CASE e < d
  BY <1>1, <1>2, <1>4, DaysInOrder
<1> QED
  BY <1>3, <1>4

-----------------------------------------------------------------------------
(* The slots that are offered *)

(* The inner loop is in the hours of a working day to be searched. *)
AtWork == loop = "slot" => day \in 1..request.days /\ WorkingDay(day) /\ OpensAt(day) <= cursor

(* A slot found lies behind the walk, with room after it. *)
Behind(i) == /\ slots[i][2] = slots[i][1] + request.duration
             /\ IsFree(slots[i])
             /\ \E d \in 1..request.days :
                  /\ WorkingDay(d) /\ Within(d, slots[i])
                  /\ d < day \/ (d = day /\ loop # "day" /\ slots[i][2] + request.duration <= cursor)
AllBehind == \A i \in 1..Len(slots) : Behind(i)

Apart(i, j) == /\ slots[i][2] <= slots[j][1]
               /\ \A d \in 1..request.days :
                    Within(d, slots[i]) /\ Within(d, slots[j]) =>
                      slots[j][1] - slots[i][2] >= request.duration
AllApart == \A i, j \in 1..Len(slots) : i < j => Apart(i, j)

SlotInv == AtWork /\ AllBehind /\ AllApart /\ Len(slots) <= request.count

(* A candidate that overlaps nothing shares no tick with anything. *)
LEMMA NotTakenIsFree ==
  ASSUME Typed, ~Taken
  PROVE  IsFree(candidate)
<1> SUFFICES ASSUME NEW b \in request.busy, NEW t \in Ticks(b), t \in Ticks(candidate)
             PROVE  FALSE
  BY DEF IsFree
<1>1. ~Overlaps(b, candidate)
  BY DEF Taken
<1> QED
  BY <1>1, RequestTyped DEF Overlaps, Ticks, candidate, Typed

LEMMA AtWorkStep ==
  ASSUME Typed, AtWork, [Walk]_hoursVars
  PROVE  AtWork'
<1>1. CASE Weekend \/ NoDaysLeft \/ CloseDay \/ UNCHANGED hoursVars
  BY <1>1 DEF AtWork, Weekend, NoDaysLeft, CloseDay, hoursVars, WorkingDay, OpensAt
<1>2. CASE OpenDay
  BY <1>2, HoursTyped DEF AtWork, OpenDay, Typed, WorkingDay, OpensAt
<1>3. CASE Offer \/ StepOver
  <2>1. loop = "slot" /\ UNCHANGED <<request, day>> /\ cursor' >= cursor
    BY <1>3, RequestTyped, HoursAssumption DEF Offer, StepOver, Typed
  <2> QED
    BY <2>1, HoursTyped, TypedStep DEF AtWork, Typed, WorkingDay, OpensAt
<1> QED
  BY <1>1, <1>2, <1>3 DEF Walk

(* What was found stays behind the walk. *)
LEMMA BehindStep ==
  ASSUME Typed, [Walk]_hoursVars, NEW i \in 1..Len(slots), Behind(i), slots'[i] = slots[i]
  PROVE  Behind(i)'
<1>1. request' = request /\ Typed'
  BY TypedStep
<1>2. IsFree(slots[i])' /\ slots'[i][2] = slots'[i][1] + request'.duration
  BY <1>1 DEF Behind, IsFree
<1>3. PICK d \in 1..request.days :
        /\ WorkingDay(d) /\ Within(d, slots[i])
        /\ d < day \/ (d = day /\ loop # "day" /\ slots[i][2] + request.duration <= cursor)
  BY DEF Behind
<1>4. WorkingDay(d)' /\ Within(d, slots[i])'
  BY <1>1, <1>3 DEF WorkingDay, Within, OpensAt, ClosesAt
<1>5. d < day' \/ (d = day' /\ loop' # "day" /\ slots'[i][2] + request'.duration <= cursor')
  <2>1. CASE Weekend \/ OpenDay \/ NoDaysLeft \/ CloseDay \/ UNCHANGED hoursVars
    BY <1>1, <1>3, <2>1 DEF Weekend, OpenDay, NoDaysLeft, CloseDay, hoursVars, Typed
  <2>2. CASE Offer \/ StepOver
    <3>1. /\ loop' = loop /\ day' = day /\ cursor \in Int
          /\ cursor' = cursor + 2 * request.duration \/ cursor' = cursor + HalfHour
      BY <2>2 DEF Offer, StepOver, Typed
    <3>2. cursor' >= cursor /\ cursor' \in Int
      BY <3>1, RequestTyped, HoursAssumption
    <3> QED
      BY <1>1, <1>3, <3>1, <3>2, SlotTyped, RequestTyped
  <2> QED
    BY <2>1, <2>2 DEF Walk
<1> QED
  BY <1>1, <1>2, <1>3, <1>4, <1>5 DEF Behind

(* The step that offers a time adds it, and no other touches the slots. *)
LEMMA SlotsGrow ==
  ASSUME Typed, [Walk]_hoursVars
  PROVE  \/ slots' = slots
         \/ /\ Offer /\ slots' = Append(slots, candidate)
            /\ Len(slots') = Len(slots) + 1 /\ slots'[Len(slots) + 1] = candidate
            /\ \A i \in 1..Len(slots) : slots'[i] = slots[i]
<1>1. candidate \in Int \X Int
  BY RequestTyped DEF candidate, Typed
<1>2. CASE Offer
  BY <1>1, <1>2 DEF Offer, Typed
<1>3. CASE ~Offer
  BY <1>3 DEF Walk, Weekend, OpenDay, NoDaysLeft, StepOver, CloseDay, hoursVars
<1> QED
  BY <1>2, <1>3

(* The time offered is what a slot has to be. *)
LEMMA OfferedIsBehind ==
  ASSUME Typed, AtWork, Offer, NEW n \in Nat, n = Len(slots) + 1
  PROVE  Behind(n)'
<1>a. [Walk]_hoursVars
  BY DEF Walk
<1>1. /\ slots'[n] = candidate /\ request' = request /\ loop' = loop /\ loop = "slot" /\ day' = day
      /\ cursor' = cursor + 2 * request.duration
  <2>1. Len(slots') # Len(slots)
    BY DEF Offer, Typed
  <2> QED
    BY <1>a, <2>1, SlotsGrow, TypedStep DEF Offer
<1>2. /\ candidate[1] = cursor /\ candidate[2] = cursor + request.duration
      /\ candidate[2] <= ClosesAt(day)
  BY DEF candidate, Offer, GoesOn
<1>3. day \in 1..request.days /\ WorkingDay(day) /\ OpensAt(day) <= cursor
  BY <1>1 DEF AtWork
<1>4. IsFree(candidate)
  BY NotTakenIsFree DEF Offer
<1>5. IsFree(slots[n])' /\ WorkingDay(day)' /\ Within(day, slots[n])'
  BY <1>1, <1>2, <1>3, <1>4 DEF IsFree, WorkingDay, Within, OpensAt, ClosesAt
<1>6. /\ slots'[n][2] = slots'[n][1] + request'.duration
      /\ slots'[n][2] + request'.duration <= cursor'
  BY <1>1, <1>2, RequestTyped DEF Typed
<1> QED
  BY <1>1, <1>3, <1>5, <1>6 DEF Behind

LEMMA AllBehindStep ==
  ASSUME Typed, AtWork, AllBehind, [Walk]_hoursVars
  PROVE  AllBehind'
<1> SUFFICES ASSUME NEW i \in 1..Len(slots')
             PROVE  Behind(i)'
  BY DEF AllBehind
<1>1. CASE i \in 1..Len(slots) /\ slots'[i] = slots[i]
  BY <1>1, BehindStep DEF AllBehind
<1>2. CASE ~(i \in 1..Len(slots) /\ slots'[i] = slots[i])
  <2>1. Len(slots) \in Nat /\ slots' # slots
    BY <1>2 DEF Typed
  <2>2. Offer /\ i = Len(slots) + 1
    BY <1>2, <2>1, SlotsGrow
  <2> QED
    BY <2>2, OfferedIsBehind
<1> QED
  BY <1>1, <1>2

LEMMA AllApartStep ==
  ASSUME Typed, Typed', AtWork, AllBehind, AllApart, [Walk]_hoursVars
  PROVE  AllApart'
<1>a. request' = request
  BY TypedStep
<1> SUFFICES ASSUME NEW i \in 1..Len(slots'), NEW j \in 1..Len(slots'), i < j
             PROVE  Apart(i, j)'
  BY DEF AllApart
<1>1. CASE j \in 1..Len(slots) /\ slots'[j] = slots[j]
  <2>1. i \in 1..Len(slots)
    BY <1>1
  <2>2. slots'[i] = slots[i]
    BY <2>1, SlotsGrow
  <2> QED
    BY <1>a, <1>1, <2>1, <2>2 DEF AllApart, Apart, Within, OpensAt, ClosesAt
<1>2. CASE ~(j \in 1..Len(slots) /\ slots'[j] = slots[j])
  <2>1. /\ Offer /\ j = Len(slots) + 1 /\ slots'[j] = candidate
        /\ i \in 1..Len(slots) /\ slots'[i] = slots[i]
    <3>1. Len(slots) \in Nat
      BY DEF Typed
    <3>2. slots' # slots
      BY <1>2
    <3> HIDE DEF candidate
    <3> QED
      BY <1>2, <3>1, <3>2, SlotsGrow
  <2>2. /\ candidate[1] = cursor /\ candidate[2] = cursor + request.duration
        /\ candidate[2] <= ClosesAt(day) /\ candidate \in Int \X Int
        /\ cursor \in Int /\ request.duration \in Nat /\ day \in Int
    BY <2>1, RequestTyped DEF candidate, Offer, GoesOn, Typed
  <2>3. OpensAt(day) <= cursor /\ Within(day, candidate)
    BY <2>1, <2>2 DEF AtWork, Offer, Within
  <2>4. PICK d \in 1..request.days :
          /\ WorkingDay(d) /\ Within(d, slots[i])
          /\ d < day \/ (d = day /\ loop # "day" /\ slots[i][2] + request.duration <= cursor)
    BY <2>1 DEF AllBehind, Behind
  <2>5. /\ slots[i] \in Int \X Int /\ slots[i][1] \in Int /\ slots[i][2] \in Int
        /\ slots[i][2] = slots[i][1] + request.duration
    <3>1. slots[i] \in Int \X Int
      BY <2>1, ElementOfSeq, Zenon DEF Typed
    <3> QED
      BY <2>1, <3>1 DEF AllBehind, Behind
  <2>6. slots[i][2] <= cursor
    <3>1. CASE d < day
      <4>1. slots[i][2] <= ClosesAt(d) /\ ClosesAt(d) <= OpensAt(day)
        BY <2>2, <2>4, <3>1, DaysInOrder DEF Within
      <4> QED
        <5>1. d \in Int
          OBVIOUS
        <5>2. ClosesAt(d) \in Int /\ OpensAt(day) \in Int
          BY <2>2, <5>1, HoursTyped
        <5> QED
          BY <2>2, <2>3, <2>5, <4>1, <5>2
    <3>2. CASE ~(d < day)
      BY <2>2, <2>4, <2>5, <3>2
    <3> QED
      BY <3>1, <3>2
  <2>7. ASSUME NEW e \in 1..request.days, Within(e, slots[i]), Within(e, candidate)
        PROVE  cursor - slots[i][2] >= request.duration
    <3>1. CASE request.duration = 0
      BY <2>2, <2>5, <2>6, <3>1
    <3>2. CASE request.duration > 0
      <4>1. e = day
        BY <2>2, <2>3, <2>7, <3>2, OneDay
      <4>2. e = d
        <5>1. slots[i][1] < slots[i][2]
          BY <2>2, <2>5, <3>2
        <5>2. d \in Int /\ e \in Int
          OBVIOUS
        <5> QED
          BY <2>4, <2>5, <2>7, <5>1, <5>2, OneDay
      <4> QED
        BY <2>2, <2>4, <2>5, <4>1, <4>2
    <3> QED
      BY <2>2, <3>1, <3>2
  <2>8. slots'[i][2] <= slots'[j][1]
    BY <2>1, <2>2, <2>6
  <2> HIDE DEF candidate
  <2> QED
    BY <1>a, <2>1, <2>2, <2>7, <2>8 DEF Apart, Within, OpensAt, ClosesAt
<1> QED
  BY <1>1, <1>2

LEMMA SlotInvStep ==
  ASSUME Typed, SlotInv, [Walk]_hoursVars
  PROVE  SlotInv'
<1>1. Typed' /\ request' = request
  BY TypedStep
<1>2. Len(slots') <= request'.count
  <2>1. CASE Offer
    BY <1>1, <2>1, RequestTyped, SlotsGrow DEF SlotInv, Offer, GoesOn, Typed
  <2>2. CASE ~Offer
    BY <1>1, <2>2, SlotsGrow DEF SlotInv
  <2> QED
    BY <2>1, <2>2
<1> QED
  BY <1>1, <1>2, AtWorkStep, AllBehindStep, AllApartStep DEF SlotInv

LEMMA SlotInvariance == HoursSpec => [](Typed /\ SlotInv)
<1>1. HoursInit => SlotInv
  BY RequestsAssumption DEF HoursInit, SlotInv, AtWork, AllBehind, AllApart
<1>2. Typed /\ SlotInv /\ [Walk]_hoursVars => SlotInv'
  BY SlotInvStep
<1> QED
  BY Typing, <1>1, <1>2, PTL DEF HoursSpec

(* Whatever the hours, the busy intervals and the length of the meeting: the *)
(* times offered are free, within the hours of a working day, and no more    *)
(* than were asked for.                                                      *)
THEOREM OfferedTimesAreFree == HoursSpec => []SlotsAreFree
<1>1. Typed /\ SlotInv => SlotsAreFree
  <2> SUFFICES ASSUME Typed, SlotInv
               PROVE  SlotsAreFree
    OBVIOUS
  <2>1. DOMAIN slots = 1..Len(slots)
    BY DEF Typed
  <2> QED
    BY <2>1 DEF SlotInv, AllBehind, Behind, SlotsAreFree
<1> QED
  BY <1>1, SlotInvariance, PTL

(* They come one after the other, and on one day with the length of a        *)
(* meeting between them.                                                     *)
THEOREM OfferedTimesAreSpaced == HoursSpec => []SlotsAreSpaced
<1>1. Typed /\ SlotInv => SlotsAreSpaced
  <2> SUFFICES ASSUME Typed, SlotInv
               PROVE  SlotsAreSpaced
    OBVIOUS
  <2>1. DOMAIN slots = 1..Len(slots)
    BY DEF Typed
  <2> QED
    BY <2>1 DEF SlotInv, AllApart, Apart, SlotsAreSpaced
<1> QED
  BY <1>1, SlotInvariance, PTL

-----------------------------------------------------------------------------
(* The times that are passed over *)

(* The half hours of a day, and the meeting that begins at one. *)
HalfHourOf(d, k) == OpensAt(d) + k * HalfHour
MeetingAt(t) == <<t, t + request.duration>>

OnTheHalfHour == loop = "slot" => \E k \in Nat : cursor = HalfHourOf(day, k)

Covered(t) == \E i \in 1..Len(slots) : slots[i][1] <= t /\ t < slots[i][2] + request.duration

(* The walk has been there. *)
PassedBy(d, t) == d < day \/ (d = day /\ loop = "slot" /\ t < cursor)

Suits(d, t) == WorkingDay(d) /\ Within(d, MeetingAt(t)) /\ IsFree(MeetingAt(t))

(* While times are wanted, what suits and has been passed by is covered. *)
NothingPassed ==
  (loop # "done" \/ Len(slots) < request.count) =>
    \A d \in 1..request.days, k \in Nat :
      PassedBy(d, HalfHourOf(d, k)) /\ Suits(d, HalfHourOf(d, k)) => Covered(HalfHourOf(d, k))

DoneInTheEnd == loop = "done" => day > request.days \/ Len(slots) >= request.count

MissInv == Regular => OnTheHalfHour /\ NothingPassed /\ DoneInTheEnd

LEMMA HalfHourTyped ==
  ASSUME NEW d \in Int, NEW k \in Int
  PROVE  HalfHourOf(d, k) \in Int
BY HoursTyped, HoursAssumption DEF HalfHourOf

(* Between one half hour and the next there is none. *)
LEMMA NextHalfHour ==
  ASSUME NEW d \in Int, NEW k \in Nat, NEW l \in Nat,
         HalfHourOf(d, k) <= HalfHourOf(d, l), HalfHourOf(d, l) < HalfHourOf(d, k) + HalfHour
  PROVE  HalfHourOf(d, l) = HalfHourOf(d, k)
<1>1. HalfHour \in Nat /\ HalfHour > 0 /\ OpensAt(d) \in Int
  BY HoursAssumption, HoursTyped
<1>2. k * HalfHour \in Int /\ l * HalfHour \in Int
  BY <1>1
<1>3. k * HalfHour <= l * HalfHour /\ l * HalfHour < k * HalfHour + HalfHour
  BY <1>1, <1>2 DEF HalfHourOf
<1>4. CASE l < k
  <2>1. (l + 1) * HalfHour <= k * HalfHour /\ (l + 1) * HalfHour = l * HalfHour + HalfHour
    BY <1>1, <1>4
  <2> QED
    BY <1>1, <1>2, <1>3, <2>1
<1>5. CASE k < l
  <2>1. (k + 1) * HalfHour <= l * HalfHour /\ (k + 1) * HalfHour = k * HalfHour + HalfHour
    BY <1>1, <1>5
  <2> QED
    BY <1>1, <1>2, <1>3, <2>1
<1> QED
  BY <1>4, <1>5

(* A candidate that is taken is not free. *)
LEMMA TakenIsNotFree ==
  ASSUME Typed, Regular, Taken
  PROVE  ~IsFree(MeetingAt(cursor))
<1>1. PICK b \in request.busy : Overlaps(b, candidate)
  BY DEF Taken
<1>2. /\ b[1] \in Int /\ b[2] \in Int /\ b[1] < b[2] /\ cursor \in Int
      /\ request.duration \in Nat /\ request.duration > 0
      /\ b[1] < cursor + request.duration /\ b[2] > cursor
  BY <1>1, RequestTyped DEF Overlaps, candidate, Regular, Typed
<1>3. \E t \in Int : t \in Ticks(b) /\ t \in Ticks(MeetingAt(cursor))
  <2>1. CASE b[1] <= cursor
    <3>1. cursor \in Ticks(b) /\ cursor \in Ticks(MeetingAt(cursor))
      BY <1>2, <2>1 DEF Ticks, MeetingAt
    <3> QED
      BY <1>2, <3>1
  <2>2. CASE b[1] > cursor
    <3>1. b[1] \in Ticks(b) /\ b[1] \in Ticks(MeetingAt(cursor))
      BY <1>2, <2>2 DEF Ticks, MeetingAt
    <3> QED
      BY <1>2, <3>1
  <2> QED
    BY <1>2, <2>1, <2>2
<1> QED
  BY <1>3 DEF IsFree

LEMMA HalfHourStep ==
  ASSUME Typed, Regular, OnTheHalfHour, [Walk]_hoursVars
  PROVE  OnTheHalfHour'
<1>1. CASE Weekend \/ NoDaysLeft \/ CloseDay \/ UNCHANGED hoursVars
  BY <1>1 DEF OnTheHalfHour, HalfHourOf, OpensAt, Weekend, NoDaysLeft, CloseDay, hoursVars
<1>2. CASE OpenDay
  <2>1. OpensAt(day) \in Int /\ 0 * HalfHour = 0
    BY HoursTyped, HoursAssumption DEF Typed
  <2>2. cursor' = HalfHourOf(day', 0)
    BY <1>2, <2>1 DEF OpenDay, HalfHourOf, OpensAt
  <2> QED
    BY <2>2 DEF OnTheHalfHour, HalfHourOf, OpensAt
<1>3. ASSUME Offer \/ StepOver
      PROVE  OnTheHalfHour'
  <2>1. PICK k \in Nat : cursor = HalfHourOf(day, k)
    BY <1>3 DEF OnTheHalfHour, Offer, StepOver
  <2>2. PICK m \in Nat : cursor' = cursor + m * HalfHour
    <3>1. CASE Offer
      <4>1. PICK m \in 0..(2 * request.duration) : 2 * request.duration = m * HalfHour
        BY DEF Regular
      <4> QED
        BY <3>1, <4>1, RequestTyped DEF Offer
    <3>2. CASE StepOver
      <4>1. 1 * HalfHour = HalfHour
        BY HoursAssumption
      <4> QED
        BY <3>2, <4>1 DEF StepOver
    <3> QED
      BY <1>3, <3>1, <3>2
  <2>3. /\ HalfHour \in Nat /\ OpensAt(day) \in Int /\ day' = day
        /\ (k + m) * HalfHour = k * HalfHour + m * HalfHour
        /\ k * HalfHour \in Int /\ m * HalfHour \in Int
    BY <1>3, HoursAssumption, HoursTyped DEF Typed, Offer, StepOver
  <2>4. cursor' = HalfHourOf(day', k + m)
    BY <2>1, <2>2, <2>3 DEF HalfHourOf
  <2> QED
    BY <2>4 DEF OnTheHalfHour, HalfHourOf, OpensAt
<1> QED
  BY <1>1, <1>2, <1>3 DEF Walk

(* What suits still suits, and what is covered stays covered. *)
LEMMA SuitsStays ==
  ASSUME Typed, [Walk]_hoursVars, NEW d \in Int, NEW t \in Int
  PROVE  Suits(d, t)' = Suits(d, t)
<1>1. request' = request
  BY TypedStep
<1> QED
  BY <1>1 DEF Suits, WorkingDay, Within, OpensAt, ClosesAt, IsFree, MeetingAt

LEMMA CoveredStays ==
  ASSUME Typed, [Walk]_hoursVars, NEW t \in Int, Covered(t)
  PROVE  Covered(t)'
<1>1. PICK i \in 1..Len(slots) : slots[i][1] <= t /\ t < slots[i][2] + request.duration
  BY DEF Covered
<1>2. request' = request
  BY TypedStep
<1>3. i \in 1..Len(slots') /\ slots'[i] = slots[i]
  <2>1. Len(slots) \in Nat
    BY DEF Typed
  <2> QED
    BY <2>1, SlotsGrow
<1> QED
  BY <1>1, <1>2, <1>3 DEF Covered

LEMMA PassedStep ==
  ASSUME Typed, Typed', Regular, AtWork, OnTheHalfHour, NothingPassed, [Walk]_hoursVars
  PROVE  NothingPassed'
<1>a. request' = request
  BY TypedStep
<1> SUFFICES ASSUME loop' # "done" \/ Len(slots') < request.count,
                    NEW d \in 1..request.days, NEW k \in Nat,
                    PassedBy(d, HalfHourOf(d, k))', Suits(d, HalfHourOf(d, k))'
             PROVE  Covered(HalfHourOf(d, k))'
  BY <1>a DEF NothingPassed
<1> DEFINE t == HalfHourOf(d, k)
<1>b. /\ t \in Int /\ cursor \in Int /\ day \in Int /\ d \in Int /\ Len(slots) \in Nat
      /\ request.duration \in Nat /\ request.count \in Nat /\ t' = t
  BY HalfHourTyped, RequestTyped DEF Typed, HalfHourOf, OpensAt
<1>c. PassedBy(d, t)' /\ Suits(d, t)'
  OBVIOUS
<1> SUFFICES Covered(t)'
  OBVIOUS
<1> HIDE DEF t
<1>d. Suits(d, t)
  BY <1>b, <1>c, SuitsStays
<1>e. ASSUME PassedBy(d, t), loop # "done" \/ Len(slots) < request.count
      PROVE  Covered(t)'
  <2>1. Covered(t)
    BY <1>d, <1>e DEF NothingPassed, t
  <2> QED
    BY <1>b, <2>1, CoveredStays
<1>1. CASE Weekend
  <2>1. PassedBy(d, t)
    BY <1>1, <1>b, <1>c, <1>d DEF Weekend, PassedBy, Suits
  <2> QED
    BY <1>1, <1>e, <2>1 DEF Weekend
<1>2. CASE OpenDay
  <2>1. ~(d = day /\ t < cursor')
    <3>1. ASSUME d = day
          PROVE  cursor' <= t
      <4>1. OpensAt(day) \in Int /\ k * HalfHour \in Nat
        BY <1>b, HoursTyped, HoursAssumption
      <4> QED
        BY <1>2, <3>1, <4>1 DEF OpenDay, HalfHourOf, t
    <3>2. cursor' \in Int
      BY DEF Typed
    <3> QED
      BY <1>b, <3>1, <3>2
  <2>2. PassedBy(d, t)
    BY <1>2, <1>b, <1>c, <2>1 DEF OpenDay, PassedBy
  <2> QED
    BY <1>2, <1>e, <2>2 DEF OpenDay
<1>3. CASE NoDaysLeft
  <2>1. PassedBy(d, t)
    BY <1>3, <1>b, <1>c DEF NoDaysLeft, PassedBy
  <2> QED
    BY <1>3, <1>e, <2>1 DEF NoDaysLeft
<1>4. CASE Offer
  <2>1. CASE PassedBy(d, t)
    BY <1>4, <1>e, <2>1 DEF Offer
  <2>2. CASE ~PassedBy(d, t)
    <3>1. cursor <= t /\ t < cursor + 2 * request.duration
      BY <1>4, <1>b, <1>c, <2>2 DEF Offer, PassedBy
    <3>2. slots'[Len(slots) + 1] = candidate /\ Len(slots') = Len(slots) + 1
      <4>1. candidate \in Int \X Int
        BY <1>b DEF candidate
      <4> QED
        BY <1>4, <4>1 DEF Offer, Typed
    <3>3. Len(slots) + 1 \in 1..Len(slots')
      BY <1>b, <3>2
    <3>4. /\ slots'[Len(slots) + 1][1] = cursor
          /\ slots'[Len(slots) + 1][2] = cursor + request.duration
      BY <3>2 DEF candidate
    <3> QED
      BY <1>a, <1>b, <3>1, <3>3, <3>4 DEF Covered
  <2> QED
    BY <2>1, <2>2
<1>5. CASE StepOver
  <2>1. CASE PassedBy(d, t)
    BY <1>5, <1>e, <2>1 DEF StepOver
  <2>2. CASE ~PassedBy(d, t)
    <3>1. d = day /\ cursor <= t /\ t < cursor + HalfHour
      BY <1>5, <1>b, <1>c, <2>2 DEF StepOver, PassedBy
    <3>2. PICK c \in Nat : cursor = HalfHourOf(day, c)
      BY <1>5 DEF StepOver, OnTheHalfHour
    <3>3. t = cursor
      BY <1>b, <3>1, <3>2, NextHalfHour DEF t
    <3>4. ~IsFree(MeetingAt(cursor))
      BY <1>5, TakenIsNotFree DEF StepOver
    <3> QED
      BY <1>d, <3>3, <3>4 DEF Suits
  <2> QED
    BY <2>1, <2>2
<1>6. CASE CloseDay
  <2>1. Len(slots) < request.count /\ day' = day + 1 /\ loop' = "day"
    BY <1>6, <1>b DEF CloseDay
  <2>2. CASE PassedBy(d, t)
    BY <1>e, <2>1, <2>2
  <2>3. CASE ~PassedBy(d, t)
    <3>1. d = day /\ cursor <= t
      BY <1>6, <1>b, <1>c, <2>1, <2>3 DEF CloseDay, PassedBy
    <3>2. cursor + request.duration > ClosesAt(day) /\ ClosesAt(day) \in Int
      <4>1. ClosesAt(day) \in Int
        BY <1>b, HoursTyped
      <4>2. ~(candidate[2] <= ClosesAt(day)) /\ candidate[2] = cursor + request.duration
        BY <1>6, <2>1 DEF CloseDay, GoesOn, candidate
      <4> HIDE DEF candidate
      <4> QED
        BY <1>b, <4>1, <4>2
    <3>3. t + request.duration <= ClosesAt(day)
      BY <1>d, <3>1 DEF Suits, Within, MeetingAt
    <3> QED
      BY <1>b, <3>1, <3>2, <3>3
  <2> QED
    BY <2>2, <2>3
<1>7. CASE UNCHANGED hoursVars
  BY <1>7, <1>c, <1>e DEF hoursVars, PassedBy
<1> QED
  BY <1>1, <1>2, <1>3, <1>4, <1>5, <1>6, <1>7 DEF Walk

LEMMA DoneStep ==
  ASSUME Typed, DoneInTheEnd, [Walk]_hoursVars
  PROVE  DoneInTheEnd'
BY DEF DoneInTheEnd, Walk, Weekend, OpenDay, NoDaysLeft, Offer, StepOver, CloseDay, hoursVars

(* Whatever is busy: when fewer times are offered than were wanted, every    *)
(* half hour that suits is in a time offered or in the room after one.  The  *)
(* length of the meeting has to keep the walk on the half hours.             *)
THEOREM NoTimeIsMissed == HoursSpec => []NoneIsMissed
<1>1. HoursInit => MissInv
  <2> SUFFICES ASSUME HoursInit, NEW d \in 1..request.days
               PROVE  ~(d < 1)
    BY DEF HoursInit, MissInv, OnTheHalfHour, NothingPassed, DoneInTheEnd, PassedBy
  <2> QED
    OBVIOUS
<1>2. Typed /\ SlotInv /\ MissInv /\ [Walk]_hoursVars => MissInv'
  <2> SUFFICES ASSUME Typed, SlotInv, MissInv, [Walk]_hoursVars, Regular'
               PROVE  OnTheHalfHour' /\ NothingPassed' /\ DoneInTheEnd'
    BY DEF MissInv
  <2>1. Typed' /\ Regular
    BY TypedStep DEF Regular
  <2> QED
    BY <2>1, HalfHourStep, PassedStep, DoneStep DEF MissInv, SlotInv
<1>3. Typed /\ MissInv => NoneIsMissed
  <2> SUFFICES ASSUME Typed, MissInv, loop = "done", Len(slots) < request.count, Regular,
                      NEW d \in 1..request.days, NEW k \in 0..(Closing - Opening),
                      Suits(d, HalfHourOf(d, k))
               PROVE  \E i \in DOMAIN slots :
                        /\ slots[i][1] <= HalfHourOf(d, k)
                        /\ HalfHourOf(d, k) < slots[i][2] + request.duration
    BY DEF NoneIsMissed, Suits, HalfHourOf, MeetingAt
  <2>1. k \in Nat /\ d < day /\ DOMAIN slots = 1..Len(slots)
    BY RequestTyped DEF MissInv, DoneInTheEnd, Typed
  <2>2. Covered(HalfHourOf(d, k))
    BY <2>1 DEF MissInv, NothingPassed, PassedBy
  <2> QED
    BY <2>1, <2>2 DEF Covered
<1> QED
  BY SlotInvariance, <1>1, <1>2, <1>3, PTL DEF HoursSpec

(* Whatever the calendar and the meeting: what the walk offers is free and   *)
(* spaced out, and nothing that suits is missed.                             *)
THEOREM OffersAreAsPromised == HoursSpec => []OffersAreRight
<1>1. SlotsAreFree /\ SlotsAreSpaced /\ NoneIsMissed => OffersAreRight
  BY DEF OffersAreRight
<1> QED
  BY OfferedTimesAreFree, OfferedTimesAreSpaced, NoTimeIsMissed, <1>1, PTL

-----------------------------------------------------------------------------
(* The reading of replies *)

Hour == 0..23
Times == [day : Int, hour : Hour]

(* What the patterns may find in a reply. *)
Replies == [numbers : Seq(Nat), ordinals : SUBSET (1..3), days : SUBSET Int, hours : SUBSET Hour,
            phrases : SUBSET Phrases, verdict : Verdicts, wants : BOOLEAN]

(* The set whose only element it has, if it has one. *)
LEMMA TheOne ==
  ASSUME NEW S, IsFiniteSet(S), Cardinality(S) = 1
  PROVE  The(S) \in S /\ S = {The(S)}
<1>1. PICK x : S = {x}
  BY FS_Singleton
<1> QED
  BY <1>1 DEF The

LEMMA OnlyOne ==
  ASSUME NEW S, IsFiniteSet(S), Only(S) # NoSlot
  PROVE  Only(S) \in S /\ S = {Only(S)}
BY TheOne DEF Only

(* On a twelve-hour clock an hour is heard in itself and in four others. *)
LEMMA HeardHours ==
  ASSUME NEW h \in Hour, NEW s \in Hour
  PROVE  Hears(h, s) <=> h = s \/ <<s, h>> \in EndsIn
BY DEF Hears, Twelve, EndsIn, Hour

(* The hours a reply may be heard to say. *)
Said(r) == r.hours \union {h[2] : h \in {x \in EndsIn : x[1] \in r.hours}}

LEMMA HeardIsSaid ==
  ASSUME NEW r \in Replies, NEW h \in Hour
  PROVE  (\E s \in r.hours : Hears(h, s)) <=> h \in Said(r)
<1>1. r.hours \subseteq Hour
  BY DEF Replies
<1>2. h \in Said(r) <=> (h \in r.hours \/ \E s \in r.hours : <<s, h>> \in EndsIn)
  <2>1. \A x \in EndsIn : x = <<x[1], x[2]>>
    BY DEF EndsIn
  <2>2. h \in Said(r) <=> h \in r.hours \/ \E x \in EndsIn : x[1] \in r.hours /\ x[2] = h
    BY DEF Said
  <2>3. (\E x \in EndsIn : x[1] \in r.hours /\ x[2] = h) <=> \E s \in r.hours : <<s, h>> \in EndsIn
    BY <2>1
  <2> QED
    BY <2>2, <2>3
<1> QED
  BY <1>1, <1>2, HeardHours

(* One of distinct times stands in one place. *)
LEMMA OnePlace ==
  ASSUME NEW offer \in Seq(Times), \A i, j \in DOMAIN offer : offer[i] = offer[j] => i = j,
         NEW S, NEW t, {offer[i] : i \in DOMAIN offer} \intersect S = {t}
  PROVE  Cardinality({i \in DOMAIN offer : offer[i] \in S}) = 1
<1>1. PICK k \in DOMAIN offer : offer[k] = t
  OBVIOUS
<1>2. {i \in DOMAIN offer : offer[i] \in S} = {k}
  BY <1>1
<1> QED
  BY <1>2, FS_Singleton

(* A time that is chosen by its day or its hour. *)
NamedByDay(offer, r, chosen) ==
  /\ \E i \in DOMAIN offer : offer[i] = chosen
  /\ chosen.day \in r.days \/ chosen.hour \in Said(r)
  /\ r.days \union r.hours # {}
  /\ r.hours = {} => Cardinality({i \in DOMAIN offer : offer[i].day \in r.days}) = 1
  /\ r.days = {} => Cardinality({i \in DOMAIN offer : offer[i].hour \in Said(r)}) = 1

LEMMA ChoiceByDay ==
  ASSUME NEW offer \in Seq(Times), \A i, j \in DOMAIN offer : offer[i] = offer[j] => i = j,
         NEW r \in Replies, NEW chosen, chosen = ByDay(offer, r), chosen # NoSlot
  PROVE  NamedByDay(offer, r, chosen)
<1> DEFINE offered == {offer[i] : i \in DOMAIN offer}
           named == {s \in offered : s.day \in r.days}
           oneDay == Cardinality({s.day : s \in named}) = 1
           heard(pool) == {s \in pool : \E h \in r.hours : Hears(s.hour, h)}
<1>1. IsFiniteSet(offered) /\ offered \subseteq Times
  <2>1. DOMAIN offer = 1..Len(offer) /\ Len(offer) \in Int
    OBVIOUS
  <2>2. IsFiniteSet(DOMAIN offer)
    BY <2>1, FS_Interval
  <2>3. offer \in Surjection(DOMAIN offer, offered)
    BY DEF Surjection
  <2>4. offered \subseteq Times
    BY <2>1
  <2> HIDE DEF offered
  <2> QED
    BY <2>2, <2>3, <2>4, FS_Surjection
<1>2. IsFiniteSet(named) /\ IsFiniteSet(heard(offered)) /\ IsFiniteSet(heard(named))
  BY <1>1, FS_Subset
<1>3. chosen = IF oneDay /\ Cardinality(named) = 1 THEN The(named)
               ELSE Only(heard(IF oneDay THEN named ELSE offered))
  BY DEF ByDay, ByTime
<1>4. \A s \in Times : (\E h \in r.hours : Hears(s.hour, h)) <=> s.hour \in Said(r)
  BY HeardIsSaid DEF Times
<1>5. CASE oneDay /\ Cardinality(named) = 1
  <2>1. chosen \in named /\ named = {chosen}
    BY <1>2, <1>3, <1>5, TheOne
  <2>2. r.days # {}
    BY <2>1
  <2>3. Cardinality({i \in DOMAIN offer : offer[i].day \in r.days}) = 1
    <3>1. offered \intersect named = {chosen}
      BY <2>1
    <3>2. {i \in DOMAIN offer : offer[i] \in named} = {i \in DOMAIN offer : offer[i].day \in r.days}
      OBVIOUS
    <3>3. Cardinality({i \in DOMAIN offer : offer[i] \in named}) = 1
      <4> HIDE DEF named
      <4> QED
        BY <3>1, OnePlace, Zenon
    <3> HIDE DEF named
    <3> QED
      BY <3>2, <3>3
  <2> QED
    BY <2>1, <2>2, <2>3 DEF NamedByDay
<1>6. CASE ~(oneDay /\ Cardinality(named) = 1)
  <2>1. PICK pool : /\ pool = IF oneDay THEN named ELSE offered
                    /\ chosen = Only(heard(pool))
    BY <1>3, <1>6
  <2>2. chosen \in heard(pool) /\ heard(pool) = {chosen} /\ pool \subseteq offered
    BY <1>2, <2>1, OnlyOne
  <2>3. chosen \in offered /\ chosen.hour \in Said(r) /\ r.hours # {}
    BY <1>1, <1>4, <2>2
  <2>4. ASSUME r.days = {}
        PROVE  Cardinality({i \in DOMAIN offer : offer[i].hour \in Said(r)}) = 1
    <3>1. {s.day : s \in named} = {}
      BY <2>4
    <3>2. ~oneDay
      <4>1. Cardinality({s.day : s \in named}) = 0
        BY <3>1, FS_EmptySet, Zenon
      <4> QED
        BY <4>1
    <3>3. heard(offered) = {chosen}
      BY <2>1, <2>2, <3>2
    <3> DEFINE fits == {s \in Times : s.hour \in Said(r)}
    <3>4. offered \intersect fits = {chosen}
      BY <1>1, <1>4, <3>3
    <3>5. {i \in DOMAIN offer : offer[i] \in fits} = {i \in DOMAIN offer : offer[i].hour \in Said(r)}
      BY <1>1
    <3>6. Cardinality({i \in DOMAIN offer : offer[i] \in fits}) = 1
      <4> HIDE DEF fits
      <4> QED
        BY <3>4, OnePlace, Zenon
    <3> HIDE DEF fits
    <3> QED
      BY <3>5, <3>6
  <2> QED
    BY <2>3, <2>4 DEF NamedByDay
<1> QED
  BY <1>5, <1>6

(* What is chosen from an offer by a reply stands in it and is named by the  *)
(* reply; where the reply names no place and only days, or only hours, it is *)
(* the only time that is.                                                    *)
NamedOnce(offer, r, chosen) ==
  /\ \E i \in DOMAIN offer : offer[i] = chosen /\
       \/ r.numbers # <<>> /\ i = r.numbers[1]
       \/ i \in r.ordinals
       \/ chosen.day \in r.days \/ chosen.hour \in Said(r)
  /\ (r.numbers = <<>> /\ Cardinality(r.ordinals) = 2) => r.days \union r.hours # {}
  /\ (r.numbers = <<>> /\ r.ordinals = {} /\ r.hours = {}) =>
       Cardinality({i \in DOMAIN offer : offer[i].day \in r.days}) = 1
  /\ (r.numbers = <<>> /\ r.ordinals = {} /\ r.days = {}) =>
       Cardinality({i \in DOMAIN offer : offer[i].hour \in Said(r)}) = 1

LEMMA ChoiceIsNamed ==
  ASSUME NEW offer \in Seq(Times), \A i, j \in DOMAIN offer : offer[i] = offer[j] => i = j,
         NEW r \in Replies, NEW chosen, chosen = ExtractSlotChoice(offer, r), chosen # NoSlot
  PROVE  NamedOnce(offer, r, chosen)
<1>1. CASE r.numbers # <<>>
  <2>1. chosen = At(offer, r.numbers[1])
    BY <1>1 DEF ExtractSlotChoice, Replies
  <2>2. r.numbers[1] \in DOMAIN offer /\ offer[r.numbers[1]] = chosen
    BY <2>1 DEF At
  <2> QED
    BY <1>1, <2>2 DEF NamedOnce
<1>2. CASE r.numbers = <<>> /\ Cardinality(r.ordinals) = 1
  <2>1. chosen = At(offer, The(r.ordinals))
    BY <1>2 DEF ExtractSlotChoice
  <2>2. The(r.ordinals) \in r.ordinals
    <3>1. r.ordinals \subseteq 1..3 /\ 1 \in Int /\ 3 \in Int
      BY DEF Replies
    <3>2. IsFiniteSet(1..3)
      BY <3>1, FS_Interval, Zenon
    <3>3. IsFiniteSet(r.ordinals)
      BY <3>1, <3>2, FS_Subset
    <3> QED
      BY <1>2, <3>3, TheOne
  <2>3. The(r.ordinals) \in DOMAIN offer /\ offer[The(r.ordinals)] = chosen
    BY <2>1 DEF At
  <2> QED
    BY <1>2, <2>2, <2>3 DEF NamedOnce
<1>3. CASE r.numbers = <<>> /\ Cardinality(r.ordinals) # 1
  <2>1. chosen = ByDay(offer, r)
    BY <1>3 DEF ExtractSlotChoice
  <2>2. NamedByDay(offer, r, chosen)
    BY <2>1, ChoiceByDay
  <2> QED
    BY <1>3, <2>2 DEF NamedByDay, NamedOnce
<1> QED
  BY <1>1, <1>2, <1>3

(* How replies are read, for any times offered and any reply: opt-outs do    *)
(* not wait for the LLM, and a time is chosen only where it was offered and  *)
(* the reply names it, by its place, its day or its hour.  Where it names    *)
(* days alone, or hours alone, no other time offered has one of them; where  *)
(* it names several options, or a day and an hour that do not go together,   *)
(* one may be chosen all the same.  The times offered are distinct, as       *)
(* OfferedTimesAreSpaced has it for a meeting that takes some time.          *)
THEOREM RepliesAreReadSafely ==
  ASSUME input.kind = "reply", input.slots \in Seq(Times), input.r \in Replies,
         \A i, j \in DOMAIN input.slots : input.slots[i] = input.slots[j] => i = j
  PROVE  ReadingIsSafe
<1>1. PICK offer, r, chosen : /\ offer = input.slots /\ r = input.r
                              /\ chosen = ExtractSlotChoice(offer, r)
  OBVIOUS
<1>2. chosen # NoSlot => NamedOnce(offer, r, chosen)
  BY <1>1, ChoiceIsNamed
<1>3. /\ "unsubscribe" \in r.phrases => Reading(offer, r) \in {"UNSUBSCRIBE", "SLOT_SELECTED"}
      /\ (Reading(offer, r) = "OUT_OF_OFFICE" /\ r.verdict # "OUT_OF_OFFICE") => "away" \in r.phrases
      /\ (r.verdict = "off" /\ "not_interested" \in r.phrases) =>
           Reading(offer, r) \notin {"INTERESTED", "COMPLEX"}
      /\ (r.verdict \in {"fails", "other"} /\ r.phrases \intersect {"unsubscribe", "away"} = {}) =>
           Reading(offer, r) \in {"COMPLEX", "SLOT_SELECTED"}
  BY DEF Reading, ClassifyReply, HeuristicClassify, Parsed, VALID_CATEGORIES
<1> QED
  BY <1>1, <1>2, <1>3 DEF ReadingIsSafe, NamedOnce, Said

-----------------------------------------------------------------------------
(* The funnel *)

(* Division rounds down. *)
LEMMA Quotient ==
  ASSUME NEW x \in Nat, NEW y \in Nat, y > 0
  PROVE  x \div y \in Int /\ (x \div y) * y <= x /\ x < (x \div y) * y + y
OBVIOUS

(* A smaller part of the same whole has no larger rate. *)
LEMMA RateGrows ==
  ASSUME NEW m \in Nat, NEW n \in Nat, NEW d \in Nat, m <= n
  PROVE  Rate(m, d) <= Rate(n, d) /\ Rate(m, d) \in Int
<1>1. CASE d = 0
  BY <1>1 DEF Rate
<1>2. CASE d > 0
  <2> DEFINE x == 2000 * m + d
             y == 2000 * n + d
             w == 2 * d
  <2>1. x \in Nat /\ y \in Nat /\ w \in Nat /\ w > 0 /\ x <= y
    BY <1>2
  <2>2. Rate(m, d) = x \div w /\ Rate(n, d) = y \div w
    BY <1>2 DEF Rate
  <2> HIDE DEF x, y, w
  <2>3. PICK p, q : p = x \div w /\ q = y \div w
    OBVIOUS
  <2>4. /\ p \in Int /\ p * w <= x /\ x < p * w + w
        /\ q \in Int /\ q * w <= y /\ y < q * w + w
    BY <2>1, <2>3, Quotient
  <2>5. CASE p > q
    <3>1. (q + 1) * w <= p * w /\ (q + 1) * w = q * w + w
      BY <2>1, <2>4, <2>5
    <3>2. p * w \in Int /\ q * w \in Int
      BY <2>1, <2>4
    <3> QED
      BY <2>1, <2>4, <3>1, <3>2
  <2> QED
    BY <2>2, <2>3, <2>4, <2>5
<1> QED
  BY <1>1, <1>2

LEMMA RateOfAll ==
  ASSUME NEW d \in Nat
  PROVE  Rate(d, d) <= 1000
<1>1. CASE d = 0
  BY <1>1 DEF Rate
<1>2. CASE d > 0
  <2>1. Rate(d, d) = (2000 * d + d) \div (2 * d)
    BY <1>2 DEF Rate
  <2>2. PICK q : q = (2000 * d + d) \div (2 * d)
    OBVIOUS
  <2>3. q \in Int /\ q * (2 * d) <= 2001 * d
    BY <1>2, <2>2, Quotient
  <2>4. CASE q > 1000
    <3>1. 1001 * (2 * d) <= q * (2 * d)
      BY <1>2, <2>3, <2>4
    <3> QED
      BY <1>2, <2>3, <3>1
  <2> QED
    BY <2>1, <2>2, <2>3, <2>4
<1> QED
  BY <1>1, <1>2

LEMMA LeadsFinite ==
  ASSUME NEW rows, IsFiniteSet(rows)
  PROVE  IsFiniteSet(LeadsOf(rows))
<1> DEFINE f == [r \in rows |-> r.lead]
<1>1. f \in Surjection(rows, LeadsOf(rows))
  BY DEF Surjection, LeadsOf
<1> HIDE DEF f
<1> QED
  BY <1>1, FS_Surjection

LEMMA FunnelNested ==
  ASSUME NEW leads, NEW mail, NEW replies, IsFiniteSet(mail), NEW funnel,
         funnel = Funnel(leads, mail, replies)
  PROVE  /\ funnel.interested <= funnel.replied /\ funnel.replied <= funnel.contacted
         /\ funnel.reply_rate <= 1000 /\ funnel.interested_rate <= funnel.reply_rate
<1> DEFINE contacted == LeadsOf(Sent(mail))
           replied == LeadsOf(replies) \intersect contacted
           interested == LeadsOf({r \in replies : r.positive}) \intersect contacted
<1>1. /\ funnel.contacted = Cardinality(contacted)
      /\ funnel.replied = Cardinality(replied)
      /\ funnel.interested = Cardinality(interested)
      /\ funnel.reply_rate = Rate(Cardinality(replied), Cardinality(contacted))
      /\ funnel.interested_rate = Rate(Cardinality(interested), Cardinality(contacted))
  BY DEF Funnel
<1>2. interested \subseteq replied /\ replied \subseteq contacted
  BY DEF LeadsOf
<1>3. IsFiniteSet(contacted)
  <2>1. Sent(mail) \subseteq mail
    BY DEF Sent
  <2>2. IsFiniteSet(Sent(mail))
    BY <2>1, FS_Subset
  <2> QED
    BY <2>2, LeadsFinite
<1> HIDE DEF contacted, replied, interested
<1>4. /\ Cardinality(interested) \in Nat /\ Cardinality(replied) \in Nat
      /\ Cardinality(contacted) \in Nat
      /\ Cardinality(interested) <= Cardinality(replied)
      /\ Cardinality(replied) <= Cardinality(contacted)
  BY <1>2, <1>3, FS_Subset, FS_CardinalityType
<1>5. /\ Rate(Cardinality(interested), Cardinality(contacted))
           <= Rate(Cardinality(replied), Cardinality(contacted))
      /\ Rate(Cardinality(replied), Cardinality(contacted))
           <= Rate(Cardinality(contacted), Cardinality(contacted))
      /\ Rate(Cardinality(contacted), Cardinality(contacted)) <= 1000
      /\ Rate(Cardinality(replied), Cardinality(contacted)) \in Int
      /\ Rate(Cardinality(contacted), Cardinality(contacted)) \in Int
  BY <1>4, RateGrows, RateOfAll
<1> QED
  BY <1>1, <1>4, <1>5

(* The stages of the funnel lie in one another, and its rates are at most    *)
(* 100%, whatever rows there are.                                            *)
THEOREM FunnelStagesAreNested ==
  ASSUME input.kind = "rows", IsFiniteSet(input.mail)
  PROVE  FunnelIsNested
<1>1. PICK funnel : funnel = Funnel(input.leads, input.mail, input.replies)
  OBVIOUS
<1> QED
  BY <1>1, FunnelNested DEF FunnelIsNested
=============================================================================
