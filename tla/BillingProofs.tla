---------------------------- MODULE BillingProofs ----------------------------
(***************************************************************************)
(* Proofs about the mirror of Stripe's state, for any set of checkout      *)
(* sessions and any number of changes: what the organization's row says    *)
(* once every event has arrived, and how often it can pay twice.           *)
(***************************************************************************)
EXTENDS Billing, FiniteSetTheorems, SequenceTheorems, TLAPS

Event == {"completed", "active", "past_due", "canceled"}
Paid == {"active", "past_due", "canceled"}

(* Every variable has its type. *)
TypeOK ==
  /\ org \in [sub : Subs \union {None}, cust : Subs \union {None}, status : {"none"} \union Paid]
  /\ stripe \in [Subs -> {"none", "open", "expired"} \union Paid]
  /\ events \in [Subs -> Seq(Event)]
  /\ changes \in [Subs -> Nat]
  /\ overlaps \in Nat

(* The queue q without its first event. *)
Rest(q) == SubSeq(q, 1, 0) \o SubSeq(q, 2, Len(q))

(* What is left of a queue are its later events. *)
LEMMA RestOfQueue ==
  ASSUME NEW q \in Seq(Event), q # <<>>
  PROVE  /\ Rest(q) \in Seq(Event)
         /\ Len(Rest(q)) = Len(q) - 1
         /\ \A i \in 1..(Len(q) - 1) : Rest(q)[i] = q[i + 1]
         /\ Rest(q) = <<>> <=> Len(q) = 1
<1> DEFINE n == Len(q)
           R == SubSeq(q, 2, n)
<1>1. n \in Nat /\ n >= 1 /\ \A i \in 1..n : q[i] \in Event
  OBVIOUS
<1>2. SubSeq(q, 1, 0) = <<>>
  BY SubSeqEmpty
<1>3. /\ R \in Seq(Event)
      /\ Len(R) = IF 2 <= n THEN n - 2 + 1 ELSE 0
      /\ \A i \in 1..(n - 2 + 1) : R[i] = q[2 + i - 1]
  BY <1>1, SubSeqProperties
<1>4. Rest(q) = R
  BY <1>2, <1>3, ConcatEmptySeq DEF Rest
<1>5. n = 1 => R = <<>>
  BY <1>1, SubSeqEmpty
<1> HIDE DEF n, R
<1>6. Len(R) = n - 1
  BY <1>1, <1>3
<1>7. ASSUME NEW i \in 1..(n - 1)
      PROVE  R[i] = q[i + 1]
  <2>1. i \in 1..(n - 2 + 1) /\ 2 + i - 1 = i + 1
    BY <1>1
  <2> QED
    BY <1>3, <2>1
<1>8. R = <<>> => n = 1
  <2>1. R = <<>> => Len(R) = 0
    OBVIOUS
  <2> QED
    BY <1>1, <1>6, <2>1
<1> QED
  BY <1>3, <1>4, <1>5, <1>6, <1>7, <1>8 DEF n

(* A step of Deliver, with events in order, takes the first one. *)
LEMMA DeliverFirst ==
  ASSUME TypeOK, InOrder, NEW s \in Subs, NEW i \in 1..(MaxChanges + 2), NEW again \in BOOLEAN,
         Deliver(s, i, again)
  PROVE  /\ Pending(s) /\ Len(events[s]) \in Nat \ {0} /\ events[s][1] \in Event
         /\ org' = IF events[s][1] = "completed" THEN Completed(s) ELSE Updated(s, events[s][1])
         /\ events' = IF again THEN events ELSE [events EXCEPT ![s] = Rest(events[s])]
         /\ UNCHANGED <<stripe, changes, overlaps>>
<1>1. i = 1 /\ 1 \in DOMAIN events[s] /\ events[s] \in Seq(Event)
  BY DEF Deliver, TypeOK
<1>2. events[s] # <<>> /\ Len(events[s]) \in Nat \ {0} /\ events[s][1] \in Event
  BY <1>1
<1> QED
  BY <1>1, <1>2 DEF Deliver, Pending, Rest

(* Every step keeps the types. *)
LEMMA TypingStep ==
  ASSUME InOrder, TypeOK, [BillingNext]_billingVars
  PROVE  TypeOK'
<1>1. ASSUME NEW s \in Subs, Checkout(s) \/ Abandon(s)
      PROVE  TypeOK'
  <2>1. overlaps' \in Nat
    BY <1>1 DEF TypeOK, Checkout, Abandon
  <2>2. stripe' \in [Subs -> {"none", "open", "expired"} \union Paid]
    BY <1>1 DEF TypeOK, Checkout, Abandon
  <2> QED
    BY <1>1, <2>1, <2>2 DEF TypeOK, Checkout, Abandon
<1>2. ASSUME NEW s \in Subs, NEW e \in Event, Emit(s, e)
      PROVE  events' \in [Subs -> Seq(Event)]
  BY <1>2 DEF TypeOK, Emit
<1>3. ASSUME NEW s \in Subs, Pay(s)
      PROVE  TypeOK'
  BY <1>2, <1>3 DEF TypeOK, Pay, Paid, Event
<1>4. ASSUME NEW s \in Subs, NEW status \in {"active", "past_due", "canceled"}, Change(s, status)
      PROVE  TypeOK'
  BY <1>2, <1>4 DEF TypeOK, Change, Paid, Event
<1>5. ASSUME NEW s \in Subs, NEW i \in 1..(MaxChanges + 2), NEW again \in BOOLEAN,
             Deliver(s, i, again)
      PROVE  TypeOK'
  <2>1. org' \in [sub : Subs \union {None}, cust : Subs \union {None},
                  status : {"none"} \union Paid]
    <3>1. CASE org' = Completed(s)
      BY <3>1 DEF Completed, Paid
    <3>2. CASE events[s][1] # "completed" /\ org' = Updated(s, events[s][1])
      <4>1. events[s][1] \in Paid
        BY <1>5, <3>2, DeliverFirst DEF Event, Paid
      <4> QED
        BY <3>2, <4>1 DEF Updated, TypeOK
    <3> QED
      BY <1>5, <3>1, <3>2, DeliverFirst
  <2>2. events' \in [Subs -> Seq(Event)]
    <3>1. Rest(events[s]) \in Seq(Event)
      BY <1>5, DeliverFirst, RestOfQueue DEF TypeOK, Pending
    <3>2. events' = events \/ events' = [events EXCEPT ![s] = Rest(events[s])]
      BY <1>5, DeliverFirst
    <3> QED
      BY <3>1, <3>2 DEF TypeOK
  <2> QED
    BY <1>5, <2>1, <2>2, DeliverFirst DEF TypeOK
<1>6. CASE UNCHANGED billingVars
  BY <1>6 DEF TypeOK, billingVars
<1> QED
  BY <1>1, <1>3, <1>4, <1>5, <1>6 DEF BillingNext

-----------------------------------------------------------------------------
(* The mirror *)

(* The status an event leaves a subscription in. *)
Reported(e) == IF e = "completed" THEN "active" ELSE e

(* The last event that is on its way tells how the subscription stands. *)
LastTells == \A s \in Subs : Pending(s) => stripe[s] = Reported(events[s][Len(events[s])])

(* The row refers to a subscription that was paid for. *)
RowIsPaid == /\ org.cust = org.sub
             /\ org.sub # None => stripe[org.sub] \in Paid

MirrorInv == LastTells /\ RowIsPaid /\ Mirrors

(* An event that Stripe emits is the last, and on its way. *)
LEMMA EmitLast ==
  ASSUME TypeOK, NEW s \in Subs, NEW e \in Event, Emit(s, e)
  PROVE  /\ Pending(s)' /\ events'[s][Len(events'[s])] = e
         /\ \A u \in Subs : u # s => events'[u] = events[u]
<1>1. events[s] \in Seq(Event) /\ events'[s] = Append(events[s], e)
  BY DEF TypeOK, Emit
<1>2. events'[s] # <<>> /\ events'[s][Len(events'[s])] = e
  BY <1>1
<1> QED
  BY <1>2 DEF Emit, TypeOK, Pending

(* Every step keeps the mirror. *)
LEMMA MirrorStep ==
  ASSUME InOrder, TypeOK, MirrorInv, [BillingNext]_billingVars
  PROVE  MirrorInv'
<1>a. org.sub \in Subs \union {None}
  BY DEF TypeOK
<1>b. \A s \in Subs : Pending(s) => stripe[s] \in Paid
  <2>1. ASSUME NEW s \in Subs, Pending(s)
        PROVE  events[s][Len(events[s])] \in Event
    BY <2>1 DEF TypeOK, Pending
  <2> QED
    BY <2>1 DEF MirrorInv, LastTells, Reported, Event, Paid
<1>1. ASSUME NEW s \in Subs, Checkout(s) \/ Abandon(s)
      PROVE  MirrorInv'
  <2>1. /\ UNCHANGED <<org, events>> /\ stripe[s] \notin Paid
        /\ \A u \in Subs : u # s => stripe'[u] = stripe[u]
    BY <1>1 DEF Checkout, Abandon, Paid, TypeOK
  <2>2. ~Pending(s) /\ org.sub # s
    BY <1>b, <2>1, BillingNoneAssumption DEF MirrorInv, RowIsPaid
  <2> QED
    BY <1>a, <2>1, <2>2 DEF MirrorInv, LastTells, RowIsPaid, Mirrors, Pending
<1>2. ASSUME NEW s \in Subs, NEW e \in Event, Emit(s, e), UNCHANGED org,
             stripe' = [stripe EXCEPT ![s] = Reported(e)]
      PROVE  MirrorInv'
  <2>1. /\ Pending(s)' /\ events'[s][Len(events'[s])] = e
        /\ \A u \in Subs : u # s => events'[u] = events[u] /\ stripe'[u] = stripe[u]
        /\ stripe'[s] = Reported(e) /\ Reported(e) \in Paid
    BY <1>2, EmitLast DEF TypeOK, Reported, Event, Paid
  <2>2. LastTells'
    BY <2>1 DEF MirrorInv, LastTells, Pending
  <2>3. RowIsPaid' /\ Mirrors'
    BY <1>2, <1>a, <2>1 DEF MirrorInv, RowIsPaid, Mirrors, Pending
  <2> QED
    BY <2>2, <2>3 DEF MirrorInv
<1>3. ASSUME NEW s \in Subs, Pay(s)
      PROVE  MirrorInv'
  BY <1>2, <1>3 DEF Pay, Reported, Event
<1>4. ASSUME NEW s \in Subs, NEW status \in {"active", "past_due", "canceled"}, Change(s, status)
      PROVE  MirrorInv'
  BY <1>2, <1>4 DEF Change, Reported, Event
<1>5. ASSUME NEW s \in Subs, NEW i \in 1..(MaxChanges + 2), NEW again \in BOOLEAN,
             Deliver(s, i, again)
      PROVE  MirrorInv'
  <2> DEFINE e == events[s][1]
  <2>1. /\ Pending(s) /\ stripe' = stripe /\ stripe[s] \in Paid
        /\ org' = IF e = "completed" THEN Completed(s) ELSE Updated(s, e)
        /\ \A u \in Subs : u # s => events'[u] = events[u]
        /\ events'[s] = events[s] \/ events'[s] = Rest(events[s])
        /\ events[s] \in Seq(Event) /\ events[s] # <<>>
    BY <1>5, <1>b, DeliverFirst DEF TypeOK, Pending
  <2>2. /\ Pending(s)' => events'[s][Len(events'[s])] = events[s][Len(events[s])]
        /\ ~Pending(s)' => e = events[s][Len(events[s])]
    <3>1. CASE events'[s] = events[s]
      BY <2>1, <3>1 DEF Pending
    <3>2. CASE events'[s] = Rest(events[s])
      BY SMTT(40), <2>1, <3>2, RestOfQueue DEF Pending
    <3> QED
      BY <2>1, <3>1, <3>2
  <2>3. LastTells'
    BY <2>1, <2>2 DEF MirrorInv, LastTells, Pending
  <2>4. stripe[s] = Reported(events[s][Len(events[s])])
    BY <2>1 DEF MirrorInv, LastTells
  <2> HIDE DEF e
  <2>5. CASE org' = org /\ org.sub # s
    BY <1>a, <2>1, <2>3, <2>5 DEF MirrorInv, RowIsPaid, Mirrors, Pending
  <2>6. CASE org'.sub = s /\ org'.cust = s /\ org'.status = Reported(e)
    <3>1. RowIsPaid'
      BY <2>1, <2>6 DEF RowIsPaid
    <3>2. Mirrors'
      BY <2>1, <2>2, <2>4, <2>6 DEF Mirrors, Pending
    <3> QED
      BY <2>3, <3>1, <3>2 DEF MirrorInv
  <2>7. (org' = org /\ org.sub # s)
          \/ (org'.sub = s /\ org'.cust = s /\ org'.status = Reported(e))
    BY <2>1 DEF MirrorInv, RowIsPaid, Completed, Updated, Finds, Reported, TypeOK
  <2> QED
    BY <2>5, <2>6, <2>7
<1>6. CASE UNCHANGED billingVars
  BY <1>6 DEF MirrorInv, LastTells, RowIsPaid, Mirrors, Pending, billingVars
<1> QED
  BY <1>1, <1>3, <1>4, <1>5, <1>6 DEF BillingNext

LEMMA MirrorAlways ==
  ASSUME InOrder
  PROVE  BillingSpec => [](TypeOK /\ MirrorInv)
<1>1. BillingInit => TypeOK /\ MirrorInv
  BY DEF BillingInit, TypeOK, MirrorInv, LastTells, RowIsPaid, Mirrors, Pending
<1>2. TypeOK /\ MirrorInv /\ [BillingNext]_billingVars => (TypeOK /\ MirrorInv)'
  BY TypingStep, MirrorStep
<1> QED
  BY <1>1, <1>2, PTL DEF BillingSpec

(* Once Stripe has nothing left to tell about the subscription the row       *)
(* refers to, the row says what Stripe says, however often events were       *)
(* delivered again and however those of other subscriptions fell in between. *)
(* BillingReordered.cfg shows that the order within a subscription is needed.*)
THEOREM RowMirrorsStripe ==
  ASSUME InOrder
  PROVE  BillingSpec => []Mirrors
<1>1. MirrorInv => Mirrors
  BY DEF MirrorInv
<1> QED
  BY MirrorAlways, <1>1, PTL

-----------------------------------------------------------------------------
(* Paying twice *)

(* What is being paid for, or can be. *)
Chargeable == {s \in Subs : stripe[s] \in Running \union {"open"}}

(* The completion of a checkout is still on its way. *)
Awaited(s) == \E i \in 1..Len(events[s]) : events[s][i] = "completed"

(* Nothing keeps the organization from a checkout that is no overlap, but a  *)
(* subscription that Stripe has not ended.                                   *)
Over == /\ org.sub = None \/ stripe[org.sub] = "canceled"
        /\ \A s \in Subs : stripe[s] # "open" /\ ~Awaited(s)

EndIsNews == \E s \in Subs : stripe[s] = "canceled" /\ Pending(s)

OverlapInv ==
  /\ IsFiniteSet(Chargeable)
  /\ Cardinality(Chargeable) <= 1 + overlaps
  /\ Over \/ EndIsNews => Cardinality(Chargeable) <= overlaps

(* A checkout leaves at most one chargeable more, and fewer once one ends.   *)
LEMMA ChargeableCount ==
  ASSUME IsFiniteSet(Chargeable), NEW s \in Subs
  PROVE  /\ Cardinality(Chargeable) \in Nat
         /\ Chargeable' = Chargeable \union {s} /\ s \notin Chargeable
              => IsFiniteSet(Chargeable') /\ Cardinality(Chargeable') = Cardinality(Chargeable) + 1
         /\ Chargeable' = Chargeable \ {s} /\ s \in Chargeable
              => IsFiniteSet(Chargeable') /\ Cardinality(Chargeable') = Cardinality(Chargeable) - 1
<1>1. Cardinality(Chargeable) \in Nat
  BY FS_CardinalityType
<1>2. /\ IsFiniteSet(Chargeable \union {s})
      /\ s \notin Chargeable => Cardinality(Chargeable \union {s}) = Cardinality(Chargeable) + 1
  BY FS_AddElement
<1>3. /\ IsFiniteSet(Chargeable \ {s})
      /\ s \in Chargeable => Cardinality(Chargeable \ {s}) = Cardinality(Chargeable) - 1
  BY FS_RemoveElement
<1> QED
  BY <1>1, <1>2, <1>3

(* A new event keeps the completion of a checkout on its way. *)
LEMMA EmitAwaited ==
  ASSUME TypeOK, NEW s \in Subs, NEW e \in Event, Emit(s, e)
  PROVE  /\ \A u \in Subs : Awaited(u) => Awaited(u)'
         /\ e = "completed" => Awaited(s)'
<1>1. /\ events[s] \in Seq(Event) /\ events'[s] = Append(events[s], e)
      /\ \A u \in Subs : u # s => events'[u] = events[u]
  BY DEF TypeOK, Emit
<1>2. /\ Len(events[s]) \in Nat /\ Len(events'[s]) = Len(events[s]) + 1
      /\ events'[s][Len(events[s]) + 1] = e
      /\ \A i \in 1..Len(events[s]) : events'[s][i] = events[s][i]
  BY <1>1
<1>3. Awaited(s) => Awaited(s)'
  BY <1>2 DEF Awaited
<1>4. e = "completed" => Awaited(s)'
  BY <1>2 DEF Awaited
<1> QED
  BY <1>1, <1>3, <1>4 DEF Awaited

(* Every step keeps the count. *)
LEMMA OverlapStep ==
  ASSUME InOrder, TypeOK, MirrorInv, OverlapInv, [BillingNext]_billingVars
  PROVE  OverlapInv'
<1>a. org.sub \in Subs \union {None} /\ overlaps \in Nat /\ None \notin Subs
  BY BillingNoneAssumption DEF TypeOK
<1>b. IsFiniteSet(Chargeable) /\ Cardinality(Chargeable) \in Nat
  BY FS_CardinalityType DEF OverlapInv
<1>1. ASSUME NEW s \in Subs, Checkout(s)
      PROVE  OverlapInv'
  <2>1. /\ UNCHANGED <<org, events>> /\ stripe[s] = "none" /\ stripe'[s] = "open"
        /\ \A u \in Subs : u # s => stripe'[u] = stripe[u]
        /\ ~Served
    BY <1>1 DEF Checkout, TypeOK
  <2>2. s \notin Chargeable /\ Chargeable' = Chargeable \union {s}
    BY <2>1 DEF Chargeable, Running
  <2>3. IsFiniteSet(Chargeable') /\ Cardinality(Chargeable') = Cardinality(Chargeable) + 1
    BY <1>b, <2>2, ChargeableCount
  <2>4. ~Over'
    BY <2>1 DEF Over
  <2>5. EndIsNews' => EndIsNews
    BY <2>1 DEF EndIsNews, Pending
  <2> DEFINE overlap == \E u \in Subs : stripe[u] = "open" \/ Pending(u) \/ stripe[u] = "past_due"
  <2>6. overlaps' = overlaps + (IF overlap THEN 1 ELSE 0)
    BY <1>1 DEF Checkout
  <2>7. CASE overlap
    BY <1>a, <1>b, <2>3, <2>4, <2>5, <2>6, <2>7 DEF OverlapInv
  <2>8. CASE ~overlap
    <3>1. \A u \in Subs : ~Awaited(u)
      <4>1. ASSUME NEW u \in Subs
            PROVE  events[u] = <<>>
        BY <2>8 DEF Pending
      <4> QED
        BY <4>1 DEF Awaited
    <3>2. org.sub = None \/ stripe[org.sub] = "canceled"
      BY <1>a, <2>1, <2>8 DEF MirrorInv, Mirrors, RowIsPaid, Paid, Served, ACTIVE_STATUSES
    <3>3. Over /\ ~EndIsNews
      BY <2>8, <3>1, <3>2 DEF Over, EndIsNews
    <3> HIDE DEF overlap
    <3> QED
      BY <1>a, <1>b, <2>3, <2>4, <2>5, <2>6, <2>8, <3>3 DEF OverlapInv
  <2> QED
    BY <2>7, <2>8
<1>2. ASSUME NEW s \in Subs, Pay(s)
      PROVE  OverlapInv'
  <2>1. /\ UNCHANGED <<org, overlaps>> /\ stripe[s] = "open" /\ stripe'[s] = "active"
        /\ \A u \in Subs : u # s => stripe'[u] = stripe[u] /\ events'[u] = events[u]
    BY <1>2 DEF Pay, Emit, TypeOK
  <2>2. Chargeable' = Chargeable
    BY <2>1 DEF Chargeable, Running
  <2>3. ~Over'
    BY <1>2, EmitAwaited DEF Pay, Event, Over
  <2>4. EndIsNews' => EndIsNews
    BY <2>1 DEF EndIsNews, Pending
  <2> QED
    BY <2>1, <2>2, <2>3, <2>4 DEF OverlapInv
<1>3. ASSUME NEW s \in Subs, Abandon(s) \/ Change(s, "canceled")
      PROVE  OverlapInv'
  <2>1. /\ overlaps' = overlaps /\ stripe[s] \in Running \union {"open"}
        /\ stripe'[s] \in {"expired", "canceled"}
        /\ \A u \in Subs : u # s => stripe'[u] = stripe[u]
    BY <1>3 DEF Abandon, Change, TypeOK
  <2>2. s \in Chargeable /\ Chargeable' = Chargeable \ {s}
    BY <2>1 DEF Chargeable, Running
  <2>3. IsFiniteSet(Chargeable') /\ Cardinality(Chargeable') = Cardinality(Chargeable) - 1
    BY <1>b, <2>2, ChargeableCount
  <2> QED
    BY <1>a, <1>b, <2>1, <2>3 DEF OverlapInv
<1>4. ASSUME NEW s \in Subs, NEW status \in {"active", "past_due"}, Change(s, status)
      PROVE  OverlapInv'
  <2>1. /\ UNCHANGED <<org, overlaps>> /\ stripe[s] \in Running /\ stripe'[s] = status
        /\ \A u \in Subs : u # s => stripe'[u] = stripe[u] /\ events'[u] = events[u]
    BY <1>4 DEF Change, Emit, TypeOK
  <2>2. Chargeable' = Chargeable
    BY <2>1 DEF Chargeable, Running
  <2>3. \A u \in Subs : Awaited(u) => Awaited(u)'
    BY <1>4, EmitAwaited DEF Change, Event
  <2>4. Over' => Over
    BY <1>a, <2>1, <2>3 DEF Over, Running
  <2>5. EndIsNews' => EndIsNews
    BY <2>1 DEF EndIsNews, Pending
  <2> QED
    BY <2>1, <2>2, <2>4, <2>5 DEF OverlapInv
<1>5. ASSUME NEW s \in Subs, NEW i \in 1..(MaxChanges + 2), NEW again \in BOOLEAN,
             Deliver(s, i, again)
      PROVE  OverlapInv'
  <2> DEFINE e == events[s][1]
  <2>1. /\ UNCHANGED <<stripe, overlaps>> /\ Pending(s)
        /\ org' = IF e = "completed" THEN Completed(s) ELSE Updated(s, e)
        /\ \A u \in Subs : u # s => events'[u] = events[u]
        /\ events'[s] = events[s] \/ events'[s] = Rest(events[s])
        /\ events[s] \in Seq(Event) /\ events[s] # <<>>
    BY <1>5, DeliverFirst DEF TypeOK, Pending
  <2>2. Chargeable' = Chargeable
    BY <2>1 DEF Chargeable
  <2>3. EndIsNews' => EndIsNews
    BY <2>1 DEF EndIsNews, Pending
  <2>4. CASE e = "completed"
    <3>1. org'.sub = s
      BY <2>1, <2>4 DEF Completed
    <3>2. Over' => EndIsNews
      BY <1>a, <2>1, <3>1 DEF Over, EndIsNews
    <3> QED
      BY <2>1, <2>2, <2>3, <3>2 DEF OverlapInv
  <2>5. CASE e # "completed"
    <3>1. org'.sub = org.sub
      BY <2>1, <2>5 DEF Updated, TypeOK
    <3>2. Awaited(s) => Awaited(s)'
      <4>1. SUFFICES ASSUME Awaited(s), events'[s] = Rest(events[s])
                     PROVE  Awaited(s)'
        BY <2>1 DEF Awaited
      <4>2. PICK j \in 1..Len(events[s]) : events[s][j] = "completed"
        BY <4>1 DEF Awaited
      <4>3. Len(events[s]) \in Nat /\ j # 1
        BY <2>1, <2>5, <4>2
      <4>4. j - 1 \in 1..(Len(events[s]) - 1) /\ (j - 1) + 1 = j
        BY <4>2, <4>3
      <4>5. j - 1 \in 1..Len(events'[s]) /\ events'[s][j - 1] = "completed"
        BY <2>1, <4>1, <4>2, <4>4, RestOfQueue
      <4> QED
        BY <4>5 DEF Awaited
    <3>3. Over' => Over
      BY <2>1, <3>1, <3>2 DEF Over, Awaited
    <3> QED
      BY <2>1, <2>2, <2>3, <3>3 DEF OverlapInv
  <2> QED
    BY <2>4, <2>5
<1>6. CASE UNCHANGED billingVars
  BY <1>6 DEF OverlapInv, Chargeable, Over, EndIsNews, Awaited, Pending, billingVars
<1> QED
  BY <1>1, <1>2, <1>3, <1>4, <1>5, <1>6 DEF BillingNext

(* An organization pays for as many subscriptions more than one as it began  *)
(* checkouts while another session, event or overdue payment was unsettled.  *)
THEOREM DoubleNeedsOverlap ==
  ASSUME InOrder
  PROVE  BillingSpec => []DoubleOnlyByOverlap
<1>1. BillingInit => OverlapInv
  <2> SUFFICES ASSUME BillingInit
               PROVE  OverlapInv
    OBVIOUS
  <2>1. Chargeable = {} /\ overlaps = 0
    BY DEF BillingInit, Chargeable, Running
  <2> QED
    BY <2>1, FS_EmptySet DEF OverlapInv
<1>2. TypeOK /\ MirrorInv /\ OverlapInv /\ [BillingNext]_billingVars => OverlapInv'
  BY OverlapStep
<1>3. TypeOK /\ OverlapInv => DoubleOnlyByOverlap
  <2> SUFFICES ASSUME TypeOK, OverlapInv
               PROVE  DoubleOnlyByOverlap
    OBVIOUS
  <2> DEFINE R == {s \in Subs : stripe[s] \in Running}
  <2>1. R \in SUBSET Chargeable
    BY DEF Chargeable
  <2>2. IsFiniteSet(Chargeable)
    BY DEF OverlapInv
  <2>3. /\ Cardinality(R) <= Cardinality(Chargeable)
        /\ Cardinality(R) \in Nat /\ Cardinality(Chargeable) \in Nat
    BY <2>1, <2>2, FS_Subset, FS_CardinalityType
  <2>4. Cardinality(Chargeable) <= 1 + overlaps /\ overlaps \in Nat
    BY DEF OverlapInv, TypeOK
  <2>5. Cardinality(R) <= 1 + overlaps
    BY <2>3, <2>4
  <2> QED
    BY <2>5 DEF DoubleOnlyByOverlap
<1> QED
  BY MirrorAlways, <1>1, <1>2, <1>3, PTL DEF BillingSpec
=============================================================================
