------------------------- MODULE RateLimiterProofs --------------------------
(***************************************************************************)
(* Proofs about the sliding window, for any limit, window and threads.     *)
(***************************************************************************)
EXTENDS RateLimiter, FiniteSetTheorems, SequenceTheorems, TLAPS

-----------------------------------------------------------------------------
(* Types *)

LEMMA TypingStep ==
  ASSUME TypeOK, [Next]_vars
  PROVE  TypeOK'
<1> USE DEF TypeOK
<1>1. CASE Tick
  BY <1>1 DEF Tick
<1>2. ASSUME NEW t \in Threads, Call(t)
      PROVE  TypeOK'
  BY <1>2 DEF Call
<1>3. ASSUME NEW t \in Threads, FindEmpty(t) \/ FindSome(t) \/ LookAtOldest(t) \/ FindNone(t)
             \/ Count(t) \/ Refuse(t)
      PROVE  TypeOK'
  BY <1>3 DEF FindEmpty, FindSome, LookAtOldest, FindNone, Count, Refuse
<1>4. ASSUME NEW t \in Threads, PopOldest(t)
      PROVE  TypeOK'
  BY <1>4 DEF PopOldest
<1>5. ASSUME NEW t \in Threads, Admit(t)
      PROVE  TypeOK'
  <2>1. now[t] \in Nat /\ [came |-> now[t], at |-> clock] \in [came : Nat, at : Nat]
    OBVIOUS
  <2> QED
    BY <1>5, <2>1 DEF Admit
<1>6. CASE UNCHANGED vars
  BY <1>6 DEF vars
<1> QED
  BY <1>1, <1>2, <1>3, <1>4, <1>5, <1>6 DEF Next, Step

(* Every variable of the rate limiter keeps its type, for any threads. *)
THEOREM Typing == Spec => []TypeOK
<1>1. Init => TypeOK
  <2> SUFFICES ASSUME Init
               PROVE  TypeOK
    OBVIOUS
  <2>1. overlapped \in BOOLEAN
    BY DEF Init
  <2>2. /\ clock \in Nat /\ entries \in Seq(Nat) /\ now \in [Threads -> Nat]
        /\ log \in Seq([came : Nat, at : Nat])
        /\ pc \in [Threads -> {"idle", "prune", "look", "pop", "count", "admit", "refuse"}]
    BY DEF Init
  <2> QED
    BY <2>1, <2>2 DEF TypeOK
<1> QED
  BY <1>1, TypingStep, PTL DEF Spec

-----------------------------------------------------------------------------
(* What the steps do to the deque and the history *)

(* The deque loses its oldest entry, gains a call as the history does, or    *)
(* both stay as they are.                                                    *)
Drops == entries # <<>> /\ entries' = Tail(entries) /\ log' = log
Gains(t) == /\ entries' = Append(entries, now[t])
            /\ log' = Append(log, [came |-> now[t], at |-> clock])

LEMMA StepKinds ==
  ASSUME [Next]_vars
  PROVE  \/ UNCHANGED <<entries, log>>
         \/ \E t \in Threads : Drops /\ PopOldest(t)
         \/ \E t \in Threads : Gains(t) /\ Admit(t)
<1>1. ASSUME NEW t \in Threads, Step(t)
      PROVE  UNCHANGED <<entries, log>> \/ (Drops /\ PopOldest(t)) \/ (Gains(t) /\ Admit(t))
  BY <1>1 DEF Step, Call, FindEmpty, FindSome, LookAtOldest, PopOldest, FindNone, Count,
              Admit, Refuse, Drops, Gains
<1> QED
  BY <1>1 DEF Next, Tick, vars

(* A step is of one thread; the others stay where they are. *)
LEMMA ThreadRests ==
  ASSUME TypeOK, [Next]_vars, NEW t \in Threads, ~Step(t)
  PROVE  pc'[t] = pc[t] /\ now'[t] = now[t]
<1>1. ASSUME NEW s \in Threads, Step(s), s # t
      PROVE  pc'[t] = pc[t] /\ now'[t] = now[t]
  BY <1>1 DEF Step, Call, FindEmpty, FindSome, LookAtOldest, PopOldest, FindNone, Count,
              Admit, Refuse, TypeOK
<1> QED
  BY <1>1 DEF Next, Tick, vars

-----------------------------------------------------------------------------
(* Any number of threads: who is turned away *)

(* The number of calls that were let through and are forgotten. *)
Forgotten == Len(log) - Len(entries)

(* The deque holds the end of the history. *)
EndOfLog == /\ Len(entries) <= Len(log)
            /\ \A i \in 1..Len(entries) : entries[i] = log[Forgotten + i].came

(* Calls are let through one after the other, no earlier than they came. *)
LogInOrder == /\ \A i, j \in 1..Len(log) : i <= j => log[i].at <= log[j].at
              /\ \A i \in 1..Len(log) : log[i].came <= log[i].at /\ log[i].at <= clock
              /\ \A t \in Threads : now[t] <= clock

(* A thread that is about to count has only such calls before it as were let *)
(* through within its window, though others may have changed the deque since *)
(* it looked.                                                                *)
Within(t, j) == now[t] - log[j].at <= window_seconds
CountsRecent == \A t \in Threads : pc[t] = "count" =>
                  \A j \in 1..Len(log) : j > Forgotten => Within(t, j)

RefusalInv == EndOfLog /\ LogInOrder /\ CountsRecent /\ RefusedWhenFull

LEMMA EndOfLogStep ==
  ASSUME TypeOK, EndOfLog, [Next]_vars
  PROVE  EndOfLog' /\ (Forgotten' = Forgotten \/ (Drops /\ Forgotten' = Forgotten + 1))
<1>1. CASE UNCHANGED <<entries, log>>
  BY <1>1 DEF EndOfLog, Forgotten
<1>2. CASE Drops
  <2>1. /\ Len(entries') = Len(entries) - 1 /\ log' = log
        /\ \A i \in 1..Len(entries') : entries'[i] = entries[i + 1]
    BY <1>2 DEF Drops, TypeOK
  <2>2. Len(entries) \in Nat /\ Len(log) \in Nat /\ Len(entries) > 0
    BY <1>2 DEF Drops, TypeOK
  <2>3. Forgotten' = Forgotten + 1
    BY <2>1, <2>2 DEF Forgotten
  <2>4. ASSUME NEW i \in 1..Len(entries')
        PROVE  entries'[i] = log'[Forgotten' + i].came
    <3>1. entries[i + 1] = log[Forgotten + (i + 1)].came
      BY <2>1, <2>2 DEF EndOfLog
    <3>2. Forgotten' + i = Forgotten + (i + 1)
      BY <2>2, <2>3 DEF Forgotten
    <3> QED
      BY <2>1, <3>1, <3>2
  <2> QED
    BY <1>2, <2>1, <2>2, <2>3, <2>4 DEF EndOfLog
<1>3. ASSUME NEW t \in Threads, Gains(t)
      PROVE  EndOfLog' /\ Forgotten' = Forgotten
  <2>1. /\ Len(entries') = Len(entries) + 1 /\ Len(log') = Len(log) + 1
        /\ Len(entries) \in Nat /\ Len(log) \in Nat
    BY <1>3 DEF Gains, TypeOK
  <2>2. Forgotten' = Forgotten
    BY <2>1 DEF Forgotten
  <2>3. ASSUME NEW i \in 1..Len(entries')
        PROVE  entries'[i] = log'[Forgotten' + i].came
    <3>1. CASE i = Len(entries) + 1
      <4>1. entries'[i] = now[t]
        BY <1>3, <3>1 DEF Gains, TypeOK
      <4>2. Forgotten' + i = Len(log) + 1
        BY <2>1, <2>2, <3>1 DEF Forgotten
      <4>3. log'[Len(log) + 1] = [came |-> now[t], at |-> clock]
        BY <1>3 DEF Gains, TypeOK
      <4> QED
        BY <4>1, <4>2, <4>3
    <3>2. CASE i # Len(entries) + 1
      <4>1. i \in 1..Len(entries)
        BY <2>1, <3>2
      <4>2. entries'[i] = entries[i]
        BY <1>3, <4>1 DEF Gains, TypeOK
      <4>3. Forgotten + i \in 1..Len(log)
        BY <2>1, <4>1 DEF Forgotten, EndOfLog
      <4>4. log'[Forgotten + i] = log[Forgotten + i]
        BY <1>3, <4>3 DEF Gains, TypeOK
      <4> QED
        BY <2>2, <4>1, <4>2, <4>4 DEF EndOfLog
    <3> QED
      BY <3>1, <3>2
  <2> QED
    BY <2>1, <2>2, <2>3 DEF EndOfLog
<1> QED
  BY <1>1, <1>2, <1>3, StepKinds

LEMMA LogTyped ==
  ASSUME TypeOK, NEW i \in 1..Len(log)
  PROVE  log[i].came \in Nat /\ log[i].at \in Nat
<1>1. log \in Seq([came : Nat, at : Nat])
  BY DEF TypeOK
<1>2. log[i] \in [came : Nat, at : Nat]
  BY <1>1, ElementOfSeq, Zenon
<1> QED
  BY <1>2

LEMMA LogInOrderStep ==
  ASSUME TypeOK, LogInOrder, [Next]_vars
  PROVE  LogInOrder' /\ clock <= clock'
<1>1. clock' \in Nat /\ clock <= clock' /\ \A t \in Threads : now'[t] <= clock'
  <2>1. ASSUME NEW t \in Threads, Call(t)
        PROVE  clock' = clock /\ \A s \in Threads : now'[s] <= clock
    BY <2>1 DEF Call, LogInOrder, TypeOK
  <2>2. ASSUME NEW t \in Threads, Step(t), ~Call(t)
        PROVE  UNCHANGED <<clock, now>>
    BY <2>2 DEF Step, FindEmpty, FindSome, LookAtOldest, PopOldest, FindNone, Count, Admit, Refuse
  <2>3. CASE Tick
    BY <2>3 DEF Tick, LogInOrder, TypeOK
  <2> QED
    BY <2>1, <2>2, <2>3 DEF Next, vars, LogInOrder, TypeOK
<1>2. CASE log' = log
  <2>1. \A i \in 1..Len(log) : log[i].at \in Nat
    BY LogTyped
  <2>2. \A i \in 1..Len(log) : log[i].at \in Nat /\ log[i].at <= clock
    BY <2>1 DEF LogInOrder
  <2>a. clock \in Nat
    BY DEF TypeOK
  <2>3. \A i \in 1..Len(log) : log[i].at <= clock'
    BY <1>1, <2>2, <2>a
  <2> QED
    BY <1>1, <1>2, <2>3 DEF LogInOrder
<1>3. ASSUME NEW t \in Threads, Gains(t), Admit(t)
      PROVE  LogInOrder'
  <2>1. clock' = clock /\ now[t] <= clock /\ now[t] \in Nat /\ clock \in Nat
    BY <1>3 DEF Admit, LogInOrder, TypeOK
  <2>2. /\ Len(log') = Len(log) + 1 /\ Len(log) \in Nat
        /\ \A i \in 1..Len(log) : log'[i] = log[i]
        /\ log'[Len(log) + 1] = [came |-> now[t], at |-> clock]
    BY <1>3 DEF Gains, TypeOK
  <2>3. ASSUME NEW i \in 1..Len(log')
        PROVE  i \in 1..Len(log) \/ (log'[i].at = clock /\ log'[i].came = now[t] /\ i = Len(log'))
    BY <2>2
  <2>4. \A i \in 1..Len(log') : log'[i].came <= log'[i].at /\ log'[i].at <= clock'
    BY <2>1, <2>2, <2>3 DEF LogInOrder
  <2>5. \A i, j \in 1..Len(log') : i <= j => log'[i].at <= log'[j].at
    <3> SUFFICES ASSUME NEW i \in 1..Len(log'), NEW j \in 1..Len(log'), i <= j
                 PROVE  log'[i].at <= log'[j].at
      OBVIOUS
    <3>1. CASE j \in 1..Len(log)
      BY <2>2, <3>1 DEF LogInOrder
    <3>2. CASE j \notin 1..Len(log)
      BY <2>1, <2>3, <2>4, <3>2
    <3> QED
      BY <3>1, <3>2
  <2> QED
    BY <1>1, <2>4, <2>5 DEF LogInOrder
<1> QED
  BY <1>1, <1>2, <1>3, StepKinds DEF Drops

(* What was let through later than an entry within the window is within it.  *)
LEMMA HeadIsWithin ==
  ASSUME TypeOK, EndOfLog, LogInOrder, NEW t \in Threads, entries # <<>>, ~Expired(t)
  PROVE  \A j \in 1..Len(log) : j > Forgotten => Within(t, j)
<1> SUFFICES ASSUME NEW j \in 1..Len(log), j > Forgotten
             PROVE  Within(t, j)
  OBVIOUS
<1>1. /\ Len(entries) \in Nat /\ Len(entries) > 0 /\ Len(log) \in Nat
      /\ Head(entries) = entries[1] /\ now[t] \in Nat
  BY DEF TypeOK
<1>2. Forgotten \in Nat /\ Forgotten + 1 \in 1..Len(log) /\ Forgotten + 1 <= j
  BY <1>1 DEF Forgotten, EndOfLog
<1>3. entries[1] = log[Forgotten + 1].came
  BY <1>1 DEF EndOfLog
<1>a. \A i \in 1..Len(log) : log[i].came \in Nat /\ log[i].at \in Nat
  BY LogTyped
<1>4. /\ log[Forgotten + 1].came \in Nat /\ log[Forgotten + 1].at \in Nat /\ log[j].at \in Nat
      /\ log[Forgotten + 1].came <= log[Forgotten + 1].at
      /\ log[Forgotten + 1].at <= log[j].at
  BY <1>a, <1>2 DEF LogInOrder
<1>5. now[t] - log[Forgotten + 1].came <= window_seconds
  BY <1>1, <1>3, <1>4, LimitAssumption DEF Expired
<1> QED
  BY <1>1, <1>4, <1>5, LimitAssumption DEF Within

LEMMA CountsRecentStep ==
  ASSUME TypeOK, EndOfLog, LogInOrder, CountsRecent, [Next]_vars
  PROVE  CountsRecent'
<1> SUFFICES ASSUME NEW t \in Threads, pc'[t] = "count",
                    NEW j \in 1..Len(log'), j > Forgotten'
             PROVE  Within(t, j)'
  BY DEF CountsRecent
<1>a. Forgotten \in Int /\ (Forgotten' = Forgotten \/ Forgotten' = Forgotten + 1)
  BY EndOfLogStep DEF Forgotten, TypeOK
<1>b. j > Forgotten
  BY <1>a
<1>c. now[t] <= clock /\ now[t] \in Nat /\ clock \in Nat
  BY DEF LogInOrder, TypeOK
<1>1. ASSUME ~Step(t)
      PROVE  Within(t, j)'
  <2>1. pc[t] = "count" /\ now'[t] = now[t]
    BY <1>1, ThreadRests
  <2>2. CASE j \in 1..Len(log) /\ log'[j] = log[j]
    BY <1>b, <2>1, <2>2 DEF CountsRecent, Within
  <2>3. CASE ~(j \in 1..Len(log) /\ log'[j] = log[j])
    <3>1. PICK s \in Threads : Gains(s)
      BY <2>3, StepKinds DEF Drops
    <3>2. /\ Len(log') = Len(log) + 1 /\ Len(log) \in Nat
          /\ \A i \in 1..Len(log) : log'[i] = log[i]
          /\ log'[Len(log) + 1] = [came |-> now[s], at |-> clock]
      BY <3>1 DEF Gains, TypeOK
    <3>3. j = Len(log) + 1
      BY <2>3, <3>2
    <3> QED
      BY <1>c, <2>1, <3>2, <3>3, LimitAssumption DEF Within
  <2> QED
    BY <2>2, <2>3
<1>2. ASSUME Step(t)
      PROVE  Within(t, j)'
  <2>1. /\ FindEmpty(t) \/ LookAtOldest(t)
        /\ UNCHANGED <<entries, log, now>>
    BY <1>2 DEF Step, Call, FindEmpty, FindSome, LookAtOldest, PopOldest, FindNone, Count,
                Admit, Refuse, TypeOK
  <2>2. CASE FindEmpty(t)
    <3>1. Forgotten = Len(log) /\ Len(log) \in Nat
      BY <2>2 DEF FindEmpty, Forgotten, TypeOK
    <3> QED
      BY <1>b, <2>1, <3>1
  <2>3. CASE LookAtOldest(t)
    <3>1. entries # <<>> /\ ~Expired(t)
      BY <2>3 DEF LookAtOldest, TypeOK
    <3>2. Within(t, j)
      BY <1>b, <2>1, <3>1, HeadIsWithin
    <3> QED
      BY <2>1, <3>2 DEF Within
  <2> QED
    BY <2>1, <2>2, <2>3
<1> QED
  BY <1>1, <1>2

(* The calls let through within the window of a thread, or after. *)
Recent(t) == {j \in DOMAIN log : now[t] - log[j].at <= window_seconds}

LEMMA RecentFinite ==
  ASSUME TypeOK, NEW t \in Threads
  PROVE  IsFiniteSet(Recent(t)) /\ Recent(t) \subseteq 1..Len(log)
<1>1. DOMAIN log = 1..Len(log) /\ Len(log) \in Int
  BY DEF TypeOK
<1> QED
  BY <1>1, FS_Interval, FS_Subset DEF Recent

LEMMA RefusedStep ==
  ASSUME TypeOK, TypeOK', RefusalInv, [Next]_vars
  PROVE  RefusedWhenFull'
<1> SUFFICES ASSUME NEW t \in Threads, pc'[t] = "refuse"
             PROVE  Cardinality(Recent(t)') >= limit
  BY DEF RefusedWhenFull, Recent
<1>a. IsFiniteSet(Recent(t)) /\ IsFiniteSet(Recent(t)')
  <2>1. DOMAIN log' = 1..Len(log') /\ Len(log') \in Int
    BY DEF TypeOK
  <2>2. Recent(t)' \subseteq 1..Len(log')
    BY <2>1 DEF Recent
  <2> QED
    BY <2>1, <2>2, RecentFinite, FS_Interval, FS_Subset
<1>1. ASSUME ~Step(t)
      PROVE  Cardinality(Recent(t)') >= limit
  <2>1. pc[t] = "refuse" /\ now'[t] = now[t]
    BY <1>1, ThreadRests
  <2>2. Recent(t) \subseteq Recent(t)'
    <3>1. \A j \in DOMAIN log : j \in DOMAIN log' /\ log'[j] = log[j]
      <4>1. ASSUME NEW s \in Threads, Gains(s), NEW j \in DOMAIN log
            PROVE  j \in DOMAIN log' /\ log'[j] = log[j]
        BY <4>1 DEF Gains, TypeOK
      <4> QED
        BY <4>1, StepKinds DEF Drops
    <3> QED
      BY <2>1, <3>1 DEF Recent
  <2>3. Cardinality(Recent(t)) >= limit
    BY <2>1 DEF RefusalInv, RefusedWhenFull, Recent
  <2>4. Cardinality(Recent(t)) <= Cardinality(Recent(t)')
    BY <1>a, <2>2, FS_Subset
  <2> QED
    BY <1>a, <2>3, <2>4, FS_CardinalityType, LimitAssumption
<1>2. ASSUME Step(t)
      PROVE  Cardinality(Recent(t)') >= limit
  <2>1. Count(t) /\ pc[t] = "count" /\ Len(entries) >= limit
    BY <1>2 DEF Step, Call, FindEmpty, FindSome, LookAtOldest, PopOldest, FindNone, Count,
                Admit, Refuse, TypeOK
  <2>2. UNCHANGED <<log, now>>
    BY <2>1 DEF Count
  <2>3. /\ Len(log) \in Nat /\ Len(entries) \in Nat /\ Len(entries) <= Len(log)
        /\ DOMAIN log = 1..Len(log)
    BY DEF TypeOK, RefusalInv, EndOfLog
  <2>4. (Forgotten + 1)..Len(log) \subseteq Recent(t)
    <3> SUFFICES ASSUME NEW j \in (Forgotten + 1)..Len(log)
                 PROVE  j \in Recent(t)
      OBVIOUS
    <3>1. j \in 1..Len(log) /\ j > Forgotten
      BY <2>3 DEF Forgotten
    <3>2. Within(t, j)
      BY <2>1, <3>1 DEF RefusalInv, CountsRecent
    <3> QED
      BY <2>3, <3>1, <3>2 DEF Recent, Within
  <2>5. Cardinality((Forgotten + 1)..Len(log)) = Len(entries)
    <3>1. Forgotten + 1 \in Int /\ Len(log) \in Int
      BY <2>3 DEF Forgotten
    <3>2. Len(log) - (Forgotten + 1) + 1 = Len(entries)
      BY <2>3 DEF Forgotten
    <3>3. Forgotten + 1 > Len(log) => Len(entries) = 0
      BY <2>3 DEF Forgotten
    <3> HIDE DEF Forgotten
    <3> QED
      BY <3>1, <3>2, <3>3, FS_Interval
  <2>6. Recent(t)' = Recent(t)
    BY <2>2 DEF Recent
  <2>7. Cardinality((Forgotten + 1)..Len(log)) <= Cardinality(Recent(t))
    BY <1>a, <2>4, FS_Subset
  <2>8. Cardinality(Recent(t)) \in Nat
    BY <1>a, FS_CardinalityType
  <2> QED
    BY <2>1, <2>3, <2>5, <2>6, <2>7, <2>8, LimitAssumption
<1> QED
  BY <1>1, <1>2

(* Whoever is turned away met as many calls as the limit that were let       *)
(* through within the window or after: for any number of threads, although   *)
(* they drop each other's entries and count what others have changed.        *)
THEOREM RefusalsAreJust == Spec => []RefusedWhenFull
<1>1. Init => RefusalInv
  BY DEF Init, RefusalInv, EndOfLog, LogInOrder, CountsRecent, RefusedWhenFull, Forgotten
<1>2. TypeOK /\ RefusalInv /\ [Next]_vars => RefusalInv'
  <2> SUFFICES ASSUME TypeOK, RefusalInv, [Next]_vars
               PROVE  RefusalInv'
    OBVIOUS
  <2>1. EndOfLog /\ LogInOrder /\ CountsRecent /\ TypeOK'
    BY TypingStep DEF RefusalInv
  <2> QED
    BY <2>1, EndOfLogStep, LogInOrderStep, CountsRecentStep, RefusedStep DEF RefusalInv
<1>3. RefusalInv => RefusedWhenFull
  BY DEF RefusalInv
<1> QED
  BY Typing, <1>1, <1>2, <1>3, PTL DEF Spec

-----------------------------------------------------------------------------
(* Any number of threads: how long the deque gets *)

Admitters == {t \in Threads : pc[t] = "admit"}

(* Room for whoever may still add a call. *)
RoomInv == Len(entries) + Cardinality(Admitters) < limit + Cardinality(Threads)

LEMMA AdmittersFinite ==
  /\ IsFiniteSet(Admitters) /\ Cardinality(Admitters) \in Nat
  /\ IsFiniteSet(Admitters') /\ Cardinality(Admitters') \in Nat
  /\ Cardinality(Admitters') <= Cardinality(Threads)
  /\ Cardinality(Threads) \in Nat
<1>1. Admitters \subseteq Threads /\ Admitters' \subseteq Threads
  BY DEF Admitters
<1> QED
  BY <1>1, ThreadsAssumption, FS_Subset, FS_CardinalityType

LEMMA RoomStep ==
  ASSUME TypeOK, TypeOK', RoomInv, [Next]_vars
  PROVE  RoomInv'
<1>a. Len(entries) \in Nat /\ Len(entries') \in Nat /\ limit \in Nat
  BY LimitAssumption DEF TypeOK
<1>1. CASE Admitters' = Admitters /\ Len(entries') <= Len(entries)
  BY <1>a, <1>1, AdmittersFinite DEF RoomInv
<1>2. ASSUME NEW t \in Threads, Count(t)
      PROVE  RoomInv'
  <2>1. entries' = entries
    BY <1>2 DEF Count
  <2>2. CASE Len(entries) >= limit
    <3>1. Admitters' = Admitters
      BY <1>2, <2>2 DEF Count, Admitters, TypeOK
    <3> QED
      BY <1>a, <1>1, <2>1, <3>1
  <2>3. CASE ~(Len(entries) >= limit)
    BY <1>a, <2>1, <2>3, AdmittersFinite DEF RoomInv
  <2> QED
    BY <2>2, <2>3
<1>3. ASSUME NEW t \in Threads, Admit(t)
      PROVE  RoomInv'
  <2>1. Len(entries') = Len(entries) + 1
    BY <1>3 DEF Admit, TypeOK
  <2>2. Admitters' = Admitters \ {t} /\ t \in Admitters
    BY <1>3 DEF Admit, Admitters, TypeOK
  <2>3. Cardinality(Admitters') = Cardinality(Admitters) - 1
    BY <2>2, AdmittersFinite, FS_RemoveElement
  <2> QED
    BY <1>a, <2>1, <2>3, AdmittersFinite DEF RoomInv
<1>4. ASSUME NEW t \in Threads, Step(t), ~Count(t), ~Admit(t)
      PROVE  RoomInv'
  <2>1. Admitters' = Admitters
    BY <1>4 DEF Step, Call, FindEmpty, FindSome, LookAtOldest, PopOldest, FindNone, Refuse,
                Admitters, TypeOK
  <2>2. Len(entries') <= Len(entries)
    BY <1>a, <1>4 DEF Step, Call, FindEmpty, FindSome, LookAtOldest, PopOldest, FindNone, Refuse,
                TypeOK
  <2> QED
    BY <1>1, <2>1, <2>2
<1>5. CASE Tick \/ UNCHANGED vars
  <2>1. entries' = entries /\ Admitters' = Admitters
    BY <1>5 DEF Tick, vars, Admitters
  <2> QED
    BY <1>a, <1>1, <2>1
<1> QED
  BY <1>2, <1>3, <1>4, <1>5 DEF Next

(* However many threads share the deque, it holds less than the limit and    *)
(* one call for each of them.                                                *)
THEOREM DequeIsBounded == Spec => []BucketIsBounded
<1>1. Init => RoomInv
  <2> SUFFICES ASSUME Init PROVE RoomInv
    OBVIOUS
  <2>1. Admitters = {} /\ Len(entries) = 0
    BY DEF Init, Admitters
  <2> QED
    BY <2>1, FS_EmptySet, AdmittersFinite, LimitAssumption DEF RoomInv
<1>2. TypeOK /\ TypeOK' /\ RoomInv /\ [Next]_vars => RoomInv'
  BY RoomStep
<1>3. TypeOK /\ RoomInv => BucketIsBounded
  BY AdmittersFinite, LimitAssumption DEF RoomInv, BucketIsBounded, TypeOK
<1> QED
  BY Typing, <1>1, <1>2, <1>3, PTL DEF Spec

-----------------------------------------------------------------------------
(* One call at a time: who is let through *)

(* While no two calls have overlapped, one thread at most has a call to      *)
(* answer.                                                                   *)
OneBusy == \A s, t \in Threads : pc[s] # "idle" /\ pc[t] # "idle" => s = t

(* What is forgotten is too old to count for any call that is being answered, *)
(* or that has yet to come; and what a thread found when it looked still holds *)
(* when it acts on it.                                                        *)
ForgottenIsOld == \A j \in 1..Forgotten :
                    /\ clock - log[j].came > window_seconds
                    /\ \A t \in Threads : pc[t] # "idle" => now[t] - log[j].came > window_seconds
FoundExpired == \A t \in Threads : pc[t] = "pop" => entries # <<>> /\ Expired(t)
FoundRoom == \A t \in Threads : pc[t] = "admit" => Len(entries) < limit

SerialInv == /\ EndOfLog /\ LogInOrder
             /\ ~overlapped => OneBusy /\ ForgottenIsOld /\ FoundExpired /\ FoundRoom /\ NoOverrun

(* Calls that have overlapped have overlapped for good. *)
LEMMA OverlapStays ==
  ASSUME TypeOK, OneBusy, [Next]_vars, ~overlapped'
  PROVE  ~overlapped /\ OneBusy'
<1>1. ASSUME NEW t \in Threads, Call(t)
      PROVE  ~overlapped /\ OneBusy'
  <2>1. ~overlapped /\ \A u \in Threads \ {t} : pc[u] = "idle" /\ pc'[u] = "idle"
    BY <1>1 DEF Call, TypeOK
  <2> QED
    BY <2>1 DEF OneBusy
<1>2. ASSUME NEW t \in Threads, Step(t), ~Call(t)
      PROVE  ~overlapped /\ OneBusy'
  <2>1. overlapped' = overlapped /\ pc[t] # "idle" /\ \A u \in Threads \ {t} : pc'[u] = pc[u]
    BY <1>2 DEF Step, FindEmpty, FindSome, LookAtOldest, PopOldest, FindNone, Count, Admit,
                Refuse, TypeOK
  <2> QED
    BY <2>1 DEF OneBusy
<1>3. CASE Tick \/ UNCHANGED vars
  BY <1>3 DEF Tick, vars, OneBusy
<1> QED
  BY <1>1, <1>2, <1>3 DEF Next

LEMMA ForgottenIsOldStep ==
  ASSUME TypeOK, TypeOK', EndOfLog, LogInOrder, OneBusy, ForgottenIsOld, FoundExpired, [Next]_vars
  PROVE  ForgottenIsOld'
<1> SUFFICES ASSUME NEW j \in 1..Forgotten'
             PROVE  /\ clock' - log'[j].came > window_seconds
                    /\ \A t \in Threads : pc'[t] # "idle" => now'[t] - log'[j].came > window_seconds
  BY DEF ForgottenIsOld
<1>a. /\ EndOfLog /\ LogInOrder /\ ForgottenIsOld /\ FoundExpired
      /\ Len(log) \in Nat /\ Len(entries) \in Nat /\ Len(entries) <= Len(log)
      /\ clock \in Nat /\ clock' \in Nat /\ window_seconds \in Nat
      /\ \A t \in Threads : now[t] \in Nat /\ now[t] <= clock
  BY LimitAssumption DEF TypeOK, LogInOrder, EndOfLog
<1>b. Forgotten \in Nat /\ clock <= clock'
  BY <1>a, LogInOrderStep DEF Forgotten
<1>c. \A i \in 1..Len(log) : log[i].came \in Nat
  BY LogTyped
<1>1. CASE Drops
  <2>1. PICK t \in Threads : PopOldest(t)
    <3>1. ASSUME NEW s \in Threads, Gains(s)
          PROVE  FALSE
      <4>1. Len(log') = Len(log) + 1
        BY <3>1 DEF Gains, TypeOK
      <4> QED
        BY <1>1, <1>a, <4>1 DEF Drops
    <3>2. ~UNCHANGED <<entries, log>>
      <4>1. Len(entries') = Len(entries) - 1
        BY <1>1, <1>a DEF Drops, TypeOK
      <4> QED
        BY <4>1, <1>a
    <3> QED
      BY <3>1, <3>2, StepKinds
  <2>2. /\ pc[t] = "pop" /\ UNCHANGED <<clock, now, log>> /\ entries # <<>> /\ Expired(t)
        /\ \A s \in Threads : pc'[s] # "idle" => s = t
    BY <2>1, <1>a DEF PopOldest, FoundExpired, OneBusy, TypeOK
  <2>3. Forgotten' = Forgotten + 1
    BY <1>1, <1>a DEF Drops, Forgotten, TypeOK
  <2>4. now[t] - log[j].came > window_seconds
    <3>1. CASE j = Forgotten + 1
      <4>1. Head(entries) = entries[1] /\ 1 \in 1..Len(entries)
        BY <2>2, <1>a DEF TypeOK
      <4>2. entries[1] = log[Forgotten + 1].came
        BY <4>1, <1>a DEF EndOfLog
      <4> QED
        BY <2>2, <3>1, <4>1, <4>2 DEF Expired
    <3>2. CASE j # Forgotten + 1
      BY <1>a, <1>b, <2>2, <2>3, <3>2 DEF ForgottenIsOld
    <3> QED
      BY <3>1, <3>2
  <2>5. j \in 1..Len(log)
    <3>1. Len(entries) > 0
      BY <2>2, <1>a DEF TypeOK
    <3> QED
      BY <1>a, <1>b, <2>3, <3>1 DEF Forgotten
  <2> QED
    BY <1>a, <1>c, <2>2, <2>4, <2>5
<1>2. CASE ~Drops
  <2>1. Forgotten' = Forgotten
    BY <1>2, <1>a, EndOfLogStep
  <2>2. j \in 1..Len(log) /\ j \in 1..Forgotten
    BY <1>a, <1>b, <2>1 DEF Forgotten
  <2>3. log'[j] = log[j]
    <3>1. ASSUME NEW s \in Threads, Gains(s)
          PROVE  log'[j] = log[j]
      BY <2>2, <3>1 DEF Gains, TypeOK
    <3> QED
      BY <1>2, <3>1, StepKinds
  <2>4. clock - log[j].came > window_seconds
    BY <1>a, <2>2 DEF ForgottenIsOld
  <2>5. clock' - log'[j].came > window_seconds
    BY <1>a, <1>b, <1>c, <2>2, <2>3, <2>4
  <2>6. ASSUME NEW t \in Threads, pc'[t] # "idle"
        PROVE  now'[t] - log'[j].came > window_seconds
    <3>1. CASE Call(t)
      BY <2>3, <2>4, <3>1, <1>a DEF Call, TypeOK
    <3>2. CASE ~Call(t)
      <4>1. pc[t] # "idle" /\ now'[t] = now[t]
        <5>1. CASE Step(t)
          BY <2>6, <3>2, <5>1 DEF Step, FindEmpty, FindSome, LookAtOldest, PopOldest, FindNone,
                                  Count, Admit, Refuse, TypeOK
        <5>2. CASE ~Step(t)
          BY <2>6, <5>2, ThreadRests
        <5> QED
          BY <5>1, <5>2
      <4> QED
        BY <1>a, <2>2, <2>3, <4>1 DEF ForgottenIsOld
    <3> QED
      BY <3>1, <3>2
  <2> QED
    BY <2>5, <2>6
<1> QED
  BY <1>1, <1>2

LEMMA FoundStep ==
  ASSUME TypeOK, OneBusy, FoundExpired, FoundRoom, [Next]_vars
  PROVE  FoundExpired' /\ FoundRoom'
<1> SUFFICES ASSUME NEW t \in Threads
             PROVE  /\ pc'[t] = "pop" => entries' # <<>> /\ Expired(t)'
                    /\ pc'[t] = "admit" => Len(entries') < limit
  BY DEF FoundExpired, FoundRoom
<1>1. CASE Step(t)
  <2>1. CASE LookAtOldest(t)
    BY <2>1 DEF LookAtOldest, Expired, TypeOK
  <2>2. CASE Count(t)
    BY <2>2, LimitAssumption DEF Count, TypeOK
  <2>3. CASE ~LookAtOldest(t) /\ ~Count(t)
    BY <1>1, <2>3 DEF Step, Call, FindEmpty, FindSome, PopOldest, FindNone, Admit, Refuse, TypeOK
  <2> QED
    BY <2>1, <2>2, <2>3
<1>2. CASE ~Step(t)
  <2>1. pc'[t] = pc[t] /\ now'[t] = now[t]
    BY <1>2, ThreadRests
  <2>2. pc[t] # "idle" => entries' = entries
    <3>1. ASSUME NEW s \in Threads, Step(s), pc[t] # "idle"
          PROVE  entries' = entries
      <4>1. pc[s] = "idle"
        BY <1>2, <3>1 DEF OneBusy
      <4> QED
        BY <3>1, <4>1 DEF Step, Call, FindEmpty, FindSome, LookAtOldest, PopOldest, FindNone,
                          Count, Admit, Refuse
    <3> QED
      BY <3>1 DEF Next, Tick, vars
  <2> QED
    BY <2>1, <2>2 DEF FoundExpired, FoundRoom, Expired
<1> QED
  BY <1>1, <1>2

(* The calls let through within the window that ends with one of them. *)
Window(i) == {j \in 1..i : log[i].came - log[j].came <= window_seconds}

LEMMA NoOverrunStep ==
  ASSUME TypeOK, TypeOK', EndOfLog, ForgottenIsOld, FoundRoom, NoOverrun, [Next]_vars
  PROVE  NoOverrun'
<1>a. Len(log) \in Nat /\ DOMAIN log = 1..Len(log) /\ limit \in Nat
  BY LimitAssumption DEF TypeOK
<1>1. CASE log' = log
  BY <1>1 DEF NoOverrun
<1>2. ASSUME NEW t \in Threads, Gains(t), Admit(t)
      PROVE  NoOverrun'
  <2>1. /\ Len(log') = Len(log) + 1 /\ DOMAIN log' = 1..(Len(log) + 1)
        /\ \A j \in 1..Len(log) : log'[j] = log[j]
        /\ log'[Len(log) + 1] = [came |-> now[t], at |-> clock]
    BY <1>2 DEF Gains, TypeOK
  <2> SUFFICES ASSUME NEW i \in 1..(Len(log) + 1)
               PROVE  Cardinality(Window(i)') <= limit
    BY <2>1 DEF NoOverrun, Window
  <2>2. CASE i \in 1..Len(log)
    <3>1. Window(i)' = Window(i)
      BY <1>a, <2>1, <2>2 DEF Window
    <3>2. Cardinality(Window(i)) <= limit
      BY <1>a, <2>2 DEF NoOverrun, Window
    <3> QED
      BY <3>1, <3>2
  <2>3. CASE i = Len(log) + 1
    <3>1. /\ Len(entries) \in Nat /\ Len(entries) <= Len(log) /\ Len(entries) < limit
          /\ ForgottenIsOld /\ pc[t] = "admit"
      BY <1>2 DEF FoundRoom, EndOfLog, Admit, TypeOK
    <3>2. \A j \in 1..Forgotten : now[t] - log[j].came > window_seconds
      BY <3>1 DEF ForgottenIsOld
    <3>3. Window(i)' \subseteq (Forgotten + 1)..(Len(log) + 1)
      <4> SUFFICES ASSUME NEW j \in 1..(Len(log) + 1), j < Forgotten + 1,
                          now[t] - log'[j].came <= window_seconds
                   PROVE  FALSE
        BY <1>a, <2>1, <2>3, <3>1 DEF Window, Forgotten
      <4>1. j \in 1..Forgotten /\ j \in 1..Len(log)
        BY <1>a, <3>1 DEF Forgotten
      <4>2. log[j].came \in Nat /\ now[t] \in Nat /\ window_seconds \in Nat
        BY <4>1, LogTyped, LimitAssumption DEF TypeOK
      <4> QED
        BY <2>1, <3>2, <4>1, <4>2
    <3>4. /\ IsFiniteSet((Forgotten + 1)..(Len(log) + 1))
          /\ Cardinality((Forgotten + 1)..(Len(log) + 1)) = Len(entries) + 1
      <4>1. /\ Forgotten + 1 \in Int /\ Len(log) + 1 \in Int
            /\ (Len(log) + 1) - (Forgotten + 1) + 1 = Len(entries) + 1
            /\ ~(Forgotten + 1 > Len(log) + 1)
        BY <1>a, <3>1 DEF Forgotten
      <4> HIDE DEF Forgotten
      <4> QED
        BY <4>1, FS_Interval
    <3>5. Cardinality(Window(i)') <= Len(entries) + 1 /\ Cardinality(Window(i)') \in Nat
      BY <3>3, <3>4, FS_Subset, FS_CardinalityType
    <3> QED
      BY <1>a, <3>1, <3>5
  <2> QED
    BY <2>2, <2>3
<1> QED
  BY <1>1, <1>2, StepKinds DEF Drops

(* As long as calls are answered one after the other, no window holds more   *)
(* calls that were let through than the limit, whatever the limit and the    *)
(* window.  The invariant says that only what is too old to count is dropped.*)
LEMMA LimitIsKept == Spec => []LimitHolds
<1>1. Init => SerialInv
  BY DEF Init, SerialInv, EndOfLog, LogInOrder, OneBusy, ForgottenIsOld, FoundExpired, FoundRoom,
         NoOverrun, Forgotten
<1>2. TypeOK /\ TypeOK' /\ SerialInv /\ [Next]_vars => SerialInv'
  <2> SUFFICES ASSUME TypeOK, TypeOK', SerialInv, [Next]_vars
               PROVE  SerialInv'
    OBVIOUS
  <2>1. EndOfLog /\ LogInOrder /\ EndOfLog' /\ LogInOrder'
    BY EndOfLogStep, LogInOrderStep DEF SerialInv
  <2>2. ASSUME ~overlapped'
        PROVE  OneBusy' /\ ForgottenIsOld' /\ FoundExpired' /\ FoundRoom' /\ NoOverrun'
    <3>1. ~overlapped
      <4>1. ASSUME NEW t \in Threads, Step(t)
            PROVE  ~overlapped
        BY <2>2, <4>1 DEF Step, Call, FindEmpty, FindSome, LookAtOldest, PopOldest, FindNone,
                          Count, Admit, Refuse
      <4> QED
        BY <2>2, <4>1 DEF Next, Tick, vars
    <3>2. OneBusy /\ ForgottenIsOld /\ FoundExpired /\ FoundRoom /\ NoOverrun
      BY <3>1 DEF SerialInv
    <3> QED
      BY <2>1, <2>2, <3>2, OverlapStays, ForgottenIsOldStep, FoundStep, NoOverrunStep
  <2> QED
    BY <2>1, <2>2 DEF SerialInv
<1>3. SerialInv => LimitHolds
  BY DEF SerialInv, LimitHolds
<1> QED
  BY Typing, <1>1, <1>2, <1>3, PTL DEF Spec

(* Any number of threads, any limit and window: nobody is turned away for    *)
(* calls of long ago, the deque stays small, and the limit is kept as long   *)
(* as calls do not overlap.                                                  *)
THEOREM LimiterKeepsItsWord == Spec => []LimiterIsFair
<1>1. LimitHolds /\ RefusedWhenFull /\ BucketIsBounded => LimiterIsFair
  BY DEF LimiterIsFair
<1> QED
  BY LimitIsKept, RefusalsAreJust, DequeIsBounded, <1>1, PTL
=============================================================================
