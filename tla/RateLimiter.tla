---------------------------- MODULE RateLimiter -----------------------------
(***************************************************************************)
(* rate_limit of app/security.py: the sliding window in front of signup,    *)
(* login and the password resets, for one address and one bucket.  The      *)
(* endpoints run on threads of a pool, and nothing guards the deque they    *)
(* share; each test of it and each change of it is a step.                  *)
(***************************************************************************)
EXTENDS Integers, Sequences, FiniteSets

CONSTANTS
  Threads,  \* requests that may run at once
  limit, window_seconds,
  MaxTime,  \* bound on the clock
  MaxCalls  \* bound on the calls let through

ASSUME ThreadsAssumption == IsFiniteSet(Threads)
ASSUME LimitAssumption == limit \in Nat \ {0} /\ window_seconds \in Nat
ASSUME BoundAssumption == MaxTime \in Nat /\ MaxCalls \in Nat

VARIABLES
  clock,      \* time.monotonic()
  entries,    \* the deque: when the calls it knows of came
  pc, now,    \* thread: where it stands, and when its call came
  log,        \* history: when each call let through came, and when it was let through
  overlapped  \* history: two calls have been in progress at once

vars == <<clock, entries, pc, now, log, overlapped>>

-----------------------------------------------------------------------------
(* rate_limit *)

Call(t) ==
  /\ pc[t] = "idle"
  /\ Len(log) < MaxCalls
  /\ now' = [now EXCEPT ![t] = clock]
  /\ pc' = [pc EXCEPT ![t] = "prune"]
  /\ overlapped' = (overlapped \/ \E u \in Threads \ {t} : pc[u] # "idle")
  /\ UNCHANGED <<clock, entries, log>>

(* while entries and now - entries[0] > window_seconds *)
FindEmpty(t) ==
  /\ pc[t] = "prune"
  /\ entries = <<>>
  /\ pc' = [pc EXCEPT ![t] = "count"]
  /\ UNCHANGED <<clock, entries, now, log, overlapped>>

FindSome(t) ==
  /\ pc[t] = "prune"
  /\ entries # <<>>
  /\ pc' = [pc EXCEPT ![t] = "look"]
  /\ UNCHANGED <<clock, entries, now, log, overlapped>>

(* Mutation: a call is forgotten as soon as the window is as long ago. *)
ExpiredEarly(t) == now[t] - Head(entries) >= window_seconds

Expired(t) == now[t] - Head(entries) > window_seconds

LookAtOldest(t) ==
  /\ pc[t] = "look"
  /\ entries # <<>>
  /\ pc' = [pc EXCEPT ![t] = IF Expired(t) THEN "pop" ELSE "count"]
  /\ UNCHANGED <<clock, entries, now, log, overlapped>>

PopOldest(t) ==
  /\ pc[t] = "pop"
  /\ entries # <<>>
  /\ entries' = Tail(entries)
  /\ pc' = [pc EXCEPT ![t] = "prune"]
  /\ UNCHANGED <<clock, now, log, overlapped>>

(* Another thread has emptied the deque: an IndexError ends the request. *)
FindNone(t) ==
  /\ pc[t] \in {"look", "pop"}
  /\ entries = <<>>
  /\ pc' = [pc EXCEPT ![t] = "idle"]
  /\ UNCHANGED <<clock, entries, now, log, overlapped>>

Count(t) ==
  /\ pc[t] = "count"
  /\ pc' = [pc EXCEPT ![t] = IF Len(entries) >= limit THEN "refuse" ELSE "admit"]
  /\ UNCHANGED <<clock, entries, now, log, overlapped>>

Admit(t) ==
  /\ pc[t] = "admit"
  /\ entries' = Append(entries, now[t])
  /\ log' = Append(log, [came |-> now[t], at |-> clock])
  /\ pc' = [pc EXCEPT ![t] = "idle"]
  /\ UNCHANGED <<clock, now, overlapped>>

(* 429 *)
Refuse(t) ==
  /\ pc[t] = "refuse"
  /\ pc' = [pc EXCEPT ![t] = "idle"]
  /\ UNCHANGED <<clock, entries, now, log, overlapped>>

Tick ==
  /\ clock < MaxTime
  /\ clock' = clock + 1
  /\ UNCHANGED <<entries, pc, now, log, overlapped>>

-----------------------------------------------------------------------------
Init ==
  /\ clock = 0
  /\ entries = <<>>
  /\ pc = [t \in Threads |-> "idle"]
  /\ now = [t \in Threads |-> 0]
  /\ log = <<>>
  /\ overlapped = FALSE

Step(t) ==
  \/ Call(t)
  \/ FindEmpty(t)
  \/ FindSome(t)
  \/ LookAtOldest(t)
  \/ PopOldest(t)
  \/ FindNone(t)
  \/ Count(t)
  \/ Admit(t)
  \/ Refuse(t)

Next == Tick \/ \E t \in Threads : Step(t)

Spec == Init /\ [][Next]_vars

-----------------------------------------------------------------------------
(* Properties *)

(* Every variable has its type. *)
TypeOK ==
  /\ clock \in Nat
  /\ entries \in Seq(Nat)
  /\ pc \in [Threads -> {"idle", "prune", "look", "pop", "count", "admit", "refuse"}]
  /\ now \in [Threads -> Nat]
  /\ log \in Seq([came : Nat, at : Nat])
  /\ overlapped \in BOOLEAN

(* "Raise 429 when `limit` calls in `window_seconds` is exceeded" (security.py:  *)
(* 63): no window holds more calls that were let through than the limit.  Two    *)
(* threads that count before either adds its call break it.                      *)
NoOverrun ==
  \A i \in DOMAIN log :
    Cardinality({j \in 1..i : log[i].came - log[j].came <= window_seconds}) <= limit

(* It holds as long as one call is answered after the other.                     *)
LimitHolds == ~overlapped => NoOverrun

(* Nobody is turned away for calls of long ago: whatever the threads do to the   *)
(* deque, a call that gets 429 met `limit` calls that were let through within    *)
(* the window before it came, or after.                                          *)
RefusedWhenFull ==
  \A t \in Threads : pc[t] = "refuse" =>
    Cardinality({j \in DOMAIN log : now[t] - log[j].at <= window_seconds}) >= limit

(* The deque does not grow without bound, whatever the threads drop or overlook: *)
(* each of them may add one call beyond the limit.                               *)
BucketIsBounded == Len(entries) < limit + Cardinality(Threads)

(* What the limiter keeps, with whatever threads share the deque.                *)
LimiterIsFair == LimitHolds /\ RefusedWhenFull /\ BucketIsBounded
=============================================================================
