------------------------------ MODULE Billing -------------------------------
(***************************************************************************)
(* An organization's subscription: checkout, portal, the webhooks that      *)
(* mirror Stripe's state into the organization's row, and the gate in front *)
(* of the product (app/routers/billing.py, app/adapters/stripe_billing.py). *)
(* A checkout session names no customer, so each makes a subscription and a *)
(* customer of its own: one name stands for the session, the subscription   *)
(* and the customer.                                                        *)
(***************************************************************************)
EXTENDS Integers, Sequences, FiniteSets

CONSTANTS
  Subs,        \* checkout sessions, and what they turn into
  MaxChanges,  \* bound on the changes of a subscription at Stripe
  InOrder,     \* Stripe delivers the events of a subscription in order
  None

ASSUME ChangeAssumption == MaxChanges \in Nat
ASSUME OrderAssumption == InOrder \in BOOLEAN
ASSUME BillingNoneAssumption == None \notin Subs

VARIABLES
  org,      \* organizations: subscription, customer and status
  stripe,   \* Stripe: status of each session or subscription
  events,   \* Stripe: events of each subscription that are not acknowledged
  changes,  \* Stripe: times each subscription changed
  overlaps  \* history: checkouts begun while another could still be paid for

billingVars == <<org, stripe, events, changes, overlaps>>

ACTIVE_STATUSES == {"active", "trialing"}
Running == {"active", "past_due"}  \* Stripe goes on charging

Pending(s) == events[s] # <<>>

-----------------------------------------------------------------------------
(* The organization *)

(* require_active_subscription, with billing configured. *)
Served == org.status \in ACTIVE_STATUSES

(* Mutation: nobody looks at the status. *)
CheckoutAlways(s) ==
  /\ stripe[s] = "none"
  /\ stripe' = [stripe EXCEPT ![s] = "open"]
  /\ overlaps' = overlaps +
       (IF \E u \in Subs : stripe[u] = "open" \/ Pending(u) \/ stripe[u] = "past_due" THEN 1 ELSE 0)
  /\ UNCHANGED <<org, events, changes>>

(* checkout: refused while the row says the subscription is active. *)
Checkout(s) ==
  /\ stripe[s] = "none"
  /\ ~Served
  /\ stripe' = [stripe EXCEPT ![s] = "open"]
  /\ overlaps' = overlaps +
       (IF \E u \in Subs : stripe[u] = "open" \/ Pending(u) \/ stripe[u] = "past_due" THEN 1 ELSE 0)
  /\ UNCHANGED <<org, events, changes>>

(* Mutation: the organization is found by its customer alone, and the        *)
(* customer is the one it had first.                                         *)
FirstCustomerFinds(s) == org.sub # None

(* The row an event about s is for: by the subscription, or by the customer. *)
Finds(s) == org.sub = s \/ org.cust = s

(* checkout.session.completed *)
Completed(s) == [sub |-> s, cust |-> s, status |-> "active"]

(* customer.subscription.updated and .deleted carry the status they report. *)
Updated(s, status) == IF Finds(s) THEN [org EXCEPT !.status = status] ELSE org

-----------------------------------------------------------------------------
(* Stripe *)

Emit(s, e) == events' = [events EXCEPT ![s] = Append(@, e)]

(* The session is paid. *)
Pay(s) ==
  /\ stripe[s] = "open"
  /\ stripe' = [stripe EXCEPT ![s] = "active"]
  /\ Emit(s, "completed")
  /\ UNCHANGED <<org, changes, overlaps>>

(* A payment fails or succeeds again, or the subscription ends (through the  *)
(* portal, or after too many failures).                                      *)
Change(s, status) ==
  /\ stripe[s] \in Running \ {status}
  /\ changes[s] < MaxChanges \/ status = "canceled"
  /\ stripe' = [stripe EXCEPT ![s] = status]
  /\ changes' = [changes EXCEPT ![s] = IF status = "canceled" THEN @ ELSE @ + 1]
  /\ Emit(s, status)
  /\ UNCHANGED <<org, overlaps>>

(* The session is given up. *)
Abandon(s) ==
  /\ stripe[s] = "open"
  /\ stripe' = [stripe EXCEPT ![s] = "expired"]
  /\ UNCHANGED <<org, events, changes, overlaps>>

(* webhook: one transaction for each event.  An answer that is lost, or an   *)
(* error before the commit, makes Stripe send the event again.               *)
Deliver(s, i, again) ==
  LET e == events[s][i]
  IN /\ i \in DOMAIN events[s]
     /\ InOrder => i = 1
     /\ org' = IF e = "completed" THEN Completed(s) ELSE Updated(s, e)
     /\ events' = IF again THEN events
                  ELSE [events EXCEPT ![s] = SubSeq(@, 1, i - 1) \o SubSeq(@, i + 1, Len(@))]
     /\ UNCHANGED <<stripe, changes, overlaps>>

-----------------------------------------------------------------------------
(* Specification *)

BillingInit ==
  /\ org = [sub |-> None, cust |-> None, status |-> "none"]
  /\ stripe = [s \in Subs |-> "none"]
  /\ events = [s \in Subs |-> <<>>]
  /\ changes = [s \in Subs |-> 0]
  /\ overlaps = 0

BillingNext ==
  \E s \in Subs :
    \/ Checkout(s)
    \/ Pay(s)
    \/ Abandon(s)
    \/ \E status \in {"active", "past_due", "canceled"} : Change(s, status)
    \/ \E i \in 1..(MaxChanges + 2), again \in BOOLEAN : Deliver(s, i, again)

BillingSpec == BillingInit /\ [][BillingNext]_billingVars

-----------------------------------------------------------------------------
(* Properties *)

(* subscription_status mirrors what Stripe says, once Stripe has nothing     *)
(* left to tell: for the subscription the row refers to, with events         *)
(* redelivered and subscriptions whose events interleave.  Only InOrder:     *)
(* the comment at models.py:101 ("mirrors Stripe's values") says it without  *)
(* condition, but a late event of the same subscription overwrites a later   *)
(* one, and Stripe does not promise an order (BillingReordered.cfg).         *)
Mirrors ==
  (org.sub # None /\ ~Pending(org.sub)) => org.status = stripe[org.sub]

(* The organization pays for one subscription, except where a checkout was   *)
(* begun while another session could still be paid for, an event was still   *)
(* on its way, or a payment was overdue: the guard in checkout sees only     *)
(* what the webhooks have brought.  Only InOrder: a past_due that arrives    *)
(* after the active that followed it leaves the row overdue for good, and    *)
(* the next checkout overlaps with a subscription that is paid.              *)
DoubleOnlyByOverlap == Cardinality({s \in Subs : stripe[s] \in Running}) <= 1 + overlaps
=============================================================================
