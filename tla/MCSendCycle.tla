---------------------------- MODULE MCSendCycle -----------------------------
(* TLC instances of SendCycle: leads with a sequence of two steps, or of one. *)
EXTENDS SendCycle, TLC

CONSTANTS k1, k2, r1, r2, l1, l2

(* The owner of each message: in the order (lead_id, step). *)
TwoLeads   == <<l1, l1, l2>>
OneLead    == <<l1, l1>>

Symmetry == Permutations(Workers) \union Permutations(Handlers)
=============================================================================
