---------------------------- MODULE MCScheduling ----------------------------
(* TLC instances of Scheduling: times in units of ten minutes, meetings of   *)
(* half an hour; the times 3 and 5 overlap, 0 overlaps neither.              *)
EXTENDS Scheduling, TLC

CONSTANTS r1, r2, l1, l2, b1, b2, b3

MCSlots == {0, 3, 5}
MCTwoSlots == {3, 5}

Symmetry == Permutations(Leads) \union Permutations(Bookings)
              \union Permutations(Requests)
=============================================================================
