----------------------------- MODULE MCLeadDesk -----------------------------
(* Instances of LeadDesk for TLC: two addresses, interchangeable, which are   *)
(* two mailboxes or two spellings of one.                                    *)
EXTENDS LeadDesk, TLC

CONSTANTS a, b, desk, other

Symmetry == Permutations(Addresses)

TwoMailboxes == [x \in Addresses |-> x]
OneMailbox == [x \in Addresses |-> a]
=============================================================================
