------------------------------- MODULE Outbox -------------------------------
(***************************************************************************)
(* What the program promises of the steps of its sequences.  A step is a   *)
(* draft until the organization starts the sequence; it then waits for its *)
(* day, and is settled once: sent, skipped or given up.  Drafts do not     *)
(* leave the house, and no step leaves it twice.                           *)
(***************************************************************************)
EXTENDS Naturals

CONSTANT Messages

VARIABLES
  stage,   \* where each step stands
  copies   \* mails that left, for each step

Stage == {"draft", "pending", "settled"}

Init == /\ stage = [m \in Messages |-> "draft"]
        /\ copies = [m \in Messages |-> 0]

(* All of S move to one stage. *)
MoveTo(S, to) == /\ stage' = [m \in Messages |-> IF m \in S THEN to ELSE stage[m]]
                 /\ UNCHANGED copies

Queue(S) == /\ \A m \in S : stage[m] = "draft"
            /\ MoveTo(S, "pending")

Settle(S) == /\ \A m \in S : stage[m] # "settled"
             /\ MoveTo(S, "settled")

(* A mail may be under way while its step is being settled. *)
Mail(m) == /\ stage[m] # "draft"
           /\ copies[m] = 0
           /\ copies' = [copies EXCEPT ![m] = 1]
           /\ UNCHANGED stage

Next == \/ \E S \in (SUBSET Messages) \ {{}} : Queue(S) \/ Settle(S)
        \/ \E m \in Messages : Mail(m)

Spec == Init /\ [][Next]_<<stage, copies>>
=============================================================================
