--------------------------- MODULE LeadLifecycle ---------------------------
(***************************************************************************)
(* What the program promises of the state of a lead: it moves along the    *)
(* table of app/state_machine.py, or along one of the assignments the      *)
(* reply triage makes without consulting that table, and it never leaves a *)
(* terminal state.  Modules that change leads implement this one.          *)
(***************************************************************************)

CONSTANT Leads

VARIABLE leadState

LeadState == {"NEW", "SCORED", "OUTREACH_PENDING", "SEQUENCE_ACTIVE",
              "ENGAGED", "MEETING_PROPOSED", "AWAITING_APPROVAL",
              "MEETING_CONFIRMED", "NOT_INTERESTED", "UNSUBSCRIBED"}

ALLOWED_TRANSITIONS ==
  [NEW               |-> {"SCORED"},
   SCORED            |-> {"OUTREACH_PENDING"},
   OUTREACH_PENDING  |-> {"SEQUENCE_ACTIVE", "MEETING_PROPOSED"},
   SEQUENCE_ACTIVE   |-> {"ENGAGED", "MEETING_PROPOSED", "NOT_INTERESTED",
                          "UNSUBSCRIBED"},
   ENGAGED           |-> {"MEETING_PROPOSED", "NOT_INTERESTED", "UNSUBSCRIBED"},
   MEETING_PROPOSED  |-> {"AWAITING_APPROVAL", "ENGAGED", "NOT_INTERESTED",
                          "UNSUBSCRIBED"},
   AWAITING_APPROVAL |-> {"MEETING_CONFIRMED", "MEETING_PROPOSED"},
   MEETING_CONFIRMED |-> {},
   NOT_INTERESTED    |-> {},
   UNSUBSCRIBED      |-> {}]

(***************************************************************************)
(* A reply can arrive before activation; the triage then assigns the state *)
(* directly, where the table has no such transition.                       *)
(***************************************************************************)
BypassTargets(from) ==
  IF from = "OUTREACH_PENDING"
    THEN {"ENGAGED", "NOT_INTERESTED", "UNSUBSCRIBED"}
    ELSE {}

MayMove(from, to) == to \in ALLOWED_TRANSITIONS[from] \union BypassTargets(from)

Terminal == {"MEETING_CONFIRMED", "NOT_INTERESTED", "UNSUBSCRIBED"}

Init == leadState = [l \in Leads |-> "NEW"]

Next == \E l \in Leads, to \in LeadState :
          /\ MayMove(leadState[l], to)
          /\ leadState' = [leadState EXCEPT ![l] = to]

Spec == Init /\ [][Next]_leadState

(***************************************************************************)
(* A lead in a terminal state stays there ("NOT_INTERESTED and             *)
(* UNSUBSCRIBED are terminal", app/state_machine.py:14).                   *)
(***************************************************************************)
TerminalIsFinal == [][\A l \in Leads : leadState[l] \in Terminal
                                         => leadState'[l] = leadState[l]]_leadState
=============================================================================
