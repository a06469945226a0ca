--------------------------- MODULE MCReplyTriage ----------------------------
(* Instances of ReplyTriage for TLC. *)
EXTENDS ReplyTriage, TLC

CONSTANTS l1, r1, r2, r3, agent, manual

(* The lead who writes is one of the first organization. *)
LeadOfFirst == l1 :> 1
FromOne == [r \in Replies |-> l1]

(* What each reply may be taken for. *)
Conversation == r1 :> {"MEETING", "CURIOUS"}
             @@ r2 :> {"COMPLEX", "UNSUBSCRIBE"}
             @@ r3 :> {"SLOT_SELECTED", "MEETING", "CURIOUS"}
TwoReplies   == r1 :> {"MEETING", "CURIOUS", "OUT_OF_OFFICE", "UNSUBSCRIBE"}
             @@ r2 :> {"SLOT_SELECTED", "MEETING", "QUESTION", "UNSUBSCRIBE"}
MeetLater    == r1 :> {"COMPLEX"} @@ r2 :> {"MEETING"}
=============================================================================
