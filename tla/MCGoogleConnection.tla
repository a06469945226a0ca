------------------------- MODULE MCGoogleConnection -------------------------
(* Instances of GoogleConnection for TLC. *)
EXTENDS GoogleConnection, TLC

CONSTANTS s1, s2, agent, page

LoopAndPage == agent :> {"reply", "send"} @@ page :> {"status"}
=============================================================================
