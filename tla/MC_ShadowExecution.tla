------------------------ MODULE MC_ShadowExecution ------------------------
(* Instances of ShadowExecution for TLC. *)
EXTENDS ShadowExecution

CONSTANTS s1, s2

\* The account may be short, and work orders to sell, beside entries that buy.
OppositeHeld == {0, -1}
=============================================================================
