------------------------------ MODULE MCGrPool ------------------------------
(* Instances of GrPool for TLC. *)
EXTENDS GrPool

\* A pool made without a limit, and one with a limit of two.
MCLimits == {-1, 2}
=============================================================================
