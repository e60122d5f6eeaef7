------------------------- MODULE MCGoalContinuation -------------------------
(* Instances of GoalContinuation for TLC. *)
EXTENDS GoalContinuation
=============================================================================
