---------------------------- MODULE MCScheduler ----------------------------
(* Instances of Scheduler for TLC. *)
EXTENDS Scheduler, TLC

\* Run rows are interchangeable.
Symmetry == Permutations(Rows)
=============================================================================
