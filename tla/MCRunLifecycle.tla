--------------------------- MODULE MCRunLifecycle ---------------------------
(* Instances of RunLifecycle for TLC. *)
EXTENDS RunLifecycle, TLC

\* Run ids are interchangeable: the code only compares them.
Symmetry == Permutations(Runs)
=============================================================================
