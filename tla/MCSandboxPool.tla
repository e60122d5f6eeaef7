---------------------------- MODULE MCSandboxPool ----------------------------
(* Instances of SandboxPool for TLC: threads are interchangeable. *)
EXTENDS SandboxPool, TLC

ThreadSymmetry == Permutations(Threads)
=============================================================================
