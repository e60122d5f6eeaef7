---------------------------- MODULE MCMemoryQueue ----------------------------
(* Instances of MemoryQueue for TLC. *)
EXTENDS MemoryQueue, TLC

\* Keys, turns and threads are only compared; the sets are permuted independently.
Symmetry == Permutations(Keys) \cup Permutations(Turns) \cup Permutations(Threads)
=============================================================================
