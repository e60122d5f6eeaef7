--------------------------- MODULE MCSubagentTasks ---------------------------
(* Instances of SubagentTasks for TLC. *)
EXTENDS SubagentTasks
=============================================================================
