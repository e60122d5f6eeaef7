---------------------------- MODULE MCTaskMemory ----------------------------
(* Instances of TaskMemory for TLC. *)
EXTENDS TaskMemory

AllCalls == CallTypes
=============================================================================
