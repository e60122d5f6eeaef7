-------------------------- MODULE MCCentralActions --------------------------
(* Instances of CentralActions for TLC. *)
EXTENDS CentralActions
=============================================================================
