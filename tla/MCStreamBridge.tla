--------------------------- MODULE MCStreamBridge ---------------------------
(* Instances of StreamBridge for TLC: the clients are interchangeable. *)
EXTENDS StreamBridge, TLC

Symmetry == Permutations(Clients)
=============================================================================
