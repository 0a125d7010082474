-------------------------- MODULE MCGatewaySessions --------------------------
(* Instances of GatewaySessions for TLC. *)
EXTENDS GatewaySessions, TLC

ClientsAlike == Permutations(Clients)
=============================================================================
