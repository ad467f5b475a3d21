-------------------------- MODULE MCClientService --------------------------
(* Instances of ClientService for TLC.                                     *)
EXTENDS ClientService, TLC

MCSymmetry == Permutations(Conns) \cup Permutations(Tunnels)
=============================================================================
