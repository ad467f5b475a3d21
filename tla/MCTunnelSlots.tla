--------------------------- MODULE MCTunnelSlots ---------------------------
(* Instances of TunnelSlots for TLC.                                       *)
EXTENDS TunnelSlotsProofs, TLC

\* No white space around names.
MCTrimNothing == [n \in Names |-> n]

MCControlSymmetry == Permutations(Controls)
=============================================================================
