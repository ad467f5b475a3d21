----------------------------- MODULE MCSessions -----------------------------
(* Instances of Sessions for TLC.                                          *)
EXTENDS SessionsProofs, TLC

CONSTANTS s1, s2, a1

\* Two sessions compete for one agent.
MCSharedAgent == {<<s1, a1>>, <<s2, a1>>}

MCSymmetry == Permutations(Controls)
=============================================================================
