----------------------------- MODULE MCSafeParts -----------------------------
(***************************************************************************)
(* Four parts that share no state in one model: a behaviour runs one of    *)
(* them, the others stay as they began.                                    *)
(***************************************************************************)
EXTENDS ClientHandle, DesktopApp, TrafficCounters, ReplayCache, TLC

VARIABLE part

mcVars == <<part, vars, dkVars, tcVars, rpVars>>

MCInit ==
    /\ part \in {"handle", "desktop", "traffic", "replay cache"}
    /\ Init /\ DkInit /\ TcInit /\ RpInit

MCHandle == part = "handle" /\ Next /\ UNCHANGED <<part, dkVars, tcVars, rpVars>>
MCDesktop == part = "desktop" /\ DkNext /\ UNCHANGED <<part, vars, tcVars, rpVars>>
MCTraffic == part = "traffic" /\ TcNext /\ UNCHANGED <<part, vars, dkVars, rpVars>>
MCReplayCache == part = "replay cache" /\ RpNext /\ UNCHANGED <<part, vars, dkVars, tcVars>>

MCNext == MCHandle \/ MCDesktop \/ MCTraffic \/ MCReplayCache

MCSpec == MCInit /\ [][MCNext]_mcVars

MCSymmetry == Permutations(DkNames)
=============================================================================
