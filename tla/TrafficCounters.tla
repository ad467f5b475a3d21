-------------------------- MODULE TrafficCounters --------------------------
(***************************************************************************)
(* The server's traffic metrics.  Traffic is counted per day and per hour, *)
(* in windows that move when a counter is touched; the two windows are the *)
(* same algorithm, modelled once for one unit of time and for the traffic  *)
(* of one direction.  Connections hold a guard; tunnels come and go, and a *)
(* tunnel's name may come back with another type.                          *)
(***************************************************************************)
EXTENDS Integers, FiniteSets, FiniteSetsExt

CONSTANTS
    TcWindow,    \* RESERVE_DAYS, RESERVE_HOURS
    TcTypes,     \* tunnel types
    TcConns,     \* connections of the one tunnel name
    TcLastUnit,  \* bound on the clock
    TcMaxBytes,  \* bound on the traffic
    TcNone

ASSUME TcAssumptions ==
    /\ {TcWindow, TcLastUnit} \subseteq Nat \ {0} /\ TcMaxBytes \in Nat
    /\ IsFiniteSet(TcConns) /\ TcNone \notin TcTypes

TcUnits == 0..TcLastUnit
TcAges == 0..(TcWindow - 1)

VARIABLES
    tcNow,      \* the clock, in days or in hours
    tcBack,     \* the clock was set back (history)
    tcTotal,    \* the server's counter: its newest unit, and the count per age
    tcTun,      \* the entry of the tunnel name: type, counter, active connections
    tcActive,   \* State.active_connections
    tcOfType,   \* tunnel_type_counts
    tcRuns,     \* the type of the running tunnel of that name (history)
    tcConn,     \* per connection: "none", "open" or "counted" (its bytes are in)
    tcSwapped,  \* the entry was replaced below an open connection (history)
    tcLedger    \* the server's traffic per unit, and the tunnel's (history)

tcVars == <<tcNow, tcBack, tcTotal, tcTun, tcActive, tcOfType, tcRuns, tcConn, tcSwapped, tcLedger>>
tcTunnels == <<tcOfType, tcRuns, tcSwapped>>

TcNew == [last |-> tcNow, counts |-> [a \in TcAges |-> 0]]
TcNoEntry == [type |-> TcNone, ctr |-> [last |-> 0, counts |-> [a \in TcAges |-> 0]], active |-> 0]
TcNothing == [u \in TcUnits |-> 0]

TcInit ==
    /\ tcNow = 0 /\ tcBack = FALSE
    /\ tcTotal = TcNew
    /\ tcTun = TcNoEntry
    /\ tcActive = 0
    /\ tcOfType = [t \in TcTypes |-> 0] /\ tcRuns = TcNone
    /\ tcConn = [c \in TcConns |-> "none"]
    /\ tcSwapped = FALSE
    /\ tcLedger = [server |-> TcNothing, tunnel |-> TcNothing]

-----------------------------------------------------------------------------
(* Counters.                                                               *)

\* MUTANT: a gap as long as the window is shifted like a shorter one.
TcRotatedWraps(ctr) ==
    LET shift == tcNow - ctr.last
    IN  IF tcNow <= ctr.last THEN ctr
        ELSE [last |-> tcNow,
              counts |-> [a \in TcAges |-> IF a < shift % TcWindow THEN 0
                                           ELSE ctr.counts[a - (shift % TcWindow)]]]

\* rotate: a clock that stands or went back changes nothing; a long gap empties the window.
TcRotated(ctr) ==
    LET shift == tcNow - ctr.last
    IN  IF tcNow <= ctr.last THEN ctr
        ELSE [last |-> tcNow,
              counts |-> IF shift >= TcWindow THEN [a \in TcAges |-> 0]
                         ELSE [a \in TcAges |-> IF a < shift THEN 0 ELSE ctr.counts[a - shift]]]

TcAdd(ctr, n) == [TcRotated(ctr) EXCEPT !.counts[0] = @ + n]

\* The clock goes on, or is set back.
TcClock ==
    /\ \E now \in TcUnits :
           /\ now # tcNow
           /\ tcNow' = now /\ tcBack' = (tcBack \/ now < tcNow)
    /\ UNCHANGED <<tcTotal, tcTun, tcActive, tcTunnels, tcConn, tcLedger>>

-----------------------------------------------------------------------------
(* Tunnels and connections.                                                *)

\* new_tunnel: an entry of another type is replaced, connections or not.
TcNewTunnel(t) ==
    /\ tcRuns = TcNone
    /\ tcRuns' = t
    /\ tcOfType' = [tcOfType EXCEPT ![t] = @ + 1]
    /\ IF tcTun.type = t
       THEN UNCHANGED <<tcTun, tcSwapped, tcLedger>>
       ELSE /\ tcTun' = [type |-> t, ctr |-> TcNew, active |-> 0]
            /\ tcSwapped' = (tcSwapped \/ \E c \in TcConns : tcConn[c] # "none")
            /\ tcLedger' = [tcLedger EXCEPT !.tunnel = TcNothing]
    /\ UNCHANGED <<tcNow, tcBack, tcTotal, tcActive, tcConn>>

TcCloseTunnel ==
    /\ tcRuns # TcNone
    /\ tcOfType' = [tcOfType EXCEPT ![tcRuns] = @ - 1]
    /\ tcRuns' = TcNone
    /\ UNCHANGED <<tcNow, tcBack, tcTotal, tcTun, tcActive, tcConn, tcSwapped, tcLedger>>

TcActiveBy(d) ==
    /\ tcActive' = tcActive + d
    /\ tcTun' = IF tcTun.type = TcNone THEN tcTun ELSE [tcTun EXCEPT !.active = @ + d]
    /\ UNCHANGED <<tcNow, tcBack, tcTotal, tcTunnels, tcLedger>>

\* track_connection: the guard is taken when a running tunnel serves a connection.
TcOpen(c) ==
    /\ tcConn[c] = "none" /\ tcRuns # TcNone
    /\ TcActiveBy(1)
    /\ tcConn' = [tcConn EXCEPT ![c] = "open"]

\* add_traffic_in
TcAddTraffic(n) ==
    IF n = 0 THEN UNCHANGED <<tcTotal, tcTun, tcLedger>>
    ELSE /\ tcTotal' = TcAdd(tcTotal, n)
         /\ tcTun' = IF tcTun.type = TcNone THEN tcTun ELSE [tcTun EXCEPT !.ctr = TcAdd(@, n)]
         /\ tcLedger' = [tcLedger EXCEPT !.server[tcNow] = @ + n, !.tunnel[tcNow] = @ + n]

\* join_and_record: the connection ends by itself and its n bytes are added.
TcCount(c, n) ==
    /\ tcConn[c] = "open"
    /\ MapThenSumSet(LAMBDA u : tcLedger.server[u], TcUnits) + n <= TcMaxBytes
    /\ tcConn' = [tcConn EXCEPT ![c] = "counted"]
    /\ TcAddTraffic(n)
    /\ UNCHANGED <<tcNow, tcBack, tcActive, tcTunnels>>

\* The guard is dropped; also when the task is aborted, and then its bytes are not counted.
TcDrop(c) ==
    /\ tcConn[c] # "none"
    /\ TcActiveBy(-1)
    /\ tcConn' = [tcConn EXCEPT ![c] = "none"]

-----------------------------------------------------------------------------
(* The traffic history.                                                    *)

\* last_days or last_hours, of the server or of the tunnel, rotates the counter.  The labels
\* of the history come from a second look at the clock.
TcAsk ==
    /\ \/ tcTotal' = TcRotated(tcTotal) /\ UNCHANGED tcTun
       \/ tcTun.type # TcNone /\ tcTun' = [tcTun EXCEPT !.ctr = TcRotated(@)] /\ UNCHANGED tcTotal
    /\ UNCHANGED <<tcNow, tcBack, tcActive, tcTunnels, tcConn, tcLedger>>

TcNext ==
    \/ TcClock \/ TcCloseTunnel \/ TcAsk
    \/ \E t \in TcTypes : TcNewTunnel(t)
    \/ \E c \in TcConns : TcOpen(c) \/ TcDrop(c) \/ \E n \in 0..1 : TcCount(c, n)

TcSpec == TcInit /\ [][TcNext]_tcVars

-----------------------------------------------------------------------------
TcCounters == [last : TcUnits, counts : [TcAges -> Nat]]

\* The types of the variables.
TcTypeOK ==
    /\ tcNow \in TcUnits /\ tcTotal \in TcCounters
    /\ tcTun \in [type : TcTypes \cup {TcNone}, ctr : TcCounters, active : Int]
    /\ tcActive \in Nat /\ tcOfType \in [TcTypes -> Nat] /\ tcRuns \in TcTypes \cup {TcNone}
    /\ tcConn \in [TcConns -> {"none", "open", "counted"}]
    /\ tcLedger \in [{"server", "tunnel"} -> [TcUnits -> Nat]]

\* What the dashboard would show now is for every day or hour of the window the traffic
\* of that day or hour, after any gaps between touches, unless the clock was set back.
TcHistoryTrue ==
    LET true(ctr, ledger) ==
            \A a \in TcAges : TcRotated(ctr).counts[a] = IF a <= tcNow THEN ledger[tcNow - a] ELSE 0
    IN  ~tcBack => /\ true(tcTotal, tcLedger.server)
                   /\ tcTun.type # TcNone => true(tcTun.ctr, tcLedger.tunnel)

\* The server's number of active connections is the number of guards, and so is the
\* tunnel's, unless its entry was replaced below a connection.
TcActiveTrue ==
    LET open == Cardinality({c \in TcConns : tcConn[c] # "none"})
    IN  /\ tcActive = open
        /\ tcTun.type # TcNone /\ ~tcSwapped => tcTun.active = open

\* A running tunnel's entry has its type, so its traffic is not added to another's.
TcEntryIsRunning == tcRuns # TcNone => tcTun.type = tcRuns /\ tcOfType[tcRuns] > 0

\* The dashboard shows the traffic and the connections there were, for the tunnel they were of.
TcSound == TcTypeOK /\ TcHistoryTrue /\ TcActiveTrue /\ TcEntryIsRunning
=============================================================================
