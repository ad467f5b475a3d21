--------------------------- MODULE MCControlLive ---------------------------
(***************************************************************************)
(* What the modules about sessions, tunnel slots and the client's service  *)
(* loop promise under fairness.  The three share no state here: a          *)
(* behaviour runs one of them, the others stay as they began.              *)
(***************************************************************************)
EXTENDS Sessions

CONSTANTS s1, s2, a1, SlControls, SlKeys, CsConns, CsTunnels, CsReqs

VARIABLES
    part, slByName, slByPort, slTm, slBound, slClosed, slCleaning, slFinished, slPc, slOp,
    slToClose, slToRelease, slHalf, slLeak, csPc, csCfg, csSid, csK, csSnap, csDone, csLeft,
    csQueue, csWant, csReply, csHeld, csHung, csCancel, csExit, csConn, csCut, csLogin,
    csAgent, csSeen, csFaults, csKicks, csNow, csSince

slVars == <<slByName, slByPort, slTm, slBound, slClosed, slCleaning, slFinished, slPc, slOp,
          slToClose, slToRelease, slHalf, slLeak>>
csVars == <<csPc, csCfg, csSid, csK, csSnap, csDone, csLeft, csQueue, csWant, csReply,
          csHeld, csHung, csCancel, csExit, csConn, csCut, csLogin, csAgent, csSeen,
          csFaults, csKicks, csNow, csSince>>
mcVars == <<part, vars, slVars, csVars>>

\* A session that comes and goes with and without an agent id, and another that wants
\* the same agent.
MCLoginPairs == {<<s1, a1>>, <<s1, NoAgent>>, <<s2, a1>>}

\* A name without and with white space around it.
SlNames == {"a", "a_"}
SlTrim == [n \in SlNames |-> IF n = "a_" THEN "a" ELSE n]

Slots == INSTANCE TunnelSlots WITH
    Controls <- SlControls, Names <- SlNames, PortKeys <- SlKeys, UdpKeys <- SlKeys,
    Trim <- SlTrim, Callers <- {"login", "kick"}, NoControl <- None, NoName <- None,
    NoKey <- None, byName <- slByName, byPort <- slByPort, tm <- slTm, bound <- slBound,
    closed <- slClosed, cleaning <- slCleaning, finished <- slFinished, pc <- slPc,
    op <- slOp, toClose <- slToClose, toRelease <- slToRelease, half <- slHalf,
    leak <- slLeak

Service == INSTANCE ClientService WITH
    Conns <- CsConns, Tunnels <- CsTunnels, Reqs <- CsReqs, MaxAttempts <- 5,
    MaxFaults <- 1, MaxKicks <- 0, MaxSecs <- 1, WithAgent <- TRUE, WithToken <- FALSE,
    Stops <- TRUE, HangsUp <- FALSE, None <- None, pc <- csPc, cfg <- csCfg, sid <- csSid,
    k <- csK, snap <- csSnap, done <- csDone, left <- csLeft, queue <- csQueue,
    want <- csWant, reply <- csReply, held <- csHeld, hung <- csHung, cancel <- csCancel,
    exit <- csExit, conn <- csConn, cut <- csCut, login <- csLogin, agent <- csAgent,
    seen <- csSeen, faults <- csFaults, kicks <- csKicks, now <- csNow, since <- csSince

MCInit ==
    /\ part \in {"sessions", "slots", "service"}
    /\ Init /\ Slots!Init /\ Service!Init

MCLogins == part = "sessions" /\ Next /\ UNCHANGED <<part, slVars, csVars>>
MCSlots == part = "slots" /\ Slots!Next /\ UNCHANGED <<part, vars, csVars>>
MCService == part = "service" /\ Service!Next /\ UNCHANGED <<part, vars, slVars>>

MCNext == MCLogins \/ MCSlots \/ MCService

\* The fairness of each module, for the part that runs.
SeOn == part = "sessions"
SlOn == part = "slots"
CsOn == part = "service"

SeFairness ==
    /\ \A c \in Controls : SF_vars(SeOn /\ LoginStep(c)) /\ WF_vars(SeOn /\ closed[c] /\ EndRun(c))
    /\ SF_vars(SeOn /\ KickStep)
    /\ SF_vars(SeOn /\ LookStep)

SlFairness ==
    /\ \A c \in SlControls :
        /\ WF_slVars(SlOn /\ Slots!RunStep(c) /\ slPc[c]["run"] # "loop")
        /\ WF_slVars(SlOn /\ Slots!LeaveLoop(c) /\ slClosed[c])
        /\ WF_slVars(SlOn /\ Slots!KickShutdown(c))
        /\ \A t \in Slots!Tasks : WF_slVars(SlOn /\ Slots!CleanStep(c, t))
        /\ WF_slVars(SlOn /\ Slots!DropStep(c))
    /\ WF_slVars(SlOn /\ Slots!SocketGone)

CsFairness ==
    /\ WF_csVars(CsOn /\ Service!ServiceStep)
    /\ WF_csVars(CsOn /\ Service!Tick)
    /\ \A i \in Service!Attempts :
        WF_csVars(CsOn /\ Service!ServerLogin(i)) /\ WF_csVars(CsOn /\ Service!ServerNotices(i))

MCSpec == MCInit /\ [][MCNext]_mcVars /\ SeFairness /\ SlFairness /\ CsFairness

-----------------------------------------------------------------------------
(* Properties.                                                             *)

\* Every login comes to an end, a Control that was closed leaves the table, and a login
\* that ends leaves no agent online in its name: nobody keeps a gate that another waits for.
SessionsSettle == LoginSettles /\ ClosedLeaves /\ ReleaseTakesOffline

\* A session that is closed, by whomever, is destroyed.  Also with udp tunnels, and with
\* names that are trimmed when they are claimed and not when they are released, no slot is
\* served twice and what a destroyed session leaves behind has a recorded cause.
SlotsGivenBack == Slots!ClosedIsDropped /\ [](Slots!Exclusive /\ Slots!LeakHasCause)

\* Every reload request is answered.
ReloadAnswered == Service!ReloadAnswered

\* A client that lost its session has one again, or stops for a reason.
ComesBack == Service!ComesBack

=============================================================================
