----------------------------- MODULE MCLiveParts -----------------------------
(***************************************************************************)
(* Six parts that share no state, each with a liveness property, in one    *)
(* model: a behaviour runs one of them, the others stay as they began.     *)
(***************************************************************************)
EXTENDS DataConns, UdpForwarder, UdpTunnel, LocalControl, Limiter, LogView

VARIABLE part

mcVars == <<part, vars, ufVars, utVars, lcVars, blVars, lvVars>>

MCInit ==
    /\ part \in {"data connections", "udp forwarder", "udp tunnel", "local control", "limiter",
                "log view"}
    /\ Init /\ UfInit /\ UtInit /\ LcInit /\ BlInit /\ LvInit

MCDataConns == part = "data connections" /\ Next /\ UNCHANGED <<part, ufVars, utVars, lcVars, blVars, lvVars>>
MCUdpForwarder == part = "udp forwarder" /\ UfNext /\ UNCHANGED <<part, vars, utVars, lcVars, blVars, lvVars>>
MCUdpTunnel == part = "udp tunnel" /\ UtNext /\ UNCHANGED <<part, vars, ufVars, lcVars, blVars, lvVars>>
MCLocalControl == part = "local control" /\ LcNext /\ UNCHANGED <<part, vars, ufVars, utVars, blVars, lvVars>>
MCLimiter == part = "limiter" /\ BlNext /\ UNCHANGED <<part, vars, ufVars, utVars, lcVars, lvVars>>
MCLogView == part = "log view" /\ LvNextStep /\ UNCHANGED <<part, vars, ufVars, utVars, lcVars, blVars>>

MCNext == MCDataConns \/ MCUdpForwarder \/ MCUdpTunnel \/ MCLocalControl \/ MCLimiter \/ MCLogView

\* The fairness of each module, for the part that runs.
DcOn == part = "data connections"
UfOn == part = "udp forwarder"
UtOn == part = "udp tunnel"
LcOn == part = "local control"
BlOn == part = "limiter"
LvOn == part = "log view"

MCFairness ==
    /\ WF_vars(DcOn /\ RunAsks) /\ WF_vars(DcOn /\ Refill)
    /\ WF_vars(DcOn /\ ClientStep) /\ WF_vars(DcOn /\ HeartbeatTimeout)
    /\ WF_vars(DcOn /\ Open) /\ WF_vars(DcOn /\ Push) /\ WF_vars(DcOn /\ SeeGone)
    /\ \A u \in Users : /\ WF_vars(DcOn /\ (Ask(u) \/ Asked(u)))
                        /\ WF_vars(DcOn /\ (Pop(u) \/ SeeClosed(u)))
                        /\ WF_vars(DcOn /\ SpawnRefill(u))
    /\ \A s \in UfSockets : WF_ufVars(UfOn /\ UfReaderBreaks(s)) /\ WF_ufVars(UfOn /\ UfReaderRemoves(s))
    /\ WF_utVars(UtOn /\ UtWake) /\ WF_utVars(UtOn /\ UtGet) /\ WF_utVars(UtOn /\ UtStart)
    /\ WF_utVars(UtOn /\ UtReaderFailed) /\ WF_utVars(UtOn /\ UtNoSender)
    /\ WF_utVars(UtOn /\ UtChildEnds) /\ WF_utVars(UtOn /\ UtFwdStops)
    /\ WF_utVars(UtOn /\ UtLoopAborted) /\ WF_utVars(UtOn /\ UtClosed)
    /\ WF_utVars(UtOn /\ UtClientRemoves)
    /\ \A d \in UtConns :
          /\ WF_utVars(UtOn /\ UtStartRead(d)) /\ WF_utVars(UtOn /\ UtSessionStarts(d))
          /\ WF_utVars(UtOn /\ UtMustEnd(d) /\ UtSessionEnds(d))
          /\ WF_utVars(UtOn /\ UtEnded(d) /\ UtReaderEnds(d))
    /\ WF_lcVars(LcOn /\ LcBroken)
    /\ \A p \in LcProcs : /\ WF_lcVars(LcOn /\ LcChmod(p)) /\ WF_lcVars(LcOn /\ LcLeave(p))
                          /\ WF_lcVars(LcOn /\ LcHandle(p)) /\ WF_lcVars(LcOn /\ LcReply(p))
    /\ WF_blVars(BlOn /\ BlTick)
    /\ \A r \in BlReaders : WF_blVars(BlOn /\ BlReadWaits(r))
    /\ \A w \in BlWriters : WF_blVars(BlOn /\ BlWriteWaits(w))
    /\ WF_lvVars(LvOn /\ LvTick) /\ WF_lvVars(LvOn /\ LvFlushDue) /\ WF_lvVars(LvOn /\ LvPageChanged)

MCSpec == MCInit /\ [][MCNext]_mcVars /\ MCFairness

\* Nobody waits for ever, in none of the parts: a user of the pool gets its connection, the
\* sockets of a udp session that is over are closed, a udp tunnel that lost its data
\* connection gets the next one and frees its port when it is closed, a reload request
\* ends, a stream gets its tokens, and a log line is shown, each but for the causes its
\* module names.
WaitsEnd ==
    /\ WaitEnds /\ UfSocketsClosed /\ UtReconnects /\ UtPortFreed
    /\ LcReloadEnds /\ BlServed /\ LvLineShown
=============================================================================
