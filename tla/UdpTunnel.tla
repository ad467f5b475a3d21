----------------------------- MODULE UdpTunnel -----------------------------
(***************************************************************************)
(* A udp tunnel: its tasks on the server, the data connections they use    *)
(* one after the other, and the client's session at the other end of each. *)
(*                                                                         *)
(* On the server the tunnel holds its socket; so do the task that receives *)
(* from it ("fwd") and the child that task spawns to send the replies.  A  *)
(* second task ("loop") gets data connections and spawns a reader for each *)
(* one.  close() wakes both tasks, aborts them and waits for them; what    *)
(* they had spawned is detached.  The child ends when nobody is left that  *)
(* could hand it a reply, and only then is the port free.                  *)
(***************************************************************************)
EXTENDS Naturals, FiniteSets

CONSTANTS
    UtConns,     \* data connections, in the order they are made
    UtMaxFaults  \* bound on failures of connections

ASSUME UtAssumptions == UtConns = 1..Cardinality(UtConns) /\ UtMaxFaults \in Nat

VARIABLES
    utTun,      \* "open", "closing" while close() waits for the tasks, "closed"
    utFwd,      \* the receiving task: "run", "gone"
    utChild,    \* its child, which sends to the visitors: "run", "gone"
    utLoop,     \* where data_conn_loop is
    utWoken,    \* the loop was waiting for the notification when close() gave it
    utConn,     \* the current data connection, 0 before the first
    utReader,   \* utReader[d]: "none", "run", "failed" (it told the loop), "gone"
    utSess,     \* utSess[d]: the client's session on d: "none", "found" its tunnel,
                \* "run", "cancelled" or "over"
    utCut,      \* the data connections that the server closed
    utSlot,     \* TunnelEntry.udp_cancel: the session that a new one replaces, or 0
    utEntry,    \* the client's manager has the tunnel
    utCause,    \* socket errors, and a removal that missed a session (history)
    utFaults

utVars == <<utTun, utFwd, utChild, utLoop, utWoken, utConn, utReader, utCut, utSess, utSlot,
            utEntry, utCause, utFaults>>
utServer == <<utTun, utFwd, utChild, utLoop, utWoken, utConn, utReader, utCut>>
utClient == <<utSess, utSlot, utEntry>>

UtInit ==
    /\ utTun = "open" /\ utFwd = "run" /\ utChild = "run" /\ utLoop = "sleep"
    /\ utWoken = FALSE
    /\ utConn = 0
    /\ utReader = [d \in UtConns |-> "none"]
    /\ utCut = {}
    /\ utSess = [d \in UtConns |-> "none"]
    /\ utSlot = 0 /\ utEntry = TRUE
    /\ utCause = {} /\ utFaults = 0

\* The data connection d is closed at the client's end.
UtEnded(d) == utSess[d] = "over"

UtFault ==
    /\ utFaults < UtMaxFaults
    /\ utFaults' = utFaults + 1

-----------------------------------------------------------------------------
(* The server's loop.                                                      *)

UtLoopGoes(p) ==
    /\ utLoop' = p
    /\ UNCHANGED <<utTun, utFwd, utChild, utWoken, utCut, utClient, utCause>>

\* Half a second after the start, and a second after a failure; the loop ends at its
\* head when the tunnel is closed.
UtWake ==
    /\ utLoop \in {"sleep", "retry"}
    /\ UtLoopGoes(IF utTun = "open" THEN "get" ELSE "gone")
    /\ UNCHANGED <<utConn, utReader, utFaults>>

UtGet ==
    /\ utLoop = "get" /\ utConn + 1 \in UtConns
    /\ UtLoopGoes("start")
    /\ utConn' = utConn + 1
    /\ UNCHANGED <<utReader, utFaults>>

UtGetFails ==
    /\ utLoop = "get"
    /\ UtFault
    /\ UtLoopGoes("retry")
    /\ UNCHANGED <<utConn, utReader>>

\* StartDataConn is written; the client begins its session when it reads it.
UtStart ==
    /\ utLoop = "start"
    /\ UtLoopGoes("join")
    /\ utReader' = [utReader EXCEPT ![utConn] = "run"]
    /\ UNCHANGED <<utConn, utFaults>>

\* MUTANT: the loop ends when a data connection breaks at once.
UtStartFailsReturns ==
    /\ utLoop = "start"
    /\ UtFault
    /\ utLoop' = "gone"
    /\ utCut' = utCut \cup {utConn}
    /\ UNCHANGED <<utTun, utFwd, utChild, utWoken, utConn, utReader, utClient, utCause>>

UtStartFails ==
    /\ utLoop = "start"
    /\ UtFault
    /\ utLoop' = "retry"
    /\ utCut' = utCut \cup {utConn}
    /\ UNCHANGED <<utTun, utFwd, utChild, utWoken, utConn, utReader, utClient, utCause>>

\* A visitor's packet is written to the data connection, which may take its time.
UtPacket ==
    /\ utLoop = "join" /\ utFwd = "run"
    /\ UtLoopGoes("write")
    /\ UNCHANGED <<utConn, utReader, utFaults>>

UtWritten ==
    /\ utLoop = "write"
    /\ UtLoopGoes("join")
    /\ UNCHANGED <<utConn, utReader, utFaults>>

\* The loop aborts its reader, waits for it and drops the connection.
UtDropConn ==
    /\ utReader' = [utReader EXCEPT ![utConn] = "gone"]
    /\ utCut' = utCut \cup {utConn}

UtWriteFails ==
    /\ utLoop = "write" /\ UtFault
    /\ UtDropConn
    /\ utLoop' = IF utTun = "open" THEN "get" ELSE "gone"
    /\ UNCHANGED <<utTun, utFwd, utChild, utWoken, utConn, utClient, utCause>>

\* The reader told the loop that the connection ended.
UtReaderFailed ==
    /\ utLoop = "join" /\ utReader[utConn] = "failed"
    /\ UtDropConn
    /\ utLoop' = IF utTun = "open" THEN "get" ELSE "gone"
    /\ UNCHANGED <<utTun, utFwd, utChild, utWoken, utConn, utClient, utCause, utFaults>>

\* The receiving task is gone, and with it the sender of the loop's channel.
UtNoSender ==
    /\ utLoop = "join" /\ utFwd = "gone"
    /\ UtDropConn
    /\ utLoop' = "gone"
    /\ UNCHANGED <<utTun, utFwd, utChild, utWoken, utConn, utClient, utCause, utFaults>>

\* The notification of close() reaches the loop before its abort does.
UtNotified ==
    /\ utWoken /\ utLoop \in {"get", "retry", "join"}
    /\ IF utLoop = "join" THEN UtDropConn ELSE UNCHANGED <<utReader, utCut>>
    /\ utLoop' = "gone"
    /\ UNCHANGED <<utTun, utFwd, utChild, utWoken, utConn, utClient, utCause, utFaults>>

-----------------------------------------------------------------------------
(* The readers, the receiving task and its child.                          *)

\* The connection ended, or nothing came for SERVER_DATA_READ_DEADLINE, although a
\* client that is up pings twice in that time.
UtReaderEnds(d) ==
    /\ utReader[d] = "run"
    /\ \/ UtEnded(d) /\ UNCHANGED utFaults
       \/ ~UtEnded(d) /\ UtFault
    /\ utReader' = [utReader EXCEPT ![d] =
                       IF d = utConn /\ utLoop \in {"join", "write"} THEN "failed" ELSE "gone"]
    /\ UNCHANGED <<utTun, utFwd, utChild, utLoop, utWoken, utConn, utCut, utClient, utCause>>

\* recv_from fails: the task aborts its child and ends.
UtRecvError ==
    /\ utFwd = "run" /\ UtFault
    /\ utFwd' = "gone" /\ utChild' = "gone"
    /\ utCause' = utCause \cup {"recv"}
    /\ UNCHANGED <<utTun, utLoop, utWoken, utConn, utReader, utCut, utClient>>

\* send_to fails: the child ends, the tunnel goes on in one direction.
UtSendError ==
    /\ utChild = "run" /\ UtFault
    /\ utChild' = "gone"
    /\ utCause' = utCause \cup {"send"}
    /\ UNCHANGED <<utTun, utFwd, utLoop, utWoken, utConn, utReader, utCut, utClient>>

\* Somebody can still hand the child a reply.
UtHasReplies == utLoop # "gone" \/ \E d \in UtConns : utReader[d] = "run"

UtChildEnds ==
    /\ utChild = "run" /\ ~UtHasReplies
    /\ utChild' = "gone"
    /\ UNCHANGED <<utTun, utFwd, utLoop, utWoken, utConn, utReader, utCut, utClient, utCause, utFaults>>

\* close(), or the destructor, which does not wait.
UtClose ==
    /\ utTun = "open"
    /\ utTun' = "closing"
    /\ utWoken' = (utLoop \in {"get", "retry", "join"})
    /\ UNCHANGED <<utFwd, utChild, utLoop, utConn, utReader, utCut, utClient, utCause, utFaults>>

\* The receiving task returns or is aborted; its child is detached.
UtFwdStops ==
    /\ utTun = "closing" /\ utFwd = "run"
    /\ utFwd' = "gone"
    /\ UNCHANGED <<utTun, utChild, utLoop, utWoken, utConn, utReader, utCut, utClient, utCause, utFaults>>

\* The loop is aborted at the await where it is: a reader it has is detached.
UtLoopAborted ==
    /\ utTun = "closing" /\ utFwd = "gone" /\ utLoop # "gone"
    /\ utLoop' = "gone"
    /\ UNCHANGED <<utTun, utFwd, utChild, utWoken, utConn, utReader, utCut, utClient, utCause, utFaults>>

UtClosed ==
    /\ utTun = "closing" /\ utFwd = "gone" /\ utLoop = "gone"
    /\ utTun' = "closed"
    /\ UNCHANGED <<utFwd, utChild, utLoop, utWoken, utConn, utReader, utCut, utClient, utCause, utFaults>>

-----------------------------------------------------------------------------
(* The client.                                                             *)

\* handle_data_conn: without an entry the connection is dropped.
UtStartRead(d) ==
    /\ utSess[d] = "none" /\ utReader[d] # "none"
    /\ utSess' = [utSess EXCEPT ![d] = IF utEntry THEN "found" ELSE "over"]
    /\ UNCHANGED <<utServer, utSlot, utEntry, utCause, utFaults>>

\* handle_udp, with the entry that was found: the new session replaces the one that
\* runs.  The entry may have left the manager since: nobody will tell this session.
UtSessionStarts(d) ==
    /\ utSess[d] = "found"
    /\ utSess' = [e \in UtConns |-> IF e = d THEN "run"
                                    ELSE IF e = utSlot /\ utSess[e] = "run" THEN "cancelled"
                                    ELSE utSess[e]]
    /\ utSlot' = d
    /\ utCause' = IF utEntry THEN utCause ELSE utCause \cup {"missed"}
    /\ UNCHANGED <<utServer, utEntry, utFaults>>

\* run_udp_session was cancelled, or will see that the server closed its connection.
UtMustEnd(d) == utSess[d] = "cancelled" \/ (utSess[d] = "run" /\ d \in utCut)

\* run_udp_session ends: for one of these, or its connection broke.
UtSessionEnds(d) ==
    /\ \/ UtMustEnd(d) /\ UNCHANGED utFaults
       \/ utSess[d] = "run" /\ d \notin utCut /\ UtFault
    /\ utSess' = [utSess EXCEPT ![d] = "over"]
    /\ UNCHANGED <<utServer, utSlot, utEntry, utCause>>

\* TunnelManager::remove and cancel_udp_sync, which does nothing when handle_udp has the
\* slot's lock: that session is not told.  The client sends CloseTunnel first.
UtClientRemoves ==
    /\ utEntry /\ utTun # "open"
    /\ utEntry' = FALSE
    /\ \/ /\ utSess' = [d \in UtConns |-> IF d = utSlot /\ utSess[d] = "run" THEN "cancelled"
                                          ELSE utSess[d]]
          /\ UNCHANGED utCause
       \/ /\ utCause' = utCause \cup {"missed"}
          /\ UNCHANGED utSess
    /\ UNCHANGED <<utServer, utSlot, utFaults>>

UtNext ==
    \/ UtWake \/ UtGet \/ UtGetFails \/ UtStart \/ UtStartFails \/ UtPacket \/ UtWritten
    \/ UtWriteFails \/ UtReaderFailed \/ UtNoSender \/ UtNotified
    \/ UtRecvError \/ UtSendError \/ UtChildEnds
    \/ UtClose \/ UtFwdStops \/ UtLoopAborted \/ UtClosed
    \/ UtClientRemoves
    \/ \E d \in UtConns : UtReaderEnds(d) \/ UtStartRead(d) \/ UtSessionStarts(d) \/ UtSessionEnds(d)

\* Tasks that can go on do, sleeps end, the client reads its data connections and removes
\* a tunnel that it closes.  Nothing is assumed of faults, packets or closings.
UtFairness ==
    /\ WF_utVars(UtWake) /\ WF_utVars(UtGet) /\ WF_utVars(UtStart)
    /\ WF_utVars(UtReaderFailed) /\ WF_utVars(UtNoSender) /\ WF_utVars(UtChildEnds)
    /\ WF_utVars(UtFwdStops) /\ WF_utVars(UtLoopAborted) /\ WF_utVars(UtClosed)
    /\ WF_utVars(UtClientRemoves)
    /\ \A d \in UtConns :
           /\ WF_utVars(UtStartRead(d)) /\ WF_utVars(UtSessionStarts(d))
           /\ WF_utVars(UtMustEnd(d) /\ UtSessionEnds(d))
           /\ WF_utVars(UtEnded(d) /\ UtReaderEnds(d))

UtSpec == UtInit /\ [][UtNext]_utVars /\ UtFairness

-----------------------------------------------------------------------------
(* Properties.                                                             *)

\* The types of the variables.
UtTypeOK ==
    /\ utTun \in {"open", "closing", "closed"}
    /\ {utFwd, utChild} \subseteq {"run", "gone"}
    /\ utLoop \in {"sleep", "get", "retry", "start", "join", "write", "gone"}
    /\ utWoken \in BOOLEAN
    /\ utConn \in UtConns \cup {0} /\ utSlot \in UtConns \cup {0}
    /\ utReader \in [UtConns -> {"none", "run", "failed", "gone"}]
    /\ utCut \subseteq UtConns
    /\ utSess \in [UtConns -> {"none", "found", "run", "cancelled", "over"}]
    /\ utCause \subseteq {"recv", "send", "missed"}

\* Somebody holds the socket: the port cannot be bound again.
UtBound == utTun # "closed" \/ utFwd = "run" \/ utChild = "run"

\* The tunnel reads at most one data connection: a reader is aborted and waited for
\* before the next connection is made, so replies of an old connection never mix with
\* those of the new one.
UtOneReader == Cardinality({d \in UtConns : utReader[d] = "run"}) <= 1

\* An open tunnel whose loop or whose child has ended met an error of its socket: no
\* failure of data connections, of the client or of timing silences it.
UtSilenceHasCause ==
    utTun = "open" =>
        /\ utLoop = "gone" => "recv" \in utCause
        /\ utChild = "gone" => utCause \cap {"recv", "send"} # {}

\* The client has at most one session that was not told to end: a session that has not
\* seen the end of its connection is replaced by the next one.
UtOneSession == Cardinality({d \in UtConns : utSess[d] = "run"}) <= 1

\* A closed tunnel's port becomes free, unless the client's removal of the tunnel missed
\* the session, whose pings then keep a detached reader alive.
UtPortFreed == (utTun = "closed") ~> (~UtBound \/ "missed" \in utCause)

\* A tunnel without a data connection gets one, is closed, or met a socket error.
UtReconnects ==
    (utLoop \in {"get", "retry"} /\ utConn + 1 \in UtConns)
        ~> (utLoop \in {"join", "write"} \/ utTun # "open" \/ utCause # {} \/ utConn + 1 \notin UtConns)

\* One reader, one session, and no silence without an error of the socket.
UtSound == UtTypeOK /\ UtOneReader /\ UtOneSession /\ UtSilenceHasCause
=============================================================================
