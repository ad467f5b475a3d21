---------------------------- MODULE LocalControl ----------------------------
(***************************************************************************)
(* The local control socket: how client processes take and leave its path, *)
(* and how `orbien reload` reaches one of them.                            *)
(*                                                                         *)
(* A start looks at the path, connects to what it finds there, removes it  *)
(* when nobody answers, and binds: steps between which other processes     *)
(* run.  A process that cannot have the socket goes on without it.  A      *)
(* process that is killed leaves its file behind.                          *)
(***************************************************************************)
EXTENDS Naturals

CONSTANTS
    LcProcs,     \* client processes
    LcNobody,    \* no file, no process
    LcMaxStarts  \* bound on the starts of processes

ASSUME LcAssumptions == LcNobody \notin LcProcs /\ LcMaxStarts \in Nat

VARIABLES
    lcFile,     \* the process that made the file at the path, or LcNobody
    lcStarted,  \* how often the processes were started
    lcPc,       \* where the serve task of a process is
    lcOverlap,  \* a file was removed whose process began to listen after the
                \* remover's probe (history)
    lcReq       \* the one `orbien reload`: where it is, the process it reached, the answer

lcVars == <<lcFile, lcStarted, lcPc, lcOverlap, lcReq>>

LcNoReq == [pc |-> "idle", to |-> LcNobody, op |-> "none", ok |-> FALSE, applied |-> FALSE]

LcInit ==
    /\ lcFile = LcNobody
    /\ lcStarted = 0
    /\ lcPc = [p \in LcProcs |-> "off"]
    /\ lcOverlap = FALSE
    /\ lcReq = LcNoReq

\* A listening socket accepts connections until its process drops it; in "leave" the
\* listener is still open, nobody takes what it accepts.
LcListens(p) == p # LcNobody /\ lcPc[p] \in {"chmod", "serve", "leave"}

LcGoes(p, pc) == lcPc' = [lcPc EXCEPT ![p] = pc]

-----------------------------------------------------------------------------
(* serve_unix.                                                             *)

\* socket_path.exists()
LcStart(p) ==
    /\ lcPc[p] = "off" /\ lcStarted < LcMaxStarts
    /\ lcStarted' = lcStarted + 1
    /\ LcGoes(p, IF lcFile = LcNobody THEN "bind" ELSE "probe")
    /\ UNCHANGED <<lcFile, lcOverlap, lcReq>>

\* The connect succeeds: the path is in use.  It is refused, or the file has gone: it is
\* stale.  Any other error gives up too.
LcProbe(p) ==
    /\ lcPc[p] = "probe"
    /\ \/ LcGoes(p, IF LcListens(lcFile) THEN "without" ELSE "remove")
       \/ LcGoes(p, "without")
    /\ UNCHANGED <<lcFile, lcStarted, lcOverlap, lcReq>>

\* remove_file, which fails when there is none any more.
LcRemove(p) ==
    /\ lcPc[p] = "remove"
    /\ IF lcFile = LcNobody THEN LcGoes(p, "without") ELSE LcGoes(p, "bind")
    /\ lcFile' = LcNobody
    /\ lcOverlap' = (lcOverlap \/ LcListens(lcFile))
    /\ UNCHANGED <<lcStarted, lcReq>>

\* MUTANT: whatever is at the path is replaced.
LcBindReplaces(p) ==
    /\ lcPc[p] = "bind"
    /\ lcFile' = p /\ LcGoes(p, "chmod")
    /\ UNCHANGED <<lcStarted, lcOverlap, lcReq>>

\* bind fails when the path exists.
LcBind(p) ==
    /\ lcPc[p] = "bind"
    /\ IF lcFile = LcNobody
       THEN lcFile' = p /\ LcGoes(p, "chmod")
       ELSE UNCHANGED lcFile /\ LcGoes(p, "without")
    /\ UNCHANGED <<lcStarted, lcOverlap, lcReq>>

\* set_permissions, by path: it fails when the file was removed meanwhile, and the
\* listener is dropped, which leaves another process's file alone.
LcChmod(p) ==
    /\ lcPc[p] = "chmod"
    /\ LcGoes(p, IF lcFile = LcNobody THEN "without" ELSE "serve")
    /\ UNCHANGED <<lcFile, lcStarted, lcOverlap, lcReq>>

\* accept fails: the task ends and leaves the file.
LcAcceptFails(p) ==
    /\ lcPc[p] = "serve"
    /\ LcGoes(p, "without")
    /\ UNCHANGED <<lcFile, lcStarted, lcOverlap, lcReq>>

LcCancelled(p) ==
    /\ lcPc[p] = "serve"
    /\ LcGoes(p, "leave")
    /\ UNCHANGED <<lcFile, lcStarted, lcOverlap, lcReq>>

\* The last remove_file takes whatever is at the path.
LcLeave(p) ==
    /\ lcPc[p] = "leave"
    /\ lcFile' = LcNobody
    /\ LcGoes(p, "without")
    /\ UNCHANGED <<lcStarted, lcOverlap, lcReq>>

\* The process ends, or is killed: its listener is gone and its file is not.
LcDies(p) ==
    /\ lcPc[p] # "off"
    /\ LcGoes(p, "off")
    /\ UNCHANGED <<lcFile, lcStarted, lcOverlap, lcReq>>

-----------------------------------------------------------------------------
(* reload_via_socket and handle_connection.                                *)

\* connect_control: refused, or a connection that the listener has queued.
LcConnect ==
    /\ lcReq.pc = "idle"
    /\ IF LcListens(lcFile)
       THEN \E op \in {"reload", "broken"} :
                lcReq' = [LcNoReq EXCEPT !.pc = "sent", !.to = lcFile, !.op = op]
       ELSE lcReq' = [LcNoReq EXCEPT !.pc = "failed"]
    /\ UNCHANGED <<lcFile, lcStarted, lcPc, lcOverlap>>

\* The request is read.  One that cannot be parsed ends the connection; a reload loads the
\* file and hands it to the service, which applies it or not.
LcHandle(p) ==
    /\ lcReq.pc = "sent" /\ lcReq.to = p /\ lcPc[p] = "serve"
    /\ \/ lcReq.op = "broken" /\ lcReq' = [lcReq EXCEPT !.pc = "failed"]
       \/ /\ lcReq.op = "reload"
          /\ \E applied \in BOOLEAN : lcReq' = [lcReq EXCEPT !.pc = "handled", !.applied = applied]
    /\ UNCHANGED <<lcFile, lcStarted, lcPc, lcOverlap>>

\* ok is outcome.succeeded(): every tunnel was applied.
LcReply(p) ==
    /\ lcReq.pc = "handled" /\ lcReq.to = p /\ lcPc[p] \notin {"off"}
    /\ lcReq' = [lcReq EXCEPT !.pc = "told", !.ok = lcReq.applied]
    /\ UNCHANGED <<lcFile, lcStarted, lcPc, lcOverlap>>

\* The connection breaks: the process died, or dropped the listener that had queued it.
LcBroken ==
    /\ \/ lcReq.pc = "sent" /\ ~LcListens(lcReq.to)
       \/ lcReq.pc = "handled" /\ lcPc[lcReq.to] = "off"
    /\ lcReq' = [lcReq EXCEPT !.pc = "failed"]
    /\ UNCHANGED <<lcFile, lcStarted, lcPc, lcOverlap>>

LcAgain ==
    /\ lcReq.pc \in {"told", "failed"}
    /\ lcReq' = LcNoReq
    /\ UNCHANGED <<lcFile, lcStarted, lcPc, lcOverlap>>

LcNext ==
    \/ \E p \in LcProcs : \/ LcStart(p) \/ LcProbe(p) \/ LcRemove(p) \/ LcBind(p) \/ LcChmod(p)
                          \/ LcAcceptFails(p) \/ LcCancelled(p) \/ LcLeave(p) \/ LcDies(p)
                          \/ LcHandle(p) \/ LcReply(p)
    \/ LcConnect \/ LcBroken \/ LcAgain

\* The serve task of a live process goes on, and so does a connection that it accepted.
LcFairness ==
    /\ WF_lcVars(LcBroken)
    /\ \A p \in LcProcs : /\ WF_lcVars(LcChmod(p)) /\ WF_lcVars(LcLeave(p))
                          /\ WF_lcVars(LcHandle(p)) /\ WF_lcVars(LcReply(p))

LcSpec == LcInit /\ [][LcNext]_lcVars /\ LcFairness

-----------------------------------------------------------------------------
\* The types of the variables.
LcTypeOK ==
    /\ lcFile \in LcProcs \cup {LcNobody}
    /\ lcStarted \in 0..LcMaxStarts
    /\ lcPc \in [LcProcs -> {"off", "probe", "remove", "bind", "chmod", "serve", "leave", "without"}]
    /\ lcOverlap \in BOOLEAN
    /\ lcReq.pc \in {"idle", "sent", "handled", "told", "failed"}

\* The process that serves the socket is the one that `orbien reload` reaches, and no
\* other serves beside it, unless two starts overlapped so that one removed a file that
\* was made after its own probe.
LcServerReachable ==
    ~lcOverlap => \A p \in LcProcs : lcPc[p] \in {"chmod", "serve"} => lcFile = p

\* `orbien reload` reports success only for a configuration that a process applied.
LcOkIsTrue == lcReq.pc = "told" /\ lcReq.ok => lcReq.applied /\ lcReq.op = "reload"

\* A reload that was sent is answered, or fails, even if the process leaves or dies.
LcReloadEnds == (lcReq.pc = "sent") ~> (lcReq.pc \in {"told", "failed"})

\* `orbien reload` reaches the process that serves, and says what that process did.
LcSound == LcTypeOK /\ LcServerReachable /\ LcOkIsTrue
=============================================================================
