--------------------------- MODULE ClientTunnels ---------------------------
(***************************************************************************)
(* The tunnels of a client: its configuration, the manager of its session, *)
(* the tunnels the server has for that session, and the reloads that       *)
(* change them while requests and answers are on their way.                *)
(*                                                                         *)
(* A reload closes and registers tunnels on the control stream and then    *)
(* waits, at most five seconds, for the answers.  Answers carry the name   *)
(* of the tunnel and nothing else: the reader matches them by name, and so *)
(* may take the answer to an older request for that of the newer one.      *)
(* ClientService has the life of the sessions; here a session breaks and   *)
(* is opened again, and reloads run one at a time on its task.             *)
(***************************************************************************)
EXTENDS Naturals, Sequences, FiniteSets

CONSTANTS
    Names,       \* tunnel names, numbers in their order
    Versions,    \* the configurations a tunnel may have
    Unfit,       \* those that validate_tunnel, the message or the manager's entry refuse
    MaxReloads, MaxBreaks

Absent == 0
Configs == [Names -> Versions \cup {Absent}]

ASSUME TunnelAssumptions ==
    /\ Names \subseteq Nat /\ IsFiniteSet(Names)
    /\ Versions \subseteq Nat \ {Absent}
    /\ Unfit \subseteq Versions

VARIABLES
    cfg,       \* ClientConfig.tunnels
    mgr,       \* TunnelManager.by_name
    srv,       \* the tunnels of this session on the server
    up,        \* requests on the control stream
    down,      \* answers on the control stream
    pending, errors,   \* RegisterWatch
    remote,    \* the remote addresses shown, by the version they were given to
    conn,      \* "up", or "lost" until the next session is open
    task,      \* the reload that is being applied
    outcome,   \* what the last reload reported
    told,      \* names reported as failed since they were last requested (history)
    late,      \* names requested while an older request was unanswered (history)
    crossed,   \* names last closed while a request was unanswered (history)
    count      \* reloads and breaks so far

vars == <<cfg, mgr, srv, up, down, pending, errors, remote, conn, task, outcome, told, late, crossed, count>>
watch == <<pending, errors>>
history == <<told, late, crossed>>

NoTask == [pc |-> "idle", new |-> [n \in Names |-> Absent], removed |-> {}, stop |-> {},
           updated |-> {}, added |-> {}, started |-> {}, failed |-> {}]
NoOutcome == [level |-> "noop", added |-> {}, removed |-> {}, updated |-> {}, failed |-> {}]

First(S) == CHOOSE n \in S : \A m \in S : n <= m

\* A connected session whose requests have been answered.
Init ==
    /\ cfg \in [Names -> (Versions \ Unfit) \cup {Absent}]
    /\ mgr = cfg /\ srv = cfg
    /\ up = <<>> /\ down = <<>>
    /\ pending = {} /\ errors = {}
    /\ remote = srv
    /\ conn = "up"
    /\ task = NoTask
    /\ outcome = NoOutcome
    /\ told = {} /\ late = {} /\ crossed = {}
    /\ count = [reloads |-> 0, breaks |-> 0]

-----------------------------------------------------------------------------
(* The plan of a reload.                                                   *)

\* diff_tunnels
Added(old, new) == {n \in Names : old[n] = Absent /\ new[n] # Absent}
Updated(old, new) == {n \in Names : old[n] # Absent /\ new[n] # Absent /\ old[n] # new[n]}
Removed(old, new) == {n \in Names : old[n] # Absent /\ new[n] = Absent}

\* outcome_from_plan
OutcomeFromPlan(old, new, level) ==
    [level |-> level, added |-> Added(old, new), removed |-> Removed(old, new),
     updated |-> Updated(old, new), failed |-> {}]

-----------------------------------------------------------------------------
(* The manager, and the remote addresses the user interface shows.         *)

Upsert(n, ver) == mgr' = [mgr EXCEPT ![n] = ver]
RemoveEntry(n) == mgr' = [mgr EXCEPT ![n] = Absent]

SetTunnelRemote(n, ver) == remote' = [remote EXCEPT ![n] = ver]
RemoveTunnelRemote(n) == remote' = [remote EXCEPT ![n] = Absent]
ClearTunnelRemotes == remote' = [n \in Names |-> Absent]

-----------------------------------------------------------------------------
(* Requests on the control stream.                                         *)

\* The answer to a request for n is still to come.
Unanswered(n) ==
    \/ \E i \in DOMAIN up : up[i].name = n /\ up[i].kind = "new"
    \/ \E i \in DOMAIN down : down[i].name = n

\* Control::close_tunnel on a stream that works.
CloseTunnel(n) ==
    /\ up' = Append(up, [kind |-> "close", name |-> n, ver |-> Absent])
    /\ RemoveEntry(n)
    /\ RemoveTunnelRemote(n)
    /\ crossed' = IF Unanswered(n) THEN crossed \cup {n} ELSE crossed \ {n}

\* RegisterWatch::begin
Begin(n) ==
    /\ errors' = errors \ {n}
    /\ pending' = pending \cup {n}
    /\ told' = told \ {n}
    /\ late' = IF Unanswered(n) THEN late \cup {n} ELSE late \ {n}
    /\ UNCHANGED crossed

\* RegisterWatch::finish
Finish(n, ok) ==
    /\ pending' = pending \ {n}
    /\ errors' = IF ok THEN errors ELSE errors \cup {n}

-----------------------------------------------------------------------------
(* A reload on an open session.                                            *)

\* plan_reload: nothing to do.
ReloadNoop(new) ==
    /\ task.pc = "idle" /\ conn = "up"
    /\ count.reloads < MaxReloads
    /\ new = cfg
    /\ count' = [count EXCEPT !.reloads = @ + 1]
    /\ outcome' = NoOutcome
    /\ UNCHANGED <<cfg, mgr, srv, up, down, watch, remote, conn, task, history>>

\* apply_tunnel_changes begins: the removed and the updated tunnels are to be closed.
Reload(new) ==
    /\ task.pc = "idle" /\ conn = "up"
    /\ count.reloads < MaxReloads
    /\ new # cfg
    /\ count' = [count EXCEPT !.reloads = @ + 1]
    /\ task' = [NoTask EXCEPT !.pc = "stop", !.new = new, !.removed = Removed(cfg, new),
                              !.stop = Removed(cfg, new) \cup Updated(cfg, new),
                              !.updated = Updated(cfg, new), !.added = Added(cfg, new)]
    /\ UNCHANGED <<cfg, mgr, srv, up, down, watch, remote, conn, outcome, history>>

\* A stream that does not work fails the name; its manager entry stays.
StopOne ==
    /\ task.pc = "stop" /\ task.stop # {}
    /\ LET n == First(task.stop)
       IN  \/ /\ conn = "up"
              /\ CloseTunnel(n)
              /\ task' = [task EXCEPT !.stop = @ \ {n}]
           \/ /\ conn = "lost"
              /\ task' = [task EXCEPT !.stop = @ \ {n}, !.failed = @ \cup {n}]
              /\ UNCHANGED <<up, mgr, remote, crossed>>
    /\ UNCHANGED <<cfg, srv, down, watch, conn, outcome, told, late, count>>

StopDone ==
    /\ task.pc = "stop" /\ task.stop = {}
    /\ task' = [task EXCEPT !.pc = "start"]
    /\ UNCHANGED <<cfg, mgr, srv, up, down, watch, remote, conn, outcome, history, count>>

\* The updated tunnels in the order of their names, then the added ones.
NextStart(n) ==
    \/ task.updated # {} /\ n = First(task.updated)
    \/ task.updated = {} /\ task.added # {} /\ n = First(task.added)

Started(n, ok) ==
    [task EXCEPT !.updated = @ \ {n}, !.added = @ \ {n},
                 !.started = IF ok THEN @ \cup {n} ELSE @,
                 !.failed = IF ok THEN @ ELSE @ \cup {n}]

\* A tunnel whose closing failed is left alone.
StartSkipped ==
    /\ task.pc = "start"
    /\ \E n \in task.failed : NextStart(n) /\ task' = Started(n, FALSE)
    /\ UNCHANGED <<cfg, mgr, srv, up, down, watch, remote, conn, outcome, history, count>>

\* register_tunnel refuses before it touches the manager.
StartUnfit ==
    /\ task.pc = "start"
    /\ \E n \in Names \ task.failed :
           NextStart(n) /\ task.new[n] \in Unfit /\ task' = Started(n, FALSE)
    /\ UNCHANGED <<cfg, mgr, srv, up, down, watch, remote, conn, outcome, history, count>>

\* MUTANT: the manager gets its entry when the answer comes.
StartOneLater ==
    /\ task.pc = "start"
    /\ \E n \in Names \ task.failed :
           /\ NextStart(n) /\ task.new[n] \notin Unfit
           /\ Begin(n)
           /\ up' = IF conn = "up" THEN Append(up, [kind |-> "new", name |-> n, ver |-> task.new[n]])
                    ELSE up
           /\ task' = Started(n, conn = "up")
    /\ UNCHANGED <<cfg, mgr, srv, down, remote, conn, outcome, count>>

\* register_tunnel: the manager's entry, the watch, then the request.
StartOne ==
    /\ task.pc = "start"
    /\ \E n \in Names \ task.failed :
           /\ NextStart(n) /\ task.new[n] \notin Unfit
           /\ Upsert(n, task.new[n])
           /\ Begin(n)
           /\ up' = IF conn = "up" THEN Append(up, [kind |-> "new", name |-> n, ver |-> task.new[n]])
                    ELSE up
           /\ task' = Started(n, conn = "up")
    /\ UNCHANGED <<cfg, srv, down, remote, conn, outcome, count>>

StoreConfig(new) == cfg' = new

\* The reload answers: the configuration is stored whatever failed.
Report(failed) ==
    /\ outcome' = [level |-> "tunnels",
                   added |-> (Added(cfg, task.new) \cap task.started) \ failed,
                   removed |-> task.removed \ failed,
                   updated |-> (Updated(cfg, task.new) \cap task.started) \ failed,
                   failed |-> failed]
    /\ told' = told \cup failed
    /\ StoreConfig(task.new)
    /\ task' = NoTask
    /\ UNCHANGED <<mgr, srv, up, down, watch, remote, conn, late, crossed, count>>

\* MUTANT: errors of tunnels that were refused are not collected.
CollectForgets ==
    /\ task.pc = "start" /\ task.updated = {} /\ task.added = {}
    /\ task.started \cap pending = {}
    /\ Report(task.failed)

\* collect_register_errors: every answer is there.
Collect ==
    /\ task.pc = "start" /\ task.updated = {} /\ task.added = {}
    /\ task.started \cap pending = {}
    /\ Report(task.failed \cup (task.started \cap errors))

\* Five seconds are over: what is pending counts as failed.
CollectTimeout ==
    /\ task.pc = "start" /\ task.updated = {} /\ task.added = {}
    /\ task.started \cap pending # {}
    /\ Report(task.failed \cup (task.started \cap (pending \cup errors)))

\* Connection settings changed: the configuration is stored, then every tunnel of the
\* manager is closed and the session ended.
ReloadConnection(new) ==
    /\ task.pc = "idle" /\ conn = "up"
    /\ count.reloads < MaxReloads
    /\ count' = [count EXCEPT !.reloads = @ + 1]
    /\ StoreConfig(new)
    /\ outcome' = OutcomeFromPlan(cfg, new, "reconnect")
    /\ task' = [NoTask EXCEPT !.pc = "closeAll", !.stop = {n \in Names : mgr[n] # Absent}]
    /\ UNCHANGED <<mgr, srv, up, down, watch, remote, conn, history>>

CloseAllOne ==
    /\ task.pc = "closeAll" /\ task.stop # {}
    /\ LET n == First(task.stop)
       IN  /\ \/ conn = "up" /\ CloseTunnel(n)
              \/ conn = "lost" /\ UNCHANGED <<up, mgr, remote, crossed>>
           /\ task' = [task EXCEPT !.stop = @ \ {n}]
    /\ UNCHANGED <<cfg, srv, down, watch, conn, outcome, told, late, count>>

\* What is left of a session: nothing on the streams, and nothing on the server.
SessionOver ==
    /\ conn' = "lost"
    /\ srv' = [n \in Names |-> Absent]
    /\ up' = <<>> /\ down' = <<>>

\* request_disconnect
Disconnect ==
    /\ task.pc = "closeAll" /\ task.stop = {}
    /\ SessionOver
    /\ task' = NoTask
    /\ UNCHANGED <<cfg, mgr, watch, remote, outcome, history, count>>

\* A reload while no session is open.
ReloadQueued(new) ==
    /\ task.pc = "idle" /\ conn = "lost"
    /\ count.reloads < MaxReloads
    /\ new # cfg
    /\ count' = [count EXCEPT !.reloads = @ + 1]
    /\ outcome' = OutcomeFromPlan(cfg, new, "tunnels")
    /\ StoreConfig(new)
    /\ UNCHANGED <<mgr, srv, up, down, watch, remote, conn, task, history>>

\* The stream breaks; the reload under way notices when it writes.
Break ==
    /\ conn = "up" /\ count.breaks < MaxBreaks
    /\ count' = [count EXCEPT !.breaks = @ + 1]
    /\ SessionOver
    /\ UNCHANGED <<cfg, mgr, watch, remote, task, outcome, history>>

\* register_all_tunnels: one request each, in the order in which they are listed.
Requests(names) ==
    {q \in [1..Cardinality(names) -> [kind : {"new"}, name : names, ver : Versions]] :
        /\ {q[i].name : i \in DOMAIN q} = names
        /\ \A i, j \in DOMAIN q : q[i].name = q[j].name => i = j
        /\ \A i \in DOMAIN q : q[i].ver = cfg[q[i].name]}

\* open_session: a fresh manager and watch, and a request for every tunnel.  One tunnel
\* that the manager or register_tunnel refuses fails the whole session.
Connect ==
    /\ conn = "lost" /\ task.pc = "idle"
    /\ \A n \in Names : cfg[n] \notin Unfit
    /\ conn' = "up"
    /\ LET names == {n \in Names : cfg[n] # Absent}
       IN  /\ mgr' = cfg
           /\ pending' = names /\ errors' = {}
           /\ up' \in Requests(names)
           /\ told' = {} /\ late' = {} /\ crossed' = {}
    /\ ClearTunnelRemotes
    /\ UNCHANGED <<cfg, srv, down, task, outcome, count>>

-----------------------------------------------------------------------------
(* The other end of the stream, and the reader.                            *)

\* The session's Control on the server: a request for a name it has closes that tunnel
\* first; it may be refused (TunnelSlots, GatewayRoutes).
ServerHandles ==
    /\ up # <<>>
    /\ LET q == Head(up)
       IN  \/ /\ q.kind = "close"
              /\ srv' = [srv EXCEPT ![q.name] = Absent]
              /\ UNCHANGED down
           \/ /\ q.kind = "new"
              /\ \E ok \in BOOLEAN :
                     /\ srv' = [srv EXCEPT ![q.name] = IF ok THEN q.ver ELSE Absent]
                     /\ down' = Append(down, [name |-> q.name, ok |-> ok, ver |-> q.ver])
    /\ up' = Tail(up)
    /\ UNCHANGED <<cfg, mgr, watch, remote, conn, task, outcome, history, count>>

\* MUTANT: a refused request leaves no trace.
ReadRespIgnoresErrors ==
    /\ down # <<>>
    /\ LET r == Head(down)
       IN  /\ Finish(r.name, TRUE)
           /\ IF r.ok THEN SetTunnelRemote(r.name, r.ver) ELSE UNCHANGED remote
    /\ down' = Tail(down)
    /\ UNCHANGED <<cfg, mgr, srv, up, conn, task, outcome, history, count>>

\* NewTunnelResp in reader_loop_inner.
ReadResp ==
    /\ down # <<>>
    /\ LET r == Head(down)
       IN  /\ Finish(r.name, r.ok)
           /\ IF r.ok THEN SetTunnelRemote(r.name, r.ver) ELSE UNCHANGED remote
           /\ told' = IF r.ok THEN told ELSE told \cup {r.name}
    /\ down' = Tail(down)
    /\ UNCHANGED <<cfg, mgr, srv, up, conn, task, outcome, late, crossed, count>>

Next ==
    \/ \E new \in Configs : ReloadNoop(new) \/ Reload(new) \/ ReloadConnection(new) \/ ReloadQueued(new)
    \/ StopOne \/ StopDone \/ StartSkipped \/ StartUnfit \/ StartOne
    \/ Collect \/ CollectTimeout
    \/ CloseAllOne \/ Disconnect \/ Break \/ Connect
    \/ ServerHandles \/ ReadResp

Spec == Init /\ [][Next]_vars

-----------------------------------------------------------------------------
(* Properties.                                                             *)

Settled == task.pc = "idle" /\ conn = "up" /\ up = <<>> /\ down = <<>>

\* The types of the variables, and that the watch and the lists of the outcome name
\* tunnels once.
TypeOK ==
    /\ {cfg, mgr, srv, remote} \subseteq Configs
    /\ pending \subseteq Names /\ errors \subseteq Names \ pending
    /\ conn \in {"up", "lost"}
    /\ task.new \in Configs
    /\ outcome.failed \cap (outcome.added \cup outcome.updated \cup outcome.removed) = {}

Last(n) ==
    LET about == {i \in DOMAIN up : up[i].name = n}
    IN  IF about = {} THEN srv[n] ELSE up[CHOOSE i \in about : \A j \in about : j <= i].ver

\* Once the server has handled what is on its way, each of its tunnels is the one in the
\* client's manager, so that no data connection comes for a tunnel the client does not
\* know or knows with other settings.
ServerFollowsManager == \A n \in Names : Last(n) \in {Absent, mgr[n]}

\* When everything has been answered, the server has only configured tunnels, in their
\* configured version, and a configured tunnel that it does not have was reported to the
\* user as failed: nothing is missing in silence.  (It is not tried again until the next
\* session.)
MissingWasReported ==
    Settled => \A n \in Names : srv[n] = cfg[n] \/ (srv[n] = Absent /\ n \in told)

\* A reload reports a tunnel as added or updated only if the server has that version,
\* the stream broke, or an older request for its name was unanswered when it was sent
\* and its answer was taken for this one's.
SuccessIsTrue ==
    [][task.pc = "start" /\ task'.pc = "idle" =>
           \A n \in outcome'.added \cup outcome'.updated :
               srv[n] = task.new[n] \/ conn = "lost" \/ n \in late]_vars

\* The remote address shown for a tunnel is that of the tunnel the server has, unless an
\* answer to a request made before the last closing came after it.
RemoteIsCurrent ==
    Settled => \A n \in Names : remote[n] # Absent => remote[n] = srv[n] \/ n \in crossed

\* What the client has, what it shows and what the server has, or is about to have, are
\* the same tunnels.
TunnelsAgree == TypeOK /\ ServerFollowsManager /\ RemoteIsCurrent
=============================================================================
