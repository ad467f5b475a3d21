---------------------------- MODULE TunnelSlots ----------------------------
(***************************************************************************)
(* The server's global tunnel slots and the life of the control sessions   *)
(* that hold them.                                                         *)
(*                                                                         *)
(* A client's control connection is served by one Control object.  It may  *)
(* register tunnels; each needs a name in the server-wide TunnelRegistry   *)
(* and, for tcp and udp, a port in a server-wide PortTable, and lives in   *)
(* the TunnelManager of its Control.  Three kinds of tasks touch a         *)
(* Control, on a multi-threaded runtime:                                   *)
(*   "run"   the task that reads the control connection, registers and     *)
(*           closes tunnels, and finally shuts its own Control down;       *)
(*   "ext"   a task that shuts the Control down from outside: the login    *)
(*           that replaces it (same session id), or the dashboard's kick,  *)
(*           whose future is dropped when the HTTP peer goes away;         *)
(*   "drop"  the destructor, when the last reference disappears.           *)
(* Every critical section of a mutex is one step; between two of them, and *)
(* at every await, the other tasks run.                                    *)
(***************************************************************************)
EXTENDS Naturals, FiniteSets

CONSTANTS
    Controls,   \* Control objects; their generation makes each a distinct TunnelOwner
    Names,      \* tunnel names as the client sends them
    PortKeys,   \* (table, port) pairs: tcp_ports and udp_ports are two PortTables
    UdpKeys,    \* those of udp_ports
    Trim,       \* str::trim on names
    Callers,    \* who may shut a Control down from outside: "login", "kick"
    NoControl, NoName, NoKey

ASSUME SlotAssumptions ==
    /\ Trim \in [Names -> Names]
    /\ \A n \in Names : Trim[Trim[n]] = Trim[n]
    /\ UdpKeys \subseteq PortKeys
    /\ Callers \subseteq {"login", "kick"}
    /\ NoControl \notin Controls
    /\ NoName \notin Names
    /\ NoKey \notin PortKeys

VARIABLES
    byName,     \* TunnelRegistry.by_name: trimmed name -> owner
    byPort,     \* PortTable.by_port: port -> tunnel name
    tm,         \* tm[c]: the TunnelManager of c, as a set of [name, key]
    bound,      \* sockets that are bound: [ctl, name, key]
    closed,     \* Control.closed
    cleaning,   \* Control.cleaning
    finished,   \* Control.finished
    pc,         \* pc[c][t]: where task t of Control c is
    op,         \* op[c]: the registration or closing the run task is doing
    toClose,    \* toClose[c]: entries the cleaner of c drained and has not closed yet
    toRelease,  \* toRelease[c]: closed, but both slots not released yet
    half,       \* half[c]: port released, name not yet
    leak        \* leak[c]: ways in which c lost track of a slot (history)

vars == <<byName, byPort, tm, bound, closed, cleaning, finished, pc, op,
          toClose, toRelease, half, leak>>

tables == <<byName, byPort>>
flags == <<closed, cleaning, finished>>
work == <<toClose, toRelease, half>>

Tasks == {"run", "ext", "drop"}

\* What a TunnelManager entry says; key is NoKey for http and https tunnels.
Entries == [name : Names, key : PortKeys \cup {NoKey}]

Pcs == {"new", "loop", "detach", "relPort", "relName", "claimName", "claimPort",
        "start", "insert", "exit", "idle", "signal", "lock", "closing", "release",
        "finish", "wait", "done", "cancelled"}

\* rel: the key to give up together with the name; goal: the pc after that.
Ops == [name : Names \cup {NoName}, key : PortKeys \cup {NoKey},
        rel : PortKeys \cup {NoKey}, goal : {"claimName", "loop"}]
NoOp == [name |-> NoName, key |-> NoKey, rel |-> NoKey, goal |-> "loop"]

\* The types of the variables.
TypeOK ==
    /\ byName \in [Names -> Controls \cup {NoControl}]
    /\ byPort \in [PortKeys -> Names \cup {NoName}]
    /\ tm \in [Controls -> SUBSET Entries]
    /\ bound \in SUBSET [ctl : Controls, name : Names, key : PortKeys]
    /\ closed \in [Controls -> BOOLEAN]
    /\ cleaning \in [Controls -> BOOLEAN]
    /\ finished \in [Controls -> BOOLEAN]
    /\ pc \in [Controls -> [Tasks -> Pcs]]
    /\ op \in [Controls -> Ops]
    /\ toClose \in [Controls -> SUBSET Entries]
    /\ toRelease \in [Controls -> SUBSET Entries]
    /\ half \in [Controls -> SUBSET Entries]
    /\ leak \in [Controls -> SUBSET {"lateInsert", "cancelled", "untrimmed"}]

Init ==
    /\ byName = [n \in Names |-> NoControl]
    /\ byPort = [k \in PortKeys |-> NoName]
    /\ tm = [c \in Controls |-> {}]
    /\ bound = {}
    /\ closed = [c \in Controls |-> FALSE]
    /\ cleaning = [c \in Controls |-> FALSE]
    /\ finished = [c \in Controls |-> FALSE]
    /\ pc = [c \in Controls |-> [t \in Tasks |-> IF t = "run" THEN "new" ELSE "idle"]]
    /\ op = [c \in Controls |-> NoOp]
    /\ toClose = [c \in Controls |-> {}]
    /\ toRelease = [c \in Controls |-> {}]
    /\ half = [c \in Controls |-> {}]
    /\ leak = [c \in Controls |-> {}]

-----------------------------------------------------------------------------
(* The two global tables.  try_insert trims the name it stores;            *)
(* remove_if_owner looks the name up as it is.  A port remembers the name  *)
(* of its tunnel, not its owner.                                           *)

\* MUTANT: the registry does not look whether the name is taken.
NameFreeUnchecked(n) == TRUE

NameFree(n) == byName[Trim[n]] = NoControl

TryInsert(n, c) == byName' = [byName EXCEPT ![Trim[n]] = c]

RemoveIfOwner(n, c) ==
    byName' = IF byName[n] = c THEN [byName EXCEPT ![n] = NoControl] ELSE byName

ReleasePort(k, n) ==
    byPort' = IF byPort[k] = n THEN [byPort EXCEPT ![k] = NoName] ELSE byPort

\* The name slot that RemoveIfOwner(n, c) leaves behind.
Misses(n, c) == n # Trim[n] /\ byName[Trim[n]] = c

NoteMiss(n, c) ==
    leak' = IF Misses(n, c) THEN [leak EXCEPT ![c] = @ \cup {"untrimmed"}] ELSE leak

Goto(c, t, p) == pc' = [pc EXCEPT ![c][t] = p]

\* The run task goes on with p.  The top of the loop checks closed; a message that
\* arrives while the loop waits may still be handled after closed is set.
Continue(c, p, o) ==
    /\ Goto(c, "run", IF p = "loop" /\ closed[c] THEN "exit" ELSE p)
    /\ op' = [op EXCEPT ![c] = IF p = "loop" THEN NoOp ELSE o]

\* MUTANT: the listener task is aborted but not waited for.
CloseSocketAbortOnly(c, n) == bound' = bound

\* tunnel.close waits for the listener task of a tcp tunnel.  A udp tunnel's
\* writer task is a child of the aborted one and keeps the socket for a while.
CloseSocket(c, n) ==
    bound' = {b \in bound : ~(b.ctl = c /\ b.name = n /\ b.key \notin UdpKeys)}

\* The cleaner holds the TunnelManager's mutex from the drain to the last release.
TunnelsLocked(c) == \E t \in Tasks : pc[c][t] \in {"closing", "release"}

Dropped(c) == pc[c]["drop"] = "done"

\* Somebody outside may still find a reference to c: it was built, and not dropped.
Reachable(c) == pc[c]["run"] # "new" /\ pc[c]["drop"] = "idle"

-----------------------------------------------------------------------------
(* The run task.                                                           *)

\* The login succeeded and Control::run starts, or it failed (agent conflict,
\* login response not written) and the Control is shut down at once.
Login(c) ==
    /\ pc[c]["run"] = "new"
    /\ \E p \in {"loop", "exit"} : Goto(c, "run", p)
    /\ UNCHANGED <<tables, tm, bound, flags, op, work, leak>>

\* A NewTunnel message: refused on a closed session, otherwise claim_name begins
\* by detaching this session's own tunnel of that name.
HandleNewTunnel(c, n, k) ==
    /\ pc[c]["run"] = "loop"
    /\ ~closed[c]
    /\ Continue(c, "detach", [name |-> n, key |-> k, rel |-> NoKey, goal |-> "claimName"])
    /\ UNCHANGED <<tables, tm, bound, flags, work, leak>>

HandleCloseTunnel(c, n) ==
    /\ pc[c]["run"] = "loop"
    /\ Continue(c, "detach", [name |-> n, key |-> NoKey, rel |-> NoKey, goal |-> "loop"])
    /\ UNCHANGED <<tables, tm, bound, flags, work, leak>>

\* Where giving up a tunnel's slots begins.
GiveUp(k) == IF k = NoKey THEN "relName" ELSE "relPort"

\* tm.remove closes the tunnel under the mutex and waits until its socket is gone.
DetachTunnel(c) ==
    /\ pc[c]["run"] = "detach"
    /\ ~TunnelsLocked(c)
    /\ \/ /\ \A e \in tm[c] : e.name # op[c].name
          /\ Continue(c, op[c].goal, op[c])
          /\ UNCHANGED <<tm, bound>>
       \/ \E e \in tm[c] :
          /\ e.name = op[c].name
          /\ tm' = [tm EXCEPT ![c] = @ \ {e}]
          /\ CloseSocket(c, e.name)
          /\ Continue(c, GiveUp(e.key), [op[c] EXCEPT !.rel = e.key])
    /\ UNCHANGED <<tables, flags, work, leak>>

\* release_global_slot, and the undo of a failed registration: port, then name.
RelPort(c) ==
    /\ pc[c]["run"] = "relPort"
    /\ ReleasePort(op[c].rel, op[c].name)
    /\ Goto(c, "run", "relName")
    /\ UNCHANGED <<byName, tm, bound, flags, op, work, leak>>

RelName(c) ==
    /\ pc[c]["run"] = "relName"
    /\ RemoveIfOwner(op[c].name, c)
    /\ NoteMiss(op[c].name, c)
    /\ Continue(c, op[c].goal, [op[c] EXCEPT !.rel = NoKey])
    /\ UNCHANGED <<byPort, tm, bound, flags, work>>

ClaimName(c) ==
    /\ pc[c]["run"] = "claimName"
    /\ \/ /\ NameFree(op[c].name)
          /\ TryInsert(op[c].name, c)
          /\ Continue(c, IF op[c].key = NoKey THEN "start" ELSE "claimPort",
                      [op[c] EXCEPT !.goal = "loop"])
       \/ /\ ~NameFree(op[c].name)
          /\ Continue(c, "loop", op[c])
          /\ UNCHANGED byName
    /\ UNCHANGED <<byPort, tm, bound, flags, work, leak>>

\* MUTANT: claim overwrites the entry of another tunnel.
ClaimPortOverwrites(c) ==
    /\ pc[c]["run"] = "claimPort"
    /\ byPort' = [byPort EXCEPT ![op[c].key] = op[c].name]
    /\ Goto(c, "run", "start")
    /\ UNCHANGED <<byName, tm, bound, flags, op, work, leak>>

ClaimPort(c) ==
    /\ pc[c]["run"] = "claimPort"
    /\ \/ /\ byPort[op[c].key] = NoName
          /\ byPort' = [byPort EXCEPT ![op[c].key] = op[c].name]
          /\ Goto(c, "run", "start")
       \/ /\ byPort[op[c].key] # NoName
          /\ Goto(c, "run", "relName")
          /\ UNCHANGED byPort
    /\ UNCHANGED <<byName, tm, bound, flags, op, work, leak>>

\* TcpTunnel::start, UdpTunnel::start or the gateway registration.
StartTunnel(c) ==
    /\ pc[c]["run"] = "start"
    /\ \/ /\ \A b \in bound : b.key # op[c].key
          /\ bound' = IF op[c].key = NoKey THEN bound
                      ELSE bound \cup {[ctl |-> c, name |-> op[c].name, key |-> op[c].key]}
          /\ Continue(c, "insert", op[c])
       \/ /\ Continue(c, GiveUp(op[c].key), [op[c] EXCEPT !.rel = op[c].key])
          /\ UNCHANGED bound
    /\ UNCHANGED <<tables, tm, flags, work, leak>>

\* insert_tunnel does not look at closed again.
InsertTunnel(c) ==
    /\ pc[c]["run"] = "insert"
    /\ ~TunnelsLocked(c)
    /\ tm' = [tm EXCEPT ![c] = @ \cup {[name |-> op[c].name, key |-> op[c].key]}]
    /\ Continue(c, "loop", op[c])
    /\ UNCHANGED <<tables, bound, flags, work, leak>>

\* The read fails, the response cannot be written, or the loop sees closed.
LeaveLoop(c) ==
    /\ pc[c]["run"] = "loop"
    /\ Goto(c, "run", "exit")
    /\ UNCHANGED <<tables, tm, bound, flags, op, work, leak>>

\* The watcher saw no Ping for longer than the timeout.
HeartbeatTimeout(c) ==
    /\ pc[c]["run"] \notin {"new", "exit", "lock", "closing", "release", "finish", "wait", "done"}
    /\ ~closed[c]
    /\ closed' = [closed EXCEPT ![c] = TRUE]
    /\ UNCHANGED <<tables, tm, bound, cleaning, finished, pc, op, work, leak>>

-----------------------------------------------------------------------------
(* Control::shutdown, by the run task or by a task from outside.           *)

\* kick signals, writes KickOut for up to a second and only then shuts down.
KickSignal(c) ==
    /\ "kick" \in Callers
    /\ pc[c]["ext"] = "idle"
    /\ Reachable(c)
    /\ closed' = [closed EXCEPT ![c] = TRUE]
    /\ Goto(c, "ext", "signal")
    /\ UNCHANGED <<tables, tm, bound, cleaning, finished, op, work, leak>>

\* The first caller becomes the cleaner; the others wait for it.
Shutdown(c, t) ==
    /\ closed' = [closed EXCEPT ![c] = TRUE]
    /\ cleaning' = [cleaning EXCEPT ![c] = TRUE]
    /\ Goto(c, t, IF cleaning[c] THEN "wait" ELSE "lock")
    /\ UNCHANGED <<tables, tm, bound, finished, op, work, leak>>

RunShutdown(c) == pc[c]["run"] = "exit" /\ Shutdown(c, "run")

KickShutdown(c) == pc[c]["ext"] = "signal" /\ Shutdown(c, "ext")

ReplaceShutdown(c) ==
    /\ "login" \in Callers
    /\ pc[c]["ext"] \in {"idle", "cancelled"}
    /\ Reachable(c)
    /\ Shutdown(c, "ext")

\* close_all takes every entry out of the manager and closes them one by one.
Drain(c, t) ==
    /\ pc[c][t] = "lock"
    /\ ~TunnelsLocked(c)
    /\ toClose' = [toClose EXCEPT ![c] = tm[c]]
    /\ tm' = [tm EXCEPT ![c] = {}]
    /\ Goto(c, t, "closing")
    /\ UNCHANGED <<tables, bound, flags, op, toRelease, half, leak>>

\* MUTANT: the name is released when the tunnel is closed, before the port.
CloseOneFreesName(c, t) ==
    /\ pc[c][t] = "closing"
    /\ \E e \in toClose[c] :
       /\ toClose' = [toClose EXCEPT ![c] = @ \ {e}]
       /\ toRelease' = [toRelease EXCEPT ![c] = @ \cup {e}]
       /\ CloseSocket(c, e.name)
       /\ RemoveIfOwner(e.name, c)
    /\ UNCHANGED <<byPort, tm, flags, pc, op, half, leak>>

CloseOne(c, t) ==
    /\ pc[c][t] = "closing"
    /\ \E e \in toClose[c] :
       /\ toClose' = [toClose EXCEPT ![c] = @ \ {e}]
       /\ toRelease' = [toRelease EXCEPT ![c] = @ \cup {e}]
       /\ CloseSocket(c, e.name)
    /\ UNCHANGED <<tables, tm, flags, pc, op, half, leak>>

AllClosed(c, t) ==
    /\ pc[c][t] = "closing"
    /\ toClose[c] = {}
    /\ Goto(c, t, "release")
    /\ UNCHANGED <<tables, tm, bound, flags, op, work, leak>>

ReleaseOnePort(c, t) ==
    /\ pc[c][t] = "release"
    /\ half[c] = {}
    /\ \E e \in toRelease[c] :
       /\ toRelease' = [toRelease EXCEPT ![c] = @ \ {e}]
       /\ half' = [half EXCEPT ![c] = {e}]
       /\ \/ e.key # NoKey /\ ReleasePort(e.key, e.name)
          \/ e.key = NoKey /\ UNCHANGED byPort
    /\ UNCHANGED <<byName, tm, bound, flags, pc, op, toClose, leak>>

ReleaseOneName(c, t) ==
    /\ pc[c][t] = "release"
    /\ \E e \in half[c] :
       /\ half' = [half EXCEPT ![c] = {}]
       /\ RemoveIfOwner(e.name, c)
       /\ NoteMiss(e.name, c)
    /\ UNCHANGED <<byPort, tm, bound, flags, pc, op, toClose, toRelease>>

\* The writer is shut down and the background tasks are joined after the mutex
\* is released; the destructor has nothing left to do.
AllReleased(c, t) ==
    /\ pc[c][t] = "release"
    /\ toRelease[c] = {} /\ half[c] = {}
    /\ Goto(c, t, IF t = "drop" THEN "done" ELSE "finish")
    /\ finished' = IF t = "drop" THEN [finished EXCEPT ![c] = TRUE] ELSE finished
    /\ UNCHANGED <<tables, tm, bound, closed, cleaning, op, work, leak>>

MarkFinished(c, t) ==
    /\ pc[c][t] = "finish"
    /\ finished' = [finished EXCEPT ![c] = TRUE]
    /\ Goto(c, t, "done")
    /\ UNCHANGED <<tables, tm, bound, closed, cleaning, op, work, leak>>

\* MUTANT: no FINISHED_WAIT_TIMEOUT.
StopWaitingWhenFinished(c, t) ==
    /\ pc[c][t] = "wait"
    /\ finished[c]
    /\ Goto(c, t, "done")
    /\ UNCHANGED <<tables, tm, bound, flags, op, work, leak>>

\* wait_finished returned, FINISHED_WAIT_TIMEOUT passed, or a waiting kick was dropped.
StopWaiting(c, t) ==
    /\ pc[c][t] = "wait"
    /\ Goto(c, t, "done")
    /\ UNCHANGED <<tables, tm, bound, flags, op, work, leak>>

\* The kick's future is dropped at one of its awaits.  Inside close_all it takes
\* the drained entries with it: their sockets are aborted, nothing is released.
\* (A login's shutdown is never cancelled; the model does not tell the two apart once
\* they are inside, as a kick may be at the same place of the same Control.)
KickCancelled(c) ==
    /\ "kick" \in Callers
    /\ \/ /\ pc[c]["ext"] \in {"signal", "lock", "finish"}
          /\ UNCHANGED <<toClose, toRelease, leak>>
       \/ /\ pc[c]["ext"] = "closing"
          /\ \E e \in toClose[c] : e.key # NoKey
          /\ toClose' = [toClose EXCEPT ![c] = {}]
          /\ toRelease' = [toRelease EXCEPT ![c] = {}]
          /\ leak' = [leak EXCEPT ![c] = @ \cup {"cancelled"}]
    /\ Goto(c, "ext", "cancelled")
    /\ UNCHANGED <<tables, tm, bound, flags, op, half>>

-----------------------------------------------------------------------------
(* impl Drop for Control.                                                  *)

LastReference(c) ==
    /\ pc[c]["run"] = "done"
    /\ pc[c]["ext"] \in {"idle", "done", "cancelled"}
    /\ pc[c]["drop"] = "idle"

\* A finished Control is not cleaned again: whatever its manager still holds is
\* dropped with it.
DropFinished(c) ==
    /\ LastReference(c)
    /\ finished[c]
    /\ tm' = [tm EXCEPT ![c] = {}]
    /\ leak' = IF tm[c] = {} THEN leak ELSE [leak EXCEPT ![c] = @ \cup {"lateInsert"}]
    /\ Goto(c, "drop", "done")
    /\ UNCHANGED <<tables, bound, flags, op, work>>

\* MUTANT: abandon_all's entries are not released.
DropUnfinishedForgets(c) ==
    /\ LastReference(c)
    /\ ~finished[c]
    /\ tm' = [tm EXCEPT ![c] = {}]
    /\ Goto(c, "drop", "done")
    /\ UNCHANGED <<tables, bound, flags, op, work, leak>>

\* abandon_all: the entries are dropped without waiting for their sockets.
DropUnfinished(c) ==
    /\ LastReference(c)
    /\ ~finished[c]
    /\ toRelease' = [toRelease EXCEPT ![c] = tm[c]]
    /\ tm' = [tm EXCEPT ![c] = {}]
    /\ Goto(c, "drop", "release")
    /\ UNCHANGED <<tables, bound, flags, op, toClose, half, leak>>

\* A socket whose tunnel was closed or dropped: the task that holds it was aborted
\* or starved of input and goes away some time later.
Orphan(b) ==
    /\ [name |-> b.name, key |-> b.key] \notin tm[b.ctl] \cup toClose[b.ctl]
    /\ ~(pc[b.ctl]["run"] = "insert" /\ op[b.ctl].name = b.name /\ op[b.ctl].key = b.key)

SocketGone ==
    /\ \E b \in bound : Orphan(b) /\ bound' = bound \ {b}
    /\ UNCHANGED <<tables, tm, flags, pc, op, work, leak>>

-----------------------------------------------------------------------------
RunStep(c) ==
    \/ DetachTunnel(c) \/ RelPort(c) \/ RelName(c) \/ ClaimName(c) \/ ClaimPort(c)
    \/ StartTunnel(c) \/ InsertTunnel(c) \/ LeaveLoop(c) \/ RunShutdown(c)

CleanStep(c, t) ==
    \/ Drain(c, t) \/ CloseOne(c, t) \/ AllClosed(c, t) \/ ReleaseOnePort(c, t)
    \/ ReleaseOneName(c, t) \/ AllReleased(c, t) \/ MarkFinished(c, t) \/ StopWaiting(c, t)

DropStep(c) == DropFinished(c) \/ DropUnfinished(c)

Next ==
    \/ \E c \in Controls :
        \/ Login(c)
        \/ \E n \in Names, k \in PortKeys \cup {NoKey} : HandleNewTunnel(c, n, k)
        \/ \E n \in Names : HandleCloseTunnel(c, n)
        \/ RunStep(c)
        \/ HeartbeatTimeout(c)
        \/ KickSignal(c) \/ KickShutdown(c) \/ KickCancelled(c) \/ ReplaceShutdown(c)
        \/ \E t \in Tasks : CleanStep(c, t)
        \/ DropStep(c)
    \/ SocketGone
    \/ (\A c \in Controls : Dropped(c)) /\ UNCHANGED vars

Spec == Init /\ [][Next]_vars

\* Every task of the server is scheduled; clients and dashboards owe nothing.
Fairness ==
    /\ \A c \in Controls :
        /\ WF_vars(RunStep(c) /\ pc[c]["run"] # "loop")
        /\ WF_vars(LeaveLoop(c) /\ closed[c])
        /\ WF_vars(KickShutdown(c))
        /\ \A t \in Tasks : WF_vars(CleanStep(c, t))
        /\ WF_vars(DropStep(c))
    /\ WF_vars(SocketGone)

FairSpec == Spec /\ Fairness

-----------------------------------------------------------------------------
(* Properties.                                                             *)

\* A tunnel in a session's manager is the registered one: its trimmed name is
\* owned by that session and its port, if any, is recorded under its name.
RegisteredTunnels ==
    \A c \in Controls : \A e \in tm[c] :
        /\ byName[Trim[e.name]] = c
        /\ e.key # NoKey => byPort[e.key] = e.name

\* No two sessions serve the same name or the same port, and no session serves
\* one port under two names.
Exclusive ==
    \A c, d \in Controls : \A e \in tm[c], f \in tm[d] :
        /\ Trim[e.name] = Trim[f.name] => c = d /\ e = f
        /\ e.key = f.key /\ e.key # NoKey => c = d /\ e = f

\* The port table records no owner, so a release that comes late could free the
\* port of another session's tunnel of the same name.  It never does: whoever is
\* about to release a port recorded under its tunnel's name still owns that name.
ReleasesOwnPort ==
    \A c \in Controls :
        /\ pc[c]["run"] = "relPort" /\ byPort[op[c].rel] = op[c].name
              => byName[Trim[op[c].name]] = c
        /\ \A e \in toClose[c] \cup toRelease[c] :
              e.key # NoKey /\ byPort[e.key] = e.name => byName[Trim[e.name]] = c

\* A port is never held by a name nobody owns: ports are released before names.
PortHolderRegistered ==
    \A k \in PortKeys : byPort[k] # NoName => byName[Trim[byPort[k]]] # NoControl

\* insert_tunnel's "already present in this session" is unreachable: the run task
\* detached the name and is the only one that inserts.
NeverOccupied ==
    \A c \in Controls : pc[c]["run"] = "insert" => \A e \in tm[c] : e.name # op[c].name

\* Managers, name table and port table agree at every point of every registration,
\* closing and shutdown, a port is released by its owner, and insert_tunnel never finds
\* its name in the manager.
TablesAgree ==
    TypeOK /\ RegisteredTunnels /\ ReleasesOwnPort /\ PortHolderRegistered /\ NeverOccupied

\* A port is leased under the trimmed name of its tunnel.
LeasedName(n) == IF n = NoName THEN NoName ELSE Trim[n]

Leases == INSTANCE SlotLease
              WITH Holders <- Controls, SlotNames <- Names, Ports <- PortKeys,
                   Nobody <- NoControl, NoLease <- NoName,
                   owner <- byName, lease <- [k \in PortKeys |-> LeasedName(byPort[k])],
                   here <- [c \in Controls |-> ~Dropped(c)]

\* The tables of the server, which know no owner of a port and are changed by three kinds
\* of tasks in steps that interleave, keep the promise of SlotLease: a port is assigned
\* and freed, and a name is given up, by the session that owns the name, and no session
\* touches a slot after its destructor has run.
ImplementsLeases == Leases!Spec

\* A claimed tcp port can be bound: any socket that this server still has on it
\* was left by a destructor or by a cancelled kick, not by an orderly close.
TcpPortFreeToBind ==
    \A c \in Controls : \A b \in bound :
        pc[c]["run"] = "start" /\ b.key = op[c].key /\ b.key \notin UdpKeys
            => Orphan(b) /\ (Dropped(b.ctl) \/ pc[b.ctl]["drop"] = "release" \/ "cancelled" \in leak[b.ctl])

\* The slots of a session that is gone are free again.
HoldsSlot(c) ==
    \E n \in Names : byName[n] = c

DroppedControlHoldsNothing ==
    \A c \in Controls : Dropped(c) => ~HoldsSlot(c)

\* The only ways in which a session that is gone can leave a slot behind: a tunnel
\* inserted after the cleaner drained the manager, a kick cancelled inside
\* close_all, a name with surrounding white space.
LeakHasCause ==
    \A c \in Controls : Dropped(c) /\ HoldsSlot(c) => leak[c] # {}

\* A session that is closed, by whomever, is destroyed.
ClosedIsDropped == \A c \in Controls : closed[c] ~> Dropped(c)
=============================================================================
