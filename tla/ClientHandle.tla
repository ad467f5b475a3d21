---------------------------- MODULE ClientHandle ----------------------------
(***************************************************************************)
(* Starting and stopping the client from the desktop (ClientHandle in      *)
(* client/src/handle.rs, called by desktop/src/runtime.rs).                *)
(*                                                                         *)
(* The handle keeps a status, a cancellation token, a join handle and a    *)
(* reload channel, each behind a mutex of its own.  start_with runs on the *)
(* UI thread, every stop in a task of its own, and the client's own task   *)
(* clears what it was started with when it ends: three parties that change *)
(* the same four cells one at a time.  Run n is the n-th task started.     *)
(***************************************************************************)
EXTENDS Naturals

CONSTANTS
    MaxRuns,   \* how often the client is started
    Stoppers   \* stop calls

ASSUME HandleAssumptions == MaxRuns \in Nat

VARIABLES
    status,    \* Inner.status
    token,     \* Inner.cancel: the run whose token it holds, 0 for none
    join,      \* Inner.join: the run, 0 for none
    reloadTx,  \* Inner.reload_tx: the run whose channel it sends to, 0 for none
    cancelled, \* the runs whose token is cancelled
    task,      \* task[n]: where the task of run n is
    aborting,  \* the runs whose task is to be aborted
    ui,        \* where start_with is, and for which run
    stop,      \* stop[s]: where a stop call is
    awaits     \* awaits[s]: the run whose task it waits for

vars == <<status, token, join, reloadTx, cancelled, task, aborting, ui, stop, awaits>>

Runs == 1..MaxRuns
Active == {"Starting", "Running", "Reconnecting", "Stopping"}

\* The types of the variables.
TypeOK ==
    /\ status \in Active \cup {"Stopped"}
    /\ {token, join, reloadTx} \subseteq 0..MaxRuns
    /\ cancelled \subseteq Runs
    /\ task \in [Runs -> {"none", "spawned", "begun", "run", "clearTx", "clearToken", "setStopped",
                          "done", "aborted"}]
    /\ aborting \subseteq Runs
    /\ ui \in [at : {"idle", "token", "status", "spawn", "join"}, run : 0..MaxRuns]
    /\ stop \in [Stoppers -> {"idle", "check", "stopping", "cancel", "join", "await", "stopped", "clear",
                              "returned", "early"}]
    /\ awaits \in [Stoppers -> 0..MaxRuns]

Init ==
    /\ status = "Stopped"
    /\ token = 0 /\ join = 0 /\ reloadTx = 0
    /\ cancelled = {}
    /\ task = [n \in Runs |-> "none"]
    /\ aborting = {}
    /\ ui = [at |-> "idle", run |-> 0]
    /\ stop = [s \in Stoppers |-> "idle"]
    /\ awaits = [s \in Stoppers |-> 0]

-----------------------------------------------------------------------------
(* start_with, on the UI thread.                                           *)

UI(at) == ui' = [ui EXCEPT !.at = at]

StartCheck ==
    /\ ui.at = "idle" /\ ui.run < MaxRuns
    /\ status \notin Active
    /\ ui' = [at |-> "token", run |-> ui.run + 1]
    /\ UNCHANGED <<status, token, join, reloadTx, cancelled, task, aborting, stop, awaits>>

StartToken ==
    /\ ui.at = "token"
    /\ token' = ui.run
    /\ UI("status")
    /\ UNCHANGED <<status, join, reloadTx, cancelled, task, aborting, stop, awaits>>

StartStatus ==
    /\ ui.at = "status"
    /\ status' = "Starting"
    /\ UI("spawn")
    /\ UNCHANGED <<token, join, reloadTx, cancelled, task, aborting, stop, awaits>>

StartSpawn ==
    /\ ui.at = "spawn"
    /\ task' = [task EXCEPT ![ui.run] = "spawned"]
    /\ UI("join")
    /\ UNCHANGED <<status, token, join, reloadTx, cancelled, aborting, stop, awaits>>

StartJoin ==
    /\ ui.at = "join"
    /\ join' = ui.run
    /\ UI("idle")
    /\ UNCHANGED <<status, token, reloadTx, cancelled, task, aborting, stop, awaits>>

-----------------------------------------------------------------------------
(* The client's task: run_inner and what follows it.                       *)

Task(n, at) == task' = [task EXCEPT ![n] = at]

\* Without a token the task ends at once.
TaskBegins(n) ==
    /\ task[n] = "spawned"
    /\ Task(n, IF token = 0 THEN "clearTx" ELSE "begun")
    /\ UNCHANGED <<status, token, join, reloadTx, cancelled, aborting, ui, stop, awaits>>

TaskSetsReloadTx(n) ==
    /\ task[n] = "begun"
    /\ reloadTx' = n
    /\ Task(n, "run")
    /\ UNCHANGED <<status, token, join, cancelled, aborting, ui, stop, awaits>>

\* on_status, from the service loop.
TaskReports(n) ==
    /\ task[n] = "run"
    /\ status' \in {"Starting", "Running", "Reconnecting"}
    /\ UNCHANGED <<token, join, reloadTx, cancelled, task, aborting, ui, stop, awaits>>

\* Service::run returns: cancelled, refused or kicked.
TaskEnds(n) ==
    /\ task[n] = "run"
    /\ Task(n, "clearTx")
    /\ UNCHANGED <<status, token, join, reloadTx, cancelled, aborting, ui, stop, awaits>>

TaskClearsTx(n) ==
    /\ task[n] = "clearTx"
    /\ reloadTx' = 0
    /\ Task(n, "clearToken")
    /\ UNCHANGED <<status, token, join, cancelled, aborting, ui, stop, awaits>>

TaskClearsToken(n) ==
    /\ task[n] = "clearToken"
    /\ token' = 0
    /\ Task(n, "setStopped")
    /\ UNCHANGED <<status, join, reloadTx, cancelled, aborting, ui, stop, awaits>>

\* MUTANT: a task that was not cancelled leaves the status as it is.
TaskSetsStoppedIfCancelled(n) ==
    /\ task[n] = "setStopped"
    /\ status' = IF n \in cancelled THEN "Stopped" ELSE status
    /\ Task(n, "done")
    /\ UNCHANGED <<token, join, reloadTx, cancelled, aborting, ui, stop, awaits>>

TaskSetsStopped(n) ==
    /\ task[n] = "setStopped"
    /\ status' = "Stopped"
    /\ Task(n, "done")
    /\ UNCHANGED <<token, join, reloadTx, cancelled, aborting, ui, stop, awaits>>

\* An abort takes effect where the task awaits, so not once run_inner has returned.
TaskAborted(n) ==
    /\ n \in aborting
    /\ task[n] \in {"spawned", "run"}
    /\ Task(n, "aborted")
    /\ UNCHANGED <<status, token, join, reloadTx, cancelled, aborting, ui, stop, awaits>>

-----------------------------------------------------------------------------
(* stop.                                                                   *)

Stop(s, at) == stop' = [stop EXCEPT ![s] = at]

\* stop_async, on the UI thread: the stop runs in a task of its own.
StopAsync(s) ==
    /\ ui.at = "idle"
    /\ stop[s] = "idle"
    /\ status \in Active
    /\ Stop(s, "check")
    /\ UNCHANGED <<status, token, join, reloadTx, cancelled, task, aborting, ui, awaits>>

StopCheck(s) ==
    /\ stop[s] = "check"
    /\ Stop(s, IF status = "Stopped" THEN "early" ELSE "stopping")
    /\ UNCHANGED <<status, token, join, reloadTx, cancelled, task, aborting, ui, awaits>>

StopStatus(s) ==
    /\ stop[s] = "stopping"
    /\ status' = "Stopping"
    /\ Stop(s, "cancel")
    /\ UNCHANGED <<token, join, reloadTx, cancelled, task, aborting, ui, awaits>>

StopCancel(s) ==
    /\ stop[s] = "cancel"
    /\ cancelled' = cancelled \cup ({token} \ {0})
    /\ token' = 0
    /\ Stop(s, "join")
    /\ UNCHANGED <<status, join, reloadTx, task, aborting, ui, awaits>>

StopJoin(s) ==
    /\ stop[s] = "join"
    /\ awaits' = [awaits EXCEPT ![s] = join]
    /\ join' = 0
    /\ Stop(s, IF join = 0 THEN "stopped" ELSE "await")
    /\ UNCHANGED <<status, token, reloadTx, cancelled, task, aborting, ui>>

\* The task has ended and has set the status itself.
StopJoined(s) ==
    /\ stop[s] = "await"
    /\ task[awaits[s]] \in {"done", "aborted"}
    /\ Stop(s, "clear")
    /\ UNCHANGED <<status, token, join, reloadTx, cancelled, task, aborting, ui, awaits>>

\* Five seconds have passed.
StopAborts(s) ==
    /\ stop[s] = "await"
    /\ task[awaits[s]] # "done"
    /\ aborting' = aborting \cup {awaits[s]}
    /\ Stop(s, "stopped")
    /\ UNCHANGED <<status, token, join, reloadTx, cancelled, task, ui, awaits>>

StopSetsStopped(s) ==
    /\ stop[s] = "stopped"
    /\ status' = "Stopped"
    /\ Stop(s, "clear")
    /\ UNCHANGED <<token, join, reloadTx, cancelled, task, aborting, ui, awaits>>

StopClears(s) ==
    /\ stop[s] = "clear"
    /\ reloadTx' = 0
    /\ Stop(s, "returned")
    /\ UNCHANGED <<status, token, join, cancelled, task, aborting, ui, awaits>>

-----------------------------------------------------------------------------
Start == StartCheck \/ StartToken \/ StartStatus \/ StartSpawn \/ StartJoin
TaskStep(n) == TaskBegins(n) \/ TaskSetsReloadTx(n) \/ TaskEnds(n) \/ TaskClearsTx(n)
               \/ TaskClearsToken(n) \/ TaskSetsStopped(n) \/ TaskAborted(n)
StopStep(s) == StopCheck(s) \/ StopStatus(s) \/ StopCancel(s) \/ StopJoin(s) \/ StopJoined(s) \/ StopAborts(s)
               \/ StopSetsStopped(s) \/ StopClears(s)

Next ==
    \/ Start
    \/ \E n \in Runs : TaskStep(n) \/ TaskReports(n)
    \/ \E s \in Stoppers : StopAsync(s) \/ StopStep(s)

Spec == Init /\ [][Next]_vars

-----------------------------------------------------------------------------
(* Properties.                                                             *)

Running(n) == task[n] \in {"begun", "run"} /\ n \notin aborting
Quiet == ui.at = "idle" /\ \A s \in Stoppers : stop[s] \in {"idle", "early", "returned"}

\* The client runs once: start_with refuses while a run that nobody has aborted is
\* still there.
OneRun == \A m, n \in Runs : Running(m) /\ Running(n) => m = n

\* The client runs twice only if a stop said Stopped on its own: it found nobody to
\* wait for, or gave up waiting.  A stop that waits until the task has ended is safe
\* against every start.
TwoRunsHaveCause ==
    OneRun \/ \E s \in Stoppers : /\ stop[s] \in {"clear", "returned"}
                                  /\ awaits[s] \in aborting \cup {0}

\* With the calls under way returned, start_with refuses with "client already running"
\* although no task is there only after a stop that found a task: either the task set
\* Stopped between the two sections in which the stop reads the status and sets Stopping,
\* or it was aborted and reported once more.  A run that ends by itself, or that a start
\* overlaps, never leaves the client stuck.
StuckHasCause ==
    Quiet /\ status \in Active =>
        \/ \E n \in Runs : task[n] \notin {"none", "done", "aborted"}
        \/ \E s \in Stoppers : stop[s] = "returned" /\ awaits[s] # 0

\* Whatever starts, stops and the end of the task do between each other's steps, the client
\* neither runs twice nor refuses to start, but for the causes given.
RunsSound == TypeOK /\ TwoRunsHaveCause /\ StuckHasCause
=============================================================================
