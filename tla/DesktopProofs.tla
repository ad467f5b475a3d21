--------------------------- MODULE DesktopProofs ---------------------------
(***************************************************************************)
(* Proofs about the desktop application: starting and stopping the client  *)
(* (ClientHandle), the logger page (LogView), the certificates (CertIssue) *)
(* and the pages around the configuration file (DesktopApp).               *)
(***************************************************************************)
EXTENDS ClientHandle, LogView, CertIssue, DesktopApp, SequenceTheorems, FiniteSetTheorems, TLAPS

-----------------------------------------------------------------------------
(* ClientHandle, for any number of runs and of stop calls.                 *)

Live(n) == task[n] \notin {"none", "done", "aborted"}

\* A stop has said Stopped on its own.
SaidStopped ==
    \E s \in Stoppers : stop[s] \in {"clear", "returned"} /\ awaits[s] \in aborting \cup {0}

\* start_with has a run from its first check on.
HasRun == ui.at # "idle" => ui.run # 0

\* A stop waits for a run, and says Stopped on its own if it had none or has given it up.
StopsWait ==
    \A s \in Stoppers : /\ stop[s] = "await" => awaits[s] # 0
                        /\ stop[s] = "stopped" => awaits[s] \in aborting \cup {0}

\* Unless a stop has said Stopped on its own, only the last run is there, its start has
\* come to an end but for the join handle, and the status says so.
SoleRun ==
    \/ SaidStopped
    \/ /\ \A n \in Runs : Live(n) => n = ui.run /\ ui.at \in {"idle", "join"} /\ status \in Active
       /\ ui.at = "spawn" => status \in Active

\* A run is aborted by a stop that has waited for it.
AbortsHaveStop ==
    \A n \in aborting : \E s \in Stoppers : awaits[s] = n /\ stop[s] \in {"stopped", "clear", "returned"}

\* What a status that is not Stopped is good for.
Claimed(s) ==
    \/ stop[s] \in {"cancel", "join", "await", "stopped"}
    \/ stop[s] \in {"clear", "returned"} /\ awaits[s] # 0

ActiveHasReason ==
    status \in Active => \/ \E n \in Runs : Live(n)
                         \/ ui.at = "spawn"
                         \/ \E s \in Stoppers : Claimed(s)

HandleInv == TypeOK /\ HasRun /\ StopsWait /\ SoleRun /\ AbortsHaveStop /\ ActiveHasReason

LEMMA HandleInit == Init => HandleInv
  <1> SUFFICES ASSUME Init PROVE HandleInv
    OBVIOUS
  <1>1. TypeOK
    BY HandleAssumptions DEF Init, TypeOK, Runs, Active
  <1>2. HasRun /\ StopsWait /\ AbortsHaveStop
    BY DEF Init, HasRun, StopsWait, AbortsHaveStop
  <1>3. SoleRun
    BY DEF Init, SoleRun, Live
  <1>4. ActiveHasReason
    BY DEF Init, ActiveHasReason, Active
  <1>5. QED
    BY <1>1, <1>2, <1>3, <1>4 DEF HandleInv

\* The start of a run.
LEMMA StartStep == ASSUME HandleInv, Start PROVE HandleInv'
  <1> USE HandleAssumptions
  <1>1. /\ TypeOK /\ ui.at \in {"idle", "token", "status", "spawn", "join"} /\ ui.run \in 0..MaxRuns
        /\ UNCHANGED <<reloadTx, cancelled, aborting, stop, awaits>>
    BY DEF HandleInv, TypeOK, Start, StartCheck, StartToken, StartStatus, StartSpawn, StartJoin
  <1>2. /\ StopsWait' /\ AbortsHaveStop' /\ (SaidStopped => SaidStopped')
        /\ \A s \in Stoppers : Claimed(s) => Claimed(s)'
    BY <1>1 DEF HandleInv, StopsWait, AbortsHaveStop, SaidStopped, Claimed
  <1>3. CASE StartCheck
    <2>1. /\ ui'.at = "token" /\ ui'.run = ui.run + 1 /\ ui' \in [at : {"idle", "token", "status", "spawn", "join"}, run : 0..MaxRuns]
          /\ status' = status /\ token' = token /\ join' = join /\ task' = task /\ status \notin Active
      BY <1>1, <1>3 DEF StartCheck
    <2>2. TypeOK'
      BY <1>1, <2>1 DEF TypeOK
    <2>3. HasRun'
      BY <1>1, <2>1 DEF HasRun
    <2>4. SoleRun'
      BY <1>2, <2>1 DEF HandleInv, SoleRun, Live
    <2>5. ActiveHasReason'
      BY <2>1 DEF ActiveHasReason
    <2>6. QED
      BY <1>2, <2>2, <2>3, <2>4, <2>5 DEF HandleInv
  <1>4. CASE StartToken
    <2>1. /\ ui.at = "token" /\ ui'.at = "status" /\ ui'.run = ui.run
          /\ ui' \in [at : {"idle", "token", "status", "spawn", "join"}, run : 0..MaxRuns]
          /\ status' = status /\ token' = ui.run /\ join' = join /\ task' = task
      BY <1>1, <1>4 DEF StartToken, UI, TypeOK
    <2>2. TypeOK'
      BY <1>1, <2>1 DEF TypeOK
    <2>3. HasRun'
      BY <2>1 DEF HandleInv, HasRun
    <2>4. SoleRun'
      BY <1>2, <2>1 DEF HandleInv, SoleRun, Live
    <2>5. ActiveHasReason'
      BY <1>2, <2>1 DEF HandleInv, ActiveHasReason, Live
    <2>6. QED
      BY <1>2, <2>2, <2>3, <2>4, <2>5 DEF HandleInv
  <1>5. CASE StartStatus
    <2>1. /\ ui.at = "status" /\ ui'.at = "spawn" /\ ui'.run = ui.run
          /\ ui' \in [at : {"idle", "token", "status", "spawn", "join"}, run : 0..MaxRuns]
          /\ status' = "Starting" /\ token' = token /\ join' = join /\ task' = task
      BY <1>1, <1>5 DEF StartStatus, UI, TypeOK
    <2>2. TypeOK'
      BY <1>1, <2>1 DEF TypeOK, Active
    <2>3. HasRun'
      BY <2>1 DEF HandleInv, HasRun
    <2>4. SoleRun'
      BY <1>2, <2>1 DEF HandleInv, SoleRun, Live, Active
    <2>5. ActiveHasReason'
      BY <2>1 DEF ActiveHasReason
    <2>6. QED
      BY <1>2, <2>2, <2>3, <2>4, <2>5 DEF HandleInv
  <1>6. CASE StartSpawn
    <2>1. /\ ui.at = "spawn" /\ ui'.at = "join" /\ ui'.run = ui.run
          /\ ui' \in [at : {"idle", "token", "status", "spawn", "join"}, run : 0..MaxRuns]
          /\ status' = status /\ token' = token /\ join' = join /\ task' = [task EXCEPT ![ui.run] = "spawned"]
      BY <1>1, <1>6 DEF StartSpawn, UI, TypeOK
    <2>2. ui.run \in Runs
      BY <1>1, <2>1 DEF HandleInv, HasRun, Runs
    <2>3. TypeOK'
      BY <1>1, <2>1 DEF TypeOK
    <2>4. task'[ui.run] = "spawned" /\ \A n \in Runs \ {ui.run} : task'[n] = task[n]
      BY <1>1, <2>1, <2>2 DEF TypeOK
    <2>5. HasRun'
      BY <2>1 DEF HandleInv, HasRun
    <2>6. SoleRun'
      BY <1>2, <2>1, <2>4 DEF HandleInv, SoleRun, Live
    <2>7. ActiveHasReason'
      BY <2>2, <2>4 DEF ActiveHasReason, Live
    <2>8. QED
      BY <1>2, <2>3, <2>5, <2>6, <2>7 DEF HandleInv
  <1>7. CASE StartJoin
    <2>1. /\ ui.at = "join" /\ ui'.at = "idle" /\ ui'.run = ui.run
          /\ ui' \in [at : {"idle", "token", "status", "spawn", "join"}, run : 0..MaxRuns]
          /\ status' = status /\ token' = token /\ join' = ui.run /\ task' = task
      BY <1>1, <1>7 DEF StartJoin, UI, TypeOK
    <2>2. TypeOK'
      BY <1>1, <2>1 DEF TypeOK
    <2>3. HasRun'
      BY <2>1 DEF HandleInv, HasRun
    <2>4. SoleRun'
      BY <1>2, <2>1 DEF HandleInv, SoleRun, Live
    <2>5. ActiveHasReason'
      BY <1>2, <2>1 DEF HandleInv, ActiveHasReason, Live
    <2>6. QED
      BY <1>2, <2>2, <2>3, <2>4, <2>5 DEF HandleInv
  <1>8. QED
    BY <1>3, <1>4, <1>5, <1>6, <1>7 DEF Start

\* The steps of a task.
LEMMA TaskSteps == ASSUME HandleInv, NEW n \in Runs, TaskStep(n) \/ TaskReports(n) PROVE HandleInv'
  <1>1. TypeOK /\ UNCHANGED <<join, cancelled, aborting, ui, stop, awaits>>
    BY DEF HandleInv, TaskStep, TaskBegins, TaskSetsReloadTx, TaskEnds, TaskClearsTx, TaskClearsToken,
       TaskSetsStopped, TaskAborted, TaskReports
  <1>2. /\ StopsWait' /\ AbortsHaveStop' /\ HasRun' /\ (SaidStopped => SaidStopped')
        /\ \A s \in Stoppers : Claimed(s) => Claimed(s)'
    BY <1>1 DEF HandleInv, StopsWait, AbortsHaveStop, SaidStopped, Claimed, HasRun
  <1>3. CASE TaskBegins(n) \/ TaskSetsReloadTx(n) \/ TaskEnds(n) \/ TaskClearsTx(n) \/ TaskClearsToken(n)
    <2>1. PICK at \in {"begun", "run", "clearTx", "clearToken", "setStopped"} : task' = [task EXCEPT ![n] = at]
      BY <1>3 DEF TaskBegins, TaskSetsReloadTx, TaskEnds, TaskClearsTx, TaskClearsToken, Task
    <2>2. Live(n) /\ status' = status /\ token' \in {token, 0} /\ reloadTx' \in {reloadTx, n, 0}
      BY <1>3 DEF TaskBegins, TaskSetsReloadTx, TaskEnds, TaskClearsTx, TaskClearsToken, Live
    <2>3. task'[n] = at /\ \A m \in Runs \ {n} : task'[m] = task[m]
      BY <1>1, <2>1 DEF TypeOK
    <2>4. TypeOK'
      BY <1>1, <2>1, <2>2, HandleAssumptions DEF TypeOK, Runs
    <2>5. \A m \in Runs : Live(m)' <=> Live(m)
      BY <2>2, <2>3 DEF Live
    <2>6. SoleRun'
      BY <1>1, <1>2, <2>2, <2>5 DEF HandleInv, SoleRun
    <2>7. ActiveHasReason'
      BY <2>2, <2>5 DEF ActiveHasReason
    <2>8. QED
      BY <1>2, <2>4, <2>6, <2>7 DEF HandleInv
  <1>4. CASE TaskReports(n)
    <2>1. /\ Live(n) /\ status' \in {"Starting", "Running", "Reconnecting"} /\ task' = task
          /\ token' = token /\ reloadTx' = reloadTx
      BY <1>4 DEF TaskReports, Live
    <2>2. TypeOK'
      BY <1>1, <2>1 DEF TypeOK, Active
    <2>3. status' \in Active
      BY <2>1 DEF Active
    <2>4. SoleRun'
      BY <1>1, <1>2, <2>1, <2>3 DEF HandleInv, SoleRun, Live
    <2>5. ActiveHasReason'
      BY <2>1 DEF ActiveHasReason, Live
    <2>6. QED
      BY <1>2, <2>2, <2>4, <2>5 DEF HandleInv
  <1>5. CASE TaskSetsStopped(n)
    <2>1. /\ Live(n) /\ status' = "Stopped" /\ task' = [task EXCEPT ![n] = "done"]
          /\ token' = token /\ reloadTx' = reloadTx
      BY <1>5 DEF TaskSetsStopped, Task, Live
    <2>2. TypeOK'
      BY <1>1, <2>1 DEF TypeOK
    <2>3. task'[n] = "done" /\ \A m \in Runs \ {n} : task'[m] = task[m]
      BY <1>1, <2>1 DEF TypeOK
    <2>4. SoleRun'
      BY <1>1, <1>2, <2>1, <2>3 DEF HandleInv, SoleRun, Live
    <2>5. ActiveHasReason'
      BY <2>1 DEF ActiveHasReason, Active
    <2>6. QED
      BY <1>2, <2>2, <2>4, <2>5 DEF HandleInv
  <1>6. CASE TaskAborted(n)
    <2>1. /\ n \in aborting /\ Live(n) /\ status' = status /\ task' = [task EXCEPT ![n] = "aborted"]
          /\ token' = token /\ reloadTx' = reloadTx
      BY <1>6 DEF TaskAborted, Task, Live
    <2>2. TypeOK'
      BY <1>1, <2>1 DEF TypeOK
    <2>3. task'[n] = "aborted" /\ \A m \in Runs \ {n} : task'[m] = task[m]
      BY <1>1, <2>1 DEF TypeOK
    <2>4. SoleRun'
      BY <1>1, <1>2, <2>1, <2>3 DEF HandleInv, SoleRun, Live
    <2>5. PICK s \in Stoppers : awaits[s] = n /\ stop[s] \in {"stopped", "clear", "returned"}
      BY <2>1 DEF HandleInv, AbortsHaveStop
    <2>6. Claimed(s)
      BY <2>5, HandleAssumptions DEF Claimed, Runs
    <2>7. ActiveHasReason'
      BY <1>2, <2>6 DEF ActiveHasReason
    <2>8. QED
      BY <1>2, <2>2, <2>4, <2>7 DEF HandleInv
  <1>7. QED
    BY <1>3, <1>4, <1>5, <1>6 DEF TaskStep

\* What stop s changes is its own place, and the other stops stay where they are.
LEMMA StopFrame ==
    ASSUME HandleInv, NEW s \in Stoppers, NEW at, Stop(s, at),
           at \in {"idle", "check", "stopping", "cancel", "join", "await", "stopped", "clear", "returned", "early"}
    PROVE  /\ stop' \in [Stoppers -> {"idle", "check", "stopping", "cancel", "join", "await", "stopped",
                                      "clear", "returned", "early"}]
           /\ stop'[s] = at /\ \A r \in Stoppers \ {s} : stop'[r] = stop[r]
  BY DEF HandleInv, TypeOK, Stop

\* A stop that goes on without ending a claim, with the status as it was.
LEMMA StopMoves ==
    ASSUME HandleInv, NEW s \in Stoppers, NEW at, Stop(s, at),
           at \in {"check", "stopping", "join", "clear", "returned", "early"},
           UNCHANGED <<status, join, task, aborting, ui, awaits>>,
           token' \in {token, 0}, reloadTx' \in {reloadTx, 0}, cancelled' \subseteq Runs,
           stop[s] \in {"clear", "returned"} => at \in {"clear", "returned"},
           at \in {"clear", "returned"} => stop[s] \in {"clear", "await"},
           stop[s] = "stopped" => FALSE, stop[s] = "cancel" => at = "join",
           stop[s] = "join" => FALSE, stop[s] = "await" => at = "clear"
    PROVE  HandleInv'
  <1>1. /\ stop' \in [Stoppers -> {"idle", "check", "stopping", "cancel", "join", "await", "stopped",
                                   "clear", "returned", "early"}]
        /\ stop'[s] = at /\ \A r \in Stoppers \ {s} : stop'[r] = stop[r]
    BY StopFrame
  <1>2. TypeOK'
    BY <1>1, HandleAssumptions DEF HandleInv, TypeOK
  <1>3. HasRun' /\ StopsWait'
    BY <1>1 DEF HandleInv, HasRun, StopsWait
  <1>4. SaidStopped => SaidStopped'
    BY <1>1 DEF SaidStopped
  <1>5. SoleRun'
    BY <1>4 DEF HandleInv, SoleRun, Live
  <1>6. AbortsHaveStop'
    <2> SUFFICES ASSUME NEW n \in aborting'
                 PROVE  \E r \in Stoppers : awaits'[r] = n /\ stop'[r] \in {"stopped", "clear", "returned"}
      BY DEF AbortsHaveStop
    <2>1. PICK r \in Stoppers : awaits[r] = n /\ stop[r] \in {"stopped", "clear", "returned"}
      BY DEF HandleInv, AbortsHaveStop
    <2>2. stop'[r] \in {"stopped", "clear", "returned"} /\ awaits'[r] = n
      BY <1>1, <2>1
    <2>3. QED
      BY <2>2
  <1>7. \A r \in Stoppers : Claimed(r) => Claimed(r)'
    BY <1>1 DEF HandleInv, StopsWait, Claimed
  <1>8. ActiveHasReason'
    BY <1>7 DEF HandleInv, ActiveHasReason, Live
  <1>9. QED
    BY <1>2, <1>3, <1>5, <1>6, <1>8 DEF HandleInv

LEMMA StopSteps == ASSUME HandleInv, NEW s \in Stoppers, StopAsync(s) \/ StopStep(s) PROVE HandleInv'
  <1>1. TypeOK /\ StopsWait /\ awaits[s] \in 0..MaxRuns
    BY DEF HandleInv, TypeOK
  <1>2. CASE StopAsync(s)
    <2>1. /\ stop[s] = "idle" /\ Stop(s, "check") /\ UNCHANGED <<status, join, task, aborting, ui, awaits>>
          /\ token' = token /\ reloadTx' = reloadTx /\ cancelled' \subseteq Runs
      BY <1>1, <1>2 DEF StopAsync, TypeOK
    <2>2. QED
      BY <2>1, StopMoves
  <1>3. CASE StopCheck(s)
    <2>1. /\ stop[s] = "check" /\ Stop(s, IF status = "Stopped" THEN "early" ELSE "stopping")
          /\ UNCHANGED <<status, join, task, aborting, ui, awaits>>
          /\ token' = token /\ reloadTx' = reloadTx /\ cancelled' \subseteq Runs
      BY <1>1, <1>3 DEF StopCheck, TypeOK
    <2>2. CASE status = "Stopped"
      <3>1. Stop(s, "early")
        BY <2>1, <2>2
      <3>2. QED
        BY <2>1, <3>1, StopMoves
    <2>3. CASE status # "Stopped"
      <3>1. Stop(s, "stopping")
        BY <2>1, <2>3
      <3>2. QED
        BY <2>1, <3>1, StopMoves
    <2>4. QED
      BY <2>2, <2>3
  <1>4. CASE StopStatus(s)
    <2>1. /\ stop[s] = "stopping" /\ Stop(s, "cancel") /\ status' = "Stopping"
          /\ UNCHANGED <<token, join, reloadTx, cancelled, task, aborting, ui, awaits>>
      BY <1>4 DEF StopStatus
    <2>2. /\ stop' \in [Stoppers -> {"idle", "check", "stopping", "cancel", "join", "await", "stopped",
                                     "clear", "returned", "early"}]
          /\ stop'[s] = "cancel" /\ \A r \in Stoppers \ {s} : stop'[r] = stop[r]
      BY <2>1, StopFrame
    <2>3. TypeOK' /\ status' \in Active
      BY <1>1, <2>1, <2>2 DEF TypeOK, Active
    <2>4. HasRun' /\ StopsWait'
      BY <2>1, <2>2 DEF HandleInv, HasRun, StopsWait
    <2>5. SaidStopped => SaidStopped'
      BY <2>1, <2>2 DEF SaidStopped
    <2>6. SoleRun'
      BY <2>1, <2>3, <2>5 DEF HandleInv, SoleRun, Live
    <2>7. AbortsHaveStop'
      BY <2>1, <2>2 DEF HandleInv, AbortsHaveStop
    <2>8. ActiveHasReason'
      BY <2>2 DEF ActiveHasReason, Claimed
    <2>9. QED
      BY <2>3, <2>4, <2>6, <2>7, <2>8 DEF HandleInv
  <1>5. CASE StopCancel(s)
    <2>1. /\ stop[s] = "cancel" /\ Stop(s, "join") /\ UNCHANGED <<status, join, task, aborting, ui, awaits>>
          /\ token' = 0 /\ reloadTx' = reloadTx /\ cancelled' = cancelled \cup ({token} \ {0})
      BY <1>5 DEF StopCancel
    <2>2. cancelled' \subseteq Runs
      <3>1. cancelled \subseteq Runs /\ token \in 0..MaxRuns
        BY <1>1 DEF TypeOK
      <3>2. token # 0 => token \in Runs
        BY <3>1, HandleAssumptions DEF Runs
      <3>3. QED
        BY <2>1, <3>1, <3>2
    <2>3. QED
      BY <2>1, <2>2, StopMoves
  <1>6. CASE StopJoin(s)
    <2> DEFINE at == IF join = 0 THEN "stopped" ELSE "await"
    <2>1. /\ stop[s] = "join" /\ Stop(s, at) /\ join' = 0 /\ awaits' = [awaits EXCEPT ![s] = join]
          /\ UNCHANGED <<status, token, reloadTx, cancelled, task, aborting, ui>>
      BY <1>6 DEF StopJoin
    <2>2. /\ stop' \in [Stoppers -> {"idle", "check", "stopping", "cancel", "join", "await", "stopped",
                                     "clear", "returned", "early"}]
          /\ stop'[s] = at /\ \A r \in Stoppers \ {s} : stop'[r] = stop[r]
      BY <2>1, StopFrame
    <2>3. awaits'[s] = join /\ join \in 0..MaxRuns /\ \A r \in Stoppers \ {s} : awaits'[r] = awaits[r]
      BY <1>1, <2>1 DEF TypeOK
    <2>4. TypeOK'
      <3>1. awaits' \in [Stoppers -> 0..MaxRuns] /\ join' \in 0..MaxRuns
        BY <1>1, <2>1, <2>3, HandleAssumptions DEF TypeOK
      <3>2. QED
        BY <1>1, <2>1, <2>2, <3>1 DEF TypeOK
    <2>5. HasRun' /\ StopsWait'
      BY <2>1, <2>2, <2>3 DEF HandleInv, HasRun, StopsWait
    <2>6. SaidStopped => SaidStopped'
      BY <2>1, <2>2, <2>3 DEF SaidStopped
    <2>7. SoleRun'
      BY <2>1, <2>6 DEF HandleInv, SoleRun, Live
    <2>8. AbortsHaveStop'
      BY <2>1, <2>2, <2>3 DEF HandleInv, AbortsHaveStop
    <2>9. ActiveHasReason'
      BY <2>2 DEF ActiveHasReason, Claimed
    <2>10. QED
      BY <2>4, <2>5, <2>7, <2>8, <2>9 DEF HandleInv
  <1>7. CASE StopJoined(s)
    <2>1. /\ stop[s] = "await" /\ Stop(s, "clear") /\ UNCHANGED <<status, join, task, aborting, ui, awaits>>
          /\ token' = token /\ reloadTx' = reloadTx /\ cancelled' \subseteq Runs
      BY <1>1, <1>7 DEF StopJoined, TypeOK
    <2>2. QED
      BY <2>1, StopMoves
  <1>8. CASE StopAborts(s)
    <2>1. /\ stop[s] = "await" /\ Stop(s, "stopped") /\ aborting' = aborting \cup {awaits[s]}
          /\ UNCHANGED <<status, token, join, reloadTx, cancelled, task, ui, awaits>>
      BY <1>8 DEF StopAborts
    <2>2. /\ stop' \in [Stoppers -> {"idle", "check", "stopping", "cancel", "join", "await", "stopped",
                                     "clear", "returned", "early"}]
          /\ stop'[s] = "stopped" /\ \A r \in Stoppers \ {s} : stop'[r] = stop[r]
      BY <2>1, StopFrame
    <2>3. awaits[s] \in Runs
      BY <1>1, <2>1, HandleAssumptions DEF StopsWait, Runs
    <2>4. TypeOK'
      BY <1>1, <2>1, <2>2, <2>3 DEF TypeOK
    <2>5. HasRun' /\ StopsWait'
      BY <2>1, <2>2 DEF HandleInv, HasRun, StopsWait
    <2>6. SaidStopped => SaidStopped'
      BY <2>1, <2>2 DEF SaidStopped
    <2>7. SoleRun'
      BY <2>1, <2>6 DEF HandleInv, SoleRun, Live
    <2>8. AbortsHaveStop'
      BY <2>1, <2>2 DEF HandleInv, AbortsHaveStop
    <2>9. ActiveHasReason'
      BY <2>2 DEF ActiveHasReason, Claimed
    <2>10. QED
      BY <2>4, <2>5, <2>7, <2>8, <2>9 DEF HandleInv
  <1>9. CASE StopSetsStopped(s)
    <2>1. /\ stop[s] = "stopped" /\ Stop(s, "clear") /\ status' = "Stopped"
          /\ UNCHANGED <<token, join, reloadTx, cancelled, task, aborting, ui, awaits>>
      BY <1>9 DEF StopSetsStopped
    <2>2. /\ stop' \in [Stoppers -> {"idle", "check", "stopping", "cancel", "join", "await", "stopped",
                                     "clear", "returned", "early"}]
          /\ stop'[s] = "clear" /\ \A r \in Stoppers \ {s} : stop'[r] = stop[r]
      BY <2>1, StopFrame
    <2>3. TypeOK'
      BY <1>1, <2>1, <2>2 DEF TypeOK
    <2>4. HasRun' /\ StopsWait'
      BY <2>1, <2>2 DEF HandleInv, HasRun, StopsWait
    <2>5. SaidStopped'
      BY <1>1, <2>1, <2>2 DEF SaidStopped, StopsWait
    <2>6. AbortsHaveStop'
      BY <2>1, <2>2 DEF HandleInv, AbortsHaveStop
    <2>7. ActiveHasReason'
      BY <2>1 DEF ActiveHasReason, Active
    <2>8. QED
      BY <2>3, <2>4, <2>5, <2>6, <2>7 DEF HandleInv, SoleRun
  <1>10. CASE StopClears(s)
    <2>1. /\ stop[s] = "clear" /\ Stop(s, "returned") /\ UNCHANGED <<status, join, task, aborting, ui, awaits>>
          /\ token' = token /\ reloadTx' = 0 /\ cancelled' \subseteq Runs
      BY <1>1, <1>10 DEF StopClears, TypeOK
    <2>2. QED
      BY <2>1, StopMoves
  <1>11. QED
    BY <1>2, <1>3, <1>4, <1>5, <1>6, <1>7, <1>8, <1>9, <1>10 DEF StopStep

\* For any number of starts and stops that interleave at any of their locked sections, the
\* client runs twice only after a stop that set Stopped on its own, and a handle that
\* refuses to start although no task is there has seen a stop that waited for one
\* (start_with, stop and the task of handle.rs).
THEOREM HandleIsSound == Spec => []RunsSound
  <1>1. HandleInv /\ [Next]_vars => HandleInv'
    <2> SUFFICES ASSUME HandleInv, [Next]_vars PROVE HandleInv'
      OBVIOUS
    <2>1. CASE UNCHANGED vars
      <3>1. UNCHANGED <<status, token, join, reloadTx, cancelled, task, aborting, ui, stop, awaits>>
        BY <2>1 DEF vars
      <3>2. TypeOK' /\ HasRun' /\ StopsWait' /\ AbortsHaveStop'
        BY <3>1 DEF HandleInv, TypeOK, HasRun, StopsWait, AbortsHaveStop
      <3>3. SoleRun' /\ ActiveHasReason'
        BY <3>1 DEF HandleInv, SoleRun, SaidStopped, ActiveHasReason, Claimed, Live
      <3>4. QED
        BY <3>2, <3>3 DEF HandleInv
    <2>2. QED
      BY <2>1, StartStep, TaskSteps, StopSteps DEF Next
  <1>2. HandleInv => RunsSound
    <2> SUFFICES ASSUME HandleInv PROVE RunsSound
      OBVIOUS
    <2>1. TwoRunsHaveCause
      BY DEF HandleInv, SoleRun, SaidStopped, TwoRunsHaveCause, OneRun, Running, Live
    <2>2. StuckHasCause
      BY DEF HandleInv, ActiveHasReason, Live, Claimed, StuckHasCause, Quiet
    <2>3. QED
      BY <2>1, <2>2 DEF HandleInv, RunsSound
  <1>3. QED
    BY <1>1, <1>2, HandleInit, PTL DEF Spec

-----------------------------------------------------------------------------
(* LogView, for any bounds of the queue and the store.                     *)

LvRow == [line : 0..LvLast, query : LvQueries]

\* The lines of s that are the client's are in order and there once.
LvOrdered(s) == \A i, j \in 1..Len(s) : i < j /\ s[i] > 0 /\ s[j] > 0 => s[i] < s[j]

\* Those of s are older than those of t.
LvBefore(s, t) == \A i \in 1..Len(s), j \in 1..Len(t) : s[i] > 0 /\ t[j] > 0 => s[i] < t[j]

LvTypes ==
    /\ lvNext \in 1..(LvLast + 1) /\ lvEpoch \in Nat
    /\ lvPending \in Seq(1..LvLast) /\ lvStore \in Seq(0..LvLast)
    /\ lvRows \in Seq(LvRow) /\ lvQuery \in LvQueries
    /\ lvCursor \in [epoch : Nat, len : Nat]

LvFlags == lvPage \in BOOLEAN /\ lvTurned \in BOOLEAN /\ lvFlush \in BOOLEAN

\* Every trim needs a line of the client that waited, beyond the epochs of the window.
LvBounds ==
    /\ Len(lvPending) <= LvMaxPending /\ Len(lvStore) <= LvMaxLogLines
    /\ Len(lvPending) <= lvNext - 1
    /\ lvEpoch <= LvMaxEpoch + (lvNext - 1) - Len(lvPending)

LvLines ==
    /\ \A i \in 1..Len(lvPending) : lvPending[i] < lvNext
    /\ LvOrdered(lvStore) /\ LvOrdered(lvPending) /\ LvBefore(lvStore, lvPending)

\* The cursor says how many rows there are, and in its own epoch that they are the first
\* lines of the store, with the query of the field.
LvCursorTrue ==
    /\ Len(lvRows) = lvCursor.len /\ lvCursor.epoch <= lvEpoch
    /\ lvCursor.epoch = lvEpoch =>
          /\ lvCursor.len <= Len(lvStore)
          /\ \A i \in 1..lvCursor.len : lvRows[i].line = lvStore[i] /\ lvRows[i].query = lvQuery

\* With nothing due on the open page the cursor is at the end of the store.
LvFresh ==
    lvPage /\ ~lvTurned /\ ~lvFlush => lvCursor.epoch = lvEpoch /\ lvCursor.len = Len(lvStore)

\* What was stored was logged before.
LvStored == \A i \in 1..Len(lvStore) : lvStore[i] < lvNext

LvInv == LvTypes /\ LvFlags /\ LvBounds /\ LvLines /\ LvStored /\ LvCursorTrue /\ LvFresh

\* LvNewest cuts lines off in front.
LEMMA LvNewestIs ==
    ASSUME NEW S, NEW s \in Seq(S), NEW n \in Nat
    PROVE  LET t == LvNewest(s, n)
               k == IF Len(s) > n THEN Len(s) - n ELSE 0
           IN  /\ t \in Seq(S) /\ Len(t) = Len(s) - k /\ k \in Nat /\ k <= Len(s) /\ Len(t) <= n
               /\ \A i \in 1..Len(t) : i + k \in 1..Len(s) /\ t[i] = s[i + k]
  <1> DEFINE k == IF Len(s) > n THEN Len(s) - n ELSE 0
             t == LvNewest(s, n)
  <1>1. Len(s) \in Nat /\ k \in Nat /\ k <= Len(s) /\ Len(s) - k <= n
    BY LenProperties
  <1>2. t = SubSeq(s, k + 1, Len(s))
    BY <1>1 DEF LvNewest
  <1> HIDE DEF k, t
  <1>3. \A i \in (k + 1)..Len(s) : s[i] \in S
    BY <1>1, ElementOfSeq
  <1>4. /\ t \in Seq(S)
        /\ Len(t) = IF k + 1 <= Len(s) THEN Len(s) - (k + 1) + 1 ELSE 0
        /\ \A i \in 1..(Len(s) - (k + 1) + 1) : t[i] = s[(k + 1) + i - 1]
    BY <1>1, <1>2, <1>3, SubSeqProperties
  <1>5. Len(t) = Len(s) - k
    BY <1>1, <1>4
  <1>6. ASSUME NEW i \in 1..Len(t) PROVE i + k \in 1..Len(s) /\ t[i] = s[i + k]
    <2>1. i \in 1..(Len(s) - (k + 1) + 1) /\ (k + 1) + i - 1 = i + k /\ i + k \in 1..Len(s)
      BY <1>1, <1>5
    <2>2. QED
      BY <1>4, <2>1
  <1>7. QED
    BY <1>1, <1>4, <1>5, <1>6 DEF k, t

LEMMA LvNewestOrdered ==
    ASSUME NEW s \in Seq(Nat), NEW n \in Nat, LvOrdered(s)
    PROVE  LvOrdered(LvNewest(s, n)) /\ LvNewest(s, n) \in Seq(Nat)
  <1> DEFINE t == LvNewest(s, n)
  <1>1. PICK k \in Nat : t \in Seq(Nat) /\ \A i \in 1..Len(t) : i + k \in 1..Len(s) /\ t[i] = s[i + k]
    BY LvNewestIs
  <1> HIDE DEF t
  <1>2. ASSUME NEW i \in 1..Len(t), NEW j \in 1..Len(t), i < j, t[i] > 0, t[j] > 0
        PROVE  t[i] < t[j]
    <2>1. i + k \in 1..Len(s) /\ t[i] = s[i + k] /\ j + k \in 1..Len(s) /\ t[j] = s[j + k]
      BY <1>1
    <2>2. i + k < j + k
      BY <1>2
    <2>3. QED
      BY <1>2, <2>1, <2>2 DEF LvOrdered
  <1>3. LvOrdered(t)
    BY <1>2 DEF LvOrdered
  <1>4. QED
    BY <1>1, <1>3 DEF t

LEMMA LvNewestBefore ==
    ASSUME NEW s \in Seq(Nat), NEW n \in Nat, NEW t \in Seq(Nat)
    PROVE  /\ LvBefore(s, t) => LvBefore(LvNewest(s, n), t)
           /\ LvBefore(t, s) => LvBefore(t, LvNewest(s, n))
  <1> DEFINE u == LvNewest(s, n)
  <1>1. PICK k \in Nat : \A i \in 1..Len(u) : i + k \in 1..Len(s) /\ u[i] = s[i + k]
    BY LvNewestIs
  <1> HIDE DEF u
  <1>2. LvBefore(s, t) => LvBefore(u, t)
    BY <1>1 DEF LvBefore
  <1>3. LvBefore(t, s) => LvBefore(t, u)
    BY <1>1 DEF LvBefore
  <1>4. QED
    BY <1>2, <1>3 DEF u

\* Two ordered parts, one before the other, are ordered together.
LEMMA LvConcatOrdered ==
    ASSUME NEW s \in Seq(Nat), NEW t \in Seq(Nat), LvOrdered(s), LvOrdered(t), LvBefore(s, t)
    PROVE  s \o t \in Seq(Nat) /\ LvOrdered(s \o t)
  <1> DEFINE c == s \o t
  <1>1. /\ c \in Seq(Nat) /\ Len(c) = Len(s) + Len(t) /\ Len(s) \in Nat /\ Len(t) \in Nat
        /\ \A i \in 1..(Len(s) + Len(t)) : c[i] = IF i <= Len(s) THEN s[i] ELSE t[i - Len(s)]
    BY ConcatProperties, LenProperties
  <1> HIDE DEF c
  <1>2. ASSUME NEW i \in 1..Len(c), NEW j \in 1..Len(c), i < j, c[i] > 0, c[j] > 0
        PROVE  c[i] < c[j]
    <2>1. CASE j <= Len(s)
      <3>1. i \in 1..Len(s) /\ j \in 1..Len(s) /\ c[i] = s[i] /\ c[j] = s[j]
        BY <1>1, <1>2, <2>1
      <3>2. QED
        BY <1>2, <3>1 DEF LvOrdered
    <2>2. CASE i <= Len(s) /\ ~(j <= Len(s))
      <3>1. i \in 1..Len(s) /\ j - Len(s) \in 1..Len(t) /\ c[i] = s[i] /\ c[j] = t[j - Len(s)]
        BY <1>1, <1>2, <2>2
      <3>2. QED
        BY <1>2, <3>1 DEF LvBefore
    <2>3. CASE ~(i <= Len(s))
      <3>1. i - Len(s) \in 1..Len(t) /\ j - Len(s) \in 1..Len(t) /\ i - Len(s) < j - Len(s) /\ ~(j <= Len(s))
        <4>1. i \in 1..(Len(s) + Len(t)) /\ j \in 1..(Len(s) + Len(t)) /\ Len(s) \in Nat /\ Len(t) \in Nat
          BY <1>1
        <4>2. QED
          BY <1>2, <2>3, <4>1
      <3>2. c[i] = t[i - Len(s)] /\ c[j] = t[j - Len(s)]
        BY <1>1, <2>3, <3>1
      <3>3. QED
        BY <1>2, <3>1, <3>2 DEF LvOrdered
    <2>4. QED
      BY <1>1, <2>1, <2>2, <2>3
  <1>3. LvOrdered(c)
    BY <1>2 DEF LvOrdered
  <1>4. QED
    BY <1>1, <1>3 DEF c

\* The rows of lines.
LEMMA LvRowsForIs ==
    ASSUME NEW lines \in Seq(0..LvLast), NEW q \in LvQueries
    PROVE  /\ LvRowsFor(lines, q) \in Seq(LvRow) /\ Len(LvRowsFor(lines, q)) = Len(lines)
           /\ \A i \in 1..Len(lines) : LvRowsFor(lines, q)[i].line = lines[i] /\ LvRowsFor(lines, q)[i].query = q
  <1> DEFINE r == LvRowsFor(lines, q)
  <1>1. Len(lines) \in Nat /\ DOMAIN lines = 1..Len(lines) /\ \A i \in 1..Len(lines) : lines[i] \in 0..LvLast
    BY LenProperties, ElementOfSeq
  <1>2. r = [i \in 1..Len(lines) |-> [line |-> lines[i], query |-> q]]
    BY <1>1 DEF LvRowsFor
  <1>3. r \in [1..Len(lines) -> LvRow]
    BY <1>1, <1>2 DEF LvRow
  <1>4. r \in Seq(LvRow)
    BY <1>1, <1>3, SeqDef
  <1>5. DOMAIN r = 1..Len(lines) /\ DOMAIN r = 1..Len(r) /\ Len(r) \in Nat
    BY <1>3, <1>4, LenProperties
  <1>6. Len(r) = Len(lines)
    <2> HIDE DEF r
    <2>1. QED
      BY <1>1, <1>5
  <1>7. QED
    BY <1>2, <1>4, <1>6

\* The constants.
LEMMA LvConstants ==
    /\ LvMaxLogLines \in Nat /\ LvMaxLogLines > 0 /\ LvMaxPending \in Nat /\ LvMaxPending > 0
    /\ LvLast \in Nat /\ LvMaxEpoch \in Nat
  <1>1. LvMaxLogLines \in Nat \ {0} /\ LvMaxPending \in Nat \ {0} /\ LvLast \in Nat /\ LvMaxEpoch \in Nat
    BY LvAssumption, Zenon
  <1>2. QED
    BY <1>1

LEMMA LvInitInv == LvInit => LvInv
  <1> SUFFICES ASSUME LvInit PROVE LvInv
    OBVIOUS
  <1>1. /\ lvNext = 1 /\ lvPending = <<>> /\ lvStore = <<>> /\ lvEpoch = 0 /\ lvCursor = LvStart /\ lvRows = <<>>
        /\ lvPage = FALSE /\ lvTurned = FALSE /\ lvFlush = FALSE /\ lvQuery \in LvQueries
    BY LvAssumption, Zenon DEF LvInit
  <1>2. LvStart \in [epoch : Nat, len : Nat] /\ LvStart.epoch = 0 /\ LvStart.len = 0
    BY DEF LvStart
  <1>3. LvTypes
    BY <1>1, <1>2, LvConstants, EmptySeq DEF LvTypes
  <1>4. LvFlags
    BY <1>1 DEF LvFlags
  <1>5. LvBounds /\ LvCursorTrue /\ LvFresh
    BY <1>1, <1>2, LvConstants, EmptySeq DEF LvBounds, LvCursorTrue, LvFresh
  <1>6. LvLines /\ LvStored
    BY <1>1, EmptySeq DEF LvLines, LvOrdered, LvBefore, LvStored
  <1>7. QED
    BY <1>3, <1>4, <1>5, <1>6 DEF LvInv

\* Sequences of lines are sequences of numbers.
LEMMA LvNumbers ==
    ASSUME LvTypes
    PROVE  lvPending \in Seq(Nat) /\ lvStore \in Seq(Nat) /\ lvPending \in Seq(0..LvLast)
           /\ Len(lvPending) \in Nat /\ Len(lvStore) \in Nat
  <1>1. 1..LvLast \subseteq Nat /\ 0..LvLast \subseteq Nat /\ 1..LvLast \subseteq 0..LvLast
    BY LvConstants
  <1>2. QED
    BY <1>1, SeqMonotonic, LenProperties DEF LvTypes

LEMMA LvClientLogsInv == ASSUME LvInv, LvClientLogs PROVE LvInv'
  <1> DEFINE old == LvNewest(lvPending, LvMaxPending - 1)
             line == <<lvNext>>
  <1>1. /\ lvNext <= LvLast /\ lvPending' = old \o line /\ lvNext' = lvNext + 1
        /\ UNCHANGED <<lvStore, lvEpoch, lvCursor, lvRows, lvQuery, lvPage, lvTurned, lvFlush>>
    BY DEF LvClientLogs
  <1>2. /\ lvNext \in 1..LvLast /\ lvNext \in Nat /\ LvMaxPending - 1 \in Nat /\ LvMaxPending \in Nat /\ LvLast \in Nat
        /\ LvMaxEpoch \in Nat
    BY <1>1, LvConstants DEF LvInv, LvTypes
  <1>3. /\ lvPending \in Seq(1..LvLast) /\ lvPending \in Seq(Nat) /\ lvStore \in Seq(Nat) /\ Len(lvPending) \in Nat
    BY LvNumbers DEF LvInv, LvTypes
  <1>4. line \in Seq(1..LvLast) /\ line \in Seq(Nat) /\ Len(line) = 1 /\ line[1] = lvNext
    BY <1>2
  <1> HIDE DEF line
  <1> DEFINE k == IF Len(lvPending) > LvMaxPending - 1 THEN Len(lvPending) - (LvMaxPending - 1) ELSE 0
  <1>5. /\ old \in Seq(1..LvLast) /\ Len(old) = Len(lvPending) - k /\ k \in Nat /\ Len(old) <= LvMaxPending - 1
        /\ \A i \in 1..Len(old) : i + k \in 1..Len(lvPending) /\ old[i] = lvPending[i + k]
    BY <1>2, <1>3, LvNewestIs, Zenon
  <1>6. LvOrdered(old) /\ old \in Seq(Nat) /\ LvBefore(lvStore, old) /\ Len(old) \in Nat
    BY <1>2, <1>3, LvNewestOrdered, LvNewestBefore, LenProperties DEF LvInv, LvLines
  <1> HIDE DEF old, k
  <1>7. /\ lvPending' \in Seq(1..LvLast) /\ Len(lvPending') = Len(old) + 1
        /\ \A i \in 1..(Len(old) + 1) : lvPending'[i] = IF i <= Len(old) THEN old[i] ELSE line[i - Len(old)]
    <2>1. /\ old \o line \in Seq(1..LvLast) /\ Len(old \o line) = Len(old) + Len(line)
          /\ \A i \in 1..(Len(old) + Len(line)) :
                (old \o line)[i] = IF i <= Len(old) THEN old[i] ELSE line[i - Len(old)]
      BY <1>4, <1>5, ConcatProperties, Zenon
    <2>2. QED
      BY <1>1, <1>4, <2>1, Zenon
  <1>8. LvTypes'
    BY <1>1, <1>2, <1>7 DEF LvInv, LvTypes
  <1>9. LvFlags'
    BY <1>1 DEF LvInv, LvFlags
  <1>10. LvBounds'
    <2>1. /\ Len(lvStore) <= LvMaxLogLines /\ Len(lvPending) <= lvNext - 1 /\ lvEpoch \in Nat
          /\ lvEpoch <= LvMaxEpoch + (lvNext - 1) - Len(lvPending)
      BY DEF LvInv, LvBounds, LvTypes
    <2>2. /\ Len(lvPending') \in Nat /\ Len(lvPending') <= LvMaxPending /\ Len(lvPending') <= Len(lvPending) + 1
      BY <1>2, <1>3, <1>5, <1>6, <1>7
    <2>3. /\ Len(lvPending') <= lvNext' - 1 /\ lvEpoch' <= LvMaxEpoch + (lvNext' - 1) - Len(lvPending')
      BY <1>1, <1>2, <1>3, <2>1, <2>2
    <2>4. Len(lvStore') <= LvMaxLogLines
      BY <1>1, <2>1
    <2>5. QED
      BY <2>2, <2>3, <2>4, Zenon DEF LvBounds
  <1>11. \A i \in 1..Len(old) : old[i] < lvNext /\ old[i] \in Nat
    <2>1. \A i \in 1..Len(lvPending) : lvPending[i] < lvNext /\ lvPending[i] \in Nat
      BY <1>3, ElementOfSeq DEF LvInv, LvLines
    <2>2. QED
      BY <1>5, <2>1, Zenon
  <1>12. ASSUME NEW i \in 1..Len(lvPending') PROVE lvPending'[i] = lvNext \/ (i \in 1..Len(old) /\ lvPending'[i] = old[i])
    <2>1. CASE i <= Len(old)
      BY <1>6, <1>7, <2>1
    <2>2. CASE ~(i <= Len(old))
      <3>1. i - Len(old) = 1
        BY <1>6, <1>7, <2>2
      <3>2. QED
        BY <1>4, <1>7, <2>2, <3>1
    <2>3. QED
      BY <2>1, <2>2
  <1>13. \A i \in 1..Len(lvPending') : lvPending'[i] < lvNext'
    BY <1>1, <1>2, <1>11, <1>12
  <1>14. LvOrdered(line) /\ LvBefore(old, line)
    BY <1>4, <1>11 DEF LvOrdered, LvBefore
  <1>15. LvOrdered(lvPending')
    BY <1>1, <1>4, <1>6, <1>14, LvConcatOrdered
  <1>16. LvBefore(lvStore, lvPending')
    <2>1. ASSUME NEW i \in 1..Len(lvStore), NEW j \in 1..Len(lvPending'), lvStore[i] > 0
          PROVE  lvStore[i] < lvPending'[j]
      <3>1. CASE lvPending'[j] = lvNext
        <4>1. lvStore[i] < lvNext
          BY DEF LvInv, LvStored
        <4>2. QED
          BY <3>1, <4>1
      <3>2. CASE j \in 1..Len(old) /\ lvPending'[j] = old[j]
        <4>1. old[j] > 0
          BY <1>2, <1>5, <3>2, ElementOfSeq
        <4>2. QED
          BY <1>6, <2>1, <3>2, <4>1 DEF LvBefore
      <3>3. QED
        BY <1>12, <3>1, <3>2
    <2>2. QED
      BY <2>1 DEF LvBefore
  <1>17. LvLines' /\ LvStored'
    <2>1. lvStore' = lvStore
      BY <1>1
    <2>2. \A i \in 1..Len(lvStore) : lvStore[i] < lvNext'
      <3>1. \A i \in 1..Len(lvStore) : lvStore[i] \in Nat
        BY <1>3, ElementOfSeq
      <3>2. QED
        BY <1>1, <1>2, <3>1 DEF LvInv, LvStored
    <2>3. QED
      BY <1>13, <1>15, <1>16, <2>1, <2>2 DEF LvInv, LvLines, LvStored, LvOrdered, LvBefore
  <1>18. LvCursorTrue' /\ LvFresh'
    BY <1>1 DEF LvInv, LvCursorTrue, LvFresh
  <1>19. QED
    BY <1>8, <1>9, <1>10, <1>17, <1>18 DEF LvInv

\* Lines are pushed: what the rows show stays the beginning of the store unless it is
\* trimmed, and then the cursor is of an older epoch.
LEMMA LvPushKeeps ==
    ASSUME LvInv, NEW lines \in Seq(0..LvLast), LvPushLogs(lines),
           LvOrdered(lines), LvBefore(lvStore, lines), \A i \in 1..Len(lines) : lines[i] < lvNext,
           UNCHANGED <<lvNext, lvCursor, lvRows, lvQuery, lvPage, lvTurned>>
    PROVE  /\ lvStore' \in Seq(0..LvLast) /\ Len(lvStore') <= LvMaxLogLines /\ LvOrdered(lvStore')
           /\ lvEpoch' \in {lvEpoch, lvEpoch + 1}
           /\ LvStored' /\ LvFlags' /\ LvCursorTrue' /\ LvFresh'
           /\ LvBefore(lvStore, lvPending) /\ LvBefore(lines, lvPending) => LvBefore(lvStore', lvPending)
  <1> DEFINE all == lvStore \o lines
             k == IF Len(all) > LvMaxLogLines THEN Len(all) - LvMaxLogLines ELSE 0
  <1>1. /\ lvStore \in Seq(0..LvLast) /\ lvStore \in Seq(Nat) /\ Len(lvStore) \in Nat /\ lines \in Seq(Nat)
        /\ Len(lines) \in Nat /\ LvMaxLogLines \in Nat /\ lvEpoch \in Nat /\ lvCursor.epoch \in Nat
        /\ lvCursor.len \in Nat /\ lvNext \in Nat /\ lvPending \in Seq(Nat)
    <2>1. 0..LvLast \subseteq Nat
      BY LvConstants
    <2>2. lines \in Seq(Nat) /\ Len(lines) \in Nat
      BY <2>1, SeqMonotonic, LenProperties
    <2>3. QED
      BY <2>2, LvNumbers, LvConstants DEF LvInv, LvTypes
  <1>2. /\ all \in Seq(0..LvLast) /\ Len(all) = Len(lvStore) + Len(lines)
        /\ \A i \in 1..(Len(lvStore) + Len(lines)) : all[i] = IF i <= Len(lvStore) THEN lvStore[i] ELSE lines[i - Len(lvStore)]
    BY <1>1, ConcatProperties, Zenon
  <1>3. LvOrdered(all) /\ all \in Seq(Nat)
    BY <1>1, LvConcatOrdered DEF LvInv, LvLines
  <1>4. /\ lvStore' = LvNewest(all, LvMaxLogLines) /\ lvFlush' = (lvFlush \/ lvPage)
        /\ lvEpoch' = IF Len(all) > LvMaxLogLines THEN lvEpoch + 1 ELSE lvEpoch
    BY DEF LvPushLogs
  <1> HIDE DEF all
  <1>5. /\ lvStore' \in Seq(0..LvLast) /\ Len(lvStore') = Len(all) - k /\ k \in Nat /\ k <= Len(all)
        /\ Len(lvStore') <= LvMaxLogLines
        /\ \A i \in 1..Len(lvStore') : i + k \in 1..Len(all) /\ lvStore'[i] = all[i + k]
    <2> DEFINE new == LvNewest(all, LvMaxLogLines)
    <2>1. /\ new \in Seq(0..LvLast) /\ Len(new) = Len(all) - k /\ k \in Nat /\ k <= Len(all)
          /\ Len(new) <= LvMaxLogLines
          /\ \A i \in 1..Len(new) : i + k \in 1..Len(all) /\ new[i] = all[i + k]
      <3>1. all \in Seq(0..LvLast) /\ LvMaxLogLines \in Nat
        BY <1>1, <1>2
      <3>2. QED
        BY <3>1, LvNewestIs, Zenon
    <2>2. lvStore' = new
      BY <1>4
    <2> HIDE DEF new, k
    <2>3. QED
      BY <2>1, <2>2
  <1>6. LvOrdered(lvStore')
    BY <1>1, <1>3, <1>4, LvNewestOrdered
  <1>7. \A i \in 1..Len(all) : all[i] < lvNext
    <2> SUFFICES ASSUME NEW i \in 1..Len(all) PROVE all[i] < lvNext
      OBVIOUS
    <2>1. CASE i <= Len(lvStore)
      <3>1. i \in 1..Len(lvStore) /\ all[i] = lvStore[i]
        BY <1>1, <1>2, <2>1
      <3>2. QED
        BY <3>1 DEF LvInv, LvStored
    <2>2. CASE ~(i <= Len(lvStore))
      <3>1. i - Len(lvStore) \in 1..Len(lines) /\ all[i] = lines[i - Len(lvStore)]
        BY <1>1, <1>2, <2>2
      <3>2. QED
        BY <3>1
    <2>3. QED
      BY <2>1, <2>2
  <1>8. LvStored'
    <2>1. \A i \in 1..Len(lvStore') : lvStore'[i] < lvNext
      BY <1>5, <1>7
    <2>2. QED
      BY <2>1 DEF LvStored
  <1>9. LvFlags'
    BY <1>4, Zenon DEF LvInv, LvFlags
  <1>10. LvFresh'
    BY <1>4, Zenon DEF LvInv, LvFresh
  <1>11. LvCursorTrue'
    <2>1. Len(lvRows) = lvCursor.len /\ lvCursor.epoch <= lvEpoch
      BY DEF LvInv, LvCursorTrue
    <2>2. CASE Len(all) > LvMaxLogLines
      <3>1. lvEpoch' = lvEpoch + 1 /\ lvCursor.epoch <= lvEpoch' /\ lvCursor.epoch # lvEpoch'
        BY <1>1, <1>4, <2>1, <2>2
      <3>2. QED
        BY <2>1, <3>1 DEF LvCursorTrue
    <2>3. CASE ~(Len(all) > LvMaxLogLines)
      <3>1. lvEpoch' = lvEpoch /\ k = 0 /\ Len(lvStore') = Len(all)
        BY <1>1, <1>2, <1>4, <1>5, <2>3
      <3>2. ASSUME NEW i \in 1..Len(lvStore) PROVE lvStore'[i] = lvStore[i]
        <4>1. i \in 1..Len(lvStore') /\ i + k = i /\ i <= Len(lvStore) /\ i \in 1..(Len(lvStore) + Len(lines))
          BY <1>1, <1>2, <3>1
        <4>2. QED
          BY <1>2, <1>5, <4>1
      <3>3. lvCursor.len <= Len(lvStore) => lvCursor.len <= Len(lvStore') /\ \A i \in 1..lvCursor.len : i \in 1..Len(lvStore)
        BY <1>1, <1>2, <3>1
      <3>4. QED
        BY <2>1, <3>1, <3>2, <3>3 DEF LvInv, LvCursorTrue
    <2>4. QED
      BY <2>2, <2>3
  <1>12. ASSUME LvBefore(lvStore, lvPending), LvBefore(lines, lvPending) PROVE LvBefore(lvStore', lvPending)
    <2>1. ASSUME NEW i \in 1..Len(all), NEW j \in 1..Len(lvPending), all[i] > 0, lvPending[j] > 0
          PROVE  all[i] < lvPending[j]
      <3>1. CASE i <= Len(lvStore)
        <4>1. i \in 1..Len(lvStore) /\ all[i] = lvStore[i]
          BY <1>1, <1>2, <3>1
        <4>2. QED
          BY <1>12, <2>1, <4>1 DEF LvBefore
      <3>2. CASE ~(i <= Len(lvStore))
        <4>1. i - Len(lvStore) \in 1..Len(lines) /\ all[i] = lines[i - Len(lvStore)]
          BY <1>1, <1>2, <3>2
        <4>2. QED
          BY <1>12, <2>1, <4>1 DEF LvBefore
      <3>3. QED
        BY <3>1, <3>2
    <2>2. LvBefore(all, lvPending)
      BY <2>1 DEF LvBefore
    <2>3. QED
      BY <1>1, <1>3, <1>4, <2>2, LvNewestBefore
  <1>13. lvEpoch' \in {lvEpoch, lvEpoch + 1}
    BY <1>4
  <1>14. QED
    BY <1>5, <1>6, <1>8, <1>9, <1>10, <1>11, <1>12, <1>13

LEMMA LvTickInv == ASSUME LvInv, LvTick PROVE LvInv'
  <1>1. /\ lvPending # <<>> /\ LvPushLogs(lvPending) /\ lvPending' = <<>>
        /\ UNCHANGED <<lvNext, lvCursor, lvRows, lvQuery, lvPage, lvTurned>>
    BY DEF LvTick
  <1>2. /\ lvPending \in Seq(0..LvLast) /\ Len(lvPending) \in Nat /\ Len(lvPending) > 0 /\ Len(<<>>) = 0
        /\ <<>> \in Seq(1..LvLast) /\ lvEpoch \in Nat /\ lvNext \in Nat
    BY <1>1, LvNumbers, LvConstants, EmptySeq DEF LvInv, LvTypes
  <1>3. LvOrdered(lvPending) /\ LvBefore(lvStore, lvPending) /\ \A i \in 1..Len(lvPending) : lvPending[i] < lvNext
    BY DEF LvInv, LvLines
  <1>4. /\ lvStore' \in Seq(0..LvLast) /\ Len(lvStore') <= LvMaxLogLines /\ LvOrdered(lvStore')
        /\ lvEpoch' \in {lvEpoch, lvEpoch + 1} /\ LvStored' /\ LvFlags' /\ LvCursorTrue' /\ LvFresh'
    BY <1>1, <1>2, <1>3, LvPushKeeps, Zenon
  <1>5. LvTypes'
    BY <1>1, <1>2, <1>4 DEF LvInv, LvTypes
  <1>6. LvBounds'
    <2>1. /\ lvEpoch <= LvMaxEpoch + (lvNext - 1) - Len(lvPending) /\ Len(lvPending) <= lvNext - 1
          /\ LvMaxEpoch \in Nat /\ LvMaxPending \in Nat
      BY LvConstants DEF LvInv, LvBounds
    <2>2. Len(lvPending') = 0
      BY <1>1, <1>2
    <2>3. QED
      BY <1>1, <1>2, <1>4, <2>1, <2>2 DEF LvBounds
  <1>7. LvLines'
    <2>1. Len(lvPending') = 0
      BY <1>1, <1>2
    <2>2. QED
      BY <1>4, <2>1 DEF LvLines, LvOrdered, LvBefore
  <1>8. QED
    BY <1>4, <1>5, <1>6, <1>7 DEF LvInv

LEMMA LvWindowLogsInv == ASSUME LvInv, LvWindowLogs PROVE LvInv'
  <1> DEFINE line == <<0>>
  <1>1. /\ lvEpoch < LvMaxEpoch /\ LvPushLogs(line)
        /\ UNCHANGED <<lvNext, lvPending, lvCursor, lvRows, lvQuery, lvPage, lvTurned>>
    BY DEF LvWindowLogs
  <1>2. /\ lvEpoch \in Nat /\ lvNext \in Nat /\ lvNext >= 1 /\ LvMaxEpoch \in Nat /\ Len(lvPending) \in Nat
    BY LvNumbers, LvConstants DEF LvInv, LvTypes
  <1>3. line \in Seq(0..LvLast) /\ Len(line) = 1 /\ line[1] = 0
    BY LvConstants
  <1> HIDE DEF line
  <1>4. /\ LvOrdered(line) /\ LvBefore(lvStore, line) /\ LvBefore(line, lvPending)
        /\ \A i \in 1..Len(line) : line[i] < lvNext
    BY <1>2, <1>3 DEF LvOrdered, LvBefore
  <1>5. LvBefore(lvStore, lvPending) /\ LvOrdered(lvPending) /\ \A i \in 1..Len(lvPending) : lvPending[i] < lvNext
    BY DEF LvInv, LvLines
  <1>6. /\ lvStore' \in Seq(0..LvLast) /\ Len(lvStore') <= LvMaxLogLines /\ LvOrdered(lvStore')
        /\ lvEpoch' \in {lvEpoch, lvEpoch + 1} /\ LvStored' /\ LvFlags' /\ LvCursorTrue' /\ LvFresh'
        /\ LvBefore(lvStore', lvPending)
    BY <1>1, <1>3, <1>4, <1>5, LvPushKeeps, Zenon
  <1>7. LvTypes'
    BY <1>1, <1>2, <1>6 DEF LvInv, LvTypes
  <1>8. LvBounds'
    <2>1. /\ Len(lvPending) <= lvNext - 1 /\ Len(lvPending) <= LvMaxPending
      BY DEF LvInv, LvBounds
    <2>2. QED
      BY <1>1, <1>2, <1>6, <2>1 DEF LvBounds
  <1>9. LvLines'
    BY <1>1, <1>5, <1>6 DEF LvLines, LvOrdered, LvBefore
  <1>10. QED
    BY <1>6, <1>7, <1>8, <1>9 DEF LvInv

\* All rows are made again, or those behind the cursor: the rows are the store's.
LEMMA LvFlushShows ==
    ASSUME LvInv, LvFlushLogs, UNCHANGED <<lvStore, lvEpoch, lvQuery>>
    PROVE  /\ lvRows' \in Seq(LvRow) /\ lvCursor' \in [epoch : Nat, len : Nat]
           /\ LvCursorTrue' /\ lvCursor'.epoch = lvEpoch' /\ lvCursor'.len = Len(lvStore')
  <1> DEFINE n == lvCursor.len
             rest == SubSeq(lvStore, n + 1, Len(lvStore))
             new == LvRowsFor(rest, lvQuery)
  <1>1. /\ lvStore \in Seq(0..LvLast) /\ Len(lvStore) \in Nat /\ lvQuery \in LvQueries /\ lvRows \in Seq(LvRow)
        /\ n \in Nat /\ lvEpoch \in Nat /\ Len(lvRows) = n
    BY LvNumbers DEF LvInv, LvTypes, LvCursorTrue
  <1>2. lvCursor' = [epoch |-> lvEpoch, len |-> Len(lvStore)]
    BY DEF LvFlushLogs, LvSynced
  <1>3. lvCursor' \in [epoch : Nat, len : Nat] /\ lvCursor'.epoch = lvEpoch /\ lvCursor'.len = Len(lvStore)
    BY <1>1, <1>2
  <1>4. /\ lvRows' \in Seq(LvRow) /\ Len(lvRows') = Len(lvStore)
        /\ \A i \in 1..Len(lvStore) : lvRows'[i].line = lvStore[i] /\ lvRows'[i].query = lvQuery
    <2>1. CASE lvCursor.epoch = lvEpoch /\ Len(lvRows) = n /\ n <= Len(lvStore)
      <3>1. lvRows' = lvRows \o new
        BY <2>1 DEF LvFlushLogs
      <3>2. \A i \in (n + 1)..Len(lvStore) : lvStore[i] \in 0..LvLast
        <4>1. \A i \in (n + 1)..Len(lvStore) : i \in 1..Len(lvStore)
          BY <1>1
        <4>2. QED
          BY <1>1, <4>1, ElementOfSeq, Zenon
      <3>3. /\ rest \in Seq(0..LvLast) /\ Len(rest) = IF n + 1 <= Len(lvStore) THEN Len(lvStore) - (n + 1) + 1 ELSE 0
            /\ \A i \in 1..(Len(lvStore) - (n + 1) + 1) : rest[i] = lvStore[(n + 1) + i - 1]
        <4>1. n + 1 \in Int /\ Len(lvStore) \in Int
          BY <1>1
        <4>2. QED
          BY <3>2, <4>1, SubSeqProperties
      <3> HIDE DEF rest
      <3>4. Len(rest) = Len(lvStore) - n
        BY <1>1, <2>1, <3>3
      <3>5. /\ new \in Seq(LvRow) /\ Len(new) = Len(rest)
            /\ \A i \in 1..Len(rest) : new[i].line = rest[i] /\ new[i].query = lvQuery
        BY <1>1, <3>3, LvRowsForIs
      <3> HIDE DEF new
      <3>6. /\ lvRows' \in Seq(LvRow) /\ Len(lvRows') = Len(lvRows) + Len(new)
            /\ \A i \in 1..(Len(lvRows) + Len(new)) : lvRows'[i] = IF i <= Len(lvRows) THEN lvRows[i] ELSE new[i - Len(lvRows)]
        <4>1. /\ lvRows \o new \in Seq(LvRow) /\ Len(lvRows \o new) = Len(lvRows) + Len(new)
              /\ \A i \in 1..(Len(lvRows) + Len(new)) :
                    (lvRows \o new)[i] = IF i <= Len(lvRows) THEN lvRows[i] ELSE new[i - Len(lvRows)]
          <5>1. lvRows \in Seq(LvRow) /\ new \in Seq(LvRow)
            BY <1>1, <3>5
          <5>2. QED
            BY <5>1, ConcatProperties, Zenon
        <4>2. QED
          BY <3>1, <4>1, Zenon
      <3>7. Len(lvRows') = Len(lvStore)
        BY <1>1, <3>4, <3>5, <3>6
      <3>8. ASSUME NEW i \in 1..Len(lvStore) PROVE lvRows'[i].line = lvStore[i] /\ lvRows'[i].query = lvQuery
        <4>1. i \in 1..(Len(lvRows) + Len(new))
          BY <3>6, <3>7
        <4>2. CASE i <= n
          <5>1. lvRows'[i] = lvRows[i] /\ i \in 1..n
            BY <1>1, <3>6, <4>1, <4>2
          <5>2. lvRows[i].line = lvStore[i] /\ lvRows[i].query = lvQuery
            BY <2>1, <5>1 DEF LvInv, LvCursorTrue
          <5>3. QED
            BY <5>1, <5>2
        <4>3. CASE ~(i <= n)
          <5>1. i - n \in 1..Len(rest) /\ i - n \in 1..(Len(lvStore) - (n + 1) + 1) /\ (n + 1) + (i - n) - 1 = i
            BY <1>1, <3>4, <4>3
          <5>2. lvRows'[i] = new[i - n]
            BY <1>1, <3>6, <4>1, <4>3
          <5>3. rest[i - n] = lvStore[i]
            BY <3>3, <5>1
          <5>4. QED
            BY <3>5, <5>1, <5>2, <5>3
        <4>4. QED
          BY <4>2, <4>3
      <3>9. QED
        BY <3>6, <3>7, <3>8
    <2>2. CASE ~(lvCursor.epoch = lvEpoch /\ Len(lvRows) = n /\ n <= Len(lvStore))
      <3>1. lvRows' = LvRowsFor(lvStore, lvQuery)
        BY <2>2 DEF LvFlushLogs
      <3>2. QED
        BY <1>1, <3>1, LvRowsForIs
    <2>3. QED
      BY <2>1, <2>2
  <1>5. LvCursorTrue'
    BY <1>1, <1>3, <1>4 DEF LvCursorTrue
  <1>6. QED
    BY <1>3, <1>4, <1>5

LEMMA LvFlushDueInv == ASSUME LvInv, LvFlushDue PROVE LvInv'
  <1>1. /\ lvFlush' = FALSE /\ UNCHANGED <<lvNext, lvPending, lvStore, lvEpoch, lvQuery, lvPage, lvTurned>>
    BY DEF LvFlushDue
  <1>2. LvTypes /\ LvFlags /\ LvBounds /\ LvLines /\ LvStored /\ LvCursorTrue
    BY DEF LvInv
  <1>3. LvBounds' /\ LvLines' /\ LvStored'
    BY <1>1, <1>2 DEF LvBounds, LvLines, LvStored, LvOrdered, LvBefore
  <1>4. LvFlags'
    BY <1>1, <1>2, Zenon DEF LvFlags
  <1>5. CASE lvPage
    <2>1. LvFlushLogs
      BY <1>5 DEF LvFlushDue
    <2>2. /\ lvRows' \in Seq(LvRow) /\ lvCursor' \in [epoch : Nat, len : Nat]
          /\ LvCursorTrue' /\ lvCursor'.epoch = lvEpoch' /\ lvCursor'.len = Len(lvStore')
      BY <1>1, <2>1, LvFlushShows
    <2>3. LvTypes' /\ LvFresh'
      BY <1>1, <1>2, <2>2 DEF LvTypes, LvFresh
    <2>4. QED
      BY <1>3, <1>4, <2>2, <2>3 DEF LvInv
  <1>6. CASE ~lvPage
    <2>1. UNCHANGED <<lvRows, lvCursor>>
      BY <1>6 DEF LvFlushDue
    <2>2. LvTypes' /\ LvCursorTrue' /\ LvFresh'
      BY <1>1, <1>2, <1>6, <2>1 DEF LvTypes, LvCursorTrue, LvFresh
    <2>3. QED
      BY <1>3, <1>4, <2>2 DEF LvInv
  <1>7. QED
    BY <1>5, <1>6

LEMMA LvPageChangedInv == ASSUME LvInv, LvPageChanged PROVE LvInv'
  <1>1. /\ lvTurned' = FALSE /\ UNCHANGED <<lvNext, lvPending, lvStore, lvEpoch, lvQuery, lvPage, lvFlush>>
    BY DEF LvPageChanged
  <1>2. LvTypes /\ LvFlags /\ LvBounds /\ LvLines /\ LvStored /\ LvCursorTrue
    BY DEF LvInv
  <1>3. LvBounds' /\ LvLines' /\ LvStored'
    BY <1>1, <1>2 DEF LvBounds, LvLines, LvStored, LvOrdered, LvBefore
  <1>4. LvFlags'
    BY <1>1, <1>2, Zenon DEF LvFlags
  <1>5. CASE lvPage
    <2>1. LvFlushLogs
      BY <1>5 DEF LvPageChanged
    <2>2. /\ lvRows' \in Seq(LvRow) /\ lvCursor' \in [epoch : Nat, len : Nat]
          /\ LvCursorTrue' /\ lvCursor'.epoch = lvEpoch' /\ lvCursor'.len = Len(lvStore')
      BY <1>1, <2>1, LvFlushShows
    <2>3. LvTypes' /\ LvFresh'
      BY <1>1, <1>2, <2>2 DEF LvTypes, LvFresh
    <2>4. QED
      BY <1>3, <1>4, <2>2, <2>3 DEF LvInv
  <1>6. CASE ~lvPage
    <2>1. lvRows' = <<>> /\ lvCursor' = LvStart
      BY <1>6 DEF LvPageChanged
    <2>2. /\ lvCursor' \in [epoch : Nat, len : Nat] /\ lvCursor'.epoch = 0 /\ lvCursor'.len = 0
          /\ lvRows' \in Seq(LvRow) /\ Len(lvRows') = 0
      BY <2>1, EmptySeq DEF LvStart
    <2>3. lvEpoch \in Nat /\ Len(lvStore) \in Nat
      BY <1>2, LvNumbers DEF LvTypes
    <2>4. LvTypes' /\ LvFresh'
      BY <1>1, <1>2, <1>6, <2>2 DEF LvTypes, LvFresh
    <2>5. LvCursorTrue'
      BY <1>1, <2>2, <2>3 DEF LvCursorTrue
    <2>6. QED
      BY <1>3, <1>4, <2>4, <2>5 DEF LvInv
  <1>7. QED
    BY <1>5, <1>6

LEMMA LvLogsClearInv == ASSUME LvInv, LvLogsClear PROVE LvInv'
  <1>1. /\ lvEpoch < LvMaxEpoch /\ lvStore' = <<>> /\ lvEpoch' = lvEpoch + 1 /\ lvRows' = <<>>
        /\ lvCursor' = [epoch |-> lvEpoch + 1, len |-> 0]
        /\ UNCHANGED <<lvNext, lvPending, lvQuery, lvPage, lvTurned, lvFlush>>
    BY DEF LvLogsClear
  <1>2. LvTypes /\ LvFlags /\ LvBounds /\ LvLines
    BY DEF LvInv
  <1>3. /\ lvEpoch \in Nat /\ LvMaxEpoch \in Nat /\ LvMaxLogLines \in Nat /\ Len(lvPending) \in Nat /\ lvNext \in Nat
    BY <1>2, LvNumbers, LvConstants DEF LvTypes
  <1>4. /\ lvCursor' \in [epoch : Nat, len : Nat] /\ lvCursor'.epoch = lvEpoch' /\ lvCursor'.len = 0
        /\ lvRows' \in Seq(LvRow) /\ Len(lvRows') = 0 /\ lvStore' \in Seq(0..LvLast) /\ Len(lvStore') = 0
    BY <1>1, <1>3, EmptySeq
  <1>5. LvTypes'
    BY <1>1, <1>2, <1>3, <1>4 DEF LvTypes
  <1>6. LvFlags'
    BY <1>1, <1>2, Zenon DEF LvFlags
  <1>7. LvBounds'
    BY <1>1, <1>2, <1>3, <1>4 DEF LvBounds
  <1>8. LvLines' /\ LvStored'
    BY <1>1, <1>2, <1>4 DEF LvLines, LvStored, LvOrdered, LvBefore
  <1>9. LvCursorTrue' /\ LvFresh'
    BY <1>1, <1>3, <1>4 DEF LvCursorTrue, LvFresh
  <1>10. QED
    BY <1>5, <1>6, <1>7, <1>8, <1>9 DEF LvInv

LEMMA LvQueryEditedInv == ASSUME LvInv, NEW q \in LvQueries, LvQueryEdited(q) PROVE LvInv'
  <1>1. /\ lvQuery' = q /\ lvRows' = LvRowsFor(lvStore, q) /\ lvCursor' = [epoch |-> lvEpoch, len |-> Len(lvStore)]
        /\ UNCHANGED <<lvNext, lvPending, lvStore, lvEpoch, lvPage, lvTurned, lvFlush>>
    BY DEF LvQueryEdited, LvSynced
  <1>2. LvTypes /\ LvFlags /\ LvBounds /\ LvLines /\ LvStored
    BY DEF LvInv
  <1>3. lvEpoch \in Nat /\ Len(lvStore) \in Nat /\ lvStore \in Seq(0..LvLast)
    BY <1>2, LvNumbers DEF LvTypes
  <1>4. /\ lvRows' \in Seq(LvRow) /\ Len(lvRows') = Len(lvStore)
        /\ \A i \in 1..Len(lvStore) : lvRows'[i].line = lvStore[i] /\ lvRows'[i].query = q
    BY <1>1, <1>3, LvRowsForIs
  <1>5. lvCursor' \in [epoch : Nat, len : Nat] /\ lvCursor'.epoch = lvEpoch /\ lvCursor'.len = Len(lvStore)
    BY <1>1, <1>3
  <1>6. LvTypes'
    BY <1>1, <1>2, <1>4, <1>5 DEF LvTypes
  <1>7. LvFlags'
    BY <1>1, <1>2, Zenon DEF LvFlags
  <1>8. LvBounds' /\ LvLines' /\ LvStored'
    BY <1>1, <1>2 DEF LvBounds, LvLines, LvStored, LvOrdered, LvBefore
  <1>9. LvCursorTrue' /\ LvFresh'
    BY <1>1, <1>3, <1>4, <1>5 DEF LvCursorTrue, LvFresh
  <1>10. QED
    BY <1>6, <1>7, <1>8, <1>9 DEF LvInv

LEMMA LvTurnPageInv == ASSUME LvInv, LvTurnPage PROVE LvInv'
  <1>1. /\ lvPage' = ~lvPage /\ lvTurned' = TRUE
        /\ UNCHANGED <<lvNext, lvPending, lvStore, lvEpoch, lvCursor, lvRows, lvQuery, lvFlush>>
    BY DEF LvTurnPage
  <1>2. LvTypes /\ LvFlags /\ LvBounds /\ LvLines /\ LvStored /\ LvCursorTrue
    BY DEF LvInv
  <1>3. LvFlags' /\ LvFresh'
    BY <1>1, <1>2, Zenon DEF LvFlags, LvFresh
  <1>4. LvTypes' /\ LvCursorTrue'
    BY <1>1, <1>2 DEF LvTypes, LvCursorTrue
  <1>5. LvBounds' /\ LvLines' /\ LvStored'
    BY <1>1, <1>2 DEF LvBounds, LvLines, LvStored, LvOrdered, LvBefore
  <1>6. QED
    BY <1>3, <1>4, <1>5 DEF LvInv

\* For any bounds of the queue and of the store and any queries: with nothing due on the
\* open logger page its rows are the stored lines highlighted with the query in the field,
\* and no line of the client is stored twice or out of order (push_logs, flush_logs and
\* on_page_changed of the desktop application).
THEOREM LvSpecSound == LvSpec => []LvSound
  <1>1. LvInv /\ [LvNextStep]_lvVars => LvInv'
    <2> SUFFICES ASSUME LvInv, [LvNextStep]_lvVars PROVE LvInv'
      OBVIOUS
    <2>1. CASE UNCHANGED lvVars
      <3>1. UNCHANGED <<lvNext, lvPending, lvStore, lvEpoch, lvCursor, lvRows, lvQuery, lvPage, lvTurned, lvFlush>>
        BY <2>1 DEF lvVars
      <3>2. LvTypes' /\ LvCursorTrue' /\ LvFresh' /\ LvFlags'
        BY <3>1 DEF LvInv, LvTypes, LvCursorTrue, LvFresh, LvFlags
      <3>3. LvBounds' /\ LvLines' /\ LvStored'
        BY <3>1 DEF LvInv, LvBounds, LvLines, LvStored, LvOrdered, LvBefore
      <3>4. QED
        BY <3>2, <3>3 DEF LvInv
    <2>2. QED
      BY <2>1, LvClientLogsInv, LvTickInv, LvWindowLogsInv, LvFlushDueInv, LvTurnPageInv, LvPageChangedInv,
         LvLogsClearInv, LvQueryEditedInv DEF LvNextStep
  <1>2. LvInv => LvSound
    <2> SUFFICES ASSUME LvInv PROVE LvSound
      OBVIOUS
    <2>1. /\ lvStore \in Seq(0..LvLast) /\ lvStore \in Seq(Nat) /\ lvPending \in Seq(Nat) /\ lvRows \in Seq(LvRow)
          /\ lvQuery \in LvQueries /\ Len(lvStore) \in Nat /\ Len(lvPending) \in Nat
          /\ DOMAIN lvRows = 1..Len(lvRows) /\ DOMAIN lvStore = 1..Len(lvStore)
      BY LvNumbers, LenProperties DEF LvInv, LvTypes
    <2>2. LvTypeOK
      <3>1. lvNext \in 1..(LvLast + 1) /\ lvEpoch \in 0..(LvMaxEpoch + LvLast)
        BY <2>1, LvConstants DEF LvInv, LvTypes, LvBounds
      <3>2. \A i \in DOMAIN lvRows : lvRows[i] \in LvRow
        BY <2>1, ElementOfSeq
      <3>3. \A i \in DOMAIN lvRows : lvRows[i].line \in 0..LvLast /\ lvRows[i].query \in LvQueries
        BY <3>2 DEF LvRow
      <3>4. Len(lvPending) <= LvMaxPending /\ Len(lvStore) <= LvMaxLogLines
        BY DEF LvInv, LvBounds
      <3>5. {lvPage, lvTurned, lvFlush} \subseteq BOOLEAN
        BY Zenon DEF LvInv, LvFlags
      <3>6. QED
        BY <3>1, <3>3, <3>4, <3>5 DEF LvTypeOK
    <2>3. LvRowsAreStore
      <3> SUFFICES ASSUME lvPage, ~lvTurned, ~lvFlush PROVE lvRows = LvRowsFor(lvStore, lvQuery)
        BY DEF LvRowsAreStore
      <3> DEFINE all == LvRowsFor(lvStore, lvQuery)
      <3>1. /\ Len(lvRows) = Len(lvStore)
            /\ \A i \in 1..Len(lvStore) : lvRows[i].line = lvStore[i] /\ lvRows[i].query = lvQuery
        BY DEF LvInv, LvFresh, LvCursorTrue
      <3>2. /\ all \in Seq(LvRow) /\ Len(all) = Len(lvStore)
            /\ \A i \in 1..Len(lvStore) : all[i].line = lvStore[i] /\ all[i].query = lvQuery
        BY <2>1, LvRowsForIs
      <3> HIDE DEF all
      <3>3. ASSUME NEW i \in 1..Len(lvRows) PROVE lvRows[i] = all[i]
        <4>1. lvRows[i] \in LvRow /\ all[i] \in LvRow
          BY <2>1, <3>1, <3>2, ElementOfSeq
        <4>2. lvRows[i].line = all[i].line /\ lvRows[i].query = all[i].query
          BY <3>1, <3>2
        <4>3. QED
          BY <4>1, <4>2 DEF LvRow
      <3>4. lvRows = all
        BY <2>1, <3>1, <3>2, <3>3, SeqEqual
      <3>5. QED
        BY <3>4 DEF all
    <2>4. LvOnceInOrder
      <3> DEFINE all == lvStore \o lvPending
      <3>1. all \in Seq(Nat) /\ LvOrdered(all)
        BY <2>1, LvConcatOrdered DEF LvInv, LvLines
      <3>2. DOMAIN all = 1..Len(all)
        BY <3>1, LenProperties
      <3> HIDE DEF all
      <3>3. \A i, j \in DOMAIN all : i < j /\ all[i] > 0 /\ all[j] > 0 => all[i] < all[j]
        BY <3>1, <3>2 DEF LvOrdered
      <3>4. QED
        BY <3>3 DEF all, LvOnceInOrder
    <2>5. QED
      BY <2>2, <2>3, <2>4 DEF LvSound
  <1>3. QED
    BY <1>1, <1>2, LvInitInv, PTL DEF LvSpec

-----------------------------------------------------------------------------
(* CertIssue, for any number of issues, provider keys and TXT records.     *)

CiPcs == {"unused", "start", "write", "wait", "finalize", "files", "index",
          "save", "cleanup", "posted", "applied"}
CiOuts == {CiNone, "ok", "error", "cancelled", "timeout"}
CiUiStates == [op : {"idle", "provider", "secret", "index", "dir"},
               arg : CiCerts \cup CiKeys \cup {CiNone}, read : Seq(CiCerts)]

CiTyped ==
    /\ ciPc \in [CiTasks -> CiPcs] /\ ciOut \in [CiTasks -> CiOuts]
    /\ ciLeft \in [CiTasks -> Nat] /\ ciPend \in [CiTasks -> Nat] /\ ciTxt \in [CiTasks -> Nat]
    /\ ciRead \in [CiTasks -> Seq(CiCerts)]
    /\ ciIndex \in Seq(CiCerts) /\ ciFiles \subseteq CiCerts
    /\ ciProviders \subseteq CiKeys /\ ciSecrets \subseteq CiKeys
    /\ ciMode \in 0..2 /\ ciUsed \in CiCerts \cup {CiNone} /\ ciUi \in CiUiStates

\* No list has a certificate twice.
CiOnce(s) == \A i \in DOMAIN s : \A j \in DOMAIN s : s[i] = s[j] => i = j

\* The certificates that may be on a list: those of the issues that are done with the
\* index.
CiPast == {CiOld} \cup {t \in CiTasks : ciPc[t] \in {"cleanup", "posted", "applied"}}

CiGoodList(s) == CiOnce(s) /\ CiListed(s) \subseteq CiPast

CiListsGood ==
    /\ CiGoodList(ciIndex) /\ CiGoodList(ciUi.read)
    /\ \A t \in CiTasks : CiGoodList(ciRead[t])
    /\ ciUi.op \in {"index", "dir"} => ciUi.arg \in CiPast
    /\ ciUi.op = "index" => ciUi.arg # ciUsed

\* What the files are good for while no writer of the index has missed a change.
CiFilesKept ==
    \/ ciStale
    \/ /\ CiListed(ciIndex) \subseteq ciFiles
       /\ \A t \in CiTasks : /\ ciPc[t] \in {"index", "save"} => t \in ciFiles
                             /\ ciOut[t] = "ok" => t \in CiListed(ciIndex) \cup ciGone
       /\ ciUi.op = "dir" => ciUi.arg \notin CiListed(ciIndex)
       /\ ciUsed = CiNone \/ ciUsed \in CiListed(ciIndex)

\* A record a task does not know of is debris, and what it may still write fits.
CiRecordsKept ==
    \A t \in CiTasks :
       /\ ciPend[t] <= ciTxt[t] /\ ciTxt[t] <= CiRecords
       /\ ciTxt[t] = ciPend[t] \/ ciDebris
       /\ ciPc[t] \in {"unused", "start", "write"} => ciTxt[t] + ciLeft[t] <= CiRecords
       /\ ciPc[t] \in {"unused", "start"} => ciTxt[t] = 0
       /\ ciPc[t] \in {"posted", "applied"} => ciPend[t] = 0

CiKeysKept ==
    /\ ciProviders \subseteq ciSecrets
    /\ ciUi.op \in {"provider", "secret"} => ciUi.arg \in CiKeys
    /\ ciUi.op = "secret" => ciUi.arg \notin ciProviders

\* One issue runs at a time, and the page follows it.
CiOneIssue ==
    \/ ciOverlap
    \/ /\ CiRunning \subseteq {ciNow}
       /\ ciIssuing <=> ciNow \in CiRunning /\ ~ciByUser

\* The page and the form name the places of the index.
CiPlaces ==
    /\ ciUnseen \/ ciUi.op = "dir" \/ ciRows = ciIndex
    /\ ciForm = 0 \/ ciMoved \/ (ciForm \in DOMAIN ciIndex /\ ciMeant = ciIndex[ciForm])

CiInv == /\ CiTyped /\ CiListsGood /\ CiFilesKept /\ CiRecordsKept
         /\ CiKeysKept /\ CiOneIssue /\ CiPlaces

LEMMA CiWithoutIs ==
  ASSUME NEW S, NEW s \in Seq(S), NEW c, CiOnce(s)
  PROVE  /\ CiWithout(s, c) \in Seq(S) /\ CiOnce(CiWithout(s, c))
         /\ CiListed(CiWithout(s, c)) = CiListed(s) \ {c}
  <1> DEFINE w == CiWithout(s, c)
  <1>1. CASE c \notin CiListed(s)
    <2>1. w = s
      BY <1>1 DEF CiWithout
    <2> QED
      BY <1>1, <2>1
  <1>2. CASE c \in CiListed(s)
    <2> DEFINE i == CHOOSE j \in DOMAIN s : s[j] = c
    <2>1. i \in DOMAIN s /\ s[i] = c
      BY <1>2 DEF CiListed
    <2>2. w = [j \in 1..(Len(s) - 1) |-> IF j < i THEN s[j] ELSE s[j + 1]]
      BY <1>2 DEF CiWithout
    <2>3. Len(s) \in Nat /\ DOMAIN s = 1..Len(s)
      BY LenProperties
    <2> HIDE DEF i, w
    <2>4. Len(s) - 1 \in Nat /\ DOMAIN w = 1..(Len(s) - 1)
      BY <2>1, <2>2, <2>3
    <2>5. \A j \in DOMAIN w : w[j] = IF j < i THEN s[j] ELSE s[j + 1]
      BY <2>2, <2>4
    <2>6. \A j \in DOMAIN s : s[j] \in S
      BY <2>3, ElementOfSeq
    <2>7. \A j \in DOMAIN w : w[j] \in S
      BY <2>1, <2>3, <2>4, <2>5, <2>6
    <2>8. w \in Seq(S)
      BY <2>2, <2>4, <2>7
    <2>9. CiOnce(w)
      <3> SUFFICES ASSUME NEW a \in DOMAIN w, NEW b \in DOMAIN w, w[a] = w[b] PROVE a = b
        BY DEF CiOnce
      <3>1. \A p \in DOMAIN s : \A q \in DOMAIN s : s[p] = s[q] => p = q
        BY DEF CiOnce
      <3>2. CASE a < i /\ b < i
        BY <2>1, <2>3, <2>4, <2>5, <3>1, <3>2
      <3>3. CASE a < i /\ ~(b < i)
        BY <2>1, <2>3, <2>4, <2>5, <3>1, <3>3
      <3>4. CASE ~(a < i) /\ b < i
        BY <2>1, <2>3, <2>4, <2>5, <3>1, <3>4
      <3>5. CASE ~(a < i) /\ ~(b < i)
        BY <2>1, <2>3, <2>4, <2>5, <3>1, <3>5
      <3> QED
        BY <3>2, <3>3, <3>4, <3>5
    <2>10. CiListed(w) \subseteq CiListed(s) \ {c}
      <3> SUFFICES ASSUME NEW a \in DOMAIN w PROVE w[a] \in CiListed(s) /\ w[a] # c
        BY DEF CiListed
      <3>1. \A p \in DOMAIN s : \A q \in DOMAIN s : s[p] = s[q] => p = q
        BY DEF CiOnce
      <3>2. CASE a < i
        BY <2>1, <2>3, <2>4, <2>5, <3>1, <3>2 DEF CiListed
      <3>3. CASE ~(a < i)
        BY <2>1, <2>3, <2>4, <2>5, <3>1, <3>3 DEF CiListed
      <3> QED
        BY <3>2, <3>3
    <2>11. CiListed(s) \ {c} \subseteq CiListed(w)
      <3> SUFFICES ASSUME NEW a \in DOMAIN s, s[a] # c PROVE \E b \in DOMAIN w : w[b] = s[a]
        BY DEF CiListed
      <3>1. CASE a < i
        BY <2>1, <2>3, <2>4, <2>5, <3>1
      <3>2. CASE a > i
        <4>1. a - 1 \in DOMAIN w /\ ~(a - 1 < i) /\ (a - 1) + 1 = a
          BY <2>1, <2>3, <2>4, <3>2
        <4> QED
          BY <2>5, <4>1
      <3> QED
        BY <2>1, <2>3, <3>1, <3>2
    <2> QED
      BY <2>8, <2>9, <2>10, <2>11 DEF w
  <1> QED
    BY <1>1, <1>2

LEMMA CiInFront ==
  ASSUME NEW S, NEW s \in Seq(S), NEW c \in S, CiOnce(s), c \notin CiListed(s)
  PROVE  /\ <<c>> \o s \in Seq(S) /\ CiOnce(<<c>> \o s)
         /\ CiListed(<<c>> \o s) = CiListed(s) \cup {c}
  <1> DEFINE w == <<c>> \o s
  <1>1. Len(s) \in Nat /\ DOMAIN s = 1..Len(s)
    BY LenProperties
  <1>2. w \in Seq(S) /\ Len(w) = 1 + Len(s) /\ DOMAIN w = 1..(1 + Len(s))
    BY <1>1
  <1>3. w[1] = c /\ \A j \in 2..(1 + Len(s)) : w[j] = s[j - 1]
    BY <1>1
  <1> HIDE DEF w
  <1>4. \A j \in 2..(1 + Len(s)) : j - 1 \in DOMAIN s
    BY <1>1
  <1>5. \A j \in DOMAIN w : j = 1 \/ j \in 2..(1 + Len(s))
    BY <1>1, <1>2
  <1>6. \A j \in DOMAIN s : j + 1 \in 2..(1 + Len(s)) /\ (j + 1) - 1 = j /\ j + 1 \in DOMAIN w
    BY <1>1, <1>2
  <1>7. CiOnce(w)
    <2> SUFFICES ASSUME NEW a \in DOMAIN w, NEW b \in DOMAIN w, w[a] = w[b] PROVE a = b
      BY DEF CiOnce
    <2>1. CASE a = 1 /\ b \in 2..(1 + Len(s))
      BY <1>3, <1>4, <2>1 DEF CiListed
    <2>2. CASE b = 1 /\ a \in 2..(1 + Len(s))
      BY <1>3, <1>4, <2>2 DEF CiListed
    <2>3. CASE a \in 2..(1 + Len(s)) /\ b \in 2..(1 + Len(s))
      <3>1. a - 1 = b - 1
        BY <1>3, <1>4, <2>3 DEF CiOnce
      <3> QED
        BY <1>1, <2>3, <3>1
    <2> QED
      BY <1>5, <2>1, <2>2, <2>3
  <1>8. CiListed(w) \subseteq CiListed(s) \cup {c}
    BY <1>3, <1>4, <1>5 DEF CiListed
  <1>9. CiListed(s) \subseteq CiListed(w)
    BY <1>3, <1>6 DEF CiListed
  <1>10. c \in CiListed(w)
    <2>1. 1 \in DOMAIN w
      BY <1>1, <1>2
    <2> QED
      BY <1>3, <2>1 DEF CiListed
  <1> QED
    BY <1>2, <1>7, <1>8, <1>9, <1>10 DEF w

LEMMA CiInitInv == CiInit => CiInv
  <1> SUFFICES ASSUME CiInit PROVE CiInv
    OBVIOUS
  <1>1. ciIndex \in Seq(CiCerts) /\ CiListed(ciIndex) = {CiOld} /\ CiOnce(ciIndex)
    BY DEF CiInit, CiCerts, CiListed, CiOnce
  <1>2. <<>> \in Seq(CiCerts) /\ CiListed(<<>>) = {} /\ CiOnce(<<>>)
    BY DEF CiListed, CiOnce
  <1>3. ciUi \in CiUiStates /\ ciUi.op = "idle" /\ ciUi.read = <<>>
    BY <1>2 DEF CiInit, CiIdle, CiUiStates
  <1>4. CiTyped
    BY <1>1, <1>2, <1>3, CiAssumptions DEF CiInit, CiTyped, CiPcs, CiOuts, CiCerts
  <1>5. CiListsGood
    BY <1>1, <1>2, <1>3 DEF CiInit, CiListsGood, CiGoodList, CiPast
  <1>6. CiFilesKept
    BY <1>1, <1>3, CiAssumptions DEF CiInit, CiFilesKept
  <1>7. CiRecordsKept
    BY CiAssumptions DEF CiInit, CiRecordsKept
  <1>8. CiKeysKept /\ CiOneIssue /\ CiPlaces
    BY <1>3 DEF CiInit, CiKeysKept, CiOneIssue, CiRunning, CiPlaces
  <1> QED
    BY <1>4, <1>5, <1>6, <1>7, <1>8 DEF CiInv

-----------------------------------------------------------------------------
\* How an issue that ends, and one that goes on, moves.
LEMMA CiEndsIs ==
  ASSUME CiTyped, NEW t \in CiTasks, NEW r \in {"ok", "error", "cancelled"}, CiEnds(t, r),
         ciPend'[t] \in Nat
  PROVE  /\ ciPc' \in [CiTasks -> CiPcs] /\ \A u \in CiTasks \ {t} : ciPc'[u] = ciPc[u]
         /\ ciPc'[t] \in {"cleanup", "posted"} /\ (ciPc'[t] = "posted" <=> ciPend'[t] = 0)
         /\ ciOut' \in [CiTasks -> CiOuts] /\ \A u \in CiTasks \ {t} : ciOut'[u] = ciOut[u]
         /\ ciOut'[t] = "ok" => r = "ok"
  <1>1. ciPc' = [ciPc EXCEPT ![t] = IF ciPend'[t] > 0 THEN "cleanup" ELSE "posted"]
    BY DEF CiEnds
  <1>2. PICK o \in CiOuts : ciOut' = [ciOut EXCEPT ![t] = o] /\ (o = "ok" => r = "ok")
    <2>1. CASE r = "cancelled" /\ t \in ciLate
      BY <2>1 DEF CiEnds, CiOuts
    <2>2. CASE ~(r = "cancelled" /\ t \in ciLate)
      BY <2>2 DEF CiEnds, CiOuts
    <2> QED
      BY <2>1, <2>2
  <1>3. ciPc' \in [CiTasks -> CiPcs] /\ \A u \in CiTasks \ {t} : ciPc'[u] = ciPc[u]
    BY <1>1 DEF CiTyped, CiPcs
  <1>4. ciPc'[t] \in {"cleanup", "posted"} /\ (ciPc'[t] = "posted" <=> ciPend'[t] = 0)
    BY <1>1 DEF CiTyped
  <1>5. ciOut' \in [CiTasks -> CiOuts] /\ \A u \in CiTasks \ {t} : ciOut'[u] = ciOut[u]
    BY <1>2 DEF CiTyped
  <1>6. ciOut'[t] = "ok" => r = "ok"
    BY <1>2 DEF CiTyped
  <1> QED
    BY <1>3, <1>4, <1>5, <1>6

LEMMA CiGoesIs ==
  ASSUME CiTyped, NEW t \in CiTasks, NEW pc \in CiPcs, CiGoes(t, pc)
  PROVE  /\ ciPc' \in [CiTasks -> CiPcs] /\ \A u \in CiTasks \ {t} : ciPc'[u] = ciPc[u]
         /\ ciPc'[t] = pc /\ ciOut' = ciOut
  BY DEF CiTyped, CiGoes

\* A task in the middle of its issue, before it has dealt with the index.
CiEarly == {"start", "write", "wait", "finalize", "files", "index", "save"}

\* What every step of a task does.
CiMove(t) ==
    /\ ciPc' \in [CiTasks -> CiPcs] /\ ciOut' \in [CiTasks -> CiOuts]
    /\ \A u \in CiTasks \ {t} : ciPc'[u] = ciPc[u] /\ ciOut'[u] = ciOut[u]
    /\ ciPc[t] \in CiEarly \cup {"cleanup"}
    /\ ciPc'[t] \in (CiEarly \ {"start"}) \cup {"cleanup", "posted"}
    /\ ciPc[t] = "cleanup" => ciPc'[t] = "posted"

\* A step after which the task is not in the middle of add_cert.
CiPlain(t) ==
    /\ ciPc'[t] \notin {"index", "save"}
    /\ ciOut'[t] = "ok" => ciOut[t] = "ok"

\* What the records of a task become.
CiRecordsMove(t) ==
    /\ ciLeft' \in [CiTasks -> Nat] /\ ciPend' \in [CiTasks -> Nat] /\ ciTxt' \in [CiTasks -> Nat]
    /\ \A u \in CiTasks \ {t} : ciLeft'[u] = ciLeft[u] /\ ciPend'[u] = ciPend[u] /\ ciTxt'[u] = ciTxt[u]
    /\ ciDebris => ciDebris'

\* The step leaves the records alone.
CiRecordsSame == ciLeft' = ciLeft /\ ciPend' = ciPend /\ ciTxt' = ciTxt /\ ciDebris' = ciDebris

LEMMA CiSameRecords ==
  ASSUME CiTyped, CiRecordsKept, NEW t \in CiTasks, CiMove(t), CiRecordsSame,
         ciPc[t] # "cleanup", ciPc'[t] \in {"posted"} => ciPend'[t] = 0,
         ciPc'[t] = "write" => ciPc[t] \in {"start", "write"}
  PROVE  CiRecordsKept'
  <1> SUFFICES ASSUME NEW u \in CiTasks
               PROVE  /\ ciPend'[u] <= ciTxt'[u] /\ ciTxt'[u] <= CiRecords
                      /\ ciTxt'[u] = ciPend'[u] \/ ciDebris'
                      /\ ciPc'[u] \in {"unused", "start", "write"} => ciTxt'[u] + ciLeft'[u] <= CiRecords
                      /\ ciPc'[u] \in {"unused", "start"} => ciTxt'[u] = 0
                      /\ ciPc'[u] \in {"posted", "applied"} => ciPend'[u] = 0
    BY DEF CiRecordsKept
  <1>1. CASE u = t
    BY <1>1 DEF CiRecordsKept, CiMove, CiRecordsSame, CiEarly
  <1>2. CASE u # t
    BY <1>2 DEF CiRecordsKept, CiMove, CiRecordsSame
  <1> QED
    BY <1>1, <1>2

\* An issue step that ends the issue, or goes on to pc.
LEMMA CiEndsOrGoes ==
  ASSUME CiTyped, NEW t \in CiTasks, NEW pc \in CiEarly \ {"start", "index", "save"},
         ciPc[t] \in CiEarly, ciPend'[t] \in Nat,
         (\E r \in {"error", "cancelled"} : CiEnds(t, r)) \/ CiGoes(t, pc)
  PROVE  /\ CiMove(t) /\ CiPlain(t)
         /\ ciPc'[t] = "posted" => ciPend'[t] = 0
         /\ ciPc'[t] \in {pc, "cleanup", "posted"}
  <1>1. CASE \E r \in {"error", "cancelled"} : CiEnds(t, r)
    <2>1. PICK r \in {"error", "cancelled"} : CiEnds(t, r)
      BY <1>1
    <2>2. /\ ciPc' \in [CiTasks -> CiPcs] /\ \A u \in CiTasks \ {t} : ciPc'[u] = ciPc[u]
          /\ ciPc'[t] \in {"cleanup", "posted"} /\ (ciPc'[t] = "posted" <=> ciPend'[t] = 0)
          /\ ciOut' \in [CiTasks -> CiOuts] /\ \A u \in CiTasks \ {t} : ciOut'[u] = ciOut[u]
          /\ ciOut'[t] # "ok"
      BY <2>1, CiEndsIs
    <2> QED
      BY <2>2 DEF CiMove, CiPlain, CiEarly
  <1>2. CASE CiGoes(t, pc)
    <2>1. pc \in CiPcs /\ pc \notin {"index", "save", "posted"}
      BY DEF CiPcs, CiEarly
    <2>2. /\ ciPc' \in [CiTasks -> CiPcs] /\ \A u \in CiTasks \ {t} : ciPc'[u] = ciPc[u]
          /\ ciPc'[t] = pc /\ ciOut' = ciOut
      BY <1>2, <2>1, CiGoesIs
    <2> QED
      BY <2>1, <2>2 DEF CiMove, CiPlain, CiEarly, CiTyped
  <1> QED
    BY <1>1, <1>2

\* The effect of the steps of a task that stay away from the store.
CiAwayFromStore(t) ==
    /\ CiMove(t) /\ CiPlain(t) /\ CiRecordsMove(t) /\ CiRecordsKept'
    /\ ciRead' = ciRead /\ UNCHANGED <<ciStoreVars, ciFormVars>>

LEMMA CiPrepareIs == ASSUME CiInv, NEW t \in CiTasks, CiPrepare(t) PROVE CiAwayFromStore(t)
  <1>1. CiTyped /\ CiRecordsKept
    BY DEF CiInv
  <1>2. CiRecordsSame /\ ciPc[t] = "start"
    BY DEF CiPrepare, CiRecordsSame
  <1>3. ciPend'[t] \in Nat
    BY <1>1, <1>2 DEF CiTyped, CiRecordsSame
  <1>4. (\E r \in {"error", "cancelled"} : CiEnds(t, r)) \/ CiGoes(t, "write")
    <2>1. CASE ciKey[t] \notin ciProviders \/ ciKey[t] \notin ciSecrets
      BY <2>1 DEF CiPrepare
    <2>2. CASE ~(ciKey[t] \notin ciProviders \/ ciKey[t] \notin ciSecrets)
      BY <2>2 DEF CiPrepare, CiThenCheck
    <2> QED
      BY <2>1, <2>2
  <1>5. /\ CiMove(t) /\ CiPlain(t)
        /\ ciPc'[t] = "posted" => ciPend'[t] = 0
        /\ ciPc'[t] \in {"write", "cleanup", "posted"}
    BY <1>1, <1>2, <1>3, <1>4, CiEndsOrGoes DEF CiEarly
  <1>6. CiRecordsKept'
    BY <1>1, <1>2, <1>5, CiSameRecords
  <1>7. CiRecordsMove(t)
    BY <1>1, <1>2 DEF CiRecordsMove, CiRecordsSame, CiTyped
  <1> QED
    BY <1>5, <1>6, <1>7 DEF CiAwayFromStore, CiPrepare

LEMMA CiPollIs == ASSUME CiInv, NEW t \in CiTasks, CiPoll(t) PROVE CiAwayFromStore(t)
  <1>1. CiTyped /\ CiRecordsKept
    BY DEF CiInv
  <1>2. CiRecordsSame
    BY DEF CiPoll, CiRecordsSame
  <1>3. ciPend'[t] \in Nat
    BY <1>1, <1>2 DEF CiTyped, CiRecordsSame
  <1>4. PICK pc \in {"finalize", "files"} :
           (\E r \in {"error", "cancelled"} : CiEnds(t, r)) \/ CiGoes(t, pc)
    <2>1. CASE ciPc[t] = "wait" /\ CiThenCheck(t, "finalize")
      BY <2>1 DEF CiThenCheck
    <2>2. CASE ciPc[t] = "finalize" /\ CiUntilCancel(t, "files")
      BY <2>2 DEF CiUntilCancel
    <2> QED
      BY <2>1, <2>2 DEF CiPoll
  <1>5. ciPc[t] \in {"wait", "finalize"}
    BY DEF CiPoll
  <1>6. /\ CiMove(t) /\ CiPlain(t)
        /\ ciPc'[t] = "posted" => ciPend'[t] = 0
        /\ ciPc'[t] \in {pc, "cleanup", "posted"}
    BY <1>1, <1>3, <1>4, <1>5, CiEndsOrGoes DEF CiEarly
  <1>7. CiRecordsKept'
    BY <1>1, <1>2, <1>5, <1>6, CiSameRecords
  <1>8. CiRecordsMove(t)
    BY <1>1, <1>2 DEF CiRecordsMove, CiRecordsSame, CiTyped
  <1> QED
    BY <1>6, <1>7, <1>8 DEF CiAwayFromStore, CiPoll

\* The records of task t alone decide, when only they change.
LEMMA CiOwnRecords ==
  ASSUME CiTyped, CiRecordsKept, NEW t \in CiTasks, CiMove(t), CiRecordsMove(t),
         /\ ciPend'[t] <= ciTxt'[t] /\ ciTxt'[t] <= CiRecords
         /\ ciTxt'[t] = ciPend'[t] \/ ciDebris'
         /\ ciPc'[t] = "write" => ciTxt'[t] + ciLeft'[t] <= CiRecords
         /\ ciPc'[t] = "posted" => ciPend'[t] = 0
  PROVE  CiRecordsKept'
  <1> SUFFICES ASSUME NEW u \in CiTasks
               PROVE  /\ ciPend'[u] <= ciTxt'[u] /\ ciTxt'[u] <= CiRecords
                      /\ ciTxt'[u] = ciPend'[u] \/ ciDebris'
                      /\ ciPc'[u] \in {"unused", "start", "write"} => ciTxt'[u] + ciLeft'[u] <= CiRecords
                      /\ ciPc'[u] \in {"unused", "start"} => ciTxt'[u] = 0
                      /\ ciPc'[u] \in {"posted", "applied"} => ciPend'[u] = 0
    BY DEF CiRecordsKept
  <1>1. CASE u = t
    BY <1>1 DEF CiMove, CiEarly
  <1>2. CASE u # t
    BY <1>2 DEF CiRecordsKept, CiMove, CiRecordsMove
  <1> QED
    BY <1>1, <1>2

LEMMA CiWriteTxtIs == ASSUME CiInv, NEW t \in CiTasks, CiWriteTxt(t) PROVE CiAwayFromStore(t)
  <1>1. CiTyped /\ CiRecordsKept
    BY DEF CiInv
  <1>2. ciPc[t] = "write" /\ ciRead' = ciRead /\ UNCHANGED <<ciStoreVars, ciFormVars>>
    BY DEF CiWriteTxt
  <1>3. /\ ciPend[t] <= ciTxt[t] /\ ciTxt[t] + ciLeft[t] <= CiRecords
        /\ ciTxt[t] = ciPend[t] \/ ciDebris
    BY <1>1, <1>2 DEF CiRecordsKept
  <1>4. ciPend[t] \in Nat /\ ciTxt[t] \in Nat /\ ciLeft[t] \in Nat /\ CiRecords \in Nat
    BY <1>1, CiAssumptions DEF CiTyped
  <1>5. CASE ciLeft[t] = 0 /\ CiGoes(t, "wait") /\ UNCHANGED <<ciLeft, ciPend, ciTxt, ciDebris>>
    <2>1. /\ CiMove(t) /\ CiPlain(t)
          /\ ciPc'[t] = "posted" => ciPend'[t] = 0
      BY <1>1, <1>2, <1>4, <1>5, CiEndsOrGoes DEF CiEarly
    <2>2. CiRecordsMove(t)
      BY <1>1, <1>5 DEF CiRecordsMove, CiTyped
    <2>3. ciPc'[t] = "wait"
      BY <1>1, <1>5, CiGoesIs DEF CiPcs
    <2>4. CiRecordsKept'
      BY <1>1, <1>3, <1>4, <1>5, <2>1, <2>2, <2>3, CiOwnRecords
    <2> QED
      BY <1>2, <2>1, <2>2, <2>4 DEF CiAwayFromStore
  <1>6. CASE /\ UNCHANGED ciPend /\ CiEnds(t, "cancelled")
             /\ UNCHANGED <<ciLeft, ciTxt, ciDebris>>
    <2>1. /\ CiMove(t) /\ CiPlain(t)
          /\ ciPc'[t] = "posted" => ciPend'[t] = 0
      BY <1>1, <1>2, <1>4, <1>6, CiEndsOrGoes DEF CiEarly
    <2>2. CiRecordsMove(t)
      BY <1>1, <1>6 DEF CiRecordsMove, CiTyped
    <2>3. CiRecordsKept'
      BY <1>1, <1>3, <1>4, <1>6, <2>1, <2>2, CiOwnRecords
    <2> QED
      BY <1>2, <2>1, <2>2, <2>3 DEF CiAwayFromStore
  <1>7. CASE /\ ciLeft[t] > 0 /\ ciLeft' = [ciLeft EXCEPT ![t] = @ - 1]
             /\ \E n \in {0, 1} :
                   /\ ciPend' = [ciPend EXCEPT ![t] = @ + n]
                   /\ ciTxt' = [ciTxt EXCEPT ![t] = @ + n]
             /\ UNCHANGED <<ciPc, ciOut, ciDebris>>
    <2>1. PICK n \in {0, 1} : /\ ciPend' = [ciPend EXCEPT ![t] = @ + n]
                              /\ ciTxt' = [ciTxt EXCEPT ![t] = @ + n]
      BY <1>7
    <2>2. CiMove(t) /\ CiPlain(t) /\ ciPc'[t] = "write"
      BY <1>1, <1>2, <1>7 DEF CiMove, CiPlain, CiEarly, CiTyped
    <2>3. /\ ciLeft'[t] = ciLeft[t] - 1 /\ ciPend'[t] = ciPend[t] + n /\ ciTxt'[t] = ciTxt[t] + n
          /\ \A u \in CiTasks \ {t} : ciLeft'[u] = ciLeft[u] /\ ciPend'[u] = ciPend[u] /\ ciTxt'[u] = ciTxt[u]
      BY <1>1, <1>7, <2>1 DEF CiTyped
    <2>4. ciLeft' \in [CiTasks -> Nat] /\ ciPend' \in [CiTasks -> Nat] /\ ciTxt' \in [CiTasks -> Nat]
      <3>1. ciLeft[t] - 1 \in Nat /\ ciPend[t] + n \in Nat /\ ciTxt[t] + n \in Nat
        BY <1>4, <1>7
      <3>2. ciLeft' \in [CiTasks -> Nat]
        BY <1>1, <1>7, <3>1 DEF CiTyped
      <3>3. ciPend' \in [CiTasks -> Nat]
        BY <1>1, <2>1, <3>1 DEF CiTyped
      <3>4. ciTxt' \in [CiTasks -> Nat]
        BY <1>1, <2>1, <3>1 DEF CiTyped
      <3> QED
        BY <3>2, <3>3, <3>4
    <2>5. CiRecordsMove(t)
      BY <1>7, <2>3, <2>4 DEF CiRecordsMove
    <2>6. /\ ciPend'[t] <= ciTxt'[t] /\ ciTxt'[t] <= CiRecords
          /\ ciTxt'[t] + ciLeft'[t] <= CiRecords
      BY <1>3, <1>4, <1>7, <2>3
    <2>7. ciTxt'[t] = ciPend'[t] \/ ciDebris'
      BY <1>3, <1>7, <2>3
    <2>8. CiRecordsKept'
      BY <1>1, <2>2, <2>5, <2>6, <2>7, CiOwnRecords
    <2> QED
      BY <1>2, <2>2, <2>5, <2>8 DEF CiAwayFromStore
  <1>8. CASE /\ ciLeft[t] > 0 /\ UNCHANGED <<ciLeft, ciPend>>
             /\ \E n \in {0, 1} : /\ ciTxt' = [ciTxt EXCEPT ![t] = @ + n]
                                  /\ ciDebris' = (ciDebris \/ n = 1)
             /\ CiEnds(t, "error")
    <2>1. PICK n \in {0, 1} : /\ ciTxt' = [ciTxt EXCEPT ![t] = @ + n]
                              /\ ciDebris' = (ciDebris \/ n = 1)
      BY <1>8
    <2>2. /\ CiMove(t) /\ CiPlain(t)
          /\ ciPc'[t] = "posted" => ciPend'[t] = 0
          /\ ciPc'[t] \in {"wait", "cleanup", "posted"}
      BY <1>1, <1>2, <1>4, <1>8, CiEndsOrGoes DEF CiEarly
    <2>3. ciTxt'[t] = ciTxt[t] + n /\ \A u \in CiTasks \ {t} : ciTxt'[u] = ciTxt[u]
      BY <1>1, <2>1 DEF CiTyped
    <2>4. ciTxt' \in [CiTasks -> Nat]
      BY <1>1, <1>4, <2>1 DEF CiTyped
    <2>5. CiRecordsMove(t)
      BY <1>1, <1>8, <2>1, <2>3, <2>4 DEF CiRecordsMove, CiTyped
    <2>6. ciPend'[t] <= ciTxt'[t] /\ ciTxt'[t] <= CiRecords
      BY <1>3, <1>4, <1>8, <2>3
    <2>7. ciTxt'[t] = ciPend'[t] \/ ciDebris'
      <3>1. CASE n = 0
        <4>1. CASE ciDebris
          BY <2>1, <4>1
        <4>2. CASE ciTxt[t] = ciPend[t]
          BY <1>4, <1>8, <2>3, <3>1, <4>2
        <4> QED
          BY <1>3, <4>1, <4>2
      <3>2. CASE n = 1
        BY <2>1, <3>2
      <3> QED
        BY <3>1, <3>2
    <2>8. CiRecordsKept'
      BY <1>1, <2>2, <2>5, <2>6, <2>7, CiOwnRecords
    <2> QED
      BY <1>2, <2>2, <2>5, <2>8 DEF CiAwayFromStore
  <1> QED
    BY <1>5, <1>6, <1>7, <1>8 DEF CiWriteTxt

LEMMA CiCleanupIs == ASSUME CiInv, NEW t \in CiTasks, CiCleanup(t) PROVE CiAwayFromStore(t)
  <1>1. CiTyped /\ CiRecordsKept
    BY DEF CiInv
  <1>2. /\ ciPc[t] = "cleanup" /\ ciRead' = ciRead /\ UNCHANGED <<ciStoreVars, ciFormVars>>
        /\ ciLeft' = ciLeft /\ ciPend' = [ciPend EXCEPT ![t] = 0] /\ CiGoes(t, "posted")
    BY DEF CiCleanup
  <1>3. PICK gone \in 0..ciPend[t] :
          /\ ciTxt' = [ciTxt EXCEPT ![t] = @ - gone]
          /\ ciDebris' = (ciDebris \/ gone < ciPend[t])
    BY DEF CiCleanup
  <1>4. /\ ciPend[t] <= ciTxt[t] /\ ciTxt[t] <= CiRecords
        /\ ciTxt[t] = ciPend[t] \/ ciDebris
    BY <1>1 DEF CiRecordsKept
  <1>5. ciPend[t] \in Nat /\ ciTxt[t] \in Nat /\ CiRecords \in Nat
    BY <1>1, CiAssumptions DEF CiTyped
  <1>6. /\ ciPc' \in [CiTasks -> CiPcs] /\ \A u \in CiTasks \ {t} : ciPc'[u] = ciPc[u]
        /\ ciPc'[t] = "posted" /\ ciOut' = ciOut
    BY <1>1, <1>2, CiGoesIs DEF CiPcs
  <1>7. CiMove(t) /\ CiPlain(t)
    BY <1>1, <1>2, <1>6 DEF CiMove, CiPlain, CiEarly, CiTyped
  <1>8. /\ ciPend'[t] = 0 /\ ciTxt'[t] = ciTxt[t] - gone
        /\ \A u \in CiTasks \ {t} : ciPend'[u] = ciPend[u] /\ ciTxt'[u] = ciTxt[u]
    BY <1>1, <1>2, <1>3 DEF CiTyped
  <1>9. ciTxt[t] - gone \in Nat
    BY <1>4, <1>5
  <1>10. ciPend' \in [CiTasks -> Nat] /\ ciTxt' \in [CiTasks -> Nat]
    BY <1>1, <1>2, <1>3, <1>9 DEF CiTyped
  <1>11. CiRecordsMove(t)
    BY <1>1, <1>2, <1>3, <1>8, <1>10 DEF CiRecordsMove, CiTyped
  <1>12. ciTxt'[t] = ciPend'[t] \/ ciDebris'
    <2>1. CASE gone < ciPend[t]
      BY <1>3, <2>1
    <2>2. CASE gone = ciPend[t]
      <3>1. CASE ciDebris
        BY <1>3, <3>1
      <3>2. CASE ciTxt[t] = ciPend[t]
        BY <1>5, <1>8, <2>2, <3>2
      <3> QED
        BY <1>4, <3>1, <3>2
    <2> QED
      BY <1>5, <2>1, <2>2
  <1>13. ciPend'[t] <= ciTxt'[t] /\ ciTxt'[t] <= CiRecords
    BY <1>4, <1>5, <1>8, <1>9
  <1>14. CiRecordsKept'
    BY <1>1, <1>6, <1>7, <1>8, <1>11, <1>12, <1>13, CiOwnRecords
  <1> QED
    BY <1>2, <1>7, <1>11, <1>14 DEF CiAwayFromStore

-----------------------------------------------------------------------------
\* The lists stay good while the issues that are done with the index stay so.
LEMMA CiPastGrows ==
  ASSUME NEW t \in CiTasks, CiMove(t)
  PROVE  /\ CiPast \subseteq CiPast' /\ CiRunning' = CiRunning
         /\ ciPc[t] \in CiEarly => t \notin CiPast
  <1>1. \A u \in CiPast : u \in CiPast'
    BY DEF CiPast, CiMove, CiEarly
  <1>2. \A u \in CiTasks : u \in CiRunning' <=> u \in CiRunning
    <2> SUFFICES ASSUME NEW u \in CiTasks
                 PROVE  ciPc'[u] \notin {"unused", "applied"} <=> ciPc[u] \notin {"unused", "applied"}
      BY DEF CiRunning
    <2>1. CASE u = t
      BY <2>1 DEF CiMove, CiEarly
    <2>2. CASE u # t
      BY <2>2 DEF CiMove
    <2> QED
      BY <2>1, <2>2
  <1>3. CiRunning \subseteq CiTasks /\ CiRunning' \subseteq CiTasks
    BY DEF CiRunning
  <1>4. ciPc[t] \in CiEarly => t \notin CiPast
    BY CiAssumptions DEF CiPast, CiEarly
  <1> QED
    BY <1>1, <1>2, <1>3, <1>4

\* What a step of a task leaves to the rest of the application.
CiTaskFrame ==
    /\ ciUnseen' = (ciUnseen \/ ciIndex' # ciIndex)
    /\ UNCHANGED <<ciKeyVars, ciMode, ciIssuing, ciRows, ciKeyRows, ciIssueVars, ciUi>>

\* The parts of the invariant a step of a task reaches only through the index.
LEMMA CiTaskRest ==
  ASSUME CiInv, NEW t \in CiTasks, CiMove(t), CiTaskFrame,
         ciForm' = ciForm, ciMeant' = ciMeant,
         ciIndex' = ciIndex \/ ciForm = 0 \/ ciMoved',
         ciMoved => ciMoved'
  PROVE  CiKeysKept' /\ CiOneIssue' /\ CiPlaces'
  <1>1. CiKeysKept'
    BY DEF CiInv, CiKeysKept, CiTaskFrame, ciKeyVars
  <1>2. CiOneIssue'
    <2>1. CiRunning' = CiRunning /\ ciNow' = ciNow /\ ciIssuing' = ciIssuing /\ ciByUser' = ciByUser
          /\ ciOverlap' = ciOverlap
      BY CiPastGrows DEF CiTaskFrame, ciIssueVars
    <2>2. CiOneIssue
      BY DEF CiInv
    <2> QED
      BY <2>1, <2>2 DEF CiOneIssue
  <1>3. CiPlaces
    BY DEF CiInv
  <1>4. ciUi' = ciUi /\ ciRows' = ciRows /\ ciUnseen' = (ciUnseen \/ ciIndex' # ciIndex)
    BY DEF CiTaskFrame
  <1>5. (ciUnseen \/ ciUi.op = "dir" \/ ciRows = ciIndex)'
    <2>1. CASE ciIndex' # ciIndex
      BY <1>4, <2>1
    <2>2. CASE ciIndex' = ciIndex
      BY <1>3, <1>4, <2>2 DEF CiPlaces
    <2> QED
      BY <2>1, <2>2
  <1>6. (ciForm = 0 \/ ciMoved \/ (ciForm \in DOMAIN ciIndex /\ ciMeant = ciIndex[ciForm]))'
    <2>1. CASE ciIndex' = ciIndex
      BY <1>3, <2>1 DEF CiPlaces
    <2>2. CASE ciForm = 0 \/ ciMoved'
      BY <2>2
    <2> QED
      BY <2>1, <2>2
  <1> QED
    BY <1>1, <1>2, <1>5, <1>6 DEF CiPlaces

LEMMA CiAwayInv ==
  ASSUME CiInv, NEW t \in CiTasks, CiAwayFromStore(t), CiTaskFrame
  PROVE  CiInv'
  <1>1. CiMove(t) /\ CiPlain(t) /\ CiRecordsMove(t) /\ CiRecordsKept' /\ ciRead' = ciRead
    BY DEF CiAwayFromStore
  <1>2. /\ ciIndex' = ciIndex /\ ciFiles' = ciFiles /\ ciStale' = ciStale /\ ciGone' = ciGone
        /\ ciForm' = ciForm /\ ciUsed' = ciUsed /\ ciMeant' = ciMeant /\ ciMoved' = ciMoved
    BY DEF CiAwayFromStore, ciStoreVars, ciFormVars
  <1>3. /\ ciProviders' = ciProviders /\ ciSecrets' = ciSecrets /\ ciMode' = ciMode /\ ciUi' = ciUi
    BY DEF CiTaskFrame, ciKeyVars
  <1>4. CiTyped'
    BY <1>1, <1>2, <1>3 DEF CiInv, CiTyped, CiMove, CiRecordsMove
  <1>5. CiPast \subseteq CiPast'
    BY <1>1, CiPastGrows
  <1>6. CiListsGood'
    <2>1. CiListsGood
      BY DEF CiInv
    <2> QED
      BY <1>1, <1>2, <1>3, <1>5, <2>1 DEF CiListsGood, CiGoodList
  <1>7. CiFilesKept'
    <2>1. CiFilesKept
      BY DEF CiInv
    <2>2. \A u \in CiTasks : /\ ciPc'[u] \in {"index", "save"} => ciPc[u] \in {"index", "save"}
                             /\ ciOut'[u] = "ok" => ciOut[u] = "ok"
      BY <1>1 DEF CiMove, CiPlain
    <2> QED
      BY <1>2, <1>3, <2>1, <2>2 DEF CiFilesKept
  <1>8. CiKeysKept' /\ CiOneIssue' /\ CiPlaces'
    BY <1>1, <1>2, CiTaskRest
  <1> QED
    BY <1>1, <1>4, <1>6, <1>7, <1>8 DEF CiInv

-----------------------------------------------------------------------------
\* add_cert, in its three steps.
LEMMA CiWriteFilesInv == ASSUME CiInv, NEW t \in CiTasks, CiWriteFiles(t), CiTaskFrame PROVE CiInv'
  <1>1. CiTyped /\ CiRecordsKept /\ CiListsGood /\ CiFilesKept
    BY DEF CiInv
  <1>2. /\ ciPc[t] = "files" /\ ciPend' = ciPend /\ ciLeft' = ciLeft /\ ciTxt' = ciTxt
        /\ ciRead' = ciRead /\ ciDebris' = ciDebris /\ ciIndex' = ciIndex /\ ciStale' = ciStale
        /\ ciGone' = ciGone
        /\ ciForm' = ciForm /\ ciUsed' = ciUsed /\ ciMeant' = ciMeant /\ ciMoved' = ciMoved
    BY DEF CiWriteFiles, ciFormVars
  <1>3. ciPend'[t] \in Nat
    BY <1>1, <1>2 DEF CiTyped
  <1>4. CASE UNCHANGED ciFiles /\ CiEnds(t, "error")
    <2>1. /\ CiMove(t) /\ CiPlain(t)
          /\ ciPc'[t] = "posted" => ciPend'[t] = 0
          /\ ciPc'[t] \in {"wait", "cleanup", "posted"}
      BY <1>1, <1>2, <1>3, <1>4, CiEndsOrGoes DEF CiEarly
    <2>2. CiRecordsKept'
      BY <1>1, <1>2, <2>1, CiSameRecords DEF CiRecordsSame
    <2>3. CiRecordsMove(t)
      BY <1>1, <1>2 DEF CiRecordsMove, CiTyped
    <2>4. CiAwayFromStore(t)
      BY <1>2, <1>4, <2>1, <2>2, <2>3 DEF CiAwayFromStore, ciStoreVars, ciFormVars
    <2> QED
      BY <2>4, CiAwayInv
  <1>5. CASE ciFiles' = ciFiles \cup {t} /\ CiGoes(t, "index")
    <2>1. /\ ciPc' \in [CiTasks -> CiPcs] /\ \A u \in CiTasks \ {t} : ciPc'[u] = ciPc[u]
          /\ ciPc'[t] = "index" /\ ciOut' = ciOut
      BY <1>1, <1>5, CiGoesIs DEF CiPcs
    <2>2. CiMove(t)
      BY <1>1, <1>2, <2>1 DEF CiMove, CiEarly, CiTyped
    <2>3. CiRecordsKept'
      BY <1>1, <1>2, <2>1, <2>2, CiSameRecords DEF CiRecordsSame
    <2>4. /\ ciProviders' = ciProviders /\ ciSecrets' = ciSecrets /\ ciMode' = ciMode /\ ciUi' = ciUi
      BY DEF CiTaskFrame, ciKeyVars
    <2>5. CiTyped'
      BY <1>1, <1>2, <1>5, <2>1, <2>4 DEF CiTyped, CiCerts
    <2>6. CiPast \subseteq CiPast'
      BY <2>2, CiPastGrows
    <2>7. CiListsGood'
      BY <1>1, <1>2, <2>4, <2>6 DEF CiListsGood, CiGoodList
    <2>8. CiFilesKept'
      BY <1>1, <1>2, <1>5, <2>1, <2>4 DEF CiFilesKept
    <2>9. CiKeysKept' /\ CiOneIssue' /\ CiPlaces'
      BY <1>2, <2>2, CiTaskRest
    <2> QED
      BY <2>3, <2>5, <2>7, <2>8, <2>9 DEF CiInv
  <1> QED
    BY <1>4, <1>5 DEF CiWriteFiles

LEMMA CiReadIndexInv == ASSUME CiInv, NEW t \in CiTasks, CiReadIndex(t), CiTaskFrame PROVE CiInv'
  <1>1. CiTyped /\ CiRecordsKept /\ CiListsGood /\ CiFilesKept
    BY DEF CiInv
  <1>2. /\ ciPc[t] = "index" /\ ciPend' = ciPend /\ ciLeft' = ciLeft /\ ciTxt' = ciTxt
        /\ ciDebris' = ciDebris /\ ciIndex' = ciIndex /\ ciStale' = ciStale
        /\ ciGone' = ciGone /\ ciFiles' = ciFiles
        /\ ciForm' = ciForm /\ ciUsed' = ciUsed /\ ciMeant' = ciMeant /\ ciMoved' = ciMoved
    BY DEF CiReadIndex, ciFormVars, ciStoreVars
  <1>3. ciRead' = [ciRead EXCEPT ![t] = ciIndex] /\ CiGoes(t, "save")
    BY DEF CiReadIndex
  <1>4. ciRead' \in [CiTasks -> Seq(CiCerts)] /\ \A u \in CiTasks : ciRead'[u] \in {ciRead[u], ciIndex}
    BY <1>1, <1>3 DEF CiTyped
  <1>5. /\ ciPc' \in [CiTasks -> CiPcs] /\ \A u \in CiTasks \ {t} : ciPc'[u] = ciPc[u]
        /\ ciPc'[t] = "save" /\ ciOut' = ciOut
    BY <1>1, <1>3, CiGoesIs DEF CiPcs
  <1>6. CiMove(t)
    BY <1>1, <1>2, <1>5 DEF CiMove, CiEarly, CiTyped
  <1>7. CiRecordsKept'
    BY <1>1, <1>2, <1>5, <1>6, CiSameRecords DEF CiRecordsSame
  <1>8. /\ ciProviders' = ciProviders /\ ciSecrets' = ciSecrets /\ ciMode' = ciMode /\ ciUi' = ciUi
    BY DEF CiTaskFrame, ciKeyVars
  <1>9. CiTyped'
    BY <1>1, <1>2, <1>4, <1>5, <1>8 DEF CiTyped
  <1>10. CiPast \subseteq CiPast'
    BY <1>6, CiPastGrows
  <1>11. CiListsGood'
    <2>1. \A u \in CiTasks : CiGoodList(ciRead[u])'
      BY <1>1, <1>4, <1>10 DEF CiListsGood, CiGoodList
    <2> QED
      BY <1>1, <1>2, <1>8, <1>10, <2>1 DEF CiListsGood, CiGoodList
  <1>12. CiFilesKept'
    BY <1>1, <1>2, <1>5, <1>8 DEF CiFilesKept
  <1>13. CiKeysKept' /\ CiOneIssue' /\ CiPlaces'
    BY <1>2, <1>6, CiTaskRest
  <1> QED
    BY <1>7, <1>9, <1>11, <1>12, <1>13 DEF CiInv

LEMMA CiSaveIndexInv == ASSUME CiInv, NEW t \in CiTasks, CiSaveIndex(t), CiTaskFrame PROVE CiInv'
  <1>1. CiTyped /\ CiRecordsKept /\ CiListsGood /\ CiFilesKept
    BY DEF CiInv
  <1>2. /\ ciPc[t] = "save" /\ ciPend' = ciPend /\ ciLeft' = ciLeft /\ ciTxt' = ciTxt
        /\ ciDebris' = ciDebris /\ ciFiles' = ciFiles /\ ciGone' = ciGone
        /\ ciForm' = ciForm /\ ciUsed' = ciUsed /\ ciMeant' = ciMeant
        /\ ciRead' = [ciRead EXCEPT ![t] = <<>>]
    BY DEF CiSaveIndex
  <1>3. ciPend'[t] \in Nat /\ <<>> \in Seq(CiCerts)
    BY <1>1, <1>2 DEF CiTyped
  <1>4. /\ ciRead' \in [CiTasks -> Seq(CiCerts)] /\ \A u \in CiTasks : ciRead'[u] \in {ciRead[u], <<>>}
    BY <1>1, <1>2, <1>3 DEF CiTyped
  <1>5. CiGoodList(<<>>)'
    BY DEF CiGoodList, CiOnce, CiListed
  <1>6. /\ ciProviders' = ciProviders /\ ciSecrets' = ciSecrets /\ ciMode' = ciMode /\ ciUi' = ciUi
    BY DEF CiTaskFrame, ciKeyVars
  <1>7. PICK r \in {"ok", "error"} :
          /\ CiEnds(t, r)
          /\ \/ /\ r = "ok" /\ ciIndex' = <<t>> \o CiWithout(ciRead[t], t)
                /\ ciStale' = (ciStale \/ ciRead[t] # ciIndex)
                /\ ciMoved' = (ciMoved \/ ciForm # 0)
             \/ r = "error" /\ UNCHANGED <<ciIndex, ciStale, ciMoved>>
    BY DEF CiSaveIndex
  <1>8. /\ ciPc' \in [CiTasks -> CiPcs] /\ \A u \in CiTasks \ {t} : ciPc'[u] = ciPc[u]
        /\ ciPc'[t] \in {"cleanup", "posted"} /\ (ciPc'[t] = "posted" <=> ciPend'[t] = 0)
        /\ ciOut' \in [CiTasks -> CiOuts] /\ \A u \in CiTasks \ {t} : ciOut'[u] = ciOut[u]
        /\ ciOut'[t] = "ok" => r = "ok"
    BY <1>1, <1>3, <1>7, CiEndsIs
  <1>9. CiMove(t)
    BY <1>2, <1>8 DEF CiMove, CiEarly
  <1>10. CiRecordsKept'
    BY <1>1, <1>2, <1>8, <1>9, CiSameRecords DEF CiRecordsSame
  <1>11. CiPast \subseteq CiPast' /\ t \notin CiPast /\ t \in CiPast'
    <2>1. t \in CiPast'
      BY <1>8 DEF CiPast
    <2> QED
      BY <1>2, <1>9, <2>1, CiPastGrows DEF CiEarly
  <1>12. CiGoodList(ciUi.read)' /\ (\A u \in CiTasks : CiGoodList(ciRead[u])')
    BY <1>1, <1>4, <1>5, <1>6, <1>11 DEF CiListsGood, CiGoodList
  <1>13. CASE r = "error"
    <2>1. ciIndex' = ciIndex /\ ciStale' = ciStale /\ ciMoved' = ciMoved
      BY <1>7, <1>13
    <2>2. CiTyped'
      BY <1>1, <1>2, <1>4, <1>6, <1>8, <2>1 DEF CiTyped
    <2>3. CiListsGood'
      BY <1>1, <1>2, <1>6, <1>11, <1>12, <2>1 DEF CiListsGood, CiGoodList
    <2>4. CiFilesKept'
      BY <1>1, <1>2, <1>6, <1>8, <1>13, <2>1 DEF CiFilesKept
    <2>5. CiKeysKept' /\ CiOneIssue' /\ CiPlaces'
      BY <1>2, <1>9, <2>1, CiTaskRest
    <2> QED
      BY <1>10, <2>2, <2>3, <2>4, <2>5 DEF CiInv
  <1>14. CASE r = "ok"
    <2>1. /\ ciIndex' = <<t>> \o CiWithout(ciRead[t], t)
          /\ ciStale' = (ciStale \/ ciRead[t] # ciIndex)
          /\ ciMoved' = (ciMoved \/ ciForm # 0)
      BY <1>7, <1>14
    <2>2. ciRead[t] \in Seq(CiCerts) /\ CiOnce(ciRead[t]) /\ CiListed(ciRead[t]) \subseteq CiPast
      BY <1>1 DEF CiTyped, CiListsGood, CiGoodList
    <2>3. PICK w : w = CiWithout(ciRead[t], t)
      OBVIOUS
    <2>4. /\ w \in Seq(CiCerts) /\ CiOnce(w) /\ CiListed(w) = CiListed(ciRead[t]) \ {t}
      BY <2>2, <2>3, CiWithoutIs
    <2>5. t \in CiCerts /\ t \notin CiListed(w) /\ CiListed(w) = CiListed(ciRead[t])
      BY <1>11, <2>2, <2>4 DEF CiCerts
    <2>6. /\ ciIndex' \in Seq(CiCerts) /\ CiOnce(ciIndex')
          /\ CiListed(ciIndex') = CiListed(ciRead[t]) \cup {t}
      BY <2>1, <2>3, <2>4, <2>5, CiInFront
    <2>7. CiTyped'
      BY <1>1, <1>2, <1>4, <1>6, <1>8, <2>6 DEF CiTyped
    <2>8. CiGoodList(ciIndex)'
      BY <1>11, <2>2, <2>6 DEF CiGoodList
    <2>9. CiListsGood'
      BY <1>1, <1>2, <1>6, <1>11, <1>12, <2>8 DEF CiListsGood
    <2>10. CiFilesKept'
      <3>1. CASE ciStale \/ ciRead[t] # ciIndex
        BY <2>1, <3>1 DEF CiFilesKept
      <3>2. CASE ~ciStale /\ ciRead[t] = ciIndex
        <4>1. CiListed(ciIndex') = CiListed(ciIndex) \cup {t} /\ t \in ciFiles
          BY <1>1, <1>2, <2>6, <3>2 DEF CiFilesKept
        <4>2. CiListed(ciIndex') \subseteq ciFiles'
          BY <1>1, <1>2, <3>2, <4>1 DEF CiFilesKept
        <4>3. \A u \in CiTasks : /\ ciPc'[u] \in {"index", "save"} => u \in ciFiles'
                                 /\ ciOut'[u] = "ok" => u \in CiListed(ciIndex') \cup ciGone'
          BY <1>1, <1>2, <1>8, <3>2, <4>1 DEF CiFilesKept
        <4>4. ciUi'.op = "dir" => ciUi'.arg \notin CiListed(ciIndex')
          BY <1>1, <1>6, <1>11, <3>2, <4>1 DEF CiFilesKept, CiListsGood
        <4>5. ciUsed' = CiNone \/ ciUsed' \in CiListed(ciIndex')
          BY <1>1, <1>2, <3>2, <4>1 DEF CiFilesKept
        <4> QED
          BY <4>2, <4>3, <4>4, <4>5 DEF CiFilesKept
      <3> QED
        BY <3>1, <3>2
    <2>11. CiKeysKept' /\ CiOneIssue' /\ CiPlaces'
      BY <1>2, <1>9, <2>1, CiTaskRest
    <2> QED
      BY <1>10, <2>7, <2>9, <2>10, <2>11 DEF CiInv
  <1> QED
    BY <1>13, <1>14

LEMMA CiTaskStepInv == ASSUME CiInv, NEW t \in CiTasks, CiTaskStep(t) PROVE CiInv'
  <1>1. CiTaskFrame
    BY DEF CiTaskStep, CiTaskFrame
  <1>2. CASE CiPrepare(t)
    BY <1>1, <1>2, CiPrepareIs, CiAwayInv
  <1>3. CASE CiWriteTxt(t)
    BY <1>1, <1>3, CiWriteTxtIs, CiAwayInv
  <1>4. CASE CiPoll(t)
    BY <1>1, <1>4, CiPollIs, CiAwayInv
  <1>5. CASE CiCleanup(t)
    BY <1>1, <1>5, CiCleanupIs, CiAwayInv
  <1>6. CASE CiWriteFiles(t)
    BY <1>1, <1>6, CiWriteFilesInv
  <1>7. CASE CiReadIndex(t)
    BY <1>1, <1>7, CiReadIndexInv
  <1>8. CASE CiSaveIndex(t)
    BY <1>1, <1>8, CiSaveIndexInv
  <1> QED
    BY <1>2, <1>3, <1>4, <1>5, <1>6, <1>7, <1>8 DEF CiTaskStep

-----------------------------------------------------------------------------
(* The event loop.  Each part of the invariant lists what it depends on.   *)

\* Handlers that touch neither a task nor the index nor its files.
LEMMA CiTaskVarsSame ==
  ASSUME CiInv, UNCHANGED <<ciPc, ciLeft, ciPend, ciTxt, ciOut, ciRead, ciDebris>>
  PROVE  /\ CiRecordsKept' /\ CiPast' = CiPast /\ CiRunning' = CiRunning
         /\ ciPc' = ciPc /\ ciOut' = ciOut /\ ciRead' = ciRead
         /\ ciLeft' = ciLeft /\ ciPend' = ciPend /\ ciTxt' = ciTxt
  BY DEF CiInv, CiRecordsKept, CiPast, CiRunning

\* The handlers of the page: the two files and the form stay as they are.
LEMMA CiPageHandler ==
  ASSUME CiInv, UNCHANGED <<ciPc, ciLeft, ciPend, ciTxt, ciOut, ciRead, ciDebris, ciStoreVars, ciUsed>>,
         ciUi' = ciUi \/ (ciUi'.op \in {"idle", "provider", "secret"} /\ ciUi' \in CiUiStates
                          /\ ciUi'.read = <<>>),
         ciMode' \in 0..2, ciProviders' \subseteq CiKeys, ciSecrets' \subseteq CiKeys
  PROVE  CiTyped' /\ CiListsGood' /\ CiFilesKept' /\ CiRecordsKept'
  <1>1. CiTyped /\ CiListsGood /\ CiFilesKept
    BY DEF CiInv
  <1>2. /\ CiRecordsKept' /\ CiPast' = CiPast /\ ciPc' = ciPc /\ ciOut' = ciOut /\ ciRead' = ciRead
        /\ ciLeft' = ciLeft /\ ciPend' = ciPend /\ ciTxt' = ciTxt
    BY CiTaskVarsSame
  <1>3. /\ ciIndex' = ciIndex /\ ciFiles' = ciFiles /\ ciStale' = ciStale /\ ciGone' = ciGone
        /\ ciUsed' = ciUsed
    BY DEF ciStoreVars
  <1>4. ciUi' \in CiUiStates
    BY <1>1 DEF CiTyped
  <1>5. CiTyped'
    BY <1>1, <1>2, <1>3, <1>4 DEF CiTyped
  <1>6. CiGoodList(ciUi.read)'
    <2>1. CASE ciUi' = ciUi
      BY <1>1, <1>2, <2>1 DEF CiListsGood, CiGoodList
    <2>2. CASE ciUi'.read = <<>>
      BY <2>2 DEF CiGoodList, CiOnce, CiListed
    <2> QED
      BY <2>1, <2>2
  <1>7. CiListsGood'
    BY <1>1, <1>2, <1>3, <1>6 DEF CiListsGood, CiGoodList
  <1>8. CiFilesKept'
    BY <1>1, <1>2, <1>3 DEF CiFilesKept
  <1> QED
    BY <1>2, <1>5, <1>7, <1>8

LEMMA CiPlacesSame ==
  ASSUME CiInv, ciIndex' = ciIndex, ciForm' = ciForm, ciMeant' = ciMeant, ciMoved' = ciMoved,
         \/ ciRows' = ciIndex
         \/ ciRows' = ciRows /\ ciUnseen' = ciUnseen /\ (ciUi.op # "dir" \/ ciUi' = ciUi)
  PROVE  CiPlaces'
  <1>1. CiPlaces
    BY DEF CiInv
  <1>2. (ciUnseen \/ ciUi.op = "dir" \/ ciRows = ciIndex)'
    <2>1. CASE ciRows' = ciIndex
      BY <2>1
    <2>2. CASE ciRows' = ciRows /\ ciUnseen' = ciUnseen /\ (ciUi.op # "dir" \/ ciUi' = ciUi)
      BY <1>1, <2>2 DEF CiPlaces
    <2> QED
      BY <2>1, <2>2
  <1> QED
    BY <1>1, <1>2 DEF CiPlaces

LEMMA CiOneIssueSame ==
  ASSUME CiInv, UNCHANGED <<ciPc, ciIssuing, ciNow, ciByUser, ciOverlap>>
  PROVE  CiOneIssue'
  <1>1. CiRunning' = CiRunning
    BY DEF CiRunning
  <1>2. CiOneIssue
    BY DEF CiInv
  <1> QED
    BY <1>1, <1>2 DEF CiOneIssue

LEMMA CiTimeoutInv == ASSUME CiInv, NEW t \in CiTasks, CiTimeout(t) PROVE CiInv'
  <1>1. /\ UNCHANGED <<ciPc, ciLeft, ciPend, ciTxt, ciOut, ciRead, ciDebris, ciStoreVars, ciUsed>>
        /\ UNCHANGED <<ciUi, ciMode, ciProviders, ciSecrets, ciForm, ciMeant, ciMoved, ciRows, ciUnseen>>
        /\ UNCHANGED <<ciIssuing, ciNow, ciByUser, ciOverlap>> /\ ciIndex' = ciIndex
    BY DEF CiTimeout, ciKeyVars, ciFormVars, ciPageVars, ciStoreVars
  <1>2. CiTyped
    BY DEF CiInv
  <1>3. CiTyped' /\ CiListsGood' /\ CiFilesKept' /\ CiRecordsKept'
    BY <1>1, <1>2, CiPageHandler DEF CiTyped
  <1>4. CiKeysKept'
    BY <1>1 DEF CiInv, CiKeysKept
  <1>5. CiOneIssue' /\ CiPlaces'
    BY <1>1, CiOneIssueSame, CiPlacesSame
  <1> QED
    BY <1>3, <1>4, <1>5 DEF CiInv

\* CiIdle, and the same with another operation and argument.
LEMMA CiIdleIs == CiIdle \in CiUiStates /\ CiIdle.op = "idle" /\ CiIdle.read = <<>>
  <1>1. <<>> \in Seq(CiCerts)
    OBVIOUS
  <1> QED
    BY <1>1 DEF CiIdle, CiUiStates

LEMMA CiIdleWith ==
  ASSUME NEW o \in {"provider", "secret"}, NEW k \in CiKeys
  PROVE  LET u == [CiIdle EXCEPT !.op = o, !.arg = k]
         IN  u \in CiUiStates /\ u.op = o /\ u.arg = k /\ u.read = <<>>
  <1>1. <<>> \in Seq(CiCerts)
    OBVIOUS
  <1> QED
    BY <1>1 DEF CiIdle, CiUiStates

LEMMA CiApplyCancelInv == ASSUME CiInv, CiApplyCancel PROVE CiInv'
  <1>1. /\ UNCHANGED <<ciPc, ciLeft, ciPend, ciTxt, ciOut, ciRead, ciDebris, ciStoreVars, ciUsed>>
        /\ UNCHANGED <<ciUi, ciProviders, ciSecrets, ciForm, ciMeant, ciMoved, ciRows, ciUnseen>>
        /\ UNCHANGED <<ciNow, ciOverlap>> /\ ciIndex' = ciIndex /\ ciMode' = 0
    BY DEF CiApplyCancel, ciTaskVars, ciKeyVars, ciFormVars, ciStoreVars
  <1>2. CiTyped
    BY DEF CiInv
  <1>3. CiTyped' /\ CiListsGood' /\ CiFilesKept' /\ CiRecordsKept'
    BY <1>1, <1>2, CiPageHandler DEF CiTyped
  <1>4. CiKeysKept'
    BY <1>1 DEF CiInv, CiKeysKept
  <1>5. CiPlaces'
    BY <1>1, CiPlacesSame
  <1>6. CiOneIssue'
    <2>1. CASE ciIssuing
      <3>1. ciIssuing' = FALSE /\ ciByUser' = TRUE
        BY <2>1 DEF CiApplyCancel
      <3>2. CiRunning' = CiRunning /\ CiOneIssue
        BY <1>1 DEF CiRunning, CiInv
      <3> QED
        BY <1>1, <3>1, <3>2 DEF CiOneIssue
    <2>2. CASE ~ciIssuing
      BY <1>1, <2>2, CiOneIssueSame DEF CiApplyCancel
    <2> QED
      BY <2>1, <2>2
  <1> QED
    BY <1>3, <1>4, <1>5, <1>6 DEF CiInv

LEMMA CiModeInv ==
  ASSUME CiInv, CiOpenApply \/ CiOpenKey \/ CiKeyCancel \/ CiPage
  PROVE  CiInv'
  <1>1. /\ UNCHANGED <<ciPc, ciLeft, ciPend, ciTxt, ciOut, ciRead, ciDebris, ciStoreVars, ciUsed>>
        /\ UNCHANGED <<ciUi, ciProviders, ciSecrets, ciForm, ciMeant, ciMoved>>
        /\ UNCHANGED <<ciIssuing, ciNow, ciByUser, ciOverlap>> /\ ciIndex' = ciIndex
        /\ ciMode' \in {0, 1, 2, ciMode}
        /\ ciRows' = ciIndex \/ (ciRows' = ciRows /\ ciUnseen' = ciUnseen)
    BY DEF CiOpenApply, CiOpenKey, CiKeyCancel, CiPage, CiRefresh, ciTaskVars, ciKeyVars, ciFormVars,
           ciStoreVars, ciIssueVars
  <1>2. CiTyped
    BY DEF CiInv
  <1>3. CiTyped' /\ CiListsGood' /\ CiFilesKept' /\ CiRecordsKept'
    BY <1>1, <1>2, CiPageHandler DEF CiTyped
  <1>4. CiKeysKept'
    BY <1>1 DEF CiInv, CiKeysKept
  <1>5. CiOneIssue' /\ CiPlaces'
    BY <1>1, CiOneIssueSame, CiPlacesSame
  <1> QED
    BY <1>3, <1>4, <1>5 DEF CiInv

LEMMA CiKeyHandlersInv ==
  ASSUME CiInv,
         (\E k \in CiKeys : CiSaveKey(k) \/ CiDeleteKey(k)) \/ CiUiFinishKey \/ CiUiFails
  PROVE  CiInv'
  <1>1. /\ UNCHANGED <<ciPc, ciLeft, ciPend, ciTxt, ciOut, ciRead, ciDebris, ciStoreVars, ciUsed>>
        /\ UNCHANGED <<ciForm, ciMeant, ciMoved>>
        /\ UNCHANGED <<ciIssuing, ciNow, ciByUser, ciOverlap>> /\ ciIndex' = ciIndex
        /\ ciMode' \in {0, ciMode}
        /\ ciRows' = ciIndex \/ (ciRows' = ciRows /\ ciUnseen' = ciUnseen)
    BY DEF CiSaveKey, CiDeleteKey, CiUiFinishKey, CiUiFails, CiRefresh, ciTaskVars, ciKeyVars, ciFormVars,
           ciPageVars, ciStoreVars, ciIssueVars
  <1>2. CiTyped /\ CiKeysKept
    BY DEF CiInv
  <1> DEFINE Done == /\ ciUi.op # "dir" /\ ciUi' \in CiUiStates /\ ciUi'.read = <<>>
                     /\ ciUi'.op \in {"idle", "provider", "secret"}
                     /\ ciProviders' \subseteq CiKeys /\ ciSecrets' \subseteq CiKeys /\ CiKeysKept'
  <1>3. Done
    <2>1. ASSUME NEW k \in CiKeys, CiSaveKey(k) PROVE Done
      <3>1. ciUi' = [CiIdle EXCEPT !.op = "provider", !.arg = k] /\ ciUi = CiIdle
            /\ ciSecrets' = ciSecrets \cup {k} /\ ciProviders' = ciProviders
        BY <2>1 DEF CiSaveKey
      <3>2. ciUi' \in CiUiStates /\ ciUi'.op = "provider" /\ ciUi'.arg = k /\ ciUi'.read = <<>>
        BY <3>1, CiIdleWith
      <3> QED
        BY <1>2, <3>1, <3>2, CiIdleIs DEF CiKeysKept, CiTyped
    <2>2. ASSUME NEW k \in CiKeys, CiDeleteKey(k) PROVE Done
      <3>1. ciUi' = [CiIdle EXCEPT !.op = "secret", !.arg = k] /\ ciUi = CiIdle
            /\ ciSecrets' = ciSecrets /\ ciProviders' = ciProviders \ {k}
        BY <2>2 DEF CiDeleteKey
      <3>2. ciUi' \in CiUiStates /\ ciUi'.op = "secret" /\ ciUi'.arg = k /\ ciUi'.read = <<>>
        BY <3>1, CiIdleWith
      <3> QED
        BY <1>2, <3>1, <3>2, CiIdleIs DEF CiKeysKept, CiTyped
    <2>3. CASE CiUiFinishKey
      <3>1. ciUi' = CiIdle
        BY <2>3 DEF CiUiFinishKey
      <3>2. CASE /\ ciUi.op = "provider"
                 /\ ciProviders' = ciProviders \cup {ciUi.arg} /\ ciSecrets' = ciSecrets \cup {ciUi.arg}
        BY <1>2, <3>1, <3>2, CiIdleIs DEF CiKeysKept, CiTyped
      <3>3. CASE /\ ciUi.op = "secret" /\ ciSecrets' = ciSecrets \ {ciUi.arg} /\ ciProviders' = ciProviders
        BY <1>2, <3>1, <3>3, CiIdleIs DEF CiKeysKept, CiTyped
      <3> QED
        BY <2>3, <3>2, <3>3 DEF CiUiFinishKey
    <2>4. CASE CiUiFails
      BY <1>2, <2>4, CiIdleIs DEF CiUiFails, CiKeysKept, CiTyped, ciKeyVars
    <2> QED
      BY <2>1, <2>2, <2>3, <2>4
  <1>4. ciMode' \in 0..2
    BY <1>1, <1>2 DEF CiTyped
  <1>5. CiTyped' /\ CiListsGood' /\ CiFilesKept' /\ CiRecordsKept'
    BY <1>1, <1>3, <1>4, CiPageHandler
  <1>6. CiOneIssue' /\ CiPlaces'
    BY <1>1, <1>3, CiOneIssueSame, CiPlacesSame
  <1> QED
    BY <1>3, <1>5, <1>6 DEF CiInv

LEMMA CiDeleteCertInv == ASSUME CiInv, NEW c \in CiCerts, CiDeleteCert(c) PROVE CiInv'
  <1>1. CiTyped /\ CiListsGood /\ CiFilesKept /\ CiKeysKept
    BY DEF CiInv
  <1>2. /\ UNCHANGED <<ciPc, ciLeft, ciPend, ciTxt, ciOut, ciRead, ciDebris>>
        /\ UNCHANGED <<ciIndex, ciFiles, ciStale, ciGone, ciProviders, ciSecrets>>
        /\ UNCHANGED <<ciForm, ciMeant, ciMoved, ciUsed, ciMode, ciRows, ciUnseen>>
        /\ UNCHANGED <<ciIssuing, ciNow, ciByUser, ciOverlap>>
    BY DEF CiDeleteCert, ciTaskVars, ciStoreVars, ciKeyVars, ciFormVars, ciPageVars, ciIssueVars
  <1>3. /\ ciUi = CiIdle /\ c \in CiListed(ciIndex) /\ c # ciUsed
        /\ ciUi' = [op |-> "index", arg |-> c, read |-> ciIndex]
    BY DEF CiDeleteCert
  <1>4. /\ ciUi' \in CiUiStates /\ ciUi'.op = "index" /\ ciUi'.arg = c /\ ciUi'.read = ciIndex
    BY <1>1, <1>3 DEF CiUiStates, CiTyped
  <1>5. CiRecordsKept' /\ CiPast' = CiPast
    BY <1>2, CiTaskVarsSame
  <1>6. CiTyped'
    BY <1>1, <1>2, <1>4 DEF CiTyped
  <1>7. CiListsGood'
    BY <1>1, <1>2, <1>3, <1>4, <1>5 DEF CiListsGood, CiGoodList
  <1>8. CiFilesKept'
    BY <1>1, <1>2, <1>4 DEF CiFilesKept
  <1>9. CiKeysKept'
    BY <1>1, <1>2, <1>4 DEF CiKeysKept
  <1>10. CiOneIssue' /\ CiPlaces'
    BY <1>2, <1>3, CiIdleIs, CiOneIssueSame, CiPlacesSame
  <1> QED
    BY <1>5, <1>6, <1>7, <1>8, <1>9, <1>10 DEF CiInv

LEMMA CiUiSaveIndexInv == ASSUME CiInv, CiUiSaveIndex PROVE CiInv'
  <1>1. CiTyped /\ CiListsGood /\ CiFilesKept /\ CiKeysKept
    BY DEF CiInv
  <1>2. /\ UNCHANGED <<ciPc, ciLeft, ciPend, ciTxt, ciOut, ciRead, ciDebris>>
        /\ UNCHANGED <<ciFiles, ciProviders, ciSecrets, ciForm, ciMeant, ciUsed, ciMode, ciRows, ciUnseen>>
        /\ UNCHANGED <<ciIssuing, ciNow, ciByUser, ciOverlap>>
    BY DEF CiUiSaveIndex, ciTaskVars, ciKeyVars, ciPageVars, ciIssueVars
  <1>3. /\ ciUi.op = "index" /\ ciUi' = [ciUi EXCEPT !.op = "dir"]
        /\ ciIndex' = CiWithout(ciUi.read, ciUi.arg)
        /\ ciStale' = (ciStale \/ ciUi.read # ciIndex)
        /\ ciMoved' = (ciMoved \/ ciForm # 0) /\ ciGone' = ciGone \cup {ciUi.arg}
    BY DEF CiUiSaveIndex
  <1>4. /\ ciUi' \in CiUiStates /\ ciUi'.op = "dir" /\ ciUi'.arg = ciUi.arg /\ ciUi'.read = ciUi.read
    BY <1>1, <1>3 DEF CiUiStates, CiTyped
  <1>5. CiRecordsKept' /\ CiPast' = CiPast
    BY <1>2, CiTaskVarsSame
  <1>6. /\ ciUi.read \in Seq(CiCerts) /\ CiOnce(ciUi.read) /\ CiListed(ciUi.read) \subseteq CiPast
        /\ ciUi.arg \in CiPast /\ ciUi.arg # ciUsed
    BY <1>1, <1>3 DEF CiTyped, CiUiStates, CiListsGood, CiGoodList
  <1>7. PICK s, c : s = ciUi.read /\ c = ciUi.arg
    OBVIOUS
  <1>8. PICK w : w = CiWithout(s, c)
    OBVIOUS
  <1>9. w \in Seq(CiCerts) /\ CiOnce(w) /\ CiListed(w) = CiListed(s) \ {c}
    BY <1>6, <1>7, <1>8, CiWithoutIs
  <1>10. ciIndex' = w
    BY <1>3, <1>7, <1>8
  <1>11. CiTyped'
    BY <1>1, <1>2, <1>4, <1>9, <1>10 DEF CiTyped
  <1>12. CiGoodList(ciIndex)'
    BY <1>5, <1>6, <1>7, <1>9, <1>10 DEF CiGoodList
  <1>13. CiListsGood'
    BY <1>1, <1>2, <1>4, <1>5, <1>6, <1>12 DEF CiListsGood, CiGoodList
  <1>14. CiFilesKept'
    <2>1. CASE ciStale \/ ciUi.read # ciIndex
      BY <1>3, <2>1 DEF CiFilesKept
    <2>2. CASE ~ciStale /\ ciUi.read = ciIndex
      <3>1. CiListed(ciIndex') = CiListed(ciIndex) \ {ciUi.arg}
        BY <1>7, <1>9, <1>10, <2>2
      <3>2. CiListed(ciIndex') \subseteq ciFiles'
        BY <1>1, <1>2, <2>2, <3>1 DEF CiFilesKept
      <3>3. \A u \in CiTasks : /\ ciPc'[u] \in {"index", "save"} => u \in ciFiles'
                               /\ ciOut'[u] = "ok" => u \in CiListed(ciIndex') \cup ciGone'
        BY <1>1, <1>2, <1>3, <2>2, <3>1 DEF CiFilesKept
      <3>4. ciUi'.op = "dir" => ciUi'.arg \notin CiListed(ciIndex')
        BY <1>4, <3>1
      <3>5. ciUsed' = CiNone \/ ciUsed' \in CiListed(ciIndex')
        BY <1>1, <1>2, <1>6, <2>2, <3>1 DEF CiFilesKept
      <3> QED
        BY <3>2, <3>3, <3>4, <3>5 DEF CiFilesKept
    <2> QED
      BY <2>1, <2>2
  <1>15. CiKeysKept'
    BY <1>1, <1>2, <1>4 DEF CiKeysKept
  <1>16. CiOneIssue'
    BY <1>2, CiOneIssueSame
  <1>17. CiPlaces'
    BY <1>2, <1>3, <1>4 DEF CiPlaces
  <1> QED
    BY <1>5, <1>11, <1>13, <1>14, <1>15, <1>16, <1>17 DEF CiInv

LEMMA CiUiRemoveDirInv == ASSUME CiInv, CiUiRemoveDir PROVE CiInv'
  <1>1. CiTyped /\ CiListsGood /\ CiFilesKept /\ CiKeysKept
    BY DEF CiInv
  <1>2. /\ UNCHANGED <<ciPc, ciLeft, ciPend, ciTxt, ciOut, ciRead, ciDebris>>
        /\ UNCHANGED <<ciIndex, ciStale, ciGone, ciProviders, ciSecrets>>
        /\ UNCHANGED <<ciForm, ciMeant, ciMoved, ciUsed, ciMode>>
        /\ UNCHANGED <<ciIssuing, ciNow, ciByUser, ciOverlap>>
        /\ ciRows' = ciIndex
    BY DEF CiUiRemoveDir, CiRefresh, ciTaskVars, ciKeyVars, ciFormVars, ciIssueVars
  <1>3. /\ ciUi.op = "dir" /\ ciUi' = CiIdle /\ ciFiles' = ciFiles \ {ciUi.arg}
    BY DEF CiUiRemoveDir
  <1>4. ciUi' \in CiUiStates /\ ciUi'.op = "idle" /\ ciUi'.read = <<>>
    BY <1>3, CiIdleIs
  <1>5. CiRecordsKept' /\ CiPast' = CiPast
    BY <1>2, CiTaskVarsSame
  <1>6. CiTyped'
    BY <1>1, <1>2, <1>3, <1>4 DEF CiTyped
  <1>7. CiGoodList(ciUi.read)'
    BY <1>4 DEF CiGoodList, CiOnce, CiListed
  <1>8. CiListsGood'
    BY <1>1, <1>2, <1>4, <1>5, <1>7 DEF CiListsGood, CiGoodList
  <1>9. CiFilesKept'
    <2>1. CASE ciStale
      BY <1>2, <2>1 DEF CiFilesKept
    <2>2. CASE ~ciStale
      <3>1. ciUi.arg \in CiPast /\ ciUi.arg \notin CiListed(ciIndex)
        BY <1>1, <1>3, <2>2 DEF CiListsGood, CiFilesKept
      <3>2. \A u \in CiTasks : ciPc[u] \in {"index", "save"} => u # ciUi.arg
        BY <3>1, CiAssumptions DEF CiPast
      <3> QED
        BY <1>1, <1>2, <1>3, <1>4, <2>2, <3>1, <3>2 DEF CiFilesKept
    <2> QED
      BY <2>1, <2>2
  <1>10. CiKeysKept'
    BY <1>1, <1>2, <1>4 DEF CiKeysKept
  <1>11. CiOneIssue' /\ CiPlaces'
    BY <1>2, CiOneIssueSame, CiPlacesSame
  <1> QED
    BY <1>5, <1>6, <1>8, <1>9, <1>10, <1>11 DEF CiInv

LEMMA CiTunnelHandlersInv ==
  ASSUME CiInv, (\E i \in 1..Cardinality(CiCerts) : CiChoose(i)) \/ CiFillForm \/ CiSaveTunnel
  PROVE  CiInv'
  <1>1. CiTyped /\ CiListsGood /\ CiFilesKept /\ CiKeysKept /\ CiPlaces
    BY DEF CiInv
  <1>2. /\ UNCHANGED <<ciPc, ciLeft, ciPend, ciTxt, ciOut, ciRead, ciDebris>>
        /\ UNCHANGED <<ciIndex, ciFiles, ciStale, ciGone, ciProviders, ciSecrets>>
        /\ UNCHANGED <<ciMode, ciRows, ciUnseen>>
        /\ UNCHANGED <<ciIssuing, ciNow, ciByUser, ciOverlap>>
        /\ ciUi' = ciUi /\ ciUi = CiIdle
    BY DEF CiChoose, CiFillForm, CiSaveTunnel, ciTaskVars, ciStoreVars, ciKeyVars, ciPageVars, ciIssueVars
  <1>3. ciUi.op = "idle"
    BY <1>2, CiIdleIs
  <1>4. ciUsed' = ciUsed \/ ciUsed' = CiNone \/ ciUsed' \in CiListed(ciIndex)
    <2>1. CASE CiSaveTunnel
      BY <2>1 DEF CiSaveTunnel, CiListed
    <2> QED
      BY <2>1 DEF CiChoose, CiFillForm
  <1>5. CiListed(ciIndex) \subseteq CiCerts
    BY <1>1, ElementOfSeq, LenProperties DEF CiTyped, CiListed
  <1>6. CiRecordsKept' /\ CiPast' = CiPast
    BY <1>2, CiTaskVarsSame
  <1>7. CiTyped'
    BY <1>1, <1>2, <1>4, <1>5 DEF CiTyped
  <1>8. CiListsGood'
    BY <1>1, <1>2, <1>3, <1>6 DEF CiListsGood, CiGoodList
  <1>9. CiFilesKept'
    BY <1>1, <1>2, <1>4 DEF CiFilesKept
  <1>10. CiKeysKept'
    BY <1>1, <1>2 DEF CiKeysKept
  <1>11. CiOneIssue'
    BY <1>2, CiOneIssueSame
  <1>12. CiPlaces'
    <2>1. (ciUnseen \/ ciUi.op = "dir" \/ ciRows = ciIndex)'
      BY <1>1, <1>2 DEF CiPlaces
    <2>2. ASSUME NEW i \in 1..Cardinality(CiCerts), CiChoose(i) PROVE CiPlaces'
      <3>1. ciForm' = i /\ ciMeant' = ciRows[i] /\ ciMoved' = ciUnseen /\ i \in DOMAIN ciRows
        BY <2>2 DEF CiChoose
      <3>2. CASE ciUnseen
        BY <2>1, <3>1, <3>2 DEF CiPlaces
      <3>3. CASE ciRows = ciIndex
        BY <1>2, <2>1, <3>1, <3>3 DEF CiPlaces
      <3> QED
        BY <1>1, <1>3, <3>2, <3>3 DEF CiPlaces
    <2>3. CASE CiFillForm
      BY <1>2, <2>1, <2>3 DEF CiPlaces, CiFillForm
    <2>4. CASE CiSaveTunnel
      BY <2>1, <2>4 DEF CiPlaces, CiSaveTunnel
    <2> QED
      BY <2>2, <2>3, <2>4
  <1> QED
    BY <1>6, <1>7, <1>8, <1>9, <1>10, <1>11, <1>12 DEF CiInv

LEMMA CiShowResultInv == ASSUME CiInv, NEW t \in CiTasks, CiShowResult(t) PROVE CiInv'
  <1>1. CiTyped /\ CiListsGood /\ CiFilesKept /\ CiKeysKept /\ CiRecordsKept /\ CiOneIssue
    BY DEF CiInv
  <1>2. /\ UNCHANGED <<ciPend, ciTxt, ciRead, ciDebris>>
        /\ UNCHANGED <<ciIndex, ciFiles, ciStale, ciGone, ciProviders, ciSecrets>>
        /\ UNCHANGED <<ciForm, ciUsed, ciMeant, ciMoved, ciNow, ciByUser, ciOverlap, ciUi>>
    BY DEF CiShowResult, ciStoreVars, ciKeyVars, ciFormVars, ciIssueVars
  <1>3. /\ ciPc[t] = "posted" /\ ciPc' = [ciPc EXCEPT ![t] = "applied"]
        /\ ciLeft' = [ciLeft EXCEPT ![t] = 0]
        /\ ciOut' = [ciOut EXCEPT ![t] = IF @ = "ok" THEN "ok" ELSE CiNone]
    BY DEF CiShowResult
  <1>4. /\ ciPc' \in [CiTasks -> CiPcs] /\ ciLeft' \in [CiTasks -> Nat]
        /\ ciPc'[t] = "applied"
        /\ \A u \in CiTasks \ {t} : ciPc'[u] = ciPc[u] /\ ciLeft'[u] = ciLeft[u]
    BY <1>1, <1>3 DEF CiTyped, CiPcs
  <1>5. PICK o \in {"ok", CiNone} : ciOut' = [ciOut EXCEPT ![t] = o] /\ (o = "ok" => ciOut[t] = "ok")
    <2>1. CASE ciOut[t] = "ok"
      BY <1>3, <2>1
    <2>2. CASE ciOut[t] # "ok"
      BY <1>3, <2>2, CiAssumptions
    <2> QED
      BY <2>1, <2>2
  <1>6. ciOut' \in [CiTasks -> CiOuts] /\ \A u \in CiTasks : ciOut'[u] = "ok" => ciOut[u] = "ok"
    BY <1>1, <1>5 DEF CiTyped, CiOuts
  <1>7. \/ ciCancel /\ ~ciIssuing /\ UNCHANGED <<ciMode, ciIssuing, ciRows, ciUnseen>>
        \/ /\ ciIssuing' = FALSE /\ ciMode' \in {0, ciMode}
           /\ ciRows' = ciIndex \/ (ciRows' = ciRows /\ ciUnseen' = ciUnseen)
    <2>1. CASE ciCancel /\ ~ciIssuing
      BY <2>1 DEF CiShowResult, ciPageVars
    <2>2. CASE ~(ciCancel /\ ~ciIssuing)
      BY <1>2, <2>2 DEF CiShowResult, CiRefresh
    <2> QED
      BY <2>1, <2>2
  <1>8. CiTyped'
    BY <1>1, <1>2, <1>4, <1>6, <1>7 DEF CiTyped
  <1>9. CiPast' = CiPast
    BY <1>3, <1>4 DEF CiPast
  <1>10. CiListsGood'
    BY <1>1, <1>2, <1>9 DEF CiListsGood, CiGoodList
  <1>11. CiFilesKept'
    <2>1. \A u \in CiTasks : ciPc'[u] \in {"index", "save"} => ciPc[u] \in {"index", "save"}
      BY <1>4
    <2> QED
      BY <1>1, <1>2, <1>6, <2>1 DEF CiFilesKept
  <1>12. CiRecordsKept'
    <2> SUFFICES ASSUME NEW u \in CiTasks
                 PROVE  /\ ciPend'[u] <= ciTxt'[u] /\ ciTxt'[u] <= CiRecords
                        /\ ciTxt'[u] = ciPend'[u] \/ ciDebris'
                        /\ ciPc'[u] \in {"unused", "start", "write"} => ciTxt'[u] + ciLeft'[u] <= CiRecords
                        /\ ciPc'[u] \in {"unused", "start"} => ciTxt'[u] = 0
                        /\ ciPc'[u] \in {"posted", "applied"} => ciPend'[u] = 0
      BY DEF CiRecordsKept
    <2>1. CASE u = t
      BY <1>1, <1>2, <1>3, <1>4, <2>1 DEF CiRecordsKept
    <2>2. CASE u # t
      BY <1>1, <1>2, <1>4, <2>2 DEF CiRecordsKept
    <2> QED
      BY <2>1, <2>2
  <1>13. CiKeysKept'
    BY <1>1, <1>2 DEF CiKeysKept
  <1>14. CiOneIssue'
    <2>1. CASE ciOverlap
      BY <1>2, <2>1 DEF CiOneIssue
    <2>2. CASE ~ciOverlap
      <3>1. t \in CiRunning /\ CiRunning' = CiRunning \ {t}
        BY <1>3, <1>4 DEF CiRunning
      <3>2. CiRunning' = {}
        BY <1>1, <2>2, <3>1 DEF CiOneIssue
      <3>3. ~ciIssuing'
        BY <1>7
      <3> QED
        BY <3>2, <3>3 DEF CiOneIssue
    <2> QED
      BY <2>1, <2>2
  <1>15. CiPlaces'
    BY <1>2, <1>7, CiPlacesSame
  <1> QED
    BY <1>8, <1>10, <1>11, <1>12, <1>13, <1>14, <1>15 DEF CiInv

LEMMA CiSubmitInv == ASSUME CiInv, NEW t \in CiTasks, NEW k \in CiKeys, CiSubmit(t, k) PROVE CiInv'
  <1>1. CiTyped /\ CiListsGood /\ CiFilesKept /\ CiKeysKept /\ CiRecordsKept /\ CiOneIssue
    BY DEF CiInv
  <1>2. /\ UNCHANGED <<ciLeft, ciPend, ciTxt, ciOut, ciRead, ciDebris>>
        /\ UNCHANGED <<ciIndex, ciFiles, ciStale, ciGone, ciProviders, ciSecrets>>
        /\ UNCHANGED <<ciForm, ciUsed, ciMeant, ciMoved, ciMode, ciRows, ciUnseen, ciUi>>
    BY DEF CiSubmit, ciStoreVars, ciKeyVars, ciFormVars
  <1>3. /\ ciPc[t] = "unused" /\ ciPc' = [ciPc EXCEPT ![t] = "start"]
        /\ ciIssuing' = TRUE /\ ciNow' = t /\ ciByUser' = FALSE
        /\ ciOverlap' = (ciOverlap \/ CiRunning # {})
    BY DEF CiSubmit
  <1>4. /\ ciPc' \in [CiTasks -> CiPcs] /\ ciPc'[t] = "start"
        /\ \A u \in CiTasks \ {t} : ciPc'[u] = ciPc[u]
    BY <1>1, <1>3 DEF CiTyped, CiPcs
  <1>5. CiTyped'
    BY <1>1, <1>2, <1>4 DEF CiTyped
  <1>6. CiPast' = CiPast
    BY <1>3, <1>4 DEF CiPast
  <1>7. CiListsGood'
    BY <1>1, <1>2, <1>6 DEF CiListsGood, CiGoodList
  <1>8. CiFilesKept'
    <2>1. \A u \in CiTasks : ciPc'[u] \in {"index", "save"} => ciPc[u] \in {"index", "save"}
      BY <1>4
    <2> QED
      BY <1>1, <1>2, <2>1 DEF CiFilesKept
  <1>9. CiRecordsKept'
    <2> SUFFICES ASSUME NEW u \in CiTasks
                 PROVE  /\ ciPend'[u] <= ciTxt'[u] /\ ciTxt'[u] <= CiRecords
                        /\ ciTxt'[u] = ciPend'[u] \/ ciDebris'
                        /\ ciPc'[u] \in {"unused", "start", "write"} => ciTxt'[u] + ciLeft'[u] <= CiRecords
                        /\ ciPc'[u] \in {"unused", "start"} => ciTxt'[u] = 0
                        /\ ciPc'[u] \in {"posted", "applied"} => ciPend'[u] = 0
      BY DEF CiRecordsKept
    <2>1. CASE u = t
      BY <1>1, <1>2, <1>3, <1>4, <2>1 DEF CiRecordsKept
    <2>2. CASE u # t
      BY <1>1, <1>2, <1>4, <2>2 DEF CiRecordsKept
    <2> QED
      BY <2>1, <2>2
  <1>10. CiKeysKept'
    BY <1>1, <1>2 DEF CiKeysKept
  <1>11. CiOneIssue'
    <2>1. CASE ciOverlap \/ CiRunning # {}
      BY <1>3, <2>1 DEF CiOneIssue
    <2>2. CASE CiRunning = {}
      <3>1. CiRunning' = {t}
        BY <1>4, <2>2 DEF CiRunning
      <3> QED
        BY <1>3, <3>1 DEF CiOneIssue
    <2> QED
      BY <2>1, <2>2
  <1>12. CiPlaces'
    BY <1>2, CiPlacesSame
  <1> QED
    BY <1>5, <1>7, <1>8, <1>9, <1>10, <1>11, <1>12 DEF CiInv

LEMMA CiCrashInv == ASSUME CiInv, CiCrash PROVE CiInv'
  <1>1. CiTyped /\ CiListsGood /\ CiFilesKept /\ CiKeysKept /\ CiRecordsKept
    BY DEF CiInv
  <1>2. /\ UNCHANGED <<ciTxt, ciIndex, ciFiles, ciStale, ciGone, ciProviders, ciSecrets, ciUsed>>
        /\ ciIssuing' = FALSE /\ ciMode' = 0 /\ ciUi' = CiIdle /\ ciForm' = 0 /\ ciRows' = ciIndex
    BY DEF CiCrash, CiRefresh, ciStoreVars, ciKeyVars
  <1>3. /\ ciPc' = [t \in CiTasks |-> IF t \in CiRunning THEN "applied" ELSE ciPc[t]]
        /\ ciDebris' = (ciDebris \/ \E t \in CiRunning : ciTxt[t] > 0)
        /\ ciPend' = [t \in CiTasks |-> 0]
        /\ ciRead' = [t \in CiTasks |-> <<>>]
        /\ ciLeft' = [t \in CiTasks |-> IF t \in CiRunning THEN 0 ELSE ciLeft[t]]
        /\ ciOut' = [t \in CiTasks |-> IF ciOut[t] = "ok" THEN "ok" ELSE CiNone]
    BY DEF CiCrash
  <1>4. /\ ciPc' \in [CiTasks -> CiPcs]
        /\ \A u \in CiTasks : ciPc'[u] = IF u \in CiRunning THEN "applied" ELSE ciPc[u]
    BY <1>1, <1>3 DEF CiTyped, CiPcs
  <1>5. /\ ciLeft' \in [CiTasks -> Nat]
        /\ \A u \in CiTasks : ciLeft'[u] = IF u \in CiRunning THEN 0 ELSE ciLeft[u]
    BY <1>1, <1>3 DEF CiTyped
  <1>6. /\ ciOut' \in [CiTasks -> CiOuts]
        /\ \A u \in CiTasks : ciOut'[u] = "ok" => ciOut[u] = "ok"
    BY <1>1, <1>3, CiAssumptions DEF CiTyped, CiOuts
  <1>7. ciUi' \in CiUiStates /\ ciUi'.op = "idle" /\ ciUi'.read = <<>>
    BY <1>2, CiIdleIs
  <1>8. <<>> \in Seq(CiCerts) /\ CiGoodList(<<>>)'
    BY DEF CiGoodList, CiOnce, CiListed
  <1>9. ciPend' \in [CiTasks -> Nat] /\ ciRead' \in [CiTasks -> Seq(CiCerts)]
    BY <1>3, <1>8
  <1>10. CiTyped'
    BY <1>1, <1>2, <1>4, <1>5, <1>6, <1>7, <1>9 DEF CiTyped
  <1>11. CiPast \subseteq CiPast'
    BY <1>4 DEF CiPast
  <1>12. \A u \in CiTasks : ciRead'[u] = <<>>
    BY <1>3
  <1>13. CiListsGood'
    BY <1>1, <1>2, <1>7, <1>8, <1>11, <1>12 DEF CiListsGood, CiGoodList
  <1>14. \A u \in CiTasks : ciPc'[u] \in {"unused", "applied"}
    BY <1>4 DEF CiRunning
  <1>15. CiFilesKept'
    BY <1>1, <1>2, <1>6, <1>7, <1>14 DEF CiFilesKept
  <1>16. CiRecordsKept'
    <2> SUFFICES ASSUME NEW u \in CiTasks
                 PROVE  /\ ciPend'[u] <= ciTxt'[u] /\ ciTxt'[u] <= CiRecords
                        /\ ciTxt'[u] = ciPend'[u] \/ ciDebris'
                        /\ ciPc'[u] \in {"unused", "start", "write"} => ciTxt'[u] + ciLeft'[u] <= CiRecords
                        /\ ciPc'[u] \in {"unused", "start"} => ciTxt'[u] = 0
                        /\ ciPc'[u] \in {"posted", "applied"} => ciPend'[u] = 0
      BY DEF CiRecordsKept
    <2>1. /\ ciTxt'[u] = ciTxt[u] /\ ciTxt[u] \in Nat /\ ciPend'[u] = 0
          /\ ciTxt[u] <= CiRecords
      BY <1>1, <1>2, <1>3 DEF CiTyped, CiRecordsKept
    <2>2. CASE u \in CiRunning
      <3>1. ciPc'[u] = "applied"
        BY <1>4, <2>2
      <3>2. ciTxt[u] > 0 => ciDebris'
        BY <1>3, <2>2
      <3> QED
        BY <2>1, <3>1, <3>2
    <2>3. CASE u \notin CiRunning
      <3>1. ciPc'[u] = ciPc[u] /\ ciPc[u] \in {"unused", "applied"} /\ ciLeft'[u] = ciLeft[u]
        BY <1>4, <1>5, <2>3 DEF CiRunning
      <3>2. ciDebris => ciDebris'
        BY <1>3
      <3>3. ciTxt[u] = 0 \/ ciDebris
        BY <1>1, <3>1 DEF CiRecordsKept
      <3>4. /\ ciPc[u] = "unused" => ciTxt[u] = 0 /\ ciTxt[u] + ciLeft[u] <= CiRecords
        BY <1>1 DEF CiRecordsKept
      <3> QED
        BY <2>1, <3>1, <3>2, <3>3, <3>4
    <2> QED
      BY <2>2, <2>3
  <1>17. CiKeysKept'
    BY <1>1, <1>2, <1>7 DEF CiKeysKept
  <1>18. CiOneIssue'
    <2>1. CiRunning' = {}
      BY <1>14 DEF CiRunning
    <2> QED
      BY <1>2, <2>1 DEF CiOneIssue
  <1>19. CiPlaces'
    BY <1>2 DEF CiPlaces
  <1> QED
    BY <1>10, <1>13, <1>15, <1>16, <1>17, <1>18, <1>19 DEF CiInv

LEMMA CiNextInv == CiInv /\ [CiNext]_ciVars => CiInv'
  <1> SUFFICES ASSUME CiInv, [CiNext]_ciVars PROVE CiInv'
    OBVIOUS
  <1>1. ASSUME NEW t \in CiTasks, CiTaskStep(t) \/ CiTimeout(t) \/ CiShowResult(t) PROVE CiInv'
    BY <1>1, CiTaskStepInv, CiTimeoutInv, CiShowResultInv
  <1>2. ASSUME NEW t \in CiTasks, NEW k \in CiKeys, CiSubmit(t, k) PROVE CiInv'
    BY <1>2, CiSubmitInv
  <1>3. CASE CiOpenApply \/ CiPage \/ CiOpenKey \/ CiKeyCancel
    BY <1>3, CiModeInv
  <1>4. CASE CiApplyCancel
    BY <1>4, CiApplyCancelInv
  <1>5. CASE CiCrash
    BY <1>5, CiCrashInv
  <1>6. ASSUME NEW c \in CiCerts, CiDeleteCert(c) PROVE CiInv'
    BY <1>6, CiDeleteCertInv
  <1>7. CASE CiUiSaveIndex
    BY <1>7, CiUiSaveIndexInv
  <1>8. CASE CiUiRemoveDir
    BY <1>8, CiUiRemoveDirInv
  <1>9. CASE (\E k \in CiKeys : CiSaveKey(k) \/ CiDeleteKey(k)) \/ CiUiFinishKey \/ CiUiFails
    BY <1>9, CiKeyHandlersInv
  <1>10. CASE (\E i \in 1..Cardinality(CiCerts) : CiChoose(i)) \/ CiFillForm \/ CiSaveTunnel
    BY <1>10, CiTunnelHandlersInv
  <1>11. CASE UNCHANGED ciVars
    <2>1. /\ UNCHANGED <<ciPc, ciLeft, ciPend, ciTxt, ciOut, ciRead, ciDebris, ciStoreVars, ciUsed>>
          /\ UNCHANGED <<ciUi, ciMode, ciProviders, ciSecrets, ciForm, ciMeant, ciMoved, ciRows, ciUnseen>>
          /\ UNCHANGED <<ciIssuing, ciNow, ciByUser, ciOverlap>> /\ ciIndex' = ciIndex
      BY <1>11 DEF ciVars, ciTaskVars, ciKeyVars, ciFormVars, ciPageVars, ciStoreVars, ciIssueVars
    <2>2. CiTyped /\ CiKeysKept
      BY DEF CiInv
    <2>3. CiTyped' /\ CiListsGood' /\ CiFilesKept' /\ CiRecordsKept'
      BY <2>1, <2>2, CiPageHandler DEF CiTyped
    <2>4. CiKeysKept'
      BY <2>1, <2>2 DEF CiKeysKept
    <2>5. CiOneIssue' /\ CiPlaces'
      BY <2>1, CiOneIssueSame, CiPlacesSame
    <2> QED
      BY <2>3, <2>4, <2>5 DEF CiInv
  <1> QED
    BY <1>1, <1>2, <1>3, <1>4, <1>5, <1>6, <1>7, <1>8, <1>9, <1>10, <1>11 DEF CiNext

LEMMA CiInvHolds == CiSpec => []CiInv
  BY CiInitInv, CiNextInv, PTL DEF CiSpec

\* For any number of issues, keys and records: the index, the PEM files, the provider
\* files and the TXT records are complete, whatever is cancelled, times out, fails or is
\* killed, unless two writers of the index overlapped (the store.rs of certificates).
THEOREM CertStoreIsTrue == CiSpec => []CiStoreTrue
  <1>1. CiInv => CiStoreTrue
    <2> SUFFICES ASSUME CiInv PROVE CiStoreTrue
      OBVIOUS
    <2>1. CiTyped /\ CiFilesKept /\ CiRecordsKept /\ CiKeysKept
      BY DEF CiInv
    <2>2. CiListed(ciIndex) \subseteq CiCerts
      BY <2>1, ElementOfSeq, LenProperties DEF CiTyped, CiListed
    <2>3. CiTypeOK
      BY <2>1, <2>2, CiAssumptions DEF CiTypeOK, CiTyped, CiPcs, CiOuts, CiRecordsKept
    <2>4. CiProviderHasSecret /\ CiIndexTrue
      BY <2>1 DEF CiProviderHasSecret, CiKeysKept, CiIndexTrue, CiFilesKept
    <2>5. CiTxtRemoved
      BY <2>1 DEF CiTxtRemoved, CiRecordsKept
    <2>6. CiUsedExists
      BY <2>1 DEF CiUsedExists, CiFilesKept
    <2> QED
      BY <2>3, <2>4, <2>5, <2>6 DEF CiStoreTrue
  <1> QED
    BY <1>1, CiInvHolds, PTL

\* For any number of issues: the page says that an issue is in progress exactly while
\* the last submitted one runs and the user has not cancelled it, unless issues
\* overlapped.
THEOREM DisplayIsTrue == CiSpec => []CiDisplayTrue
  <1>1. CiInv => CiDisplayTrue
    BY DEF CiInv, CiOneIssue, CiDisplayTrue
  <1> QED
    BY <1>1, CiInvHolds, PTL

\* For any number of issues: saving the form of a tunnel takes the certificate the user
\* saw at the chosen place, unless the index changed in between.
THEOREM ChoicesAreHonoured == CiSpec => CiChoiceHonoured
  <1>1. CiInv /\ [CiNext]_ciVars
        => [ciForm # 0 /\ ciForm' = 0 /\ ciUsed' # ciUsed => ciUsed' = ciMeant \/ ciMoved]_ciVars
    <2> SUFFICES ASSUME CiInv, CiNext, ciForm # 0, ciForm' = 0, ciUsed' # ciUsed
                 PROVE  ciUsed' = ciMeant \/ ciMoved
      OBVIOUS
    <2>1. CASE CiSaveTunnel
      BY <2>1 DEF CiInv, CiPlaces, CiSaveTunnel
    <2>2. CASE ~CiSaveTunnel
      BY <2>2 DEF CiNext, CiTaskStep, CiPrepare, CiWriteTxt, CiPoll, CiWriteFiles, CiReadIndex, CiSaveIndex,
                  CiCleanup, CiTimeout, CiShowResult, CiSubmit, CiOpenApply, CiApplyCancel, CiPage,
                  CiCrash, CiDeleteCert, CiUiSaveIndex, CiUiRemoveDir, CiUiFails, CiSaveKey, CiDeleteKey,
                  CiOpenKey, CiKeyCancel, CiUiFinishKey, CiChoose, CiFillForm, ciFormVars
    <2> QED
      BY <2>1, <2>2
  <1> QED
    BY <1>1, CiInvHolds, PTL DEF CiSpec, CiChoiceHonoured

-----------------------------------------------------------------------------
(* DesktopApp, for any tunnels, definitions, servers, saves and stops.     *)

DkHosts == DkServers \cup {DkDefault}
DkConfigs(D) == [server : DkHosts, sni : DkHosts \cup {DkNone}, id : DkIds \cup {DkNone},
                 tunnels : Seq([name : DkNames, def : D])]
DkPageRow == [name : DkNames, pad : BOOLEAN, def : DkDefs, remote : DkDefs \cup {DkNone}]

DkTyped ==
    /\ dkFile \in DkConfigs(DkDefs \cup DkOdd) \cup {DkNone, DkTorn}
    /\ dkFields \in [server : DkHosts, sni : DkHosts \cup {DkNone}]
    /\ dkRows \in Seq(DkPageRow)
    /\ dkStatus \in {"stopped", "starting", "running", "stopping"}
    /\ dkRun \in DkConfigs(DkDefs) \cup {DkNone}
    /\ dkRemotes \in [DkNames -> DkDefs \cup {DkNone}]
    /\ dkReloads \subseteq [n : 1..dkSaves, cfg : DkConfigs(DkDefs)]
    /\ dkStops \in 0..DkMaxStops /\ dkSaves \in 0..DkMaxSaves

\* There are never more reloads on their way than there were saves.
DkFewReloads == IsFiniteSet(dkReloads) /\ Cardinality(dkReloads) <= dkSaves

\* Rows with one name differ in how it was typed.
DkRowsApart(rows) ==
    \A i \in DOMAIN rows : \A j \in DOMAIN rows :
       rows[i].name = rows[j].name /\ rows[i].pad = rows[j].pad => i = j

\* Before the first start nothing has a remote address.
DkNoRemotes ==
    dkGen0 => /\ dkStatus = "stopped" /\ \A n \in DkNames : dkRemotes[n] = DkNone
              /\ \A i \in DOMAIN dkRows : dkRows[i].remote = DkNone

\* The reload of the last save carries what was saved.
DkReloadsLast == \A r \in dkReloads : r.n = dkSaves => dkFile \in {r.cfg, DkTorn}

\* A client that no reload of the last save is on its way to has the file.
DkFollows ==
    dkStatus \in {"starting", "running"} /\ ~dkApart /\ (\A r \in dkReloads : r.n # dkSaves)
    => dkFile \in {dkRun, DkTorn}

\* Only a second stop leaves a client behind.
DkNoneLeft == dkDouble \/ (~dkOld /\ (dkStatus = "stopped" => dkRun = DkNone))

DkInv == /\ DkTyped /\ DkFewReloads /\ DkRowsApart(dkRows) /\ DkRowsAreFile /\ DkRemotesShown
         /\ DkNoRemotes /\ DkReloadsLast /\ DkFollows /\ DkNoneLeft

-----------------------------------------------------------------------------
(* What the operators on configurations and rows return.                   *)

LEMMA DkTunnelsIs ==
  ASSUME NEW rows \in Seq(DkPageRow)
  PROVE  /\ DkTunnels(rows) \in Seq([name : DkNames, def : DkDefs])
         /\ DOMAIN DkTunnels(rows) = DOMAIN rows
         /\ \A i \in DOMAIN rows : /\ DkTunnels(rows)[i].name = rows[i].name
                                   /\ DkTunnels(rows)[i].def = rows[i].def
                                   /\ DkTunnels(rows)[i] = [name |-> rows[i].name, def |-> rows[i].def]
  <1>1. Len(rows) \in Nat /\ DOMAIN rows = 1..Len(rows)
    BY LenProperties
  <1>2. \A i \in DOMAIN rows : rows[i] \in DkPageRow
    BY <1>1, ElementOfSeq
  <1>3. \A i \in DOMAIN rows : [name |-> rows[i].name, def |-> rows[i].def] \in [name : DkNames, def : DkDefs]
    BY <1>2 DEF DkPageRow
  <1>4. DkTunnels(rows) \in Seq([name : DkNames, def : DkDefs])
    BY <1>1, <1>3 DEF DkTunnels
  <1> QED
    BY <1>4 DEF DkTunnels

LEMMA DkCompleteIs ==
  ASSUME NEW D, NEW c \in DkConfigs(D)
  PROVE  LET k == DkComplete(c)
         IN  /\ k \in DkConfigs(D)
             /\ k.server = c.server /\ k.id = c.id /\ k.tunnels = c.tunnels
             /\ k.sni = IF c.sni = DkNone THEN c.server ELSE c.sni
  <1>1. CASE c.sni = DkNone
    BY <1>1 DEF DkComplete, DkConfigs
  <1>2. CASE c.sni # DkNone
    BY <1>2 DEF DkComplete, DkConfigs
  <1> QED
    BY <1>1, <1>2

LEMMA DkSeqWiden ==
  ASSUME NEW A, NEW B, A \subseteq B, NEW s \in Seq(A)
  PROVE  s \in Seq(B)
  <1>1. Len(s) \in Nat /\ DOMAIN s = 1..Len(s) /\ s = [i \in 1..Len(s) |-> s[i]]
    BY LenProperties
  <1>2. \A i \in 1..Len(s) : s[i] \in B
    BY ElementOfSeq
  <1>3. [i \in 1..Len(s) |-> s[i]] \in Seq(B)
    BY <1>1, <1>2
  <1> QED
    BY <1>1, <1>3

LEMMA DkConfigsWiden ==
  ASSUME NEW c \in DkConfigs(DkDefs)
  PROVE  c \in DkConfigs(DkDefs \cup DkOdd)
  <1>1. PICK T : T = c.tunnels
    OBVIOUS
  <1>2. T \in Seq([name : DkNames, def : DkDefs])
    BY <1>1 DEF DkConfigs
  <1>3. [name : DkNames, def : DkDefs] \subseteq [name : DkNames, def : DkDefs \cup DkOdd]
    OBVIOUS
  <1>4. T \in Seq([name : DkNames, def : DkDefs \cup DkOdd])
    BY <1>2, <1>3, DkSeqWiden
  <1> QED
    BY <1>1, <1>4 DEF DkConfigs

\* There is always an id that no configuration has.
LEMMA DkFreshId ==
  ASSUME DkTyped, DkFewReloads
  PROVE  \E x \in DkIds : x \notin {dkReload.cfg.id : dkReload \in dkReloads}
                                   \cup (IF DkIsConfig(dkFile) THEN {dkFile.id} ELSE {})
                                   \cup (IF dkRun # DkNone THEN {dkRun.id} ELSE {})
  <1> DEFINE R == {dkReload.cfg.id : dkReload \in dkReloads}
             F == IF DkIsConfig(dkFile) THEN {dkFile.id} ELSE {}
             G == IF dkRun # DkNone THEN {dkRun.id} ELSE {}
  <1>1. IsFiniteSet(R) /\ Cardinality(R) <= Cardinality(dkReloads)
    <2> DEFINE f == [dkReload \in dkReloads |-> dkReload.cfg.id]
    <2>1. R = {f[x] : x \in dkReloads}
      OBVIOUS
    <2>2. \A x \in dkReloads : f[x] \in R
      OBVIOUS
    <2>3. f \in Surjection(dkReloads, R)
      BY DEF Surjection
    <2> QED
      BY <2>3, FS_Surjection DEF DkFewReloads
  <1>2. IsFiniteSet(F) /\ Cardinality(F) <= 1
    <2>1. IsFiniteSet({dkFile.id}) /\ Cardinality({dkFile.id}) = 1
      BY FS_Singleton
    <2>2. IsFiniteSet({}) /\ Cardinality({}) = 0
      BY FS_EmptySet
    <2> QED
      BY <2>1, <2>2
  <1>3. IsFiniteSet(G) /\ Cardinality(G) <= 1
    <2>1. IsFiniteSet({dkRun.id}) /\ Cardinality({dkRun.id}) = 1
      BY FS_Singleton
    <2>2. IsFiniteSet({}) /\ Cardinality({}) = 0
      BY FS_EmptySet
    <2> QED
      BY <2>1, <2>2
  <1> HIDE DEF R, F, G
  <1>4. Cardinality(R) \in Nat /\ Cardinality(F) \in Nat /\ Cardinality(G) \in Nat
    BY <1>1, <1>2, <1>3, FS_CardinalityType
  <1>5. /\ IsFiniteSet(R \cup F) /\ Cardinality(R \cup F) \in Nat
        /\ Cardinality(R \cup F) <= Cardinality(R) + 1
    <2>1. IsFiniteSet(R \cup F) /\ Cardinality(R \cup F) = Cardinality(R) + Cardinality(F) - Cardinality(R \cap F)
      BY <1>1, <1>2, FS_Union
    <2>2. Cardinality(R \cap F) \in Nat /\ Cardinality(R \cup F) \in Nat
      BY <1>1, <2>1, FS_Intersection, FS_CardinalityType
    <2> QED
      BY <1>2, <1>4, <2>1, <2>2
  <1>6. /\ IsFiniteSet(R \cup F \cup G) /\ Cardinality(R \cup F \cup G) \in Nat
        /\ Cardinality(R \cup F \cup G) <= Cardinality(R \cup F) + 1
    <2>1. /\ IsFiniteSet(R \cup F \cup G)
          /\ Cardinality(R \cup F \cup G) = Cardinality(R \cup F) + Cardinality(G) - Cardinality((R \cup F) \cap G)
      BY <1>3, <1>5, FS_Union
    <2>2. Cardinality((R \cup F) \cap G) \in Nat /\ Cardinality(R \cup F \cup G) \in Nat
      BY <1>3, <1>5, <2>1, FS_Intersection, FS_CardinalityType
    <2> QED
      BY <1>3, <1>4, <1>5, <2>1, <2>2
  <1>7. Cardinality(dkReloads) <= DkMaxSaves /\ Cardinality(dkReloads) \in Nat
    <2>1. Cardinality(dkReloads) \in Nat
      BY FS_CardinalityType DEF DkFewReloads
    <2> QED
      BY <2>1, DkAssumptions DEF DkFewReloads, DkTyped
  <1>8. Cardinality(R \cup F \cup G) < Cardinality(DkIds)
    <2>1. Cardinality(DkIds) \in Nat
      BY FS_CardinalityType, DkAssumptions
    <2> QED
      BY <1>1, <1>4, <1>5, <1>6, <1>7, <2>1, DkAssumptions
  <1>9. ~(DkIds \subseteq R \cup F \cup G)
    <2> SUFFICES ASSUME DkIds \subseteq R \cup F \cup G PROVE FALSE
      OBVIOUS
    <2>1. Cardinality(DkIds) <= Cardinality(R \cup F \cup G)
      BY <1>6, FS_Subset
    <2>2. Cardinality(DkIds) \in Nat
      BY FS_CardinalityType, DkAssumptions
    <2> QED
      BY <1>6, <1>8, <2>1, <2>2
  <1> QED
    BY <1>9 DEF R, F, G

LEMMA DkEnsureIdIs ==
  ASSUME DkTyped, DkFewReloads, NEW D, NEW c \in DkConfigs(D)
  PROVE  LET k == DkEnsureId(c)
         IN  /\ k \in DkConfigs(D)
             /\ k.server = c.server /\ k.sni = c.sni /\ k.tunnels = c.tunnels
             /\ c.id # DkNone => k = c
  <1>1. CASE c.id # DkNone
    BY <1>1 DEF DkEnsureId
  <1>2. CASE c.id = DkNone
    <2>1. PICK x \in DkIds : DkEnsureId(c) = [c EXCEPT !.id = x]
      BY <1>2, DkFreshId DEF DkEnsureId
    <2> QED
      BY <1>2, <2>1 DEF DkConfigs
  <1> QED
    BY <1>1, <1>2

LEMMA DkEmptyIs ==
  /\ DkEmpty \in DkConfigs(DkDefs) /\ DkEmpty \in DkConfigs(DkDefs \cup DkOdd)
  /\ DkEmpty.server = DkDefault /\ DkEmpty.sni = DkNone /\ DkEmpty.id = DkNone
  <1>1. <<>> \in Seq([name : DkNames, def : DkDefs]) /\ <<>> \in Seq([name : DkNames, def : DkDefs \cup DkOdd])
    OBVIOUS
  <1> QED
    BY <1>1 DEF DkEmpty, DkConfigs, DkHosts

\* A configuration that was made of the file and the rows.
DkMerged(c, rows) ==
    /\ c \in DkConfigs(DkDefs) /\ c.tunnels = DkTunnels(rows)
    /\ DkIsConfig(dkFile) =>
         /\ dkFile.id # DkNone => c.id = dkFile.id
         /\ \/ c.sni = c.server \/ dkFields.sni # DkNone
            \/ c.sni = dkFile.sni /\ c.server = dkFile.server

LEMMA DkMergeTunnelsIs ==
  ASSUME DkInv, NEW rows \in Seq(DkPageRow), DkMergeTunnels(rows) # DkNone
  PROVE  DkMerged(DkMergeTunnels(rows), rows)
  <1>1. DkTyped /\ DkFewReloads
    BY DEF DkInv
  <1>2. PICK base : base = IF dkFile = DkNone THEN [DkEmpty EXCEPT !.server = dkFields.server] ELSE dkFile
    OBVIOUS
  <1>3. PICK T : T = DkTunnels(rows)
    OBVIOUS
  <1>4. T \in Seq([name : DkNames, def : DkDefs])
    BY <1>3, DkTunnelsIs
  <1>5. /\ dkFile = DkNone \/ DkLoads(dkFile)
        /\ DkMergeTunnels(rows) = DkEnsureId(DkComplete([base EXCEPT !.tunnels = T]))
    BY <1>2, <1>3 DEF DkMergeTunnels
  <1>6. base \in DkConfigs(DkDefs \cup DkOdd)
    <2>1. CASE dkFile = DkNone
      BY <1>1, <1>2, <2>1, DkEmptyIs DEF DkTyped, DkConfigs
    <2>2. CASE dkFile # DkNone
      BY <1>1, <1>2, <1>5, <2>2 DEF DkTyped, DkLoads, DkIsConfig
    <2> QED
      BY <2>1, <2>2
  <1>7. PICK b : b = [base EXCEPT !.tunnels = T]
    OBVIOUS
  <1>8. b \in DkConfigs(DkDefs) /\ b.tunnels = T /\ b.server = base.server /\ b.sni = base.sni /\ b.id = base.id
    BY <1>4, <1>6, <1>7 DEF DkConfigs
  <1>9. PICK k : k = DkComplete(b)
    OBVIOUS
  <1>10. /\ k \in DkConfigs(DkDefs) /\ k.server = b.server /\ k.id = b.id /\ k.tunnels = T
         /\ k.sni = IF b.sni = DkNone THEN b.server ELSE b.sni
    BY <1>8, <1>9, DkCompleteIs
  <1>11. PICK e : e = DkEnsureId(k)
    OBVIOUS
  <1>12. /\ e \in DkConfigs(DkDefs) /\ e.server = b.server /\ e.tunnels = T
         /\ e.sni = IF b.sni = DkNone THEN b.server ELSE b.sni
         /\ b.id # DkNone => e.id = b.id
    BY <1>1, <1>10, <1>11, DkEnsureIdIs
  <1>13. DkMergeTunnels(rows) = e
    BY <1>5, <1>7, <1>9, <1>11
  <1>14. DkIsConfig(dkFile) => base = dkFile
    BY <1>2 DEF DkIsConfig
  <1>15. DkIsConfig(dkFile) =>
         /\ dkFile.id # DkNone => e.id = dkFile.id
         /\ e.sni = e.server \/ (e.sni = dkFile.sni /\ e.server = dkFile.server)
    BY <1>8, <1>12, <1>14
  <1> QED
    BY <1>3, <1>12, <1>13, <1>15 DEF DkMerged

LEMMA DkMergeFieldsIs ==
  ASSUME DkInv, DkMergeFields # DkNone
  PROVE  DkMerged(DkMergeFields, dkRows)
  <1>1. DkTyped /\ DkFewReloads
    BY DEF DkInv
  <1>2. PICK base : base = IF dkFile = DkNone THEN DkEmpty ELSE dkFile
    OBVIOUS
  <1>3. PICK T : T = DkTunnels(dkRows)
    OBVIOUS
  <1>4. T \in Seq([name : DkNames, def : DkDefs])
    BY <1>1, <1>3, DkTunnelsIs DEF DkTyped
  <1>5. /\ dkFile = DkNone \/ DkLoads(dkFile)
        /\ DkMergeFields = DkEnsureId(DkComplete([base EXCEPT !.server = dkFields.server,
                                                              !.sni = dkFields.sni,
                                                              !.tunnels = T]))
    BY <1>2, <1>3 DEF DkMergeFields
  <1>6. base \in DkConfigs(DkDefs \cup DkOdd)
    BY <1>1, <1>2, <1>5, DkEmptyIs DEF DkTyped, DkLoads, DkIsConfig
  <1>7. PICK b : b = [base EXCEPT !.server = dkFields.server, !.sni = dkFields.sni, !.tunnels = T]
    OBVIOUS
  <1>8. /\ b \in DkConfigs(DkDefs) /\ b.tunnels = T /\ b.server = dkFields.server
        /\ b.sni = dkFields.sni /\ b.id = base.id
    BY <1>1, <1>4, <1>6, <1>7 DEF DkConfigs, DkTyped
  <1>9. PICK k : k = DkComplete(b)
    OBVIOUS
  <1>10. /\ k \in DkConfigs(DkDefs) /\ k.server = b.server /\ k.id = b.id /\ k.tunnels = T
         /\ k.sni = IF b.sni = DkNone THEN b.server ELSE b.sni
    BY <1>8, <1>9, DkCompleteIs
  <1>11. PICK e : e = DkEnsureId(k)
    OBVIOUS
  <1>12. /\ e \in DkConfigs(DkDefs) /\ e.server = b.server /\ e.tunnels = T
         /\ e.sni = IF b.sni = DkNone THEN b.server ELSE b.sni
         /\ b.id # DkNone => e.id = b.id
    BY <1>1, <1>10, <1>11, DkEnsureIdIs
  <1>13. DkMergeFields = e
    BY <1>5, <1>7, <1>9, <1>11
  <1>14. DkIsConfig(dkFile) => base = dkFile
    BY <1>2 DEF DkIsConfig
  <1>15. DkIsConfig(dkFile) =>
         /\ dkFile.id # DkNone => e.id = dkFile.id
         /\ e.sni = e.server \/ dkFields.sni # DkNone
    BY <1>8, <1>12, <1>14
  <1> QED
    BY <1>3, <1>12, <1>13, <1>15 DEF DkMerged

LEMMA DkSameTunnels ==
  ASSUME NEW a, NEW b, DOMAIN a = DOMAIN b,
         \A i \in DOMAIN a : a[i].name = b[i].name /\ a[i].def = b[i].def
  PROVE  DkTunnels(a) = DkTunnels(b)
  BY DEF DkTunnels

LEMMA DkRowsOfIs ==
  ASSUME NEW c \in DkConfigs(DkDefs \cup DkOdd)
  PROVE  /\ DkRowsOf(c) \in Seq(DkPageRow) /\ DOMAIN DkRowsOf(c) = DOMAIN c.tunnels
         /\ \A i \in DOMAIN c.tunnels : /\ DkRowsOf(c)[i].name = c.tunnels[i].name
                                        /\ DkRowsOf(c)[i].pad = FALSE
                                        /\ DkRowsOf(c)[i].def = DkForm(c.tunnels[i].def)
                                        /\ DkRowsOf(c)[i].remote = DkNone
  <1>1. PICK T : T = c.tunnels
    OBVIOUS
  <1>2. T \in Seq([name : DkNames, def : DkDefs \cup DkOdd])
    BY <1>1 DEF DkConfigs
  <1>3. Len(T) \in Nat /\ DOMAIN T = 1..Len(T)
    BY <1>2, LenProperties
  <1>4. \A i \in DOMAIN T : T[i] \in [name : DkNames, def : DkDefs \cup DkOdd]
    BY <1>2, <1>3, ElementOfSeq
  <1>5. \A i \in DOMAIN T : T[i].name \in DkNames /\ DkForm(T[i].def) \in DkDefs
    BY <1>4, DkAssumptions DEF DkForm
  <1>6. \A i \in DOMAIN T : [name |-> T[i].name, pad |-> FALSE, def |-> DkForm(T[i].def), remote |-> DkNone]
                            \in DkPageRow
    BY <1>5 DEF DkPageRow
  <1>7. DkRowsOf(c) = [i \in 1..Len(T) |->
                         [name |-> T[i].name, pad |-> FALSE, def |-> DkForm(T[i].def), remote |-> DkNone]]
    BY <1>1, <1>3 DEF DkRowsOf
  <1>8. DkRowsOf(c) \in Seq(DkPageRow)
    <2> DEFINE e(i) == [name |-> T[i].name, pad |-> FALSE, def |-> DkForm(T[i].def), remote |-> DkNone]
    <2>1. \A i \in 1..Len(T) : e(i) \in DkPageRow
      BY <1>3, <1>6
    <2>2. DkRowsOf(c) = [i \in 1..Len(T) |-> e(i)]
      BY <1>7
    <2> HIDE DEF e
    <2> QED
      BY <1>3, <2>1, <2>2
  <1> QED
    BY <1>1, <1>3, <1>7, <1>8

\* What was made of rows is shown as those rows.
LEMMA DkShownAgain ==
  ASSUME NEW rows \in Seq(DkPageRow), NEW c \in DkConfigs(DkDefs), c.tunnels = DkTunnels(rows)
  PROVE  DkTunnels(rows) = DkTunnels(DkRowsOf(c))
  <1>1. /\ DOMAIN DkTunnels(rows) = DOMAIN rows
        /\ \A i \in DOMAIN rows : DkTunnels(rows)[i].name = rows[i].name /\ DkTunnels(rows)[i].def = rows[i].def
    BY DkTunnelsIs
  <1>2. \A i \in DOMAIN rows : rows[i].def \in DkDefs
    <2>1. \A i \in DOMAIN rows : rows[i] \in DkPageRow
      BY ElementOfSeq, LenProperties
    <2> QED
      BY <2>1 DEF DkPageRow
  <1>3. \A d \in DkDefs : DkForm(d) = d
    BY DkAssumptions DEF DkForm
  <1>4. /\ DOMAIN DkRowsOf(c) = DOMAIN rows
        /\ \A i \in DOMAIN rows : /\ DkRowsOf(c)[i].name = rows[i].name
                                  /\ DkRowsOf(c)[i].def = DkForm(rows[i].def)
    BY <1>1 DEF DkRowsOf
  <1> QED
    BY <1>2, <1>3, <1>4, DkSameTunnels

LEMMA DkRetainedIs ==
  ASSUME dkRows \in Seq(DkPageRow), NEW rows \in Seq(DkPageRow)
  PROVE  /\ DkRetained(rows) \in Seq(DkPageRow) /\ DOMAIN DkRetained(rows) = DOMAIN rows
         /\ \A i \in DOMAIN rows : /\ DkRetained(rows)[i].name = rows[i].name
                                   /\ DkRetained(rows)[i].pad = rows[i].pad
                                   /\ DkRetained(rows)[i].def = rows[i].def
                                   /\ \/ DkRetained(rows)[i].remote = rows[i].remote
                                      \/ \E p \in DOMAIN dkRows : DkRetained(rows)[i].remote = dkRows[p].remote
  <1>1. Len(rows) \in Nat /\ DOMAIN rows = 1..Len(rows)
    BY LenProperties
  <1>2. \A i \in DOMAIN rows : rows[i] \in DkPageRow
    BY <1>1, ElementOfSeq
  <1>3. \A p \in DOMAIN dkRows : dkRows[p] \in DkPageRow
    BY ElementOfSeq, LenProperties
  <1>4. DOMAIN DkRetained(rows) = DOMAIN rows
    BY DEF DkRetained
  <1>5. ASSUME NEW i \in DOMAIN rows
        PROVE  /\ DkRetained(rows)[i] \in DkPageRow
               /\ DkRetained(rows)[i].name = rows[i].name
               /\ DkRetained(rows)[i].pad = rows[i].pad
               /\ DkRetained(rows)[i].def = rows[i].def
               /\ \/ DkRetained(rows)[i].remote = rows[i].remote
                  \/ \E p \in DOMAIN dkRows : DkRetained(rows)[i].remote = dkRows[p].remote
    <2> DEFINE same == {p \in DOMAIN dkRows : /\ dkRows[p].name = rows[i].name
                                              /\ dkRows[p].pad = rows[i].pad
                                              /\ dkRows[p].def = rows[i].def}
    <2>1. DkRetained(rows)[i] = IF rows[i].remote = DkNone /\ ~DkActive /\ same # {}
                                THEN [rows[i] EXCEPT !.remote = dkRows[CHOOSE p \in same : TRUE].remote]
                                ELSE rows[i]
      BY DEF DkRetained
    <2>2. CASE ~(rows[i].remote = DkNone /\ ~DkActive /\ same # {})
      BY <1>2, <2>1, <2>2
    <2>3. CASE rows[i].remote = DkNone /\ ~DkActive /\ same # {}
      <3>1. PICK p \in DOMAIN dkRows : p = CHOOSE q \in same : TRUE
        BY <2>3
      <3>2. DkRetained(rows)[i] = [rows[i] EXCEPT !.remote = dkRows[p].remote]
        BY <2>1, <2>3, <3>1
      <3> QED
        BY <1>2, <1>3, <3>2 DEF DkPageRow
    <2> QED
      BY <2>2, <2>3
  <1>6. DkRetained(rows) = [i \in 1..Len(rows) |-> DkRetained(rows)[i]]
    BY <1>1, <1>4 DEF DkRetained
  <1>7. DkRetained(rows) \in Seq(DkPageRow)
    BY <1>1, <1>5, <1>6
  <1> QED
    BY <1>4, <1>5, <1>7

\* Rows that may be shown in place of those of the page.
DkRowsFit(rows) ==
    /\ rows \in Seq(DkPageRow) /\ DkRowsApart(rows)
    /\ \A i \in DOMAIN rows : \/ rows[i].remote = DkNone
                              \/ \E p \in DOMAIN dkRows : rows[i].remote = dkRows[p].remote

LEMMA DkAppendFits ==
  ASSUME DkInv, NEW row \in DkFormRows, ~DkNameTaken(row, DOMAIN dkRows)
  PROVE  DkRowsFit(Append(dkRows, row))
  <1>1. dkRows \in Seq(DkPageRow) /\ DkRowsApart(dkRows)
    BY DEF DkInv, DkTyped
  <1>2. row \in DkPageRow /\ row.remote = DkNone
    BY DEF DkFormRows, DkPageRow
  <1>3. PICK a : a = Append(dkRows, row)
    OBVIOUS
  <1>4. Len(dkRows) \in Nat /\ DOMAIN dkRows = 1..Len(dkRows)
    BY <1>1, LenProperties
  <1>5. /\ a \in Seq(DkPageRow) /\ DOMAIN a = 1..(Len(dkRows) + 1) /\ a[Len(dkRows) + 1] = row
        /\ \A i \in DOMAIN dkRows : a[i] = dkRows[i]
    BY <1>1, <1>2, <1>3, <1>4
  <1>6. \A i \in DOMAIN a : i \in DOMAIN dkRows \/ i = Len(dkRows) + 1
    BY <1>4, <1>5
  <1>7. \A i \in DOMAIN dkRows : ~(a[i].name = row.name /\ a[i].pad = row.pad)
    BY <1>5 DEF DkNameTaken
  <1>8. DkRowsApart(a)
    BY <1>1, <1>5, <1>6, <1>7 DEF DkRowsApart
  <1>9. \A i \in DOMAIN a : a[i].remote = DkNone \/ \E p \in DOMAIN dkRows : a[i].remote = dkRows[p].remote
    BY <1>2, <1>5, <1>6
  <1> QED
    BY <1>3, <1>5, <1>8, <1>9 DEF DkRowsFit

LEMMA DkEditFits ==
  ASSUME DkInv, NEW row \in DkFormRows, NEW n \in DOMAIN dkRows, ~DkNameTaken(row, DOMAIN dkRows \ {n})
  PROVE  DkRowsFit([dkRows EXCEPT ![n] = row])
  <1>1. dkRows \in Seq(DkPageRow) /\ DkRowsApart(dkRows)
    BY DEF DkInv, DkTyped
  <1>2. row \in DkPageRow /\ row.remote = DkNone
    BY DEF DkFormRows, DkPageRow
  <1>3. PICK a : a = [dkRows EXCEPT ![n] = row]
    OBVIOUS
  <1>4. /\ a \in Seq(DkPageRow) /\ DOMAIN a = DOMAIN dkRows /\ a[n] = row
        /\ \A i \in DOMAIN dkRows \ {n} : a[i] = dkRows[i]
    BY <1>1, <1>2, <1>3
  <1>5. \A i \in DOMAIN dkRows \ {n} : ~(a[i].name = row.name /\ a[i].pad = row.pad)
    BY <1>4 DEF DkNameTaken
  <1>6. DkRowsApart(a)
    BY <1>1, <1>4, <1>5 DEF DkRowsApart
  <1>7. \A i \in DOMAIN a : a[i].remote = DkNone \/ \E p \in DOMAIN dkRows : a[i].remote = dkRows[p].remote
    BY <1>2, <1>4
  <1> QED
    BY <1>3, <1>4, <1>6, <1>7 DEF DkRowsFit

LEMMA DkRemovedFits ==
  ASSUME DkInv, NEW n \in DOMAIN dkRows
  PROVE  DkRowsFit(SubSeq(dkRows, 1, n - 1) \o SubSeq(dkRows, n + 1, Len(dkRows)))
  <1>1. dkRows \in Seq(DkPageRow) /\ DkRowsApart(dkRows)
    BY DEF DkInv, DkTyped
  <1>2. PICK a, b : a = SubSeq(dkRows, 1, n - 1) /\ b = SubSeq(dkRows, n + 1, Len(dkRows))
    OBVIOUS
  <1>3. Len(dkRows) \in Nat /\ DOMAIN dkRows = 1..Len(dkRows) /\ n \in 1..Len(dkRows)
    BY <1>1, LenProperties
  <1>4. \A i \in 1..Len(dkRows) : dkRows[i] \in DkPageRow
    BY <1>1, ElementOfSeq
  <1>5. /\ a \in Seq(DkPageRow) /\ Len(a) = n - 1 /\ \A i \in 1..(n - 1) : a[i] = dkRows[i]
    BY <1>1, <1>2, <1>3, <1>4
  <1>6. /\ b \in Seq(DkPageRow) /\ Len(b) = Len(dkRows) - n
        /\ \A i \in 1..(Len(dkRows) - n) : b[i] = dkRows[n + i]
    BY <1>1, <1>2, <1>3, <1>4
  <1>7. PICK w : w = a \o b
    OBVIOUS
  <1>8. /\ w \in Seq(DkPageRow) /\ Len(w) = Len(dkRows) - 1
        /\ \A i \in 1..(n - 1) : w[i] = dkRows[i]
        /\ \A i \in n..(Len(dkRows) - 1) : w[i] = dkRows[i + 1]
    <2>1. w \in Seq(DkPageRow) /\ Len(w) = Len(a) + Len(b)
      BY <1>5, <1>6, <1>7, ConcatProperties
    <2>2. \A i \in 1..(n - 1) : w[i] = a[i]
      BY <1>3, <1>5, <1>6, <1>7, ConcatProperties
    <2>3. ASSUME NEW i \in n..(Len(dkRows) - 1) PROVE w[i] = dkRows[i + 1]
      <3>1. i \in Int /\ i > Len(a) /\ i <= Len(a) + Len(b) /\ i - Len(a) = i - (n - 1)
        BY <1>3, <1>5, <1>6
      <3>2. w[i] = b[i - Len(a)]
        BY <1>5, <1>6, <1>7, <3>1, SMTT(30)
      <3>3. i - (n - 1) \in 1..(Len(dkRows) - n) /\ n + (i - (n - 1)) = i + 1
        BY <1>3
      <3> QED
        BY <1>6, <3>1, <3>2, <3>3
    <2> QED
      BY <1>3, <1>5, <1>6, <2>1, <2>2, <2>3
  <1>9. DOMAIN w = 1..(Len(dkRows) - 1)
    BY <1>8, LenProperties
  <1>10. \A i \in DOMAIN w : \E p \in DOMAIN dkRows : /\ w[i] = dkRows[p]
                                                      /\ (i < n /\ p = i) \/ (i >= n /\ p = i + 1)
    <2> SUFFICES ASSUME NEW i \in DOMAIN w
                 PROVE  \E p \in DOMAIN dkRows : w[i] = dkRows[p] /\ ((i < n /\ p = i) \/ (i >= n /\ p = i + 1))
      OBVIOUS
    <2>1. CASE i < n
      BY <1>3, <1>8, <1>9, <2>1
    <2>2. CASE i >= n
      <3>1. i \in n..(Len(dkRows) - 1) /\ i + 1 \in DOMAIN dkRows
        BY <1>3, <1>9, <2>2
      <3> QED
        BY <1>8, <2>2, <3>1
    <2> QED
      BY <1>3, <1>9, <2>1, <2>2
  <1>11. DkRowsApart(w)
    <2> SUFFICES ASSUME NEW i \in DOMAIN w, NEW j \in DOMAIN w, w[i].name = w[j].name, w[i].pad = w[j].pad
                 PROVE  i = j
      BY DEF DkRowsApart
    <2>1. PICK p \in DOMAIN dkRows : w[i] = dkRows[p] /\ ((i < n /\ p = i) \/ (i >= n /\ p = i + 1))
      BY <1>10
    <2>2. PICK q \in DOMAIN dkRows : w[j] = dkRows[q] /\ ((j < n /\ q = j) \/ (j >= n /\ q = j + 1))
      BY <1>10
    <2>3. p = q
      BY <1>1, <2>1, <2>2 DEF DkRowsApart
    <2> QED
      BY <1>3, <1>9, <2>1, <2>2, <2>3
  <1>12. \A i \in DOMAIN w : \E p \in DOMAIN dkRows : w[i].remote = dkRows[p].remote
    BY <1>10
  <1> QED
    BY <1>2, <1>7, <1>8, <1>11, <1>12 DEF DkRowsFit

-----------------------------------------------------------------------------
(* Saving.                                                                 *)

LEMMA DkInitInv == DkInit => DkInv
  <1> SUFFICES ASSUME DkInit PROVE DkInv
    OBVIOUS
  <1>1. <<>> \in Seq(DkPageRow)
    OBVIOUS
  <1>2. DkTyped
    BY <1>1, DkAssumptions DEF DkInit, DkTyped, DkHosts
  <1>3. DkFewReloads
    BY FS_EmptySet DEF DkInit, DkFewReloads
  <1>4. DkRowsApart(dkRows) /\ DkRemotesShown /\ DkNoRemotes
    BY DEF DkInit, DkRowsApart, DkRemotesShown, DkNoRemotes
  <1>5. DkRowsAreFile
    BY DEF DkInit, DkRowsAreFile, DkLoads, DkIsConfig
  <1>6. DkReloadsLast /\ DkFollows /\ DkNoneLeft
    BY DEF DkInit, DkReloadsLast, DkFollows, DkNoneLeft
  <1> QED
    BY <1>2, <1>3, <1>4, <1>5, <1>6 DEF DkInv

\* A configuration made of some rows is written, and rows that look like them are shown.
LEMMA DkWrittenInv ==
  ASSUME DkInv, NEW c, NEW rows \in Seq(DkPageRow), DkMerged(c, rows), DkWritten(c), dkSaves < DkMaxSaves,
         dkRows' \in Seq(DkPageRow), DkRowsApart(dkRows'), DOMAIN dkRows' = DOMAIN rows,
         \A i \in DOMAIN rows : dkRows'[i].name = rows[i].name /\ dkRows'[i].def = rows[i].def,
         dkGen0 => \A i \in DOMAIN dkRows' : dkRows'[i].remote = DkNone,
         dkSeen' => dkGen0 \/ (dkSeen /\ dkRows' = dkRows)
  PROVE  DkInv'
  <1>1. /\ DkTyped /\ DkFewReloads /\ DkRemotesShown /\ DkNoRemotes /\ DkReloadsLast /\ DkFollows /\ DkNoneLeft
    BY DEF DkInv
  <1>2. /\ dkFile' = c /\ dkSaves' = dkSaves + 1 /\ dkFields' = dkFields
        /\ dkStatus' = dkStatus /\ dkRun' = dkRun /\ dkOld' = dkOld /\ dkRemotes' = dkRemotes /\ dkGen0' = dkGen0
        /\ dkStops' = dkStops /\ dkApart' = dkApart /\ dkDouble' = dkDouble
    BY DEF DkWritten, dkHandleVars
  <1>3. PICK r : r = [n |-> dkSaves + 1, cfg |-> c]
    OBVIOUS
  <1>4. \/ dkStatus # "stopped" /\ dkReloads' = dkReloads \cup {r}
        \/ dkStatus = "stopped" /\ dkReloads' = dkReloads
    BY <1>3 DEF DkWritten, DkApply, DkActive
  <1>5. dkSaves \in Nat /\ dkSaves + 1 \in 0..DkMaxSaves /\ DkMaxSaves \in Nat
    BY <1>1, DkAssumptions DEF DkTyped
  <1>6. c \in DkConfigs(DkDefs) /\ c.tunnels = DkTunnels(rows)
    BY DEF DkMerged
  <1>7. c \in DkConfigs(DkDefs \cup DkOdd)
    BY <1>6, DkConfigsWiden
  <1>8. r.n = dkSaves + 1 /\ r.cfg = c /\ r \in [n : 1..(dkSaves + 1), cfg : DkConfigs(DkDefs)]
    BY <1>3, <1>5, <1>6
  <1>9. \A x \in dkReloads : /\ x \in [n : 1..(dkSaves + 1), cfg : DkConfigs(DkDefs)]
                             /\ x.n # dkSaves + 1
    BY <1>1, <1>5 DEF DkTyped
  <1>10. DkTyped'
    <2>1. dkReloads' \subseteq [n : 1..dkSaves', cfg : DkConfigs(DkDefs)]
      BY <1>2, <1>4, <1>8, <1>9
    <2> QED
      BY <1>1, <1>2, <1>5, <1>7, <2>1 DEF DkTyped
  <1>11. DkFewReloads'
    <2>1. IsFiniteSet(dkReloads) /\ Cardinality(dkReloads) \in Nat
      BY <1>1, FS_CardinalityType DEF DkFewReloads
    <2>2. /\ IsFiniteSet(dkReloads \cup {r})
          /\ Cardinality(dkReloads \cup {r}) \in {Cardinality(dkReloads), Cardinality(dkReloads) + 1}
      BY <2>1, FS_AddElement
    <2>3. IsFiniteSet(dkReloads') /\ Cardinality(dkReloads') \in {Cardinality(dkReloads), Cardinality(dkReloads) + 1}
      BY <1>4, <2>1, <2>2
    <2>4. Cardinality(dkReloads) <= dkSaves
      BY <1>1 DEF DkFewReloads
    <2> QED
      BY <1>2, <1>5, <2>1, <2>3, <2>4 DEF DkFewReloads
  <1>12. DkRowsAreFile'
    <2>1. DkTunnels(rows) = DkTunnels(DkRowsOf(c))
      BY <1>6, DkShownAgain
    <2>2. DkTunnels(dkRows') = DkTunnels(rows)
      BY DkSameTunnels
    <2> QED
      BY <1>2, <2>1, <2>2 DEF DkRowsAreFile
  <1>13. DkNoRemotes'
    BY <1>1, <1>2 DEF DkNoRemotes
  <1>14. DkRemotesShown'
    <2>1. CASE dkGen0
      <3>1. \A i \in DOMAIN dkRows' : dkRows'[i].name \in DkNames
        <4>1. \A i \in DOMAIN dkRows' : dkRows'[i] \in DkPageRow
          BY ElementOfSeq, LenProperties
        <4> QED
          BY <4>1 DEF DkPageRow
      <3> QED
        BY <1>2, <1>13, <2>1, <3>1 DEF DkNoRemotes, DkRemotesShown
    <2>2. CASE dkSeen /\ dkRows' = dkRows
      BY <1>1, <1>2, <2>2 DEF DkRemotesShown
    <2>3. CASE ~dkSeen'
      BY <2>3 DEF DkRemotesShown
    <2> QED
      BY <2>1, <2>2, <2>3
  <1>15. DkReloadsLast'
    BY <1>2, <1>4, <1>8, <1>9 DEF DkReloadsLast
  <1>16. DkFollows'
    BY <1>2, <1>4, <1>8 DEF DkFollows
  <1>17. DkNoneLeft'
    BY <1>1, <1>2 DEF DkNoneLeft
  <1> QED
    BY <1>10, <1>11, <1>12, <1>13, <1>14, <1>15, <1>16, <1>17 DEF DkInv

LEMMA DkNotWrittenInv == ASSUME DkInv, DkNotWritten PROVE DkInv'
  <1>1. /\ DkTyped /\ DkFewReloads /\ DkRowsApart(dkRows) /\ DkRowsAreFile /\ DkRemotesShown
        /\ DkNoRemotes /\ DkReloadsLast /\ DkFollows /\ DkNoneLeft
    BY DEF DkInv
  <1>2. /\ dkFile' \in {dkFile, DkTorn}
        /\ UNCHANGED <<dkFields, dkRows, dkSeen, dkStatus, dkRun, dkOld, dkRemotes, dkGen0>>
        /\ UNCHANGED <<dkReloads, dkStops, dkDouble, dkSaves, dkApart>>
    BY DEF DkNotWritten, dkHandleVars, dkTaskVars
  <1>3. DkTyped'
    BY <1>1, <1>2 DEF DkTyped
  <1>4. DkFewReloads' /\ DkRowsApart(dkRows)' /\ DkRemotesShown' /\ DkNoRemotes' /\ DkNoneLeft'
    BY <1>1, <1>2 DEF DkFewReloads, DkRowsApart, DkRemotesShown, DkNoRemotes, DkNoneLeft
  <1>5. DkReloadsLast' /\ DkFollows'
    BY <1>1, <1>2 DEF DkReloadsLast, DkFollows
  <1>6. DkRowsAreFile'
    BY <1>1, <1>2 DEF DkRowsAreFile, DkLoads, DkIsConfig
  <1> QED
    BY <1>3, <1>4, <1>5, <1>6 DEF DkInv

LEMMA DkPersistInv ==
  ASSUME DkInv, NEW rows, DkRowsFit(rows), DkPersistTunnels(rows)
  PROVE  DkInv'
  <1>1. CASE DkNotWritten
    BY <1>1, DkNotWrittenInv
  <1>2. CASE DkWritten(DkMergeTunnels(rows)) /\ dkRows' = DkRetained(rows) /\ dkSeen' = dkGen0
    <2>1. dkSaves < DkMaxSaves /\ DkMergeTunnels(rows) # DkNone
      BY DEF DkPersistTunnels
    <2>2. rows \in Seq(DkPageRow) /\ dkRows \in Seq(DkPageRow) /\ DkNoRemotes
      BY DEF DkRowsFit, DkInv, DkTyped
    <2>3. DkMerged(DkMergeTunnels(rows), rows)
      BY <2>1, <2>2, DkMergeTunnelsIs
    <2>4. /\ dkRows' \in Seq(DkPageRow) /\ DOMAIN dkRows' = DOMAIN rows
          /\ \A i \in DOMAIN rows : /\ dkRows'[i].name = rows[i].name
                                    /\ dkRows'[i].pad = rows[i].pad
                                    /\ dkRows'[i].def = rows[i].def
                                    /\ \/ dkRows'[i].remote = rows[i].remote
                                       \/ \E p \in DOMAIN dkRows : dkRows'[i].remote = dkRows[p].remote
      BY <1>2, <2>2, DkRetainedIs
    <2>5. DkRowsApart(dkRows')
      BY <2>4 DEF DkRowsFit, DkRowsApart
    <2>6. dkGen0 => \A i \in DOMAIN dkRows' : dkRows'[i].remote = DkNone
      BY <2>2, <2>4 DEF DkRowsFit, DkNoRemotes
    <2>7. PICK c : c = DkMergeTunnels(rows)
      OBVIOUS
    <2> QED
      BY <1>2, <2>1, <2>2, <2>3, <2>4, <2>5, <2>6, <2>7, DkWrittenInv
  <1> QED
    BY <1>1, <1>2 DEF DkPersistTunnels

LEMMA DkConfigSaveInv == ASSUME DkInv, DkConfigSave PROVE DkInv'
  <1>1. CASE DkNotWritten
    BY <1>1, DkNotWrittenInv
  <1>2. CASE DkServerSaved(DkMergeFields) /\ dkSeen' = IF DkActive THEN dkGen0 ELSE dkSeen
    <2>1. dkSaves < DkMaxSaves /\ DkMergeFields # DkNone
      BY DEF DkConfigSave
    <2>2. dkRows \in Seq(DkPageRow) /\ DkNoRemotes /\ DkRowsApart(dkRows)
      BY DEF DkInv, DkTyped
    <2>3. DkMerged(DkMergeFields, dkRows)
      BY <2>1, DkMergeFieldsIs
    <2>4. dkRows' = dkRows /\ DkWritten(DkMergeFields)
      BY <1>2 DEF DkServerSaved
    <2>5. PICK rows : rows = dkRows
      OBVIOUS
    <2>6. /\ dkRows' \in Seq(DkPageRow) /\ DkRowsApart(dkRows') /\ DOMAIN dkRows' = DOMAIN rows
          /\ \A i \in DOMAIN rows : dkRows'[i].name = rows[i].name /\ dkRows'[i].def = rows[i].def
      BY <2>2, <2>4, <2>5
    <2>7. dkGen0 => \A i \in DOMAIN dkRows' : dkRows'[i].remote = DkNone
      BY <2>2, <2>4 DEF DkNoRemotes
    <2>8. dkSeen' => dkGen0 \/ (dkSeen /\ dkRows' = dkRows)
      BY <1>2, <2>4
    <2>9. DkMerged(DkMergeFields, rows) /\ rows \in Seq(DkPageRow)
      BY <2>2, <2>3, <2>5
    <2>10. PICK c : c = DkMergeFields
      OBVIOUS
    <2> QED
      BY <2>1, <2>4, <2>6, <2>7, <2>8, <2>9, <2>10, DkWrittenInv
  <1> QED
    BY <1>1, <1>2 DEF DkConfigSave

LEMMA DkFieldsInv ==
  ASSUME DkInv, (\E s \in DkServers : DkTypeServer(s)) \/ DkConfigReset
  PROVE  DkInv'
  <1>1. /\ DkTyped /\ DkFewReloads /\ DkRowsApart(dkRows) /\ DkRowsAreFile /\ DkRemotesShown
        /\ DkNoRemotes /\ DkReloadsLast /\ DkFollows /\ DkNoneLeft
    BY DEF DkInv
  <1>2. /\ UNCHANGED <<dkFile, dkRows, dkSeen, dkStatus, dkRun, dkOld, dkRemotes, dkGen0>>
        /\ UNCHANGED <<dkReloads, dkStops, dkDouble, dkSaves, dkApart>>
    BY DEF DkTypeServer, DkConfigReset, dkHandleVars, dkTaskVars
  <1>3. dkFields' \in [server : DkHosts, sni : DkHosts \cup {DkNone}]
    BY <1>1 DEF DkTypeServer, DkConfigReset, DkTyped, DkHosts
  <1>4. DkTyped'
    BY <1>1, <1>2, <1>3 DEF DkTyped
  <1>5. DkFewReloads' /\ DkRowsApart(dkRows)' /\ DkRemotesShown' /\ DkNoRemotes' /\ DkNoneLeft'
    BY <1>1, <1>2 DEF DkFewReloads, DkRowsApart, DkRemotesShown, DkNoRemotes, DkNoneLeft
  <1>6. DkReloadsLast' /\ DkFollows' /\ DkRowsAreFile'
    BY <1>1, <1>2 DEF DkReloadsLast, DkFollows, DkRowsAreFile
  <1> QED
    BY <1>4, <1>5, <1>6 DEF DkInv

-----------------------------------------------------------------------------
(* The client.  Its steps leave the file, the fields and the tunnels of    *)
(* the rows alone.                                                         *)

\* The parts of the invariant that are about the file and the rows.
LEMMA DkClientFrame ==
  ASSUME DkInv, UNCHANGED <<dkFile, dkFields, dkRows, dkSaves>>, dkReloads' \subseteq dkReloads,
         dkStatus' \in {"stopped", "starting", "running", "stopping"},
         dkRun' \in DkConfigs(DkDefs) \cup {DkNone},
         dkRemotes' \in [DkNames -> DkDefs \cup {DkNone}], dkStops' \in 0..DkMaxStops
  PROVE  DkTyped' /\ DkFewReloads' /\ DkRowsApart(dkRows)' /\ DkRowsAreFile' /\ DkReloadsLast'
  <1>1. DkTyped /\ DkFewReloads /\ DkRowsApart(dkRows) /\ DkRowsAreFile /\ DkReloadsLast
    BY DEF DkInv
  <1>2. DkTyped'
    BY <1>1 DEF DkTyped
  <1>3. DkFewReloads'
    <2>1. IsFiniteSet(dkReloads') /\ Cardinality(dkReloads') <= Cardinality(dkReloads)
      BY <1>1, FS_Subset DEF DkFewReloads
    <2>2. Cardinality(dkReloads') \in Nat /\ Cardinality(dkReloads) \in Nat
      BY <1>1, <2>1, FS_CardinalityType DEF DkFewReloads
    <2>3. Cardinality(dkReloads) <= dkSaves /\ dkSaves \in Nat
      BY <1>1 DEF DkFewReloads, DkTyped
    <2> QED
      BY <2>1, <2>2, <2>3 DEF DkFewReloads
  <1>4. DkRowsApart(dkRows)' /\ DkRowsAreFile' /\ DkReloadsLast'
    BY <1>1 DEF DkRowsApart, DkRowsAreFile, DkReloadsLast
  <1> QED
    BY <1>2, <1>3, <1>4

LEMMA DkToggleInv == ASSUME DkInv, DkToggleStop \/ DkToggleStart \/ DkReady PROVE DkInv'
  <1>1. DkTyped /\ DkRemotesShown /\ DkNoRemotes /\ DkReloadsLast /\ DkFollows /\ DkNoneLeft
    BY DEF DkInv
  <1>2. [n \in DkNames |-> DkNone] \in [DkNames -> DkDefs \cup {DkNone}]
    OBVIOUS
  <1>3. CASE DkToggleStop
    <2>1. /\ UNCHANGED <<dkFile, dkFields, dkRows, dkSaves, dkReloads, dkStatus, dkRun, dkRemotes>>
          /\ UNCHANGED <<dkSeen, dkGen0, dkApart, dkDouble, dkOld>> /\ dkStops' = dkStops + 1
      BY <1>3 DEF DkToggleStop, dkHandleVars
    <2>2. dkStops + 1 \in 0..DkMaxStops
      <3>1. dkStops \in Nat /\ DkMaxStops \in Nat
        BY <1>1, DkAssumptions DEF DkTyped
      <3> QED
        BY <1>3, <3>1 DEF DkToggleStop
    <2>3. DkTyped' /\ DkFewReloads' /\ DkRowsApart(dkRows)' /\ DkRowsAreFile' /\ DkReloadsLast'
      BY <1>1, <2>1, <2>2, DkClientFrame DEF DkTyped
    <2>4. DkRemotesShown' /\ DkNoRemotes' /\ DkFollows' /\ DkNoneLeft'
      BY <1>1, <2>1 DEF DkRemotesShown, DkNoRemotes, DkFollows, DkNoneLeft
    <2> QED
      BY <2>3, <2>4 DEF DkInv
  <1>4. CASE DkToggleStart
    <2>1. PICK c : c = DkMergeFields
      OBVIOUS
    <2>2. /\ UNCHANGED <<dkFile, dkFields, dkRows, dkSaves, dkReloads, dkStops, dkDouble>>
          /\ dkStatus = "stopped" /\ dkStatus' = "starting" /\ dkRun' = c /\ dkOld' = (dkOld \/ dkRun # DkNone)
          /\ dkRemotes' = [n \in DkNames |-> DkNone] /\ dkGen0' = FALSE /\ dkSeen' = FALSE
          /\ dkApart' = (c # dkFile) /\ c # DkNone
      BY <1>4, <2>1 DEF DkToggleStart, DkActive, dkTaskVars
    <2>3. c \in DkConfigs(DkDefs)
      BY <2>1, <2>2, DkMergeFieldsIs DEF DkMerged
    <2>4. DkTyped' /\ DkFewReloads' /\ DkRowsApart(dkRows)' /\ DkRowsAreFile' /\ DkReloadsLast'
      BY <1>1, <1>2, <2>2, <2>3, DkClientFrame DEF DkTyped
    <2>5. DkRemotesShown' /\ DkNoRemotes'
      BY <2>2 DEF DkRemotesShown, DkNoRemotes
    <2>6. DkFollows'
      BY <2>2 DEF DkFollows
    <2>7. DkNoneLeft'
      BY <1>1, <2>2 DEF DkNoneLeft
    <2> QED
      BY <2>4, <2>5, <2>6, <2>7 DEF DkInv
  <1>5. CASE DkReady
    <2>1. /\ UNCHANGED <<dkFile, dkFields, dkRows, dkSaves, dkReloads, dkStops, dkRun, dkRemotes>>
          /\ UNCHANGED <<dkSeen, dkGen0, dkApart, dkDouble, dkOld>>
          /\ dkStatus = "starting" /\ dkStatus' = "running"
      BY <1>5 DEF DkReady, dkTaskVars
    <2>2. DkTyped' /\ DkFewReloads' /\ DkRowsApart(dkRows)' /\ DkRowsAreFile' /\ DkReloadsLast'
      BY <1>1, <2>1, DkClientFrame DEF DkTyped
    <2>3. DkRemotesShown' /\ DkNoRemotes' /\ DkFollows' /\ DkNoneLeft'
      BY <1>1, <2>1 DEF DkRemotesShown, DkNoRemotes, DkFollows, DkNoneLeft
    <2> QED
      BY <2>2, <2>3 DEF DkInv
  <1> QED
    BY <1>3, <1>4, <1>5

LEMMA DkRemotesInv == ASSUME DkInv, (\E n \in DkNames : DkReport(n)) \/ DkDropRemotes PROVE DkInv'
  <1>1. DkTyped /\ DkRemotesShown /\ DkNoRemotes /\ DkReloadsLast /\ DkFollows /\ DkNoneLeft
    BY DEF DkInv
  <1>2. /\ UNCHANGED <<dkFile, dkFields, dkRows, dkSaves, dkReloads, dkStops, dkRun, dkStatus>>
        /\ UNCHANGED <<dkGen0, dkApart, dkDouble, dkOld>>
        /\ dkStatus = "running" /\ dkSeen' = FALSE
    BY DEF DkReport, DkDropRemotes, dkTaskVars
  <1>3. dkRemotes' \in [DkNames -> DkDefs \cup {DkNone}]
    <2>1. CASE DkDropRemotes
      BY <2>1 DEF DkDropRemotes
    <2>2. ASSUME NEW n \in DkNames, DkReport(n) PROVE dkRemotes' \in [DkNames -> DkDefs \cup {DkNone}]
      <3>1. PICK i \in DOMAIN dkRun.tunnels : dkRemotes' = [dkRemotes EXCEPT ![n] = dkRun.tunnels[i].def]
        BY <2>2 DEF DkReport
      <3>2. dkRun.tunnels \in Seq([name : DkNames, def : DkDefs])
        BY <1>1, <2>2 DEF DkReport, DkTyped, DkConfigs
      <3>3. dkRun.tunnels[i] \in [name : DkNames, def : DkDefs]
        BY <3>2, ElementOfSeq, LenProperties
      <3>4. dkRun.tunnels[i].def \in DkDefs
        BY <3>3
      <3> QED
        BY <1>1, <3>1, <3>4 DEF DkTyped
    <2> QED
      BY <2>1, <2>2
  <1>4. DkTyped' /\ DkFewReloads' /\ DkRowsApart(dkRows)' /\ DkRowsAreFile' /\ DkReloadsLast'
    BY <1>1, <1>2, <1>3, DkClientFrame DEF DkTyped
  <1>5. DkRemotesShown' /\ DkFollows' /\ DkNoneLeft'
    BY <1>1, <1>2 DEF DkRemotesShown, DkFollows, DkNoneLeft
  <1>6. DkNoRemotes'
    BY <1>1, <1>2 DEF DkNoRemotes
  <1> QED
    BY <1>4, <1>5, <1>6 DEF DkInv

LEMMA DkReloadInv == ASSUME DkInv, NEW r \in dkReloads, DkReload(r) PROVE DkInv'
  <1>1. DkTyped /\ DkRemotesShown /\ DkNoRemotes /\ DkReloadsLast /\ DkFollows /\ DkNoneLeft
    BY DEF DkInv
  <1>2. /\ UNCHANGED <<dkFile, dkFields, dkRows, dkSaves, dkStops, dkStatus, dkGen0, dkDouble, dkOld>>
        /\ dkReloads' = dkReloads \ {r}
    BY DEF DkReload
  <1>3. r.cfg \in DkConfigs(DkDefs)
    BY <1>1 DEF DkTyped
  <1>4. CASE /\ dkStatus = "running" /\ dkRun' = r.cfg /\ dkApart' = (r.n # dkSaves)
             /\ dkRemotes' = [n \in DkNames |->
                   IF \E i \in DOMAIN r.cfg.tunnels : r.cfg.tunnels[i] = [name |-> n, def |-> dkRemotes[n]]
                   THEN dkRemotes[n] ELSE DkNone]
             /\ dkSeen' = (dkSeen /\ dkRemotes' = dkRemotes)
    <2>1. dkRemotes' \in [DkNames -> DkDefs \cup {DkNone}]
      BY <1>1, <1>4 DEF DkTyped
    <2>2. DkTyped' /\ DkFewReloads' /\ DkRowsApart(dkRows)' /\ DkRowsAreFile' /\ DkReloadsLast'
      BY <1>1, <1>2, <1>3, <1>4, <2>1, DkClientFrame DEF DkTyped
    <2>3. DkRemotesShown'
      <3>1. CASE dkSeen /\ dkRemotes' = dkRemotes
        BY <1>1, <1>2, <3>1 DEF DkRemotesShown
      <3>2. CASE ~dkSeen'
        BY <3>2 DEF DkRemotesShown
      <3> QED
        BY <1>4, <3>1, <3>2
    <2>4. DkNoRemotes' /\ DkNoneLeft'
      BY <1>1, <1>2, <1>4 DEF DkNoRemotes, DkNoneLeft
    <2>5. DkFollows'
      BY <1>1, <1>2, <1>4 DEF DkFollows, DkReloadsLast
    <2> QED
      BY <2>2, <2>3, <2>4, <2>5 DEF DkInv
  <1>5. CASE UNCHANGED <<dkRun, dkRemotes, dkSeen>> /\ dkApart' = (dkApart \/ DkActive)
    <2>1. DkTyped' /\ DkFewReloads' /\ DkRowsApart(dkRows)' /\ DkRowsAreFile' /\ DkReloadsLast'
      BY <1>1, <1>2, <1>5, DkClientFrame DEF DkTyped
    <2>2. DkRemotesShown' /\ DkNoRemotes' /\ DkNoneLeft'
      BY <1>1, <1>2, <1>5 DEF DkRemotesShown, DkNoRemotes, DkNoneLeft
    <2>3. DkFollows'
      BY <1>2, <1>5 DEF DkFollows, DkActive
    <2> QED
      BY <2>1, <2>2, <2>3 DEF DkInv
  <1> QED
    BY <1>4, <1>5 DEF DkReload

LEMMA DkStopInv == ASSUME DkInv, DkStop PROVE DkInv'
  <1>1. DkTyped /\ DkRemotesShown /\ DkNoRemotes /\ DkReloadsLast /\ DkFollows /\ DkNoneLeft
    BY DEF DkInv
  <1>2. /\ UNCHANGED <<dkFile, dkFields, dkRows, dkSaves, dkReloads, dkRun, dkOld, dkGen0, dkApart>>
        /\ dkStops > 0 /\ dkStops' = dkStops - 1 /\ dkDouble' = (dkDouble \/ dkStatus = "stopping")
    BY DEF DkStop
  <1>3. dkStops' \in 0..DkMaxStops
    BY <1>1, <1>2, DkAssumptions DEF DkTyped
  <1>4. CASE /\ dkStatus = "stopping" /\ dkStatus' = "stopped"
             /\ dkRemotes' = [n \in DkNames |-> DkNone] /\ dkSeen' = FALSE
    <2>1. dkRemotes' \in [DkNames -> DkDefs \cup {DkNone}]
      BY <1>4
    <2>2. DkTyped' /\ DkFewReloads' /\ DkRowsApart(dkRows)' /\ DkRowsAreFile' /\ DkReloadsLast'
      BY <1>1, <1>2, <1>3, <1>4, <2>1, DkClientFrame DEF DkTyped
    <2>3. DkRemotesShown' /\ DkFollows'
      BY <1>4 DEF DkRemotesShown, DkFollows
    <2>4. DkNoRemotes' /\ DkNoneLeft'
      BY <1>1, <1>2, <1>4 DEF DkNoRemotes, DkNoneLeft
    <2> QED
      BY <2>2, <2>3, <2>4 DEF DkInv
  <1>5. CASE /\ dkStatus # "stopping" /\ dkStatus' = (IF DkActive THEN "stopping" ELSE dkStatus)
             /\ UNCHANGED <<dkRemotes, dkSeen>>
    <2>1. dkStatus' = "stopping" \/ (dkStatus = "stopped" /\ dkStatus' = "stopped")
      BY <1>5 DEF DkActive
    <2>2. DkTyped' /\ DkFewReloads' /\ DkRowsApart(dkRows)' /\ DkRowsAreFile' /\ DkReloadsLast'
      BY <1>1, <1>2, <1>3, <1>5, <2>1, DkClientFrame DEF DkTyped
    <2>3. DkRemotesShown' /\ DkFollows'
      BY <1>1, <1>2, <1>5, <2>1 DEF DkRemotesShown, DkFollows
    <2>4. DkNoRemotes'
      BY <1>1, <1>2, <1>5 DEF DkNoRemotes, DkActive
    <2>5. DkNoneLeft'
      BY <1>1, <1>2, <1>5, <2>1 DEF DkNoneLeft
    <2> QED
      BY <2>2, <2>3, <2>4, <2>5 DEF DkInv
  <1> QED
    BY <1>4, <1>5 DEF DkStop

LEMMA DkRunEndsInv == ASSUME DkInv, DkRunEnds PROVE DkInv'
  <1>1. DkTyped /\ DkRemotesShown /\ DkNoRemotes /\ DkReloadsLast /\ DkFollows /\ DkNoneLeft
    BY DEF DkInv
  <1>2. /\ UNCHANGED <<dkFile, dkFields, dkRows, dkSaves, dkReloads, dkStops, dkGen0>>
        /\ dkStatus' = "stopped" /\ dkRemotes' = [n \in DkNames |-> DkNone] /\ dkSeen' = FALSE
        /\ dkDouble' = (dkDouble /\ (dkRun' # DkNone \/ dkOld'))
        /\ \/ dkRun # DkNone /\ dkRun' = DkNone /\ dkOld' = dkOld
           \/ dkOld /\ dkOld' = FALSE /\ dkRun' = dkRun
    BY DEF DkRunEnds
  <1>3. dkRemotes' \in [DkNames -> DkDefs \cup {DkNone}] /\ dkRun' \in DkConfigs(DkDefs) \cup {DkNone}
    BY <1>1, <1>2 DEF DkTyped
  <1>4. DkTyped' /\ DkFewReloads' /\ DkRowsApart(dkRows)' /\ DkRowsAreFile' /\ DkReloadsLast'
    BY <1>1, <1>2, <1>3, DkClientFrame DEF DkTyped
  <1>5. DkRemotesShown' /\ DkFollows'
    BY <1>2 DEF DkRemotesShown, DkFollows
  <1>6. DkNoRemotes'
    BY <1>1, <1>2 DEF DkNoRemotes
  <1>7. DkNoneLeft'
    <2>1. CASE dkRun # DkNone /\ dkRun' = DkNone /\ dkOld' = dkOld
      BY <1>1, <1>2, <2>1 DEF DkNoneLeft
    <2>2. CASE dkOld /\ dkOld' = FALSE /\ dkRun' = dkRun
      BY <1>1, <1>2, <2>2 DEF DkNoneLeft
    <2> QED
      BY <1>2, <2>1, <2>2
  <1> QED
    BY <1>4, <1>5, <1>6, <1>7 DEF DkInv

LEMMA DkTickInv == ASSUME DkInv, DkTick PROVE DkInv'
  <1>1. /\ DkTyped /\ DkFewReloads /\ DkRowsApart(dkRows) /\ DkRowsAreFile /\ DkRemotesShown
        /\ DkNoRemotes /\ DkReloadsLast /\ DkFollows /\ DkNoneLeft
    BY DEF DkInv
  <1>2. /\ UNCHANGED <<dkFile, dkFields, dkStatus, dkRun, dkOld, dkRemotes, dkGen0>>
        /\ UNCHANGED <<dkReloads, dkStops, dkDouble, dkSaves, dkApart>>
        /\ dkRows' = IF dkSeen THEN dkRows ELSE DkWithRemotes
    BY DEF DkTick, dkHandleVars, dkTaskVars
  <1>3. Len(dkRows) \in Nat /\ DOMAIN dkRows = 1..Len(dkRows) /\ \A i \in DOMAIN dkRows : dkRows[i] \in DkPageRow
    BY <1>1, ElementOfSeq, LenProperties DEF DkTyped
  <1>4. /\ dkRows' \in Seq(DkPageRow) /\ DOMAIN dkRows' = DOMAIN dkRows
        /\ \A i \in DOMAIN dkRows :
             /\ dkRows'[i].name = dkRows[i].name /\ dkRows'[i].pad = dkRows[i].pad
             /\ dkRows'[i].def = dkRows[i].def
             /\ dkRows'[i].remote = IF dkRows[i].pad THEN DkNone ELSE dkRemotes[dkRows[i].name]
    <2>1. CASE dkSeen
      BY <1>1, <1>2, <2>1 DEF DkRemotesShown, DkTyped
    <2>2. CASE ~dkSeen
      <3> DEFINE e(i) == [dkRows[i] EXCEPT !.remote = IF dkRows[i].pad THEN DkNone ELSE dkRemotes[dkRows[i].name]]
      <3>1. dkRows' = [i \in 1..Len(dkRows) |-> e(i)]
        BY <1>2, <1>3, <2>2 DEF DkWithRemotes
      <3>2. ASSUME NEW i \in DOMAIN dkRows
            PROVE  /\ e(i) \in DkPageRow /\ e(i).name = dkRows[i].name /\ e(i).pad = dkRows[i].pad
                   /\ e(i).def = dkRows[i].def
                   /\ e(i).remote = IF dkRows[i].pad THEN DkNone ELSE dkRemotes[dkRows[i].name]
        <4>1. dkRows[i].name \in DkNames
          BY <1>3 DEF DkPageRow
        <4>2. PICK x \in DkDefs \cup {DkNone} : x = IF dkRows[i].pad THEN DkNone ELSE dkRemotes[dkRows[i].name]
          BY <1>1, <4>1 DEF DkTyped
        <4> QED
          BY <1>3, <4>2 DEF DkPageRow
      <3> HIDE DEF e
      <3>3. dkRows' \in Seq(DkPageRow)
        BY <1>3, <3>1, <3>2
      <3> QED
        BY <1>3, <3>1, <3>2, <3>3
    <2> QED
      BY <2>1, <2>2
  <1>5. DkTyped'
    BY <1>1, <1>2, <1>4 DEF DkTyped
  <1>6. DkFewReloads' /\ DkReloadsLast' /\ DkFollows' /\ DkNoneLeft'
    BY <1>1, <1>2 DEF DkFewReloads, DkReloadsLast, DkFollows, DkNoneLeft
  <1>7. DkRowsApart(dkRows)' /\ DkRemotesShown'
    BY <1>1, <1>2, <1>4 DEF DkRowsApart, DkRemotesShown
  <1>8. DkRowsAreFile'
    <2>1. DkTunnels(dkRows') = DkTunnels(dkRows)
      BY <1>4, DkSameTunnels
    <2> QED
      BY <1>1, <1>2, <2>1 DEF DkRowsAreFile
  <1>9. DkNoRemotes'
    <2>1. \A i \in DOMAIN dkRows : dkRows[i].name \in DkNames
      BY <1>3 DEF DkPageRow
    <2> QED
      BY <1>1, <1>2, <1>4, <2>1 DEF DkNoRemotes
  <1> QED
    BY <1>5, <1>6, <1>7, <1>8, <1>9 DEF DkInv

-----------------------------------------------------------------------------
(* The application is opened.                                              *)

\* The file as main leaves it: as it was, torn, or completed and with an id.
DkOpenedFile(f) ==
    \/ dkFile' \in {f, DkTorn}
    \/ /\ DkLoads(f) /\ f.id = DkNone /\ dkFile'.tunnels = f.tunnels /\ dkFile'.server = f.server
       /\ dkFile'.sni = f.server \/ dkFile'.sni = f.sni

LEMMA DkOpensIs ==
  ASSUME DkInv, NEW f \in DkConfigs(DkDefs \cup DkOdd) \cup {DkNone, DkTorn}, DkOpens(f)
  PROVE  /\ dkFile' \in DkConfigs(DkDefs \cup DkOdd) \cup {DkNone, DkTorn} /\ DkOpenedFile(f)
         /\ dkFields' \in [server : DkHosts, sni : DkHosts \cup {DkNone}]
         /\ dkRows' \in Seq(DkPageRow) /\ DkRowsApart(dkRows') /\ DkRowsAreFile'
         /\ \A i \in DOMAIN dkRows' : dkRows'[i].remote = DkNone
  <1>1. DkTyped /\ DkFewReloads
    BY DEF DkInv
  <1>2. CASE ~DkLoads(f)
    <2>1. dkFields' = [server |-> DkDefault, sni |-> DkNone] /\ dkRows' = <<>> /\ dkFile' = f
      BY <1>2 DEF DkOpens
    <2>2. DkRowsAreFile'
      BY <1>2, <2>1 DEF DkRowsAreFile, DkLoads, DkIsConfig, DkValid
    <2>3. <<>> \in Seq(DkPageRow) /\ DkRowsApart(<<>>) /\ DOMAIN <<>> = {}
      BY DEF DkRowsApart
    <2> QED
      BY <2>1, <2>2, <2>3 DEF DkOpenedFile, DkHosts
  <1>3. CASE DkLoads(f)
    <2>1. f \in DkConfigs(DkDefs \cup DkOdd) /\ DkValid(f)
      BY <1>3 DEF DkLoads, DkIsConfig
    <2>2. PICK k : k = DkComplete(f)
      OBVIOUS
    <2>3. /\ k \in DkConfigs(DkDefs \cup DkOdd) /\ k.server = f.server /\ k.id = f.id /\ k.tunnels = f.tunnels
          /\ k.sni = f.server \/ k.sni = f.sni
      BY <2>1, <2>2, DkCompleteIs
    <2>4. PICK e : e = DkEnsureId(k)
      OBVIOUS
    <2>5. /\ e \in DkConfigs(DkDefs \cup DkOdd) /\ e.server = f.server /\ e.tunnels = f.tunnels
          /\ e.sni = f.server \/ e.sni = f.sni
      BY <1>1, <2>3, <2>4, DkEnsureIdIs
    <2>6. /\ dkFields' = [server |-> k.server, sni |-> k.sni] /\ dkRows' = DkRowsOf(k)
          /\ dkFile' \in {f, DkTorn} \/ (f.id = DkNone /\ dkFile' = e)
      BY <1>3, <2>2, <2>4 DEF DkOpens, DkApplyConfig
    <2>7. dkFields' \in [server : DkHosts, sni : DkHosts \cup {DkNone}]
      BY <2>3, <2>6 DEF DkConfigs
    <2>8. /\ dkRows' \in Seq(DkPageRow) /\ DOMAIN dkRows' = DOMAIN f.tunnels
          /\ \A i \in DOMAIN f.tunnels : dkRows'[i].name = f.tunnels[i].name /\ dkRows'[i].remote = DkNone
      BY <2>3, <2>6, DkRowsOfIs
    <2>9. DkRowsApart(dkRows')
      BY <2>1, <2>8 DEF DkRowsApart, DkValid
    <2>10. dkFile' = DkTorn \/ DkRowsOf(dkFile') = dkRows'
      <3>1. \A c : c.tunnels = k.tunnels => DkRowsOf(c) = DkRowsOf(k)
        BY DEF DkRowsOf
      <3>2. dkFile' = DkTorn \/ dkFile'.tunnels = k.tunnels
        BY <2>3, <2>5, <2>6
      <3> QED
        BY <2>6, <3>1, <3>2
    <2>11. DkRowsAreFile'
      BY <2>10 DEF DkRowsAreFile, DkLoads, DkIsConfig
    <2>12. DkOpenedFile(f)
      BY <1>3, <2>5, <2>6 DEF DkOpenedFile
    <2>13. dkFile' \in DkConfigs(DkDefs \cup DkOdd) \cup {DkNone, DkTorn}
      BY <2>1, <2>5, <2>6
    <2> QED
      BY <2>7, <2>8, <2>9, <2>11, <2>12, <2>13
  <1> QED
    BY <1>2, <1>3

\* A file written by hand.
LEMMA DkHandWritten ==
  ASSUME NEW n \in DkNames, NEW d \in DkOdd
  PROVE  LET f == [DkEmpty EXCEPT !.tunnels = <<[name |-> n, def |-> d]>>]
         IN  f \in DkConfigs(DkDefs \cup DkOdd) /\ DkValid(f)
  <1>1. PICK T : T = <<[name |-> n, def |-> d]>>
    OBVIOUS
  <1>2. /\ T \in Seq([name : DkNames, def : DkDefs \cup DkOdd]) /\ DOMAIN T = {1} /\ T[1].def = d
    BY <1>1
  <1>3. PICK f : f = [DkEmpty EXCEPT !.tunnels = T]
    OBVIOUS
  <1>4. f \in DkConfigs(DkDefs \cup DkOdd) /\ f.tunnels = T
    BY <1>2, <1>3, DkEmptyIs DEF DkConfigs
  <1>5. DkValid(f)
    BY <1>2, <1>4, DkAssumptions DEF DkValid
  <1> QED
    BY <1>1, <1>3, <1>4, <1>5

LEMMA DkRestartInv ==
  ASSUME DkInv, DkRestart
  PROVE  /\ DkInv'
         /\ \/ DkOpenedFile(dkFile)
            \/ ~DkIsConfig(dkFile) /\ \E f : DkValid(f) /\ DkOpenedFile(f)
  <1>1. DkTyped
    BY DEF DkInv
  <1>2. PICK f \in DkConfigs(DkDefs \cup DkOdd) \cup {DkNone, DkTorn} :
           DkOpens(f) /\ (f = dkFile \/ (~DkIsConfig(dkFile) /\ DkValid(f)))
    <2>1. CASE DkOpens(dkFile)
      BY <1>1, <2>1 DEF DkTyped
    <2>2. ASSUME NEW n \in DkNames, NEW d \in DkOdd, ~DkIsConfig(dkFile),
                 DkOpens([DkEmpty EXCEPT !.tunnels = <<[name |-> n, def |-> d]>>])
          PROVE  \E f \in DkConfigs(DkDefs \cup DkOdd) : DkOpens(f) /\ ~DkIsConfig(dkFile) /\ DkValid(f)
      BY <2>2, DkHandWritten
    <2> QED
      BY <2>1, <2>2 DEF DkRestart
  <1>3. /\ dkFile' \in DkConfigs(DkDefs \cup DkOdd) \cup {DkNone, DkTorn} /\ DkOpenedFile(f)
        /\ dkFields' \in [server : DkHosts, sni : DkHosts \cup {DkNone}]
        /\ dkRows' \in Seq(DkPageRow) /\ DkRowsApart(dkRows') /\ DkRowsAreFile'
        /\ \A i \in DOMAIN dkRows' : dkRows'[i].remote = DkNone
    BY <1>2, DkOpensIs
  <1>4. /\ dkStatus' = "stopped" /\ dkRun' = DkNone /\ dkOld' = FALSE
        /\ dkRemotes' = [n \in DkNames |-> DkNone] /\ dkGen0' = TRUE
        /\ dkReloads' = {} /\ dkStops' = 0 /\ dkSaves' = dkSaves
    BY DEF DkRestart
  <1>5. DkTyped'
    BY <1>1, <1>3, <1>4, DkAssumptions DEF DkTyped
  <1>6. DkFewReloads'
    BY <1>1, <1>4, FS_EmptySet DEF DkFewReloads, DkTyped
  <1>7. DkNoRemotes'
    BY <1>3, <1>4 DEF DkNoRemotes
  <1>8. DkRemotesShown'
    <2>1. \A i \in DOMAIN dkRows' : dkRows'[i] \in DkPageRow
      BY <1>3, ElementOfSeq, LenProperties
    <2>2. \A i \in DOMAIN dkRows' : dkRows'[i].name \in DkNames
      BY <2>1 DEF DkPageRow
    <2> QED
      BY <1>3, <1>4, <2>2 DEF DkRemotesShown
  <1>9. DkReloadsLast' /\ DkFollows' /\ DkNoneLeft'
    BY <1>4 DEF DkReloadsLast, DkFollows, DkNoneLeft
  <1>10. DkInv'
    BY <1>3, <1>5, <1>6, <1>7, <1>8, <1>9 DEF DkInv
  <1> QED
    BY <1>2, <1>3, <1>10

-----------------------------------------------------------------------------
\* The steps that show rows of their own in place of those of the page.
LEMMA DkRowStep ==
  ASSUME DkInv,
         \/ \E row \in DkFormRows :
               DkAddTunnel(row) \/ \E i \in 1..Cardinality(DkNames) : DkEditTunnel(i, row)
         \/ \E i \in 1..Cardinality(DkNames) : DkDeleteTunnel(i)
  PROVE  \E rows : DkRowsFit(rows) /\ DkPersistTunnels(rows)
  <1>1. ASSUME NEW row \in DkFormRows, DkAddTunnel(row) PROVE \E rows : DkRowsFit(rows) /\ DkPersistTunnels(rows)
    BY <1>1, DkAppendFits DEF DkAddTunnel
  <1>2. ASSUME NEW row \in DkFormRows, NEW i, DkEditTunnel(i, row)
        PROVE  \E rows : DkRowsFit(rows) /\ DkPersistTunnels(rows)
    BY <1>2, DkEditFits DEF DkEditTunnel
  <1>3. ASSUME NEW i, DkDeleteTunnel(i) PROVE \E rows : DkRowsFit(rows) /\ DkPersistTunnels(rows)
    BY <1>3, DkRemovedFits DEF DkDeleteTunnel
  <1> QED
    BY <1>1, <1>2, <1>3

LEMMA DkNextInv == DkInv /\ [DkNext]_dkVars => DkInv'
  <1> SUFFICES ASSUME DkInv, [DkNext]_dkVars PROVE DkInv'
    OBVIOUS
  <1>1. CASE \/ \E row \in DkFormRows :
                   DkAddTunnel(row) \/ \E i \in 1..Cardinality(DkNames) : DkEditTunnel(i, row)
             \/ \E i \in 1..Cardinality(DkNames) : DkDeleteTunnel(i)
    BY <1>1, DkRowStep, DkPersistInv
  <1>2. CASE (\E s \in DkServers : DkTypeServer(s)) \/ DkConfigReset
    BY <1>2, DkFieldsInv
  <1>3. CASE DkConfigSave
    BY <1>3, DkConfigSaveInv
  <1>4. CASE DkToggleStop \/ DkToggleStart \/ DkReady
    BY <1>4, DkToggleInv
  <1>5. CASE DkTick
    BY <1>5, DkTickInv
  <1>6. CASE (\E n \in DkNames : DkReport(n)) \/ DkDropRemotes
    BY <1>6, DkRemotesInv
  <1>7. CASE DkStop
    BY <1>7, DkStopInv
  <1>8. CASE DkRunEnds
    BY <1>8, DkRunEndsInv
  <1>9. CASE DkRestart
    BY <1>9, DkRestartInv
  <1>10. ASSUME NEW r \in dkReloads, DkReload(r) PROVE DkInv'
    BY <1>10, DkReloadInv
  <1>11. CASE UNCHANGED dkVars
    <2>1. /\ UNCHANGED <<dkFile, dkFields, dkRows, dkSeen, dkStatus, dkRun, dkOld, dkRemotes, dkGen0>>
          /\ UNCHANGED <<dkReloads, dkStops, dkDouble, dkSaves, dkApart>>
      BY <1>11 DEF dkVars
    <2>2. DkNotWritten
      BY <2>1 DEF DkNotWritten, dkHandleVars, dkTaskVars
    <2> QED
      BY <2>2, DkNotWrittenInv
  <1> QED
    BY <1>1, <1>2, <1>3, <1>4, <1>5, <1>6, <1>7, <1>8, <1>9, <1>10, <1>11 DEF DkNext

LEMMA DkInvHolds == DkSpec => []DkInv
  BY DkInitInv, DkNextInv, PTL DEF DkSpec

\* For any tunnels, definitions, servers and numbers of saves and stops: the tunnel page
\* shows the tunnels of the file that can be loaded, and the remote address of each name
\* once the timer has copied it (main.rs of the desktop application).
THEOREM WindowIsSound == DkSpec => []DkWindowSound
  <1>1. DkInv => DkWindowSound
    <2> SUFFICES ASSUME DkInv PROVE DkWindowSound
      OBVIOUS
    <2>1. DkTyped /\ DkRowsAreFile /\ DkRemotesShown
      BY DEF DkInv
    <2>2. DkIsConfig(dkFile) => dkFile.server \in DkServers \cup {DkDefault} /\ dkFile.id \in DkIds \cup {DkNone}
      BY <2>1 DEF DkTyped, DkIsConfig, DkConfigs, DkHosts
    <2>3. \A i \in DOMAIN dkRows : dkRows[i] \in DkPageRow
      BY <2>1, ElementOfSeq, LenProperties DEF DkTyped
    <2>4. \A i \in DOMAIN dkRows : /\ dkRows[i].name \in DkNames /\ dkRows[i].def \in DkDefs
                                   /\ dkRows[i].remote \in DkDefs \cup {DkNone}
      BY <2>3 DEF DkPageRow
    <2>5. DkTypeOK
      BY <2>1, <2>2, <2>4 DEF DkTypeOK, DkTyped
    <2> QED
      BY <2>1, <2>5 DEF DkWindowSound
  <1> QED
    BY <1>1, DkInvHolds, PTL

\* ... the client runs what the file says once the reloads are through, and a client
\* that was stopped once is gone.
THEOREM ClientIsSound == DkSpec => []DkClientSound
  <1>1. DkInv => DkClientSound
    <2> SUFFICES ASSUME DkInv PROVE DkClientSound
      OBVIOUS
    <2>1. DkFollows /\ DkNoneLeft
      BY DEF DkInv
    <2>2. DkClientFollowsFile
      BY <2>1 DEF DkClientFollowsFile, DkFollows, DkLoads, DkIsConfig
    <2>3. DkStoppedIsStopped
      BY <2>1 DEF DkStoppedIsStopped, DkNoneLeft
    <2> QED
      BY <2>2, <2>3 DEF DkClientSound
  <1> QED
    BY <1>1, DkInvHolds, PTL

-----------------------------------------------------------------------------
(* What a save may never do.                                               *)

\* A configuration made of rows that are apart is valid but for their pads and definitions.
LEMMA DkRowsValid ==
  ASSUME NEW rows \in Seq(DkPageRow), NEW shown \in Seq(DkPageRow), DkRowsApart(shown),
         DOMAIN shown = DOMAIN rows,
         \A i \in DOMAIN rows : shown[i].name = rows[i].name /\ shown[i].def = rows[i].def,
         NEW c, c.tunnels = DkTunnels(rows), ~DkValid(c)
  PROVE  \E i \in DOMAIN shown : shown[i].pad \/ shown[i].def \in DkInvalid
  <1> SUFFICES ASSUME \A i \in DOMAIN shown : ~shown[i].pad /\ shown[i].def \notin DkInvalid
               PROVE  DkValid(c)
    OBVIOUS
  <1>1. \A i \in DOMAIN shown : shown[i] \in DkPageRow
    BY ElementOfSeq, LenProperties
  <1>2. \A i \in DOMAIN shown : shown[i].pad = FALSE
    BY <1>1 DEF DkPageRow
  <1>3. PICK T : T = DkTunnels(rows)
    OBVIOUS
  <1>4. DOMAIN T = DOMAIN rows /\ \A i \in DOMAIN rows : T[i].name = rows[i].name /\ T[i].def = rows[i].def
    BY <1>3, DkTunnelsIs
  <1>5. /\ DOMAIN T = DOMAIN shown
        /\ \A i \in DOMAIN shown : T[i].name = shown[i].name /\ T[i].def = shown[i].def
    BY <1>4
  <1>6. \A i \in DOMAIN T : \A j \in DOMAIN T : T[i].name = T[j].name => i = j
    <2> SUFFICES ASSUME NEW i \in DOMAIN shown, NEW j \in DOMAIN shown, T[i].name = T[j].name PROVE i = j
      BY <1>5
    <2>1. shown[i].name = shown[j].name
      BY <1>5
    <2>2. shown[i].pad = shown[j].pad
      BY <1>2
    <2> QED
      BY <2>1, <2>2 DEF DkRowsApart
  <1>7. \A i \in DOMAIN T : T[i].def \notin DkInvalid
    BY <1>5
  <1> QED
    BY <1>3, <1>6, <1>7 DEF DkValid

\* What DkSavesSound says of one step.
DkStepSound ==
    /\ DkIsConfig(dkFile') /\ dkFile' # dkFile /\ ~DkValid(dkFile')
       => \E i \in DOMAIN dkRows' : dkRows'[i].pad \/ dkRows'[i].def \in DkInvalid
    /\ DkIsConfig(dkFile) /\ DkIsConfig(dkFile') /\ dkFile' # dkFile
       => \/ dkFile'.sni = dkFile'.server \/ dkFields.sni # DkNone
          \/ dkFile'.sni = dkFile.sni /\ dkFile'.server = dkFile.server
    /\ DkIsConfig(dkFile) /\ DkIsConfig(dkFile') /\ dkFile.id # DkNone => dkFile'.id = dkFile.id

LEMMA DkFileKept == dkFile' \in {dkFile, DkTorn} => DkStepSound
  BY DEF DkStepSound, DkIsConfig

LEMMA DkStepIsSound == DkInv /\ DkNext => DkStepSound
  <1> SUFFICES ASSUME DkInv, DkNext PROVE DkStepSound
    OBVIOUS
  <1>1. DkTyped /\ DkRowsApart(dkRows) /\ dkRows \in Seq(DkPageRow)
    BY DEF DkInv, DkTyped
  <1>2. ASSUME NEW rows, DkRowsFit(rows), DkPersistTunnels(rows) PROVE DkStepSound
    <2>1. CASE DkNotWritten
      BY <2>1, DkFileKept DEF DkNotWritten
    <2>2. CASE DkWritten(DkMergeTunnels(rows)) /\ dkRows' = DkRetained(rows)
      <3>1. rows \in Seq(DkPageRow) /\ DkMergeTunnels(rows) # DkNone
        BY <1>2 DEF DkRowsFit, DkPersistTunnels
      <3>2. PICK c : c = DkMergeTunnels(rows)
        OBVIOUS
      <3>3. dkFile' = c /\ DkMerged(c, rows)
        BY <2>2, <3>1, <3>2, DkMergeTunnelsIs DEF DkWritten
      <3>4. /\ dkRows' \in Seq(DkPageRow) /\ DOMAIN dkRows' = DOMAIN rows
            /\ \A i \in DOMAIN rows : /\ dkRows'[i].name = rows[i].name
                                      /\ dkRows'[i].pad = rows[i].pad
                                      /\ dkRows'[i].def = rows[i].def
        BY <1>1, <2>2, <3>1, DkRetainedIs
      <3>5. DkRowsApart(dkRows')
        BY <1>2, <3>4 DEF DkRowsFit, DkRowsApart
      <3>6. ~DkValid(c) => \E i \in DOMAIN dkRows' : dkRows'[i].pad \/ dkRows'[i].def \in DkInvalid
        BY <3>1, <3>3, <3>4, <3>5, DkRowsValid DEF DkMerged
      <3> QED
        BY <3>3, <3>6 DEF DkMerged, DkStepSound
    <2> QED
      BY <1>2, <2>1, <2>2 DEF DkPersistTunnels
  <1>3. CASE DkConfigSave
    <2>1. CASE DkNotWritten
      BY <2>1, DkFileKept DEF DkNotWritten
    <2>2. CASE DkServerSaved(DkMergeFields)
      <3>1. PICK c : c = DkMergeFields
        OBVIOUS
      <3>2. dkFile' = c /\ DkMerged(c, dkRows) /\ dkRows' = dkRows
        BY <1>3, <2>2, <3>1, DkMergeFieldsIs DEF DkServerSaved, DkWritten, DkConfigSave
      <3>3. ~DkValid(c) => \E i \in DOMAIN dkRows : dkRows[i].pad \/ dkRows[i].def \in DkInvalid
        BY <1>1, <3>2, DkRowsValid DEF DkMerged
      <3> QED
        BY <3>2, <3>3 DEF DkMerged, DkStepSound
    <2> QED
      BY <1>3, <2>1, <2>2 DEF DkConfigSave
  <1>4. CASE DkRestart
    <2>1. CASE DkOpenedFile(dkFile)
      <3>1. CASE dkFile' \in {dkFile, DkTorn}
        BY <3>1, DkFileKept
      <3>2. CASE /\ DkLoads(dkFile) /\ dkFile.id = DkNone /\ dkFile'.tunnels = dkFile.tunnels
                 /\ dkFile'.server = dkFile.server
                 /\ dkFile'.sni = dkFile.server \/ dkFile'.sni = dkFile.sni
        BY <3>2 DEF DkStepSound, DkLoads, DkValid
      <3> QED
        BY <2>1, <3>1, <3>2 DEF DkOpenedFile
    <2>2. CASE ~DkIsConfig(dkFile) /\ \E f : DkValid(f) /\ DkOpenedFile(f)
      <3>1. PICK f : DkValid(f) /\ DkOpenedFile(f)
        BY <2>2
      <3>2. DkIsConfig(dkFile') => DkValid(dkFile')
        BY <3>1 DEF DkOpenedFile, DkIsConfig, DkValid
      <3> QED
        BY <2>2, <3>2 DEF DkStepSound
    <2> QED
      BY <1>4, <2>1, <2>2, DkRestartInv
  <1>5. CASE \/ \E row \in DkFormRows :
                   DkAddTunnel(row) \/ \E i \in 1..Cardinality(DkNames) : DkEditTunnel(i, row)
             \/ \E i \in 1..Cardinality(DkNames) : DkDeleteTunnel(i)
    BY <1>2, <1>5, DkRowStep
  <1>6. CASE \/ \E s \in DkServers : DkTypeServer(s)
             \/ DkConfigReset \/ DkToggleStop \/ DkToggleStart \/ DkTick \/ DkReady
             \/ \E n \in DkNames : DkReport(n)
             \/ DkDropRemotes \/ DkStop \/ DkRunEnds
             \/ \E r \in dkReloads : DkReload(r)
    <2>1. dkFile' = dkFile
      BY <1>6 DEF DkTypeServer, DkConfigReset, DkToggleStop, DkToggleStart, DkTick, DkReady, DkReport,
                  DkDropRemotes, DkStop, DkRunEnds, DkReload
    <2> QED
      BY <2>1, DkFileKept
  <1> QED
    BY <1>3, <1>4, <1>5, <1>6 DEF DkNext

\* For any tunnels, definitions and servers: what is saved can be loaded again unless a
\* row has a padded name or a definition that validate refuses, the TLS name follows the
\* server, and the agent id of the file is kept.
THEOREM SavesAreSound == DkSpec => DkSavesSound
  <1>1. DkInv /\ [DkNext]_dkVars
        => /\ [DkIsConfig(dkFile') /\ dkFile' # dkFile /\ ~DkValid(dkFile')
               => \E i \in DOMAIN dkRows' : dkRows'[i].pad \/ dkRows'[i].def \in DkInvalid]_dkVars
           /\ [DkIsConfig(dkFile) /\ DkIsConfig(dkFile') /\ dkFile' # dkFile
               => \/ dkFile'.sni = dkFile'.server \/ dkFields.sni # DkNone
                  \/ dkFile'.sni = dkFile.sni /\ dkFile'.server = dkFile.server]_dkVars
           /\ [DkIsConfig(dkFile) /\ DkIsConfig(dkFile') /\ dkFile.id # DkNone
               => dkFile'.id = dkFile.id]_dkVars
    BY DkStepIsSound DEF DkStepSound
  <1> QED
    BY <1>1, DkInvHolds, PTL DEF DkSpec, DkSavesSound, DkSavedLoads, DkNameFollowsServer, DkIdKept
=============================================================================
