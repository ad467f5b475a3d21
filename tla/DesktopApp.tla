----------------------------- MODULE DesktopApp -----------------------------
(***************************************************************************)
(* The desktop application around one client: the rows of the tunnel page, *)
(* the fields of the configuration page, the configuration file they are   *)
(* merged with and saved to, the start button, the timer that copies the   *)
(* state of the client to the window, and the tasks that carry a stop or a *)
(* reload to the client.                                                   *)
(*                                                                         *)
(* A handler of the event loop is one step.  Stops and reloads are spawned *)
(* on the runtime of the client and run in any order.  A configuration is  *)
(* its server, the TLS name that complete() derives from an empty field,   *)
(* the agent id and the tunnels; a tunnel is a name and a definition, and  *)
(* a definition of DkInvalid is one the form accepts (remote port 0) and   *)
(* validate() refuses.  The client behind the handle is the subject of     *)
(* ClientHandle, ClientService and ClientTunnels; here it has a status, a  *)
(* configuration and the remote addresses it reports.                      *)
(***************************************************************************)
EXTENDS Integers, Sequences, FiniteSets

CONSTANTS
    DkNames,        \* tunnel names
    DkDefs,         \* tunnel definitions the form can produce
    DkInvalid,      \* those that validate() refuses
    DkOdd,          \* definitions of a file that no form can hold (socks5 over udp)
    DkPlain,        \* the definition the form makes of them
    DkServers,      \* server addresses
    DkDefault,      \* the server address of an empty configuration page
    DkIds,          \* agent ids
    DkMaxStops,     \* bound: stops on their way at a time
    DkMaxSaves,     \* bound: saves
    DkNone,
    DkTorn

ASSUME DkAssumptions ==
    /\ DkMaxStops \in Nat /\ DkMaxSaves \in Nat
    /\ DkPlain \in DkDefs /\ DkOdd \cap (DkDefs \cup DkInvalid) = {}
    /\ IsFiniteSet(DkIds) /\ Cardinality(DkIds) > DkMaxSaves + 2

VARIABLES
    dkFile,         \* the configuration file, DkNone, or DkTorn after a write broke off
    dkFields,       \* the configuration page: server and TLS name
    dkRows,         \* the tunnel page
    dkSeen,         \* the window has the remotes of the handle's generation
    dkStatus,       \* ClientHandle::status
    dkRun,          \* the configuration the client runs, or DkNone
    dkOld,          \* a client task goes on that the handle has given up
    dkRemotes,      \* [DkNames -> the definition the remote address belongs to]
    dkGen0,         \* no client was ever started: the generation is 0
    dkReloads,      \* reload tasks, each with the number of its save
    dkStops,        \* stop tasks that have not begun
    dkSaves,        \* the number of the last save
    dkApart,        \* the client was last given something else than the last save
    dkDouble        \* a stop began while another one waited, and a client of then runs on

dkVars == <<dkFile, dkFields, dkRows, dkSeen, dkStatus, dkRun, dkOld, dkRemotes,
            dkGen0, dkReloads, dkStops, dkSaves, dkApart, dkDouble>>

dkHandleVars == <<dkStatus, dkRun, dkOld, dkRemotes, dkGen0>>
dkTaskVars == <<dkReloads, dkStops, dkDouble>>

-----------------------------------------------------------------------------
(* Configurations.                                                         *)

DkActive == dkStatus # "stopped"
DkIsConfig(c) == c \notin {DkNone, DkTorn}

\* ClientConfig::validate, as far as the pages can go against it.
DkValid(c) ==
    /\ \A i, j \in DOMAIN c.tunnels : c.tunnels[i].name = c.tunnels[j].name => i = j
    /\ \A i \in DOMAIN c.tunnels : c.tunnels[i].def \notin DkInvalid

\* ClientConfig::complete: an empty TLS name becomes the host of the server.
DkComplete(c) == IF c.sni = DkNone THEN [c EXCEPT !.sni = c.server] ELSE c

\* load_for_edit reads, completes and validates.
DkLoads(f) == DkIsConfig(f) /\ DkValid(f)

\* ensure_agent_id: an id no other configuration has.
DkEnsureId(c) ==
    LET taken == {dkReload.cfg.id : dkReload \in dkReloads}
                 \cup (IF DkIsConfig(dkFile) THEN {dkFile.id} ELSE {})
                 \cup (IF dkRun # DkNone THEN {dkRun.id} ELSE {})
    IN  IF c.id = DkNone THEN [c EXCEPT !.id = CHOOSE x \in DkIds : x \notin taken] ELSE c

\* tunnel_to_parts and tunnel_from_parts: what a definition is after its row is saved.
DkForm(d) == IF d \in DkOdd THEN DkPlain ELSE d

DkTunnels(rows) == [i \in DOMAIN rows |-> [name |-> rows[i].name, def |-> rows[i].def]]
DkRowsOf(c) == [i \in DOMAIN c.tunnels |->
                  [name |-> c.tunnels[i].name, pad |-> FALSE,
                   def |-> DkForm(c.tunnels[i].def), remote |-> DkNone]]

DkEmpty == [server |-> DkDefault, sni |-> DkNone, id |-> DkNone, tunnels |-> <<>>]

\* load_merge_tunnels: the file with the tunnels of the page; without a file the
\* fields of the page are the base.  No configuration if the file does not load.
DkMergeTunnels(rows) ==
    LET base == IF dkFile = DkNone THEN [DkEmpty EXCEPT !.server = dkFields.server] ELSE dkFile
    IN  IF dkFile # DkNone /\ ~DkLoads(dkFile) THEN DkNone
        ELSE DkEnsureId(DkComplete([base EXCEPT !.tunnels = DkTunnels(rows)]))

\* load_merge_server_fields: the file with the fields and the tunnels of the page.
DkMergeFields ==
    LET base == IF dkFile = DkNone THEN DkEmpty ELSE dkFile
    IN  IF dkFile # DkNone /\ ~DkLoads(dkFile) THEN DkNone
        ELSE DkEnsureId(DkComplete([base EXCEPT !.server = dkFields.server,
                                                !.sni = dkFields.sni,
                                                !.tunnels = DkTunnels(dkRows)]))

-----------------------------------------------------------------------------
(* The start of the application, and its end at any time.                  *)

\* apply_config_to_ui.
DkApplyConfig(c) == dkFields' = [server |-> c.server, sni |-> c.sni] /\ dkRows' = DkRowsOf(c)

\* main: the file fills the pages, and gets an agent id if it has none.
DkOpens(f) ==
    /\ IF DkLoads(f)
       THEN /\ DkApplyConfig(DkComplete(f))
            /\ dkFile' \in IF f.id # DkNone THEN {f} ELSE {f, DkTorn, DkEnsureId(DkComplete(f))}
       ELSE /\ dkFields' = [server |-> DkDefault, sni |-> DkNone]
            /\ dkRows' = <<>> /\ dkFile' = f
    /\ dkSeen' = TRUE

DkInit ==
    /\ dkFile = DkNone /\ dkFields = [server |-> DkDefault, sni |-> DkNone] /\ dkRows = <<>>
    /\ dkSeen = TRUE
    /\ dkStatus = "stopped" /\ dkRun = DkNone /\ dkOld = FALSE
    /\ dkRemotes = [n \in DkNames |-> DkNone] /\ dkGen0 = TRUE
    /\ dkReloads = {} /\ dkStops = 0 /\ dkSaves = 0 /\ dkApart = FALSE /\ dkDouble = FALSE

\* The application ends and is opened again; a missing or torn file may have been
\* written by hand.
DkRestart ==
    /\ \/ DkOpens(dkFile)
       \/ /\ ~DkIsConfig(dkFile)
          /\ \E n \in DkNames, d \in DkOdd : DkOpens([DkEmpty EXCEPT !.tunnels = <<[name |-> n, def |-> d]>>])
    /\ dkStatus' = "stopped" /\ dkRun' = DkNone /\ dkOld' = FALSE
    /\ dkRemotes' = [n \in DkNames |-> DkNone] /\ dkGen0' = TRUE
    /\ dkReloads' = {} /\ dkStops' = 0 /\ dkApart' = FALSE /\ dkDouble' = FALSE
    /\ UNCHANGED dkSaves

-----------------------------------------------------------------------------
(* Saving.                                                                 *)

\* MUTANT: only the handler of the configuration page reloads the client.
DkApplyNot(c) == UNCHANGED dkReloads

\* apply_if_running_async: a reload task carries the saved configuration.
DkApply(c) ==
    dkReloads' = IF DkActive THEN dkReloads \cup {[n |-> dkSaves + 1, cfg |-> c]} ELSE dkReloads

\* save succeeds.
DkWritten(c) ==
    /\ dkFile' = c /\ dkSaves' = dkSaves + 1 /\ DkApply(c)
    /\ UNCHANGED <<dkFields, dkHandleVars, dkStops, dkApart, dkDouble>>

\* save fails: fs::write could not open the file, or broke off after truncating it.
DkNotWritten ==
    /\ dkFile' \in {dkFile, DkTorn}
    /\ UNCHANGED <<dkFields, dkRows, dkSeen, dkHandleVars, dkTaskVars, dkSaves,
                   dkApart>>

\* retain_remote_addrs: an unchanged row keeps its address while no client runs.
DkRetained(rows) ==
    [i \in DOMAIN rows |->
       LET same == {p \in DOMAIN dkRows : /\ dkRows[p].name = rows[i].name
                                          /\ dkRows[p].pad = rows[i].pad
                                          /\ dkRows[p].def = rows[i].def}
       IN  IF rows[i].remote = DkNone /\ ~DkActive /\ same # {}
           THEN [rows[i] EXCEPT !.remote = dkRows[CHOOSE p \in same : TRUE].remote]
           ELSE rows[i]]

\* collect_tunnel_form: the row of the form; pad says that the name was typed with blanks
\* around it, which row_to_tunnel trims (bound: only with DkPlain, and in one row).
DkFormRows ==
    {row \in [name : DkNames, pad : BOOLEAN, def : DkDefs, remote : {DkNone}] :
       row.pad => row.def = DkPlain /\ \A i \in DOMAIN dkRows : ~dkRows[i].pad}

\* MUTANT: the rows are shown although they could not be saved.
DkPersistTunnelsAnyway(rows) ==
    LET c == DkMergeTunnels(rows) IN
    /\ dkSaves < DkMaxSaves /\ c # DkNone
    /\ dkRows' = DkRetained(rows) /\ dkSeen' = dkGen0
    /\ \/ DkWritten(c)
       \/ UNCHANGED <<dkFile, dkFields, dkHandleVars, dkTaskVars, dkSaves, dkApart>>

\* persist_tunnels and what the two handlers do with its result; the rows are shown
\* again from generation 0.
DkPersistTunnels(rows) ==
    LET c == DkMergeTunnels(rows) IN
    /\ dkSaves < DkMaxSaves /\ c # DkNone
    /\ \/ /\ DkWritten(c) /\ dkRows' = DkRetained(rows) /\ dkSeen' = dkGen0
       \/ DkNotWritten

\* MUTANT: a name may be given twice.
DkNameTakenNever(row, others) == FALSE

\* The names are compared as they were typed.
DkNameTaken(row, others) == \E i \in others : dkRows[i].name = row.name /\ dkRows[i].pad = row.pad

\* on_tunnel_save for a new row and for row i, and on_tunnel_delete.
DkAddTunnel(row) ==
    /\ ~DkNameTaken(row, DOMAIN dkRows) /\ Len(dkRows) < Cardinality(DkNames)
    /\ DkPersistTunnels(Append(dkRows, row))

DkEditTunnel(i, row) ==
    /\ i \in DOMAIN dkRows /\ ~DkNameTaken(row, DOMAIN dkRows \ {i})
    /\ DkPersistTunnels([dkRows EXCEPT ![i] = row])

DkDeleteTunnel(i) ==
    /\ i \in DOMAIN dkRows
    /\ DkPersistTunnels(SubSeq(dkRows, 1, i - 1) \o SubSeq(dkRows, i + 1, Len(dkRows)))

\* persist_server_config, up to what on_config_save does with its result.
DkServerSaved(c) == DkWritten(c) /\ UNCHANGED dkRows

\* on_config_save.
DkConfigSave ==
    LET c == DkMergeFields IN
    /\ dkSaves < DkMaxSaves /\ c # DkNone
    /\ \/ /\ DkServerSaved(c)
          /\ dkSeen' = IF DkActive THEN dkGen0 ELSE dkSeen
       \/ DkNotWritten

\* The user types a server address; on_config_reset empties the page.
DkTypeServer(s) ==
    /\ dkFields' = [dkFields EXCEPT !.server = s]
    /\ UNCHANGED <<dkFile, dkRows, dkSeen, dkHandleVars, dkTaskVars, dkSaves, dkApart>>

DkConfigReset ==
    /\ dkFields' = [server |-> DkDefault, sni |-> DkNone]
    /\ UNCHANGED <<dkFile, dkRows, dkSeen, dkHandleVars, dkTaskVars, dkSaves, dkApart>>

-----------------------------------------------------------------------------
(* The client.                                                             *)

\* on_toggle_client with an active client: a stop is spawned.
DkToggleStop ==
    /\ DkActive /\ dkStops + (IF dkStatus = "stopping" THEN 1 ELSE 0) < DkMaxStops
    /\ dkStops' = dkStops + 1
    /\ UNCHANGED <<dkFile, dkFields, dkRows, dkSeen, dkHandleVars, dkReloads, dkSaves, dkApart, dkDouble>>

\* ... and without one: the pages are merged with the file, not saved, and started.
DkToggleStart ==
    LET c == DkMergeFields IN
    /\ ~DkActive /\ c # DkNone /\ DkValid(c) /\ ~(dkOld /\ dkRun # DkNone)
    /\ dkStatus' = "starting" /\ dkRun' = c /\ dkOld' = (dkOld \/ dkRun # DkNone)
    /\ dkRemotes' = [n \in DkNames |-> DkNone] /\ dkGen0' = FALSE
    /\ dkSeen' = FALSE /\ dkApart' = (c # dkFile)
    /\ UNCHANGED <<dkFile, dkFields, dkRows, dkTaskVars, dkSaves>>

\* apply_tunnel_remotes: every row by its name, as it was typed.
DkWithRemotes ==
    [i \in DOMAIN dkRows |->
       [dkRows[i] EXCEPT !.remote = IF dkRows[i].pad THEN DkNone ELSE dkRemotes[dkRows[i].name]]]

\* The timer: new remotes of the handle are copied to the window.
DkTick ==
    /\ dkSeen' = TRUE /\ dkRows' = IF dkSeen THEN dkRows ELSE DkWithRemotes
    /\ UNCHANGED <<dkFile, dkFields, dkHandleVars, dkTaskVars, dkSaves, dkApart>>

\* run_inner has made the channel for reloads.
DkReady ==
    /\ dkStatus = "starting" /\ dkStatus' = "running"
    /\ UNCHANGED <<dkFile, dkFields, dkRows, dkSeen, dkRun, dkOld, dkRemotes, dkGen0,
                   dkTaskVars, dkSaves, dkApart>>

\* The client reports a remote address, or drops all when its session ends.
DkReport(n) ==
    /\ dkStatus = "running" /\ dkRun # DkNone
    /\ \E i \in DOMAIN dkRun.tunnels : /\ dkRun.tunnels[i].name = n
                                       /\ dkRemotes[n] # dkRun.tunnels[i].def
                                       /\ dkRemotes' = [dkRemotes EXCEPT ![n] = dkRun.tunnels[i].def]
    /\ dkSeen' = FALSE
    /\ UNCHANGED <<dkFile, dkFields, dkRows, dkStatus, dkRun, dkOld, dkGen0, dkTaskVars,
                   dkSaves, dkApart>>

DkDropRemotes ==
    /\ dkStatus = "running" /\ dkRemotes' = [n \in DkNames |-> DkNone] /\ dkSeen' = FALSE
    /\ UNCHANGED <<dkFile, dkFields, dkRows, dkStatus, dkRun, dkOld, dkGen0, dkTaskVars,
                   dkSaves, dkApart>>

\* A reload task: applied, the remotes of tunnels that go or change being removed; or
\* refused, without a client or its channel, by validate or by the client.
DkReload(r) ==
    /\ r \in dkReloads /\ dkReloads' = dkReloads \ {r}
    /\ \/ /\ dkStatus = "running" /\ dkRun # DkNone /\ DkValid(r.cfg)
          /\ dkRun' = r.cfg /\ dkApart' = (r.n # dkSaves)
            /\ dkRemotes' = [n \in DkNames |->
                  IF \E i \in DOMAIN r.cfg.tunnels : r.cfg.tunnels[i] = [name |-> n, def |-> dkRemotes[n]]
                  THEN dkRemotes[n] ELSE DkNone]
            /\ dkSeen' = (dkSeen /\ dkRemotes' = dkRemotes)
       \/ UNCHANGED <<dkRun, dkRemotes, dkSeen>> /\ dkApart' = (dkApart \/ DkActive)
    /\ UNCHANGED <<dkFile, dkFields, dkRows, dkStatus, dkOld, dkGen0, dkStops, dkSaves,
                   dkDouble>>

\* ClientHandle::stop begins.  While another stop waits for the client task, the
\* handle is empty: the status becomes Stopped at once.
DkStop ==
    /\ dkStops > 0 /\ dkStops' = dkStops - 1
    /\ dkDouble' = (dkDouble \/ dkStatus = "stopping")
    /\ IF dkStatus = "stopping"
       THEN /\ dkStatus' = "stopped" /\ dkRemotes' = [n \in DkNames |-> DkNone] /\ dkSeen' = FALSE
       ELSE /\ dkStatus' = IF DkActive THEN "stopping" ELSE dkStatus
            /\ UNCHANGED <<dkRemotes, dkSeen>>
    /\ UNCHANGED <<dkFile, dkFields, dkRows, dkRun, dkOld, dkGen0, dkReloads, dkSaves,
                   dkApart>>

\* The client task ends, told to or with an error; one the handle has given up
\* resets the handle all the same.
DkRunEnds ==
    /\ \/ dkRun # DkNone /\ dkRun' = DkNone /\ UNCHANGED dkOld
       \/ dkOld /\ dkOld' = FALSE /\ UNCHANGED dkRun
    /\ dkStatus' = "stopped" /\ dkRemotes' = [n \in DkNames |-> DkNone] /\ dkSeen' = FALSE
    /\ dkDouble' = (dkDouble /\ (dkRun' # DkNone \/ dkOld')) /\ dkApart' = (dkApart /\ dkRun' # DkNone)
    /\ UNCHANGED <<dkFile, dkFields, dkRows, dkGen0, dkReloads, dkStops, dkSaves>>

DkNext ==
    \/ \E row \in DkFormRows :
          DkAddTunnel(row) \/ \E i \in 1..Cardinality(DkNames) : DkEditTunnel(i, row)
    \/ \E i \in 1..Cardinality(DkNames) : DkDeleteTunnel(i)
    \/ \E s \in DkServers : DkTypeServer(s)
    \/ DkConfigSave \/ DkConfigReset \/ DkToggleStop \/ DkToggleStart \/ DkTick \/ DkReady
    \/ \E n \in DkNames : DkReport(n)
    \/ DkDropRemotes \/ DkStop \/ DkRunEnds \/ DkRestart
    \/ \E r \in dkReloads : DkReload(r)

DkSpec == DkInit /\ [][DkNext]_dkVars

-----------------------------------------------------------------------------
(* Properties.                                                             *)

\* The types of the variables.
DkTypeOK ==
    /\ DkIsConfig(dkFile) => /\ dkFile.server \in DkServers \cup {DkDefault}
                             /\ dkFile.id \in DkIds \cup {DkNone}
    /\ \A i \in DOMAIN dkRows : /\ dkRows[i].name \in DkNames /\ dkRows[i].def \in DkDefs
                                /\ dkRows[i].remote \in DkDefs \cup {DkNone}
    /\ dkStatus \in {"stopped", "starting", "running", "stopping"}
    /\ dkStops \in 0..DkMaxStops /\ dkSaves \in 0..DkMaxSaves

\* The tunnel page shows the tunnels of the file, in their order and as its form can hold
\* them, as long as the file can be loaded: a save that fails leaves both as they were.
DkRowsAreFile ==
    DkLoads(dkFile) => DkTunnels(dkRows) = DkTunnels(DkRowsOf(dkFile))

\* What the application saves it can load again; unless the form accepted a definition
\* that validate refuses, or a name that is another's but for a blank: both pages save
\* without validating, and from then on neither can save and no client can be started.
DkSavedLoads ==
    [][DkIsConfig(dkFile') /\ dkFile' # dkFile /\ ~DkValid(dkFile')
       => \E i \in DOMAIN dkRows' : dkRows'[i].pad \/ dkRows'[i].def \in DkInvalid]_dkVars

\* A client that runs, and that no reload is on its way to, runs what the file says;
\* unless it was started with fields that were not saved, or the last reload that
\* reached it was refused or was not the one of the last save.
DkClientFollowsFile ==
    dkStatus = "running" /\ dkReloads = {} /\ ~dkApart /\ DkLoads(dkFile) => dkRun = dkFile

\* Once the window has read the generation of the handle, every row shows the remote
\* address of its name and no other, whatever was saved, deleted or reported since; a row
\* whose name was typed with a blank shows none.
DkRemotesShown ==
    dkSeen => \A i \in DOMAIN dkRows :
                 dkRows[i].remote = IF dkRows[i].pad THEN DkNone ELSE dkRemotes[dkRows[i].name]

\* With the client stopped and no stop on its way, no client task is left; unless a
\* second stop was asked for while the first one waited.
DkStoppedIsStopped ==
    dkStatus = "stopped" /\ dkStops = 0 /\ ~dkDouble => dkRun = DkNone /\ ~dkOld

\* A TLS name nobody typed is the host of the server; unless the application read
\* the derived name back from the file, where it stays when the server changes.
DkNameFollowsServer ==
    [][DkIsConfig(dkFile) /\ DkIsConfig(dkFile') /\ dkFile' # dkFile
       => \/ dkFile'.sni = dkFile'.server \/ dkFields.sni # DkNone
          \/ dkFile'.sni = dkFile.sni /\ dkFile'.server = dkFile.server]_dkVars

\* The agent id in the file is never replaced by another one.
DkIdKept ==
    [][DkIsConfig(dkFile) /\ DkIsConfig(dkFile') /\ dkFile.id # DkNone => dkFile'.id = dkFile.id]_dkVars

\* The window shows the file and the remotes of the client.
DkWindowSound == DkTypeOK /\ DkRowsAreFile /\ DkRemotesShown

\* The client runs what the file says, and is gone when it was stopped.
DkClientSound == DkClientFollowsFile /\ DkStoppedIsStopped

\* A save writes a file that loads, with the TLS name of its server and the agent id it had.
DkSavesSound == DkSavedLoads /\ DkNameFollowsServer /\ DkIdKept
=============================================================================
