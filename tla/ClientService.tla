--------------------------- MODULE ClientService ---------------------------
(***************************************************************************)
(* The client's service loop (client/src/service.rs): connect, log in,     *)
(* serve a session, come back after a disconnect, and apply reload         *)
(* requests whenever they arrive, also in the middle of a login.           *)
(*                                                                         *)
(* One client talks to the server over a sequence of connections, its      *)
(* attempts 1, 2, ...  Of the server the module keeps what decides over    *)
(* the client's next login: which seconds' login digests it has seen, and  *)
(* on which session and by which attempt the client's agent is online.     *)
(* How the server gets there is in Sessions.                               *)
(*                                                                         *)
(* A configuration is a pair <<connection settings, tunnels>>.             *)
(***************************************************************************)
EXTENDS Naturals, Sequences

CONSTANTS
    Conns,        \* connection settings
    Tunnels,      \* sets of tunnels, as opaque values
    Reqs,         \* reload requests
    MaxAttempts,  \* connections the client opens
    MaxFaults,    \* connections that break or cannot be opened
    MaxKicks,     \* kicks by the dashboard
    MaxSecs,      \* the clock, in seconds
    WithAgent,    \* the client has an agent id
    WithToken,    \* the server asks for a token
    Stops,        \* the client may be stopped
    HangsUp,      \* the handle may drop its end of the reload channel
    None

ASSUME ServiceAssumptions ==
    /\ {MaxAttempts, MaxFaults, MaxKicks, MaxSecs} \subseteq Nat
    /\ {WithAgent, WithToken, Stops, HangsUp} \subseteq BOOLEAN
    /\ None \notin Conns \cup Tunnels \cup Reqs \cup Nat

VARIABLES
    pc,        \* where Service::run is
    cfg,       \* the shared configuration
    sid,       \* the session id that the next login presents, 0 for none
    k,         \* the present attempt
    snap,      \* the configuration the present attempt works with
    done,      \* the session's end as its runner reports it
    left,      \* left[i]: how the client left attempt i
    queue,     \* reload_rx
    want,      \* want[r]: the configuration of request r, None for an invalid one
    reply,     \* reply[r]: the answer to request r
    held,      \* the request whose answer waits for the reconnect
    hung,      \* the handle has dropped its sender of reload_rx
    cancel,    \* the cancellation token
    exit,      \* why run returned
    conn,      \* conn[i]: attempt i as the server sees it
    cut,       \* cut[i]: attempt i is broken or closed by the client
    login,     \* login[i]: [sid, sec] of attempt i's login
    agent,     \* AgentRegistry entry of the client: [ses, gen], or None
    seen,      \* ReplayCache: seconds whose digest was used
    faults, kicks, now, since

client == <<pc, cfg, sid, k, snap, done, left, exit>>
reloads == <<queue, want, reply, held, hung>>
server == <<conn, login, agent, seen>>
world == <<faults, kicks, now, since>>
vars == <<client, reloads, server, world, cancel, cut>>

Configs == Conns \X Tunnels
Attempts == 1..MaxAttempts
SessionIds == 0..MaxAttempts

\* The types of the variables.
TypeOK ==
    /\ pc \in {"top", "login", "session", "waitEnd", "cancelEnd", "drain", "backoff", "stopped"}
    /\ cfg \in Configs /\ snap \in Configs
    /\ sid \in SessionIds /\ k \in SessionIds
    /\ done \in {"none", "kicked", "disconnected"}
    /\ left \in [Attempts -> {"no", "aborted", "reload", "disconnected", "hurried", "kicked", "stopped"}]
    /\ queue \in Seq(Reqs)
    /\ want \in [Reqs -> Configs \cup {None}]
    /\ reply \in [Reqs -> {"unsent", "queued", "held", "ok", "err"}]
    /\ held \in Reqs \cup {None}
    /\ cancel \in BOOLEAN /\ hung \in BOOLEAN
    /\ exit \in {"none", "stopped", "rejected", "kicked"}
    /\ conn \in [Attempts -> {"none", "sent", "up", "kick", "refused", "over"}]
    /\ cut \in [Attempts -> BOOLEAN]
    /\ login \in [Attempts -> [sid : SessionIds, sec : 0..MaxSecs] \cup {None}]
    /\ agent \in [ses : Attempts, gen : Attempts] \cup {None}
    /\ seen \subseteq 0..MaxSecs
    /\ faults \in 0..MaxFaults /\ kicks \in 0..MaxKicks
    /\ now \in 0..MaxSecs /\ since \in 0..MaxSecs

Init ==
    /\ pc = "top"
    /\ cfg \in Configs /\ snap = cfg
    /\ sid = 0 /\ k = 0
    /\ done = "none"
    /\ left = [i \in Attempts |-> "no"]
    /\ queue = <<>>
    /\ want = [r \in Reqs |-> None]
    /\ reply = [r \in Reqs |-> "unsent"]
    /\ held = None
    /\ cancel = FALSE /\ hung = FALSE
    /\ exit = "none"
    /\ conn = [i \in Attempts |-> "none"]
    /\ cut = [i \in Attempts |-> FALSE]
    /\ login = [i \in Attempts |-> None]
    /\ agent = None
    /\ seen = {}
    /\ faults = 0 /\ kicks = 0 /\ now = 0 /\ since = 0

-----------------------------------------------------------------------------
(* Reload requests.                                                        *)

\* ClientHandle::send_reload.
SendReload(r) ==
    /\ reply[r] = "unsent"
    /\ pc # "stopped" /\ ~hung
    /\ \E c \in Configs \cup {None} : want' = [want EXCEPT ![r] = c]
    /\ queue' = Append(queue, r)
    /\ reply' = [reply EXCEPT ![r] = "queued"]
    /\ UNCHANGED <<client, held, hung, server, world, cancel, cut>>

\* fail_pending_reload, and the requests still queued when the receiver is dropped.
Unanswered(r) == reply[r] \in {"queued", "held"}

\* No sender is left: send_reload keeps a clone until it has its answer.
SenderGone == hung /\ \A r \in Reqs : ~Unanswered(r)

Stop(why) ==
    /\ pc' = "stopped"
    /\ exit' = why
    /\ reply' = [r \in Reqs |-> IF Unanswered(r) THEN "err" ELSE reply[r]]
    /\ held' = None
    /\ queue' = <<>>

\* serve_reload_request without a session: the configuration is only stored.
ServeReload ==
    LET r == Head(queue) IN
    /\ queue # <<>>
    /\ queue' = Tail(queue)
    /\ cfg' = IF want[r] = None THEN cfg ELSE want[r]
    /\ reply' = [reply EXCEPT ![r] = IF want[r] = None THEN "err" ELSE "ok"]

\* drain_reload_requests, before a login and after a session.
DrainReload ==
    /\ pc \in {"top", "drain"}
    /\ ~(pc = "top" /\ cancel)
    /\ ServeReload
    /\ UNCHANGED <<pc, sid, k, snap, done, left, exit, want, hung, held, server, world, cancel, cut>>

-----------------------------------------------------------------------------
(* Service::run.                                                           *)

Leave(how) == left' = [left EXCEPT ![k] = how] /\ cut' = [cut EXCEPT ![k] = TRUE]

TopCancelled ==
    /\ pc = "top" /\ cancel
    /\ Stop("stopped")
    /\ UNCHANGED <<cfg, sid, k, snap, done, left, want, hung, server, world, cancel, cut>>

\* open_session: snapshot the configuration, connect and write the Login message.
\* Without a sender recv is always ready, with None, and the loop continues before
\* open_session gets anywhere.
OpenSession ==
    /\ pc = "top" /\ ~cancel /\ queue = <<>> /\ ~SenderGone
    /\ k < MaxAttempts
    /\ k' = k + 1
    /\ snap' = cfg
    /\ conn' = [conn EXCEPT ![k'] = "sent"]
    /\ login' = [login EXCEPT ![k'] = [sid |-> sid, sec |-> now]]
    /\ done' = "none"
    /\ pc' = "login"
    /\ UNCHANGED <<cfg, sid, left, exit, reloads, agent, seen, world, cancel, cut>>

ConnectFails ==
    /\ pc = "top" /\ ~cancel /\ queue = <<>> /\ ~SenderGone
    /\ faults < MaxFaults
    /\ faults' = faults + 1
    /\ pc' = "backoff" /\ since' = now
    /\ UNCHANGED <<cfg, sid, k, snap, done, left, exit, reloads, server, kicks, now, cancel, cut>>

\* The select in run drops a login that is under way, or its failure comes after the
\* cancellation.
LoginCancelled ==
    /\ pc = "login" /\ cancel
    /\ Leave("stopped")
    /\ Stop("stopped")
    /\ UNCHANGED <<cfg, sid, k, snap, done, want, hung, server, world, cancel>>

\* MUTANT: the login under way is kept although the configuration has changed.
LoginKept ==
    /\ pc = "login"
    /\ ServeReload
    /\ UNCHANGED <<pc, sid, k, snap, done, left, exit, want, hung, held, server, world, cancel, cut>>

LoginAborted ==
    /\ pc = "login"
    /\ ServeReload
    /\ Leave("aborted")
    /\ pc' = "top"
    /\ UNCHANGED <<sid, k, snap, done, exit, want, hung, held, server, world, cancel>>

\* recv yields None.
LoginHungUp ==
    /\ pc = "login"
    /\ SenderGone
    /\ Leave("aborted")
    /\ pc' = "top"
    /\ UNCHANGED <<cfg, sid, k, snap, done, exit, reloads, server, world, cancel>>

\* No LoginResp: the connection broke before it was read.
LoginLost ==
    /\ pc = "login" /\ ~cancel
    /\ cut[k] \/ conn[k] = "over"
    /\ Leave("aborted")
    /\ pc' = "backoff" /\ since' = now
    /\ UNCHANGED <<cfg, sid, k, snap, done, exit, reloads, server, faults, kicks, now, cancel>>

LoginRejected ==
    /\ pc = "login" /\ ~cancel
    /\ conn[k] = "refused"
    /\ Leave("stopped")
    /\ Stop("rejected")
    /\ UNCHANGED <<cfg, sid, k, snap, done, want, hung, server, world, cancel>>

\* LoginResp without an error: the tunnels are registered and a reload that
\* waited for the reconnect is answered.
LoginOk ==
    /\ pc = "login"
    /\ conn[k] \in {"up", "kick"}
    /\ reply' = IF held = None THEN reply ELSE [reply EXCEPT ![held] = "ok"]
    /\ held' = None
    /\ pc' = "session"
    /\ UNCHANGED <<cfg, sid, k, snap, done, left, exit, queue, want, hung, server, world, cancel, cut>>

\* Control::new gives a login without a session id a new one.
SessionId(i) == IF login[i].sid = 0 THEN i ELSE login[i].sid

\* MUTANT: request_disconnect does not reach the reader.
ReaderIgnoresCancel ==
    /\ pc \in {"session", "waitEnd", "cancelEnd"}
    /\ done = "none"
    /\ \/ conn[k] = "kick" /\ done' = "kicked"
       \/ (cut[k] \/ conn[k] = "over") /\ done' = "disconnected"
    /\ cut' = [cut EXCEPT ![k] = TRUE]
    /\ UNCHANGED <<pc, cfg, sid, k, snap, left, exit, reloads, server, world, cancel>>

\* The session's runner: reader_loop has returned and the connection is shut down.
ReaderEnds ==
    /\ pc \in {"session", "waitEnd", "cancelEnd"}
    /\ done = "none"
    /\ \/ conn[k] = "kick" /\ done' = "kicked"
       \/ (cut[k] \/ conn[k] = "over" \/ pc # "session") /\ done' = "disconnected"
    /\ cut' = [cut EXCEPT ![k] = TRUE]
    /\ UNCHANGED <<pc, cfg, sid, k, snap, left, exit, reloads, server, world, cancel>>

\* run_session_loop, a reload request: apply_reload with the session's Control.
\* New connection settings end the session (request_disconnect).
ReloadInSession ==
    LET r == Head(queue)
        c == want[r]
    IN  /\ pc = "session"
        /\ queue # <<>>
        /\ queue' = Tail(queue)
        /\ \/ /\ c = None
              /\ reply' = [reply EXCEPT ![r] = "err"]
              /\ UNCHANGED <<pc, cfg, snap, held>>
           \/ /\ c # None /\ c[1] = cfg[1]
              /\ reply' = [reply EXCEPT ![r] = "ok"]
              /\ cfg' = c
              /\ snap' = IF cut[k] THEN snap ELSE c
              /\ UNCHANGED <<pc, held>>
           \/ /\ c # None /\ c[1] # cfg[1]
              /\ reply' = [reply EXCEPT ![r] = "held"]
              /\ cfg' = c
              /\ held' = r
              /\ pc' = "waitEnd"
              /\ UNCHANGED snap
        /\ UNCHANGED <<sid, k, done, left, exit, want, hung, server, world, cancel, cut>>

\* recv yields None: request_disconnect, and wait for the session's end.
SessionHungUp ==
    /\ pc = "session"
    /\ SenderGone /\ ~cut[k]
    /\ cut' = [cut EXCEPT ![k] = TRUE]
    /\ UNCHANGED <<client, reloads, server, world, cancel>>

\* done.await: whatever the session ended with, the loop reconnects at once.
ReloadReconnect ==
    /\ pc = "waitEnd"
    /\ done # "none"
    /\ Leave("reload")
    /\ pc' = "top"
    /\ UNCHANGED <<cfg, sid, k, snap, done, exit, reloads, server, world, cancel>>

SessionCancelled ==
    /\ pc = "session" /\ cancel
    /\ pc' = "cancelEnd"
    /\ UNCHANGED <<cfg, sid, k, snap, done, left, exit, reloads, server, world, cancel, cut>>

CancelEnds ==
    /\ pc = "cancelEnd"
    /\ done # "none"
    /\ Leave("stopped")
    /\ Stop("stopped")
    /\ UNCHANGED <<cfg, sid, k, snap, done, want, hung, server, world, cancel>>

\* MUTANT: a kick is taken for a disconnect.
SessionKickedDisconnects ==
    /\ pc = "session" /\ done = "kicked"
    /\ Leave("disconnected")
    /\ sid' = SessionId(k)
    /\ pc' = "drain"
    /\ UNCHANGED <<cfg, k, snap, done, exit, reloads, server, world, cancel>>

SessionKicked ==
    /\ pc = "session" /\ done = "kicked"
    /\ Leave("kicked")
    /\ Stop("kicked")
    /\ UNCHANGED <<cfg, sid, k, snap, done, want, hung, server, world, cancel>>

\* MUTANT: the session id is not kept for the next login.
DisconnectedForgets ==
    /\ pc = "session" /\ done = "disconnected"
    /\ ~cancel
    /\ Leave("disconnected")
    /\ pc' = "drain"
    /\ UNCHANGED <<cfg, sid, k, snap, done, exit, reloads, server, world, cancel>>

Disconnected ==
    /\ pc = "session" /\ done = "disconnected"
    /\ \/ /\ cancel
          /\ Leave("stopped")
          /\ Stop("stopped")
          /\ UNCHANGED sid
       \/ /\ ~cancel
          /\ Leave("disconnected")
          /\ sid' = SessionId(k)
          /\ pc' = "drain"
          /\ UNCHANGED <<exit, reply, held, queue>>
    /\ UNCHANGED <<cfg, k, snap, done, want, hung, server, world, cancel>>

Drained ==
    /\ pc = "drain" /\ queue = <<>>
    /\ pc' = "backoff" /\ since' = now
    /\ UNCHANGED <<cfg, sid, k, snap, done, left, exit, reloads, server, faults, kicks, now,
                   cancel, cut>>

\* MUTANT: the sleep is not among the branches of the select.
BackoffNeverOver ==
    /\ pc = "backoff"
    /\ cancel
    /\ pc' = "top"
    /\ UNCHANGED <<cfg, sid, k, snap, done, left, exit, reloads, server, world, cancel, cut>>

\* wait_or_reload: at least one second, unless a reload request comes in.  Seconds
\* only matter with a token; without one the clock may stand still at its bound.
BackoffOver ==
    /\ pc = "backoff"
    /\ now > since \/ (now = MaxSecs /\ ~WithToken) \/ SenderGone
    /\ pc' = "top"
    /\ UNCHANGED <<cfg, sid, k, snap, done, left, exit, reloads, server, world, cancel, cut>>

\* A request cuts the wait short.
BackoffReload ==
    /\ pc = "backoff"
    /\ ServeReload
    /\ pc' = "top"
    /\ left' = [i \in Attempts |-> IF i = k /\ left[i] = "disconnected" THEN "hurried" ELSE left[i]]
    /\ UNCHANGED <<sid, k, snap, done, exit, want, hung, held, server, world, cancel, cut>>

BackoffCancelled ==
    /\ pc = "backoff" /\ cancel
    /\ Stop("stopped")
    /\ UNCHANGED <<cfg, sid, k, snap, done, left, want, hung, server, world, cancel, cut>>

\* clear_reload_tx by a stop of an earlier run (ClientHandle): the sender is dropped.
HangUp ==
    /\ HangsUp /\ ~hung /\ pc # "stopped"
    /\ hung' = TRUE
    /\ UNCHANGED <<client, queue, want, reply, held, server, world, cancel, cut>>

\* ClientHandle::stop, or a termination signal.
Cancel ==
    /\ Stops /\ ~cancel /\ pc # "stopped"
    /\ cancel' = TRUE
    /\ UNCHANGED <<client, reloads, server, world, cut>>

-----------------------------------------------------------------------------
(* The server, as far as this client's logins can tell.                    *)

\* verify_login remembers the digest of the token and the second.
Replayed(i) == WithToken /\ login[i].sec \in seen

\* try_online: the agent is online on another session.
Conflict(i) == WithAgent /\ agent # None /\ agent.ses # SessionId(i)

\* register_control.  A login on the session of the agent replaces its Control.
ServerLogin(i) ==
    /\ conn[i] = "sent"
    /\ seen' = IF WithToken THEN seen \cup {login[i].sec} ELSE seen
    /\ \/ /\ Replayed(i) \/ Conflict(i)
          /\ conn' = [conn EXCEPT ![i] = "refused"]
          /\ UNCHANGED agent
       \/ /\ ~Replayed(i) /\ ~Conflict(i)
          /\ conn' = [j \in Attempts |->
                        IF j = i THEN "up"
                        ELSE IF conn[j] = "up" /\ SessionId(j) = SessionId(i) THEN "over"
                        ELSE conn[j]]
          /\ agent' = [ses |-> SessionId(i), gen |-> i]
    /\ UNCHANGED <<client, reloads, login, world, cancel, cut>>

Release(i) == agent' = IF agent # None /\ agent.gen = i THEN None ELSE agent

\* The server notices that the client is gone and shuts the Control down.
ServerNotices(i) ==
    /\ cut[i]
    /\ conn[i] \in {"sent", "up", "kick", "refused"}
    /\ conn' = [conn EXCEPT ![i] = "over"]
    /\ Release(i)
    /\ UNCHANGED <<client, reloads, login, seen, world, cancel, cut>>

\* kick_client: the client is sent KickOut.
ServerKick(i) ==
    /\ kicks < MaxKicks
    /\ conn[i] = "up"
    /\ kicks' = kicks + 1
    /\ conn' = [conn EXCEPT ![i] = "kick"]
    /\ Release(i)
    /\ UNCHANGED <<client, reloads, login, seen, faults, now, since, cancel, cut>>

\* The connection breaks, or heartbeats no longer get through.
Break ==
    /\ faults < MaxFaults
    /\ k > 0 /\ ~cut[k] /\ pc # "stopped"
    /\ faults' = faults + 1
    /\ cut' = [cut EXCEPT ![k] = TRUE]
    /\ UNCHANGED <<client, reloads, server, kicks, now, since, cancel>>

Tick ==
    /\ now < MaxSecs
    /\ now' = now + 1
    /\ UNCHANGED <<client, reloads, server, faults, kicks, since, cancel, cut>>

-----------------------------------------------------------------------------
ServiceStep ==
    \/ DrainReload \/ TopCancelled \/ OpenSession \/ LoginCancelled \/ LoginAborted \/ LoginHungUp \/ LoginLost
    \/ LoginRejected \/ LoginOk \/ ReaderEnds \/ ReloadInSession \/ SessionHungUp \/ ReloadReconnect
    \/ SessionCancelled \/ CancelEnds \/ SessionKicked \/ Disconnected \/ Drained \/ BackoffOver
    \/ BackoffReload \/ BackoffCancelled

Next ==
    \/ ServiceStep \/ ConnectFails \/ Cancel \/ HangUp \/ Break \/ Tick
    \/ \E r \in Reqs : SendReload(r)
    \/ \E i \in Attempts : ServerLogin(i) \/ ServerNotices(i) \/ ServerKick(i)

Spec == Init /\ [][Next]_vars

\* The service task and the server's tasks are scheduled, and time passes.
Fairness ==
    /\ WF_vars(ServiceStep)
    /\ WF_vars(Tick)
    /\ \A i \in Attempts : WF_vars(ServerLogin(i)) /\ WF_vars(ServerNotices(i))

FairSpec == Spec /\ Fairness

-----------------------------------------------------------------------------
(* Properties.                                                             *)

\* The session in use was opened with the configuration in force, and every later
\* reload reached it: a reload that arrives during a login is not lost.
SessionMatchesConfig == pc = "session" /\ ~cut[k] => snap = cfg

\* A request whose answer waits for the reconnect is the one run holds on to; it is
\* neither forgotten nor overwritten by the next one.
HeldIsPending == \A r \in Reqs : reply[r] = "held" <=> held = r

\* Between its steps the loop never mixes up what belongs to which session: the one in
\* use has the configuration in force, the answer that waits is the one that is held.
ServiceConsistent == TypeOK /\ SessionMatchesConfig /\ HeldIsPending

\* A client that is refused was in its own way: it left an earlier session for a
\* reload, or left a login before it knew its session id, or a reload made it come
\* back within the second, with the same digest.  Coming back after a disconnect and
\* the wait that follows is never refused.
RejectionHasCause ==
    exit = "rejected" =>
        \E i \in Attempts :
            \/ left[i] \in {"aborted", "reload"}
            \/ WithToken /\ left[i] = "hurried"

\* A client that was told to go logs in again only if a reload was reconnecting it.
KickedReturnsByReload == [][done = "kicked" /\ k' # k => left[k] = "reload"]_vars

\* A reload that changes connection settings reconnects: it never ends the client.
ReconnectsAutomatically == exit # "rejected"

\* Every reload request is answered.
ReloadAnswered == \A r \in Reqs : reply[r] = "queued" ~> reply[r] \in {"ok", "err"}

\* A client that lost its session has one again, or stops for a reason.
ComesBack == pc = "backoff" ~> pc \in {"session", "stopped"}
=============================================================================
