----------------------------- MODULE DataConns -----------------------------
(***************************************************************************)
(* The pool of data connections of one session, and the control stream     *)
(* that the requests for them travel on.                                   *)
(*                                                                         *)
(* A visitor of a tunnel needs a data connection, which only the client    *)
(* can open.  The server keeps some in a channel, asks for one more        *)
(* whenever it takes one, and asks for one and waits when there is none    *)
(* (control/session/data_pool.rs).  A request is a message on the control  *)
(* stream, written in several writes under the writer's lock and read in   *)
(* several reads (core/src/msg/codec.rs); here a message is two pieces,    *)
(* "head" and "body".  A future that is dropped between two of them, on    *)
(* either side, leaves the two sides with different ideas of where a       *)
(* message begins.                                                         *)
(*                                                                         *)
(* Data connections are interchangeable, so the module counts them.        *)
(***************************************************************************)
EXTENDS Naturals, Sequences, FiniteSets

CONSTANTS
    Users,       \* visitors, and the loops of udp tunnels, that need a data connection
    Cancellable, \* those whose get_data_conn is dropped when their tunnel is closed
    PoolCount,   \* Control.pool_count
    Cap,         \* capacity of the channel (64 in the code)
    MaxFaults    \* data connections that cannot be opened

ASSUME PoolAssumptions ==
    /\ Cancellable \subseteq Users
    /\ IsFiniteSet(Users)
    /\ PoolCount \in Nat
    /\ Cap \in Nat \ {0}
    /\ MaxFaults \in Nat
    /\ Users \cap {"run", "bg", "none"} = {}

VARIABLES
    closed,    \* Control.closed
    initial,   \* requests that run has yet to write
    writer,    \* who is in the middle of writing a message, or "none"
    wire,      \* the control stream from server to client, as pieces
    user,      \* user[u]: where get_data_conn is
    refills,   \* refill tasks that have yet to write
    pool,      \* connections in the channel
    pushing,   \* connections whose push_data_conn waits for the channel
    reader,    \* what the client's read_msg reads next
    up,        \* the client's control connection is up
    opening,   \* client tasks that open a data connection
    ended,     \* client tasks that have ended and are not joined yet
    faults,    \* data connections that could not be opened
    missed,    \* users that found the channel empty and have asked (history)
    damage     \* what a dropped future has lost: a "written" or a "read" half of a
               \* message, a "conn" (history)

vars == <<closed, initial, writer, wire, user, refills, pool, pushing, reader, up, opening, ended,
          faults, missed, damage>>

pooled == <<pool, pushing>>
stream == <<writer, wire>>
client == <<reader, up, opening, ended, faults>>
history == <<missed, damage>>

\* The types of the variables.
TypeOK ==
    /\ closed \in BOOLEAN /\ up \in BOOLEAN
    /\ initial \in 0..PoolCount
    /\ writer \in Users \cup {"run", "bg", "none"}
    /\ wire \in Seq({"head", "body"})
    /\ user \in [Users -> {"idle", "ask", "asking", "wait", "refill", "joined", "done", "failed"}]
    /\ {refills, pool, pushing, opening, ended} \subseteq Nat
    /\ pool <= Cap
    /\ reader \in {"head", "body", "lost"}
    /\ faults \in 0..MaxFaults
    /\ missed \subseteq Users
    /\ damage \subseteq {"written", "read", "conn"}

Init ==
    /\ closed = FALSE /\ up = TRUE
    /\ initial = PoolCount
    /\ writer = "none" /\ wire = <<>>
    /\ user = [u \in Users |-> "idle"]
    /\ refills = 0 /\ pool = 0 /\ pushing = 0
    /\ reader = "head"
    /\ opening = 0 /\ ended = 0 /\ faults = 0
    /\ missed = {} /\ damage = {}

At(u, p) == user' = [user EXCEPT ![u] = p]

-----------------------------------------------------------------------------
(* The server writes: request_data_conn, by run, by a user, by a refill.   *)

\* MUTANT: the writer is not locked.
WriteHeadUnlocked(w) == writer' = w /\ wire' = Append(wire, "head")

WriteHead(w) == writer = "none" /\ writer' = w /\ wire' = Append(wire, "head")
WriteBody(w) == writer = w /\ writer' = "none" /\ wire' = Append(wire, "body")

\* run fills the pool before it reads its first message.
RunAsks ==
    /\ initial > 0
    /\ \/ ~closed /\ WriteHead("run") /\ UNCHANGED initial
       \/ WriteBody("run") /\ initial' = initial - 1
    /\ UNCHANGED <<closed, user, refills, pooled, client, history>>

\* spawn_refill's task, at most one of them writing.
Refill ==
    /\ refills > 0
    /\ \/ ~closed /\ WriteHead("bg") /\ UNCHANGED refills
       \/ WriteBody("bg") /\ refills' = refills - 1
       \/ closed /\ writer # "bg" /\ refills' = refills - 1 /\ UNCHANGED stream
    /\ UNCHANGED <<closed, initial, user, pooled, client, history>>

-----------------------------------------------------------------------------
(* get_data_conn.                                                          *)

\* Tunnels, and so users, only come after run has filled the pool.
Arrive(u) ==
    /\ user[u] = "idle"
    /\ initial = 0
    /\ \/ pool > 0 /\ pool' = pool - 1 /\ At(u, "refill")
       \/ pool = 0 /\ At(u, "ask") /\ UNCHANGED pool
    /\ UNCHANGED <<closed, initial, stream, refills, pushing, client, history>>

Ask(u) ==
    /\ user[u] = "ask"
    /\ \/ ~closed /\ WriteHead(u) /\ At(u, "asking")
       \/ closed /\ At(u, "failed") /\ UNCHANGED stream
    /\ UNCHANGED <<closed, initial, refills, pooled, client, history>>

Asked(u) ==
    /\ user[u] = "asking"
    /\ WriteBody(u)
    /\ At(u, "wait")
    /\ missed' = missed \cup {u}
    /\ UNCHANGED <<closed, initial, refills, pooled, client, damage>>

\* Woken by a push or by its 100 ms timer, it looks again.
Pop(u) ==
    /\ user[u] = "wait"
    /\ ~closed /\ pool > 0
    /\ pool' = pool - 1
    /\ At(u, "refill")
    /\ UNCHANGED <<closed, initial, stream, refills, pushing, client, history>>

\* MUTANT: the loop does not look at closed.
GiveUpAtDeadline(u) ==
    /\ user[u] = "wait"
    /\ pool = 0 /\ ~closed
    /\ At(u, "failed")
    /\ UNCHANGED <<closed, initial, stream, refills, pooled, client, history>>

\* Ten seconds are over, or the Control was closed.
GiveUp(u) ==
    /\ user[u] = "wait"
    /\ pool = 0 \/ closed
    /\ At(u, "failed")
    /\ UNCHANGED <<closed, initial, stream, refills, pooled, client, history>>

SeeClosed(u) == closed /\ GiveUp(u)

\* MUTANT: only a user that had to wait causes a refill.
SpawnRefillAfterWait(u) ==
    /\ user[u] = "refill"
    /\ refills' = IF closed \/ u \notin missed THEN refills ELSE refills + 1
    /\ At(u, "joined")
    /\ UNCHANGED <<closed, initial, stream, pooled, client, history>>

SpawnRefill(u) ==
    /\ user[u] = "refill"
    /\ refills' = IF closed THEN refills ELSE refills + 1
    /\ At(u, "joined")
    /\ UNCHANGED <<closed, initial, stream, pooled, client, history>>

\* The visitor or the service hangs up; the client's task for it ends.
Leave(u) ==
    /\ user[u] = "joined"
    /\ At(u, "done")
    /\ ended' = ended + 1
    /\ UNCHANGED <<closed, initial, stream, refills, pooled, reader, up, opening, faults, history>>

\* The tunnel is closed and drops the future where it awaits: in the middle of a
\* message, or with the connection it has just taken.
Drop(u) ==
    /\ u \in Cancellable
    /\ user[u] \in {"ask", "asking", "wait", "refill"}
    /\ At(u, "failed")
    /\ writer' = IF writer = u THEN "none" ELSE writer
    /\ damage' = CASE user[u] = "asking" -> damage \cup {"written"}
                   [] user[u] = "refill" -> damage \cup {"conn"}
                   [] OTHER -> damage
    /\ ended' = IF user[u] = "refill" THEN ended + 1 ELSE ended
    /\ UNCHANGED <<closed, initial, wire, refills, pooled, reader, up, opening, faults, missed>>

-----------------------------------------------------------------------------
(* The client: reader_loop and the tasks it starts.                        *)

Take == wire # <<>> /\ wire' = Tail(wire)
Synced == wire # <<>> /\ Head(wire) = reader

ReadHead ==
    /\ up /\ reader = "head" /\ Synced /\ Take
    /\ reader' = "body"
    /\ UNCHANGED <<closed, initial, writer, user, refills, pooled, up, opening, ended, faults, history>>

\* A request: tasks that have ended are joined and a new one is started.
ReadBody ==
    /\ up /\ reader = "body" /\ Synced /\ Take
    /\ reader' = "head"
    /\ opening' = opening + 1
    /\ ended' = 0
    /\ UNCHANGED <<closed, initial, writer, user, refills, pooled, up, faults, history>>

\* What is read is no message: an error, or a length that swallows what follows.
Misread ==
    /\ up /\ wire # <<>> /\ ~Synced /\ Take
    /\ \/ up' = FALSE /\ UNCHANGED reader
       \/ reader' = "lost" /\ UNCHANGED up
    /\ UNCHANGED <<closed, initial, writer, user, refills, pooled, opening, ended, faults, history>>

\* A task has ended: the select joins it and drops the read_msg that was waiting.
JoinEnded ==
    /\ up /\ ended > 0
    /\ ended' = ended - 1
    /\ \/ reader = "head" /\ UNCHANGED <<reader, damage>>
       \/ reader = "body" /\ reader' = "head" /\ damage' = damage \cup {"read"}
       \/ reader = "lost" /\ reader' \in {"head", "lost"} /\ UNCHANGED damage
    /\ UNCHANGED <<closed, initial, stream, user, refills, pooled, up, opening, faults, missed>>

\* heartbeat_timeout_loop: no Pong gets through any more.
HeartbeatTimeout ==
    /\ up /\ reader = "lost"
    /\ up' = FALSE
    /\ UNCHANGED <<closed, initial, stream, user, refills, pooled, reader, opening, ended, faults, history>>

\* handle_req_data_conn; register_data_conn looks the session up and pushes.
Open ==
    /\ opening > 0
    /\ opening' = opening - 1
    /\ \/ up /\ ~closed /\ pushing' = pushing + 1 /\ UNCHANGED <<ended, faults>>
       \/ (~up \/ closed) /\ ended' = ended + 1 /\ UNCHANGED <<pushing, faults>>
       \/ faults < MaxFaults /\ faults' = faults + 1 /\ ended' = ended + 1 /\ UNCHANGED pushing
    /\ UNCHANGED <<closed, initial, stream, user, refills, pool, reader, up, history>>

\* push_data_conn; the channel may be full.
Push ==
    /\ pushing > 0 /\ pool < Cap
    /\ pushing' = pushing - 1
    /\ pool' = pool + 1
    /\ UNCHANGED <<closed, initial, stream, user, refills, client, history>>

\* run ends: the client is gone, or the session is replaced or kicked.
Close ==
    /\ ~closed
    /\ closed' = TRUE
    /\ UNCHANGED <<initial, stream, user, refills, pooled, client, history>>

SeeGone == ~up /\ Close
-----------------------------------------------------------------------------
UserStep(u) == Arrive(u) \/ Ask(u) \/ Asked(u) \/ Pop(u) \/ SpawnRefill(u) \/ Leave(u)
ClientStep == ReadHead \/ ReadBody \/ Misread \/ JoinEnded \/ HeartbeatTimeout

Next ==
    \/ RunAsks \/ Refill \/ ClientStep \/ Open \/ Push \/ Close
    \/ \E u \in Users : UserStep(u) \/ GiveUp(u) \/ Drop(u)

Spec == Init /\ [][Next]_vars

\* Tasks are scheduled; a broken connection and a closed Control are noticed.
\* Nothing says that a user gives up, a tunnel is closed or a visitor leaves.
Fairness ==
    /\ WF_vars(RunAsks) /\ WF_vars(Refill)
    /\ WF_vars(ClientStep) /\ WF_vars(HeartbeatTimeout)
    /\ WF_vars(Open) /\ WF_vars(Push) /\ WF_vars(SeeGone)
    /\ \A u \in Users : /\ WF_vars(Ask(u) \/ Asked(u)) /\ WF_vars(Pop(u) \/ SeeClosed(u))
                        /\ WF_vars(SpawnRefill(u))

FairSpec == Spec /\ Fairness

-----------------------------------------------------------------------------
(* Properties.                                                             *)

Other(p) == IF p = "head" THEN "body" ELSE "head"

\* The stream, from where the reader is to where the writer is, is whole messages.
Aligned ==
    /\ up /\ reader # "lost"
    /\ wire # <<>> => wire[1] = reader
    /\ \A i \in 1..(Len(wire) - 1) : wire[i + 1] = Other(wire[i])
    /\ (writer = "none") <=> (IF wire = <<>> THEN reader = "head" ELSE wire[Len(wire)] = "body")

\* Writer and reader agree on where messages begin unless a future was dropped in
\* the middle of one: the writer's lock alone keeps the requests of run, of users
\* and of refills apart.
WholeMessages == damage \cap {"written", "read"} = {} => Aligned

\* Requests and connections under way or in the pool.
Supply ==
    initial + refills + Cardinality({i \in 1..Len(wire) : wire[i] = "body"}) + opening + pushing + pool

Refilling == {u \in Users : user[u] = "refill"}

\* The pool neither loses nor gains a connection while a session is up, except that
\* every user that found it empty leaves it larger by one.
PoolAccounts ==
    damage = {} /\ faults = 0 /\ ~closed =>
        Supply + Cardinality(Refilling) = PoolCount + Cardinality(missed)

\* The pool is within its bounds and its connections are accounted for.
PoolSound == TypeOK /\ PoolAccounts

\* Unless the server closes the session, the client's control connection stays up,
\* whatever happens to tunnels and visitors.
KeepsControlUp == up \/ closed

\* As long as no future is dropped in the wrong place and every connection can be
\* opened, a user that waits gets its connection without giving up, or its session is
\* closed: a connection that another user takes from under it is replaced.
Smooth == damage = {} /\ faults = 0
WaitEnds == \A u \in Users : user[u] = "wait" /\ Smooth ~> user[u] # "wait" \/ ~Smooth
=============================================================================
