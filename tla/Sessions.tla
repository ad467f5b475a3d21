------------------------------ MODULE Sessions ------------------------------
(***************************************************************************)
(* Logging in, being replaced, being kicked: the server's session table    *)
(* and its agent registry.                                                 *)
(*                                                                         *)
(* The table maps a session id to the Control that serves it and to a      *)
(* gate, a mutex that a login, a kick, a removal and the lookup for a data *)
(* connection take one after the other.  The gate lives in the entry it    *)
(* protects, so it is found, locked and then checked again.  The agent     *)
(* registry remembers which agent is online, on which session and by which *)
(* login (its generation).                                                 *)
(*                                                                         *)
(* Each login attempt is one member of Controls: its Control object, its   *)
(* generation and the task that serves it.  What a Control does while it   *)
(* runs, and the inside of shutdown, are in TunnelSlots.                   *)
(***************************************************************************)
EXTENDS Naturals

CONSTANTS
    Controls,   \* login attempts
    Sids,       \* session ids
    Agents,     \* keys of explicit agent ids: compose_key(user, agent_id)
    Logins,     \* the <<session id, agent id>> pairs that clients log in with
    Kicked,     \* session ids the dashboard asks to kick
    Dialed,     \* session ids that data connections name
    NoAgent, None

ASSUME SessionAssumptions ==
    /\ Logins \subseteq Sids \X (Agents \cup {NoAgent})
    /\ Kicked \cup Dialed \subseteq Sids
    /\ None \notin Controls \cup Sids \cup Agents \cup {"kick", "look"}
    /\ NoAgent \notin Agents
    /\ Sids \cap Agents = {}
    /\ Controls \cap {"kick", "look"} = {}

ASSUME NoneIsNoEntry == None \notin [ctl : Controls, gate : Controls]

VARIABLES
    tbl,      \* Service.controls: session id -> [ctl, gate]
    holder,   \* holder[g]: who holds the gate that login g made
    pc,       \* pc[c]: where the task of login c is
    sid,      \* sid[c], agt[c]: what c logs in with
    agt,
    gate,     \* gate[c]: the gate c has peeked or made
    old,      \* old[c]: the Control c took the place of
    closed,   \* Control.closed
    active,   \* Control.activated
    byKey,    \* AgentRegistry.by_key
    bySes,    \* AgentRegistry.by_session
    kick,     \* one dashboard request
    look      \* one data connection looking for its Control

vars == <<tbl, holder, pc, sid, agt, gate, old, closed, active, byKey, bySes, kick, look>>

agents == <<byKey, bySes>>
login == <<sid, agt>>

Holders == Controls \cup {"kick", "look"}
Keys == Sids \cup Agents

Pcs == {"new", "peek", "lock", "insert", "closeOld", "online", "loginOk", "giveUp", "run",
        "shut", "remPeek", "remLock", "remDo", "release", "close", "done"}

AgentEntries == [ses : Sids, gen : Controls \cup {None}, online : BOOLEAN, explicit : BOOLEAN]

Idle == [pc |-> "idle", sid |-> None, gate |-> None, ctl |-> None, first |-> None]
OutsidePcs == {"idle", "lock", "check", "kick", "await", "drop", "release", "found", "refused"}
Outside == [pc : OutsidePcs, sid : Sids \cup {None}, gate : Controls \cup {None},
            ctl : Controls \cup {None}, first : Controls \cup {None}]

TableTypes ==
    /\ tbl \in [Sids -> [ctl : Controls, gate : Controls] \cup {None}]
    /\ holder \in [Controls -> Holders \cup {None}]
    /\ pc \in [Controls -> Pcs]
    /\ sid \in [Controls -> Sids \cup {None}]
    /\ agt \in [Controls -> Agents \cup {NoAgent}]
    /\ gate \in [Controls -> Controls \cup {None}]
    /\ old \in [Controls -> Controls \cup {None}]
    /\ closed \in [Controls -> BOOLEAN]
    /\ active \in [Controls -> BOOLEAN]
    /\ kick \in Outside
    /\ look \in Outside

AgentTypes ==
    /\ byKey \in [Keys -> AgentEntries \cup {None}]
    /\ bySes \in [Sids -> Keys \cup {None}]

\* The types of the variables.
TypeOK == TableTypes /\ AgentTypes

Init ==
    /\ tbl = [s \in Sids |-> None]
    /\ holder = [g \in Controls |-> None]
    /\ pc = [c \in Controls |-> "new"]
    /\ sid = [c \in Controls |-> None]
    /\ agt = [c \in Controls |-> NoAgent]
    /\ gate = [c \in Controls |-> None]
    /\ old = [c \in Controls |-> None]
    /\ closed = [c \in Controls |-> FALSE]
    /\ active = [c \in Controls |-> FALSE]
    /\ byKey = [k \in Keys |-> None]
    /\ bySes = [s \in Sids |-> None]
    /\ kick = Idle
    /\ look = Idle

Goto(c, p) == pc' = [pc EXCEPT ![c] = p]
Lock(g, h) == holder[g] = None /\ holder' = [holder EXCEPT ![g] = h]
Unlock(g) == holder' = [holder EXCEPT ![g] = None]

\* The task of login c drops its guard, and with it its handle on the gate.
DropGuard(c) == Unlock(gate[c]) /\ gate' = [gate EXCEPT ![c] = None]
KeepGuard == UNCHANGED <<holder, gate>>

Current(s, c) == tbl[s] # None /\ tbl[s].ctl = c
Accepting(c) == active[c] /\ ~closed[c]

-----------------------------------------------------------------------------
(* AgentRegistry: two maps behind two mutexes that are always taken both.  *)

\* An agent without an id of its own is known by its session.
Key(s, a) == IF a = NoAgent THEN s ELSE a

SetOffline(e) == [e EXCEPT !.gen = None, !.online = FALSE]

Conflict(s, a) ==
    /\ a # NoAgent
    /\ byKey[a] # None
    /\ byKey[a].online
    /\ byKey[a].ses # s

\* The session was known under another key: that entry goes offline.
LeaveOldKey(s, k) ==
    LET p == bySes[s] IN
    IF p \in {None, k} \/ byKey[p] = None \/ byKey[p].ses # s THEN byKey
    ELSE [byKey EXCEPT ![p] = IF @.explicit THEN SetOffline(@) ELSE None]

TryOnline(s, a, c) ==
    LET k == Key(s, a)
        left == LeaveOldKey(s, k)
    IN  /\ byKey' = [left EXCEPT ![k] =
                       [ses |-> s, gen |-> c, online |-> TRUE, explicit |-> a # NoAgent]]
        /\ bySes' = [r \in Sids |->
                       CASE r = s -> k
                         [] r # s /\ left[k] # None /\ left[k].ses = r -> None
                         [] OTHER -> bySes[r]]

Release(s, c) ==
    LET k == bySes[s] IN
    IF k = None THEN UNCHANGED agents
    ELSE IF byKey[k] = None THEN bySes' = [bySes EXCEPT ![s] = None] /\ UNCHANGED byKey
    ELSE IF byKey[k].ses # s \/ byKey[k].gen # c THEN UNCHANGED agents
    ELSE /\ bySes' = [bySes EXCEPT ![s] = None]
         /\ byKey' = [byKey EXCEPT ![k] = IF @.explicit THEN SetOffline(@) ELSE None]

-----------------------------------------------------------------------------
(* register_control.                                                       *)

\* The login is authentic and its identifiers are sane.
Login(c) ==
    /\ pc[c] = "new"
    /\ \E l \in Logins : sid' = [sid EXCEPT ![c] = l[1]] /\ agt' = [agt EXCEPT ![c] = l[2]]
    /\ Goto(c, "peek")
    /\ UNCHANGED <<tbl, holder, gate, old, closed, active, agents, kick, look>>

\* swap_in_locked: the gate of the present entry, or a new one.
PeekGate(c) ==
    /\ pc[c] = "peek"
    /\ gate' = [gate EXCEPT ![c] = IF tbl[sid[c]] = None THEN c ELSE tbl[sid[c]].gate]
    /\ Goto(c, "lock")
    /\ UNCHANGED <<tbl, holder, login, old, closed, active, agents, kick, look>>

LockGate(c) ==
    /\ pc[c] = "lock"
    /\ Lock(gate[c], c)
    /\ Goto(c, "insert")
    /\ UNCHANGED <<tbl, login, gate, old, closed, active, agents, kick, look>>

\* MUTANT: the table is not looked at again once the gate is held.
NeverStale(c) == FALSE

\* The entry may have been replaced by one with another gate in the meantime.
GateIsStale(c) == tbl[sid[c]] # None /\ tbl[sid[c]].gate # gate[c]

SwapIn(c) ==
    /\ pc[c] = "insert"
    /\ \/ /\ GateIsStale(c)
          /\ DropGuard(c)
          /\ Goto(c, "peek")
          /\ UNCHANGED <<tbl, old>>
       \/ /\ ~GateIsStale(c)
          /\ tbl' = [tbl EXCEPT ![sid[c]] = [ctl |-> c, gate |-> gate[c]]]
          /\ old' = [old EXCEPT ![c] = IF tbl[sid[c]] = None THEN None ELSE tbl[sid[c]].ctl]
          /\ Goto(c, IF tbl[sid[c]] = None THEN "online" ELSE "closeOld")
          /\ KeepGuard
    /\ UNCHANGED <<login, closed, active, agents, kick, look>>

\* MUTANT: the Control that was replaced is dropped without a shutdown.
ForgetOld(c) ==
    /\ pc[c] = "closeOld"
    /\ old' = [old EXCEPT ![c] = None]
    /\ Goto(c, "online")
    /\ UNCHANGED <<tbl, holder, login, gate, closed, active, agents, kick, look>>

\* old.shutdown signals at once; then the login waits for it, five seconds at most.
ShutdownOld(c) ==
    /\ pc[c] = "closeOld"
    /\ closed' = [closed EXCEPT ![old[c]] = TRUE]
    /\ old' = [old EXCEPT ![c] = None]
    /\ Goto(c, "online")
    /\ UNCHANGED <<tbl, holder, login, gate, active, agents, kick, look>>

GoOnline(c) ==
    /\ pc[c] = "online"
    /\ \/ /\ Conflict(sid[c], agt[c])
          /\ DropGuard(c)
          /\ Goto(c, "remPeek")
          /\ UNCHANGED agents
       \/ /\ ~Conflict(sid[c], agt[c])
          /\ TryOnline(sid[c], agt[c], c)
          /\ Goto(c, "loginOk")
          /\ KeepGuard
    /\ UNCHANGED <<tbl, login, old, closed, active, kick, look>>

\* send_login_ok writes the response and activates the Control, or fails.
SendLoginOk(c) ==
    /\ pc[c] = "loginOk"
    /\ \/ /\ active' = [active EXCEPT ![c] = TRUE]
          /\ Goto(c, "run")
          /\ DropGuard(c)
          /\ UNCHANGED agents
       \/ /\ Release(sid[c], c)
          /\ Goto(c, "giveUp")
          /\ KeepGuard
          /\ UNCHANGED active
    /\ UNCHANGED <<tbl, login, old, closed, kick, look>>

\* MUTANT: the guard is still held when remove_if_current is called.
GiveUpLocked(c) ==
    /\ pc[c] = "giveUp"
    /\ Goto(c, "remPeek")
    /\ UNCHANGED <<tbl, holder, login, gate, old, closed, active, agents, kick, look>>

GiveUp(c) ==
    /\ pc[c] = "giveUp"
    /\ DropGuard(c)
    /\ Goto(c, "remPeek")
    /\ UNCHANGED <<tbl, login, old, closed, active, agents, kick, look>>

\* The client disconnected or the Control was closed: run returned.
EndRun(c) ==
    /\ pc[c] = "run"
    /\ Goto(c, "shut")
    /\ UNCHANGED <<tbl, holder, login, gate, old, closed, active, agents, kick, look>>

ShutdownOwn(c) ==
    /\ pc[c] \in {"shut", "close"}
    /\ closed' = [closed EXCEPT ![c] = TRUE]
    /\ Goto(c, IF pc[c] = "shut" THEN "remPeek" ELSE "done")
    /\ UNCHANGED <<tbl, holder, login, gate, old, active, agents, kick, look>>

\* MUTANT: whoever was removed from the table needs no release.
NeverRelease(c, removed) == IF ~active[c] THEN "close" ELSE "done"

\* What follows remove_if_current: a login that failed is shut down only now.
AfterRemove(c, removed) ==
    IF ~active[c] THEN "close" ELSE IF removed THEN "release" ELSE "done"

RemovePeek(c) ==
    /\ pc[c] = "remPeek"
    /\ \/ /\ Current(sid[c], c)
          /\ gate' = [gate EXCEPT ![c] = tbl[sid[c]].gate]
          /\ Goto(c, "remLock")
       \/ /\ ~Current(sid[c], c)
          /\ Goto(c, AfterRemove(c, FALSE))
          /\ UNCHANGED gate
    /\ UNCHANGED <<tbl, holder, login, old, closed, active, agents, kick, look>>

RemoveLock(c) ==
    /\ pc[c] = "remLock"
    /\ Lock(gate[c], c)
    /\ Goto(c, "remDo")
    /\ UNCHANGED <<tbl, login, gate, old, closed, active, agents, kick, look>>

Remove(c) ==
    /\ pc[c] = "remDo"
    /\ tbl' = IF Current(sid[c], c) THEN [tbl EXCEPT ![sid[c]] = None] ELSE tbl
    /\ Goto(c, AfterRemove(c, Current(sid[c], c)))
    /\ DropGuard(c)
    /\ UNCHANGED <<login, old, closed, active, agents, kick, look>>

ReleaseAgent(c) ==
    /\ pc[c] = "release"
    /\ Release(sid[c], c)
    /\ Goto(c, "done")
    /\ UNCHANGED <<tbl, holder, login, gate, old, closed, active, kick, look>>

-----------------------------------------------------------------------------
(* kick_client, for one dashboard request at a time.                       *)

KickPeek(s) ==
    /\ kick.pc = "idle"
    /\ tbl[s] # None
    /\ kick' = [Idle EXCEPT !.pc = "lock", !.sid = s, !.gate = tbl[s].gate, !.ctl = tbl[s].ctl]
    /\ UNCHANGED <<tbl, holder, pc, login, gate, old, closed, active, agents, look>>

KickLock ==
    /\ kick.pc = "lock"
    /\ Lock(kick.gate, "kick")
    /\ kick' = [kick EXCEPT !.pc = "check"]
    /\ UNCHANGED <<tbl, pc, login, gate, old, closed, active, agents, look>>

KickCheck ==
    /\ kick.pc = "check"
    /\ \/ /\ Current(kick.sid, kick.ctl)
          /\ kick' = [kick EXCEPT !.pc = "kick"]
          /\ UNCHANGED holder
       \/ /\ ~Current(kick.sid, kick.ctl)
          /\ kick' = Idle
          /\ Unlock(kick.gate)
    /\ UNCHANGED <<tbl, pc, login, gate, old, closed, active, agents, look>>

\* control.kick signals, writes KickOut and shuts the Control down.
KickControl ==
    /\ kick.pc = "kick"
    /\ closed' = [closed EXCEPT ![kick.ctl] = TRUE]
    /\ kick' = [kick EXCEPT !.pc = "await"]
    /\ UNCHANGED <<tbl, holder, pc, login, gate, old, active, agents, look>>

KickRemove ==
    /\ kick.pc = "await"
    /\ tbl' = IF Current(kick.sid, kick.ctl) THEN [tbl EXCEPT ![kick.sid] = None] ELSE tbl
    /\ kick' = [kick EXCEPT !.pc = "drop"]
    /\ UNCHANGED <<holder, pc, login, gate, old, closed, active, agents, look>>

KickUnlock ==
    /\ kick.pc = "drop"
    /\ Unlock(kick.gate)
    /\ kick' = [kick EXCEPT !.pc = "release"]
    /\ UNCHANGED <<tbl, pc, login, gate, old, closed, active, agents, look>>

KickRelease ==
    /\ kick.pc = "release"
    /\ Release(kick.sid, kick.ctl)
    /\ kick' = Idle
    /\ UNCHANGED <<tbl, holder, pc, login, gate, old, closed, active, look>>

\* The dashboard's connection is gone: the request is dropped at one of its awaits.
KickCancelled ==
    /\ kick.pc \in {"lock", "check", "kick", "await"}
    /\ IF kick.pc = "lock" THEN UNCHANGED holder ELSE Unlock(kick.gate)
    /\ kick' = Idle
    /\ UNCHANGED <<tbl, pc, login, gate, old, closed, active, agents, look>>

-----------------------------------------------------------------------------
(* register_data_conn: lookup_accepting, for one connection at a time.     *)

\* first remembers, for LookupFinds, who was accepting when the lookup began.
LookPeek(s) ==
    /\ look.pc = "idle"
    /\ tbl[s] # None
    /\ look' = [pc |-> "lock", sid |-> s, gate |-> tbl[s].gate, ctl |-> tbl[s].ctl,
                first |-> IF Accepting(tbl[s].ctl) THEN tbl[s].ctl ELSE None]
    /\ UNCHANGED <<tbl, holder, pc, login, gate, old, closed, active, agents, kick>>

\* MUTANT: a lookup that finds the gate taken gives up.
TryLookLock ==
    /\ look.pc = "lock"
    /\ \/ Lock(look.gate, "look") /\ look' = [look EXCEPT !.pc = "check"]
       \/ holder[look.gate] # None /\ look' = [look EXCEPT !.pc = "refused"] /\ UNCHANGED holder
    /\ UNCHANGED <<tbl, pc, login, gate, old, closed, active, agents, kick>>

LookLock ==
    /\ look.pc = "lock"
    /\ Lock(look.gate, "look")
    /\ look' = [look EXCEPT !.pc = "check"]
    /\ UNCHANGED <<tbl, pc, login, gate, old, closed, active, agents, kick>>

LookCheck ==
    /\ look.pc = "check"
    /\ look' = [look EXCEPT !.pc =
                  IF Current(look.sid, look.ctl) /\ Accepting(look.ctl) THEN "found" ELSE "refused"]
    /\ Unlock(look.gate)
    /\ UNCHANGED <<tbl, pc, login, gate, old, closed, active, agents, kick>>

\* The connection is pushed to the Control, or dropped.
LookEnd ==
    /\ look.pc \in {"found", "refused"}
    /\ look' = Idle
    /\ UNCHANGED <<tbl, holder, pc, login, gate, old, closed, active, agents, kick>>

-----------------------------------------------------------------------------
LoginStep(c) ==
    \/ PeekGate(c) \/ LockGate(c) \/ SwapIn(c) \/ ShutdownOld(c) \/ GoOnline(c)
    \/ SendLoginOk(c) \/ GiveUp(c) \/ ShutdownOwn(c) \/ RemovePeek(c) \/ RemoveLock(c)
    \/ Remove(c) \/ ReleaseAgent(c)

KickStep == KickLock \/ KickCheck \/ KickControl \/ KickRemove \/ KickUnlock \/ KickRelease
LookStep == LookLock \/ LookCheck \/ LookEnd

Next ==
    \/ \E c \in Controls : Login(c) \/ EndRun(c) \/ LoginStep(c)
    \/ (\E s \in Kicked : KickPeek(s)) \/ (\E s \in Dialed : LookPeek(s))
    \/ KickStep \/ KickCancelled \/ LookStep
    \/ (\A c \in Controls : pc[c] = "done") /\ UNCHANGED vars

Spec == Init /\ [][Next]_vars

\* Tasks are scheduled and tokio's mutex is fair, so whoever waits for a gate that
\* is free again and again gets it; a closed Control's run returns.
Fairness ==
    /\ \A c \in Controls :
        /\ SF_vars(LoginStep(c))
        /\ WF_vars(EndRun(c) /\ closed[c])
    /\ SF_vars(KickStep)
    /\ SF_vars(LookStep)

FairSpec == Spec /\ Fairness

-----------------------------------------------------------------------------
(* Properties.                                                             *)

\* A Control that accepts data connections is the one in the table, or the login
\* that took its place is about to close it: a session id never ends up with an
\* accepting Control that no lookup can find, however logins, removals and kicks
\* of it overlap.
AcceptingIsCurrent ==
    \A c \in Controls : Accepting(c) =>
        \/ Current(sid[c], c)
        \/ \E d \in Controls : pc[d] = "closeOld" /\ old[d] = c

\* From taking its place in the table to the end of the login, a login has the gate
\* of its session to itself: nobody replaces or removes it meanwhile.
LoginUndisturbed ==
    \A c \in Controls : pc[c] \in {"closeOld", "online", "loginOk", "giveUp"} =>
        Current(sid[c], c) /\ tbl[sid[c]].gate = gate[c] /\ holder[gate[c]] = c

\* Whoever holds a gate got it for the step it is at, and no such step waits for another
\* gate: logins, removals, kicks and lookups cannot wait for each other in a circle, and
\* nobody leaves with a gate.
GateHolderMoves ==
    \A g \in Controls : holder[g] # None =>
        \/ /\ holder[g] \in Controls /\ gate[holder[g]] = g
           /\ pc[holder[g]] \in {"insert", "closeOld", "online", "loginOk", "giveUp", "remDo"}
        \/ holder[g] = "kick" /\ kick.gate = g /\ kick.pc \in {"check", "kick", "await", "drop"}
        \/ holder[g] = "look" /\ look.gate = g /\ look.pc = "check"

\* The gates keep logins apart and nobody waiting.
GatesSound == LoginUndisturbed /\ GateHolderMoves

\* A data connection of a session that is up all along is not refused.
LookupFinds ==
    look.pc = "refused" /\ look.first # None => ~Accepting(look.first)

\* An agent shown as online belongs to a login that is still there, or its release
\* or its takeover is under way.
OnlineAgentHasControl ==
    \A k \in Keys : byKey[k] # None /\ byKey[k].online =>
        LET c == byKey[k].gen IN
        \/ pc[c] # "done"
        \/ kick.ctl = c /\ kick.pc \in {"drop", "release"}
        \/ \E d \in Controls : sid[d] = byKey[k].ses /\ pc[d] \in {"closeOld", "online"}

\* A login or a kick that releases its agent leaves no agent online in the name of
\* the login that ended: release finds the entry through by_session, so this needs
\* the two maps of the registry to agree.
ReleaseTakesOffline ==
    [][\A c \in Controls :
          \/ pc[c] = "release" /\ pc'[c] = "done"
          \/ kick.pc = "release" /\ kick.ctl = c /\ kick'.pc = "idle"
        => \A k \in Keys : byKey'[k] # None => ~(byKey'[k].online /\ byKey'[k].gen = c)]_vars

\* Every login comes to an end: accepted, refused or given up.
LoginSettles == \A c \in Controls : pc[c] = "peek" ~> pc[c] \in {"run", "done"}

\* A Control that was closed leaves the table.
ClosedLeaves == \A c \in Controls : closed[c] ~> (\A s \in Sids : ~Current(s, c))
=============================================================================
