------------------------- MODULE TunnelSlotsProofs -------------------------
(***************************************************************************)
(* Proofs about TunnelSlots, for any number of sessions, names and ports,  *)
(* whatever Trim does to a name and whoever shuts sessions down.           *)
(***************************************************************************)
EXTENDS TunnelSlots, TLAPS

\* Where a cleaner is between winning cleaning.swap and mark_finished.
CleanPcs == {"lock", "closing", "release", "finish"}
RunPcs == {"new", "loop", "detach", "relPort", "relName", "claimName", "claimPort",
           "start", "insert", "exit", "wait", "done"} \cup CleanPcs
ExtPcs == {"idle", "signal", "wait", "done", "cancelled"} \cup CleanPcs
BusyPcs == {"detach", "relPort", "relName", "claimName", "claimPort", "start", "insert"}

\* Which task can be where: one cleaner, and the destructor alone.
PcOK ==
    \A c \in Controls :
        /\ pc[c]["run"] \in RunPcs
        /\ pc[c]["ext"] \in ExtPcs
        /\ pc[c]["drop"] \in {"idle", "release", "done"}
        /\ pc[c]["run"] \in CleanPcs \/ pc[c]["ext"] \in CleanPcs => cleaning[c]
        /\ ~(pc[c]["run"] \in CleanPcs /\ pc[c]["ext"] \in CleanPcs)
        /\ pc[c]["drop"] # "idle" =>
              pc[c]["run"] = "done" /\ pc[c]["ext"] \in {"idle", "done", "cancelled"}

\* The operation in hand names a tunnel, and a port where one is needed.
OpOK ==
    \A c \in Controls :
        /\ pc[c]["run"] \in BusyPcs => op[c].name \in Names
        /\ pc[c]["run"] = "relPort" => op[c].rel \in PortKeys
        /\ pc[c]["run"] = "claimPort" => op[c].key \in PortKeys

\* The cleaner's list is empty unless it holds the manager's mutex, and then the
\* manager itself is empty.
WorkOK ==
    \A c \in Controls :
        /\ ~TunnelsLocked(c) => toClose[c] = {} /\ toRelease[c] = {} /\ half[c] = {}
        /\ TunnelsLocked(c) => tm[c] = {}
        /\ \A t \in Tasks : pc[c][t] = "release" => toClose[c] = {}
        /\ \A t \in Tasks : pc[c][t] = "closing" => half[c] = {}

\* The entries whose name slot c holds, apart from the operation in hand.
Listed(c) == tm[c] \cup toClose[c] \cup toRelease[c] \cup half[c]

\* The run task holds the name of its operation; and the port k with it.
OpHoldsName(c) == pc[c]["run"] \in {"relPort", "relName", "claimPort", "start", "insert"}
OpHoldsPort(c, k) ==
    /\ k # NoKey
    /\ \/ pc[c]["run"] = "relPort" /\ k = op[c].rel
       \/ pc[c]["run"] \in {"start", "insert"} /\ k = op[c].key

\* No slot is held twice by one session.
Distinct ==
    \A c \in Controls :
        /\ \A e, f \in Listed(c) : Trim[e.name] = Trim[f.name] => e = f
        /\ toClose[c] \cap toRelease[c] = {}
        /\ (toClose[c] \cup toRelease[c]) \cap half[c] = {}
        /\ OpHoldsName(c) => \A e \in Listed(c) : Trim[e.name] # Trim[op[c].name]

\* What a session lists or works on is in the tables under its name.
Held ==
    \A c \in Controls :
        /\ \A e \in Listed(c) : byName[Trim[e.name]] = c
        /\ \A e \in Listed(c) \ half[c] : e.key # NoKey => byPort[e.key] = e.name
        /\ OpHoldsName(c) => byName[Trim[op[c].name]] = c
        /\ \A k \in PortKeys : OpHoldsPort(c, k) => byPort[k] = op[c].name

\* A port belongs to a registered name, and if the owner of that name still has
\* the name in hand then it has the port in hand as well.
PortsHeld ==
    \A k \in PortKeys : byPort[k] # NoName =>
        /\ byName[Trim[byPort[k]]] \in Controls
        /\ \A c \in Controls : byName[Trim[byPort[k]]] = c =>
              /\ \A e \in Listed(c) :
                    Trim[e.name] = Trim[byPort[k]] =>
                        e \notin half[c] /\ e = [name |-> byPort[k], key |-> k]
              /\ OpHoldsName(c) /\ Trim[op[c].name] = Trim[byPort[k]]
                    => OpHoldsPort(c, k) /\ op[c].name = byPort[k]

TypeInv == TypeOK /\ PcOK /\ OpOK
SlotInv == TypeInv /\ WorkOK /\ Distinct /\ Held /\ PortsHeld

-----------------------------------------------------------------------------
\* The run task goes on within the operation in hand.
LEMMA MoveType ==
    ASSUME TypeInv, NEW c \in Controls, pc[c]["run"] \in BusyPcs \cup {"loop"},
           NEW p \in BusyPcs \cup {"loop", "exit"}, Goto(c, "run", p),
           NEW o \in Ops, op' = [op EXCEPT ![c] = o],
           p \in BusyPcs => o.name \in Names, p = "relPort" => o.rel \in PortKeys,
           p = "claimPort" => o.key \in PortKeys, cleaning' = cleaning
    PROVE  PcOK' /\ OpOK' /\ pc' \in [Controls -> [Tasks -> Pcs]] /\ op' \in [Controls -> Ops]
<1> USE DEF TypeInv, TypeOK, Tasks, BusyPcs, Goto
<1>1. PcOK'
  BY DEF PcOK, CleanPcs, RunPcs, ExtPcs
<1>2. OpOK'
  BY DEF OpOK
<1>3. pc' \in [Controls -> [Tasks -> Pcs]] /\ op' \in [Controls -> Ops]
  BY DEF Pcs
<1>4. QED
  BY <1>1, <1>2, <1>3

\* The record of the tunnel operation under way keeps its type when one of its
\* fields moves on.
LEMMA OpTypes ==
    ASSUME NEW o \in Ops, NEW k \in PortKeys \cup {NoKey}
    PROVE  /\ NoOp \in Ops
           /\ [o EXCEPT !.rel = k] \in Ops /\ [o EXCEPT !.rel = k].rel = k
           /\ [o EXCEPT !.rel = k].name = o.name /\ [o EXCEPT !.rel = k].key = o.key
           /\ [o EXCEPT !.goal = "loop"] \in Ops /\ [o EXCEPT !.goal = "loop"].key = o.key
           /\ [o EXCEPT !.goal = "loop"].name = o.name
           /\ o.key \in PortKeys \cup {NoKey} /\ o.goal \in {"claimName", "loop"}
  BY DEF Ops, NoOp

\* handle_new_tunnel and handle_close_tunnel move between their steps within the type
\* invariant.
LEMMA ContinueType ==
    ASSUME TypeInv, NEW c \in Controls, pc[c]["run"] \in BusyPcs \cup {"loop"},
           NEW p \in BusyPcs \cup {"loop"}, NEW o \in Ops, Continue(c, p, o),
           p \in BusyPcs => o.name \in Names, p = "relPort" => o.rel \in PortKeys,
           p = "claimPort" => o.key \in PortKeys, cleaning' = cleaning
    PROVE  PcOK' /\ OpOK' /\ pc' \in [Controls -> [Tasks -> Pcs]] /\ op' \in [Controls -> Ops]
<1>1. NoOp \in Ops
  BY DEF NoOp, Ops
<1>2. PICK q \in BusyPcs \cup {"loop", "exit"} :
        Goto(c, "run", q) /\ q = IF p = "loop" /\ closed[c] THEN "exit" ELSE p
  BY DEF Continue
<1>3. CASE p = "loop"
  <2>1. op' = [op EXCEPT ![c] = NoOp]
    BY <1>3 DEF Continue
  <2>2. q \notin BusyPcs
    BY <1>2, <1>3 DEF BusyPcs
  <2>3. QED
    BY <1>1, <1>2, <2>1, <2>2, MoveType DEF BusyPcs
<1>4. CASE p # "loop"
  <2>1. Goto(c, "run", p) /\ op' = [op EXCEPT ![c] = o]
    BY <1>4 DEF Continue
  <2>2. QED
    BY <2>1, MoveType
<1>5. QED
  BY <1>3, <1>4

\* detach_tunnel keeps the type invariant.
LEMMA DetachType == ASSUME TypeInv, NEW c \in Controls, DetachTunnel(c) PROVE TypeInv'
<1>1. op[c] \in Ops /\ op[c].name \in Names /\ pc[c]["run"] \in BusyPcs
  BY DEF DetachTunnel, TypeInv, TypeOK, OpOK, BusyPcs
<1>2. /\ tm' \in [Controls -> SUBSET Entries]
      /\ bound' \in SUBSET [ctl : Controls, name : Names, key : PortKeys]
  <2>1. CASE UNCHANGED <<tm, bound>>
    BY <2>1 DEF TypeInv, TypeOK
  <2>2. ASSUME NEW e \in tm[c], tm' = [tm EXCEPT ![c] = @ \ {e}], CloseSocket(c, e.name)
        PROVE  /\ tm' \in [Controls -> SUBSET Entries]
               /\ bound' \in SUBSET [ctl : Controls, name : Names, key : PortKeys]
    BY <2>2 DEF CloseSocket, TypeInv, TypeOK
  <2>3. QED
    BY <2>1, <2>2 DEF DetachTunnel
<1>3. cleaning' = cleaning
  BY DEF DetachTunnel, flags
<1>4. PcOK' /\ OpOK' /\ pc' \in [Controls -> [Tasks -> Pcs]] /\ op' \in [Controls -> Ops]
  <2>1. CASE Continue(c, op[c].goal, op[c])
    BY <1>1, <1>3, <2>1, OpTypes, ContinueType DEF BusyPcs
  <2>2. ASSUME NEW e \in tm[c], Continue(c, GiveUp(e.key), [op[c] EXCEPT !.rel = e.key])
        PROVE  PcOK' /\ OpOK' /\ pc' \in [Controls -> [Tasks -> Pcs]] /\ op' \in [Controls -> Ops]
    <3>1. e.key \in PortKeys \cup {NoKey}
      BY DEF TypeInv, TypeOK, Entries
    <3>2. GiveUp(e.key) \in {"relName", "relPort"} /\ (GiveUp(e.key) = "relPort" => e.key \in PortKeys)
      BY <3>1 DEF GiveUp
    <3>3. GiveUp(e.key) \in BusyPcs \cup {"loop"} /\ GiveUp(e.key) # "claimPort"
      BY <3>2 DEF BusyPcs
    <3>4. QED
      BY <1>1, <1>3, <2>2, <3>1, <3>2, <3>3, OpTypes, ContinueType
  <2>3. QED
    BY <2>1, <2>2 DEF DetachTunnel
<1>5. QED
  BY <1>2, <1>4 DEF DetachTunnel, TypeInv, TypeOK, tables, flags, work

\* claim_name keeps the type invariant, whether it finds the name free or taken.
LEMMA ClaimNameType == ASSUME TypeInv, NEW c \in Controls, ClaimName(c) PROVE TypeInv'
<1>1. op[c] \in Ops /\ op[c].name \in Names /\ pc[c]["run"] \in BusyPcs
  BY DEF ClaimName, TypeInv, TypeOK, OpOK, BusyPcs
<1>2. byName' \in [Names -> Controls \cup {NoControl}]
  BY <1>1, SlotAssumptions DEF ClaimName, TryInsert, TypeInv, TypeOK
<1>3. cleaning' = cleaning
  BY DEF ClaimName, flags
<1>4. PcOK' /\ OpOK' /\ pc' \in [Controls -> [Tasks -> Pcs]] /\ op' \in [Controls -> Ops]
  <2>1. CASE Continue(c, "loop", op[c])
    BY <1>1, <1>3, <2>1, ContinueType DEF BusyPcs
  <2>2. CASE Continue(c, IF op[c].key = NoKey THEN "start" ELSE "claimPort",
                      [op[c] EXCEPT !.goal = "loop"])
    <3>1. CASE op[c].key = NoKey
      <4>1. Continue(c, "start", [op[c] EXCEPT !.goal = "loop"])
        BY <2>2, <3>1
      <4>2. QED
        BY <1>1, <1>3, <4>1, OpTypes, ContinueType DEF BusyPcs
    <3>2. CASE op[c].key # NoKey
      <4>1. Continue(c, "claimPort", [op[c] EXCEPT !.goal = "loop"])
        BY <2>2, <3>2
      <4>2. QED
        BY <1>1, <1>3, <3>2, <4>1, OpTypes, ContinueType DEF BusyPcs
    <3>3. QED
      BY <3>1, <3>2
  <2>3. QED
    BY <2>1, <2>2 DEF ClaimName
<1>5. QED
  BY <1>2, <1>4 DEF ClaimName, TypeInv, TypeOK, tables, flags, work

\* claim_port keeps the type invariant, whether it finds the port free or taken.
LEMMA ClaimPortType == ASSUME TypeInv, NEW c \in Controls, ClaimPort(c) PROVE TypeInv'
<1>1. /\ op[c] \in Ops /\ op[c].name \in Names /\ op[c].key \in PortKeys
      /\ pc[c]["run"] \in BusyPcs
  BY DEF ClaimPort, TypeInv, TypeOK, OpOK, BusyPcs
<1>2. byPort' \in [PortKeys -> Names \cup {NoName}]
  BY <1>1 DEF ClaimPort, TypeInv, TypeOK
<1>3. cleaning' = cleaning /\ op' = [op EXCEPT ![c] = op[c]]
  BY DEF ClaimPort, flags, TypeInv, TypeOK
<1>4. PICK p \in {"start", "relName"} : Goto(c, "run", p)
  BY DEF ClaimPort
<1>5. p \in BusyPcs /\ p # "relPort" /\ p # "claimPort"
  BY DEF BusyPcs
<1>6. PcOK' /\ OpOK' /\ pc' \in [Controls -> [Tasks -> Pcs]] /\ op' \in [Controls -> Ops]
  BY <1>1, <1>3, <1>4, <1>5, MoveType
<1>7. QED
  BY <1>2, <1>6 DEF ClaimPort, TypeInv, TypeOK, flags, work

\* Starting a tunnel, or failing to, keeps the type invariant.
LEMMA StartType == ASSUME TypeInv, NEW c \in Controls, StartTunnel(c) PROVE TypeInv'
<1>1. op[c] \in Ops /\ op[c].name \in Names /\ pc[c]["run"] \in BusyPcs
  BY DEF StartTunnel, TypeInv, TypeOK, OpOK, BusyPcs
<1>2. op[c].key \in PortKeys \cup {NoKey}
  BY <1>1, OpTypes
<1>3. bound' \in SUBSET [ctl : Controls, name : Names, key : PortKeys]
  BY <1>1, <1>2 DEF StartTunnel, TypeInv, TypeOK
<1>4. cleaning' = cleaning
  BY DEF StartTunnel, flags
<1>5. PcOK' /\ OpOK' /\ pc' \in [Controls -> [Tasks -> Pcs]] /\ op' \in [Controls -> Ops]
  <2>1. CASE Continue(c, "insert", op[c])
    BY <1>1, <1>4, <2>1, ContinueType DEF BusyPcs
  <2>2. CASE Continue(c, GiveUp(op[c].key), [op[c] EXCEPT !.rel = op[c].key])
    <3>1. /\ GiveUp(op[c].key) \in {"relName", "relPort"}
          /\ GiveUp(op[c].key) = "relPort" => op[c].key \in PortKeys
      BY <1>2 DEF GiveUp
    <3>2. GiveUp(op[c].key) \in BusyPcs \cup {"loop"} /\ GiveUp(op[c].key) # "claimPort"
      BY <3>1 DEF BusyPcs
    <3>3. QED
      BY <1>1, <1>2, <1>4, <2>2, <3>1, <3>2, OpTypes, ContinueType
  <2>3. QED
    BY <2>1, <2>2 DEF StartTunnel
<1>6. QED
  BY <1>3, <1>5 DEF StartTunnel, TypeInv, TypeOK, tables, flags, work

\* A kick that is dropped at an await keeps the type invariant.
LEMMA CancelType == ASSUME TypeInv, NEW c \in Controls, KickCancelled(c) PROVE TypeInv'
<1>1. /\ toClose' \in [Controls -> SUBSET Entries] /\ toRelease' \in [Controls -> SUBSET Entries]
      /\ leak' \in [Controls -> SUBSET {"lateInsert", "cancelled", "untrimmed"}]
  <2>1. CASE UNCHANGED <<toClose, toRelease, leak>>
    BY <2>1 DEF TypeInv, TypeOK
  <2>2. CASE /\ toClose' = [toClose EXCEPT ![c] = {}]
             /\ toRelease' = [toRelease EXCEPT ![c] = {}]
             /\ leak' = [leak EXCEPT ![c] = @ \cup {"cancelled"}]
    <3>1. leak[c] \cup {"cancelled"} \in SUBSET {"lateInsert", "cancelled", "untrimmed"}
      BY DEF TypeInv, TypeOK
    <3>2. QED
      BY <2>2, <3>1 DEF TypeInv, TypeOK
  <2>3. QED
    BY <2>1, <2>2 DEF KickCancelled
<1>2. pc' \in [Controls -> [Tasks -> Pcs]]
  BY DEF KickCancelled, Goto, TypeInv, TypeOK, Tasks, Pcs
<1>3. PcOK' /\ OpOK'
  BY DEF KickCancelled, Goto, TypeInv, TypeOK, PcOK, OpOK, flags, Tasks, CleanPcs, RunPcs, ExtPcs
<1>4. QED
  BY <1>1, <1>2, <1>3 DEF KickCancelled, TypeInv, TypeOK, tables, flags

\* The release of a port in shutdown keeps the type invariant.
LEMMA ReleasePortType ==
    ASSUME TypeInv, NEW c \in Controls, NEW t \in Tasks, ReleaseOnePort(c, t) PROVE TypeInv'
<1>1. byPort' \in [PortKeys -> Names \cup {NoName}]
  BY DEF ReleaseOnePort, ReleasePort, TypeInv, TypeOK
<1>2. toRelease' \in [Controls -> SUBSET Entries] /\ half' \in [Controls -> SUBSET Entries]
  BY DEF ReleaseOnePort, TypeInv, TypeOK
<1>3. PcOK' /\ OpOK'
  BY DEF ReleaseOnePort, TypeInv, PcOK, OpOK, flags
<1>4. QED
  BY <1>1, <1>2, <1>3 DEF ReleaseOnePort, TypeInv, TypeOK, flags

\* Every step keeps the types, the shape of the program counters and of the
\* operation in hand.
LEMMA TypeStep == TypeInv /\ [Next]_vars => TypeInv'
<1> SUFFICES ASSUME TypeInv, [Next]_vars PROVE TypeInv'
  OBVIOUS
<1> USE SlotAssumptions DEF TypeInv, TypeOK, PcOK, OpOK, Tasks, Pcs, Entries, Ops, NoOp,
        CleanPcs, RunPcs, ExtPcs, BusyPcs, tables, flags, work, Goto
<1>1. ASSUME NEW c \in Controls, Login(c) PROVE TypeInv'
  BY <1>1 DEF Login
<1>2. ASSUME NEW c \in Controls, NEW n \in Names,
                   NEW k \in PortKeys \cup {NoKey}, HandleNewTunnel(c, n, k) PROVE TypeInv'
  BY <1>2 DEF HandleNewTunnel, Continue
<1>3. ASSUME NEW c \in Controls, NEW n \in Names, HandleCloseTunnel(c, n) PROVE TypeInv'
  BY <1>3 DEF HandleCloseTunnel, Continue
<1>4. ASSUME NEW c \in Controls, DetachTunnel(c) PROVE TypeInv'
  BY <1>4, DetachType
<1>5. ASSUME NEW c \in Controls, RelPort(c) PROVE TypeInv'
  BY <1>5 DEF RelPort, ReleasePort
<1>6. ASSUME NEW c \in Controls, RelName(c) PROVE TypeInv'
  BY <1>6 DEF RelName, RemoveIfOwner, NoteMiss, Continue
<1>7. ASSUME NEW c \in Controls, ClaimName(c) PROVE TypeInv'
  BY <1>7, ClaimNameType
<1>8. ASSUME NEW c \in Controls, ClaimPort(c) PROVE TypeInv'
  BY <1>8, ClaimPortType
<1>9. ASSUME NEW c \in Controls, StartTunnel(c) PROVE TypeInv'
  BY <1>9, StartType
<1>10. ASSUME NEW c \in Controls, InsertTunnel(c) PROVE TypeInv'
  BY <1>10 DEF InsertTunnel, Continue
<1>11. ASSUME NEW c \in Controls, LeaveLoop(c) PROVE TypeInv'
  BY <1>11 DEF LeaveLoop
<1>12. ASSUME NEW c \in Controls, RunShutdown(c) PROVE TypeInv'
  BY <1>12 DEF RunShutdown, Shutdown
<1>13. ASSUME NEW c \in Controls, HeartbeatTimeout(c) PROVE TypeInv'
  BY <1>13 DEF HeartbeatTimeout
<1>14. ASSUME NEW c \in Controls, KickSignal(c) PROVE TypeInv'
  BY <1>14 DEF KickSignal, Reachable
<1>15. ASSUME NEW c \in Controls, KickShutdown(c) PROVE TypeInv'
  BY <1>15 DEF KickShutdown, Shutdown
<1>16. ASSUME NEW c \in Controls, KickCancelled(c) PROVE TypeInv'
  BY <1>16, CancelType
<1>17. ASSUME NEW c \in Controls, ReplaceShutdown(c) PROVE TypeInv'
  BY <1>17 DEF ReplaceShutdown, Shutdown, Reachable
<1>18. ASSUME NEW c \in Controls, NEW t \in Tasks, Drain(c, t) PROVE TypeInv'
  BY <1>18 DEF Drain
<1>19. ASSUME NEW c \in Controls, NEW t \in Tasks, CloseOne(c, t) PROVE TypeInv'
  <2>1. bound' \in SUBSET [ctl : Controls, name : Names, key : PortKeys]
    BY <1>19 DEF CloseOne, CloseSocket
  <2>2. toClose' \in [Controls -> SUBSET Entries] /\ toRelease' \in [Controls -> SUBSET Entries]
    BY <1>19 DEF CloseOne
  <2>3. QED
    BY <1>19, <2>1, <2>2 DEF CloseOne
<1>20. ASSUME NEW c \in Controls, NEW t \in Tasks, AllClosed(c, t) PROVE TypeInv'
  BY <1>20 DEF AllClosed
<1>21. ASSUME NEW c \in Controls, NEW t \in Tasks, ReleaseOnePort(c, t) PROVE TypeInv'
  BY <1>21, ReleasePortType
<1>22. ASSUME NEW c \in Controls, NEW t \in Tasks, ReleaseOneName(c, t) PROVE TypeInv'
  BY <1>22 DEF ReleaseOneName, RemoveIfOwner, NoteMiss
<1>23. ASSUME NEW c \in Controls, NEW t \in Tasks, AllReleased(c, t) PROVE TypeInv'
  BY <1>23 DEF AllReleased
<1>24. ASSUME NEW c \in Controls, NEW t \in Tasks, MarkFinished(c, t) PROVE TypeInv'
  BY <1>24 DEF MarkFinished
<1>25. ASSUME NEW c \in Controls, NEW t \in Tasks, StopWaiting(c, t) PROVE TypeInv'
  BY <1>25 DEF StopWaiting
<1>26. ASSUME NEW c \in Controls, DropFinished(c) PROVE TypeInv'
  BY <1>26 DEF DropFinished, LastReference
<1>27. ASSUME NEW c \in Controls, DropUnfinished(c) PROVE TypeInv'
  BY <1>27 DEF DropUnfinished, LastReference
<1>28. ASSUME SocketGone PROVE TypeInv'
  BY <1>28 DEF SocketGone
<1>29. CASE UNCHANGED vars
  BY <1>29 DEF vars
<1> HIDE DEF TypeInv, TypeOK, PcOK, OpOK, Tasks, Pcs, Entries, Ops, NoOp,
        CleanPcs, RunPcs, ExtPcs, BusyPcs, tables, flags, work, Goto
<1>30. QED
  BY <1>1, <1>2, <1>3, <1>4, <1>5, <1>6, <1>7, <1>8, <1>9, <1>10, <1>11, <1>12, <1>13, <1>14, <1>15, <1>16, <1>17, <1>18, <1>19, <1>20, <1>21, <1>22, <1>23, <1>24, <1>25, <1>26, <1>27, <1>28, <1>29 DEF Next, RunStep, CleanStep, DropStep

-----------------------------------------------------------------------------
(* Steps that take no slot and give none up.                               *)

\* The run task's hold on its operation is what it was, or is over.
SameHold ==
    \A d \in Controls : OpHoldsName(d)' =>
        /\ OpHoldsName(d)
        /\ op'[d].name = op[d].name
        /\ \A k \in PortKeys : OpHoldsPort(d, k)' <=> OpHoldsPort(d, k)

\* The lists of the cleaner do not overlap.
Disjoint ==
    \A d \in Controls :
        /\ toClose[d] \cap toRelease[d] = {}
        /\ (toClose[d] \cup toRelease[d]) \cap half[d] = {}

\* A step that only takes entries out of managers leaves what is claimed for the others
\* alone.
LEMMA SlotsFrame ==
    ASSUME Distinct, Held, PortsHeld, byName' = byName, byPort' = byPort, half' = half,
           \A d \in Controls : Listed(d)' \subseteq Listed(d), Disjoint', SameHold
    PROVE  Distinct' /\ Held' /\ PortsHeld'
<1>1. Distinct'
  BY DEF Distinct, Disjoint, SameHold
<1>2. Held'
  BY DEF Held, SameHold, OpHoldsName, OpHoldsPort
<1>3. PortsHeld'
  <2> SUFFICES ASSUME NEW k \in PortKeys, byPort[k] # NoName
               PROVE  /\ byName[Trim[byPort[k]]] \in Controls
                      /\ \A c \in Controls : byName[Trim[byPort[k]]] = c =>
                          /\ \A e \in Listed(c)' :
                                Trim[e.name] = Trim[byPort[k]] =>
                                    e \notin half[c] /\ e = [name |-> byPort[k], key |-> k]
                          /\ OpHoldsName(c)' /\ Trim[op'[c].name] = Trim[byPort[k]]
                                => OpHoldsPort(c, k)' /\ op'[c].name = byPort[k]
    BY DEF PortsHeld
  <2>1. QED
    BY DEF PortsHeld, SameHold
<1>4. QED
  BY <1>1, <1>2, <1>3

\* The lists and who holds the mutex stay as they are, and only a manager whose
\* mutex is free changes.
LEMMA WorkFrame ==
    ASSUME WorkOK, UNCHANGED work,
           \A d \in Controls : tm'[d] = tm[d] \/ ~TunnelsLocked(d),
           \A d \in Controls, t \in Tasks :
              /\ pc'[d][t] = "closing" <=> pc[d][t] = "closing"
              /\ pc'[d][t] = "release" <=> pc[d][t] = "release"
    PROVE  WorkOK'
  BY DEF WorkOK, TunnelsLocked, work

\* A step that leaves the tables, the manager and the lists alone.
LEMMA QuietStep ==
    ASSUME SlotInv, UNCHANGED <<tables, tm, work>>, SameHold,
           \A d \in Controls, t \in Tasks :
              /\ pc'[d][t] = "closing" <=> pc[d][t] = "closing"
              /\ pc'[d][t] = "release" <=> pc[d][t] = "release"
    PROVE  WorkOK' /\ Distinct' /\ Held' /\ PortsHeld'
<1>1. WorkOK'
  BY WorkFrame DEF SlotInv
<1>2. Disjoint' /\ \A d \in Controls : Listed(d)' \subseteq Listed(d)
  BY DEF SlotInv, Distinct, Disjoint, Listed, work
<1>3. QED
  BY <1>1, <1>2, SlotsFrame DEF SlotInv, tables, work

\* The outcome that is left to prove once the types are known.
SlotRest == WorkOK /\ Distinct /\ Held /\ PortsHeld

\* One task of one session moves, and neither into nor out of the mutex.
LEMMA QuietMove ==
    ASSUME SlotInv, NEW c \in Controls, NEW t \in Tasks, NEW p \in Pcs, Goto(c, t, p),
           pc[c][t] \notin {"closing", "release"}, p \notin {"closing", "release"},
           UNCHANGED <<tables, tm, work>>, SameHold
    PROVE  SlotRest'
<1>1. \A d \in Controls, u \in Tasks :
         /\ pc'[d][u] = "closing" <=> pc[d][u] = "closing"
         /\ pc'[d][u] = "release" <=> pc[d][u] = "release"
  BY DEF SlotInv, TypeInv, TypeOK, Goto
<1>2. QED
  BY <1>1, QuietStep DEF SlotRest

\* The run task goes where it holds nothing.
LEMMA HoldOver ==
    ASSUME TypeInv, NEW c \in Controls, NEW p \in Pcs, Goto(c, "run", p),
           p \notin {"relPort", "relName", "claimPort", "start", "insert"},
           \A d \in Controls \ {c} : op'[d] = op[d]
    PROVE  SameHold
  BY DEF TypeInv, TypeOK, Goto, SameHold, OpHoldsName, OpHoldsPort, Tasks

\* A task other than the run task moves.
LEMMA HoldSame ==
    ASSUME TypeInv, NEW c \in Controls, NEW t \in {"ext", "drop"}, NEW p \in Pcs,
           Goto(c, t, p), op' = op
    PROVE  SameHold
  BY DEF TypeInv, TypeOK, Goto, SameHold, OpHoldsName, OpHoldsPort, Tasks

\* What an operation under way holds depends on its record and its place only.
LEMMA HoldUnmoved == ASSUME op' = op, pc' = pc PROVE SameHold
  BY DEF SameHold, OpHoldsName, OpHoldsPort

\* A login's first step into run disturbs no slot.
LEMMA LoginSlots == ASSUME SlotInv, NEW c \in Controls, Login(c) PROVE SlotRest'
<1>1. PICK p \in {"loop", "exit"} : Goto(c, "run", p)
  BY DEF Login
<1>2. SameHold
  BY <1>1, HoldOver DEF Login, SlotInv, Pcs
<1>3. QED
  BY <1>1, <1>2, QuietMove DEF Login, Tasks, Pcs, tables, work

\* An operation that has just begun holds no slot yet.
LEMMA BeginSlots ==
    ASSUME SlotInv, NEW c \in Controls, pc[c]["run"] = "loop", UNCHANGED <<tables, tm, work>>,
           NEW o, Continue(c, "detach", o)
    PROVE  SlotRest'
<1>1. Goto(c, "run", "detach")
  BY DEF Continue
<1>2. \A d \in Controls \ {c} : op'[d] = op[d]
  BY DEF Continue, SlotInv, TypeInv, TypeOK
<1>3. SameHold
  BY <1>1, <1>2, HoldOver DEF SlotInv, Pcs
<1>4. QED
  BY <1>1, <1>3, QuietMove DEF Tasks, Pcs

\* Leaving the loop of run disturbs no slot: no operation is under way there.
LEMMA LeaveSlots == ASSUME SlotInv, NEW c \in Controls, LeaveLoop(c) PROVE SlotRest'
<1>1. SameHold
  BY HoldOver DEF LeaveLoop, SlotInv, Pcs
<1>2. QED
  BY <1>1, QuietMove DEF LeaveLoop, Tasks, Pcs

\* Setting closed, winning or losing the race to clean, waiting, finishing.
LEMMA ShutdownSlots ==
    ASSUME SlotInv, NEW c \in Controls, NEW t \in {"run", "ext"}, Shutdown(c, t),
           pc[c][t] \in {"exit", "idle", "signal", "cancelled"}
    PROVE  SlotRest'
<1>1. PICK p \in {"lock", "wait"} : Goto(c, t, p)
  BY DEF Shutdown
<1>2. SameHold
  <2>1. CASE t = "run"
    BY <1>1, <2>1, HoldOver DEF Shutdown, SlotInv, Pcs
  <2>2. CASE t = "ext"
    BY <1>1, <2>2, HoldSame DEF Shutdown, SlotInv, Pcs
  <2>3. QED
    BY <2>1, <2>2
<1>3. QED
  BY <1>1, <1>2, QuietMove DEF Shutdown, Tasks, Pcs

\* Raising the closed or the notify flag disturbs no slot.
LEMMA FlagSlots ==
    ASSUME SlotInv, pc' = pc, op' = op, UNCHANGED <<tables, tm, work>> PROVE SlotRest'
  BY HoldUnmoved, QuietStep DEF SlotRest

\* The signal of a kick disturbs no slot.
LEMMA KickSlots == ASSUME SlotInv, NEW c \in Controls, KickSignal(c) PROVE SlotRest'
<1>1. SameHold
  BY HoldSame DEF KickSignal, SlotInv, Pcs
<1>2. QED
  BY <1>1, QuietMove DEF KickSignal, Tasks, Pcs

\* The end of a shutdown disturbs no slot.
LEMMA DoneSlots ==
    ASSUME SlotInv, NEW c \in Controls, NEW t \in Tasks, pc[c][t] \in {"finish", "wait"},
           Goto(c, t, "done"), op' = op, UNCHANGED <<tables, tm, work>>
    PROVE  SlotRest'
<1>1. SameHold
  <2>1. CASE t = "run"
    BY <2>1, HoldOver DEF SlotInv, Pcs
  <2>2. CASE t # "run"
    BY <2>2, HoldSame DEF SlotInv, Pcs, Tasks
  <2>3. QED
    BY <2>1, <2>2
<1>2. QED
  BY <1>1, QuietMove DEF Pcs

-----------------------------------------------------------------------------
(* The cleaner: entries move from list to list, or are forgotten.          *)

\* Which task moves tells nothing about the run task's operation unless it is the
\* run task itself, and a cleaning run task holds none.
LEMMA CleanerHold ==
    ASSUME TypeInv, NEW c \in Controls, NEW t \in Tasks,
           NEW p \in {"closing", "release", "finish", "done", "cancelled"},
           Goto(c, t, p), op' = op
    PROVE  SameHold
<1>1. CASE t = "run"
  BY <1>1, HoldOver DEF Pcs
<1>2. CASE t # "run"
  BY <1>2, HoldSame DEF Pcs, Tasks
<1>3. QED
  BY <1>1, <1>2

\* What Goto does to the program counters.
LEMMA GotoMoves ==
    ASSUME TypeInv, NEW c \in Controls, NEW t \in Tasks, NEW p, Goto(c, t, p)
    PROVE  /\ pc'[c][t] = p
           /\ \A d \in Controls, u \in Tasks : d # c \/ u # t => pc'[d][u] = pc[d][u]
  BY DEF Goto, TypeInv, TypeOK

\* There is at most one cleaner, and the destructor runs alone.
LEMMA OneCleaner ==
    ASSUME TypeInv, NEW c \in Controls, NEW t \in Tasks, NEW u \in Tasks,
           pc[c][t] \in CleanPcs, pc[c][u] \in CleanPcs
    PROVE  t = u
  BY DEF TypeInv, PcOK, CleanPcs, Tasks

\* close_all moves the entries from the manager to the list it closes: none is lost and
\* none is listed twice.
LEMMA DrainSlots ==
    ASSUME SlotInv, NEW c \in Controls, NEW t \in Tasks, Drain(c, t) PROVE SlotRest'
<1>1. ~TunnelsLocked(c) /\ toClose[c] = {} /\ toRelease[c] = {} /\ half[c] = {}
  BY DEF Drain, SlotInv, WorkOK
<1>2. SameHold
  BY CleanerHold DEF Drain, SlotInv
<1>3. Disjoint' /\ \A d \in Controls : Listed(d)' \subseteq Listed(d)
  BY <1>1 DEF Drain, SlotInv, TypeInv, TypeOK, Distinct, Disjoint, Listed
<1>4. WorkOK'
  BY <1>1 DEF Drain, SlotInv, TypeInv, TypeOK, WorkOK, TunnelsLocked, Goto
<1>5. QED
  BY <1>2, <1>3, <1>4, SlotsFrame DEF Drain, SlotInv, SlotRest, tables

\* close_all moves one closed entry to the list whose slots are released next.
LEMMA CloseOneSlots ==
    ASSUME SlotInv, NEW c \in Controls, NEW t \in Tasks, CloseOne(c, t) PROVE SlotRest'
<1>1. PICK e \in toClose[c] : /\ toClose' = [toClose EXCEPT ![c] = @ \ {e}]
                              /\ toRelease' = [toRelease EXCEPT ![c] = @ \cup {e}]
  BY DEF CloseOne
<1>2. SameHold
  BY HoldUnmoved DEF CloseOne
<1>3. Disjoint' /\ \A d \in Controls : Listed(d)' \subseteq Listed(d)
  BY <1>1 DEF CloseOne, SlotInv, TypeInv, TypeOK, Distinct, Disjoint, Listed
<1>4. WorkOK'
  BY <1>1 DEF CloseOne, SlotInv, TypeInv, TypeOK, WorkOK, TunnelsLocked
<1>5. QED
  BY <1>2, <1>3, <1>4, SlotsFrame DEF CloseOne, SlotInv, SlotRest, tables

\* The end of close_all disturbs no slot.
LEMMA AllClosedSlots ==
    ASSUME SlotInv, NEW c \in Controls, NEW t \in Tasks, AllClosed(c, t) PROVE SlotRest'
<1>1. SameHold
  BY CleanerHold DEF AllClosed, SlotInv
<1>2. Disjoint' /\ \A d \in Controls : Listed(d)' \subseteq Listed(d)
  BY DEF AllClosed, SlotInv, Distinct, Disjoint, Listed, work
<1>3. WorkOK'
  <2>1. \A u \in Tasks : u # t => pc[c][u] \notin {"closing", "release"}
    BY OneCleaner DEF AllClosed, SlotInv, CleanPcs
  <2>2. QED
    BY <2>1 DEF AllClosed, SlotInv, TypeInv, TypeOK, WorkOK, TunnelsLocked, Goto, work
<1>4. QED
  BY <1>1, <1>2, <1>3, SlotsFrame DEF AllClosed, SlotInv, SlotRest, tables, work

\* The end of the releases disturbs no slot.
LEMMA AllReleasedSlots ==
    ASSUME SlotInv, NEW c \in Controls, NEW t \in Tasks, AllReleased(c, t) PROVE SlotRest'
<1>1. PICK p \in {"done", "finish"} : Goto(c, t, p)
  BY DEF AllReleased
<1>2. SameHold
  BY <1>1, CleanerHold DEF AllReleased, SlotInv
<1>3. Disjoint' /\ \A d \in Controls : Listed(d)' \subseteq Listed(d)
  BY DEF AllReleased, SlotInv, Distinct, Disjoint, Listed, work
<1>4. WorkOK'
  <2>1. \A u \in Tasks : u # t => pc[c][u] \notin {"closing", "release"}
    BY OneCleaner DEF AllReleased, SlotInv, CleanPcs
  <2>2. toClose[c] = {} /\ toRelease[c] = {} /\ half[c] = {}
    BY DEF AllReleased, SlotInv, WorkOK
  <2>3. \A u \in Tasks : pc'[c][u] \notin {"closing", "release"}
    BY <1>1, <2>1, GotoMoves DEF SlotInv
  <2>4. \A d \in Controls, u \in Tasks : d # c => pc'[d][u] = pc[d][u]
    BY <1>1, GotoMoves DEF SlotInv
  <2>5. UNCHANGED <<tm, work>>
    BY DEF AllReleased
  <2>6. QED
    BY <2>2, <2>3, <2>4, <2>5 DEF SlotInv, WorkOK, TunnelsLocked, work
<1>5. QED
  BY <1>2, <1>3, <1>4, SlotsFrame DEF AllReleased, SlotInv, SlotRest, tables, work

\* A kick dropped inside close_all forgets entries and their slots stay claimed: a leak,
\* but no slot has two owners.
LEMMA CancelSlots == ASSUME SlotInv, NEW c \in Controls, KickCancelled(c) PROVE SlotRest'
<1>1. SameHold
  BY HoldSame DEF KickCancelled, SlotInv, Pcs
<1>2. CASE pc[c]["ext"] \in {"signal", "lock", "finish"} /\ UNCHANGED <<toClose, toRelease, leak>>
  BY <1>1, <1>2, QuietMove DEF KickCancelled, Tasks, Pcs, work
<1>3. CASE /\ pc[c]["ext"] = "closing"
           /\ toClose' = [toClose EXCEPT ![c] = {}]
           /\ toRelease' = [toRelease EXCEPT ![c] = {}]
  <2>1. Disjoint' /\ \A d \in Controls : Listed(d)' \subseteq Listed(d)
    <3>1. tm' = tm /\ half' = half
      BY DEF KickCancelled
    <3>2. \A d \in Controls : toClose'[d] \subseteq toClose[d] /\ toRelease'[d] \subseteq toRelease[d]
      BY <1>3 DEF SlotInv, TypeInv, TypeOK
    <3>3. QED
      BY <3>1, <3>2 DEF SlotInv, Distinct, Disjoint, Listed
  <2>2. WorkOK'
    <3>1. \A u \in Tasks : u # "ext" => pc[c][u] \notin {"closing", "release"}
      BY <1>3, OneCleaner DEF SlotInv, CleanPcs, Tasks
    <3>2. half[c] = {}
      BY <1>3 DEF SlotInv, WorkOK, Tasks
    <3>3. QED
      BY <1>3, <3>1, <3>2
      DEF KickCancelled, SlotInv, TypeInv, TypeOK, WorkOK, TunnelsLocked, Goto, Tasks
  <2>3. QED
    BY <1>1, <2>1, <2>2, SlotsFrame DEF KickCancelled, SlotInv, SlotRest, tables
<1>4. QED
  BY <1>2, <1>3 DEF KickCancelled

\* Dropping a Control that has shut down disturbs no slot.
LEMMA DropFinishedSlots == ASSUME SlotInv, NEW c \in Controls, DropFinished(c) PROVE SlotRest'
<1>1. SameHold
  BY HoldSame DEF DropFinished, SlotInv, Pcs
<1>2. Disjoint' /\ \A d \in Controls : Listed(d)' \subseteq Listed(d)
  BY DEF DropFinished, SlotInv, TypeInv, TypeOK, Distinct, Disjoint, Listed, work
<1>3. WorkOK'
  BY DEF DropFinished, LastReference, SlotInv, TypeInv, TypeOK, WorkOK, TunnelsLocked, Goto, Tasks, work
<1>4. QED
  BY <1>1, <1>2, <1>3, SlotsFrame DEF DropFinished, SlotInv, SlotRest, tables, work

\* Dropping a Control that has not shut down releases what its manager still lists.
LEMMA DropUnfinishedSlots ==
    ASSUME SlotInv, NEW c \in Controls, DropUnfinished(c) PROVE SlotRest'
<1>1. ~TunnelsLocked(c)
  BY DEF DropUnfinished, LastReference, TunnelsLocked, Tasks
<1>2. toClose[c] = {} /\ toRelease[c] = {} /\ half[c] = {}
  BY <1>1 DEF SlotInv, WorkOK
<1>3. SameHold
  BY HoldSame DEF DropUnfinished, SlotInv, Pcs
<1>4. Disjoint' /\ \A d \in Controls : Listed(d)' \subseteq Listed(d)
  BY <1>2 DEF DropUnfinished, SlotInv, TypeInv, TypeOK, Distinct, Disjoint, Listed
<1>5. WorkOK'
  BY <1>1, <1>2 DEF DropUnfinished, SlotInv, TypeInv, TypeOK, WorkOK, TunnelsLocked, Goto, Tasks
<1>6. QED
  BY <1>3, <1>4, <1>5, SlotsFrame DEF DropUnfinished, SlotInv, SlotRest, tables

-----------------------------------------------------------------------------
(* The steps that take a slot or give one up.                              *)

\* A step that only moves an operation to a place where it holds nothing disturbs no slot.
LEMMA GoalSlots ==
    ASSUME SlotInv, NEW c \in Controls, pc[c]["run"] \in BusyPcs, UNCHANGED <<tables, tm, work>>,
           NEW p \in {"claimName", "loop"}, NEW o, Continue(c, p, o)
    PROVE  SlotRest'
<1>1. PICK q \in {"claimName", "loop", "exit"} : Goto(c, "run", q)
  BY DEF Continue
<1>2. \A d \in Controls \ {c} : op'[d] = op[d]
  BY DEF Continue, SlotInv, TypeInv, TypeOK
<1>3. SameHold
  BY <1>1, <1>2, HoldOver DEF SlotInv, Pcs
<1>4. QED
  BY <1>1, <1>3, QuietMove DEF Tasks, Pcs, BusyPcs

\* A detached tunnel's slots pass from the manager to the operation in hand.
LEMMA DetachSlots == ASSUME SlotInv, NEW c \in Controls, DetachTunnel(c) PROVE SlotRest'
<1>1. pc[c]["run"] \in BusyPcs /\ op[c].goal \in {"claimName", "loop"}
  BY DEF DetachTunnel, SlotInv, TypeInv, TypeOK, BusyPcs, Ops
<1>2. CASE Continue(c, op[c].goal, op[c]) /\ UNCHANGED <<tm, bound>>
  BY <1>1, <1>2, GoalSlots DEF DetachTunnel
<1>3. ASSUME NEW e \in tm[c], e.name = op[c].name,
             tm' = [tm EXCEPT ![c] = @ \ {e}],
             Continue(c, GiveUp(e.key), [op[c] EXCEPT !.rel = e.key])
      PROVE  SlotRest'
  <2>1. /\ toClose[c] = {} /\ toRelease[c] = {} /\ half[c] = {}
        /\ UNCHANGED <<tables, work>>
    BY DEF DetachTunnel, SlotInv, WorkOK
  <2>2. /\ Goto(c, "run", GiveUp(e.key)) /\ GiveUp(e.key) \in {"relPort", "relName"}
        /\ op' = [op EXCEPT ![c] = [op[c] EXCEPT !.rel = e.key]]
    BY <1>3 DEF Continue, GiveUp
  <2>3. /\ pc'[c]["run"] = GiveUp(e.key)
        /\ \A d \in Controls, t \in Tasks : d # c \/ t # "run" => pc'[d][t] = pc[d][t]
    BY <2>2 DEF Goto, SlotInv, TypeInv, TypeOK, Tasks
  <2>4. /\ op'[c].name = e.name /\ op'[c].rel = e.key
        /\ \A d \in Controls : d # c => op'[d] = op[d]
    BY <1>3, <2>2 DEF SlotInv, TypeInv, TypeOK, Ops
  <2>5. /\ Listed(c)' = Listed(c) \ {e} /\ e \in Listed(c) /\ half' = half
        /\ \A d \in Controls : d # c => Listed(d)' = Listed(d)
    BY <1>3, <2>1 DEF Listed, work, SlotInv, TypeInv, TypeOK
  <2>6. /\ OpHoldsName(c)' /\ ~OpHoldsName(c)
        /\ \A k \in PortKeys : OpHoldsPort(c, k)' <=> k = e.key
        /\ \A d \in Controls : d # c =>
              /\ OpHoldsName(d)' <=> OpHoldsName(d)
              /\ \A k \in PortKeys : OpHoldsPort(d, k)' <=> OpHoldsPort(d, k)
    BY <2>2, <2>3, <2>4, SlotAssumptions DEF OpHoldsName, OpHoldsPort, DetachTunnel, GiveUp, Tasks
  <2>7. WorkOK'
    <3>1. ~TunnelsLocked(c) /\ pc[c]["run"] = "detach"
      BY DEF DetachTunnel
    <3>2. \A d \in Controls : tm'[d] = tm[d] \/ ~TunnelsLocked(d)
      BY <1>3, <3>1 DEF SlotInv, TypeInv, TypeOK
    <3>3. \A d \in Controls, t \in Tasks :
            /\ pc'[d][t] = "closing" <=> pc[d][t] = "closing"
            /\ pc'[d][t] = "release" <=> pc[d][t] = "release"
      BY <2>2, <2>3, <3>1
    <3>4. QED
      BY <2>1, <3>2, <3>3, WorkFrame DEF SlotInv
  <2>8. Distinct'
    BY <2>1, <2>4, <2>5, <2>6 DEF Distinct, SlotInv, work
  <2>9. Held'
    <3>1. byName[Trim[e.name]] = c /\ (e.key # NoKey => byPort[e.key] = e.name)
      BY <2>1, <2>5 DEF Held, SlotInv
    <3>2. \A k \in PortKeys : OpHoldsPort(c, k)' => byPort[k] = op'[c].name
      BY <2>4, <2>6, <3>1, SlotAssumptions
    <3>3. \A d \in Controls :
            /\ \A f \in Listed(d)' : byName[Trim[f.name]] = d
            /\ \A f \in Listed(d)' \ half[d] : f.key # NoKey => byPort[f.key] = f.name
      BY <2>5 DEF Held, SlotInv
    <3>4. QED
      BY <2>1, <2>4, <2>5, <2>6, <3>1, <3>2, <3>3 DEF Held, SlotInv, tables
  <2>10. PortsHeld'
    BY <2>1, <2>4, <2>5, <2>6 DEF PortsHeld, SlotInv, tables
  <2>11. QED
    BY <2>7, <2>8, <2>9, <2>10 DEF SlotRest
<1>4. QED
  BY <1>2, <1>3 DEF DetachTunnel

\* A port is given up by its holder.  Nobody else lists it, and the name is still
\* owned by the session that gives the port up.
LEMMA PortGone ==
    ASSUME SlotInv, NEW c \in Controls, NEW k \in PortKeys, NEW n \in Names,
           byPort[k] = n, byName[Trim[n]] = c, byPort'[k] = NoName,
           \A m \in PortKeys : m # k => byPort'[m] = byPort[m]
    PROVE  /\ \A d \in Controls : \A e \in Listed(d) :
                e \notin half[d] /\ e.key # NoKey /\ ~(e.name = n /\ e.key = k) => byPort'[e.key] = e.name
           /\ \A d \in Controls, m \in PortKeys :
                OpHoldsPort(d, m) /\ ~(d = c /\ m = k) => byPort'[m] = op[d].name
           /\ \A m \in PortKeys : byPort'[m] # NoName => m # k /\ byPort'[m] = byPort[m]
<1>1. \A m \in PortKeys : m # k => byPort'[m] = byPort[m]
  OBVIOUS
<1>2. ASSUME NEW d \in Controls, NEW e \in Listed(d), e \notin half[d], e.key # NoKey,
             ~(e.name = n /\ e.key = k)
      PROVE  byPort'[e.key] = e.name
  <2>1. e \in Entries /\ e.key \in PortKeys
    BY <1>2 DEF Listed, SlotInv, TypeInv, TypeOK, Entries
  <2>2. byPort[e.key] = e.name /\ byName[Trim[e.name]] = d
    BY <1>2 DEF SlotInv, Held
  <2>3. e.key # k
    BY <1>2, <2>1, <2>2 DEF Entries
  <2>4. QED
    BY <1>1, <2>1, <2>2, <2>3
<1>3. ASSUME NEW d \in Controls, NEW m \in PortKeys, OpHoldsPort(d, m), ~(d = c /\ m = k)
      PROVE  byPort'[m] = op[d].name
  <2>1. byPort[m] = op[d].name /\ byName[Trim[op[d].name]] = d
    BY <1>3 DEF SlotInv, Held, OpHoldsPort, OpHoldsName
  <2>2. m # k
    BY <1>3, <2>1
  <2>3. QED
    BY <1>1, <2>1, <2>2
<1>4. QED
  BY <1>1, <1>2, <1>3 DEF SlotInv, TypeInv, TypeOK

\* Giving up an operation's port: it is the operation's own, and its name is still held.
LEMMA RelPortSlots == ASSUME SlotInv, NEW c \in Controls, RelPort(c) PROVE SlotRest'
<1> DEFINE n == op[c].name
           k == op[c].rel
<1>1. n \in Names /\ k \in PortKeys /\ OpHoldsPort(c, k) /\ OpHoldsName(c)
  BY SlotAssumptions DEF RelPort, SlotInv, TypeInv, OpOK, BusyPcs, OpHoldsPort, OpHoldsName
<1>2. byPort[k] = n /\ byName[Trim[n]] = c
  BY <1>1 DEF SlotInv, Held
<1>3. byPort'[k] = NoName /\ \A m \in PortKeys : m # k => byPort'[m] = byPort[m]
  BY <1>1, <1>2 DEF RelPort, ReleasePort, SlotInv, TypeInv, TypeOK
<1>4. /\ \A d \in Controls : \A e \in Listed(d) :
           e \notin half[d] /\ e.key # NoKey /\ ~(e.name = n /\ e.key = k) => byPort'[e.key] = e.name
      /\ \A d \in Controls, m \in PortKeys :
           OpHoldsPort(d, m) /\ ~(d = c /\ m = k) => byPort'[m] = op[d].name
      /\ \A m \in PortKeys : byPort'[m] # NoName => m # k /\ byPort'[m] = byPort[m]
  BY <1>1, <1>2, <1>3, PortGone
<1>5. UNCHANGED <<byName, tm, op, work>> /\ half' = half /\ \A d \in Controls : Listed(d)' = Listed(d)
  BY DEF RelPort, Listed, work
<1>6. /\ pc'[c]["run"] = "relName" /\ pc[c]["run"] = "relPort"
      /\ \A d \in Controls, u \in Tasks : d # c \/ u # "run" => pc'[d][u] = pc[d][u]
  BY GotoMoves DEF RelPort, SlotInv, Tasks
<1>7. /\ OpHoldsName(c)' /\ OpHoldsName(c) /\ \A m \in PortKeys : ~OpHoldsPort(c, m)'
      /\ \A d \in Controls : d # c =>
            /\ OpHoldsName(d)' <=> OpHoldsName(d)
            /\ \A m \in PortKeys : OpHoldsPort(d, m)' <=> OpHoldsPort(d, m)
  BY <1>5, <1>6 DEF OpHoldsName, OpHoldsPort, Tasks
<1>8. \A d \in Controls : \A e \in Listed(d) : Trim[e.name] # Trim[n]
  BY <1>1, <1>2 DEF SlotInv, Distinct, Held
<1>9. WorkOK'
  <2>1. \A d \in Controls, t \in Tasks :
          /\ pc'[d][t] = "closing" <=> pc[d][t] = "closing"
          /\ pc'[d][t] = "release" <=> pc[d][t] = "release"
    BY <1>6
  <2>2. QED
    BY <1>5, <2>1, WorkFrame DEF SlotInv
<1>10. Distinct'
  BY <1>5, <1>7 DEF SlotInv, Distinct, work
<1>11. Held'
  <2>1. \A d \in Controls : \A e \in Listed(d) \ half[d] : e.key # NoKey => byPort'[e.key] = e.name
    BY <1>4, <1>8
  <2>2. QED
    BY <1>4, <1>5, <1>7, <2>1 DEF SlotInv, Held
<1>12. PortsHeld'
  <2> SUFFICES ASSUME NEW m \in PortKeys, byPort'[m] # NoName
               PROVE  /\ byName[Trim[byPort[m]]] \in Controls
                      /\ \A d \in Controls : byName[Trim[byPort[m]]] = d =>
                           /\ \A e \in Listed(d) :
                                Trim[e.name] = Trim[byPort[m]] =>
                                    e \notin half[d] /\ e = [name |-> byPort[m], key |-> m]
                           /\ OpHoldsName(d)' /\ Trim[op[d].name] = Trim[byPort[m]]
                                => OpHoldsPort(d, m)' /\ op[d].name = byPort[m]
    BY <1>4, <1>5 DEF PortsHeld
  <2>1. byPort'[m] = byPort[m] /\ m # k /\ ~OpHoldsPort(c, m)
    BY <1>4, <1>6 DEF OpHoldsPort
  <2>2. QED
    BY <1>4, <1>7, <2>1 DEF SlotInv, PortsHeld
<1>13. QED
  BY <1>9, <1>10, <1>11, <1>12 DEF SlotRest

\* A name is given up by its owner, who has no port in hand with it.  If the name
\* has white space around it, nothing that matters changes.
LEMMA NameGone ==
    ASSUME SlotInv, NEW c \in Controls, NEW n \in Names, byName[Trim[n]] = c,
           RemoveIfOwner(n, c),
           \A k \in PortKeys : byPort[k] # NoName => Trim[byPort[k]] # Trim[n]
    PROVE  /\ \A d \in Controls : \A e \in Listed(d) :
                Trim[e.name] # Trim[n] => byName'[Trim[e.name]] = d
           /\ \A d \in Controls :
                OpHoldsName(d) /\ Trim[op[d].name] # Trim[n] => byName'[Trim[op[d].name]] = d
           /\ \A k \in PortKeys : byPort[k] # NoName =>
                byName'[Trim[byPort[k]]] = byName[Trim[byPort[k]]]
<1>1. \A m \in Names : Trim[m] \in Names /\ (Trim[m] # Trim[n] => byName'[Trim[m]] = byName[Trim[m]])
  <2>1. ASSUME NEW m \in Names, Trim[m] # Trim[n] PROVE byName'[Trim[m]] = byName[Trim[m]]
    <3>1. Trim[m] \in Names /\ Trim[Trim[m]] = Trim[m]
      BY SlotAssumptions
    <3>2. Trim[m] # n
      BY <2>1, <3>1
    <3>3. QED
      BY <3>1, <3>2 DEF RemoveIfOwner, SlotInv, TypeInv, TypeOK
  <2>2. QED
    BY <2>1, SlotAssumptions
<1>2. \A d \in Controls : \A e \in Listed(d) : e.name \in Names /\ byName[Trim[e.name]] = d
  BY DEF SlotInv, Held, Listed, TypeInv, TypeOK, Entries
<1>3. \A d \in Controls : OpHoldsName(d) => op[d].name \in Names /\ byName[Trim[op[d].name]] = d
  BY DEF SlotInv, Held, OpHoldsName, TypeInv, OpOK, BusyPcs
<1>4. \A k \in PortKeys : byPort[k] # NoName => byPort[k] \in Names
  BY DEF SlotInv, TypeInv, TypeOK
<1>5. QED
  BY <1>1, <1>2, <1>3, <1>4

\* Giving up an operation's name: its port is already free.
LEMMA RelNameSlots == ASSUME SlotInv, NEW c \in Controls, RelName(c) PROVE SlotRest'
<1> DEFINE n == op[c].name
<1>1. n \in Names /\ OpHoldsName(c) /\ \A k \in PortKeys : ~OpHoldsPort(c, k)
  BY DEF RelName, SlotInv, TypeInv, OpOK, BusyPcs, OpHoldsPort, OpHoldsName
<1>2. byName[Trim[n]] = c
  BY <1>1 DEF SlotInv, Held
<1>3. \A k \in PortKeys : byPort[k] # NoName => Trim[byPort[k]] # Trim[n]
  BY <1>1, <1>2 DEF SlotInv, PortsHeld
<1>4. /\ \A d \in Controls : \A e \in Listed(d) :
           Trim[e.name] # Trim[n] => byName'[Trim[e.name]] = d
      /\ \A d \in Controls :
           OpHoldsName(d) /\ Trim[op[d].name] # Trim[n] => byName'[Trim[op[d].name]] = d
      /\ \A k \in PortKeys : byPort[k] # NoName =>
           byName'[Trim[byPort[k]]] = byName[Trim[byPort[k]]]
  BY <1>1, <1>2, <1>3, NameGone DEF RelName
<1>5. UNCHANGED <<byPort, tm, work>> /\ half' = half /\ \A d \in Controls : Listed(d)' = Listed(d)
  BY DEF RelName, Listed, work
<1>6. PICK q \in {"claimName", "loop", "exit"} : Goto(c, "run", q)
  BY DEF RelName, Continue, SlotInv, TypeInv, TypeOK, Ops
<1>7. \A d \in Controls : d # c => op'[d] = op[d]
  BY DEF RelName, Continue, SlotInv, TypeInv, TypeOK
<1>8. /\ pc'[c]["run"] = q /\ pc[c]["run"] = "relName"
      /\ \A d \in Controls, u \in Tasks : d # c \/ u # "run" => pc'[d][u] = pc[d][u]
  BY <1>6, GotoMoves DEF RelName, SlotInv, Tasks
<1>9. /\ ~OpHoldsName(c)' /\ \A m \in PortKeys : ~OpHoldsPort(c, m)'
      /\ \A d \in Controls : d # c =>
            /\ OpHoldsName(d)' <=> OpHoldsName(d)
            /\ \A m \in PortKeys : OpHoldsPort(d, m)' <=> OpHoldsPort(d, m)
  BY <1>7, <1>8 DEF OpHoldsName, OpHoldsPort, Tasks
<1>10. /\ \A d \in Controls : \A e \in Listed(d) : Trim[e.name] # Trim[n]
       /\ \A d \in Controls : d # c /\ OpHoldsName(d) => Trim[op[d].name] # Trim[n]
  BY <1>1, <1>2 DEF SlotInv, Distinct, Held
<1>11. WorkOK'
  <2>1. \A d \in Controls, t \in Tasks :
          /\ pc'[d][t] = "closing" <=> pc[d][t] = "closing"
          /\ pc'[d][t] = "release" <=> pc[d][t] = "release"
    BY <1>8
  <2>2. QED
    BY <1>5, <2>1, WorkFrame DEF SlotInv
<1>12. Distinct'
  BY <1>5, <1>7, <1>9 DEF SlotInv, Distinct, work
<1>13. Held'
  BY <1>4, <1>5, <1>7, <1>9, <1>10 DEF SlotInv, Held
<1>14. PortsHeld'
  BY <1>4, <1>5, <1>7, <1>9 DEF SlotInv, PortsHeld
<1>15. QED
  BY <1>11, <1>12, <1>13, <1>14 DEF SlotRest

\* A free name is taken: nothing listed, held or recorded bears it.
LEMMA ClaimNameSlots == ASSUME SlotInv, NEW c \in Controls, ClaimName(c) PROVE SlotRest'
<1> DEFINE n == op[c].name
           b == Trim[n]
<1>1. n \in Names /\ pc[c]["run"] = "claimName" /\ pc[c]["run"] \in BusyPcs
  BY DEF ClaimName, SlotInv, TypeInv, OpOK, BusyPcs
<1>2. CASE Continue(c, "loop", op[c]) /\ UNCHANGED byName
  BY <1>1, <1>2, GoalSlots DEF ClaimName, tables
<1>3. CASE /\ NameFree(n) /\ TryInsert(n, c)
           /\ Continue(c, IF op[c].key = NoKey THEN "start" ELSE "claimPort",
                       [op[c] EXCEPT !.goal = "loop"])
  <2>1. b \in Names /\ byName[b] = NoControl
    BY <1>1, <1>3, SlotAssumptions DEF NameFree
  <2>2. /\ byName'[b] = c
        /\ \A m \in Names : m # b => byName'[m] = byName[m]
    BY <1>3, <2>1 DEF TryInsert, SlotInv, TypeInv, TypeOK
  <2>3. PICK q \in {"start", "claimPort"} :
          Goto(c, "run", q) /\ (q = "start" => op[c].key = NoKey)
    BY <1>3 DEF Continue
  <2>4. /\ op'[c].name = n /\ op'[c].key = op[c].key
        /\ \A d \in Controls : d # c => op'[d] = op[d]
    <3>1. op' = [op EXCEPT ![c] = [op[c] EXCEPT !.goal = "loop"]]
      BY <1>3 DEF Continue
    <3>2. op[c] \in Ops /\ op' = [op EXCEPT ![c] = [op[c] EXCEPT !.goal = "loop"]]
      BY <3>1 DEF SlotInv, TypeInv, TypeOK
    <3>3. QED
      BY <3>2, OpTypes DEF SlotInv, TypeInv, TypeOK, Ops
  <2>5. UNCHANGED <<byPort, tm, work>> /\ half' = half /\ \A d \in Controls : Listed(d)' = Listed(d)
    BY DEF ClaimName, Listed, work
  <2>6. /\ pc'[c]["run"] = q
        /\ \A d \in Controls, u \in Tasks : d # c \/ u # "run" => pc'[d][u] = pc[d][u]
    BY <2>3, GotoMoves DEF SlotInv, Tasks
  <2>7. /\ OpHoldsName(c)' /\ \A m \in PortKeys : ~OpHoldsPort(c, m)'
        /\ \A d \in Controls : d # c =>
              /\ OpHoldsName(d)' <=> OpHoldsName(d)
              /\ \A m \in PortKeys : OpHoldsPort(d, m)' <=> OpHoldsPort(d, m)
    BY <2>3, <2>4, <2>6, SlotAssumptions DEF OpHoldsName, OpHoldsPort, Tasks
  <2>8. \A d \in Controls : \A e \in Listed(d) :
           /\ Trim[e.name] # b /\ byName'[Trim[e.name]] = d
    <3>1. \A d \in Controls : \A e \in Listed(d) :
            Trim[e.name] \in Names /\ byName[Trim[e.name]] = d /\ d # NoControl
      BY SlotAssumptions DEF SlotInv, Held, Listed, TypeInv, TypeOK, Entries
    <3>2. QED
      BY <2>1, <2>2, <3>1
  <2>9. \A d \in Controls : d # c /\ OpHoldsName(d) => byName'[Trim[op[d].name]] = d
    <3>1. \A d \in Controls : OpHoldsName(d) =>
            Trim[op[d].name] \in Names /\ byName[Trim[op[d].name]] = d /\ d # NoControl
      BY SlotAssumptions DEF SlotInv, Held, OpHoldsName, TypeInv, OpOK, BusyPcs
    <3>2. QED
      BY <2>1, <2>2, <3>1
  <2>10. \A k \in PortKeys : byPort[k] # NoName =>
           Trim[byPort[k]] # b /\ byName'[Trim[byPort[k]]] = byName[Trim[byPort[k]]]
    <3>1. \A k \in PortKeys : byPort[k] # NoName =>
            Trim[byPort[k]] \in Names /\ byName[Trim[byPort[k]]] # NoControl
      BY SlotAssumptions DEF SlotInv, PortsHeld, TypeInv, TypeOK
    <3>2. QED
      BY <2>1, <2>2, <3>1
  <2>11. WorkOK'
    <3>1. \A d \in Controls, t \in Tasks :
            /\ pc'[d][t] = "closing" <=> pc[d][t] = "closing"
            /\ pc'[d][t] = "release" <=> pc[d][t] = "release"
      BY <1>1, <2>6
    <3>2. QED
      BY <2>5, <3>1, WorkFrame DEF SlotInv
  <2>12. Distinct'
    BY <2>4, <2>5, <2>7, <2>8 DEF SlotInv, Distinct, work
  <2>13. Held'
    BY <2>2, <2>4, <2>5, <2>7, <2>8, <2>9 DEF SlotInv, Held
  <2>14. PortsHeld'
    BY <2>4, <2>5, <2>7, <2>10 DEF SlotInv, PortsHeld
  <2>15. QED
    BY <2>11, <2>12, <2>13, <2>14 DEF SlotRest
<1>4. QED
  BY <1>2, <1>3 DEF ClaimName

\* claim_port takes a free port for a name that the same operation holds.
LEMMA ClaimPortSlots == ASSUME SlotInv, NEW c \in Controls, ClaimPort(c) PROVE SlotRest'
<1> DEFINE n == op[c].name
           k == op[c].key
<1>1. /\ n \in Names /\ k \in PortKeys /\ pc[c]["run"] = "claimPort"
      /\ OpHoldsName(c) /\ \A m \in PortKeys : ~OpHoldsPort(c, m)
  BY DEF ClaimPort, SlotInv, TypeInv, OpOK, BusyPcs, OpHoldsName, OpHoldsPort
<1>2. byName[Trim[n]] = c /\ \A d \in Controls : \A e \in Listed(d) : Trim[e.name] # Trim[n]
  BY <1>1 DEF SlotInv, Held, Distinct
<1>3. UNCHANGED <<byName, tm, op, work>> /\ half' = half /\ \A d \in Controls : Listed(d)' = Listed(d)
  BY DEF ClaimPort, Listed, work
<1>4. PICK q \in {"start", "relName"} : Goto(c, "run", q)
  BY DEF ClaimPort
<1>5. /\ pc'[c]["run"] = q
      /\ \A d \in Controls, u \in Tasks : d # c \/ u # "run" => pc'[d][u] = pc[d][u]
  BY <1>4, GotoMoves DEF SlotInv, Tasks
<1>6. /\ OpHoldsName(c)' /\ \A m \in PortKeys : OpHoldsPort(c, m)' <=> m = k /\ q = "start"
      /\ \A d \in Controls : d # c =>
            /\ OpHoldsName(d)' <=> OpHoldsName(d)
            /\ \A m \in PortKeys : OpHoldsPort(d, m)' <=> OpHoldsPort(d, m)
  BY <1>1, <1>3, <1>5, SlotAssumptions DEF OpHoldsName, OpHoldsPort, Tasks
<1>7. CASE q = "relName" /\ UNCHANGED byPort
  <2>1. SameHold
    BY <1>1, <1>3, <1>6, <1>7 DEF SameHold
  <2>2. QED
    BY <1>1, <1>3, <1>4, <1>7, <2>1, QuietMove DEF Tasks, Pcs, tables
<1>8. CASE /\ q = "start" /\ byPort[k] = NoName /\ byPort' = [byPort EXCEPT ![k] = n]
  <2>1. byPort'[k] = n /\ \A m \in PortKeys : m # k => byPort'[m] = byPort[m]
    BY <1>1, <1>8 DEF SlotInv, TypeInv, TypeOK
  <2>2. \A d \in Controls : \A e \in Listed(d) \ half[d] : e.key # NoKey => byPort'[e.key] = e.name
    <3>1. \A d \in Controls : \A e \in Listed(d) \ half[d] : e.key # NoKey =>
            e.key \in PortKeys /\ e.name \in Names /\ byPort[e.key] = e.name
      BY DEF SlotInv, Held, Listed, TypeInv, TypeOK, Entries
    <3>2. QED
      BY <1>8, <2>1, <3>1, SlotAssumptions
  <2>3. \A d \in Controls, m \in PortKeys : OpHoldsPort(d, m) => byPort'[m] = op[d].name
    <3>1. \A d \in Controls, m \in PortKeys : OpHoldsPort(d, m) =>
            byPort[m] = op[d].name /\ op[d].name \in Names
      BY DEF SlotInv, Held, OpHoldsPort, TypeInv, OpOK, BusyPcs
    <3>2. QED
      BY <1>8, <2>1, <3>1, SlotAssumptions
  <2>4. WorkOK'
    <3>1. \A d \in Controls, t \in Tasks :
            /\ pc'[d][t] = "closing" <=> pc[d][t] = "closing"
            /\ pc'[d][t] = "release" <=> pc[d][t] = "release"
      BY <1>1, <1>5
    <3>2. QED
      BY <1>3, <3>1, WorkFrame DEF SlotInv
  <2>5. Distinct'
    BY <1>1, <1>3, <1>6 DEF SlotInv, Distinct, work
  <2>6. Held'
    BY <1>1, <1>2, <1>3, <1>6, <2>1, <2>2, <2>3 DEF SlotInv, Held
  <2>7. PortsHeld'
    <3>1. ASSUME NEW m \in PortKeys, byPort[m] # NoName PROVE Trim[byPort[m]] # Trim[n]
      BY <1>1, <1>2, <3>1 DEF SlotInv, PortsHeld
    <3>2. QED
      BY <1>1, <1>2, <1>3, <1>6, <1>8, <2>1, <3>1 DEF SlotInv, PortsHeld
  <2>8. QED
    BY <2>4, <2>5, <2>6, <2>7 DEF SlotRest
<1>9. QED
  <2>1. CASE byPort[k] = NoName
    <3>1. q = "start" /\ byPort' = [byPort EXCEPT ![k] = n]
      BY <1>4, <1>5, <2>1, GotoMoves DEF ClaimPort, SlotInv, Tasks
    <3>2. QED
      BY <1>8, <2>1, <3>1
  <2>2. CASE byPort[k] # NoName
    <3>1. q = "relName" /\ UNCHANGED byPort
      BY <1>4, <1>5, <2>2, GotoMoves DEF ClaimPort, SlotInv, Tasks
    <3>2. QED
      BY <1>7, <3>1
  <2>3. QED
    BY <2>1, <2>2

\* A start that fails passes its port on to the release.
LEMMA StartSlots == ASSUME SlotInv, NEW c \in Controls, StartTunnel(c) PROVE SlotRest'
<1>1. /\ pc[c]["run"] = "start" /\ UNCHANGED <<tables, tm, work>>
      /\ op[c] \in Ops /\ op[c].key \in PortKeys \cup {NoKey}
  BY DEF StartTunnel, SlotInv, TypeInv, TypeOK, Ops
<1>2. CASE Continue(c, "insert", op[c])
  <2>1. Goto(c, "run", "insert") /\ op' = op
    BY <1>2 DEF Continue, SlotInv, TypeInv, TypeOK
  <2>2. /\ pc'[c]["run"] = "insert"
        /\ \A d \in Controls, u \in Tasks : d # c \/ u # "run" => pc'[d][u] = pc[d][u]
    BY <2>1, GotoMoves DEF SlotInv, Tasks
  <2>3. SameHold
    BY <1>1, <2>1, <2>2 DEF SameHold, OpHoldsName, OpHoldsPort, Tasks
  <2>4. QED
    BY <1>1, <2>1, <2>3, QuietMove DEF Tasks, Pcs
<1>3. CASE Continue(c, GiveUp(op[c].key), [op[c] EXCEPT !.rel = op[c].key])
  <2>1. /\ Goto(c, "run", GiveUp(op[c].key)) /\ GiveUp(op[c].key) \in {"relPort", "relName"}
        /\ op' = [op EXCEPT ![c] = [op[c] EXCEPT !.rel = op[c].key]]
    BY <1>3 DEF Continue, GiveUp
  <2>2. /\ op'[c].name = op[c].name /\ op'[c].rel = op[c].key
        /\ \A d \in Controls : d # c => op'[d] = op[d]
    BY <1>1, <2>1 DEF SlotInv, TypeInv, TypeOK, Ops
  <2>3. /\ pc'[c]["run"] = GiveUp(op[c].key)
        /\ \A d \in Controls, u \in Tasks : d # c \/ u # "run" => pc'[d][u] = pc[d][u]
    BY <2>1, GotoMoves DEF SlotInv, Tasks
  <2>4. SameHold
    BY <1>1, <2>1, <2>2, <2>3, SlotAssumptions
    DEF SameHold, OpHoldsName, OpHoldsPort, Tasks, GiveUp
  <2>5. QED
    BY <1>1, <2>1, <2>4, QuietMove DEF Tasks, Pcs
<1>4. QED
  BY <1>2, <1>3 DEF StartTunnel

\* insert_tunnel hands the slots of the operation over to the entry.
LEMMA InsertSlots == ASSUME SlotInv, NEW c \in Controls, InsertTunnel(c) PROVE SlotRest'
<1> DEFINE n == op[c].name
           k == op[c].key
           x == [name |-> n, key |-> k]
<1>1. /\ pc[c]["run"] = "insert" /\ n \in Names /\ k \in PortKeys \cup {NoKey}
      /\ OpHoldsName(c) /\ (k # NoKey => OpHoldsPort(c, k))
  BY DEF InsertTunnel, SlotInv, TypeInv, TypeOK, OpOK, BusyPcs, Ops, OpHoldsName, OpHoldsPort
<1>2. /\ byName[Trim[n]] = c /\ (k # NoKey => byPort[k] = n)
      /\ \A d \in Controls : \A e \in Listed(d) : Trim[e.name] # Trim[n]
  BY <1>1 DEF SlotInv, Held, Distinct
<1>3. ~TunnelsLocked(c) /\ toClose[c] = {} /\ toRelease[c] = {} /\ half[c] = {}
  BY DEF InsertTunnel, SlotInv, WorkOK
<1>4. UNCHANGED <<byName, byPort, work>> /\ half' = half
  BY DEF InsertTunnel, tables, work
<1>5. /\ Listed(c)' = Listed(c) \cup {x}
      /\ \A d \in Controls : d # c => Listed(d)' = Listed(d)
  BY <1>3, <1>4 DEF InsertTunnel, Listed, work, SlotInv, TypeInv, TypeOK
<1>6. PICK q \in {"loop", "exit"} : Goto(c, "run", q)
  BY DEF InsertTunnel, Continue
<1>7. \A d \in Controls : d # c => op'[d] = op[d]
  BY DEF InsertTunnel, Continue, SlotInv, TypeInv, TypeOK
<1>8. /\ pc'[c]["run"] = q
      /\ \A d \in Controls, u \in Tasks : d # c \/ u # "run" => pc'[d][u] = pc[d][u]
  BY <1>6, GotoMoves DEF SlotInv, Tasks
<1>9. /\ ~OpHoldsName(c)' /\ \A m \in PortKeys : ~OpHoldsPort(c, m)'
      /\ \A d \in Controls : d # c =>
            /\ OpHoldsName(d)' <=> OpHoldsName(d)
            /\ \A m \in PortKeys : OpHoldsPort(d, m)' <=> OpHoldsPort(d, m)
  BY <1>7, <1>8 DEF OpHoldsName, OpHoldsPort, Tasks
<1>10. WorkOK'
  <2>1. \A d \in Controls, t \in Tasks :
          /\ pc'[d][t] = "closing" <=> pc[d][t] = "closing"
          /\ pc'[d][t] = "release" <=> pc[d][t] = "release"
    BY <1>1, <1>8
  <2>2. \A d \in Controls : tm'[d] = tm[d] \/ ~TunnelsLocked(d)
    BY <1>3 DEF InsertTunnel, SlotInv, TypeInv, TypeOK
  <2>3. QED
    BY <1>4, <2>1, <2>2, WorkFrame DEF SlotInv
<1>11. Distinct'
  BY <1>2, <1>4, <1>5, <1>7, <1>9 DEF SlotInv, Distinct, work
<1>12. Held'
  BY <1>2, <1>4, <1>5, <1>7, <1>9 DEF SlotInv, Held
<1>13. PortsHeld'
  <2>1. \A m \in PortKeys : OpHoldsPort(c, m) => m = k
    BY <1>1 DEF OpHoldsPort
  <2>2. \A m \in PortKeys : byPort[m] # NoName /\ Trim[byPort[m]] = Trim[n] =>
           x = [name |-> byPort[m], key |-> m]
    BY <1>1, <1>2, <2>1 DEF SlotInv, PortsHeld
  <2>3. ASSUME NEW m \in PortKeys, byPort[m] # NoName, NEW d \in Controls,
               byName[Trim[byPort[m]]] = d, NEW e \in Listed(d)',
               Trim[e.name] = Trim[byPort[m]]
        PROVE  e \notin half[d] /\ e = [name |-> byPort[m], key |-> m]
    <3>1. CASE e \in Listed(d)
      BY <2>3, <3>1 DEF SlotInv, PortsHeld
    <3>2. CASE e \notin Listed(d)
      <4>1. d = c /\ e = x
        BY <1>5, <2>3, <3>2
      <4>2. QED
        BY <1>3, <2>2, <2>3, <4>1
    <3>3. QED
      BY <3>1, <3>2
  <2>4. QED
    BY <1>4, <1>7, <1>9, <2>3 DEF SlotInv, PortsHeld
<1>14. QED
  BY <1>10, <1>11, <1>12, <1>13 DEF SlotRest

\* shutdown releases the port of one entry before its name.
LEMMA ReleaseOnePortSlots ==
    ASSUME SlotInv, NEW c \in Controls, NEW t \in Tasks, ReleaseOnePort(c, t) PROVE SlotRest'
<1>1. PICK x \in toRelease[c] :
        /\ toRelease' = [toRelease EXCEPT ![c] = @ \ {x}]
        /\ half' = [half EXCEPT ![c] = {x}]
        /\ \/ x.key # NoKey /\ ReleasePort(x.key, x.name)
           \/ x.key = NoKey /\ UNCHANGED byPort
  BY DEF ReleaseOnePort
<1>2. /\ pc[c][t] = "release" /\ half[c] = {} /\ UNCHANGED <<byName, tm, op, toClose>>
      /\ pc' = pc
  BY DEF ReleaseOnePort
<1>3. /\ x \in Listed(c) /\ x \notin half[c] /\ x \notin toClose[c] /\ x \in Entries
      /\ byName[Trim[x.name]] = c /\ (x.key # NoKey => byPort[x.key] = x.name)
  BY <1>1, <1>2 DEF SlotInv, Listed, Held, Distinct, TypeInv, TypeOK
<1>4. /\ \A d \in Controls : Listed(d)' = Listed(d)
      /\ \A d \in Controls : half[d] \subseteq half'[d] /\ (d # c => half'[d] = half[d])
      /\ half'[c] = {x}
  BY <1>1, <1>2 DEF Listed, SlotInv, TypeInv, TypeOK
<1>5. \A d \in Controls :
        /\ OpHoldsName(d)' <=> OpHoldsName(d)
        /\ \A m \in PortKeys : OpHoldsPort(d, m)' <=> OpHoldsPort(d, m)
  BY <1>2 DEF OpHoldsName, OpHoldsPort
<1>6. WorkOK'
  <2>1. \A u \in Tasks : u # t => pc[c][u] \notin {"closing", "release"}
    BY <1>2, OneCleaner DEF SlotInv, CleanPcs
  <2>2. QED
    BY <1>1, <1>2, <2>1 DEF SlotInv, TypeInv, TypeOK, WorkOK, TunnelsLocked
<1>7. Distinct'
  <2>1. \A d \in Controls :
          /\ toClose'[d] \cap toRelease'[d] = {}
          /\ (toClose'[d] \cup toRelease'[d]) \cap half'[d] = {}
    BY <1>1, <1>2, <1>3 DEF SlotInv, Distinct, TypeInv, TypeOK
  <2>2. QED
    BY <1>2, <1>4, <1>5, <2>1 DEF SlotInv, Distinct
<1>8. \A d \in Controls : OpHoldsName(d) => Trim[op[d].name] # Trim[x.name]
  BY <1>3 DEF SlotInv, Distinct, Held
<1>9. \A d \in Controls : \A e \in Listed(d) : Trim[e.name] = Trim[x.name] => d = c /\ e = x
  BY <1>3 DEF SlotInv, Distinct, Held
<1>10. CASE x.key = NoKey /\ UNCHANGED byPort
  <2>1. Held'
    BY <1>2, <1>4, <1>5, <1>10 DEF SlotInv, Held
  <2>2. \A m \in PortKeys : byPort[m] # NoName => Trim[byPort[m]] # Trim[x.name]
    BY <1>3, <1>10, SlotAssumptions DEF SlotInv, PortsHeld
  <2>3. PortsHeld'
    BY <1>2, <1>4, <1>5, <1>10, <2>2 DEF SlotInv, PortsHeld
  <2>4. QED
    BY <1>6, <1>7, <2>1, <2>3 DEF SlotRest
<1>11. CASE x.key # NoKey /\ ReleasePort(x.key, x.name)
  <2>1. /\ x.key \in PortKeys /\ x.name \in Names
        /\ byPort'[x.key] = NoName /\ \A m \in PortKeys : m # x.key => byPort'[m] = byPort[m]
    BY <1>3, <1>11 DEF ReleasePort, Entries, SlotInv, TypeInv, TypeOK
  <2>2. /\ \A d \in Controls : \A e \in Listed(d) \ half[d] :
              e.key # NoKey /\ e # x => byPort'[e.key] = e.name
        /\ \A d \in Controls, m \in PortKeys :
              OpHoldsPort(d, m) /\ ~(d = c /\ m = x.key) => byPort'[m] = op[d].name
        /\ \A m \in PortKeys : byPort'[m] # NoName => m # x.key /\ byPort'[m] = byPort[m]
    <3>1. PICK k \in PortKeys, n \in Names : x.key = k /\ x.name = n
      BY <2>1
    <3>2. /\ byPort[k] = n /\ byName[Trim[n]] = c /\ byPort'[k] = NoName
          /\ \A m \in PortKeys : m # k => byPort'[m] = byPort[m]
      BY <1>3, <1>11, <2>1, <3>1
    <3>3. /\ \A d \in Controls : \A e \in Listed(d) :
                e \notin half[d] /\ e.key # NoKey /\ ~(e.name = n /\ e.key = k) => byPort'[e.key] = e.name
          /\ \A d \in Controls, m \in PortKeys :
                OpHoldsPort(d, m) /\ ~(d = c /\ m = k) => byPort'[m] = op[d].name
          /\ \A m \in PortKeys : byPort'[m] # NoName => m # k /\ byPort'[m] = byPort[m]
      BY <3>2, PortGone
    <3>4. \A d \in Controls : \A e \in Listed(d) : e.name = x.name => e = x
      BY <1>9
    <3>5. QED
      BY <3>1, <3>3, <3>4
  <2>3. \A d \in Controls, m \in PortKeys :
           OpHoldsPort(d, m) => OpHoldsName(d) /\ byPort[m] = op[d].name
    BY DEF SlotInv, Held, OpHoldsPort, OpHoldsName
  <2>4. ~OpHoldsPort(c, x.key)
    BY <1>3, <1>8, <1>11, <2>1, <2>3
  <2>5. \A d \in Controls : \A e \in Listed(d)' \ half'[d] : e.key # NoKey => byPort'[e.key] = e.name
    <3>1. ASSUME NEW d \in Controls, NEW e \in Listed(d)' \ half'[d], e.key # NoKey
          PROVE  byPort'[e.key] = e.name
      <4>1. e \in Listed(d) \ half[d] /\ e # x
        BY <1>4, <1>9, <3>1
      <4>2. QED
        BY <2>2, <3>1, <4>1
    <3>2. QED
      BY <3>1
  <2>6. Held'
    BY <1>2, <1>4, <1>5, <2>2, <2>4, <2>5 DEF SlotInv, Held
  <2>7. \A m \in PortKeys : byPort'[m] # NoName => Trim[byPort[m]] # Trim[x.name]
    BY <1>3, <2>1, <2>2 DEF SlotInv, PortsHeld
  <2>8. PortsHeld'
    <3>1. ASSUME NEW m \in PortKeys, byPort'[m] # NoName, NEW d \in Controls,
                 byName[Trim[byPort[m]]] = d, NEW e \in Listed(d), Trim[e.name] = Trim[byPort[m]]
          PROVE  e \notin half'[d] /\ e = [name |-> byPort[m], key |-> m]
      <4>1. e \notin half[d] /\ e = [name |-> byPort[m], key |-> m]
        BY <2>2, <3>1 DEF SlotInv, PortsHeld
      <4>2. e # x
        BY <2>7, <3>1
      <4>3. QED
        BY <1>4, <4>1, <4>2
    <3>2. QED
      BY <1>2, <1>4, <1>5, <2>2, <3>1 DEF SlotInv, PortsHeld
  <2>9. QED
    BY <1>6, <1>7, <2>6, <2>8 DEF SlotRest
<1>12. QED
  BY <1>1, <1>10, <1>11

\* shutdown releases the name of one entry whose port is free.
LEMMA ReleaseOneNameSlots ==
    ASSUME SlotInv, NEW c \in Controls, NEW t \in Tasks, ReleaseOneName(c, t) PROVE SlotRest'
<1>1. PICK x \in half[c] : half' = [half EXCEPT ![c] = {}] /\ RemoveIfOwner(x.name, c)
  BY DEF ReleaseOneName
<1>2. /\ pc[c][t] = "release" /\ UNCHANGED <<byPort, tm, op, toClose, toRelease>>
      /\ pc' = pc
  BY DEF ReleaseOneName
<1>3. x \in Listed(c) /\ x.name \in Names /\ byName[Trim[x.name]] = c
  BY <1>1 DEF SlotInv, Listed, Held, TypeInv, TypeOK, Entries
<1>4. \A k \in PortKeys : byPort[k] # NoName => Trim[byPort[k]] # Trim[x.name]
  BY <1>1, <1>3 DEF SlotInv, PortsHeld
<1>5. /\ \A d \in Controls : \A e \in Listed(d) :
           Trim[e.name] # Trim[x.name] => byName'[Trim[e.name]] = d
      /\ \A d \in Controls :
           OpHoldsName(d) /\ Trim[op[d].name] # Trim[x.name] => byName'[Trim[op[d].name]] = d
      /\ \A k \in PortKeys : byPort[k] # NoName =>
           byName'[Trim[byPort[k]]] = byName[Trim[byPort[k]]]
  BY <1>1, <1>3, <1>4, NameGone
<1>6. /\ \A d \in Controls : OpHoldsName(d) => Trim[op[d].name] # Trim[x.name]
      /\ \A d \in Controls : \A e \in Listed(d) : Trim[e.name] = Trim[x.name] => d = c /\ e = x
  BY <1>3 DEF SlotInv, Distinct, Held
<1>7. /\ \A d \in Controls : Listed(d)' \subseteq Listed(d) /\ half'[d] \subseteq half[d]
      /\ \A d \in Controls : Listed(d)' \ half'[d] = Listed(d) \ half[d]
      /\ \A d \in Controls : \A e \in Listed(d)' : e \in half[d] => e \in half'[d]
      /\ x \notin Listed(c)'
  <2>1. half'[c] = {} /\ \A d \in Controls : d # c => half'[d] = half[d]
    BY <1>1 DEF SlotInv, TypeInv, TypeOK
  <2>2. tm[c] = {} /\ half[c] \cap (toClose[c] \cup toRelease[c]) = {}
    BY <1>2 DEF SlotInv, WorkOK, TunnelsLocked, Distinct
  <2>3. QED
    BY <1>1, <1>2, <2>1, <2>2 DEF Listed
<1>8. \A d \in Controls : \A e \in Listed(d)' : Trim[e.name] # Trim[x.name]
  BY <1>6, <1>7
<1>9. \A d \in Controls :
        /\ OpHoldsName(d)' <=> OpHoldsName(d)
        /\ \A m \in PortKeys : OpHoldsPort(d, m)' <=> OpHoldsPort(d, m)
  BY <1>2 DEF OpHoldsName, OpHoldsPort
<1>10. WorkOK'
  BY <1>1, <1>2 DEF SlotInv, TypeInv, TypeOK, WorkOK, TunnelsLocked
<1>11. Distinct'
  BY <1>2, <1>7, <1>9 DEF SlotInv, Distinct
<1>12. Held'
  BY <1>2, <1>5, <1>6, <1>7, <1>8, <1>9 DEF SlotInv, Held
<1>13. PortsHeld'
  BY <1>2, <1>5, <1>7, <1>9 DEF SlotInv, PortsHeld
<1>14. QED
  BY <1>10, <1>11, <1>12, <1>13 DEF SlotRest

-----------------------------------------------------------------------------
(* The invariant and what follows from it.                                 *)

\* The inductive invariant holds when the server starts.
LEMMA SlotInit == Init => SlotInv
<1> SUFFICES ASSUME Init PROVE SlotInv
  OBVIOUS
<1>1. TypeOK
  BY OpTypes DEF Init, TypeOK, Tasks, Pcs, Ops, NoOp
<1>2. PcOK /\ OpOK
  BY DEF Init, PcOK, OpOK, Tasks, RunPcs, ExtPcs, CleanPcs, BusyPcs
<1>3. \A c \in Controls : Listed(c) = {} /\ ~OpHoldsName(c) /\ ~TunnelsLocked(c)
  BY DEF Init, Listed, OpHoldsName, TunnelsLocked, Tasks
<1>4. WorkOK
  BY <1>3 DEF Init, WorkOK, Tasks
<1>5. Distinct /\ Held /\ PortsHeld
  BY <1>3 DEF Init, Distinct, Held, PortsHeld, OpHoldsPort, OpHoldsName
<1>6. QED
  BY <1>1, <1>2, <1>4, <1>5 DEF SlotInv, TypeInv

\* Every step of every task keeps the inductive invariant.
LEMMA SlotStep == SlotInv /\ [Next]_vars => SlotInv'
<1> SUFFICES ASSUME SlotInv, [Next]_vars PROVE SlotInv'
  OBVIOUS
<1>1. TypeInv'
  BY TypeStep DEF SlotInv
<1>2. SlotRest'
  <2>1. ASSUME NEW c \in Controls, Login(c) PROVE SlotRest'
    BY <2>1, LoginSlots
  <2>2. ASSUME NEW c \in Controls, NEW n \in Names, NEW k \in PortKeys \cup {NoKey},
               HandleNewTunnel(c, n, k)
        PROVE  SlotRest'
    BY <2>2, BeginSlots DEF HandleNewTunnel
  <2>3. ASSUME NEW c \in Controls, NEW n \in Names, HandleCloseTunnel(c, n) PROVE SlotRest'
    BY <2>3, BeginSlots DEF HandleCloseTunnel
  <2>4. ASSUME NEW c \in Controls, RunStep(c) PROVE SlotRest'
    <3>1. CASE RunShutdown(c)
      BY <3>1, ShutdownSlots DEF RunShutdown
    <3>2. QED
      BY <2>4, <3>1, DetachSlots, RelPortSlots, RelNameSlots, ClaimNameSlots, ClaimPortSlots,
         StartSlots, InsertSlots, LeaveSlots DEF RunStep
  <2>5. ASSUME NEW c \in Controls, HeartbeatTimeout(c) PROVE SlotRest'
    BY <2>5, FlagSlots DEF HeartbeatTimeout
  <2>6. ASSUME NEW c \in Controls, KickSignal(c) PROVE SlotRest'
    BY <2>6, KickSlots
  <2>7. ASSUME NEW c \in Controls, KickShutdown(c) \/ ReplaceShutdown(c) PROVE SlotRest'
    BY <2>7, ShutdownSlots DEF KickShutdown, ReplaceShutdown
  <2>8. ASSUME NEW c \in Controls, KickCancelled(c) PROVE SlotRest'
    BY <2>8, CancelSlots
  <2>9. ASSUME NEW c \in Controls, NEW t \in Tasks, CleanStep(c, t) PROVE SlotRest'
    <3>1. CASE MarkFinished(c, t)
      BY <3>1, DoneSlots DEF MarkFinished
    <3>2. CASE StopWaiting(c, t)
      BY <3>2, DoneSlots DEF StopWaiting
    <3>3. QED
      BY <2>9, <3>1, <3>2, DrainSlots, CloseOneSlots, AllClosedSlots, ReleaseOnePortSlots,
         ReleaseOneNameSlots, AllReleasedSlots DEF CleanStep
  <2>10. ASSUME NEW c \in Controls, DropStep(c) PROVE SlotRest'
    BY <2>10, DropFinishedSlots, DropUnfinishedSlots DEF DropStep
  <2>11. CASE SocketGone
    BY <2>11, FlagSlots DEF SocketGone
  <2>12. CASE UNCHANGED vars
    BY <2>12, FlagSlots DEF vars, tables, work
  <2>13. QED
    BY <2>1, <2>2, <2>3, <2>4, <2>5, <2>6, <2>7, <2>8, <2>9, <2>10, <2>11, <2>12 DEF Next
<1>3. QED
  BY <1>1, <1>2 DEF SlotInv, SlotRest

\* What the tables, the managers and the tasks say about a slot always agrees.
THEOREM SlotsAgree == Spec => []SlotInv
  BY SlotInit, SlotStep, PTL DEF Spec

\* Every variable of the server's slot state keeps its type.
THEOREM TypeCorrect == Spec => []TypeOK
<1>1. SlotInv => TypeOK
  BY DEF SlotInv, TypeInv
<1>2. QED
  BY <1>1, SlotsAgree, PTL

\* Whatever a session's manager lists is registered to it, name and port.
THEOREM ListedIsRegistered == Spec => []RegisteredTunnels
<1>1. SlotInv => RegisteredTunnels
  <2> SUFFICES ASSUME SlotInv PROVE RegisteredTunnels
    OBVIOUS
  <2>1. \A c \in Controls : \A e \in tm[c] : e \in Listed(c) \ half[c]
    BY DEF SlotInv, WorkOK, Listed
  <2>2. QED
    BY <2>1 DEF SlotInv, Held, RegisteredTunnels
<1>2. QED
  BY <1>1, SlotsAgree, PTL

\* No two tunnels served at the same time share a name or a port.
THEOREM SlotsExclusive == Spec => []Exclusive
<1>1. SlotInv => Exclusive
  <2> SUFFICES ASSUME SlotInv, NEW c \in Controls, NEW d \in Controls,
                      NEW e \in tm[c], NEW f \in tm[d]
               PROVE  /\ Trim[e.name] = Trim[f.name] => c = d /\ e = f
                      /\ e.key = f.key /\ e.key # NoKey => c = d /\ e = f
    BY DEF Exclusive
  <2>1. e \in Listed(c) \ half[c] /\ f \in Listed(d) \ half[d]
    BY DEF SlotInv, WorkOK, Listed
  <2>2. byName[Trim[e.name]] = c /\ byName[Trim[f.name]] = d
    BY <2>1 DEF SlotInv, Held
  <2>3. Trim[e.name] = Trim[f.name] => c = d /\ e = f
    BY <2>1, <2>2 DEF SlotInv, Distinct
  <2>4. e.key = f.key /\ e.key # NoKey => e.name = f.name
    BY <2>1 DEF SlotInv, Held
  <2>5. QED
    BY <2>3, <2>4
<1>2. QED
  BY <1>1, SlotsAgree, PTL

\* A release by name alone never frees the port of another session's tunnel.
THEOREM ReleasesAreOwn == Spec => []ReleasesOwnPort
<1>1. SlotInv => ReleasesOwnPort
  BY DEF SlotInv, Held, Listed, OpHoldsName, ReleasesOwnPort
<1>2. QED
  BY <1>1, SlotsAgree, PTL

\* Ports are never recorded under a name that is free.
THEOREM PortsHaveOwners == Spec => []PortHolderRegistered
<1>1. SlotInv => PortHolderRegistered
  BY SlotAssumptions DEF SlotInv, PortsHeld, PortHolderRegistered
<1>2. QED
  BY <1>1, SlotsAgree, PTL

\* The run task never finds its own session in the way of an insert.
THEOREM InsertNeverOccupied == Spec => []NeverOccupied
<1>1. SlotInv => NeverOccupied
  BY DEF SlotInv, Distinct, Listed, OpHoldsName, NeverOccupied
<1>2. QED
  BY <1>1, SlotsAgree, PTL

\* The tables and the managers agree, all five parts of it, for every number of sessions,
\* names and ports.
THEOREM TablesAlwaysAgree == Spec => []TablesAgree
<1>1. TypeOK /\ RegisteredTunnels /\ ReleasesOwnPort /\ PortHolderRegistered /\ NeverOccupied => TablesAgree
  BY DEF TablesAgree
<1>2. QED
  BY <1>1, TypeCorrect, ListedIsRegistered, ReleasesAreOwn, PortsHaveOwners, InsertNeverOccupied, PTL

-----------------------------------------------------------------------------
(* No slot is lost without a cause.                                        *)

\* What tells c that it has to give the name slot n up: an entry, or the operation in
\* hand; or it lost track of a slot.
Accounts(c, n) ==
    \/ leak[c] # {}
    \/ \E e \in Listed(c) : Trim[e.name] = n
    \/ OpHoldsName(c) /\ Trim[op[c].name] = n

Accounted ==
    /\ \A c \in Controls, n \in Names : byName[n] = c => Accounts(c, n)
    /\ \A c \in Controls : pc[c]["drop"] # "idle" => tm[c] = {}

\* One entry at a time has given up its port and still has its name.
HalfOne == \A c \in Controls : \A e, f \in half[c] : e = f

\* A step that takes nothing from the entries, the operations and the recorded leaks.
LEMMA AccountFrame ==
    ASSUME Accounted, byName' = byName,
           \A d \in Controls :
              /\ leak[d] # {} => leak'[d] # {}
              /\ Listed(d) \subseteq Listed(d)'
              /\ OpHoldsName(d) => OpHoldsName(d)' /\ op'[d].name = op[d].name
              /\ pc'[d]["drop"] # "idle" => pc[d]["drop"] # "idle" /\ tm'[d] = tm[d]
    PROVE  Accounted'
  <1>1. \A c \in Controls, n \in Names : Accounts(c, n) => Accounts(c, n)'
    BY DEF Accounts
  <1>2. QED
    BY <1>1 DEF Accounted

\* Steps of the run task that keep what it holds, and steps that hold nothing.
LEMMA RunAccounted ==
    ASSUME SlotInv, Accounted, NEW c \in Controls,
           \/ Login(c) \/ LeaveLoop(c) \/ RunShutdown(c) \/ RelPort(c) \/ ClaimPort(c)
           \/ StartTunnel(c) \/ HeartbeatTimeout(c)
           \/ \E n \in Names, k \in PortKeys \cup {NoKey} : HandleNewTunnel(c, n, k)
           \/ \E n \in Names : HandleCloseTunnel(c, n)
    PROVE  Accounted'
  <1>1. UNCHANGED <<byName, tm, work, leak>>
    BY DEF Login, LeaveLoop, RunShutdown, Shutdown, RelPort, ClaimPort, StartTunnel,
        HeartbeatTimeout, HandleNewTunnel, HandleCloseTunnel, tables, work
  <1>2. \A d \in Controls : Listed(d)' = Listed(d)
    BY <1>1 DEF Listed, work
  <1>3. /\ \A d \in Controls : OpHoldsName(d) => OpHoldsName(d)' /\ op'[d].name = op[d].name
        /\ \A d \in Controls : pc'[d]["drop"] = pc[d]["drop"]
    <2>1. CASE HeartbeatTimeout(c)
      BY <2>1 DEF HeartbeatTimeout, OpHoldsName
    <2>2. CASE Login(c) \/ LeaveLoop(c) \/ RunShutdown(c)
      <3>1. PICK p : Goto(c, "run", p)
        BY <2>2 DEF Login, LeaveLoop, RunShutdown, Shutdown
      <3>2. ~OpHoldsName(c) /\ op' = op
        BY <2>2 DEF Login, LeaveLoop, RunShutdown, Shutdown, OpHoldsName
      <3>3. QED
        BY <3>1, <3>2, GotoMoves DEF SlotInv, OpHoldsName, Tasks
    <2>3. CASE RelPort(c) \/ ClaimPort(c)
      <3>1. PICK p \in {"relName", "start"} : Goto(c, "run", p)
        BY <2>3 DEF RelPort, ClaimPort
      <3>2. op' = op
        BY <2>3 DEF RelPort, ClaimPort
      <3>3. QED
        BY <3>1, <3>2, GotoMoves DEF SlotInv, OpHoldsName, Tasks
    <2>4. CASE StartTunnel(c)
      <3>1. PICK p \in {"insert", "relName", "relPort"} : Goto(c, "run", p)
        BY <2>4 DEF StartTunnel, Continue, GiveUp
      <3>2. \A d \in Controls : op'[d].name = op[d].name
        BY <2>4 DEF StartTunnel, Continue, GiveUp, SlotInv, TypeInv, TypeOK, Ops
      <3>3. QED
        BY <3>1, <3>2, GotoMoves DEF SlotInv, OpHoldsName, Tasks
    <2>5. ASSUME NEW n \in Names, NEW k \in PortKeys \cup {NoKey},
                 HandleNewTunnel(c, n, k) \/ HandleCloseTunnel(c, n)
          PROVE  /\ \A d \in Controls : OpHoldsName(d) => OpHoldsName(d)' /\ op'[d].name = op[d].name
                 /\ \A d \in Controls : pc'[d]["drop"] = pc[d]["drop"]
      <3>1. Goto(c, "run", "detach") /\ ~OpHoldsName(c)
        BY <2>5 DEF HandleNewTunnel, HandleCloseTunnel, Continue, OpHoldsName
      <3>2. \A d \in Controls : d # c => op'[d] = op[d]
        BY <2>5 DEF HandleNewTunnel, HandleCloseTunnel, Continue, SlotInv, TypeInv, TypeOK
      <3>3. QED
        BY <3>1, <3>2, GotoMoves DEF SlotInv, OpHoldsName, Tasks
    <2>6. QED
      BY <2>1, <2>2, <2>3, <2>4, <2>5
  <1>4. QED
    BY <1>1, <1>2, <1>3, AccountFrame

\* The cleaner moves its entries from list to list.
LEMMA CleanerAccounted ==
    ASSUME SlotInv, Accounted, NEW c \in Controls,
           \/ KickSignal(c) \/ KickShutdown(c) \/ ReplaceShutdown(c)
           \/ \E t \in Tasks : \/ Drain(c, t) \/ CloseOne(c, t) \/ AllClosed(c, t)
                               \/ ReleaseOnePort(c, t) \/ AllReleased(c, t)
                               \/ MarkFinished(c, t) \/ StopWaiting(c, t)
    PROVE  Accounted'
  <1> USE DEF SlotInv, TypeInv, TypeOK, OpHoldsName, Tasks
  <1>1. CASE KickSignal(c) \/ KickShutdown(c) \/ ReplaceShutdown(c)
    <2>1. \A d \in Controls : Listed(d)' = Listed(d)
      BY <1>1 DEF KickSignal, KickShutdown, ReplaceShutdown, Shutdown, Listed, work
    <2>3. PICK p : Goto(c, "ext", p)
      BY <1>1 DEF KickSignal, KickShutdown, ReplaceShutdown, Shutdown
    <2>4. \A d \in Controls : pc'[d]["drop"] = pc[d]["drop"] /\ pc'[d]["run"] = pc[d]["run"]
      BY <2>3, GotoMoves
    <2>2. UNCHANGED <<byName, tm, op, leak>>
      BY <1>1 DEF KickSignal, KickShutdown, ReplaceShutdown, Shutdown, tables
    <2>5. QED
      BY <2>1, <2>2, <2>4, AccountFrame
  <1>2. ASSUME NEW t \in Tasks,
               AllClosed(c, t) \/ AllReleased(c, t) \/ MarkFinished(c, t) \/ StopWaiting(c, t)
        PROVE  Accounted'
    <2>1. \A d \in Controls : Listed(d)' = Listed(d)
      BY <1>2 DEF AllClosed, AllReleased, MarkFinished, StopWaiting, Listed, work
    <2>2. \A d \in Controls : (pc'[d]["drop"] # "idle" => pc[d]["drop"] # "idle")
                              /\ (OpHoldsName(d) => OpHoldsName(d)')
      <3>1. PICK p : Goto(c, t, p)
        BY <1>2 DEF AllClosed, AllReleased, MarkFinished, StopWaiting
      <3>2. pc[c][t] \in {"closing", "release", "finish", "wait"}
        BY <1>2 DEF AllClosed, AllReleased, MarkFinished, StopWaiting
      <3>3. QED
        BY <3>1, <3>2, GotoMoves
    <2>3. UNCHANGED <<byName, tm, op, leak>>
      BY <1>2 DEF AllClosed, AllReleased, MarkFinished, StopWaiting, tables
    <2>4. QED
      BY <2>1, <2>2, <2>3, AccountFrame
  <1>3. ASSUME NEW t \in Tasks, Drain(c, t) PROVE Accounted'
    <2>1. \A d \in Controls : Listed(d) \subseteq Listed(d)'
      <3>1. toClose[c] = {} /\ toRelease' = toRelease /\ half' = half
        BY <1>3 DEF Drain, WorkOK
      <3>2. QED
        BY <1>3, <3>1 DEF Drain, Listed
    <2>2. t # "drop" /\ UNCHANGED <<byName, op, leak>>
      BY <1>3 DEF Drain, PcOK, tables
    <2>3. \A d \in Controls : pc'[d]["drop"] = pc[d]["drop"] /\ (OpHoldsName(d) => OpHoldsName(d)')
      BY <1>3, <2>2 DEF Drain, Goto
    <2>4. \A d \in Controls : pc[d]["drop"] # "idle" => tm'[d] = tm[d]
      BY <1>3 DEF Drain, PcOK
    <2>5. QED
      BY <2>1, <2>2, <2>3, <2>4, AccountFrame
  <1>4. ASSUME NEW t \in Tasks, CloseOne(c, t) \/ ReleaseOnePort(c, t) PROVE Accounted'
    <2>1. \A d \in Controls : Listed(d) \subseteq Listed(d)'
      BY <1>4 DEF CloseOne, ReleaseOnePort, Listed
    <2>2. UNCHANGED <<byName, tm, op, leak, pc>>
      BY <1>4 DEF CloseOne, ReleaseOnePort, tables
    <2>3. QED
      BY <2>1, <2>2, AccountFrame
  <1>5. QED
    BY <1>1, <1>2, <1>3, <1>4

\* The entry that tm.remove takes out is now the operation in hand.
LEMMA DetachAccounted ==
    ASSUME SlotInv, Accounted, NEW c \in Controls, DetachTunnel(c) PROVE Accounted'
  <1> USE DEF SlotInv, TypeInv, TypeOK, OpHoldsName, Tasks
  <1>1. CASE \A e \in tm[c] : e.name # op[c].name
    <2>1. UNCHANGED <<byName, tm, work, leak>> /\ ~OpHoldsName(c)
      BY <1>1 DEF DetachTunnel, tables
    <2>2. \A d \in Controls : Listed(d)' = Listed(d)
      BY <2>1 DEF Listed, work
    <2>3. \A d \in Controls : pc'[d]["drop"] = pc[d]["drop"]
                              /\ (d # c => pc'[d] = pc[d] /\ op'[d] = op[d])
      BY <1>1 DEF DetachTunnel, Continue, Goto
    <2>4. QED
      BY <2>1, <2>2, <2>3, AccountFrame
  <1>2. ASSUME NEW e \in tm[c], e.name = op[c].name PROVE Accounted'
    <2>1. PICK f \in tm[c] :
              /\ f.name = op[c].name
              /\ tm' = [tm EXCEPT ![c] = @ \ {f}]
              /\ Continue(c, GiveUp(f.key), [op[c] EXCEPT !.rel = f.key])
      BY <1>2 DEF DetachTunnel
    <2>2. /\ OpHoldsName(c)' /\ op'[c].name = f.name
          /\ \A d \in Controls : pc'[d]["drop"] = pc[d]["drop"]
                              /\ (d # c => pc'[d] = pc[d] /\ op'[d] = op[d])
      BY <2>1 DEF Continue, Goto, GiveUp, Ops
    <2>3. UNCHANGED <<byName, work, leak>>
      BY DEF DetachTunnel, tables
    <2>4. \A d \in Controls : d # c => Listed(d)' = Listed(d) /\ tm'[d] = tm[d]
      BY <2>1, <2>3 DEF Listed, work
    <2>5. Listed(c) \subseteq Listed(c)' \cup {f}
      BY <2>1, <2>3 DEF Listed, work
    <2>6. ASSUME NEW d \in Controls, NEW n \in Names, byName[n] = d PROVE Accounts(d, n)'
      <3>1. Accounts(d, n)
        BY <2>6 DEF Accounted
      <3>2. CASE d # c
        BY <3>1, <3>2, <2>2, <2>3, <2>4 DEF Accounts
      <3>3. CASE d = c
        <4>1. ~OpHoldsName(c)
          BY DEF DetachTunnel
        <4>2. QED
          BY <3>1, <3>3, <4>1, <2>2, <2>3, <2>5 DEF Accounts
      <3>4. QED
        BY <3>2, <3>3
    <2>7. \A d \in Controls : pc'[d]["drop"] # "idle" => tm'[d] = {}
      BY <2>1, <2>2, <2>4 DEF Accounted
    <2>8. QED
      BY <2>3, <2>6, <2>7 DEF Accounted
  <1>3. QED
    BY <1>1, <1>2

\* The name that release_global_slot gives up is free, or the registry missed it.
LEMMA RelNameAccounted ==
    ASSUME SlotInv, Accounted, NEW c \in Controls, RelName(c) PROVE Accounted'
  <1> DEFINE m == op[c].name
  <1>1. m \in Names /\ Trim[m] \in Names
    BY SlotAssumptions DEF RelName, SlotInv, TypeInv, OpOK, BusyPcs
  <1>2. /\ \A n \in Names : byName'[n] = IF n = m /\ byName[m] = c THEN NoControl ELSE byName[n]
        /\ leak' = IF Misses(m, c) THEN [leak EXCEPT ![c] = @ \cup {"untrimmed"}] ELSE leak
        /\ UNCHANGED <<tm, work>>
    BY <1>1 DEF RelName, RemoveIfOwner, NoteMiss, SlotInv, TypeInv, TypeOK
  <1>3. PICK p : Goto(c, "run", p)
    BY DEF RelName, Continue
  <1>4. /\ \A d \in Controls : pc'[d]["drop"] = pc[d]["drop"]
        /\ \A d \in Controls : d # c => pc'[d]["run"] = pc[d]["run"] /\ op'[d] = op[d]
    BY <1>3, GotoMoves DEF RelName, Continue, SlotInv, TypeInv, TypeOK, Tasks
  <1>5. \A d \in Controls : Listed(d)' = Listed(d)
    BY <1>2 DEF Listed, work
  <1>6. \A d \in Controls : leak[d] # {} => leak'[d] # {}
    BY <1>2 DEF SlotInv, TypeInv, TypeOK
  <1> HIDE DEF m
  <1>7. ASSUME NEW d \in Controls, NEW n \in Names, byName'[n] = d PROVE Accounts(d, n)'
    <2>1. byName[n] = d /\ Accounts(d, n)
      BY <1>2, <1>7, SlotAssumptions DEF Accounted
    <2>2. CASE d # c
      BY <2>1, <2>2, <1>4, <1>5, <1>6 DEF Accounts, OpHoldsName
    <2>3. CASE d = c /\ n # Trim[m]
      BY <2>1, <2>3, <1>5, <1>6 DEF Accounts, m
    <2>4. CASE d = c /\ n = Trim[m]
      <3>1. n # m
        BY <1>1, <1>2, <1>7, <2>1, <2>4, SlotAssumptions
      <3>2. Misses(m, c)
        BY <2>1, <2>4, <3>1 DEF Misses
      <3>3. leak'[c] # {}
        BY <1>2, <3>2 DEF SlotInv, TypeInv, TypeOK
      <3>4. QED
        BY <2>4, <3>3 DEF Accounts
    <2>5. QED
      BY <2>2, <2>3, <2>4
  <1>8. QED
    BY <1>2, <1>4, <1>7 DEF Accounted

\* A claimed name is that of the operation in hand.
LEMMA ClaimNameAccounted ==
    ASSUME SlotInv, Accounted, NEW c \in Controls, ClaimName(c) PROVE Accounted'
  <1> DEFINE m == op[c].name
  <1>1. m \in Names /\ Trim[m] \in Names /\ ~OpHoldsName(c)
    BY SlotAssumptions DEF ClaimName, SlotInv, TypeInv, OpOK, BusyPcs, OpHoldsName
  <1>2. PICK p : Goto(c, "run", p)
    BY DEF ClaimName, Continue
  <1>3. /\ \A d \in Controls : pc'[d]["drop"] = pc[d]["drop"]
        /\ \A d \in Controls : d # c => pc'[d]["run"] = pc[d]["run"] /\ op'[d] = op[d]
    BY <1>2, GotoMoves DEF ClaimName, Continue, SlotInv, TypeInv, TypeOK, Tasks
  <1>4. UNCHANGED <<tm, work, leak>>
    BY DEF ClaimName
  <1>5. \A d \in Controls : Listed(d)' = Listed(d)
    BY <1>4 DEF Listed, work
  <1>6. CASE byName' = byName
    BY <1>1, <1>3, <1>4, <1>5, <1>6, AccountFrame DEF OpHoldsName
  <1>7. CASE byName' # byName
    <2>1. /\ byName' = [byName EXCEPT ![Trim[m]] = c]
          /\ Continue(c, IF op[c].key = NoKey THEN "start" ELSE "claimPort",
                      [op[c] EXCEPT !.goal = "loop"])
      BY <1>7 DEF ClaimName, TryInsert
    <2>2. OpHoldsName(c)' /\ op'[c].name = m
      BY <2>1 DEF Continue, Goto, OpHoldsName, SlotInv, TypeInv, TypeOK, Ops, Tasks
    <2> HIDE DEF m
    <2>3. ASSUME NEW d \in Controls, NEW n \in Names, byName'[n] = d PROVE Accounts(d, n)'
      <3>1. CASE n = Trim[m]
        <4>1. d = c
          BY <3>1, <2>1, <2>3, <1>1 DEF SlotInv, TypeInv, TypeOK
        <4>2. QED
          BY <3>1, <4>1, <2>2 DEF Accounts
      <3>2. CASE n # Trim[m]
        <4>1. Accounts(d, n)
          BY <3>2, <2>1, <2>3 DEF SlotInv, TypeInv, TypeOK, Accounted
        <4>2. QED
          BY <4>1, <1>1, <1>3, <1>4, <1>5 DEF Accounts, OpHoldsName
      <3>3. QED
        BY <3>1, <3>2
    <2>4. QED
      BY <2>3, <1>3, <1>4 DEF Accounted
  <1>8. QED
    BY <1>6, <1>7

\* The operation in hand becomes an entry.
LEMMA InsertAccounted ==
    ASSUME SlotInv, Accounted, NEW c \in Controls, InsertTunnel(c) PROVE Accounted'
  <1> DEFINE e == [name |-> op[c].name, key |-> op[c].key]
  <1>1. tm' = [tm EXCEPT ![c] = @ \cup {e}] /\ UNCHANGED <<byName, work, leak>>
    BY DEF InsertTunnel, tables
  <1>2. PICK p : Goto(c, "run", p)
    BY DEF InsertTunnel, Continue
  <1>3. /\ \A d \in Controls : pc'[d]["drop"] = pc[d]["drop"]
        /\ \A d \in Controls : d # c => pc'[d]["run"] = pc[d]["run"] /\ op'[d] = op[d]
    BY <1>2, GotoMoves DEF InsertTunnel, Continue, SlotInv, TypeInv, TypeOK, Tasks
  <1>4. /\ \A d \in Controls : Listed(d) \subseteq Listed(d)' /\ (d # c => tm'[d] = tm[d])
        /\ e \in Listed(c)'
    BY <1>1 DEF Listed, work, SlotInv, TypeInv, TypeOK
  <1>5. pc[c]["drop"] = "idle"
    BY DEF InsertTunnel, SlotInv, TypeInv, PcOK
  <1>6. e.name = op[c].name
    OBVIOUS
  <1> HIDE DEF e
  <1>7. ASSUME NEW d \in Controls, NEW n \in Names, byName'[n] = d PROVE Accounts(d, n)'
    <2>1. Accounts(d, n)
      BY <1>1, <1>7 DEF Accounted
    <2>2. CASE d # c
      BY <2>1, <2>2, <1>1, <1>3, <1>4 DEF Accounts, OpHoldsName
    <2>3. CASE d = c
      BY <2>1, <2>3, <1>1, <1>4, <1>6 DEF Accounts
    <2>4. QED
      BY <2>2, <2>3
  <1>8. QED
    BY <1>3, <1>4, <1>5, <1>7 DEF Accounted

\* The second half of a release by the cleaner.
LEMMA ReleaseOneNameAccounted ==
    ASSUME SlotInv, Accounted, HalfOne, NEW c \in Controls, NEW t \in Tasks, ReleaseOneName(c, t)
    PROVE  Accounted'
  <1>1. PICK e \in half[c] : /\ half' = [half EXCEPT ![c] = {}]
                             /\ RemoveIfOwner(e.name, c)
                             /\ NoteMiss(e.name, c)
    BY DEF ReleaseOneName
  <1>2. e.name \in Names /\ Trim[e.name] \in Names
    BY SlotAssumptions DEF SlotInv, TypeInv, TypeOK, Entries
  <1>3. UNCHANGED <<tm, toClose, toRelease, pc, op>>
    BY DEF ReleaseOneName
  <1>4. /\ \A n \in Names : byName'[n] = IF n = e.name /\ byName[n] = c THEN NoControl ELSE byName[n]
        /\ leak' = IF Misses(e.name, c) THEN [leak EXCEPT ![c] = @ \cup {"untrimmed"}] ELSE leak
    BY <1>1, <1>2 DEF RemoveIfOwner, NoteMiss, SlotInv, TypeInv, TypeOK
  <1>5. /\ \A d \in Controls : d # c => Listed(d)' = Listed(d)
        /\ Listed(c) \subseteq Listed(c)' \cup {e}
    BY <1>1, <1>3 DEF Listed, HalfOne, SlotInv, TypeInv, TypeOK
  <1>6. \A d \in Controls : leak[d] # {} => leak'[d] # {}
    BY <1>4 DEF SlotInv, TypeInv, TypeOK
  <1>7. \A d \in Controls : OpHoldsName(d)' <=> OpHoldsName(d)
    BY <1>3 DEF OpHoldsName
  <1>8. ASSUME NEW d \in Controls, NEW n \in Names, byName'[n] = d PROVE Accounts(d, n)'
    <2>1. byName[n] = d /\ Accounts(d, n)
      BY <1>4, <1>8, SlotAssumptions DEF Accounted
    <2>2. CASE d # c
      BY <2>1, <2>2, <1>3, <1>5, <1>6, <1>7 DEF Accounts
    <2>3. CASE d = c /\ n # Trim[e.name]
      BY <2>1, <2>3, <1>3, <1>5, <1>6, <1>7 DEF Accounts
    <2>4. CASE d = c /\ n = Trim[e.name]
      <3>1. n # e.name
        BY <1>2, <1>4, <1>8, <2>1, <2>4, SlotAssumptions
      <3>2. Misses(e.name, c)
        BY <2>1, <2>4, <3>1 DEF Misses
      <3>3. leak'[c] # {}
        BY <1>4, <3>2 DEF SlotInv, TypeInv, TypeOK
      <3>4. QED
        BY <2>4, <3>3 DEF Accounts
    <2>5. QED
      BY <2>2, <2>3, <2>4
  <1>9. QED
    BY <1>3, <1>8 DEF Accounted

\* A kick that is cancelled inside close_all is recorded as a leak.
LEMMA CancelAccounted ==
    ASSUME SlotInv, Accounted, NEW c \in Controls, KickCancelled(c) PROVE Accounted'
  <1>1. Goto(c, "ext", "cancelled") /\ UNCHANGED <<byName, tm, op, half>>
    BY DEF KickCancelled, tables
  <1>2. \A d \in Controls : pc'[d]["drop"] = pc[d]["drop"] /\ pc'[d]["run"] = pc[d]["run"]
    BY <1>1, GotoMoves DEF SlotInv, Tasks
  <1>3. \A d \in Controls : \/ leak'[d] # {}
                            \/ leak'[d] = leak[d] /\ toClose'[d] = toClose[d] /\ toRelease'[d] = toRelease[d]
    <2>1. CASE UNCHANGED <<toClose, toRelease, leak>>
      BY <2>1
    <2>2. CASE /\ toClose' = [toClose EXCEPT ![c] = {}]
               /\ toRelease' = [toRelease EXCEPT ![c] = {}]
               /\ leak' = [leak EXCEPT ![c] = @ \cup {"cancelled"}]
      <3>1. leak'[c] = leak[c] \cup {"cancelled"}
        BY <2>2 DEF SlotInv, TypeInv, TypeOK
      <3>2. \A d \in Controls : d # c => leak'[d] = leak[d] /\ toClose'[d] = toClose[d]
                                         /\ toRelease'[d] = toRelease[d]
        BY <2>2 DEF SlotInv, TypeInv, TypeOK
      <3>3. leak'[c] # {}
        BY <3>1
      <3>4. QED
        BY <3>2, <3>3
    <2>3. QED
      BY <2>1, <2>2 DEF KickCancelled
  <1>4. \A d \in Controls, n \in Names : Accounts(d, n) => Accounts(d, n)'
    BY <1>1, <1>2, <1>3 DEF Accounts, Listed, OpHoldsName
  <1>5. QED
    BY <1>1, <1>2, <1>4 DEF Accounted

\* The destructor: what it does not release was inserted too late, which is recorded.
LEMMA DropAccounted ==
    ASSUME SlotInv, Accounted, NEW c \in Controls, DropStep(c) PROVE Accounted'
  <1>1. PICK p : Goto(c, "drop", p)
    BY DEF DropStep, DropFinished, DropUnfinished
  <1>2. UNCHANGED <<byName, op>> /\ ~OpHoldsName(c)
    BY DEF DropStep, DropFinished, DropUnfinished, tables, LastReference, OpHoldsName
  <1>3. \A d \in Controls : pc'[d]["run"] = pc[d]["run"] /\ (d # c => pc'[d]["drop"] = pc[d]["drop"])
    BY <1>1, GotoMoves DEF SlotInv, Tasks
  <1>4. tm'[c] = {} /\ \A d \in Controls : d # c => tm'[d] = tm[d]
    BY DEF DropStep, DropFinished, DropUnfinished, SlotInv, TypeInv, TypeOK
  <1>5. toClose[c] = {} /\ toRelease[c] = {} /\ half[c] = {}
    <2>1. ~TunnelsLocked(c)
      BY DEF DropStep, DropFinished, DropUnfinished, LastReference, TunnelsLocked, Tasks
    <2>2. QED
      BY <2>1 DEF SlotInv, WorkOK
  <1>6. ASSUME NEW d \in Controls, NEW n \in Names, Accounts(d, n) PROVE Accounts(d, n)'
    <2>1. CASE DropFinished(c)
      <3>1. toClose' = toClose /\ toRelease' = toRelease /\ half' = half
        BY <2>1 DEF DropFinished, work
      <3>2. leak'[d] = leak[d] \/ leak'[d] # {}
        BY <2>1 DEF DropFinished, SlotInv, TypeInv, TypeOK
      <3>3. tm[c] # {} => leak'[c] # {}
        BY <2>1 DEF DropFinished, SlotInv, TypeInv, TypeOK
      <3>4. CASE d = c
        BY <1>2, <1>3, <1>5, <1>6, <3>2, <3>3, <3>4 DEF Accounts, Listed
      <3>5. CASE d # c
        BY <1>2, <1>3, <1>4, <1>6, <3>1, <3>2, <3>5 DEF Accounts, Listed, OpHoldsName
      <3>6. QED
        BY <3>4, <3>5
    <2>2. CASE DropUnfinished(c)
      <3>1. toClose' = toClose /\ half' = half /\ leak' = leak /\ toRelease'[c] = tm[c]
            /\ \A b \in Controls : b # c => toRelease'[b] = toRelease[b]
        BY <2>2 DEF DropUnfinished, SlotInv, TypeInv, TypeOK
      <3>2. Listed(d) \subseteq Listed(d)'
        BY <1>4, <1>5, <3>1 DEF Listed
      <3>3. OpHoldsName(d)' <=> OpHoldsName(d)
        BY <1>3 DEF OpHoldsName
      <3>4. QED
        BY <1>2, <1>6, <3>1, <3>2, <3>3 DEF Accounts
    <2>3. QED
      BY <2>1, <2>2 DEF DropStep
  <1>7. QED
    BY <1>2, <1>3, <1>4, <1>6 DEF Accounted

LEMMA HalfOneStep == SlotInv /\ HalfOne /\ [Next]_vars => HalfOne'
  <1> SUFFICES ASSUME SlotInv, HalfOne, [Next]_vars PROVE HalfOne'
    OBVIOUS
  <1>1. ASSUME NEW c \in Controls, NEW t \in Tasks, ReleaseOnePort(c, t) \/ ReleaseOneName(c, t)
        PROVE  HalfOne'
    BY <1>1 DEF ReleaseOnePort, ReleaseOneName, HalfOne, SlotInv, TypeInv, TypeOK
  <1>2. CASE half' = half
    BY <1>2 DEF HalfOne
  <1>3. ASSUME NEW c \in Controls, NEW t \in Tasks, CleanStep(c, t) PROVE HalfOne'
    BY <1>1, <1>2, <1>3 DEF CleanStep, Drain, CloseOne, AllClosed, AllReleased, MarkFinished,
        StopWaiting, work
  <1>4. ASSUME NEW c \in Controls, RunStep(c) PROVE HalfOne'
    BY <1>2, <1>4 DEF RunStep, DetachTunnel, RelPort, RelName, ClaimName, ClaimPort, StartTunnel,
        InsertTunnel, LeaveLoop, RunShutdown, Shutdown, work
  <1>5. ASSUME NEW c \in Controls,
               \/ Login(c) \/ HeartbeatTimeout(c) \/ KickSignal(c) \/ KickShutdown(c)
               \/ KickCancelled(c) \/ ReplaceShutdown(c) \/ DropStep(c)
               \/ \E n \in Names, k \in PortKeys \cup {NoKey} : HandleNewTunnel(c, n, k)
               \/ \E n \in Names : HandleCloseTunnel(c, n)
        PROVE  HalfOne'
    BY <1>2, <1>5 DEF Login, HeartbeatTimeout, KickSignal, KickShutdown, KickCancelled,
        ReplaceShutdown, Shutdown, DropStep, DropFinished, DropUnfinished, HandleNewTunnel,
        HandleCloseTunnel, work
  <1>6. CASE SocketGone \/ UNCHANGED vars
    BY <1>2, <1>6 DEF SocketGone, vars, work
  <1>7. QED
    BY <1>3, <1>4, <1>5, <1>6 DEF Next

LEMMA AccountedStep == SlotInv /\ HalfOne /\ Accounted /\ [Next]_vars => Accounted'
  <1> SUFFICES ASSUME SlotInv, HalfOne, Accounted, [Next]_vars PROVE Accounted'
    OBVIOUS
  <1>1. ASSUME NEW c \in Controls, RunStep(c) PROVE Accounted'
    BY <1>1, RunAccounted, DetachAccounted, RelNameAccounted, ClaimNameAccounted, InsertAccounted
        DEF RunStep
  <1>2. ASSUME NEW c \in Controls, NEW t \in Tasks, CleanStep(c, t) PROVE Accounted'
    BY <1>2, CleanerAccounted, ReleaseOneNameAccounted DEF CleanStep
  <1>3. ASSUME NEW c \in Controls,
               \/ Login(c) \/ HeartbeatTimeout(c)
               \/ \E n \in Names, k \in PortKeys \cup {NoKey} : HandleNewTunnel(c, n, k)
               \/ \E n \in Names : HandleCloseTunnel(c, n)
        PROVE  Accounted'
    BY <1>3, RunAccounted
  <1>4. ASSUME NEW c \in Controls, KickSignal(c) \/ KickShutdown(c) \/ ReplaceShutdown(c)
        PROVE  Accounted'
    BY <1>4, CleanerAccounted
  <1>5. ASSUME NEW c \in Controls, KickCancelled(c) \/ DropStep(c) PROVE Accounted'
    BY <1>5, CancelAccounted, DropAccounted
  <1>6. CASE SocketGone \/ UNCHANGED vars
    <2>1. UNCHANGED <<byName, tm, work, leak, pc, op>>
      BY <1>6 DEF SocketGone, vars, tables, work
    <2>2. \A d \in Controls : Listed(d)' = Listed(d) /\ (OpHoldsName(d)' <=> OpHoldsName(d))
      BY <2>1 DEF Listed, OpHoldsName, work
    <2>3. QED
      BY <2>1, <2>2, AccountFrame
  <1>7. QED
    BY <1>1, <1>2, <1>3, <1>4, <1>5, <1>6 DEF Next

\* A session that is gone leaves a name behind only in one of the three ways that the
\* history records: a tunnel inserted after the cleaner drained the manager, a kick that was
\* cancelled inside close_all, a name with white space around it.
THEOREM LeaksHaveCauses == Spec => []LeakHasCause
  <1>1. Init => HalfOne /\ Accounted
    BY SlotAssumptions DEF Init, HalfOne, Accounted, Tasks
  <1>2. SlotInv /\ Accounted => LeakHasCause
    <2> SUFFICES ASSUME SlotInv, Accounted, NEW c \in Controls, Dropped(c), NEW n \in Names,
                        byName[n] = c
                 PROVE  leak[c] # {}
      BY DEF LeakHasCause, HoldsSlot
    <2>1. pc[c]["run"] = "done" /\ ~TunnelsLocked(c)
      BY DEF SlotInv, TypeInv, PcOK, Dropped, TunnelsLocked, Tasks
    <2>2. Listed(c) = {}
      BY <2>1 DEF SlotInv, WorkOK, Listed, Accounted, Dropped
    <2>3. QED
      BY <2>1, <2>2 DEF Accounted, Accounts, OpHoldsName
  <1>3. QED
    BY <1>1, <1>2, SlotsAgree, HalfOneStep, AccountedStep, PTL DEF Spec

-----------------------------------------------------------------------------
(* Sockets.                                                                *)

\* A tcp socket without a tunnel was left by a destructor or by a cancelled kick.
SocketsHeld ==
    \A b \in bound :
        \/ b.key \in UdpKeys
        \/ ~Orphan(b)
        \/ pc[b.ctl]["drop"] # "idle"
        \/ "cancelled" \in leak[b.ctl]

\* What keeps the sockets of d accounted for from one step to the next.
KeepsSockets(d) ==
    \/ pc'[d]["drop"] # "idle"
    \/ "cancelled" \in leak'[d]
    \/ /\ leak[d] \subseteq leak'[d]
       /\ pc'[d]["drop"] = pc[d]["drop"]
       /\ tm[d] \cup toClose[d] \subseteq tm'[d] \cup toClose'[d]
       /\ pc[d]["run"] = "insert" =>
             \/ pc'[d]["run"] = "insert" /\ op'[d] = op[d]
             \/ [name |-> op[d].name, key |-> op[d].key] \in tm'[d]

\* A step that binds nothing and under which no tunnel with a socket loses its entry.
LEMMA SocketsFrame ==
    ASSUME TypeOK, SocketsHeld, bound' \subseteq bound, \A d \in Controls : KeepsSockets(d)
    PROVE  SocketsHeld'
  <1> SUFFICES ASSUME NEW b \in bound, b \in bound', b.key \notin UdpKeys, Orphan(b)',
                      ~(pc'[b.ctl]["drop"] # "idle"), "cancelled" \notin leak'[b.ctl]
               PROVE  FALSE
    BY DEF SocketsHeld
  <1>1. b.ctl \in Controls /\ KeepsSockets(b.ctl)
    BY DEF TypeOK
  <1>2. ~Orphan(b)
    BY <1>1 DEF SocketsHeld, KeepsSockets
  <1>3. QED
    BY <1>1, <1>2 DEF Orphan, KeepsSockets

\* The steps of the run task that touch no socket.
LEMMA RunSockets ==
    ASSUME SlotInv, SocketsHeld, NEW c \in Controls,
           \/ Login(c) \/ LeaveLoop(c) \/ RunShutdown(c) \/ RelPort(c) \/ RelName(c)
           \/ ClaimName(c) \/ ClaimPort(c) \/ InsertTunnel(c) \/ HeartbeatTimeout(c)
           \/ \E n \in Names, k \in PortKeys \cup {NoKey} : HandleNewTunnel(c, n, k)
           \/ \E n \in Names : HandleCloseTunnel(c, n)
    PROVE  SocketsHeld'
  <1>1. bound' = bound /\ toClose' = toClose /\ TypeOK
    BY DEF Login, LeaveLoop, RunShutdown, Shutdown, RelPort, RelName, ClaimName, ClaimPort,
        InsertTunnel, HeartbeatTimeout, HandleNewTunnel, HandleCloseTunnel, work, SlotInv, TypeInv
  <1>2. CASE HeartbeatTimeout(c)
    BY <1>1, <1>2, SocketsFrame DEF HeartbeatTimeout, KeepsSockets
  <1>3. CASE ~HeartbeatTimeout(c)
    <2>1. PICK p : Goto(c, "run", p)
      BY <1>3 DEF Login, LeaveLoop, RunShutdown, Shutdown, RelPort, RelName, ClaimName, ClaimPort,
        InsertTunnel, HandleNewTunnel, HandleCloseTunnel, Continue
    <2>2. /\ \A d \in Controls : pc'[d]["drop"] = pc[d]["drop"]
          /\ \A d \in Controls : d # c => pc'[d]["run"] = pc[d]["run"]
      BY <2>1, GotoMoves DEF SlotInv, Tasks
    <2>3. \A d \in Controls : d # c => op'[d] = op[d]
      BY <1>1, <1>3 DEF Login, LeaveLoop, RunShutdown, Shutdown, RelPort, RelName, ClaimName,
        ClaimPort, InsertTunnel, HandleNewTunnel, HandleCloseTunnel, Continue, TypeOK
    <2>4. \A d \in Controls : leak[d] \subseteq leak'[d]
      <3>1. CASE leak' = leak
        BY <3>1
      <3>2. CASE leak' = [leak EXCEPT ![c] = @ \cup {"untrimmed"}]
        BY <1>1, <3>2 DEF TypeOK
      <3>3. QED
        BY <1>3, <3>1, <3>2 DEF Login, LeaveLoop, RunShutdown, Shutdown, RelPort, RelName,
          NoteMiss, ClaimName, ClaimPort, InsertTunnel, HandleNewTunnel, HandleCloseTunnel
    <2>5. CASE InsertTunnel(c)
      <3>1. /\ [name |-> op[c].name, key |-> op[c].key] \in tm'[c] /\ tm[c] \subseteq tm'[c]
            /\ \A d \in Controls : d # c => tm'[d] = tm[d]
        BY <1>1, <2>5 DEF InsertTunnel, TypeOK
      <3>2. \A d \in Controls : KeepsSockets(d)
        BY <1>1, <2>2, <2>3, <2>4, <3>1 DEF KeepsSockets
      <3>3. QED
        BY <1>1, <3>2, SocketsFrame
    <2>6. CASE ~InsertTunnel(c)
      <3>1. tm' = tm /\ pc[c]["run"] # "insert"
        BY <1>3, <2>6 DEF Login, LeaveLoop, RunShutdown, Shutdown, RelPort, RelName, ClaimName,
          ClaimPort, HandleNewTunnel, HandleCloseTunnel
      <3>2. \A d \in Controls : KeepsSockets(d)
        BY <1>1, <2>2, <2>3, <2>4, <3>1 DEF KeepsSockets
      <3>3. QED
        BY <1>1, <3>2, SocketsFrame
    <2>7. QED
      BY <2>5, <2>6
  <1>4. QED
    BY <1>2, <1>3

\* The steps of shutdown, of kicks and of the destructor that close no socket.
LEMMA CleanerSockets ==
    ASSUME SlotInv, SocketsHeld, NEW c \in Controls, NEW t \in Tasks,
           \/ t = "ext" /\ (KickSignal(c) \/ KickShutdown(c) \/ ReplaceShutdown(c) \/ KickCancelled(c))
           \/ t = "drop" /\ DropStep(c)
           \/ Drain(c, t) \/ AllClosed(c, t) \/ AllReleased(c, t) \/ MarkFinished(c, t)
           \/ StopWaiting(c, t)
    PROVE  SocketsHeld'
  <1>1. bound' = bound /\ op' = op /\ TypeOK
    BY DEF KickSignal, KickShutdown, ReplaceShutdown, Shutdown, KickCancelled, DropStep,
        DropFinished, DropUnfinished, Drain, AllClosed, AllReleased, MarkFinished, StopWaiting,
        SlotInv, TypeInv
  <1>2. PICK p \in Pcs \ {"idle"} : Goto(c, t, p)
    BY DEF KickSignal, KickShutdown, ReplaceShutdown, Shutdown, KickCancelled, DropStep,
        DropFinished, DropUnfinished, Drain, AllClosed, AllReleased, MarkFinished, StopWaiting, Pcs
  <1>3. pc[c][t] # "insert"
    BY DEF KickSignal, KickShutdown, ReplaceShutdown, KickCancelled, DropStep, DropFinished,
        DropUnfinished, LastReference, Drain, AllClosed, AllReleased, MarkFinished, StopWaiting
  <1>4. /\ pc'[c][t] # "idle"
        /\ \A d \in Controls, u \in Tasks : d # c \/ u # t => pc'[d][u] = pc[d][u]
    BY <1>2, GotoMoves DEF SlotInv
  <1>5. \A d \in Controls : d # c => tm'[d] = tm[d] /\ toClose'[d] = toClose[d] /\ leak'[d] = leak[d]
    BY <1>1 DEF KickSignal, KickShutdown, ReplaceShutdown, Shutdown, KickCancelled, DropStep,
        DropFinished, DropUnfinished, Drain, AllClosed, AllReleased, MarkFinished, StopWaiting,
        TypeOK, work
  <1>6. \A d \in Controls : d # c => KeepsSockets(d)
    BY <1>1, <1>4, <1>5 DEF KeepsSockets, Tasks
  <1>7. KeepsSockets(c)
    <2>1. CASE t = "drop"
      BY <1>4, <2>1 DEF KeepsSockets
    <2>2. CASE t # "drop" /\ ~KickCancelled(c)
      <3>1. leak' = leak /\ tm[c] \cup toClose[c] \subseteq tm'[c] \cup toClose'[c]
        <4>1. CASE Drain(c, t)
          <5>1. toClose[c] = {} /\ toClose'[c] = tm[c] /\ leak' = leak
            BY <1>1, <4>1 DEF Drain, SlotInv, WorkOK, TypeOK
          <5>2. QED
            BY <5>1
        <4>2. CASE ~Drain(c, t)
          BY <2>2, <4>2 DEF KickSignal, KickShutdown, ReplaceShutdown, Shutdown, AllClosed,
            AllReleased, MarkFinished, StopWaiting, work
        <4>3. QED
          BY <4>1, <4>2
      <3>2. QED
        BY <1>1, <1>3, <1>4, <2>2, <3>1 DEF KeepsSockets, Tasks
    <2>3. CASE KickCancelled(c)
      <3>1. t = "ext"
        BY <1>4, <2>3, GotoMoves DEF KickCancelled, Tasks, SlotInv
      <3>2. CASE UNCHANGED <<toClose, toRelease, leak>>
        BY <1>1, <1>3, <1>4, <2>3, <3>1, <3>2 DEF KickCancelled, KeepsSockets, Tasks
      <3>3. CASE ~UNCHANGED <<toClose, toRelease, leak>>
        BY <1>1, <2>3, <3>3 DEF KickCancelled, KeepsSockets, TypeOK
      <3>4. QED
        BY <3>2, <3>3
    <2>4. QED
      BY <2>1, <2>2, <2>3
  <1>8. QED
    BY <1>1, <1>6, <1>7, SocketsFrame

\* Steps that release slots leave the managers and the sockets alone.
LEMMA ReleaseSockets ==
    ASSUME SlotInv, SocketsHeld, NEW c \in Controls, NEW t \in Tasks,
           ReleaseOnePort(c, t) \/ ReleaseOneName(c, t)
    PROVE  SocketsHeld'
  <1>1. UNCHANGED <<bound, tm, toClose, pc, op>> /\ TypeOK
    BY DEF ReleaseOnePort, ReleaseOneName, SlotInv, TypeInv
  <1>2. \A d \in Controls : leak[d] \subseteq leak'[d]
    <2>1. leak' = leak \/ leak' = [leak EXCEPT ![c] = @ \cup {"untrimmed"}]
      BY DEF ReleaseOnePort, ReleaseOneName, NoteMiss
    <2>2. QED
      BY <1>1, <2>1 DEF TypeOK
  <1>3. \A d \in Controls : KeepsSockets(d)
    BY <1>1, <1>2 DEF KeepsSockets
  <1>4. QED
    BY <1>1, <1>3, SocketsFrame

\* close() waits for the listener: an entry that leaves its manager or the cleaner's list
\* takes its tcp sockets with it.
LEMMA CloseSockets ==
    ASSUME SlotInv, SocketsHeld, NEW c \in Controls, NEW e \in tm[c] \cup toClose[c],
           CloseSocket(c, e.name), leak' = leak,
           \A d \in Controls : pc'[d]["drop"] = pc[d]["drop"],
           \A d \in Controls : (tm[d] \cup toClose[d]) \ {e} \subseteq tm'[d] \cup toClose'[d],
           \A d \in Controls : d # c => tm[d] \cup toClose[d] \subseteq tm'[d] \cup toClose'[d],
           \A d \in Controls : pc[d]["run"] = "insert" => pc'[d]["run"] = "insert" /\ op'[d] = op[d]
    PROVE  SocketsHeld'
  <1> SUFFICES ASSUME NEW b \in bound', b.key \notin UdpKeys, Orphan(b)',
                      ~(pc'[b.ctl]["drop"] # "idle"), "cancelled" \notin leak'[b.ctl]
               PROVE  FALSE
    BY DEF SocketsHeld
  <1>1. b \in bound /\ ~(b.ctl = c /\ b.name = e.name) /\ b.ctl \in Controls
    BY DEF CloseSocket, SlotInv, TypeInv, TypeOK
  <1>2. ~Orphan(b)
    BY <1>1 DEF SocketsHeld
  <1>3. b.ctl = c => [name |-> b.name, key |-> b.key] # e
    BY <1>1
  <1>4. QED
    BY <1>1, <1>2, <1>3 DEF Orphan

LEMMA CloseOneSockets ==
    ASSUME SlotInv, SocketsHeld, NEW c \in Controls, NEW t \in Tasks, CloseOne(c, t)
    PROVE  SocketsHeld'
  <1>1. PICK e \in toClose[c] : /\ toClose' = [toClose EXCEPT ![c] = @ \ {e}]
                                /\ CloseSocket(c, e.name)
    BY DEF CloseOne
  <1>2. UNCHANGED <<tm, pc, op, leak>>
    BY DEF CloseOne
  <1>3. /\ toClose'[c] = toClose[c] \ {e}
        /\ \A d \in Controls : d # c => toClose'[d] = toClose[d]
    BY <1>1 DEF SlotInv, TypeInv, TypeOK
  <1>4. QED
    BY <1>1, <1>2, <1>3, CloseSockets

LEMMA DetachSockets ==
    ASSUME SlotInv, SocketsHeld, NEW c \in Controls, DetachTunnel(c) PROVE SocketsHeld'
  <1>1. PICK p : Goto(c, "run", p)
    BY DEF DetachTunnel, Continue
  <1>2. /\ \A d \in Controls : pc'[d]["drop"] = pc[d]["drop"]
        /\ \A d \in Controls : d # c => pc'[d]["run"] = pc[d]["run"] /\ op'[d] = op[d]
    BY <1>1, GotoMoves DEF DetachTunnel, Continue, SlotInv, TypeInv, TypeOK, Tasks
  <1>3. pc[c]["run"] # "insert" /\ leak' = leak /\ toClose' = toClose /\ TypeOK
    BY DEF DetachTunnel, work, SlotInv, TypeInv
  <1>4. CASE tm' = tm /\ bound' = bound
    <2>1. \A d \in Controls : KeepsSockets(d)
      BY <1>2, <1>3, <1>4 DEF KeepsSockets
    <2>2. QED
      BY <1>3, <1>4, <2>1, SocketsFrame
  <1>5. ASSUME NEW e \in tm[c], tm' = [tm EXCEPT ![c] = @ \ {e}], CloseSocket(c, e.name)
        PROVE  SocketsHeld'
    <2>1. tm'[c] = tm[c] \ {e} /\ \A d \in Controls : d # c => tm'[d] = tm[d]
      BY <1>3, <1>5 DEF TypeOK
    <2>2. QED
      BY <1>2, <1>3, <1>5, <2>1, CloseSockets
  <1>6. QED
    BY <1>4, <1>5 DEF DetachTunnel

\* A new socket belongs to the operation in hand.
LEMMA StartSockets ==
    ASSUME SlotInv, SocketsHeld, NEW c \in Controls, StartTunnel(c) PROVE SocketsHeld'
  <1>1. PICK p : Goto(c, "run", p)
    BY DEF StartTunnel, Continue
  <1>2. /\ \A d \in Controls : pc'[d]["drop"] = pc[d]["drop"]
        /\ \A d \in Controls : d # c => pc'[d]["run"] = pc[d]["run"] /\ op'[d] = op[d]
    BY <1>1, GotoMoves DEF StartTunnel, Continue, SlotInv, TypeInv, TypeOK, Tasks
  <1>3. /\ pc[c]["run"] # "insert" /\ leak' = leak /\ tm' = tm /\ toClose' = toClose /\ TypeOK
    BY DEF StartTunnel, work, SlotInv, TypeInv
  <1>4. CASE bound' = bound
    <2>1. \A d \in Controls : KeepsSockets(d)
      BY <1>2, <1>3, <1>4 DEF KeepsSockets
    <2>2. QED
      BY <1>3, <1>4, <2>1, SocketsFrame
  <1>5. CASE /\ bound' = bound \cup {[ctl |-> c, name |-> op[c].name, key |-> op[c].key]}
             /\ Continue(c, "insert", op[c])
    <2>1. pc'[c]["run"] = "insert" /\ op'[c] = op[c]
      BY <1>3, <1>5 DEF Continue, Goto, TypeOK, Tasks
    <2> SUFFICES ASSUME NEW b \in bound', b.key \notin UdpKeys, Orphan(b)',
                        ~(pc'[b.ctl]["drop"] # "idle"), "cancelled" \notin leak'[b.ctl]
                 PROVE  FALSE
      BY DEF SocketsHeld
    <2>2. CASE b \in bound
      <3>1. b.ctl \in Controls /\ ~Orphan(b)
        BY <1>2, <1>3, <2>2 DEF SocketsHeld, TypeOK
      <3>2. QED
        BY <3>1, <1>2, <1>3, <2>1 DEF Orphan
    <2>3. CASE b = [ctl |-> c, name |-> op[c].name, key |-> op[c].key]
      BY <2>1, <2>3 DEF Orphan
    <2>4. QED
      BY <1>5, <2>2, <2>3
  <1>6. QED
    BY <1>4, <1>5 DEF StartTunnel

LEMMA SocketsStep == SlotInv /\ SocketsHeld /\ [Next]_vars => SocketsHeld'
  <1> SUFFICES ASSUME SlotInv, SocketsHeld, [Next]_vars PROVE SocketsHeld'
    OBVIOUS
  <1>1. ASSUME NEW c \in Controls, RunStep(c) PROVE SocketsHeld'
    BY <1>1, RunSockets, DetachSockets, StartSockets DEF RunStep
  <1>2. ASSUME NEW c \in Controls, NEW t \in Tasks, CleanStep(c, t) PROVE SocketsHeld'
    BY <1>2, CleanerSockets, CloseOneSockets, ReleaseSockets DEF CleanStep
  <1>3. ASSUME NEW c \in Controls,
               \/ Login(c) \/ HeartbeatTimeout(c)
               \/ \E n \in Names, k \in PortKeys \cup {NoKey} : HandleNewTunnel(c, n, k)
               \/ \E n \in Names : HandleCloseTunnel(c, n)
        PROVE  SocketsHeld'
    BY <1>3, RunSockets
  <1>4. ASSUME NEW c \in Controls,
               \/ KickSignal(c) \/ KickShutdown(c) \/ ReplaceShutdown(c) \/ KickCancelled(c)
               \/ DropStep(c)
        PROVE  SocketsHeld'
    BY <1>4, CleanerSockets DEF Tasks
  <1>5. CASE SocketGone \/ UNCHANGED vars
    <2>1. bound' \subseteq bound /\ UNCHANGED <<tm, toClose, leak, pc, op>>
      BY <1>5 DEF SocketGone, vars, work
    <2>2. \A d \in Controls : KeepsSockets(d)
      BY <2>1 DEF KeepsSockets
    <2>3. QED
      BY <2>1, <2>2, SocketsFrame DEF SlotInv, TypeInv
  <1>6. QED
    BY <1>1, <1>2, <1>3, <1>4, <1>5 DEF Next

\* A session that has claimed a tcp port never meets the socket of a tunnel that was closed
\* in order, or of one that is still served: what may still be on the port was left by a
\* destructor or by a cancelled kick.
THEOREM ClaimedPortIsFree == Spec => []TcpPortFreeToBind
  <1>1. Init => SocketsHeld
    BY DEF Init, SocketsHeld
  <1>2. SlotInv /\ SocketsHeld => TcpPortFreeToBind
    <2> SUFFICES ASSUME SlotInv, SocketsHeld, NEW c \in Controls, NEW b \in bound,
                        pc[c]["run"] = "start", b.key = op[c].key, b.key \notin UdpKeys
                 PROVE  /\ Orphan(b)
                        /\ Dropped(b.ctl) \/ pc[b.ctl]["drop"] = "release" \/ "cancelled" \in leak[b.ctl]
      BY DEF TcpPortFreeToBind
    <2>1. b \in [ctl : Controls, name : Names, key : PortKeys] /\ b.key # NoKey
      BY SlotAssumptions DEF SlotInv, TypeInv, TypeOK
    <2>2. OpHoldsName(c) /\ OpHoldsPort(c, b.key)
      BY <2>1 DEF OpHoldsName, OpHoldsPort
    <2>3. byPort[b.key] = op[c].name /\ byName[Trim[op[c].name]] = c
      BY <2>1, <2>2 DEF SlotInv, Held
    <2>4. [name |-> b.name, key |-> b.key] \notin tm[b.ctl] \cup toClose[b.ctl]
      <3> SUFFICES ASSUME [name |-> b.name, key |-> b.key] \in tm[b.ctl] \cup toClose[b.ctl]
                   PROVE  FALSE
        OBVIOUS
      <3> DEFINE e == [name |-> b.name, key |-> b.key]
      <3>1. e \in Listed(b.ctl) \ half[b.ctl]
        BY <2>1 DEF SlotInv, WorkOK, Distinct, Listed
      <3>2. byPort[b.key] = b.name /\ byName[Trim[b.name]] = b.ctl
        BY <2>1, <3>1 DEF SlotInv, Held
      <3>3. b.ctl = c /\ b.name = op[c].name
        BY <2>3, <3>2
      <3>4. QED
        BY <2>2, <3>1, <3>3 DEF SlotInv, Distinct
    <2>5. ~(pc[b.ctl]["run"] = "insert" /\ op[b.ctl].name = b.name /\ op[b.ctl].key = b.key)
      <3> SUFFICES ASSUME pc[b.ctl]["run"] = "insert", op[b.ctl].name = b.name,
                          op[b.ctl].key = b.key
                   PROVE  FALSE
        OBVIOUS
      <3>1. OpHoldsName(b.ctl) /\ OpHoldsPort(b.ctl, b.key)
        BY <2>1 DEF OpHoldsName, OpHoldsPort
      <3>2. byPort[b.key] = b.name /\ byName[Trim[b.name]] = b.ctl
        BY <2>1, <3>1 DEF SlotInv, Held
      <3>3. QED
        BY <2>3, <3>2
    <2>6. Orphan(b)
      BY <2>4, <2>5 DEF Orphan
    <2>7. QED
      BY <2>1, <2>6 DEF SocketsHeld, Dropped, SlotInv, TypeInv, PcOK
  <1>3. QED
    BY <1>1, <1>2, SlotsAgree, SocketsStep, PTL DEF Spec

-----------------------------------------------------------------------------
(* The tables implement SlotLease.                                         *)

\* The leases of the port table, as SlotLease sees them.
LeaseOf == [k \in PortKeys |-> LeasedName(byPort[k])]
HereOf == [c \in Controls |-> ~Dropped(c)]

\* Nothing is leased under a name that its owner has in hand without a port.
LEMMA InHandUnleased ==
    ASSUME SlotInv, NEW c \in Controls, NEW n \in Names, byName[n] = c,
           \/ OpHoldsName(c) /\ op[c].name \in Names /\ Trim[op[c].name] = Trim[n]
              /\ \A k \in PortKeys : ~OpHoldsPort(c, k)
           \/ \E e \in half[c] : e.name \in Names /\ Trim[e.name] = Trim[n]
    PROVE  Leases!Unleased(n)
<1> SUFFICES ASSUME NEW k \in PortKeys, LeaseOf[k] = n PROVE FALSE
  BY DEF Leases!Unleased, LeaseOf
<1>1. byPort[k] \in Names /\ Trim[byPort[k]] = n /\ byPort[k] # NoName
  BY SlotAssumptions DEF LeaseOf, LeasedName, SlotInv, TypeInv, TypeOK
<1>2. Trim[n] = n
  BY <1>1, SlotAssumptions
<1>3. QED
  BY <1>1, <1>2 DEF SlotInv, PortsHeld, Listed

\* Taking a port out of the table frees its lease.
LEMMA ReleaseFrees ==
    ASSUME SlotInv, NEW c \in Controls, NEW k \in PortKeys, NEW n \in Names, byName[Trim[n]] = c,
           ReleasePort(k, n), byName' = byName, HereOf' = HereOf
    PROVE  LeaseOf' = LeaseOf \/ (Trim[n] \in Names /\ Leases!Free(c, Trim[n], k))
<1>1. byPort \in [PortKeys -> Names \cup {NoName}] /\ NoName \notin Names /\ Trim[n] \in Names
  BY SlotAssumptions DEF SlotInv, TypeInv, TypeOK
<1>2. CASE byPort[k] # n
  BY <1>2 DEF ReleasePort, LeaseOf
<1>3. CASE byPort[k] = n
  <2>1. byPort' = [byPort EXCEPT ![k] = NoName]
    BY <1>3 DEF ReleasePort
  <2>2. LeaseOf[k] = Trim[n]
    BY <1>1, <1>3 DEF LeaseOf, LeasedName
  <2>3. LeaseOf' = [LeaseOf EXCEPT ![k] = NoName]
    BY <1>1, <2>1 DEF LeaseOf, LeasedName
  <2>4. QED
    BY <1>1, <2>2, <2>3 DEF Leases!Free, LeaseOf, HereOf
<1>4. QED
  BY <1>2, <1>3

\* Taking a name out of the table yields it.
LEMMA RemoveYields ==
    ASSUME SlotInv, NEW c \in Controls, NEW n \in Names, RemoveIfOwner(n, c),
           byName[n] = c => Leases!Unleased(n), byPort' = byPort, HereOf' = HereOf
    PROVE  byName' = byName \/ Leases!Yield(c, n)
<1>1. LeaseOf' = LeaseOf
  BY DEF LeaseOf
<1>2. QED
  BY <1>1 DEF RemoveIfOwner, Leases!Yield, LeaseOf, HereOf

\* Whoever has a step to do is not dropped, and stays so but for the end of its destructor.
LEMMA StepsAreHere ==
    ASSUME SlotInv, NEW c \in Controls, NEW t \in Tasks, pc[c][t] \notin {"idle", "done", "cancelled"}
    PROVE  HereOf[c]
  BY DEF SlotInv, TypeInv, PcOK, HereOf, Dropped, Tasks

\* Only the destructor's last step makes a session leave.
LEMMA HereUnless ==
    ASSUME SlotInv, NEW c \in Controls, NEW t \in Tasks, NEW p, Goto(c, t, p),
           t # "drop" \/ (p # "done" /\ pc[c]["drop"] # "done")
    PROVE  HereOf' = HereOf
<1>1. pc \in [Controls -> [Tasks -> Pcs]] /\ "drop" \in Tasks
  BY DEF SlotInv, TypeInv, TypeOK, Tasks
<1>2. \A d \in Controls : (pc'[d]["drop"] = "done") <=> (pc[d]["drop"] = "done")
  BY <1>1 DEF Goto
<1>3. QED
  BY <1>2 DEF HereOf, Dropped

\* A session that is dropped leaves.
LEMMA DropLeaves ==
    ASSUME SlotInv, NEW c \in Controls, Goto(c, "drop", "done"), UNCHANGED tables
    PROVE  Leases!Leave(c)
<1>1. pc \in [Controls -> [Tasks -> Pcs]] /\ "drop" \in Tasks
  BY DEF SlotInv, TypeInv, TypeOK, Tasks
<1>2. pc'[c]["drop"] = "done" /\ \A d \in Controls \ {c} : pc'[d] = pc[d]
  BY <1>1 DEF Goto
<1>3. HereOf' = [HereOf EXCEPT ![c] = FALSE]
  BY <1>2 DEF HereOf, Dropped
<1>4. byName' = byName /\ LeaseOf' = LeaseOf
  BY DEF tables, LeaseOf
<1>5. QED
  BY <1>3, <1>4 DEF Leases!Leave, LeaseOf, HereOf

\* The steps that leave both tables alone.
LEMMA QuietLeases ==
    ASSUME UNCHANGED tables, HereOf' = HereOf
    PROVE  UNCHANGED Leases!state
  BY DEF tables, Leases!state, LeaseOf, HereOf

\* Every step of the server is a step of SlotLease, or none.
LEMMA LeaseStep == SlotInv /\ [Next]_vars => [Leases!Step]_(Leases!state)
<1> SUFFICES ASSUME SlotInv, [Next]_vars PROVE Leases!Step \/ UNCHANGED Leases!state
  OBVIOUS
<1>1. /\ pc \in [Controls -> [Tasks -> Pcs]] /\ Tasks = {"run", "ext", "drop"}
      /\ byName \in [Names -> Controls \cup {NoControl}]
      /\ byPort \in [PortKeys -> Names \cup {NoName}]
      /\ Trim \in [Names -> Names] /\ NoName \notin Names /\ NoControl \notin Controls
  BY SlotAssumptions DEF SlotInv, TypeInv, TypeOK, Tasks
<1>2. ASSUME NEW c \in Controls, HereOf[c],
             \/ Leases!Leave(c)
             \/ \E n \in Names : Leases!Claim(c, n) \/ Leases!Yield(c, n)
             \/ \E n \in Names, k \in PortKeys : Leases!Assign(c, n, k) \/ Leases!Free(c, n, k)
      PROVE  Leases!Step
  BY <1>2 DEF Leases!Step, Leases!Act, HereOf
<1>3. CASE UNCHANGED vars \/ SocketGone \/ \E c \in Controls : HeartbeatTimeout(c)
  <2>1. UNCHANGED <<tables, pc>>
    BY <1>3 DEF vars, tables, SocketGone, HeartbeatTimeout
  <2>2. HereOf' = HereOf
    BY <2>1 DEF HereOf, Dropped
  <2>3. QED
    BY <2>1, <2>2, QuietLeases
<1>4. ASSUME NEW c \in Controls, NEW t \in {"run", "ext"}, NEW p, Goto(c, t, p), UNCHANGED tables
      PROVE  UNCHANGED Leases!state
  BY <1>1, <1>4, HereUnless, QuietLeases
<1>5. ASSUME NEW c \in Controls,
             \/ Login(c) \/ LeaveLoop(c) \/ InsertTunnel(c) \/ StartTunnel(c) \/ DetachTunnel(c)
            PROVE  UNCHANGED Leases!state
  <2>1. UNCHANGED tables
    BY <1>5 DEF Login, LeaveLoop, InsertTunnel, StartTunnel, DetachTunnel
  <2>2. \E p : Goto(c, "run", p)
    BY <1>5, Zenon DEF Login, LeaveLoop, InsertTunnel, StartTunnel, DetachTunnel, Continue
  <2>3. QED
    BY <1>4, <2>1, <2>2
<1>6. ASSUME NEW c \in Controls, NEW n \in Names, NEW k \in PortKeys \cup {NoKey},
             HandleNewTunnel(c, n, k) \/ HandleCloseTunnel(c, n)
      PROVE  UNCHANGED Leases!state
  <2>1. UNCHANGED tables
    BY <1>6 DEF HandleNewTunnel, HandleCloseTunnel
  <2>2. \E p : Goto(c, "run", p)
    BY <1>6, Zenon DEF HandleNewTunnel, HandleCloseTunnel, Continue
  <2>3. QED
    BY <1>4, <2>1, <2>2
<1>7. ASSUME NEW c \in Controls,
             RunShutdown(c) \/ KickShutdown(c) \/ ReplaceShutdown(c) \/ KickSignal(c) \/ KickCancelled(c)
      PROVE  UNCHANGED Leases!state
  <2>1. UNCHANGED tables
    BY <1>7 DEF RunShutdown, KickShutdown, ReplaceShutdown, KickSignal, KickCancelled, Shutdown
  <2>2. \E t \in {"run", "ext"} : \E p : Goto(c, t, p)
    BY <1>7, Zenon DEF RunShutdown, KickShutdown, ReplaceShutdown, KickSignal, KickCancelled, Shutdown
  <2>3. QED
    BY <1>4, <2>1, <2>2
<1>8. ASSUME NEW c \in Controls, RelPort(c) PROVE Leases!Step \/ UNCHANGED Leases!state
  <2>1. /\ pc[c]["run"] = "relPort" /\ op[c].rel \in PortKeys /\ op[c].name \in Names
        /\ byName[Trim[op[c].name]] = c
    BY <1>8 DEF RelPort, SlotInv, TypeInv, OpOK, BusyPcs, Held, OpHoldsName
  <2>2. ReleasePort(op[c].rel, op[c].name) /\ byName' = byName /\ Goto(c, "run", "relName")
    BY <1>8 DEF RelPort
  <2>3. HereOf' = HereOf /\ HereOf[c]
    BY <1>1, <2>1, <2>2, HereUnless, StepsAreHere
  <2>4. \/ LeaseOf' = LeaseOf
        \/ Trim[op[c].name] \in Names /\ Leases!Free(c, Trim[op[c].name], op[c].rel)
    BY <2>1, <2>2, <2>3, ReleaseFrees
  <2>5. CASE LeaseOf' = LeaseOf
    BY <2>2, <2>3, <2>5 DEF Leases!state, LeaseOf, HereOf
  <2>6. QED
    BY <1>2, <2>1, <2>3, <2>4, <2>5
<1>9. ASSUME NEW c \in Controls, NEW n \in Names, RemoveIfOwner(n, c), byPort' = byPort,
             byName[n] = c => Leases!Unleased(n), HereOf' = HereOf, HereOf[c]
      PROVE  Leases!Step \/ UNCHANGED Leases!state
  <2>1. CASE byName' = byName
    BY <1>9, <2>1, QuietLeases DEF tables
  <2>2. QED
    BY <1>2, <1>9, <2>1, RemoveYields
<1>10. ASSUME NEW c \in Controls, RelName(c) PROVE Leases!Step \/ UNCHANGED Leases!state
  <2>1. /\ pc[c]["run"] = "relName" /\ op[c].name \in Names
        /\ RemoveIfOwner(op[c].name, c) /\ byPort' = byPort /\ \E p : Goto(c, "run", p)
    BY <1>10 DEF RelName, SlotInv, TypeInv, OpOK, BusyPcs, Continue
  <2>2. HereOf' = HereOf /\ HereOf[c]
    BY <1>1, <2>1, HereUnless, StepsAreHere
  <2>3. OpHoldsName(c) /\ \A k \in PortKeys : ~OpHoldsPort(c, k)
    BY <2>1 DEF OpHoldsName, OpHoldsPort
  <2>4. byName[op[c].name] = c => Leases!Unleased(op[c].name)
    BY <2>1, <2>3, InHandUnleased
  <2>5. QED
    BY <1>9, <2>1, <2>2, <2>4
<1>11. ASSUME NEW c \in Controls, ClaimName(c) PROVE Leases!Step \/ UNCHANGED Leases!state
  <2>1. pc[c]["run"] = "claimName" /\ op[c].name \in Names /\ byPort' = byPort /\ \E p : Goto(c, "run", p)
    BY <1>11 DEF ClaimName, SlotInv, TypeInv, OpOK, BusyPcs, Continue
  <2>2. HereOf' = HereOf /\ HereOf[c] /\ Trim[op[c].name] \in Names
    BY <1>1, <2>1, HereUnless, StepsAreHere
  <2>3. CASE NameFree(op[c].name) /\ TryInsert(op[c].name, c)
    <3>1. Leases!Claim(c, Trim[op[c].name])
      BY <2>1, <2>2, <2>3 DEF NameFree, TryInsert, Leases!Claim, HereOf
    <3>2. QED
      BY <1>2, <2>2, <3>1
  <2>4. CASE byName' = byName
    BY <2>1, <2>2, <2>4, QuietLeases DEF tables
  <2>5. QED
    BY <1>11, <2>3, <2>4 DEF ClaimName
<1>12. ASSUME NEW c \in Controls, ClaimPort(c) PROVE Leases!Step \/ UNCHANGED Leases!state
  <2> DEFINE k == op[c].key
             n == op[c].name
  <2>1. /\ pc[c]["run"] = "claimPort" /\ n \in Names /\ k \in PortKeys
        /\ byName' = byName /\ \E p : Goto(c, "run", p)
    BY <1>12 DEF ClaimPort, SlotInv, TypeInv, OpOK, BusyPcs
  <2>2. HereOf' = HereOf /\ HereOf[c] /\ Trim[n] \in Names
    BY <1>1, <2>1, HereUnless, StepsAreHere
  <2>3. CASE byPort[k] = NoName /\ byPort' = [byPort EXCEPT ![k] = n]
    <3>1. OpHoldsName(c) /\ \A j \in PortKeys : ~OpHoldsPort(c, j)
      BY <2>1 DEF OpHoldsName, OpHoldsPort
    <3>2. byName[Trim[n]] = c /\ Trim[Trim[n]] = Trim[n]
      BY <2>1, <3>1, SlotAssumptions DEF SlotInv, Held
    <3>3. Leases!Unleased(Trim[n])
      BY <2>1, <2>2, <3>1, <3>2, InHandUnleased
    <3>4. LeaseOf[k] = NoName
      BY <2>1, <2>3 DEF LeaseOf, LeasedName
    <3>5. LeaseOf' = [LeaseOf EXCEPT ![k] = Trim[n]]
      BY <1>1, <2>1, <2>3 DEF LeaseOf, LeasedName
    <3>6. Leases!Assign(c, Trim[n], k)
      BY <2>1, <2>2, <3>2, <3>3, <3>4, <3>5 DEF Leases!Assign, LeaseOf, HereOf
    <3>7. QED
      BY <1>2, <2>1, <2>2, <3>6
  <2>4. CASE byPort' = byPort
    BY <2>1, <2>2, <2>4, QuietLeases DEF tables
  <2>5. QED
    BY <1>12, <2>3, <2>4 DEF ClaimPort
<1>13. ASSUME NEW c \in Controls, NEW t \in Tasks, CleanStep(c, t)
       PROVE  Leases!Step \/ UNCHANGED Leases!state
  <2>1. pc[c]["drop"] \in {"idle", "release", "done"}
    BY DEF SlotInv, TypeInv, PcOK
  <2>2. CASE Drain(c, t) \/ AllClosed(c, t) \/ MarkFinished(c, t) \/ StopWaiting(c, t)
    <3>1. t # "drop"
      BY <2>1, <2>2 DEF Drain, AllClosed, MarkFinished, StopWaiting
    <3>2. UNCHANGED tables /\ \E p : Goto(c, t, p)
      BY <2>2 DEF Drain, AllClosed, MarkFinished, StopWaiting
    <3>3. QED
      BY <1>1, <1>4, <3>1, <3>2
  <2>3. CASE CloseOne(c, t)
    <3>1. UNCHANGED <<tables, pc>>
      BY <2>3 DEF CloseOne
    <3>2. HereOf' = HereOf
      BY <3>1 DEF HereOf, Dropped
    <3>3. QED
      BY <3>1, <3>2, QuietLeases
  <2>4. CASE ReleaseOnePort(c, t)
    <3>1. pc[c][t] = "release" /\ pc' = pc /\ byName' = byName
      BY <2>4 DEF ReleaseOnePort
    <3>2. HereOf' = HereOf /\ HereOf[c]
      BY <3>1, StepsAreHere DEF HereOf, Dropped
    <3>3. PICK e \in toRelease[c] : \/ e.key # NoKey /\ ReleasePort(e.key, e.name)
                                    \/ e.key = NoKey /\ UNCHANGED byPort
      BY <2>4 DEF ReleaseOnePort
    <3>4. e \in Entries /\ byName[Trim[e.name]] = c
      BY DEF SlotInv, TypeInv, TypeOK, Held, Listed
    <3>5. CASE byPort' = byPort
      BY <3>1, <3>2, <3>5, QuietLeases DEF tables
    <3>6. CASE e.key # NoKey /\ ReleasePort(e.key, e.name)
      <4>1. e.key \in PortKeys /\ e.name \in Names
        BY <3>4, <3>6 DEF Entries
      <4>2. LeaseOf' = LeaseOf \/ (Trim[e.name] \in Names /\ Leases!Free(c, Trim[e.name], e.key))
        BY <3>1, <3>2, <3>4, <3>6, <4>1, ReleaseFrees
      <4>3. CASE LeaseOf' = LeaseOf
        BY <3>1, <3>2, <4>3 DEF Leases!state, LeaseOf, HereOf
      <4>4. QED
        BY <1>2, <3>2, <4>1, <4>2, <4>3
    <3>7. QED
      BY <3>3, <3>5, <3>6
  <2>5. CASE ReleaseOneName(c, t)
    <3>1. pc[c][t] = "release" /\ pc' = pc /\ byPort' = byPort
      BY <2>5 DEF ReleaseOneName
    <3>2. HereOf' = HereOf /\ HereOf[c]
      BY <3>1, StepsAreHere DEF HereOf, Dropped
    <3>3. PICK e \in half[c] : RemoveIfOwner(e.name, c)
      BY <2>5 DEF ReleaseOneName
    <3>4. e.name \in Names
      BY DEF SlotInv, TypeInv, TypeOK, Entries
    <3>5. byName[e.name] = c => Leases!Unleased(e.name)
      BY <3>4, InHandUnleased
    <3>6. QED
      BY <1>9, <3>1, <3>2, <3>3, <3>4, <3>5
  <2>6. CASE AllReleased(c, t)
    <3>1. pc[c][t] = "release" /\ UNCHANGED tables
      BY <2>6 DEF AllReleased
    <3>2. CASE t = "drop"
      <4>1. Leases!Leave(c) /\ HereOf[c]
        BY <2>6, <3>1, <3>2, DropLeaves, StepsAreHere DEF AllReleased
      <4>2. QED
        BY <1>2, <4>1
    <3>3. CASE t # "drop"
      <4>1. Goto(c, t, "finish")
        BY <2>6, <3>3 DEF AllReleased
      <4>2. QED
        BY <1>1, <1>4, <3>1, <3>3, <4>1
    <3>4. QED
      BY <3>2, <3>3
  <2>7. QED
    BY <1>13, <2>2, <2>3, <2>4, <2>5, <2>6 DEF CleanStep
<1>14. ASSUME NEW c \in Controls, DropStep(c) PROVE Leases!Step \/ UNCHANGED Leases!state
  <2>1. pc[c]["drop"] = "idle" /\ UNCHANGED tables
    BY <1>14 DEF DropStep, DropFinished, DropUnfinished, LastReference
  <2>2. CASE DropFinished(c)
    <3>1. Leases!Leave(c) /\ HereOf[c]
      BY <2>1, <2>2, DropLeaves DEF DropFinished, HereOf, Dropped
    <3>2. QED
      BY <1>2, <3>1
  <2>3. CASE DropUnfinished(c)
    <3>1. Goto(c, "drop", "release")
      BY <2>3 DEF DropUnfinished
    <3>2. HereOf' = HereOf
      BY <1>1, <2>1, <3>1, HereUnless
    <3>3. QED
      BY <2>1, <3>2, QuietLeases
  <2>4. QED
    BY <1>14, <2>2, <2>3 DEF DropStep
<1>15. QED
  BY <1>3, <1>5, <1>6, <1>7, <1>8, <1>10, <1>11, <1>12, <1>13, <1>14 DEF Next, RunStep

\* For any sessions, names and ports, and whoever replaces, kicks or drops them: the name
\* and port tables implement the leases of SlotLease.
THEOREM SlotsImplementLeases == Spec => ImplementsLeases
<1>1. Init => Leases!Start
  <2> SUFFICES ASSUME Init PROVE Leases!Start
    OBVIOUS
  <2>1. byName = [n \in Names |-> NoControl] /\ \A k \in PortKeys : byPort[k] = NoName
    BY DEF Init
  <2>2. \A c \in Controls : ~Dropped(c)
    BY DEF Init, Dropped, Tasks
  <2>3. LeaseOf = [k \in PortKeys |-> NoName] /\ HereOf = [c \in Controls |-> TRUE]
    BY <2>1, <2>2 DEF LeaseOf, LeasedName, HereOf
  <2>4. QED
    BY <2>1, <2>3 DEF Leases!Start, LeaseOf, HereOf
<1>2. QED
  BY <1>1, LeaseStep, SlotsAgree, PTL DEF Spec, ImplementsLeases, Leases!Spec
=============================================================================
