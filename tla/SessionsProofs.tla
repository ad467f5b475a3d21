--------------------------- MODULE SessionsProofs ---------------------------
(***************************************************************************)
(* Proofs about Sessions, for any number of logins, session ids and agents *)
(* and whatever pairs of them clients log in with.                         *)
(***************************************************************************)
EXTENDS Sessions, TLAPS

\* Where a login has not put its Control into the table yet.
Before == {"new", "peek", "lock", "insert"}

\* Where a login or a removal holds the gate it has a handle on.
Held == {"insert", "closeOld", "online", "loginOk", "giveUp", "remDo"}

\* Whoever thinks that it holds a gate does.
HoldersHold ==
    /\ \A c \in Controls : pc[c] \in Held => gate[c] \in Controls /\ holder[gate[c]] = c
    /\ \A c \in Controls : pc[c] \in {"lock", "remLock"} => gate[c] \in Controls
    /\ kick.pc # "idle" => kick.gate \in Controls /\ kick.ctl \in Controls /\ kick.sid \in Sids
    /\ kick.pc \in {"check", "kick", "await", "drop"} => holder[kick.gate] = "kick"
    /\ look.pc # "idle" => look.gate \in Controls /\ look.ctl \in Controls /\ look.sid \in Sids
    /\ look.pc = "check" => holder[look.gate] = "look"

\* A Control enters the table once, under the session id of its login.
Placed ==
    /\ \A c \in Controls : pc[c] # "new" => sid[c] \in Sids
    /\ \A s \in Sids : \A c \in Controls : Current(s, c) => sid[c] = s /\ pc[c] \notin Before
    /\ kick.pc # "idle" => sid[kick.ctl] = kick.sid /\ pc[kick.ctl] \notin Before
    /\ look.pc # "idle" => sid[look.ctl] = look.sid /\ pc[look.ctl] \notin Before

\* The Control that a login took the place of served the same session.
OldReplaced ==
    \A c \in Controls : pc[c] = "closeOld" =>
        /\ old[c] \in Controls
        /\ sid[old[c]] = sid[c]
        /\ pc[old[c]] \notin Before
        /\ old[c] # c

\* As long as the Control that a kick or a lookup found is in the table, the gate
\* found with it is the gate of the entry; and the login that takes its place has
\* that very gate.
GateKept ==
    /\ kick.pc # "idle" /\ Current(kick.sid, kick.ctl) => tbl[kick.sid].gate = kick.gate
    /\ look.pc # "idle" /\ Current(look.sid, look.ctl) => tbl[look.sid].gate = look.gate
    /\ look.pc # "idle" =>
          \A c \in Controls : pc[c] = "closeOld" /\ old[c] = look.ctl => gate[c] = look.gate

\* A Control is activated by the end of its login and closed before it leaves.
Lifecycle ==
    /\ \A c \in Controls : active[c] =>
          pc[c] \in {"run", "shut", "remPeek", "remLock", "remDo", "release", "done"}
    /\ \A c \in Controls : Accepting(c) => pc[c] \in {"run", "shut"}
    /\ kick.pc = "await" => closed[kick.ctl]
    /\ look.pc # "idle" => look.first \in {None, look.ctl}
    /\ look.first # None => active[look.first] /\ look.pc # "idle"

\* The inductive invariant.
SessInv ==
    /\ TableTypes
    /\ HoldersHold
    /\ Placed
    /\ OldReplaced
    /\ GateKept
    /\ Lifecycle
    /\ LoginUndisturbed
    /\ AcceptingIsCurrent
    /\ LookupFinds

\* A new login.
LEMMA LoginKeeps ==
    ASSUME SessInv, NEW c \in Controls, Login(c)
    PROVE  SessInv'
<1>1. TableTypes'
  BY SessionAssumptions DEF SessInv, TableTypes, Pcs, Outside, OutsidePcs, Holders,
     login, Login, Goto
<1>2. HoldersHold'
  BY DEF SessInv, HoldersHold, TableTypes, Held, Login, Goto
<1>3. Placed'
  BY SessionAssumptions DEF SessInv, Placed, TableTypes, Before, Current, login, Login,
     Goto
<1>4. OldReplaced'
  BY DEF SessInv, OldReplaced, TableTypes, Before, Login, Goto
<1>5. GateKept'
  BY DEF SessInv, GateKept, TableTypes, Current, Login, Goto
<1>6. Lifecycle'
  BY DEF SessInv, Lifecycle, TableTypes, Accepting, Login, Goto
<1>7. LoginUndisturbed'
  BY DEF SessInv, LoginUndisturbed, TableTypes, Current, Login, Goto
<1>8. AcceptingIsCurrent'
  BY SessionAssumptions DEF SessInv, AcceptingIsCurrent, TableTypes, Accepting, Current,
     login, HoldersHold, Lifecycle, Login, Goto
<1>9. LookupFinds'
  BY DEF SessInv, LookupFinds, TableTypes, Accepting, Login, Goto
<1>10. QED
  BY <1>1, <1>2, <1>3, <1>4, <1>5, <1>6, <1>7, <1>8, <1>9 DEF SessInv

\* swap_in_locked finds the gate.
LEMMA PeekGateKeeps ==
    ASSUME SessInv, NEW c \in Controls, PeekGate(c)
    PROVE  SessInv'
<1>1. TableTypes'
  BY SessionAssumptions DEF SessInv, TableTypes, Pcs, Outside, OutsidePcs, Holders,
     login, HoldersHold, LoginUndisturbed, Placed, PeekGate, Goto
<1>2. HoldersHold'
  BY SessionAssumptions DEF SessInv, HoldersHold, TableTypes, Held, login, Idle,
     Outside, OutsidePcs, LoginUndisturbed, Placed, Current, PeekGate, Goto
<1>3. Placed'
  BY SessionAssumptions DEF SessInv, Placed, TableTypes, Before, Current, login,
     PeekGate, Goto
<1>4. OldReplaced'
  BY SessionAssumptions DEF SessInv, OldReplaced, TableTypes, Before, login, PeekGate,
     Goto
<1>5. GateKept'
  BY DEF SessInv, GateKept, TableTypes, Current, PeekGate, Goto
<1>6. Lifecycle'
  BY DEF SessInv, Lifecycle, TableTypes, Accepting, PeekGate, Goto
<1>7. LoginUndisturbed'
  BY SessionAssumptions DEF SessInv, LoginUndisturbed, TableTypes, Current, login,
     PeekGate, Goto
<1>8. AcceptingIsCurrent'
  BY SessionAssumptions DEF SessInv, AcceptingIsCurrent, TableTypes, Accepting, Current,
     login, PeekGate, Goto
<1>9. LookupFinds'
  BY DEF SessInv, LookupFinds, TableTypes, Accepting, PeekGate, Goto
<1>10. QED
  BY <1>1, <1>2, <1>3, <1>4, <1>5, <1>6, <1>7, <1>8, <1>9 DEF SessInv

\* swap_in_locked gets the gate.
LEMMA LockGateKeeps ==
    ASSUME SessInv, NEW c \in Controls, LockGate(c)
    PROVE  SessInv'
<1>1. TableTypes'
  BY SessionAssumptions DEF SessInv, TableTypes, Pcs, Outside, OutsidePcs, Holders,
     login, HoldersHold, LoginUndisturbed, Placed, LockGate, Goto, Lock
<1>2. HoldersHold'
  BY SessionAssumptions DEF SessInv, HoldersHold, TableTypes, Held, login, LockGate,
     Goto, Lock
<1>3. Placed'
  BY SessionAssumptions DEF SessInv, Placed, TableTypes, Before, Current, login,
     LockGate, Goto, Lock
<1>4. OldReplaced'
  BY SessionAssumptions DEF SessInv, OldReplaced, TableTypes, Before, login, LockGate,
     Goto, Lock
<1>5. GateKept'
  BY DEF SessInv, GateKept, TableTypes, Current, LockGate, Goto, Lock
<1>6. Lifecycle'
  BY DEF SessInv, Lifecycle, TableTypes, Accepting, LockGate, Goto, Lock
<1>7. LoginUndisturbed'
  BY SessionAssumptions DEF SessInv, LoginUndisturbed, TableTypes, Current, login,
     LockGate, Goto, Lock
<1>8. AcceptingIsCurrent'
  BY SessionAssumptions DEF SessInv, AcceptingIsCurrent, TableTypes, Accepting, Current,
     login, LockGate, Goto, Lock
<1>9. LookupFinds'
  BY DEF SessInv, LookupFinds, TableTypes, Accepting, LockGate, Goto, Lock
<1>10. QED
  BY <1>1, <1>2, <1>3, <1>4, <1>5, <1>6, <1>7, <1>8, <1>9 DEF SessInv

\* swap_in_locked checks the gate again and takes the place in the table.
LEMMA SwapInKeeps ==
    ASSUME SessInv, NEW c \in Controls, SwapIn(c)
    PROVE  SessInv'
<1>1. TableTypes'
  <2>1. gate[c] \in Controls
    BY DEF SessInv, HoldersHold, Held, SwapIn
  <2>2. sid[c] \in Sids
    BY DEF SessInv, Placed, SwapIn
  <2>3. holder' \in [Controls -> Holders \cup {None}] /\ gate' \in [Controls -> Controls \cup {None}]
    BY <2>1 DEF SessInv, TableTypes, SwapIn, DropGuard, Unlock, KeepGuard
  <2>4. tbl' \in [Sids -> [ctl : Controls, gate : Controls] \cup {None}]
    BY <2>1, <2>2 DEF SessInv, TableTypes, SwapIn
  <2>5. old' \in [Controls -> Controls \cup {None}]
    BY <2>2 DEF SessInv, TableTypes, SwapIn
  <2>6. pc' \in [Controls -> Pcs]
    BY DEF SessInv, TableTypes, SwapIn, Goto, Pcs
  <2>7. QED
    BY <2>3, <2>4, <2>5, <2>6 DEF SessInv, TableTypes, SwapIn, login
<1>2. HoldersHold'
  BY SessionAssumptions DEF SessInv, HoldersHold, TableTypes, Held, login, SwapIn, Goto,
     DropGuard, Unlock, KeepGuard, GateIsStale
<1>3. Placed'
  BY SessionAssumptions DEF SessInv, Placed, TableTypes, Before, Current, login,
     HoldersHold, SwapIn, Goto, DropGuard, Unlock, KeepGuard, GateIsStale
<1>4. OldReplaced'
  BY SessionAssumptions DEF SessInv, OldReplaced, TableTypes, Before, login, Placed,
     Current, SwapIn, Goto, DropGuard, Unlock, KeepGuard, GateIsStale
<1>5. GateKept'
  BY SessionAssumptions DEF SessInv, GateKept, TableTypes, Current, login, HoldersHold,
     Placed, Before, SwapIn, Goto, DropGuard, Unlock, KeepGuard, GateIsStale
<1>6. Lifecycle'
  BY DEF SessInv, Lifecycle, TableTypes, Accepting, SwapIn, Goto, DropGuard, Unlock,
     KeepGuard, GateIsStale
<1>7. LoginUndisturbed'
  <2>1. gate[c] \in Controls /\ holder[gate[c]] = c /\ sid[c] \in Sids /\ pc[c] = "insert"
    BY DEF SessInv, HoldersHold, Placed, Held, SwapIn
  <2>2. SUFFICES ASSUME NEW d \in Controls, pc'[d] \in {"closeOld", "online", "loginOk", "giveUp"}
                 PROVE  Current(sid[d], d)' /\ tbl'[sid[d]].gate = gate'[d] /\ holder'[gate'[d]] = d
    BY DEF LoginUndisturbed, Current, SwapIn, login
  <2>3. CASE d = c
    BY <2>1, <2>2, <2>3, NoneIsNoEntry DEF SessInv, TableTypes, SwapIn, KeepGuard, Current, Goto, login
  <2>4. CASE d # c
    <3>1. pc[d] \in {"closeOld", "online", "loginOk", "giveUp"}
      BY <2>2, <2>4 DEF SessInv, TableTypes, SwapIn, Goto
    <3>2. Current(sid[d], d) /\ tbl[sid[d]].gate = gate[d] /\ holder[gate[d]] = d
      BY <3>1 DEF SessInv, LoginUndisturbed
    <3>3. gate[d] \in Controls /\ sid[d] \in Sids /\ gate[d] # gate[c]
      BY <3>1, <3>2, <2>1, <2>4 DEF SessInv, HoldersHold, Placed, Held
    <3>4. gate'[d] = gate[d] /\ holder'[gate[d]] = d
      BY <2>1, <2>4, <3>2, <3>3 DEF SessInv, TableTypes, SwapIn, DropGuard, Unlock, KeepGuard
    <3>5. tbl'[sid[d]] = tbl[sid[d]]
      BY <2>1, <3>2, <3>3 DEF SessInv, TableTypes, SwapIn, GateIsStale, Current
    <3>6. QED
      BY <3>2, <3>4, <3>5 DEF Current, SwapIn, login
  <2>5. QED
    BY <2>3, <2>4
<1>8. AcceptingIsCurrent'
  BY SessionAssumptions DEF SessInv, AcceptingIsCurrent, TableTypes, Accepting, Current,
     login, HoldersHold, Lifecycle, Placed, LoginUndisturbed, OldReplaced, Before,
     SwapIn, Goto, DropGuard, Unlock, KeepGuard, GateIsStale
<1>9. LookupFinds'
  BY DEF SessInv, LookupFinds, TableTypes, Accepting, SwapIn, Goto, DropGuard, Unlock,
     KeepGuard, GateIsStale
<1>10. QED
  BY <1>1, <1>2, <1>3, <1>4, <1>5, <1>6, <1>7, <1>8, <1>9 DEF SessInv

\* The replaced Control is closed.
LEMMA ShutdownOldKeeps ==
    ASSUME SessInv, NEW c \in Controls, ShutdownOld(c)
    PROVE  SessInv'
<1>1. TableTypes'
  BY DEF SessInv, TableTypes, Pcs, HoldersHold, OldReplaced, ShutdownOld, Goto, login
<1>2. HoldersHold'
  BY DEF SessInv, HoldersHold, TableTypes, Held, ShutdownOld, Goto
<1>3. Placed'
  BY SessionAssumptions DEF SessInv, Placed, TableTypes, Before, Current, login,
     ShutdownOld, Goto
<1>4. OldReplaced'
  BY SessionAssumptions DEF SessInv, OldReplaced, TableTypes, Before, login,
     ShutdownOld, Goto
<1>5. GateKept'
  BY DEF SessInv, GateKept, TableTypes, Current, ShutdownOld, Goto
<1>6. Lifecycle'
  BY DEF SessInv, Lifecycle, TableTypes, Accepting, ShutdownOld, Goto
<1>7. LoginUndisturbed'
  BY SessionAssumptions DEF SessInv, LoginUndisturbed, TableTypes, Current, login,
     ShutdownOld, Goto
<1>8. AcceptingIsCurrent'
  BY SessionAssumptions DEF SessInv, AcceptingIsCurrent, TableTypes, Accepting, Current,
     login, ShutdownOld, Goto
<1>9. LookupFinds'
  BY DEF SessInv, LookupFinds, TableTypes, Accepting, ShutdownOld, Goto
<1>10. QED
  BY <1>1, <1>2, <1>3, <1>4, <1>5, <1>6, <1>7, <1>8, <1>9 DEF SessInv

\* try_online succeeds or reports a conflict.
LEMMA GoOnlineKeeps ==
    ASSUME SessInv, NEW c \in Controls, GoOnline(c)
    PROVE  SessInv'
<1>1. TableTypes'
  BY SessionAssumptions DEF SessInv, TableTypes, Pcs, Outside, OutsidePcs, Holders,
     login, GoOnline, Goto, DropGuard, Unlock, KeepGuard
<1>2. HoldersHold'
  BY SessionAssumptions DEF SessInv, HoldersHold, TableTypes, Held, login, GoOnline,
     Goto, DropGuard, Unlock, KeepGuard
<1>3. Placed'
  BY SessionAssumptions DEF SessInv, Placed, TableTypes, Before, Current, login,
     HoldersHold, GoOnline, Goto, DropGuard, Unlock, KeepGuard
<1>4. OldReplaced'
  BY SessionAssumptions DEF SessInv, OldReplaced, TableTypes, Before, login, GoOnline,
     Goto, DropGuard, Unlock, KeepGuard
<1>5. GateKept'
  BY DEF SessInv, GateKept, TableTypes, Current, GoOnline, Goto, DropGuard, Unlock,
     KeepGuard
<1>6. Lifecycle'
  BY DEF SessInv, Lifecycle, TableTypes, Accepting, GoOnline, Goto, DropGuard, Unlock,
     KeepGuard
<1>7. LoginUndisturbed'
  BY SessionAssumptions DEF SessInv, LoginUndisturbed, TableTypes, Current, login,
     HoldersHold, Held, GoOnline, Goto, DropGuard, Unlock, KeepGuard
<1>8. AcceptingIsCurrent'
  BY SessionAssumptions DEF SessInv, AcceptingIsCurrent, TableTypes, Accepting, Current,
     login, GoOnline, Goto, DropGuard, Unlock, KeepGuard
<1>9. LookupFinds'
  BY DEF SessInv, LookupFinds, TableTypes, Accepting, GoOnline, Goto, DropGuard, Unlock,
     KeepGuard
<1>10. QED
  BY <1>1, <1>2, <1>3, <1>4, <1>5, <1>6, <1>7, <1>8, <1>9 DEF SessInv

\* The Control is activated, or the response could not be written.
LEMMA SendLoginOkKeeps ==
    ASSUME SessInv, NEW c \in Controls, SendLoginOk(c)
    PROVE  SessInv'
<1>1. TableTypes'
  <2>1. gate[c] \in Controls
    BY DEF SessInv, HoldersHold, Held, SendLoginOk
  <2>2. holder' \in [Controls -> Holders \cup {None}] /\ gate' \in [Controls -> Controls \cup {None}]
    BY <2>1 DEF SessInv, TableTypes, SendLoginOk, DropGuard, Unlock, KeepGuard
  <2>3. active' \in [Controls -> BOOLEAN] /\ pc' \in [Controls -> Pcs]
    BY DEF SessInv, TableTypes, SendLoginOk, Goto, Pcs
  <2>4. QED
    BY <2>2, <2>3 DEF SessInv, TableTypes, SendLoginOk, login
<1>2. HoldersHold'
  BY SessionAssumptions DEF SessInv, HoldersHold, TableTypes, Held, login, SendLoginOk,
     Goto, DropGuard, Unlock, KeepGuard
<1>3. Placed'
  BY SessionAssumptions DEF SessInv, Placed, TableTypes, Before, Current, login,
     HoldersHold, SendLoginOk, Goto, DropGuard, Unlock, KeepGuard
<1>4. OldReplaced'
  BY SessionAssumptions DEF SessInv, OldReplaced, TableTypes, Before, login,
     SendLoginOk, Goto, DropGuard, Unlock, KeepGuard
<1>5. GateKept'
  BY DEF SessInv, GateKept, TableTypes, Current, SendLoginOk, Goto, DropGuard, Unlock,
     KeepGuard
<1>6. Lifecycle'
  BY SessionAssumptions DEF SessInv, Lifecycle, TableTypes, Accepting, login,
     HoldersHold, Placed, Before, SendLoginOk, Goto, DropGuard, Unlock, KeepGuard
<1>7. LoginUndisturbed'
  BY SessionAssumptions DEF SessInv, LoginUndisturbed, TableTypes, Current, login,
     HoldersHold, Held, SendLoginOk, Goto, DropGuard, Unlock, KeepGuard
<1>8. AcceptingIsCurrent'
  BY SessionAssumptions DEF SessInv, AcceptingIsCurrent, TableTypes, Accepting, Current,
     login, HoldersHold, Lifecycle, Placed, LoginUndisturbed, OldReplaced, Before,
     SendLoginOk, Goto, DropGuard, Unlock, KeepGuard
<1>9. LookupFinds'
  BY SessionAssumptions DEF SessInv, LookupFinds, TableTypes, Accepting, login,
     HoldersHold, Lifecycle, SendLoginOk, Goto, DropGuard, Unlock, KeepGuard
<1>10. QED
  BY <1>1, <1>2, <1>3, <1>4, <1>5, <1>6, <1>7, <1>8, <1>9 DEF SessInv

\* The failed login drops its guard.
LEMMA GiveUpKeeps ==
    ASSUME SessInv, NEW c \in Controls, GiveUp(c)
    PROVE  SessInv'
<1>1. TableTypes'
  BY DEF SessInv, TableTypes, Pcs, HoldersHold, Held, GiveUp, Goto, DropGuard, Unlock,
     login
<1>2. HoldersHold'
  BY SessionAssumptions DEF SessInv, HoldersHold, TableTypes, Held, login, GiveUp, Goto,
     DropGuard, Unlock
<1>3. Placed'
  BY SessionAssumptions DEF SessInv, Placed, TableTypes, Before, Current, login, GiveUp,
     Goto, DropGuard, Unlock
<1>4. OldReplaced'
  BY SessionAssumptions DEF SessInv, OldReplaced, TableTypes, Before, login, GiveUp,
     Goto, DropGuard, Unlock
<1>5. GateKept'
  BY DEF SessInv, GateKept, TableTypes, Current, GiveUp, Goto, DropGuard, Unlock
<1>6. Lifecycle'
  BY DEF SessInv, Lifecycle, TableTypes, Accepting, GiveUp, Goto, DropGuard, Unlock
<1>7. LoginUndisturbed'
  BY SessionAssumptions DEF SessInv, LoginUndisturbed, TableTypes, Current, login,
     GiveUp, Goto, DropGuard, Unlock
<1>8. AcceptingIsCurrent'
  BY SessionAssumptions DEF SessInv, AcceptingIsCurrent, TableTypes, Accepting, Current,
     login, GiveUp, Goto, DropGuard, Unlock
<1>9. LookupFinds'
  BY DEF SessInv, LookupFinds, TableTypes, Accepting, GiveUp, Goto, DropGuard, Unlock
<1>10. QED
  BY <1>1, <1>2, <1>3, <1>4, <1>5, <1>6, <1>7, <1>8, <1>9 DEF SessInv

\* run returns.
LEMMA EndRunKeeps ==
    ASSUME SessInv, NEW c \in Controls, EndRun(c)
    PROVE  SessInv'
<1>1. TableTypes'
  BY SessionAssumptions DEF SessInv, TableTypes, Pcs, Outside, OutsidePcs, Holders,
     login, EndRun, Goto
<1>2. HoldersHold'
  BY DEF SessInv, HoldersHold, TableTypes, Held, EndRun, Goto
<1>3. Placed'
  BY SessionAssumptions DEF SessInv, Placed, TableTypes, Before, Current, login, EndRun,
     Goto
<1>4. OldReplaced'
  BY SessionAssumptions DEF SessInv, OldReplaced, TableTypes, Before, login, EndRun,
     Goto
<1>5. GateKept'
  BY DEF SessInv, GateKept, TableTypes, Current, EndRun, Goto
<1>6. Lifecycle'
  BY DEF SessInv, Lifecycle, TableTypes, Accepting, EndRun, Goto
<1>7. LoginUndisturbed'
  BY SessionAssumptions DEF SessInv, LoginUndisturbed, TableTypes, Current, login,
     EndRun, Goto
<1>8. AcceptingIsCurrent'
  BY SessionAssumptions DEF SessInv, AcceptingIsCurrent, TableTypes, Accepting, Current,
     login, EndRun, Goto
<1>9. LookupFinds'
  BY DEF SessInv, LookupFinds, TableTypes, Accepting, EndRun, Goto
<1>10. QED
  BY <1>1, <1>2, <1>3, <1>4, <1>5, <1>6, <1>7, <1>8, <1>9 DEF SessInv

\* The Control is closed by its own task.
LEMMA ShutdownOwnKeeps ==
    ASSUME SessInv, NEW c \in Controls, ShutdownOwn(c)
    PROVE  SessInv'
<1>1. TableTypes'
  BY SessionAssumptions DEF SessInv, TableTypes, Pcs, Outside, OutsidePcs, Holders,
     login, ShutdownOwn, Goto
<1>2. HoldersHold'
  BY DEF SessInv, HoldersHold, TableTypes, Held, ShutdownOwn, Goto
<1>3. Placed'
  BY SessionAssumptions DEF SessInv, Placed, TableTypes, Before, Current, login,
     ShutdownOwn, Goto
<1>4. OldReplaced'
  BY SessionAssumptions DEF SessInv, OldReplaced, TableTypes, Before, login,
     ShutdownOwn, Goto
<1>5. GateKept'
  BY DEF SessInv, GateKept, TableTypes, Current, ShutdownOwn, Goto
<1>6. Lifecycle'
  BY DEF SessInv, Lifecycle, TableTypes, Accepting, ShutdownOwn, Goto
<1>7. LoginUndisturbed'
  BY SessionAssumptions DEF SessInv, LoginUndisturbed, TableTypes, Current, login,
     ShutdownOwn, Goto
<1>8. AcceptingIsCurrent'
  BY SessionAssumptions DEF SessInv, AcceptingIsCurrent, TableTypes, Accepting, Current,
     login, ShutdownOwn, Goto
<1>9. LookupFinds'
  BY DEF SessInv, LookupFinds, TableTypes, Accepting, ShutdownOwn, Goto
<1>10. QED
  BY <1>1, <1>2, <1>3, <1>4, <1>5, <1>6, <1>7, <1>8, <1>9 DEF SessInv

\* remove_if_current finds the gate.
LEMMA RemovePeekKeeps ==
    ASSUME SessInv, NEW c \in Controls, RemovePeek(c)
    PROVE  SessInv'
<1>1. TableTypes'
  BY DEF SessInv, TableTypes, Pcs, HoldersHold, Placed, Current, RemovePeek, Goto,
     AfterRemove, login
<1>2. HoldersHold'
  BY SessionAssumptions DEF SessInv, HoldersHold, TableTypes, Held, login, Idle,
     Outside, OutsidePcs, LoginUndisturbed, Placed, Current, RemovePeek, Goto,
     AfterRemove
<1>3. Placed'
  BY SessionAssumptions DEF SessInv, Placed, TableTypes, Before, Current, login,
     HoldersHold, RemovePeek, Goto, AfterRemove
<1>4. OldReplaced'
  BY SessionAssumptions DEF SessInv, OldReplaced, TableTypes, Before, login, RemovePeek,
     Goto, AfterRemove
<1>5. GateKept'
  BY DEF SessInv, GateKept, TableTypes, Current, RemovePeek, Goto, AfterRemove
<1>6. Lifecycle'
  BY DEF SessInv, Lifecycle, TableTypes, Accepting, RemovePeek, Goto, AfterRemove
<1>7. LoginUndisturbed'
  BY SessionAssumptions DEF SessInv, LoginUndisturbed, TableTypes, Current, login,
     RemovePeek, Goto, AfterRemove
<1>8. AcceptingIsCurrent'
  BY SessionAssumptions DEF SessInv, AcceptingIsCurrent, TableTypes, Accepting, Current,
     login, RemovePeek, Goto, AfterRemove
<1>9. LookupFinds'
  BY DEF SessInv, LookupFinds, TableTypes, Accepting, RemovePeek, Goto, AfterRemove
<1>10. QED
  BY <1>1, <1>2, <1>3, <1>4, <1>5, <1>6, <1>7, <1>8, <1>9 DEF SessInv

\* remove_if_current gets the gate.
LEMMA RemoveLockKeeps ==
    ASSUME SessInv, NEW c \in Controls, RemoveLock(c)
    PROVE  SessInv'
<1>1. TableTypes'
  BY SessionAssumptions DEF SessInv, TableTypes, Pcs, Outside, OutsidePcs, Holders,
     login, HoldersHold, LoginUndisturbed, Placed, RemoveLock, Goto, Lock
<1>2. HoldersHold'
  BY SessionAssumptions DEF SessInv, HoldersHold, TableTypes, Held, login, RemoveLock,
     Goto, Lock
<1>3. Placed'
  BY SessionAssumptions DEF SessInv, Placed, TableTypes, Before, Current, login,
     RemoveLock, Goto, Lock
<1>4. OldReplaced'
  BY SessionAssumptions DEF SessInv, OldReplaced, TableTypes, Before, login, RemoveLock,
     Goto, Lock
<1>5. GateKept'
  BY DEF SessInv, GateKept, TableTypes, Current, RemoveLock, Goto, Lock
<1>6. Lifecycle'
  BY DEF SessInv, Lifecycle, TableTypes, Accepting, RemoveLock, Goto, Lock
<1>7. LoginUndisturbed'
  BY SessionAssumptions DEF SessInv, LoginUndisturbed, TableTypes, Current, login,
     RemoveLock, Goto, Lock
<1>8. AcceptingIsCurrent'
  BY SessionAssumptions DEF SessInv, AcceptingIsCurrent, TableTypes, Accepting, Current,
     login, RemoveLock, Goto, Lock
<1>9. LookupFinds'
  BY DEF SessInv, LookupFinds, TableTypes, Accepting, RemoveLock, Goto, Lock
<1>10. QED
  BY <1>1, <1>2, <1>3, <1>4, <1>5, <1>6, <1>7, <1>8, <1>9 DEF SessInv

\* remove_if_current checks the entry again and removes it.
LEMMA RemoveKeeps ==
    ASSUME SessInv, NEW c \in Controls, Remove(c)
    PROVE  SessInv'
<1>1. TableTypes'
  BY DEF SessInv, TableTypes, Pcs, HoldersHold, Held, Placed, Remove, Goto, AfterRemove,
     DropGuard, Unlock, login
<1>2. HoldersHold'
  BY SessionAssumptions DEF SessInv, HoldersHold, TableTypes, Held, login, Remove, Goto,
     DropGuard, Unlock, AfterRemove
<1>3. Placed'
  BY SessionAssumptions DEF SessInv, Placed, TableTypes, Before, Current, login, Remove,
     Goto, DropGuard, Unlock, AfterRemove
<1>4. OldReplaced'
  BY SessionAssumptions DEF SessInv, OldReplaced, TableTypes, Before, login, Remove,
     Goto, DropGuard, Unlock, AfterRemove
<1>5. GateKept'
  BY DEF SessInv, GateKept, TableTypes, Current, Remove, Goto, DropGuard, Unlock,
     AfterRemove
<1>6. Lifecycle'
  BY DEF SessInv, Lifecycle, TableTypes, Accepting, Remove, Goto, DropGuard, Unlock,
     AfterRemove
<1>7. LoginUndisturbed'
  BY SessionAssumptions DEF SessInv, LoginUndisturbed, TableTypes, Current, login,
     HoldersHold, Held, Remove, Goto, DropGuard, Unlock, AfterRemove
<1>8. AcceptingIsCurrent'
  BY SessionAssumptions DEF SessInv, AcceptingIsCurrent, TableTypes, Accepting, Current,
     login, HoldersHold, Lifecycle, Remove, Goto, DropGuard, Unlock, AfterRemove
<1>9. LookupFinds'
  BY DEF SessInv, LookupFinds, TableTypes, Accepting, Remove, Goto, DropGuard, Unlock,
     AfterRemove
<1>10. QED
  BY <1>1, <1>2, <1>3, <1>4, <1>5, <1>6, <1>7, <1>8, <1>9 DEF SessInv

\* The agent is released.
LEMMA ReleaseAgentKeeps ==
    ASSUME SessInv, NEW c \in Controls, ReleaseAgent(c)
    PROVE  SessInv'
<1>1. TableTypes'
  BY SessionAssumptions DEF SessInv, TableTypes, Pcs, Outside, OutsidePcs, Holders,
     login, ReleaseAgent, Goto
<1>2. HoldersHold'
  BY DEF SessInv, HoldersHold, TableTypes, Held, ReleaseAgent, Goto
<1>3. Placed'
  BY SessionAssumptions DEF SessInv, Placed, TableTypes, Before, Current, login,
     ReleaseAgent, Goto
<1>4. OldReplaced'
  BY SessionAssumptions DEF SessInv, OldReplaced, TableTypes, Before, login,
     ReleaseAgent, Goto
<1>5. GateKept'
  BY DEF SessInv, GateKept, TableTypes, Current, ReleaseAgent, Goto
<1>6. Lifecycle'
  BY DEF SessInv, Lifecycle, TableTypes, Accepting, ReleaseAgent, Goto
<1>7. LoginUndisturbed'
  BY SessionAssumptions DEF SessInv, LoginUndisturbed, TableTypes, Current, login,
     ReleaseAgent, Goto
<1>8. AcceptingIsCurrent'
  BY SessionAssumptions DEF SessInv, AcceptingIsCurrent, TableTypes, Accepting, Current,
     login, ReleaseAgent, Goto
<1>9. LookupFinds'
  BY DEF SessInv, LookupFinds, TableTypes, Accepting, ReleaseAgent, Goto
<1>10. QED
  BY <1>1, <1>2, <1>3, <1>4, <1>5, <1>6, <1>7, <1>8, <1>9 DEF SessInv

\* A kick gets the gate.
LEMMA KickLockKeeps ==
    ASSUME SessInv, KickLock
    PROVE  SessInv'
<1>1. TableTypes'
  BY SessionAssumptions DEF SessInv, TableTypes, Pcs, Outside, OutsidePcs, Holders,
     login, KickLock, Lock
<1>2. HoldersHold'
  BY SessionAssumptions DEF SessInv, HoldersHold, TableTypes, Held, login, KickLock,
     Lock
<1>3. Placed'
  BY SessionAssumptions DEF SessInv, Placed, TableTypes, Before, Current, login,
     KickLock, Lock
<1>4. OldReplaced'
  BY SessionAssumptions DEF SessInv, OldReplaced, TableTypes, Before, login, KickLock,
     Lock
<1>5. GateKept'
  BY DEF SessInv, GateKept, TableTypes, Current, KickLock, Lock
<1>6. Lifecycle'
  BY DEF SessInv, Lifecycle, TableTypes, Accepting, KickLock, Lock
<1>7. LoginUndisturbed'
  BY SessionAssumptions DEF SessInv, LoginUndisturbed, TableTypes, Current, login,
     KickLock, Lock
<1>8. AcceptingIsCurrent'
  BY SessionAssumptions DEF SessInv, AcceptingIsCurrent, TableTypes, Accepting, Current,
     login, KickLock, Lock
<1>9. LookupFinds'
  BY DEF SessInv, LookupFinds, TableTypes, Accepting, KickLock, Lock
<1>10. QED
  BY <1>1, <1>2, <1>3, <1>4, <1>5, <1>6, <1>7, <1>8, <1>9 DEF SessInv

\* A kick checks that the Control is still the one it found.
LEMMA KickCheckKeeps ==
    ASSUME SessInv, KickCheck
    PROVE  SessInv'
<1>1. TableTypes'
  BY SessionAssumptions DEF SessInv, TableTypes, Pcs, Outside, OutsidePcs, Holders,
     login, KickCheck, Unlock, Idle
<1>2. HoldersHold'
  BY SessionAssumptions DEF SessInv, HoldersHold, TableTypes, Held, login, Idle,
     Outside, OutsidePcs, KickCheck, Unlock
<1>3. Placed'
  BY DEF SessInv, Placed, Current, KickCheck, Idle, login, Outside, OutsidePcs,
     TableTypes
<1>4. OldReplaced'
  BY SessionAssumptions DEF SessInv, OldReplaced, TableTypes, Before, login, KickCheck,
     Unlock, Idle
<1>5. GateKept'
  BY DEF SessInv, GateKept, Current, KickCheck, Idle, Outside, OutsidePcs, TableTypes
<1>6. Lifecycle'
  BY DEF SessInv, Lifecycle, Accepting, KickCheck, Idle, Outside, OutsidePcs, TableTypes
<1>7. LoginUndisturbed'
  BY SessionAssumptions DEF SessInv, LoginUndisturbed, TableTypes, Current, login,
     HoldersHold, Held, KickCheck, Unlock, Idle
<1>8. AcceptingIsCurrent'
  BY SessionAssumptions DEF SessInv, AcceptingIsCurrent, TableTypes, Accepting, Current,
     login, KickCheck, Unlock, Idle
<1>9. LookupFinds'
  BY DEF SessInv, LookupFinds, TableTypes, Accepting, KickCheck, Unlock, Idle
<1>10. QED
  BY <1>1, <1>2, <1>3, <1>4, <1>5, <1>6, <1>7, <1>8, <1>9 DEF SessInv

\* A kick closes the Control.
LEMMA KickControlKeeps ==
    ASSUME SessInv, KickControl
    PROVE  SessInv'
<1>1. TableTypes'
  BY SessionAssumptions DEF SessInv, TableTypes, Pcs, Outside, OutsidePcs, Holders,
     login, KickControl
<1>2. HoldersHold'
  BY DEF SessInv, HoldersHold, TableTypes, Held, KickControl
<1>3. Placed'
  BY SessionAssumptions DEF SessInv, Placed, TableTypes, Before, Current, login,
     KickControl
<1>4. OldReplaced'
  BY SessionAssumptions DEF SessInv, OldReplaced, TableTypes, Before, login, KickControl
<1>5. GateKept'
  BY DEF SessInv, GateKept, TableTypes, Current, KickControl
<1>6. Lifecycle'
  BY SessionAssumptions DEF SessInv, Lifecycle, TableTypes, Accepting, login,
     HoldersHold, Placed, Before, KickControl
<1>7. LoginUndisturbed'
  BY SessionAssumptions DEF SessInv, LoginUndisturbed, TableTypes, Current, login,
     KickControl
<1>8. AcceptingIsCurrent'
  BY SessionAssumptions DEF SessInv, AcceptingIsCurrent, TableTypes, Accepting, Current,
     login, KickControl
<1>9. LookupFinds'
  BY DEF SessInv, LookupFinds, TableTypes, Accepting, KickControl
<1>10. QED
  BY <1>1, <1>2, <1>3, <1>4, <1>5, <1>6, <1>7, <1>8, <1>9 DEF SessInv

\* A kick removes the entry.
LEMMA KickRemoveKeeps ==
    ASSUME SessInv, KickRemove
    PROVE  SessInv'
<1>1. TableTypes'
  BY SessionAssumptions DEF SessInv, TableTypes, Pcs, Outside, OutsidePcs, Holders,
     login, KickRemove
<1>2. HoldersHold'
  BY DEF SessInv, HoldersHold, TableTypes, Held, KickRemove
<1>3. Placed'
  BY SessionAssumptions DEF SessInv, Placed, TableTypes, Before, Current, login,
     KickRemove
<1>4. OldReplaced'
  BY SessionAssumptions DEF SessInv, OldReplaced, TableTypes, Before, login, KickRemove
<1>5. GateKept'
  BY DEF SessInv, GateKept, TableTypes, Current, KickRemove
<1>6. Lifecycle'
  BY DEF SessInv, Lifecycle, TableTypes, Accepting, KickRemove
<1>7. LoginUndisturbed'
  BY SessionAssumptions DEF SessInv, LoginUndisturbed, TableTypes, Current, login,
     HoldersHold, Held, GateKept, Placed, Before, KickRemove
<1>8. AcceptingIsCurrent'
  BY SessionAssumptions DEF SessInv, AcceptingIsCurrent, TableTypes, Accepting, Current,
     login, HoldersHold, Lifecycle, KickRemove
<1>9. LookupFinds'
  BY DEF SessInv, LookupFinds, TableTypes, Accepting, KickRemove
<1>10. QED
  BY <1>1, <1>2, <1>3, <1>4, <1>5, <1>6, <1>7, <1>8, <1>9 DEF SessInv

\* A kick drops its guard.
LEMMA KickUnlockKeeps ==
    ASSUME SessInv, KickUnlock
    PROVE  SessInv'
<1>1. TableTypes'
  BY SessionAssumptions DEF SessInv, TableTypes, Pcs, Outside, OutsidePcs, Holders,
     login, KickUnlock, Unlock
<1>2. HoldersHold'
  BY SessionAssumptions DEF SessInv, HoldersHold, TableTypes, Held, login, KickUnlock,
     Unlock
<1>3. Placed'
  BY SessionAssumptions DEF SessInv, Placed, TableTypes, Before, Current, login,
     KickUnlock, Unlock
<1>4. OldReplaced'
  BY SessionAssumptions DEF SessInv, OldReplaced, TableTypes, Before, login, KickUnlock,
     Unlock
<1>5. GateKept'
  BY DEF SessInv, GateKept, TableTypes, Current, KickUnlock, Unlock
<1>6. Lifecycle'
  BY DEF SessInv, Lifecycle, TableTypes, Accepting, KickUnlock, Unlock
<1>7. LoginUndisturbed'
  BY SessionAssumptions DEF SessInv, LoginUndisturbed, TableTypes, Current, login,
     HoldersHold, Held, KickUnlock, Unlock
<1>8. AcceptingIsCurrent'
  BY SessionAssumptions DEF SessInv, AcceptingIsCurrent, TableTypes, Accepting, Current,
     login, KickUnlock, Unlock
<1>9. LookupFinds'
  BY DEF SessInv, LookupFinds, TableTypes, Accepting, KickUnlock, Unlock
<1>10. QED
  BY <1>1, <1>2, <1>3, <1>4, <1>5, <1>6, <1>7, <1>8, <1>9 DEF SessInv

\* A kick releases the agent.
LEMMA KickReleaseKeeps ==
    ASSUME SessInv, KickRelease
    PROVE  SessInv'
<1>1. TableTypes'
  BY SessionAssumptions DEF SessInv, TableTypes, Pcs, Outside, OutsidePcs, Holders,
     login, KickRelease, Idle
<1>2. HoldersHold'
  BY DEF SessInv, HoldersHold, TableTypes, Held, KickRelease, Idle
<1>3. Placed'
  BY SessionAssumptions DEF SessInv, Placed, TableTypes, Before, Current, login,
     KickRelease, Idle
<1>4. OldReplaced'
  BY SessionAssumptions DEF SessInv, OldReplaced, TableTypes, Before, login,
     KickRelease, Idle
<1>5. GateKept'
  BY DEF SessInv, GateKept, TableTypes, Current, KickRelease, Idle
<1>6. Lifecycle'
  BY DEF SessInv, Lifecycle, TableTypes, Accepting, KickRelease, Idle
<1>7. LoginUndisturbed'
  BY SessionAssumptions DEF SessInv, LoginUndisturbed, TableTypes, Current, login,
     KickRelease, Idle
<1>8. AcceptingIsCurrent'
  BY SessionAssumptions DEF SessInv, AcceptingIsCurrent, TableTypes, Accepting, Current,
     login, KickRelease, Idle
<1>9. LookupFinds'
  BY DEF SessInv, LookupFinds, TableTypes, Accepting, KickRelease, Idle
<1>10. QED
  BY <1>1, <1>2, <1>3, <1>4, <1>5, <1>6, <1>7, <1>8, <1>9 DEF SessInv

\* The request of a kick is dropped.
LEMMA KickCancelledKeeps ==
    ASSUME SessInv, KickCancelled
    PROVE  SessInv'
<1>1. TableTypes'
  BY SessionAssumptions DEF SessInv, TableTypes, Pcs, Outside, OutsidePcs, Holders,
     login, KickCancelled, Unlock, Idle
<1>2. HoldersHold'
  BY SessionAssumptions DEF SessInv, HoldersHold, TableTypes, Held, login,
     KickCancelled, Unlock, Idle
<1>3. Placed'
  BY SessionAssumptions DEF SessInv, Placed, TableTypes, Before, Current, login,
     KickCancelled, Unlock, Idle
<1>4. OldReplaced'
  BY SessionAssumptions DEF SessInv, OldReplaced, TableTypes, Before, login,
     KickCancelled, Unlock, Idle
<1>5. GateKept'
  BY DEF SessInv, GateKept, TableTypes, Current, KickCancelled, Unlock, Idle
<1>6. Lifecycle'
  BY DEF SessInv, Lifecycle, TableTypes, Accepting, KickCancelled, Unlock, Idle
<1>7. LoginUndisturbed'
  BY SessionAssumptions DEF SessInv, LoginUndisturbed, TableTypes, Current, login,
     HoldersHold, Held, KickCancelled, Unlock, Idle
<1>8. AcceptingIsCurrent'
  BY SessionAssumptions DEF SessInv, AcceptingIsCurrent, TableTypes, Accepting, Current,
     login, KickCancelled, Unlock, Idle
<1>9. LookupFinds'
  BY DEF SessInv, LookupFinds, TableTypes, Accepting, KickCancelled, Unlock, Idle
<1>10. QED
  BY <1>1, <1>2, <1>3, <1>4, <1>5, <1>6, <1>7, <1>8, <1>9 DEF SessInv

\* A lookup gets the gate.
LEMMA LookLockKeeps ==
    ASSUME SessInv, LookLock
    PROVE  SessInv'
<1>1. TableTypes'
  BY SessionAssumptions DEF SessInv, TableTypes, Pcs, Outside, OutsidePcs, Holders,
     login, LookLock, Lock
<1>2. HoldersHold'
  BY SessionAssumptions DEF SessInv, HoldersHold, TableTypes, Held, login, LookLock,
     Lock
<1>3. Placed'
  BY SessionAssumptions DEF SessInv, Placed, TableTypes, Before, Current, login,
     LookLock, Lock
<1>4. OldReplaced'
  BY SessionAssumptions DEF SessInv, OldReplaced, TableTypes, Before, login, LookLock,
     Lock
<1>5. GateKept'
  BY DEF SessInv, GateKept, TableTypes, Current, LookLock, Lock
<1>6. Lifecycle'
  BY DEF SessInv, Lifecycle, TableTypes, Accepting, LookLock, Lock
<1>7. LoginUndisturbed'
  BY SessionAssumptions DEF SessInv, LoginUndisturbed, TableTypes, Current, login,
     LookLock, Lock
<1>8. AcceptingIsCurrent'
  BY SessionAssumptions DEF SessInv, AcceptingIsCurrent, TableTypes, Accepting, Current,
     login, LookLock, Lock
<1>9. LookupFinds'
  BY DEF SessInv, LookupFinds, TableTypes, Accepting, LookLock, Lock
<1>10. QED
  BY <1>1, <1>2, <1>3, <1>4, <1>5, <1>6, <1>7, <1>8, <1>9 DEF SessInv

\* A lookup checks the entry again.
LEMMA LookCheckKeeps ==
    ASSUME SessInv, LookCheck
    PROVE  SessInv'
<1>1. TableTypes'
  BY SessionAssumptions DEF SessInv, TableTypes, Pcs, Outside, OutsidePcs, Holders,
     login, HoldersHold, LoginUndisturbed, Placed, LookCheck, Unlock
<1>2. HoldersHold'
  BY SessionAssumptions DEF SessInv, HoldersHold, TableTypes, Held, login, LookCheck,
     Unlock
<1>3. Placed'
  BY SessionAssumptions DEF SessInv, Placed, TableTypes, Before, Current, login,
     LookCheck, Unlock
<1>4. OldReplaced'
  BY SessionAssumptions DEF SessInv, OldReplaced, TableTypes, Before, login, LookCheck,
     Unlock
<1>5. GateKept'
  BY DEF SessInv, GateKept, TableTypes, Current, LookCheck, Unlock
<1>6. Lifecycle'
  BY DEF SessInv, Lifecycle, TableTypes, Accepting, LookCheck, Unlock
<1>7. LoginUndisturbed'
  BY SessionAssumptions DEF SessInv, LoginUndisturbed, TableTypes, Current, login,
     HoldersHold, Held, LookCheck, Unlock
<1>8. AcceptingIsCurrent'
  BY SessionAssumptions DEF SessInv, AcceptingIsCurrent, TableTypes, Accepting, Current,
     login, LookCheck, Unlock
<1>9. LookupFinds'
  BY SessionAssumptions DEF SessInv, LookupFinds, TableTypes, Accepting, login,
     HoldersHold, Lifecycle, Placed, AcceptingIsCurrent, LoginUndisturbed, Held,
     GateKept, Current, LookCheck, Unlock
<1>10. QED
  BY <1>1, <1>2, <1>3, <1>4, <1>5, <1>6, <1>7, <1>8, <1>9 DEF SessInv

\* A lookup is over.
LEMMA LookEndKeeps ==
    ASSUME SessInv, LookEnd
    PROVE  SessInv'
<1>1. TableTypes'
  BY SessionAssumptions DEF SessInv, TableTypes, Pcs, Outside, OutsidePcs, Holders,
     login, LookEnd, Idle
<1>2. HoldersHold'
  BY DEF SessInv, HoldersHold, TableTypes, Held, LookEnd, Idle
<1>3. Placed'
  BY SessionAssumptions DEF SessInv, Placed, TableTypes, Before, Current, login,
     LookEnd, Idle
<1>4. OldReplaced'
  BY SessionAssumptions DEF SessInv, OldReplaced, TableTypes, Before, login, LookEnd,
     Idle
<1>5. GateKept'
  BY DEF SessInv, GateKept, TableTypes, Current, LookEnd, Idle
<1>6. Lifecycle'
  BY DEF SessInv, Lifecycle, TableTypes, Accepting, LookEnd, Idle
<1>7. LoginUndisturbed'
  BY SessionAssumptions DEF SessInv, LoginUndisturbed, TableTypes, Current, login,
     LookEnd, Idle
<1>8. AcceptingIsCurrent'
  BY SessionAssumptions DEF SessInv, AcceptingIsCurrent, TableTypes, Accepting, Current,
     login, LookEnd, Idle
<1>9. LookupFinds'
  BY DEF SessInv, LookupFinds, TableTypes, Accepting, LookEnd, Idle
<1>10. QED
  BY <1>1, <1>2, <1>3, <1>4, <1>5, <1>6, <1>7, <1>8, <1>9 DEF SessInv

\* A kick finds the entry.
LEMMA KickPeekKeeps ==
    ASSUME SessInv, NEW s \in Sids, KickPeek(s)
    PROVE  SessInv'
<1>1. TableTypes'
  BY SessionAssumptions DEF SessInv, TableTypes, Pcs, Outside, OutsidePcs, Holders,
     login, KickPeek, Idle
<1>2. HoldersHold'
  BY DEF SessInv, HoldersHold, TableTypes, Held, KickPeek, Idle
<1>3. Placed'
  BY SessionAssumptions DEF SessInv, Placed, TableTypes, Before, Current, login,
     KickPeek, Idle
<1>4. OldReplaced'
  BY SessionAssumptions DEF SessInv, OldReplaced, TableTypes, Before, login, KickPeek,
     Idle
<1>5. GateKept'
  BY DEF SessInv, GateKept, TableTypes, Current, KickPeek, Idle
<1>6. Lifecycle'
  BY DEF SessInv, Lifecycle, TableTypes, Accepting, KickPeek, Idle
<1>7. LoginUndisturbed'
  BY SessionAssumptions DEF SessInv, LoginUndisturbed, TableTypes, Current, login,
     KickPeek, Idle
<1>8. AcceptingIsCurrent'
  BY SessionAssumptions DEF SessInv, AcceptingIsCurrent, TableTypes, Accepting, Current,
     login, KickPeek, Idle
<1>9. LookupFinds'
  BY DEF SessInv, LookupFinds, TableTypes, Accepting, KickPeek, Idle
<1>10. QED
  BY <1>1, <1>2, <1>3, <1>4, <1>5, <1>6, <1>7, <1>8, <1>9 DEF SessInv

\* A lookup finds the entry.
LEMMA LookPeekKeeps ==
    ASSUME SessInv, NEW s \in Sids, LookPeek(s)
    PROVE  SessInv'
<1>1. TableTypes'
  BY SessionAssumptions DEF SessInv, TableTypes, Pcs, Outside, OutsidePcs, Holders,
     login, LookPeek
<1>2. HoldersHold'
  BY DEF SessInv, HoldersHold, TableTypes, Held, LookPeek
<1>3. Placed'
  BY SessionAssumptions DEF SessInv, Placed, TableTypes, Before, Current, login,
     LookPeek
<1>4. OldReplaced'
  BY SessionAssumptions DEF SessInv, OldReplaced, TableTypes, Before, login, LookPeek
<1>5. GateKept'
  BY SessionAssumptions DEF SessInv, GateKept, TableTypes, Current, login, HoldersHold,
     Placed, Before, OldReplaced, LoginUndisturbed, Held, LookPeek
<1>6. Lifecycle'
  BY DEF SessInv, Lifecycle, TableTypes, Accepting, LookPeek
<1>7. LoginUndisturbed'
  BY SessionAssumptions DEF SessInv, LoginUndisturbed, TableTypes, Current, login,
     LookPeek
<1>8. AcceptingIsCurrent'
  BY SessionAssumptions DEF SessInv, AcceptingIsCurrent, TableTypes, Accepting, Current,
     login, LookPeek
<1>9. LookupFinds'
  BY DEF SessInv, LookupFinds, TableTypes, Accepting, LookPeek
<1>10. QED
  BY <1>1, <1>2, <1>3, <1>4, <1>5, <1>6, <1>7, <1>8, <1>9 DEF SessInv

\* The invariant holds before the first login.
LEMMA InitHolds == Init => SessInv
  BY SessionAssumptions
     DEF Init, SessInv, TableTypes, HoldersHold, Placed, OldReplaced, GateKept, Lifecycle,
     LoginUndisturbed, AcceptingIsCurrent, LookupFinds, Current, Accepting, Before, Held,
     Idle, Pcs, Outside, OutsidePcs, Holders

\* Every step keeps the invariant.
LEMMA StepKeeps == SessInv /\ [Next]_vars => SessInv'
<1>1. SUFFICES ASSUME SessInv, [Next]_vars
               PROVE  SessInv'
  OBVIOUS
<1>2. ASSUME NEW c \in Controls, Login(c) \/ EndRun(c) \/ LoginStep(c)
      PROVE  SessInv'
  BY <1>1, <1>2, LoginKeeps, EndRunKeeps, PeekGateKeeps, LockGateKeeps, SwapInKeeps,
     ShutdownOldKeeps, GoOnlineKeeps, SendLoginOkKeeps, GiveUpKeeps, ShutdownOwnKeeps,
     RemovePeekKeeps, RemoveLockKeeps, RemoveKeeps, ReleaseAgentKeeps
     DEF LoginStep
<1>3. ASSUME NEW s \in Sids, KickPeek(s) \/ LookPeek(s)
      PROVE  SessInv'
  BY <1>1, <1>3, KickPeekKeeps, LookPeekKeeps
<1>4. CASE KickStep \/ KickCancelled
  BY <1>1, <1>4, KickLockKeeps, KickCheckKeeps, KickControlKeeps, KickRemoveKeeps,
     KickUnlockKeeps, KickReleaseKeeps, KickCancelledKeeps DEF KickStep
<1>5. CASE LookStep
  BY <1>1, <1>5, LookLockKeeps, LookCheckKeeps, LookEndKeeps DEF LookStep
<1>6. CASE UNCHANGED vars
  BY <1>1, <1>6
     DEF vars, login, agents, SessInv, TableTypes, HoldersHold, Placed, OldReplaced, GateKept,
     Lifecycle, LoginUndisturbed, AcceptingIsCurrent, LookupFinds, Current, Accepting
<1>7. Kicked \subseteq Sids /\ Dialed \subseteq Sids
  BY SessionAssumptions
<1>8. QED
  BY <1>1, <1>2, <1>3, <1>4, <1>5, <1>6, <1>7 DEF Next

\* The session table stays consistent: who thinks that it holds a gate holds it, a
\* Control is listed once and under the session id of its login, and what a kick or
\* a lookup found belongs together (session_table.rs).
THEOREM TableConsistent == Spec => []SessInv
<1>1. Init => SessInv
  BY InitHolds
<1>2. SessInv /\ [Next]_vars => SessInv'
  BY StepKeeps
<1>3. QED
  BY <1>1, <1>2, PTL DEF Spec

\* From its entry into the table to its end, nobody replaces or removes a login
\* (swap_in_locked looks at the entry again once it holds the gate).
THEOREM LoginsAreUndisturbed == Spec => []LoginUndisturbed
<1>1. SessInv => LoginUndisturbed
  BY DEF SessInv
<1>2. QED
  BY <1>1, TableConsistent, PTL

\* A Control that accepts data connections is in the table, or the login that took
\* its place is about to close it (register_control).
THEOREM AcceptingAreCurrent == Spec => []AcceptingIsCurrent
<1>1. SessInv => AcceptingIsCurrent
  BY DEF SessInv
<1>2. QED
  BY <1>1, TableConsistent, PTL

\* lookup_accepting never refuses a data connection of a Control that was accepting
\* when the lookup began and still is.
THEOREM LookupsFind == Spec => []LookupFinds
<1>1. SessInv => LookupFinds
  BY DEF SessInv
<1>2. QED
  BY <1>1, TableConsistent, PTL

\* try_online keeps the types of the agent registry's two maps.
LEMMA TryOnlineTypes ==
    ASSUME AgentTypes, NEW s \in Sids, NEW a \in Agents \cup {NoAgent}, NEW c \in Controls,
           TryOnline(s, a, c)
    PROVE  AgentTypes'
<1>1. Key(s, a) \in Keys
  BY DEF Key, Keys
<1>2. LeaveOldKey(s, Key(s, a)) \in [Keys -> AgentEntries \cup {None}]
  <2>1. ASSUME NEW e \in AgentEntries PROVE SetOffline(e) \in AgentEntries
    BY DEF SetOffline, AgentEntries
  <2>2. QED
    BY <2>1 DEF AgentTypes, LeaveOldKey
<1>3. [ses |-> s, gen |-> c, online |-> TRUE, explicit |-> a # NoAgent] \in AgentEntries
  BY DEF AgentEntries
<1>4. byKey' \in [Keys -> AgentEntries \cup {None}]
  BY <1>1, <1>2, <1>3 DEF TryOnline
<1>5. bySes' \in [Sids -> Keys \cup {None}]
  BY <1>1 DEF TryOnline, AgentTypes
<1>6. QED
  BY <1>4, <1>5 DEF AgentTypes

\* release keeps the types of the agent registry's two maps.
LEMMA ReleaseTypes ==
    ASSUME AgentTypes, NEW s \in Sids, NEW c \in Controls, Release(s, c)
    PROVE  AgentTypes'
<1>1. ASSUME NEW e \in AgentEntries PROVE SetOffline(e) \in AgentEntries
  BY DEF SetOffline, AgentEntries
<1>2. QED
  BY <1>1 DEF Release, AgentTypes, agents

\* Every variable keeps its type.
THEOREM TypeCorrect == Spec => []TypeOK
<1>1. Init => AgentTypes
  BY DEF Init, AgentTypes
<1>2. SessInv /\ AgentTypes /\ [Next]_vars => AgentTypes'
  <2>1. SUFFICES ASSUME SessInv, AgentTypes, [Next]_vars
                 PROVE  AgentTypes'
    OBVIOUS
  <2>2. ASSUME NEW c \in Controls, GoOnline(c) \/ SendLoginOk(c) \/ ReleaseAgent(c)
        PROVE  AgentTypes'
    <3>1. sid[c] \in Sids /\ agt[c] \in Agents \cup {NoAgent}
      BY <2>1, <2>2 DEF SessInv, TableTypes, Placed, GoOnline, SendLoginOk, ReleaseAgent
    <3>2. UNCHANGED agents => AgentTypes'
      BY <2>1 DEF AgentTypes, agents
    <3>3. QED
      BY <2>1, <2>2, <3>1, <3>2, TryOnlineTypes, ReleaseTypes
         DEF GoOnline, SendLoginOk, ReleaseAgent
  <2>3. CASE KickRelease
    <3>1. kick.sid \in Sids /\ kick.ctl \in Controls
      BY <2>1, <2>3 DEF SessInv, HoldersHold, KickRelease
    <3>2. QED
      BY <2>1, <2>3, <3>1, ReleaseTypes DEF KickRelease
  <2>4. CASE UNCHANGED agents
    BY <2>1, <2>4 DEF AgentTypes, agents
  <2>5. ASSUME NEW c \in Controls, Login(c) \/ EndRun(c) \/ LoginStep(c)
        PROVE  AgentTypes'
    BY <2>2, <2>4, <2>5
       DEF LoginStep, Login, EndRun, PeekGate, LockGate, SwapIn, ShutdownOld, GiveUp,
       ShutdownOwn, RemovePeek, RemoveLock, Remove
  <2>6. ASSUME NEW s, KickPeek(s) \/ LookPeek(s)
        PROVE  AgentTypes'
    BY <2>4, <2>6 DEF KickPeek, LookPeek
  <2>7. CASE KickStep \/ KickCancelled \/ LookStep
    BY <2>3, <2>4, <2>7
       DEF KickStep, LookStep, KickLock, KickCheck, KickControl, KickRemove, KickUnlock,
       KickCancelled, LookLock, LookCheck, LookEnd
  <2>8. CASE UNCHANGED vars
    BY <2>4, <2>8 DEF vars, agents
  <2>9. QED
    BY <2>1, <2>5, <2>6, <2>7, <2>8 DEF Next
<1>3. SessInv /\ AgentTypes => TypeOK
  BY DEF SessInv, TypeOK
<1>4. QED
  BY <1>1, <1>2, <1>3, TableConsistent, PTL DEF Spec

-----------------------------------------------------------------------------
(* The agent registry.  by_session is cleared for the session an agent was *)
(* last on, also when that session is online as another agent; so what is  *)
(* said of agents holds where sessions that share an agent keep to it.     *)

\* An agent id that two sessions log in with is the only one they log in with.
SharedAgentsStay ==
    \A l, m, n \in Logins :
        l[1] = m[1] /\ l[2] # m[2] /\ l[2] # NoAgent /\ n[2] = l[2] => n[1] = l[1]

\* Session s may be known under key k.
Uses(s, k) == \E l \in Logins : l[1] = s /\ Key(l[1], l[2]) = k

\* The same about keys: a session known under two keys has both to itself.
KeysApart ==
    \A s, t \in Sids : \A k, j \in Keys : Uses(s, k) /\ Uses(s, j) /\ Uses(t, k) /\ k # j => s = t

Online(k) == byKey[k] # None /\ byKey[k].online

\* The maps of the registry agree about agents that are online, and with the logins.
RegistryAgrees ==
    /\ \A c \in Controls : pc[c] # "new" => <<sid[c], agt[c]>> \in Logins
    /\ \A k \in Keys : byKey[k] # None => Uses(byKey[k].ses, k)
    /\ \A k \in Keys : Online(k) =>
          /\ bySes[byKey[k].ses] = k
          /\ byKey[k].gen \in Controls
          /\ sid[byKey[k].gen] = byKey[k].ses
          /\ pc[byKey[k].gen] = "loginOk" \/ active[byKey[k].gen]

\* Who has left the table does not come back, and has no more to do with it.
ListedIsThere ==
    \A s \in Sids : \A c \in Controls : Current(s, c) => pc[c] \notin Before \cup {"release", "close", "done"}

\* Somebody will take the agent of c offline or over: c, which is in the table or was
\* just removed, the kick that removed it, or the login that took its place.
Attended(c) ==
    \/ Current(sid[c], c)
    \/ pc[c] = "release"
    \/ kick.ctl = c /\ kick.pc \in {"drop", "release"}
    \/ \E d \in Controls : sid[d] = sid[c] /\ pc[d] \in {"closeOld", "online"}

AgentsAttended == \A k \in Keys : Online(k) => Attended(byKey[k].gen)

AgentInv == AgentTypes /\ RegistryAgrees /\ ListedIsThere /\ AgentsAttended

LEMMA KeysStayApart == ASSUME SharedAgentsStay PROVE KeysApart
<1>1. SUFFICES ASSUME NEW s \in Sids, NEW t \in Sids, NEW k \in Keys, NEW j \in Keys,
                      Uses(s, k), Uses(s, j), Uses(t, k), k # j
               PROVE  s = t
  BY DEF KeysApart
<1>2. PICK l \in Logins : l[1] = s /\ Key(l[1], l[2]) = k
  BY <1>1 DEF Uses
<1>3. PICK m \in Logins : m[1] = s /\ Key(m[1], m[2]) = j
  BY <1>1 DEF Uses
<1>4. PICK n \in Logins : n[1] = t /\ Key(n[1], n[2]) = k
  BY <1>1 DEF Uses
<1>5. l[2] \in Agents \cup {NoAgent} /\ n[2] \in Agents \cup {NoAgent}
  BY SessionAssumptions
<1>6. CASE l[2] = NoAgent
  BY <1>2, <1>4, <1>5, <1>6, SessionAssumptions DEF Key
<1>7. CASE l[2] # NoAgent
  <2>1. n[2] = l[2]
    BY <1>2, <1>4, <1>5, <1>7, SessionAssumptions DEF Key
  <2>2. l[2] # m[2]
    BY <1>1, <1>2, <1>3 DEF Key
  <2>3. QED
    BY <1>2, <1>3, <1>4, <1>7, <2>1, <2>2 DEF SharedAgentsStay
<1>8. QED
  BY <1>6, <1>7

\* What try_online leaves online: the agent of the login, and those of other sessions.
LEMMA TryOnlineLeaves ==
    ASSUME KeysApart, AgentTypes, RegistryAgrees, NEW s \in Sids, NEW a \in Agents \cup {NoAgent},
           NEW c \in Controls, <<s, a>> \in Logins, TryOnline(s, a, c)
    PROVE  LET k == Key(s, a) IN
           /\ k \in Keys /\ byKey'[k].ses = s /\ byKey'[k].gen = c /\ bySes'[s] = k
           /\ \A j \in Keys \ {k} : byKey'[j] # None => byKey[j] # None /\ byKey'[j].ses = byKey[j].ses
           /\ \A j \in Keys \ {k} : Online(j)' =>
                 Online(j) /\ byKey'[j] = byKey[j] /\ byKey[j].ses # s
                 /\ bySes'[byKey[j].ses] = j
<1> DEFINE k == Key(s, a)
           left == LeaveOldKey(s, k)
           p == bySes[s]
<1>1. k \in Keys /\ p \in Keys \cup {None} /\ Uses(s, k)
  BY DEF Key, Keys, AgentTypes, Uses
<1>2. left \in [Keys -> AgentEntries \cup {None}]
  <2>1. ASSUME NEW e \in AgentEntries PROVE SetOffline(e) \in AgentEntries
    BY DEF SetOffline, AgentEntries
  <2>2. QED
    BY <1>1, <2>1 DEF AgentTypes, LeaveOldKey
<1>3. ASSUME NEW j \in Keys, left[j] # None
      PROVE  byKey[j] # None /\ left[j].ses = byKey[j].ses
  <2>1. ASSUME NEW e \in AgentEntries PROVE SetOffline(e).ses = e.ses
    BY DEF SetOffline, AgentEntries
  <2>2. QED
    BY <1>1, <1>3, <2>1 DEF AgentTypes, LeaveOldKey
<1>4. ASSUME NEW j \in Keys \ {k}, left[j] # None, left[j].online
      PROVE  Online(j) /\ left[j] = byKey[j] /\ byKey[j].ses # s
  <2>1. ASSUME NEW e \in AgentEntries PROVE SetOffline(e).online = FALSE
    BY DEF SetOffline, AgentEntries
  <2>2. left[j] = byKey[j]
    BY <1>1, <1>4, <2>1 DEF AgentTypes, LeaveOldKey
  <2>3. Online(j)
    BY <1>4, <2>2 DEF Online
  <2>4. ASSUME byKey[j].ses = s PROVE FALSE
    <3>1. p = j
      BY <2>3, <2>4 DEF RegistryAgrees
    <3>2. p \notin {None, k} /\ byKey[p] # None /\ byKey[p].ses = s
      BY <1>4, <2>3, <2>4, <3>1, SessionAssumptions DEF Online, Keys
    <3>3. left[j] \in {None, SetOffline(byKey[j])}
      BY <3>1, <3>2 DEF LeaveOldKey, AgentTypes
    <3>4. QED
      BY <1>4, <2>1, <2>3, <3>3 DEF Online, AgentTypes
  <2>5. QED
    BY <2>2, <2>3, <2>4
<1>5. byKey' = [left EXCEPT ![k] = [ses |-> s, gen |-> c, online |-> TRUE, explicit |-> a # NoAgent]]
  BY DEF TryOnline
<1>6. \A r \in Sids : bySes'[r] = CASE r = s -> k
                                    [] r # s /\ left[k] # None /\ left[k].ses = r -> None
                                    [] OTHER -> bySes[r]
  BY DEF TryOnline
<1>7. ASSUME NEW j \in Keys \ {k}, Online(j)'
      PROVE  Online(j) /\ byKey'[j] = byKey[j] /\ byKey[j].ses # s /\ bySes'[byKey[j].ses] = j
  <2>1. byKey'[j] = left[j]
    BY <1>1, <1>2, <1>5
  <2>2. Online(j) /\ left[j] = byKey[j] /\ byKey[j].ses # s
    BY <1>4, <1>7, <2>1 DEF Online
  <2>3. byKey[j].ses \in Sids /\ bySes[byKey[j].ses] = j /\ Uses(byKey[j].ses, j)
    BY <2>2 DEF RegistryAgrees, Online, AgentTypes, AgentEntries
  <2>4. ASSUME left[k] # None, left[k].ses = byKey[j].ses PROVE FALSE
    <3>1. Uses(byKey[j].ses, k)
      BY <1>1, <1>3, <2>4 DEF RegistryAgrees
    <3>2. QED
      BY <1>1, <2>2, <2>3, <3>1 DEF KeysApart
  <2>5. QED
    BY <1>6, <2>1, <2>2, <2>3, <2>4
<1>8. byKey'[k].ses = s /\ byKey'[k].gen = c /\ bySes'[s] = k
  BY <1>1, <1>2, <1>5, <1>6
<1>9. ASSUME NEW j \in Keys \ {k}, byKey'[j] # None
      PROVE  byKey[j] # None /\ byKey'[j].ses = byKey[j].ses
  BY <1>1, <1>2, <1>3, <1>5, <1>9
<1>10. QED
  BY <1>1, <1>7, <1>8, <1>9

\* What release leaves online: everything that is not the agent of that login.
LEMMA ReleaseLeaves ==
    ASSUME AgentTypes, RegistryAgrees, NEW c \in Controls, sid[c] \in Sids, Release(sid[c], c)
    PROVE  /\ \A j \in Keys : byKey'[j] # None => byKey[j] # None /\ byKey'[j].ses = byKey[j].ses
           /\ \A j \in Keys : Online(j)' =>
                 Online(j) /\ byKey'[j] = byKey[j] /\ byKey[j].gen # c /\ bySes'[byKey[j].ses] = j
<1> DEFINE s == sid[c]
           k == bySes[s]
<1>1. ASSUME NEW e \in AgentEntries
      PROVE  SetOffline(e).ses = e.ses /\ SetOffline(e).online = FALSE
  BY DEF SetOffline, AgentEntries
<1>2. ASSUME NEW j \in Keys, Online(j)
      PROVE  /\ byKey[j] # None /\ byKey[j].ses \in Sids /\ bySes[byKey[j].ses] = j
             /\ byKey[j].gen = c => byKey[j].ses = s
  BY <1>2 DEF RegistryAgrees, Online, AgentTypes, AgentEntries
<1>3. CASE k = None
  <2>1. byKey' = byKey /\ bySes' = bySes
    BY <1>3 DEF Release, agents
  <2>2. QED
    BY <1>2, <1>3, <2>1, SessionAssumptions DEF Online, Keys
<1>4. CASE k # None /\ byKey[k] = None
  <2>1. byKey' = byKey /\ bySes' = [bySes EXCEPT ![s] = None]
    BY <1>4 DEF Release, agents
  <2>2. \A j \in Keys : Online(j) => byKey[j].ses # s
    BY <1>2, <1>4
  <2>3. QED
    BY <1>2, <1>4, <2>1, <2>2 DEF Online, AgentTypes
<1>5. CASE k # None /\ byKey[k] # None /\ (byKey[k].ses # s \/ byKey[k].gen # c)
  <2>1. byKey' = byKey /\ bySes' = bySes
    BY <1>5 DEF Release, agents
  <2>2. QED
    BY <1>2, <1>5, <2>1 DEF Online
<1>6. CASE k # None /\ byKey[k] # None /\ byKey[k].ses = s /\ byKey[k].gen = c
  <2>1. /\ bySes' = [bySes EXCEPT ![s] = None]
        /\ byKey' = [byKey EXCEPT ![k] = IF byKey[k].explicit THEN SetOffline(byKey[k]) ELSE None]
    BY <1>6 DEF Release
  <2>2. k \in Keys /\ byKey[k] \in AgentEntries
    BY <1>6 DEF AgentTypes
  <2>3. \A j \in Keys \ {k} : byKey'[j] = byKey[j]
    BY <2>1, <2>2 DEF AgentTypes
  <2>4. byKey'[k] \in {None, SetOffline(byKey[k])}
    BY <2>1, <2>2 DEF AgentTypes
  <2>5. ~(byKey'[k] # None /\ byKey'[k].online)
    BY <1>1, <2>2, <2>4
  <2>6. ASSUME NEW j \in Keys, byKey'[j] # None
        PROVE  byKey[j] # None /\ byKey'[j].ses = byKey[j].ses
    BY <1>1, <1>6, <2>2, <2>3, <2>4, <2>6
  <2>7. ASSUME NEW j \in Keys, Online(j)'
        PROVE  Online(j) /\ byKey'[j] = byKey[j] /\ byKey[j].gen # c /\ bySes'[byKey[j].ses] = j
    <3>1. j # k /\ Online(j) /\ byKey'[j] = byKey[j]
      BY <2>3, <2>5, <2>7 DEF Online
    <3>2. byKey[j].ses # s
      BY <1>2, <3>1
    <3>3. QED
      BY <1>2, <2>1, <3>1, <3>2 DEF AgentTypes
  <2>8. QED
    BY <2>6, <2>7
<1>7. QED
  BY <1>3, <1>4, <1>5, <1>6

LEMMA ListedStep == SessInv /\ ListedIsThere /\ [Next]_vars => ListedIsThere'
<1> SUFFICES ASSUME SessInv, ListedIsThere, [Next]_vars PROVE ListedIsThere'
  OBVIOUS
<1>1. TableTypes /\ Placed
  BY DEF SessInv
<1>2. ASSUME UNCHANGED tbl,
             \A c \in Controls : \/ pc'[c] = pc[c] \/ pc'[c] \notin Before \cup {"release", "close", "done"}
                                 \/ pc[c] \in Before \cup {"release", "close", "done"}
                                 \/ ~Current(sid[c], c)
      PROVE  ListedIsThere'
  BY <1>1, <1>2 DEF ListedIsThere, Current, Placed
<1>3. ASSUME NEW c \in Controls, Login(c) \/ EndRun(c) \/ LoginStep(c) PROVE ListedIsThere'
  <2>1. CASE Login(c) \/ PeekGate(c) \/ LockGate(c)
    BY <1>1, <1>2, <2>1 DEF Login, PeekGate, LockGate, Goto, Before, TableTypes
  <2>2. CASE SwapIn(c)
    <3>1. sid[c] \in Sids /\ pc[c] \in Before
      BY <1>1, <2>2 DEF SwapIn, Placed, Before
    <3>2. CASE GateIsStale(c)
      BY <1>1, <1>2, <2>2, <3>1, <3>2 DEF SwapIn, Goto, Before, TableTypes
    <3>3. CASE ~GateIsStale(c)
      <4>1. /\ tbl' = [tbl EXCEPT ![sid[c]] = [ctl |-> c, gate |-> gate[c]]]
            /\ pc'[c] \in {"online", "closeOld"} /\ \A d \in Controls \ {c} : pc'[d] = pc[d]
        BY <1>1, <2>2, <3>3 DEF SwapIn, Goto, TableTypes
      <4>2. QED
        BY <1>1, <3>1, <4>1 DEF ListedIsThere, Current, Before, TableTypes
    <3>4. QED
      BY <3>2, <3>3
  <2>3. CASE ShutdownOld(c) \/ GoOnline(c) \/ SendLoginOk(c) \/ GiveUp(c) \/ EndRun(c) \/ RemoveLock(c)
             \/ ReleaseAgent(c) \/ ShutdownOwn(c)
    BY <1>1, <1>2, <2>3
       DEF ShutdownOld, GoOnline, SendLoginOk, GiveUp, EndRun, RemoveLock, ReleaseAgent, ShutdownOwn,
       Goto, Before, TableTypes
  <2>4. CASE RemovePeek(c)
    BY <1>1, <1>2, <2>4 DEF RemovePeek, Goto, Before, TableTypes
  <2>5. CASE Remove(c)
    <3>1. \A d \in Controls \ {c} : pc'[d] = pc[d]
      BY <1>1, <2>5 DEF Remove, Goto, TableTypes
    <3>2. \A s \in Sids : \A d \in Controls : Current(s, d)' => Current(s, d) /\ d # c
      BY <1>1, <2>5 DEF Remove, Current, TableTypes, Placed
    <3>3. QED
      BY <3>1, <3>2 DEF ListedIsThere
  <2>6. QED
    BY <1>3, <2>1, <2>2, <2>3, <2>4, <2>5 DEF LoginStep
<1>4. CASE KickRemove
  <2>1. UNCHANGED pc /\ \A s \in Sids : \A d \in Controls : Current(s, d)' => Current(s, d)
    BY <1>1, <1>4 DEF KickRemove, Current, TableTypes
  <2>2. QED
    BY <2>1 DEF ListedIsThere
<1>5. CASE UNCHANGED <<tbl, pc>>
  BY <1>5 DEF ListedIsThere, Current
<1>6. ASSUME NEW s, KickPeek(s) \/ LookPeek(s) PROVE ListedIsThere'
  BY <1>5, <1>6 DEF KickPeek, LookPeek
<1>7. CASE KickStep \/ KickCancelled \/ LookStep
  BY <1>4, <1>5, <1>7
     DEF KickStep, LookStep, KickLock, KickCheck, KickControl, KickUnlock, KickRelease,
     KickCancelled, LookLock, LookCheck, LookEnd
<1>8. CASE UNCHANGED vars
  BY <1>5, <1>8 DEF vars
<1>9. QED
  BY <1>3, <1>6, <1>7, <1>8 DEF Next

\* The agent of g, which is online or about to be, stays attended.
Keeps(g) ==
    /\ sid'[g] = sid[g]
    /\ pc'[g] = "loginOk" \/ active'[g]
    /\ Attended(g)'

LoginsKnown == \A c \in Controls : pc[c] # "new" => <<sid[c], agt[c]>> \in Logins

\* A step that leaves the registry alone.
LEMMA RegistryFrame ==
    ASSUME AgentInv, UNCHANGED agents, LoginsKnown', ListedIsThere',
           \A g \in Controls : (\E k \in Keys : Online(k) /\ byKey[k].gen = g) => Keeps(g)
    PROVE  AgentInv'
<1>1. byKey' = byKey /\ bySes' = bySes
  BY DEF agents
<1>2. \A k \in Keys : Online(k)' <=> Online(k)
  BY <1>1 DEF Online
<1>3. AgentTypes'
  BY <1>1 DEF AgentInv, AgentTypes
<1>4. RegistryAgrees'
  BY <1>1, <1>2 DEF AgentInv, RegistryAgrees, LoginsKnown, Keeps
<1>5. AgentsAttended'
  <2>1. ASSUME NEW k \in Keys, Online(k)' PROVE (Attended(byKey[k].gen))'
    <3>1. PICK g \in Controls : g = byKey[k].gen
      BY <1>2, <2>1 DEF AgentInv, RegistryAgrees
    <3>2. Attended(g)'
      BY <1>2, <2>1, <3>1 DEF Keeps
    <3>3. QED
      BY <1>1, <3>1, <3>2 DEF Attended
  <2>2. QED
    BY <2>1 DEF AgentsAttended
<1>6. QED
  BY <1>3, <1>4, <1>5 DEF AgentInv

\* Steps of a login that do not touch the registry.
LEMMA LoginKeepsAgents ==
    ASSUME SessInv, AgentInv, NEW c \in Controls, UNCHANGED agents,
           \/ Login(c) \/ PeekGate(c) \/ LockGate(c) \/ SwapIn(c) \/ ShutdownOld(c) \/ GiveUp(c)
           \/ EndRun(c) \/ ShutdownOwn(c) \/ RemovePeek(c) \/ RemoveLock(c) \/ Remove(c)
           \/ SendLoginOk(c) /\ active'[c],
           NEW g \in Controls, NEW k \in Keys, Online(k), byKey[k].gen = g
    PROVE  Keeps(g)
<1>1. /\ TableTypes /\ sid[g] \in Sids /\ Attended(g)
      /\ pc[g] = "loginOk" \/ active[g]
      /\ pc[g] \in {"loginOk", "run", "shut", "remPeek", "remLock", "remDo", "release", "done"}
  BY DEF SessInv, AgentInv, RegistryAgrees, AgentsAttended, Placed, Lifecycle
<1>2. CASE Login(c)
  <2>1. c # g /\ sid' = [sid EXCEPT ![c] = sid'[c]] /\ pc' = [pc EXCEPT ![c] = "peek"] /\ UNCHANGED <<tbl, kick, active>>
    BY <1>1, <1>2 DEF Login, Goto, TableTypes
  <2>2. QED
    BY <1>1, <1>2, <2>1 DEF Login, Keeps, Attended, Current, TableTypes
<1>3. CASE ~Login(c)
  <2>1. UNCHANGED <<sid, kick>>
    BY <1>3 DEF PeekGate, LockGate, SwapIn, ShutdownOld, GiveUp, EndRun, ShutdownOwn,
          RemovePeek, RemoveLock, Remove, SendLoginOk, login
  <2>2. pc'[g] = "loginOk" \/ active'[g]
    BY <1>1, <1>3 DEF PeekGate, LockGate, SwapIn, ShutdownOld, GiveUp, EndRun, ShutdownOwn,
          RemovePeek, RemoveLock, Remove, SendLoginOk, Goto, TableTypes
  <2>3. \A d \in Controls \ {c} : pc'[d] = pc[d]
    BY <1>1, <1>3 DEF PeekGate, LockGate, SwapIn, ShutdownOld, GiveUp, EndRun, ShutdownOwn,
          RemovePeek, RemoveLock, Remove, SendLoginOk, Goto, TableTypes
  <2>4. pc[c] = "release" => FALSE
    BY <1>3 DEF PeekGate, LockGate, SwapIn, ShutdownOld, GiveUp, EndRun, ShutdownOwn,
          RemovePeek, RemoveLock, Remove, SendLoginOk
  <2>5. pc[c] \in {"closeOld", "online"} => pc'[c] \in {"closeOld", "online"}
    BY <1>1, <1>3 DEF PeekGate, LockGate, SwapIn, ShutdownOld, GiveUp, EndRun, ShutdownOwn,
          RemovePeek, RemoveLock, Remove, SendLoginOk, Goto, TableTypes
  <2>6. CASE Current(sid[g], g)
    <3>1. CASE SwapIn(c) /\ ~GateIsStale(c) /\ sid[c] = sid[g]
      <4>1. pc'[c] = "closeOld"
        BY <1>1, <2>6, <3>1 DEF SwapIn, Goto, TableTypes, Current
      <4>2. QED
        BY <2>1, <2>2, <3>1, <4>1 DEF Keeps, Attended
    <3>2. CASE SwapIn(c) /\ (GateIsStale(c) \/ sid[c] # sid[g])
      BY <1>1, <2>1, <2>2, <2>6, <3>2 DEF SwapIn, Keeps, Attended, Current, TableTypes
    <3>3. CASE Remove(c) /\ c = g
      <4>1. active[g]
        BY <1>1, <3>3 DEF Remove
      <4>2. pc'[g] = "release"
        BY <1>1, <2>6, <3>3, <4>1 DEF Remove, Goto, AfterRemove, TableTypes
      <4>3. QED
        BY <2>1, <2>2, <4>2 DEF Keeps, Attended
    <3>4. CASE Remove(c) /\ c # g
      <4>1. tbl'[sid[g]] = tbl[sid[g]]
        BY <1>1, <2>6, <3>4 DEF Remove, Current, TableTypes
      <4>2. QED
        BY <2>1, <2>2, <2>6, <4>1 DEF Keeps, Attended, Current
    <3>5. CASE ~SwapIn(c) /\ ~Remove(c)
      <4>1. UNCHANGED tbl
        BY <1>3, <3>5 DEF PeekGate, LockGate, ShutdownOld, GiveUp, EndRun, ShutdownOwn,
           RemovePeek, RemoveLock, SendLoginOk
      <4>2. QED
        BY <2>1, <2>2, <2>6, <4>1 DEF Keeps, Attended, Current
    <3>6. QED
      BY <3>1, <3>2, <3>3, <3>4, <3>5
  <2>7. CASE ~Current(sid[g], g)
    BY <1>1, <2>1, <2>2, <2>3, <2>4, <2>5, <2>7 DEF Keeps, Attended
  <2>8. QED
    BY <2>6, <2>7
<1>4. QED
  BY <1>2, <1>3

\* Steps of a kick or of a lookup that do not touch the registry.
LEMMA OutsideKeepsAgents ==
    ASSUME SessInv, AgentInv, UNCHANGED agents, NEW s,
           \/ KickPeek(s) \/ LookPeek(s) \/ KickLock \/ KickCheck \/ KickControl
           \/ KickRemove \/ KickUnlock \/ KickCancelled \/ LookStep \/ UNCHANGED vars,
           NEW g \in Controls, NEW k \in Keys, Online(k), byKey[k].gen = g
    PROVE  Keeps(g)
<1>1. /\ TableTypes /\ sid[g] \in Sids /\ Attended(g)
      /\ pc[g] = "loginOk" \/ active[g]
      /\ kick.pc # "idle" => sid[kick.ctl] = kick.sid
  BY DEF SessInv, AgentInv, RegistryAgrees, AgentsAttended, Placed, Lifecycle
<1>2. UNCHANGED <<sid, pc, active>>
  BY DEF KickPeek, LookPeek, KickLock, KickCheck, KickControl, KickRemove, KickUnlock, KickCancelled,
     LookStep, LookLock, LookCheck, LookEnd, vars, login
<1>3. CASE KickRemove
  <2>1. tbl' = (IF Current(kick.sid, kick.ctl) THEN [tbl EXCEPT ![kick.sid] = None] ELSE tbl)
        /\ kick' = [kick EXCEPT !.pc = "drop"] /\ kick.pc = "await"
    BY <1>3 DEF KickRemove
  <2>2. kick'.pc = "drop" /\ kick'.ctl = kick.ctl
    BY <1>1, <2>1 DEF TableTypes, Outside
  <2>3. CASE kick.ctl = g
    BY <1>1, <1>2, <2>2, <2>3 DEF Keeps, Attended
  <2>4. CASE kick.ctl # g
    <3>1. Current(sid[g], g) => tbl'[sid[g]] = tbl[sid[g]]
      BY <1>1, <2>1, <2>4 DEF Current, TableTypes
    <3>2. QED
      BY <1>1, <1>2, <2>2, <2>4, <3>1 DEF Keeps, Attended, Current
  <2>5. QED
    BY <2>3, <2>4
<1>4. CASE ~KickRemove
  <2>1. UNCHANGED tbl
    BY <1>4 DEF KickPeek, LookPeek, KickLock, KickCheck, KickControl, KickUnlock, KickCancelled,
       LookStep, LookLock, LookCheck, LookEnd, vars
  <2>2. kick.pc \in {"drop", "release"} => kick'.ctl = kick.ctl /\ kick'.pc \in {"drop", "release"}
    BY <1>1, <1>4 DEF KickPeek, LookPeek, KickLock, KickCheck, KickControl, KickUnlock, KickCancelled,
       LookStep, LookLock, LookCheck, LookEnd, vars, TableTypes, Outside
  <2>3. QED
    BY <1>1, <1>2, <2>1, <2>2 DEF Keeps, Attended, Current
<1>5. QED
  BY <1>3, <1>4

\* A release by c, or by the kick that removed c, leaves the others attended.
LEMMA ReleaseKeepsAgents ==
    ASSUME SessInv, AgentInv, NEW c \in Controls, sid[c] \in Sids, Release(sid[c], c),
           UNCHANGED <<tbl, sid, agt, active>>, LoginsKnown', ListedIsThere',
           \A d \in Controls \ {c} : pc'[d] = pc[d], pc'[c] = pc[c] \/ pc[c] \notin {"closeOld", "online"},
           kick' = kick \/ kick.ctl = c
    PROVE  AgentInv' /\ \A k \in Keys : Online(k)' => byKey'[k].gen # c
<1>1. /\ \A j \in Keys : byKey'[j] # None => byKey[j] # None /\ byKey'[j].ses = byKey[j].ses
      /\ \A j \in Keys : Online(j)' =>
            Online(j) /\ byKey'[j] = byKey[j] /\ byKey[j].gen # c /\ bySes'[byKey[j].ses] = j
  BY ReleaseLeaves DEF AgentInv
<1>2. AgentTypes'
  BY ReleaseTypes DEF AgentInv
<1>3. RegistryAgrees'
  BY <1>1 DEF AgentInv, RegistryAgrees, LoginsKnown
<1>4. ASSUME NEW g \in Controls \ {c}, Attended(g) PROVE Attended(g)'
  BY <1>4 DEF Attended, Current
<1>5. AgentsAttended'
  <2>1. ASSUME NEW k \in Keys, Online(k)' PROVE (Attended(byKey[k].gen))'
    <3>1. PICK g \in Controls \ {c} : g = byKey[k].gen /\ Attended(g)
      BY <1>1, <2>1 DEF AgentInv, RegistryAgrees, AgentsAttended
    <3>2. Attended(g)' /\ byKey'[k].gen = g
      BY <1>1, <1>4, <2>1, <3>1
    <3>3. QED
      BY <3>2 DEF Attended
  <2>2. QED
    BY <2>1 DEF AgentsAttended
<1>6. QED
  BY <1>1, <1>2, <1>3, <1>5 DEF AgentInv

\* try_online, and its refusal.
LEMMA GoOnlineKeepsAgents ==
    ASSUME KeysApart, SessInv, AgentInv, NEW c \in Controls, GoOnline(c), ListedIsThere'
    PROVE  AgentInv'
<1> DEFINE s == sid[c]
           a == agt[c]
           k == Key(s, a)
<1>1. /\ TableTypes /\ pc[c] = "online" /\ s \in Sids /\ a \in Agents \cup {NoAgent}
      /\ <<s, a>> \in Logins /\ Current(s, c)
  BY DEF SessInv, AgentInv, RegistryAgrees, Placed, LoginUndisturbed, TableTypes, GoOnline
<1>2. /\ UNCHANGED <<tbl, sid, agt, active, kick>> /\ \A d \in Controls \ {c} : pc'[d] = pc[d]
      /\ pc'[c] \in {"remPeek", "loginOk"}
  BY <1>1 DEF GoOnline, Goto, login, TableTypes
<1>3. LoginsKnown'
  BY <1>1, <1>2 DEF LoginsKnown, AgentInv, RegistryAgrees
<1>4. ASSUME NEW g \in Controls \ {c}, sid[g] # s, Attended(g) PROVE Attended(g)'
  BY <1>2, <1>4 DEF Attended, Current
<1>5. CASE ~Conflict(s, a)
  <2>1. TryOnline(s, a, c) /\ pc'[c] = "loginOk"
    BY <1>1, <1>5 DEF GoOnline, Goto, TableTypes
  <2>2. /\ k \in Keys /\ byKey'[k].ses = s /\ byKey'[k].gen = c /\ bySes'[s] = k
        /\ \A j \in Keys \ {k} : byKey'[j] # None => byKey[j] # None /\ byKey'[j].ses = byKey[j].ses
        /\ \A j \in Keys \ {k} : Online(j)' =>
              Online(j) /\ byKey'[j] = byKey[j] /\ byKey[j].ses # s
              /\ bySes'[byKey[j].ses] = j
    BY <1>1, <2>1, TryOnlineLeaves DEF AgentInv
  <2>3. AgentTypes'
    BY <1>1, <2>1, TryOnlineTypes DEF AgentInv
  <2>4. Uses(s, k)
    BY <1>1 DEF Uses
  <2>5. ASSUME NEW j \in Keys \ {k}, Online(j)'
        PROVE  /\ byKey[j].gen \in Controls \ {c} /\ sid[byKey[j].gen] = byKey[j].ses
               /\ Attended(byKey[j].gen)
               /\ pc[byKey[j].gen] = "loginOk" \/ active[byKey[j].gen]
    BY <2>2, <2>5 DEF AgentInv, RegistryAgrees, AgentsAttended
  <2>6. RegistryAgrees'
    <3>1. \A j \in Keys : byKey'[j] # None => Uses(byKey'[j].ses, j)
      BY <2>2, <2>4 DEF AgentInv, RegistryAgrees
    <3>2. ASSUME NEW j \in Keys, Online(j)'
          PROVE  /\ bySes'[byKey'[j].ses] = j /\ byKey'[j].gen \in Controls
                 /\ sid'[byKey'[j].gen] = byKey'[j].ses
                 /\ pc'[byKey'[j].gen] = "loginOk" \/ active'[byKey'[j].gen]
      <4>1. CASE j = k
        BY <1>2, <2>1, <2>2, <4>1
      <4>2. CASE j # k
        BY <1>2, <2>2, <2>5, <3>2, <4>2
      <4>3. QED
        BY <4>1, <4>2
    <3>3. QED
      BY <1>3, <3>1, <3>2 DEF RegistryAgrees, LoginsKnown, Uses
  <2>7. AgentsAttended'
    <3>1. ASSUME NEW j \in Keys, Online(j)' PROVE (Attended(byKey[j].gen))'
      <4>1. CASE j = k
        <5>1. Attended(c)'
          BY <1>1, <1>2 DEF Attended, Current
        <5>2. QED
          BY <2>2, <4>1, <5>1 DEF Attended
      <4>2. CASE j # k
        <5>1. PICK g \in Controls \ {c} : g = byKey[j].gen /\ Attended(g) /\ sid[g] # s
          BY <2>2, <2>5, <3>1, <4>2
        <5>2. Attended(g)' /\ byKey'[j].gen = g
          BY <1>4, <2>2, <3>1, <4>2, <5>1
        <5>3. QED
          BY <5>2 DEF Attended
      <4>3. QED
        BY <4>1, <4>2
    <3>2. QED
      BY <3>1 DEF AgentsAttended
  <2>8. QED
    BY <2>3, <2>6, <2>7 DEF AgentInv
<1>6. CASE Conflict(s, a)
  <2>1. UNCHANGED agents
    BY <1>6 DEF GoOnline
  <2>2. a \in Keys /\ Online(a) /\ byKey[a].ses # s /\ Uses(byKey[a].ses, a) /\ Uses(s, a)
        /\ byKey[a].ses \in Sids
    BY <1>1, <1>6 DEF Conflict, Online, Keys, AgentInv, AgentTypes, AgentEntries, RegistryAgrees, Uses, Key
  <2>3. ASSUME NEW g \in Controls, NEW j \in Keys, Online(j), byKey[j].gen = g
        PROVE  Keeps(g)
    <3>1. /\ sid[g] = byKey[j].ses /\ Uses(byKey[j].ses, j) /\ Attended(g) /\ byKey[j].ses \in Sids
          /\ pc[g] = "loginOk" \/ active[g]
      BY <2>3 DEF AgentInv, RegistryAgrees, AgentsAttended, Online, AgentTypes, AgentEntries
    <3>2. sid[g] # s
      BY <1>1, <2>2, <3>1 DEF KeysApart
    <3>3. g # c
      BY <3>2
    <3>4. QED
      BY <1>2, <1>4, <3>1, <3>2, <3>3 DEF Keeps
  <2>4. QED
    BY <1>3, <2>1, <2>3, RegistryFrame
<1>7. QED
  BY <1>5, <1>6

LEMMA LoginsStayKnown == SessInv /\ LoginsKnown /\ [Next]_vars => LoginsKnown'
<1> SUFFICES ASSUME SessInv, LoginsKnown, [Next]_vars PROVE LoginsKnown'
  OBVIOUS
<1>1. TableTypes
  BY DEF SessInv
<1>2. ASSUME UNCHANGED <<sid, agt>>, \A c \in Controls : pc[c] = "new" => pc'[c] = "new"
      PROVE  LoginsKnown'
  BY <1>2 DEF LoginsKnown
<1>3. ASSUME NEW c \in Controls, Login(c) PROVE LoginsKnown'
  <2>1. PICK l \in Logins : sid' = [sid EXCEPT ![c] = l[1]] /\ agt' = [agt EXCEPT ![c] = l[2]]
    BY <1>3 DEF Login
  <2>2. l = <<l[1], l[2]>>
    BY SessionAssumptions
  <2>3. QED
    BY <1>1, <1>3, <2>1, <2>2 DEF LoginsKnown, Login, Goto, TableTypes
<1>4. ASSUME NEW c \in Controls, EndRun(c) \/ LoginStep(c) PROVE LoginsKnown'
  BY <1>1, <1>2, <1>4
     DEF LoginStep, PeekGate, LockGate, SwapIn, ShutdownOld, GoOnline, SendLoginOk, GiveUp, ShutdownOwn,
     RemovePeek, RemoveLock, Remove, ReleaseAgent, EndRun, Goto, login, TableTypes
<1>5. CASE UNCHANGED <<sid, agt, pc>>
  BY <1>2, <1>5
<1>6. ASSUME NEW s, KickPeek(s) \/ LookPeek(s) PROVE LoginsKnown'
  BY <1>5, <1>6 DEF KickPeek, LookPeek, login
<1>7. CASE KickStep \/ KickCancelled \/ LookStep \/ UNCHANGED vars
  BY <1>5, <1>7
     DEF KickStep, LookStep, KickLock, KickCheck, KickControl, KickRemove, KickUnlock, KickRelease,
     KickCancelled, LookLock, LookCheck, LookEnd, vars, login
<1>8. QED
  BY <1>3, <1>4, <1>6, <1>7 DEF Next

\* Every step keeps what is said of the agents.
LEMMA AgentStep == KeysApart /\ SessInv /\ AgentInv /\ [Next]_vars => AgentInv'
<1> SUFFICES ASSUME KeysApart, SessInv, AgentInv, [Next]_vars PROVE AgentInv'
  OBVIOUS
<1>1. LoginsKnown' /\ ListedIsThere'
  BY LoginsStayKnown, ListedStep DEF AgentInv, RegistryAgrees, LoginsKnown
<1>2. TableTypes
  BY DEF SessInv
<1>3. ASSUME NEW c \in Controls, Login(c) \/ EndRun(c) \/ LoginStep(c) PROVE AgentInv'
  <2>1. CASE GoOnline(c)
    BY <1>1, <2>1, GoOnlineKeepsAgents
  <2>2. CASE ReleaseAgent(c)
    <3>1. /\ sid[c] \in Sids /\ Release(sid[c], c) /\ UNCHANGED <<tbl, sid, agt, active, kick>>
          /\ \A d \in Controls \ {c} : pc'[d] = pc[d]
          /\ pc[c] \notin {"closeOld", "online"}
      BY <1>2, <2>2 DEF ReleaseAgent, Goto, login, TableTypes, SessInv, Placed
    <3>2. QED
      BY <1>1, <3>1, ReleaseKeepsAgents
  <2>3. CASE SendLoginOk(c) /\ ~active'[c]
    <3>1. /\ sid[c] \in Sids /\ Release(sid[c], c) /\ UNCHANGED <<tbl, sid, agt, active, kick>>
          /\ \A d \in Controls \ {c} : pc'[d] = pc[d]
          /\ pc[c] \notin {"closeOld", "online"}
      BY <1>2, <2>3 DEF SendLoginOk, Goto, login, TableTypes, SessInv, Placed
    <3>2. QED
      BY <1>1, <3>1, ReleaseKeepsAgents
  <2>4. CASE SendLoginOk(c) /\ active'[c]
    <3>1. UNCHANGED agents
      BY <1>2, <2>4 DEF SendLoginOk, SessInv, Lifecycle
    <3>2. QED
      BY <1>1, <2>4, <3>1, LoginKeepsAgents, RegistryFrame
  <2>5. CASE \/ Login(c) \/ PeekGate(c) \/ LockGate(c) \/ SwapIn(c) \/ ShutdownOld(c) \/ GiveUp(c)
             \/ EndRun(c) \/ ShutdownOwn(c) \/ RemovePeek(c) \/ RemoveLock(c) \/ Remove(c)
    <3>1. UNCHANGED agents
      BY <2>5 DEF Login, PeekGate, LockGate, SwapIn, ShutdownOld, GiveUp, EndRun, ShutdownOwn,
         RemovePeek, RemoveLock, Remove
    <3>2. QED
      BY <1>1, <2>5, <3>1, LoginKeepsAgents, RegistryFrame
  <2>6. QED
    BY <1>3, <2>1, <2>2, <2>3, <2>4, <2>5 DEF LoginStep
<1>4. CASE KickRelease
  <2>1. kick.ctl \in Controls /\ sid[kick.ctl] = kick.sid /\ kick.sid \in Sids
    BY <1>4 DEF KickRelease, SessInv, HoldersHold, Placed
  <2>2. UNCHANGED <<tbl, sid, agt, active, pc>> /\ Release(kick.sid, kick.ctl)
    BY <1>4 DEF KickRelease, login
  <2>3. QED
    BY <1>1, <2>1, <2>2, ReleaseKeepsAgents
<1>5. ASSUME NEW s, \/ KickPeek(s) \/ LookPeek(s) \/ KickLock \/ KickCheck \/ KickControl \/ KickRemove
                    \/ KickUnlock \/ KickCancelled \/ LookStep \/ UNCHANGED vars
      PROVE  AgentInv'
  <2>1. UNCHANGED agents
    BY <1>5 DEF KickPeek, LookPeek, KickLock, KickCheck, KickControl, KickRemove, KickUnlock, KickCancelled,
       LookStep, LookLock, LookCheck, LookEnd, vars, agents
  <2>2. QED
    BY <1>1, <1>5, <2>1, OutsideKeepsAgents, RegistryFrame
<1>6. QED
  BY <1>3, <1>4, <1>5 DEF Next, KickStep

\* Before the first login nobody is online.
LEMMA AgentInit == Init => AgentInv
  BY SessionAssumptions
     DEF Init, AgentInv, AgentTypes, RegistryAgrees, ListedIsThere, AgentsAttended, Online, Current

LEMMA AgentInvHolds == ASSUME SharedAgentsStay PROVE Spec => []AgentInv
<1>1. SessInv /\ AgentInv /\ [Next]_vars => AgentInv'
  BY AgentStep, KeysStayApart
<1>2. QED
  BY <1>1, AgentInit, TableConsistent, PTL DEF Spec

\* For any number of logins, sessions and agents: an agent that the dashboard shows as
\* online belongs to a login that is still there, or its release or its takeover is under
\* way; if sessions that share an agent id keep to it (agent_registry.rs).
THEOREM AgentsHaveControls == ASSUME SharedAgentsStay PROVE Spec => []OnlineAgentHasControl
<1>1. SessInv /\ AgentInv => OnlineAgentHasControl
  <2>1. SUFFICES ASSUME SessInv, AgentInv, NEW k \in Keys, byKey[k] # None, byKey[k].online
                 PROVE  LET c == byKey[k].gen IN
                        \/ pc[c] # "done"
                        \/ kick.ctl = c /\ kick.pc \in {"drop", "release"}
                        \/ \E d \in Controls : sid[d] = byKey[k].ses /\ pc[d] \in {"closeOld", "online"}
    BY DEF OnlineAgentHasControl
  <2>2. Online(k)
    BY <2>1 DEF Online
  <2>3. PICK c \in Controls : c = byKey[k].gen /\ sid[c] = byKey[k].ses /\ Attended(c) /\ pc[c] # "new"
    BY <2>1, <2>2 DEF AgentInv, RegistryAgrees, AgentsAttended, SessInv, Lifecycle
  <2>4. Current(sid[c], c) => pc[c] # "done"
    BY <2>1, <2>3 DEF AgentInv, ListedIsThere, SessInv, Placed
  <2>5. QED
    BY <2>3, <2>4 DEF Attended
<1>2. QED
  BY <1>1, AgentInvHolds, TableConsistent, PTL

\* Under the same condition: once a login, or the kick that removed it, has called release,
\* no agent is online in its name, whatever other logins have done to by_session since.
THEOREM ReleasesTakeOffline == ASSUME SharedAgentsStay PROVE Spec => ReleaseTakesOffline
<1> DEFINE A == \A c \in Controls :
                   \/ pc[c] = "release" /\ pc'[c] = "done"
                   \/ kick.pc = "release" /\ kick.ctl = c /\ kick'.pc = "idle"
                 => \A k \in Keys : byKey'[k] # None => ~(byKey'[k].online /\ byKey'[k].gen = c)
<1>1. SessInv /\ AgentInv /\ [Next]_vars => [A]_vars
  <2> SUFFICES ASSUME SessInv, AgentInv, Next, NEW c \in Controls,
                      \/ pc[c] = "release" /\ pc'[c] = "done"
                      \/ kick.pc = "release" /\ kick.ctl = c /\ kick'.pc = "idle",
                      NEW k \in Keys, byKey'[k] # None, byKey'[k].online, byKey'[k].gen = c
               PROVE  FALSE
    OBVIOUS
  <2>1. TableTypes /\ sid[c] \in Sids
    BY DEF SessInv, Placed, HoldersHold
  <2>2. Online(k)'
    BY DEF Online
  <2>3. ASSUME Release(sid[c], c) PROVE FALSE
    BY <2>1, <2>2, <2>3, ReleaseLeaves DEF AgentInv
  <2>4. CASE pc[c] = "release" /\ pc'[c] = "done"
    <3>1. pc' # pc
      BY <2>4
    <3>2. PICK d \in Controls : Login(d) \/ EndRun(d) \/ LoginStep(d)
      <4>1. ASSUME NEW s PROVE ~(KickPeek(s) \/ LookPeek(s))
        BY <3>1 DEF KickPeek, LookPeek
      <4>2. ~(KickStep \/ KickCancelled \/ LookStep \/ UNCHANGED vars)
        BY <3>1 DEF KickStep, KickCancelled, LookStep, KickLock, KickCheck, KickControl,
           KickRemove, KickUnlock, KickRelease, LookLock, LookCheck, LookEnd, vars
      <4>3. QED
        BY <4>1, <4>2 DEF Next
    <3>3. d = c
      BY <2>1, <2>4, <3>2
         DEF Login, EndRun, LoginStep, PeekGate, LockGate, SwapIn, ShutdownOld, GoOnline, SendLoginOk, GiveUp,
         ShutdownOwn, RemovePeek, RemoveLock, Remove, ReleaseAgent, Goto, TableTypes
    <3>4. ReleaseAgent(c)
      BY <2>4, <3>2, <3>3
         DEF Login, EndRun, LoginStep, PeekGate, LockGate, SwapIn, ShutdownOld, GoOnline, SendLoginOk, GiveUp,
         ShutdownOwn, RemovePeek, RemoveLock, Remove
    <3>5. QED
      BY <2>3, <3>4 DEF ReleaseAgent
  <2>5. CASE kick.pc = "release" /\ kick.ctl = c /\ kick'.pc = "idle"
    <3>1. kick' # kick
      BY <2>5
    <3>2. \A d \in Controls : ~(Login(d) \/ EndRun(d) \/ LoginStep(d))
      BY <3>1
         DEF Login, EndRun, LoginStep, PeekGate, LockGate, SwapIn, ShutdownOld, GoOnline, SendLoginOk, GiveUp,
         ShutdownOwn, RemovePeek, RemoveLock, Remove, ReleaseAgent
    <3>3. KickRelease
      BY <2>5, <3>1, <3>2 DEF Next, KickPeek, LookPeek, KickStep, KickCancelled, LookStep, KickLock, KickCheck,
         KickControl, KickRemove, KickUnlock, LookLock, LookCheck, LookEnd, vars
    <3>4. sid[kick.ctl] = kick.sid
      BY <2>5 DEF SessInv, Placed
    <3>5. QED
      BY <2>3, <2>5, <3>3, <3>4 DEF KickRelease
  <2>6. QED
    BY <2>4, <2>5
<1>2. QED
  BY <1>1, AgentInvHolds, TableConsistent, PTL DEF Spec, ReleaseTakesOffline

\* Every step keeps the gates with those who are at work.
LEMMA GateStep == SessInv /\ GateHolderMoves /\ [Next]_vars => GateHolderMoves'
<1> SUFFICES ASSUME SessInv, GateHolderMoves, [Next]_vars PROVE GateHolderMoves'
  OBVIOUS
<1>1. TableTypes /\ HoldersHold /\ Controls \cap {"kick", "look"} = {} /\ None \notin Controls
  BY SessionAssumptions DEF SessInv
<1>2. ASSUME NEW c \in Controls, Login(c) \/ PeekGate(c) \/ EndRun(c) \/ ShutdownOwn(c) \/ RemovePeek(c)
             \/ ReleaseAgent(c) \/ ShutdownOld(c)
      PROVE  GateHolderMoves'
  <2>1. UNCHANGED <<holder, kick, look>>
    BY <1>2 DEF Login, PeekGate, EndRun, ShutdownOwn, RemovePeek, ReleaseAgent, ShutdownOld
  <2>2. \A d \in Controls \ {c} : pc'[d] = pc[d] /\ gate'[d] = gate[d]
    BY <1>1, <1>2 DEF Login, PeekGate, EndRun, ShutdownOwn, RemovePeek, ReleaseAgent, ShutdownOld, Goto,
       TableTypes
  <2>3. CASE ShutdownOld(c)
    <3>1. pc'[c] = "online" /\ gate' = gate
      BY <1>1, <2>3 DEF ShutdownOld, Goto, TableTypes
    <3>2. QED
      BY <1>1, <2>1, <2>2, <3>1 DEF GateHolderMoves, TableTypes
  <2>4. CASE ~ShutdownOld(c)
    <3>1. pc[c] \in {"new", "peek", "run", "shut", "close", "remPeek", "release"}
      BY <1>2, <2>4 DEF Login, PeekGate, EndRun, ShutdownOwn, RemovePeek, ReleaseAgent
    <3>2. \A g \in Controls : holder[g] # c
      BY <1>1, <3>1 DEF GateHolderMoves
    <3>3. QED
      BY <1>1, <2>1, <2>2, <3>2 DEF GateHolderMoves, TableTypes
  <2>5. QED
    BY <2>3, <2>4
<1>3. ASSUME NEW c \in Controls, LockGate(c) \/ RemoveLock(c) PROVE GateHolderMoves'
  BY <1>1, <1>3 DEF LockGate, RemoveLock, Lock, Goto, GateHolderMoves, HoldersHold, TableTypes
<1>4. ASSUME NEW c \in Controls, SwapIn(c) \/ GoOnline(c) \/ SendLoginOk(c) \/ GiveUp(c) \/ Remove(c)
      PROVE  GateHolderMoves'
  <2>1. gate[c] \in Controls /\ holder[gate[c]] = c
    BY <1>1, <1>4 DEF SwapIn, GoOnline, SendLoginOk, GiveUp, Remove, HoldersHold, Held
  <2>2. UNCHANGED <<kick, look>> /\ \A d \in Controls \ {c} : pc'[d] = pc[d]
    BY <1>1, <1>4 DEF SwapIn, GoOnline, SendLoginOk, GiveUp, Remove, Goto, TableTypes
  <2>3. CASE DropGuard(c)
    BY <1>1, <2>1, <2>2, <2>3 DEF DropGuard, Unlock, GateHolderMoves, TableTypes
  <2>4. CASE KeepGuard /\ pc'[c] \in {"closeOld", "online", "loginOk", "giveUp"}
    BY <1>1, <2>1, <2>2, <2>4 DEF KeepGuard, GateHolderMoves, TableTypes
  <2>5. QED
    BY <1>1, <1>4, <2>3, <2>4 DEF SwapIn, GoOnline, SendLoginOk, GiveUp, Remove, Goto, TableTypes
<1>5. ASSUME NEW s, KickPeek(s) \/ LookPeek(s) PROVE GateHolderMoves'
  BY <1>1, <1>5 DEF KickPeek, LookPeek, GateHolderMoves, TableTypes, Outside, login
<1>6. CASE KickLock \/ KickCheck \/ KickControl \/ KickRemove \/ KickUnlock \/ KickRelease \/ KickCancelled
  BY <1>1, <1>6 DEF KickLock, KickCheck, KickControl, KickRemove, KickUnlock, KickRelease, KickCancelled,
     Lock, Unlock, Idle, GateHolderMoves, HoldersHold, TableTypes, Outside, login
<1>7. CASE LookStep
  BY <1>1, <1>7 DEF LookStep, LookLock, LookCheck, LookEnd, Lock, Unlock, Idle, GateHolderMoves, HoldersHold,
     TableTypes, Outside, login
<1>8. CASE UNCHANGED vars
  BY <1>8 DEF vars, GateHolderMoves
<1>9. QED
  BY <1>2, <1>3, <1>4, <1>5, <1>6, <1>7, <1>8 DEF Next, LoginStep, KickStep

\* From its entry into the table to its end nobody replaces or removes a login, and a gate
\* is only held by somebody who waits for no other gate (swap_in_locked, remove_if_current,
\* kick_client and lookup_accepting of session_table.rs).
THEOREM GatesAreSound == Spec => []GatesSound
<1>1. Init => GateHolderMoves
  BY DEF Init, GateHolderMoves
<1>2. QED
  BY <1>1, GateStep, TableConsistent, LoginsAreUndisturbed, PTL DEF Spec, GatesSound

=============================================================================
