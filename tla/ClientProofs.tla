---------------------------- MODULE ClientProofs ----------------------------
(***************************************************************************)
(* Proofs about the client's process and its service loop: LocalControl,   *)
(* for any number of processes and starts, and ClientService, for any      *)
(* number of attempts, requests, faults and seconds.                       *)
(***************************************************************************)
EXTENDS LocalControl, ClientService, SequenceTheorems, TLAPS

LcPcs == {"off", "probe", "remove", "bind", "chmod", "serve", "leave", "without"}
LcReqPcs == {"idle", "sent", "handled", "told", "failed"}

LcReqs == [pc : LcReqPcs, to : LcProcs \cup {LcNobody}, op : {"none", "reload", "broken"},
           ok : BOOLEAN, applied : BOOLEAN]

\* The types of the variables that the arguments below need.
LcTyped ==
    /\ lcFile \in LcProcs \cup {LcNobody}
    /\ lcStarted \in 0..LcMaxStarts
    /\ lcPc \in [LcProcs -> LcPcs]
    /\ lcOverlap \in BOOLEAN
    /\ lcReq \in LcReqs

\* Whoever listens has the file, a process about to leave included: its last
\* remove_file takes its own.
LcFileInv ==
    ~lcOverlap => \A p \in LcProcs : lcPc[p] \in {"chmod", "serve", "leave"} => lcFile = p

\* What is known of a request that was handled, and of its answer.
LcReqInv ==
    /\ lcReq.pc = "handled" => lcReq.op = "reload"
    /\ lcReq.pc = "told" => lcReq.op = "reload" /\ (lcReq.ok => lcReq.applied)

LcInv == LcTyped /\ LcFileInv /\ LcReqInv

-----------------------------------------------------------------------------
\* A request that was not made is a request, and has no answer.
LEMMA LcNoReqTyped ==
  LcNoReq \in LcReqs /\ LcNoReq.pc = "idle"
BY DEF LcNoReq, LcReqs, LcReqPcs

\* A request to the socket is sent to whoever listens, or fails.
LEMMA LcConnectReq == ASSUME LcTyped, LcConnect
                      PROVE  lcReq' \in LcReqs /\ lcReq'.pc \in {"sent", "failed"}
<1>1. CASE LcListens(lcFile)
  <2>1. PICK op \in {"reload", "broken"} :
             lcReq' = [LcNoReq EXCEPT !.pc = "sent", !.to = lcFile, !.op = op]
    BY <1>1 DEF LcConnect
  <2> QED BY <2>1 DEF LcNoReq, LcReqs, LcReqPcs, LcTyped
<1>2. CASE ~LcListens(lcFile)
  <2>1. lcReq' = [LcNoReq EXCEPT !.pc = "failed"]
    BY <1>2 DEF LcConnect
  <2> QED BY <2>1 DEF LcNoReq, LcReqs, LcReqPcs
<1> QED BY <1>1, <1>2

\* Every step keeps the types.
LEMMA LcTypedStep == ASSUME LcTyped, [LcNext]_lcVars PROVE LcTyped'
<1> USE LcAssumptions DEF LcTyped, LcPcs
<1>1. ASSUME NEW p \in LcProcs, LcStart(p) PROVE LcTyped'
  BY <1>1 DEF LcStart, LcGoes
<1>2. ASSUME NEW p \in LcProcs,
             LcProbe(p) \/ LcChmod(p) \/ LcAcceptFails(p) \/ LcCancelled(p) \/ LcDies(p)
      PROVE  LcTyped'
  BY <1>2 DEF LcProbe, LcChmod, LcAcceptFails, LcCancelled, LcDies, LcGoes
<1>3. ASSUME NEW p \in LcProcs, LcRemove(p) PROVE LcTyped'
  <2>1. lcFile' \in LcProcs \cup {LcNobody} /\ lcStarted' \in 0..LcMaxStarts /\ lcReq' = lcReq
    BY <1>3 DEF LcRemove
  <2>2. lcPc' \in [LcProcs -> LcPcs]
    BY <1>3 DEF LcRemove, LcGoes
  <2>3. lcOverlap' \in BOOLEAN
    BY <1>3 DEF LcRemove, LcListens
  <2> QED BY <2>1, <2>2, <2>3
<1>4. ASSUME NEW p \in LcProcs, LcBind(p) \/ LcLeave(p) PROVE LcTyped'
  BY <1>4 DEF LcBind, LcLeave, LcGoes
<1>5. ASSUME NEW p \in LcProcs, LcHandle(p) \/ LcReply(p) PROVE LcTyped'
  <2>1. lcReq' \in LcReqs
    BY <1>5 DEF LcHandle, LcReply, LcReqs, LcReqPcs
  <2>2. UNCHANGED <<lcFile, lcStarted, lcPc, lcOverlap>>
    BY <1>5 DEF LcHandle, LcReply
  <2> QED BY <2>1, <2>2
<1>6. ASSUME LcConnect \/ LcBroken \/ LcAgain PROVE LcTyped'
  <2>1. lcReq' \in LcReqs
    <3>1. CASE LcConnect
      BY <3>1, LcConnectReq
    <3>2. CASE LcBroken
      BY <3>2 DEF LcBroken, LcReqs, LcReqPcs
    <3>3. CASE LcAgain
      BY <3>3, LcNoReqTyped DEF LcAgain
    <3> QED BY <1>6, <3>1, <3>2, <3>3
  <2>2. UNCHANGED <<lcFile, lcStarted, lcPc, lcOverlap>>
    BY <1>6 DEF LcConnect, LcBroken, LcAgain
  <2> QED BY <2>1, <2>2
<1>7. CASE UNCHANGED lcVars
  BY <1>7 DEF lcVars
<1> QED BY <1>1, <1>2, <1>3, <1>4, <1>5, <1>6, <1>7 DEF LcNext

\* Every step keeps the file with the process that listens, or records an overlap.
LEMMA LcFileStep == ASSUME LcTyped, LcFileInv, [LcNext]_lcVars PROVE LcFileInv'
<1> USE LcAssumptions DEF LcTyped, LcPcs, LcFileInv
<1>1. ASSUME NEW p \in LcProcs,
             LcStart(p) \/ LcProbe(p) \/ LcAcceptFails(p) \/ LcDies(p)
      PROVE  LcFileInv'
  BY <1>1 DEF LcStart, LcProbe, LcAcceptFails, LcDies, LcGoes
<1>2. ASSUME NEW p \in LcProcs, LcChmod(p) \/ LcCancelled(p) PROVE LcFileInv'
  BY <1>2 DEF LcChmod, LcCancelled, LcGoes
<1>3. ASSUME NEW p \in LcProcs, LcRemove(p) PROVE LcFileInv'
  <2> SUFFICES ASSUME ~lcOverlap', NEW q \in LcProcs, lcPc'[q] \in {"chmod", "serve", "leave"}
               PROVE  FALSE
    OBVIOUS
  <2>1. ~lcOverlap /\ ~LcListens(lcFile)
    BY <1>3 DEF LcRemove
  <2>2. lcPc[q] \in {"chmod", "serve", "leave"}
    BY <1>3 DEF LcRemove, LcGoes
  <2>3. lcFile = q
    BY <2>1, <2>2
  <2> QED BY <2>1, <2>2, <2>3 DEF LcListens
<1>4. ASSUME NEW p \in LcProcs, LcBind(p) PROVE LcFileInv'
  BY <1>4 DEF LcBind, LcGoes
<1>5. ASSUME NEW p \in LcProcs, LcLeave(p) PROVE LcFileInv'
  BY <1>5 DEF LcLeave, LcGoes
<1>6. ASSUME NEW p \in LcProcs, LcHandle(p) \/ LcReply(p) PROVE LcFileInv'
  BY <1>6 DEF LcHandle, LcReply
<1>7. ASSUME LcConnect \/ LcBroken \/ LcAgain PROVE LcFileInv'
  BY <1>7 DEF LcConnect, LcBroken, LcAgain
<1>8. CASE UNCHANGED lcVars
  BY <1>8 DEF lcVars
<1> QED BY <1>1, <1>2, <1>3, <1>4, <1>5, <1>6, <1>7, <1>8 DEF LcNext

\* Every step keeps what is known of the request.
LEMMA LcReqStep == ASSUME LcTyped, LcReqInv, [LcNext]_lcVars PROVE LcReqInv'
<1> USE DEF LcReqInv
<1>1. CASE lcReq' = lcReq
  BY <1>1
<1>2. ASSUME NEW p \in LcProcs, LcHandle(p) \/ LcReply(p) PROVE LcReqInv'
  BY <1>2 DEF LcHandle, LcReply, LcTyped, LcReqs, LcReqPcs
<1>3. ASSUME LcConnect \/ LcBroken \/ LcAgain PROVE LcReqInv'
  <2>1. CASE LcConnect
    BY <2>1, LcConnectReq
  <2>2. CASE LcBroken
    BY <2>2 DEF LcBroken, LcTyped, LcReqs
  <2>3. CASE LcAgain
    BY <2>3, LcNoReqTyped DEF LcAgain
  <2> QED BY <1>3, <2>1, <2>2, <2>3
<1>4. ASSUME NEW p \in LcProcs,
             \/ LcStart(p) \/ LcProbe(p) \/ LcRemove(p) \/ LcBind(p) \/ LcChmod(p)
             \/ LcAcceptFails(p) \/ LcCancelled(p) \/ LcLeave(p) \/ LcDies(p)
      PROVE  lcReq' = lcReq
  BY <1>4 DEF LcStart, LcProbe, LcRemove, LcBind, LcChmod, LcAcceptFails, LcCancelled, LcLeave, LcDies
<1> QED BY <1>1, <1>2, <1>3, <1>4 DEF LcNext, lcVars

-----------------------------------------------------------------------------
\* The inductive invariant holds in every state of every behaviour.
THEOREM SocketAgrees == LcSpec => []LcInv
<1>1. ASSUME LcInit PROVE LcInv
  <2>1. lcReq \in LcReqs /\ lcReq.pc = "idle"
    BY <1>1, LcNoReqTyped DEF LcInit
  <2>2. lcOverlap \in BOOLEAN
    BY <1>1 DEF LcInit
  <2>3. lcStarted \in 0..LcMaxStarts
    BY <1>1, LcAssumptions DEF LcInit
  <2>4. lcFile \in LcProcs \cup {LcNobody} /\ lcPc \in [LcProcs -> LcPcs]
    BY <1>1 DEF LcInit, LcPcs
  <2>5. LcFileInv
    BY <1>1 DEF LcInit, LcFileInv
  <2>6. LcReqInv
    BY <2>1 DEF LcReqInv
  <2> QED BY <2>1, <2>2, <2>3, <2>4, <2>5, <2>6 DEF LcInv, LcTyped
<1>2. LcInv /\ [LcNext]_lcVars => LcInv'
  BY LcTypedStep, LcFileStep, LcReqStep DEF LcInv
<1> QED BY <1>1, <1>2, PTL DEF LcSpec

\* Whatever order processes start, probe, remove, bind, leave and die in, the one that
\* serves is the one that `orbien reload` reaches, unless two starts overlapped.
THEOREM ServerIsReachable == LcSpec => []LcServerReachable
<1>1. LcInv => LcServerReachable
  BY DEF LcInv, LcFileInv, LcServerReachable
<1> QED BY <1>1, SocketAgrees, PTL

\* `orbien reload` reports success only for a configuration that was applied.
THEOREM SuccessIsApplied == LcSpec => []LcOkIsTrue
<1>1. LcInv => LcOkIsTrue
  BY DEF LcInv, LcReqInv, LcOkIsTrue
<1> QED BY <1>1, SocketAgrees, PTL

\* What the run checks of the control socket, types included.
THEOREM SocketIsSound == LcSpec => []LcSound
<1>1. LcInv => LcTypeOK
  BY DEF LcInv, LcTyped, LcPcs, LcReqs, LcReqPcs, LcTypeOK
<1>2. LcTypeOK /\ LcServerReachable /\ LcOkIsTrue => LcSound
  BY DEF LcSound
<1> QED BY <1>1, <1>2, SocketAgrees, ServerIsReachable, SuccessIsApplied, PTL

-----------------------------------------------------------------------------
(* ClientService, for any number of attempts, requests, faults, kicks and  *)
(* seconds.                                                                *)

SvIdle == {"top", "drain", "backoff"}
SvAttempt == {"login", "session", "waitEnd", "cancelEnd"}
SvLogin == [sid : SessionIds, sec : 0..MaxSecs]

\* Whatever makes a refusal the client's own doing.
SvCause ==
    \E i \in Attempts : left[i] \in {"aborted", "reload"} \/ (WithToken /\ left[i] = "hurried")

\* A request waits once in the queue; an answer is held back only after the session that
\* the request ended.
SvReqs ==
    /\ \A i, j \in 1..Len(queue) : queue[i] = queue[j] => i = j
    /\ \A i \in 1..Len(queue) : reply[queue[i]] = "queued"
    /\ HeldIsPending
    /\ pc = "session" => held = None

SvConfig == (pc = "login" => snap = cfg) /\ SessionMatchesConfig

\* The present attempt has not been left before its end, and later ones do not exist.
SvPlace ==
    /\ pc \in SvAttempt => k >= 1 /\ left[k] = "no"
    /\ pc \in SvIdle /\ k >= 1 => left[k] \in {"aborted", "reload", "disconnected", "hurried"}
    /\ \A i \in Attempts : i > k => left[i] = "no" /\ conn[i] = "none"
    /\ \A i \in Attempts : i <= k => conn[i] # "none" /\ login[i] \in SvLogin

\* A kick outlives its session only in a reload.
SvDone ==
    /\ pc = "login" => done = "none"
    /\ done = "kicked" => k >= 1
    /\ done = "kicked" /\ pc \in SvIdle => left[k] = "reload"

SvRefused ==
    /\ exit = "rejected" => SvCause
    /\ \A i \in Attempts : conn[i] = "refused" => SvCause

\* Without a cause every attempt is of the first one's session.
SvSids ==
    ~SvCause =>
       /\ \A i \in Attempts : i <= k => SessionId(i) = 1
       /\ k = 0 => sid = 0
       /\ pc \in SvIdle /\ k >= 1 => sid = 1
       /\ agent # None => agent.ses = 1

\* Without a cause no two attempts log in within the same second.
SvSecs ==
    /\ since <= now
    /\ \A i \in Attempts : i <= k => login[i].sec <= now
    /\ \A s \in seen : \E i \in Attempts : i <= k /\ login[i].sec = s /\ conn[i] # "sent"
    /\ ~SvCause /\ WithToken =>
          /\ \A i, j \in Attempts : i < j /\ j <= k => login[i].sec < login[j].sec
          /\ pc = "backoff" => \A i \in Attempts : i <= k => login[i].sec <= since
          /\ pc = "top" => SenderGone \/ \A i \in Attempts : i <= k => login[i].sec < now

SvInv ==
    /\ TypeOK /\ SvReqs /\ SvConfig /\ SvPlace /\ SvDone
    /\ SvRefused /\ SvSids /\ SvSecs

LEMMA SvNumbers ==
    ASSUME TypeOK
    PROVE  /\ k \in Nat /\ sid \in Nat /\ now \in Nat /\ since \in Nat /\ MaxAttempts \in Nat /\ MaxSecs \in Nat
           /\ MaxFaults \in Nat /\ MaxKicks \in Nat /\ faults \in Nat /\ kicks \in Nat
           /\ k <= MaxAttempts /\ (k >= 1 => k \in Attempts) /\ Attempts \subseteq Nat
           /\ \A i \in Attempts : i \in Nat /\ i >= 1
           /\ None \notin Reqs
  BY ServiceAssumptions DEF TypeOK, Attempts, SessionIds

-----------------------------------------------------------------------------
(* What the parts of the actions do.                                       *)

LEMMA SvServes ==
    ASSUME TypeOK, SvReqs, ServeReload
    PROVE  /\ cfg' \in Configs /\ queue' \in Seq(Reqs) /\ reply' \in [Reqs -> {"unsent", "queued", "held", "ok", "err"}]
           /\ \A r \in Reqs : Unanswered(r)' => Unanswered(r)
           /\ (held' = held /\ pc' # "session") => SvReqs'
  <1> DEFINE r == Head(queue)
  <1>1. /\ queue # <<>> /\ queue' = Tail(queue) /\ cfg' = IF want[r] = None THEN cfg ELSE want[r]
        /\ reply' = [reply EXCEPT ![r] = IF want[r] = None THEN "err" ELSE "ok"]
    BY DEF ServeReload
  <1>2. queue \in Seq(Reqs) /\ Len(queue) \in Nat /\ Len(queue) >= 1
    BY <1>1, LenProperties, EmptySeq DEF TypeOK
  <1>3. /\ r = queue[1] /\ r \in Reqs /\ queue' \in Seq(Reqs) /\ Len(queue') = Len(queue) - 1
        /\ \A i \in 1..Len(queue') : i + 1 \in 1..Len(queue) /\ queue'[i] = queue[i + 1]
    BY <1>1, <1>2, HeadTailProperties
  <1> HIDE DEF r
  <1>4. reply[r] = "queued" /\ reply \in [Reqs -> {"unsent", "queued", "held", "ok", "err"}]
    BY <1>2, <1>3 DEF SvReqs, TypeOK
  <1>5. cfg' \in Configs
    BY <1>1, <1>3 DEF TypeOK
  <1>6. /\ reply'[r] \in {"ok", "err"} /\ reply' \in [Reqs -> {"unsent", "queued", "held", "ok", "err"}]
        /\ \A q \in Reqs \ {r} : reply'[q] = reply[q]
    BY <1>1, <1>3, <1>4
  <1>7. \A q \in Reqs : Unanswered(q)' => Unanswered(q)
    BY <1>6 DEF Unanswered
  <1>8. ASSUME held' = held, pc' # "session" PROVE SvReqs'
    <2>1. \A i, j \in 1..Len(queue') : queue'[i] = queue'[j] => i = j
      <3> SUFFICES ASSUME NEW i \in 1..Len(queue'), NEW j \in 1..Len(queue'), queue'[i] = queue'[j] PROVE i = j
        OBVIOUS
      <3>1. i + 1 \in 1..Len(queue) /\ j + 1 \in 1..Len(queue) /\ queue[i + 1] = queue[j + 1]
        BY <1>3
      <3>2. i + 1 = j + 1
        BY <3>1 DEF SvReqs
      <3>3. QED
        BY <3>2
    <2>2. \A i \in 1..Len(queue') : reply'[queue'[i]] = "queued"
      <3> SUFFICES ASSUME NEW i \in 1..Len(queue') PROVE reply'[queue'[i]] = "queued"
        OBVIOUS
      <3>1. /\ i + 1 \in 1..Len(queue) /\ 1 \in 1..Len(queue) /\ i + 1 # 1 /\ queue'[i] = queue[i + 1]
            /\ queue[i + 1] \in Reqs
        BY <1>2, <1>3, ElementOfSeq
      <3>2. queue[i + 1] # r /\ reply[queue[i + 1]] = "queued"
        BY <1>3, <3>1 DEF SvReqs
      <3>3. QED
        BY <1>6, <3>1, <3>2
    <2>3. HeldIsPending'
      BY <1>4, <1>6, <1>8 DEF SvReqs, HeldIsPending
    <2>4. QED
      BY <1>8, <2>1, <2>2, <2>3 DEF SvReqs
  <1>9. QED
    BY <1>3, <1>5, <1>6, <1>7, <1>8

LEMMA SvStops ==
    ASSUME TypeOK, NEW why, Stop(why)
    PROVE  /\ pc' = "stopped" /\ exit' = why /\ held' = None /\ queue' \in Seq(Reqs)
           /\ reply' \in [Reqs -> {"unsent", "queued", "held", "ok", "err"}]
           /\ SvReqs'
  <1>1. /\ pc' = "stopped" /\ exit' = why /\ held' = None /\ queue' = <<>>
        /\ reply' = [r \in Reqs |-> IF Unanswered(r) THEN "err" ELSE reply[r]]
    BY DEF Stop
  <1>2. queue' \in Seq(Reqs) /\ Len(queue') = 0
    BY <1>1, EmptySeq
  <1>3. \A r \in Reqs : reply'[r] \in {"unsent", "queued", "held", "ok", "err"} /\ reply'[r] # "held"
    BY <1>1 DEF TypeOK, Unanswered
  <1>4. reply' \in [Reqs -> {"unsent", "queued", "held", "ok", "err"}]
    BY <1>1, <1>3
  <1>5. HeldIsPending'
    BY <1>1, <1>3, SvNumbers DEF HeldIsPending
  <1>6. SvReqs'
    BY <1>1, <1>2, <1>5 DEF SvReqs
  <1>7. QED
    BY <1>1, <1>2, <1>4, <1>6

LEMMA SvLeaves ==
    ASSUME TypeOK, SvPlace, pc \in SvAttempt, NEW how, Leave(how)
    PROVE  /\ k \in Attempts /\ left'[k] = how /\ cut'[k] = TRUE
           /\ \A i \in Attempts \ {k} : left'[i] = left[i] /\ cut'[i] = cut[i]
           /\ DOMAIN left' = Attempts /\ cut' \in [Attempts -> BOOLEAN]
           /\ SvCause => SvCause'
           /\ how \in {"aborted", "reload"} => SvCause'
           /\ how \in {"aborted", "reload", "disconnected", "kicked", "stopped"} =>
                 left' \in [Attempts -> {"no", "aborted", "reload", "disconnected", "hurried", "kicked", "stopped"}]
  <1>1. /\ left' = [left EXCEPT ![k] = how] /\ cut' = [cut EXCEPT ![k] = TRUE]
        /\ k \in Attempts /\ left[k] = "no"
    BY SvNumbers DEF Leave, SvPlace
  <1>2. /\ left \in [Attempts -> {"no", "aborted", "reload", "disconnected", "hurried", "kicked", "stopped"}]
        /\ cut \in [Attempts -> BOOLEAN]
    BY DEF TypeOK
  <1>3. /\ left'[k] = how /\ cut'[k] = TRUE /\ \A i \in Attempts \ {k} : left'[i] = left[i] /\ cut'[i] = cut[i]
        /\ DOMAIN left' = Attempts /\ cut' \in [Attempts -> BOOLEAN]
    BY <1>1, <1>2
  <1>4. SvCause => SvCause'
    <2> SUFFICES ASSUME SvCause PROVE SvCause'
      OBVIOUS
    <2>1. PICK i \in Attempts : left[i] \in {"aborted", "reload"} \/ (WithToken /\ left[i] = "hurried")
      BY DEF SvCause
    <2>2. i # k /\ left'[i] = left[i]
      BY <1>1, <1>3, <2>1
    <2>3. QED
      BY <2>1, <2>2 DEF SvCause
  <1>5. how \in {"aborted", "reload"} => SvCause'
    BY <1>1, <1>3 DEF SvCause
  <1>6. QED
    BY <1>1, <1>2, <1>3, <1>4, <1>5

\* A step of the client alone, which opens no session.
LEMMA SvLoginsKept ==
    ASSUME SvInv, UNCHANGED <<conn, login, agent, seen, now, k>>,
           SvCause => SvCause', exit' = "rejected" => SvCause',
           since' \in {since, now}, k = 0 => sid' = sid,
           ~SvCause' /\ k >= 1 /\ pc' \in SvIdle => sid' = 1,
           ~SvCause' /\ WithToken /\ pc' = "backoff" => (pc = "backoff" /\ since' = since) \/ since' = now,
           ~SvCause' /\ WithToken /\ pc' = "top" =>
              \/ pc = "top" /\ (SenderGone => SenderGone')
              \/ SenderGone'
              \/ k = 0
              \/ pc = "backoff" /\ now > since
    PROVE  SvRefused' /\ SvSids' /\ SvSecs'
  <1>1. /\ k \in Nat /\ now \in Nat /\ since \in Nat /\ \A i \in Attempts : i \in Nat /\ i >= 1
        /\ \A i \in Attempts : i <= k => login[i].sec \in Nat
    BY SvNumbers DEF SvInv, SvPlace, SvLogin
  <1>2. SvRefused'
    BY DEF SvInv, SvRefused
  <1>3. SvSids'
    BY DEF SvInv, SvSids, SessionId
  <1>4. /\ since' <= now' /\ \A i \in Attempts : i <= k' => login'[i].sec <= now'
        /\ \A s \in seen' : \E i \in Attempts : i <= k' /\ login'[i].sec = s /\ conn'[i] # "sent"
    BY <1>1 DEF SvInv, SvSecs
  <1>5. ASSUME ~SvCause', WithToken
        PROVE  /\ \A i, j \in Attempts : i < j /\ j <= k' => login'[i].sec < login'[j].sec
               /\ pc' = "backoff" => \A i \in Attempts : i <= k' => login'[i].sec <= since'
               /\ pc' = "top" => SenderGone' \/ \A i \in Attempts : i <= k' => login'[i].sec < now'
    <2>1. /\ \A i, j \in Attempts : i < j /\ j <= k => login[i].sec < login[j].sec
          /\ pc = "backoff" => \A i \in Attempts : i <= k => login[i].sec <= since
          /\ pc = "top" => SenderGone \/ \A i \in Attempts : i <= k => login[i].sec < now
          /\ \A i \in Attempts : i <= k => login[i].sec <= now
      BY <1>5 DEF SvInv, SvSecs
    <2>2. pc' = "backoff" => \A i \in Attempts : i <= k' => login'[i].sec <= since'
      BY <1>5, <2>1
    <2>3. pc' = "top" => SenderGone' \/ \A i \in Attempts : i <= k' => login'[i].sec < now'
      BY <1>1, <1>5, <2>1
    <2>4. QED
      BY <2>1, <2>2, <2>3
  <1>6. QED
    BY <1>2, <1>3, <1>4, <1>5 DEF SvSecs

-----------------------------------------------------------------------------
(* The client stops.                                                       *)

LEMMA SvStopIdle ==
    ASSUME SvInv, pc \in SvIdle, Stop("stopped"),
           UNCHANGED <<cfg, sid, k, snap, done, left, want, hung, server, world, cancel, cut>>
    PROVE  SvInv'
  <1>1. /\ UNCHANGED <<cfg, sid, k, snap, done, left, want, hung, conn, login, agent, seen, faults, kicks, now, since,
                       cancel, cut>>
        /\ pc' = "stopped" /\ exit' = "stopped" /\ held' = None /\ queue' \in Seq(Reqs)
        /\ reply' \in [Reqs -> {"unsent", "queued", "held", "ok", "err"}] /\ SvReqs'
    BY SvStops DEF SvInv, server, world
  <1>2. TypeOK'
    BY <1>1 DEF SvInv, TypeOK
  <1>3. SvConfig' /\ SvPlace' /\ SvDone'
    BY <1>1 DEF SvInv, SvConfig, SessionMatchesConfig, SvPlace, SvDone, SvAttempt, SvIdle
  <1>4. SvCause => SvCause'
    BY <1>1 DEF SvCause
  <1>5. SvRefused' /\ SvSids' /\ SvSecs'
    BY <1>1, <1>4, SvLoginsKept DEF SvIdle
  <1>6. QED
    BY <1>1, <1>2, <1>3, <1>5 DEF SvInv

LEMMA SvStopAttempt ==
    ASSUME SvInv, pc \in SvAttempt, NEW how \in {"kicked", "stopped"}, NEW why \in {"kicked", "stopped", "rejected"},
           Leave(how), Stop(why), why = "rejected" => SvCause,
           UNCHANGED <<cfg, sid, k, snap, done, want, hung, server, world, cancel>>
    PROVE  SvInv'
  <1>1. /\ UNCHANGED <<cfg, sid, k, snap, done, want, hung, conn, login, agent, seen, faults, kicks, now, since, cancel>>
        /\ pc' = "stopped" /\ exit' = why /\ held' = None /\ queue' \in Seq(Reqs)
        /\ reply' \in [Reqs -> {"unsent", "queued", "held", "ok", "err"}] /\ SvReqs'
    BY SvStops DEF SvInv, server, world
  <1>2. /\ k \in Attempts /\ \A i \in Attempts \ {k} : left'[i] = left[i]
        /\ cut' \in [Attempts -> BOOLEAN] /\ (SvCause => SvCause')
        /\ left' \in [Attempts -> {"no", "aborted", "reload", "disconnected", "hurried", "kicked", "stopped"}]
    BY SvLeaves DEF SvInv
  <1>3. TypeOK'
    BY <1>1, <1>2 DEF SvInv, TypeOK
  <1>4. SvConfig' /\ SvPlace' /\ SvDone'
    BY <1>1, <1>2, SvNumbers DEF SvInv, SvConfig, SessionMatchesConfig, SvPlace, SvDone, SvAttempt, SvIdle
  <1>5. SvRefused' /\ SvSids' /\ SvSecs'
    BY <1>1, <1>2, SvLoginsKept DEF SvIdle
  <1>6. QED
    BY <1>1, <1>3, <1>4, <1>5 DEF SvInv

LEMMA SvStopSteps ==
    ASSUME SvInv,
           TopCancelled \/ BackoffCancelled \/ LoginCancelled \/ LoginRejected \/ CancelEnds \/ SessionKicked
    PROVE  SvInv'
  <1>1. CASE TopCancelled
    BY <1>1, SvStopIdle DEF TopCancelled, SvIdle
  <1>2. CASE BackoffCancelled
    BY <1>2, SvStopIdle DEF BackoffCancelled, SvIdle
  <1>3. CASE LoginCancelled
    BY <1>3, SvStopAttempt DEF LoginCancelled, SvAttempt
  <1>4. CASE LoginRejected
    <2>1. pc = "login" /\ conn[k] = "refused" /\ k \in Attempts
      BY <1>4, SvNumbers DEF LoginRejected, SvInv, SvPlace, SvAttempt
    <2>2. SvCause
      BY <2>1 DEF SvInv, SvRefused
    <2>3. QED
      BY <1>4, <2>1, <2>2, SvStopAttempt DEF LoginRejected, SvAttempt
  <1>5. CASE CancelEnds
    BY <1>5, SvStopAttempt DEF CancelEnds, SvAttempt
  <1>6. CASE SessionKicked
    BY <1>6, SvStopAttempt DEF SessionKicked, SvAttempt
  <1>7. QED
    BY <1>1, <1>2, <1>3, <1>4, <1>5, <1>6

-----------------------------------------------------------------------------
(* The client leaves an attempt and goes on.                               *)

\* For a reason that may get it refused later.
LEMMA SvLeaveWithCause ==
    ASSUME SvInv, pc \in SvAttempt, NEW how \in {"aborted", "reload"}, Leave(how),
           done = "kicked" => how = "reload", pc' \in {"top", "backoff"}, since' \in {since, now},
           cfg' \in Configs, queue' \in Seq(Reqs), reply' \in [Reqs -> {"unsent", "queued", "held", "ok", "err"}], SvReqs',
           UNCHANGED <<sid, k, snap, done, exit, want, hung, held, server, faults, kicks, now, cancel>>
    PROVE  SvInv'
  <1>1. UNCHANGED <<sid, k, snap, done, exit, want, hung, held, conn, login, agent, seen, faults, kicks, now, cancel>>
    BY DEF server
  <1>2. /\ k \in Attempts /\ left'[k] = how /\ \A i \in Attempts \ {k} : left'[i] = left[i]
        /\ cut' \in [Attempts -> BOOLEAN] /\ SvCause'
        /\ left' \in [Attempts -> {"no", "aborted", "reload", "disconnected", "hurried", "kicked", "stopped"}]
    BY SvLeaves DEF SvInv
  <1>3. TypeOK'
    BY <1>1, <1>2 DEF SvInv, TypeOK
  <1>4. SvConfig'
    BY DEF SvConfig, SessionMatchesConfig
  <1>5. SvPlace' /\ SvDone'
    BY <1>1, <1>2, SvNumbers DEF SvInv, SvPlace, SvDone, SvAttempt, SvIdle
  <1>6. SvRefused' /\ SvSids' /\ SvSecs'
    BY <1>1, <1>2, SvLoginsKept, SvNumbers DEF SvInv
  <1>7. QED
    BY <1>3, <1>4, <1>5, <1>6 DEF SvInv

\* The requests are as they were.
LEMMA SvReqsKept ==
    ASSUME SvReqs, UNCHANGED <<queue, reply, held>>, pc' = "session" => pc = "session"
    PROVE  SvReqs'
  BY DEF SvReqs, HeldIsPending

LEMMA SvLeaveSteps ==
    ASSUME SvInv, LoginAborted \/ LoginHungUp \/ LoginLost \/ ReloadReconnect
    PROVE  SvInv'
  <1>1. CASE LoginAborted
    <2>1. /\ pc = "login" /\ ServeReload /\ Leave("aborted") /\ pc' = "top" /\ since' = since
          /\ UNCHANGED <<sid, k, snap, done, exit, want, hung, held, server, faults, kicks, now, cancel>>
      BY <1>1 DEF LoginAborted, world
    <2>2. /\ cfg' \in Configs /\ queue' \in Seq(Reqs) /\ reply' \in [Reqs -> {"unsent", "queued", "held", "ok", "err"}]
          /\ SvReqs'
      BY <2>1, SvServes DEF SvInv
    <2>3. done # "kicked"
      BY <2>1 DEF SvInv, SvDone
    <2>4. QED
      BY <2>1, <2>2, <2>3, SvLeaveWithCause DEF SvAttempt
  <1>2. ASSUME pc \in SvAttempt, NEW how \in {"aborted", "reload"}, Leave(how), done = "kicked" => how = "reload",
               pc' \in {"top", "backoff"}, since' \in {since, now},
               UNCHANGED <<cfg, sid, k, snap, done, exit, reloads, server, faults, kicks, now, cancel>>
        PROVE  SvInv'
    <2>1. UNCHANGED <<cfg, queue, want, reply, held, hung>>
      BY <1>2 DEF reloads
    <2>2. SvReqs' /\ cfg' \in Configs /\ queue' \in Seq(Reqs) /\ reply' \in [Reqs -> {"unsent", "queued", "held", "ok", "err"}]
      BY <1>2, <2>1, SvReqsKept DEF SvInv, TypeOK
    <2>3. QED
      BY <1>2, <2>1, <2>2, SvLeaveWithCause
  <1>3. CASE LoginHungUp
    BY <1>2, <1>3 DEF LoginHungUp, world, SvAttempt, SvInv, SvDone
  <1>4. CASE LoginLost
    BY <1>2, <1>4 DEF LoginLost, SvAttempt, SvInv, SvDone
  <1>5. CASE ReloadReconnect
    BY <1>2, <1>5 DEF ReloadReconnect, world, SvAttempt
  <1>6. QED
    BY <1>1, <1>3, <1>4, <1>5

LEMMA SvDisconnected == ASSUME SvInv, Disconnected PROVE SvInv'
  <1>1. CASE cancel /\ Leave("stopped") /\ Stop("stopped") /\ UNCHANGED sid
    BY <1>1, SvStopAttempt DEF Disconnected, SvAttempt
  <1>2. CASE /\ ~cancel /\ Leave("disconnected") /\ sid' = SessionId(k) /\ pc' = "drain"
             /\ UNCHANGED <<exit, reply, held, queue>>
    <2>1. /\ UNCHANGED <<cfg, k, snap, done, want, hung, conn, login, agent, seen, faults, kicks, now, since, cancel,
                          exit, reply, held, queue>>
          /\ pc = "session" /\ pc' = "drain" /\ done = "disconnected" /\ sid' = SessionId(k)
      BY <1>2 DEF Disconnected, server, world
    <2>2. /\ k \in Attempts /\ left'[k] = "disconnected" /\ \A i \in Attempts \ {k} : left'[i] = left[i]
          /\ cut' \in [Attempts -> BOOLEAN] /\ (SvCause => SvCause')
          /\ left' \in [Attempts -> {"no", "aborted", "reload", "disconnected", "hurried", "kicked", "stopped"}]
      BY <1>2, <2>1, SvLeaves DEF SvInv, SvAttempt
    <2>3. k \in Nat /\ k >= 1
      BY <2>2, SvNumbers DEF SvInv
    <2>4. SessionId(k) \in SessionIds
      <3>1. login[k] \in SvLogin
        BY <2>2, <2>3 DEF SvInv, SvPlace
      <3>2. QED
        BY <2>2, <3>1 DEF SvLogin, SessionId, SessionIds, Attempts
    <2>5. TypeOK'
      BY <2>1, <2>2, <2>4 DEF SvInv, TypeOK
    <2>6. SvReqs' /\ SvConfig'
      BY <2>1, SvReqsKept DEF SvInv, SvConfig, SessionMatchesConfig
    <2>7. SvPlace' /\ SvDone'
      BY <2>1, <2>2, <2>3, SvNumbers DEF SvInv, SvPlace, SvDone, SvAttempt, SvIdle
    <2>8. ~SvCause' => sid' = 1
      BY <2>1, <2>2, <2>3 DEF SvInv, SvSids
    <2>9. SvRefused' /\ SvSids' /\ SvSecs'
      BY <2>1, <2>2, <2>3, <2>8, SvLoginsKept DEF SvInv, SvRefused
    <2>10. QED
      BY <2>5, <2>6, <2>7, <2>9 DEF SvInv
  <1>3. QED
    BY <1>1, <1>2 DEF Disconnected

-----------------------------------------------------------------------------
(* Steps between the attempts.                                             *)

LEMMA SvDrainReload == ASSUME SvInv, DrainReload PROVE SvInv'
  <1>1. /\ pc \in {"top", "drain"} /\ ServeReload
        /\ UNCHANGED <<pc, sid, k, snap, done, left, exit, want, hung, held, conn, login, agent, seen,
                       faults, kicks, now, since, cancel, cut>>
    BY DEF DrainReload, server, world
  <1>2. /\ cfg' \in Configs /\ queue' \in Seq(Reqs) /\ reply' \in [Reqs -> {"unsent", "queued", "held", "ok", "err"}]
        /\ SvReqs' /\ \A r \in Reqs : Unanswered(r)' => Unanswered(r)
    BY <1>1, SvServes DEF SvInv
  <1>3. TypeOK'
    BY <1>1, <1>2 DEF SvInv, TypeOK
  <1>4. SvConfig' /\ SvPlace' /\ SvDone'
    BY <1>1 DEF SvInv, SvConfig, SessionMatchesConfig, SvPlace, SvDone, SvAttempt, SvIdle
  <1>5. SvCause => SvCause'
    BY <1>1 DEF SvCause
  <1>6. SvCause' => SvCause
    BY <1>1 DEF SvCause
  <1>7. SenderGone => SenderGone'
    BY <1>1, <1>2 DEF SenderGone
  <1>8. ~SvCause' /\ k >= 1 /\ pc' \in SvIdle => sid' = 1
    BY <1>1, <1>5 DEF SvInv, SvSids
  <1>9. SvRefused' /\ SvSids' /\ SvSecs'
    BY <1>1, <1>5, <1>7, <1>8, SvLoginsKept DEF SvInv, SvRefused
  <1>10. QED
    BY <1>2, <1>3, <1>4, <1>9 DEF SvInv

\* A step that leaves the requests, the configuration and the attempt as they are.
LEMMA SvIdleMoves ==
    ASSUME SvInv, pc \in SvIdle, pc' \in SvIdle, since' \in {since, now}, faults' \in 0..MaxFaults,
           UNCHANGED <<cfg, sid, k, snap, done, left, exit, reloads, server, kicks, now, cancel, cut>>,
           pc' = "backoff" => since' = now,
           WithToken /\ pc' = "top" => SenderGone \/ (pc = "backoff" /\ now > since)
    PROVE  SvInv'
  <1>1. UNCHANGED <<cfg, sid, k, snap, done, left, exit, queue, want, reply, held, hung, conn, login, agent, seen,
                    kicks, now, cancel, cut>>
    BY DEF reloads, server
  <1>2. TypeOK'
    BY <1>1 DEF SvInv, TypeOK, SvIdle
  <1>3. SvReqs' /\ SvConfig'
    BY <1>1, SvReqsKept DEF SvInv, SvConfig, SessionMatchesConfig, SvIdle
  <1>4. SvPlace' /\ SvDone'
    BY <1>1 DEF SvInv, SvPlace, SvDone, SvAttempt, SvIdle
  <1>5. (SvCause => SvCause') /\ (SenderGone => SenderGone')
    BY <1>1 DEF SvCause, SenderGone, Unanswered
  <1>6. ~SvCause' /\ k >= 1 /\ pc' \in SvIdle => sid' = 1
    BY <1>1, <1>5 DEF SvInv, SvSids
  <1>7. SvRefused' /\ SvSids' /\ SvSecs'
    BY <1>1, <1>5, <1>6, SvLoginsKept DEF SvInv, SvRefused
  <1>8. QED
    BY <1>2, <1>3, <1>4, <1>7 DEF SvInv

LEMMA SvIdleSteps == ASSUME SvInv, ConnectFails \/ Drained \/ BackoffOver PROVE SvInv'
  <1>1. CASE ConnectFails
    <2>1. faults' \in 0..MaxFaults
      BY <1>1, SvNumbers DEF ConnectFails, SvInv
    <2>2. QED
      BY <1>1, <2>1, SvIdleMoves DEF ConnectFails, SvIdle
  <1>2. CASE Drained
    <2>1. faults' \in 0..MaxFaults
      BY <1>2 DEF Drained, SvInv, TypeOK
    <2>2. QED
      BY <1>2, <2>1, SvIdleMoves DEF Drained, SvIdle
  <1>3. CASE BackoffOver
    <2>1. /\ faults' \in 0..MaxFaults
          /\ UNCHANGED <<cfg, sid, k, snap, done, left, exit, reloads, server, kicks, now, cancel, cut, since>>
      BY <1>3 DEF BackoffOver, SvInv, TypeOK, world
    <2>2. QED
      BY <1>3, <2>1, SvIdleMoves DEF BackoffOver, SvIdle
  <1>4. QED
    BY <1>1, <1>2, <1>3

LEMMA SvBackoffReload == ASSUME SvInv, BackoffReload PROVE SvInv'
  <1>1. /\ pc = "backoff" /\ pc' = "top" /\ ServeReload
        /\ left' = [i \in Attempts |-> IF i = k /\ left[i] = "disconnected" THEN "hurried" ELSE left[i]]
        /\ UNCHANGED <<sid, k, snap, done, exit, want, hung, held, conn, login, agent, seen,
                       faults, kicks, now, since, cancel, cut>>
    BY DEF BackoffReload, server, world
  <1>2. /\ cfg' \in Configs /\ queue' \in Seq(Reqs) /\ reply' \in [Reqs -> {"unsent", "queued", "held", "ok", "err"}]
        /\ SvReqs'
    BY <1>1, SvServes DEF SvInv
  <1>3. left' \in [Attempts -> {"no", "aborted", "reload", "disconnected", "hurried", "kicked", "stopped"}]
    BY <1>1 DEF SvInv, TypeOK
  <1>4. TypeOK'
    BY <1>1, <1>2, <1>3 DEF SvInv, TypeOK
  <1>5. SvConfig'
    BY <1>1 DEF SvConfig, SessionMatchesConfig
  <1>6. SvPlace' /\ SvDone'
    BY <1>1, SvNumbers DEF SvInv, SvPlace, SvDone, SvAttempt, SvIdle
  <1>7. SvCause => SvCause'
    <2> SUFFICES ASSUME SvCause PROVE SvCause'
      OBVIOUS
    <2>1. PICK i \in Attempts : left[i] \in {"aborted", "reload"} \/ (WithToken /\ left[i] = "hurried")
      BY DEF SvCause
    <2>2. left'[i] = left[i]
      BY <1>1, <2>1
    <2>3. QED
      BY <2>1, <2>2 DEF SvCause
  <1>8. ~SvCause' /\ WithToken => k = 0
    <2> SUFFICES ASSUME WithToken, k # 0 PROVE SvCause'
      OBVIOUS
    <2>1. k \in Attempts /\ k >= 1
      BY SvNumbers DEF SvInv
    <2>2. left[k] \in {"aborted", "reload", "disconnected", "hurried"}
      BY <1>1, <2>1 DEF SvInv, SvPlace, SvIdle
    <2>3. left'[k] \in {"aborted", "reload", "hurried"}
      BY <1>1, <2>1, <2>2
    <2>4. QED
      BY <2>1, <2>3 DEF SvCause
  <1>9. ~SvCause' /\ k >= 1 /\ pc' \in SvIdle => sid' = 1
    BY <1>1, <1>7 DEF SvInv, SvSids, SvIdle
  <1>10. SvRefused' /\ SvSids' /\ SvSecs'
    BY <1>1, <1>7, <1>8, <1>9, SvLoginsKept DEF SvInv, SvRefused
  <1>11. QED
    BY <1>2, <1>4, <1>5, <1>6, <1>10 DEF SvInv

LEMMA SvOpenSession == ASSUME SvInv, OpenSession PROVE SvInv'
  <1>1. /\ pc = "top" /\ ~SenderGone /\ k < MaxAttempts /\ k' = k + 1 /\ snap' = cfg
        /\ conn' = [conn EXCEPT ![k + 1] = "sent"]
        /\ login' = [login EXCEPT ![k + 1] = [sid |-> sid, sec |-> now]]
        /\ done' = "none" /\ pc' = "login"
        /\ UNCHANGED <<cfg, sid, left, exit, queue, want, reply, held, hung, agent, seen, faults, kicks, now, since,
                       cancel, cut>>
    BY DEF OpenSession, reloads, world
  <1>2. /\ k \in Nat /\ MaxAttempts \in Nat /\ now \in Nat /\ sid \in Nat /\ k + 1 \in Attempts /\ k + 1 \in SessionIds
        /\ \A i \in Attempts : i \in Nat /\ i >= 1
    BY <1>1, SvNumbers DEF SvInv, Attempts, SessionIds
  <1> DEFINE new == [sid |-> sid, sec |-> now]
  <1>3. new \in SvLogin /\ new.sid = sid /\ new.sec = now
    BY DEF SvInv, TypeOK, SvLogin
  <1> HIDE DEF new
  <1>4. /\ conn \in [Attempts -> {"none", "sent", "up", "kick", "refused", "over"}]
        /\ login \in [Attempts -> SvLogin \cup {None}]
    BY DEF SvInv, TypeOK, SvLogin
  <1>5. /\ conn' \in [Attempts -> {"none", "sent", "up", "kick", "refused", "over"}] /\ conn'[k + 1] = "sent"
        /\ login' \in [Attempts -> SvLogin \cup {None}] /\ login'[k + 1] = new
        /\ \A i \in Attempts : i # k + 1 => conn'[i] = conn[i] /\ login'[i] = login[i]
    BY <1>1, <1>2, <1>3, <1>4 DEF new
  <1>6. TypeOK'
    BY <1>1, <1>2, <1>5 DEF SvInv, TypeOK, SvLogin
  <1>7. SvReqs' /\ SvConfig'
    BY <1>1, SvReqsKept DEF SvInv, SvConfig, SessionMatchesConfig
  <1>8. SvPlace'
    <2>1. left'[k + 1] = "no"
      BY <1>1, <1>2 DEF SvInv, SvPlace
    <2>2. \A i \in Attempts : i > k + 1 => left'[i] = "no" /\ conn'[i] = "none"
      BY <1>1, <1>2, <1>5 DEF SvInv, SvPlace
    <2>3. \A i \in Attempts : i <= k + 1 => conn'[i] # "none" /\ login'[i] \in SvLogin
      BY <1>2, <1>3, <1>5 DEF SvInv, SvPlace
    <2>4. QED
      BY <1>1, <1>2, <2>1, <2>2, <2>3 DEF SvPlace, SvAttempt, SvIdle
  <1>9. SvDone'
    BY <1>1 DEF SvDone, SvIdle
  <1>10. (SvCause => SvCause') /\ (SvCause' => SvCause)
    BY <1>1 DEF SvCause
  <1>11. SvRefused'
    BY <1>1, <1>5, <1>10 DEF SvInv, SvRefused
  <1>12. SvSids'
    <2> SUFFICES ASSUME ~SvCause' PROVE (/\ \A i \in Attempts : i <= k => SessionId(i) = 1
                                         /\ k = 0 => sid = 0
                                         /\ pc \in SvIdle /\ k >= 1 => sid = 1
                                         /\ agent # None => agent.ses = 1)'
      BY DEF SvSids
    <2>1. /\ \A i \in Attempts : i <= k => SessionId(i) = 1
          /\ k = 0 => sid = 0
          /\ k >= 1 => sid = 1
          /\ agent # None => agent.ses = 1
      BY <1>1, <1>10 DEF SvInv, SvSids, SvIdle
    <2>2. ASSUME NEW i \in Attempts, i = k + 1 PROVE SessionId(i)' = 1
      BY <1>2, <1>3, <1>5, <2>1, <2>2 DEF SessionId
    <2>3. ASSUME NEW i \in Attempts, i <= k' PROVE SessionId(i)' = 1
      BY <1>1, <1>2, <1>5, <2>1, <2>2, <2>3 DEF SessionId
    <2>4. QED
      BY <1>1, <1>2, <2>1, <2>3 DEF SvIdle
  <1>13. /\ since' <= now' /\ \A i \in Attempts : i <= k' => login'[i].sec <= now'
    BY <1>1, <1>2, <1>3, <1>5 DEF SvInv, SvSecs
  <1>14. \A s \in seen' : \E i \in Attempts : i <= k' /\ login'[i].sec = s /\ conn'[i] # "sent"
    <2> SUFFICES ASSUME NEW s \in seen PROVE \E i \in Attempts : i <= k' /\ login'[i].sec = s /\ conn'[i] # "sent"
      BY <1>1
    <2>1. PICK i \in Attempts : i <= k /\ login[i].sec = s /\ conn[i] # "sent"
      BY DEF SvInv, SvSecs
    <2>2. QED
      BY <1>1, <1>2, <1>5, <2>1
  <1>15. ASSUME ~SvCause', WithToken
         PROVE  \A i, j \in Attempts : i < j /\ j <= k' => login'[i].sec < login'[j].sec
    <2>1. /\ \A i, j \in Attempts : i < j /\ j <= k => login[i].sec < login[j].sec
          /\ \A i \in Attempts : i <= k => login[i].sec < now
      BY <1>1, <1>10, <1>15 DEF SvInv, SvSecs
    <2> SUFFICES ASSUME NEW i \in Attempts, NEW j \in Attempts, i < j, j <= k' PROVE login'[i].sec < login'[j].sec
      OBVIOUS
    <2>2. CASE j = k + 1
      <3>1. i <= k /\ i # k + 1
        BY <1>2, <2>2
      <3>2. login'[i].sec < now /\ login'[j].sec = now
        BY <1>3, <1>5, <2>1, <2>2, <3>1
      <3>3. QED
        BY <3>2
    <2>3. CASE j # k + 1
      BY <1>1, <1>2, <1>5, <2>1, <2>3
    <2>4. QED
      BY <2>2, <2>3
  <1>16. SvSecs'
    BY <1>1, <1>13, <1>14, <1>15 DEF SvSecs
  <1>17. QED
    BY <1>6, <1>7, <1>8, <1>9, <1>11, <1>12, <1>16 DEF SvInv

-----------------------------------------------------------------------------
(* Steps inside an attempt, and of those that send to the client.          *)

\* A step after which nothing is different for the logins.
LEMMA SvLoginsFrame ==
    ASSUME SvInv, UNCHANGED <<conn, login, agent, seen, now, since, k, sid, left, exit>>,
           pc' \in SvIdle => pc' = pc, pc' = "top" => (SenderGone => SenderGone')
    PROVE  SvRefused' /\ SvSids' /\ SvSecs'
  <1>1. SvCause => SvCause'
    BY DEF SvCause
  <1>2. ~SvCause' /\ k >= 1 /\ pc' \in SvIdle => sid' = 1
    BY <1>1 DEF SvInv, SvSids
  <1>3. /\ pc' = "backoff" => pc = "backoff"
        /\ pc' = "top" => pc = "top"
    BY DEF SvIdle
  <1>4. QED
    BY <1>1, <1>2, <1>3, SvLoginsKept DEF SvInv, SvRefused

LEMMA SvLoginOk == ASSUME SvInv, LoginOk PROVE SvInv'
  <1>1. /\ pc = "login" /\ pc' = "session" /\ held' = None
        /\ reply' = IF held = None THEN reply ELSE [reply EXCEPT ![held] = "ok"]
        /\ UNCHANGED <<cfg, sid, k, snap, done, left, exit, queue, want, hung, conn, login, agent, seen,
                       faults, kicks, now, since, cancel, cut>>
    BY DEF LoginOk, server, world
  <1>2. /\ reply \in [Reqs -> {"unsent", "queued", "held", "ok", "err"}] /\ held \in Reqs \cup {None} /\ None \notin Reqs
        /\ queue \in Seq(Reqs)
    BY SvNumbers DEF SvInv, TypeOK
  <1>3. /\ reply' \in [Reqs -> {"unsent", "queued", "held", "ok", "err"}]
        /\ \A r \in Reqs : IF r = held THEN reply'[r] = "ok" ELSE reply'[r] = reply[r]
    BY <1>1, <1>2
  <1>4. TypeOK'
    BY <1>1, <1>3 DEF SvInv, TypeOK
  <1>5. \A r \in Reqs : reply[r] = "held" <=> held = r
    BY DEF SvInv, SvReqs, HeldIsPending
  <1>6. HeldIsPending'
    BY <1>1, <1>2, <1>3, <1>5 DEF HeldIsPending
  <1>7. \A i \in 1..Len(queue) : reply'[queue[i]] = "queued"
    <2> SUFFICES ASSUME NEW i \in 1..Len(queue) PROVE reply'[queue[i]] = "queued"
      OBVIOUS
    <2>1. queue[i] \in Reqs
      BY <1>2, ElementOfSeq
    <2>2. reply[queue[i]] = "queued"
      BY DEF SvInv, SvReqs
    <2>3. QED
      BY <1>3, <1>5, <2>1, <2>2
  <1>8. SvReqs'
    BY <1>1, <1>6, <1>7 DEF SvInv, SvReqs
  <1>9. SvConfig'
    BY <1>1 DEF SvInv, SvConfig, SessionMatchesConfig
  <1>10. SvPlace' /\ SvDone'
    BY <1>1 DEF SvInv, SvPlace, SvDone, SvAttempt, SvIdle
  <1>11. SvRefused' /\ SvSids' /\ SvSecs'
    BY <1>1, SvLoginsFrame DEF SvIdle
  <1>12. QED
    BY <1>4, <1>8, <1>9, <1>10, <1>11 DEF SvInv

LEMMA SvReloadInSession == ASSUME SvInv, ReloadInSession PROVE SvInv'
  <1> DEFINE r == Head(queue)
             c == want[r]
  <1>1. /\ pc = "session" /\ queue # <<>> /\ queue' = Tail(queue)
        /\ UNCHANGED <<sid, k, done, left, exit, want, hung, conn, login, agent, seen, faults, kicks, now, since, cancel, cut>>
    BY DEF ReloadInSession, server, world
  <1>2. \/ /\ c = None /\ reply' = [reply EXCEPT ![r] = "err"]
           /\ UNCHANGED <<pc, cfg, snap, held>>
        \/ /\ c # None /\ reply' = [reply EXCEPT ![r] = "ok"]
           /\ cfg' = c /\ snap' = IF cut[k] THEN snap ELSE c
           /\ UNCHANGED <<pc, held>>
        \/ /\ c # None /\ reply' = [reply EXCEPT ![r] = "held"]
           /\ cfg' = c /\ held' = r /\ pc' = "waitEnd" /\ UNCHANGED snap
    BY DEF ReloadInSession
  <1>3. queue \in Seq(Reqs) /\ Len(queue) \in Nat /\ Len(queue) >= 1
    BY <1>1, LenProperties, EmptySeq DEF SvInv, TypeOK
  <1>4. /\ r = queue[1] /\ r \in Reqs /\ queue' \in Seq(Reqs) /\ Len(queue') = Len(queue) - 1
        /\ \A i \in 1..Len(queue') : i + 1 \in 1..Len(queue) /\ queue'[i] = queue[i + 1]
    BY <1>1, <1>3, HeadTailProperties
  <1>5. c \in Configs \cup {None}
    BY <1>4 DEF SvInv, TypeOK
  <1> HIDE DEF r, c
  <1>6. /\ reply[r] = "queued" /\ reply \in [Reqs -> {"unsent", "queued", "held", "ok", "err"}]
        /\ held = None /\ None \notin Reqs /\ \A q \in Reqs : reply[q] # "held"
    BY <1>1, <1>3, <1>4, SvNumbers DEF SvInv, SvReqs, HeldIsPending, TypeOK
  <1>7. /\ reply' \in [Reqs -> {"unsent", "queued", "held", "ok", "err"}]
        /\ \A q \in Reqs \ {r} : reply'[q] = reply[q]
        /\ \/ reply'[r] \in {"ok", "err"} /\ held' = None /\ pc' = "session"
           \/ reply'[r] = "held" /\ held' = r /\ pc' = "waitEnd"
    BY <1>1, <1>2, <1>4, <1>6
  <1>8. cfg' \in Configs /\ snap' \in Configs
    BY <1>2, <1>5 DEF SvInv, TypeOK
  <1>9. TypeOK'
    BY <1>1, <1>4, <1>7, <1>8 DEF SvInv, TypeOK
  <1>10. HeldIsPending'
    BY <1>4, <1>6, <1>7 DEF HeldIsPending
  <1>11. \A i, j \in 1..Len(queue') : queue'[i] = queue'[j] => i = j
    <2> SUFFICES ASSUME NEW i \in 1..Len(queue'), NEW j \in 1..Len(queue'), queue'[i] = queue'[j] PROVE i = j
      OBVIOUS
    <2>1. i + 1 \in 1..Len(queue) /\ j + 1 \in 1..Len(queue) /\ queue[i + 1] = queue[j + 1]
      BY <1>4
    <2>2. i + 1 = j + 1
      BY <2>1 DEF SvInv, SvReqs
    <2>3. QED
      BY <2>2
  <1>12. \A i \in 1..Len(queue') : reply'[queue'[i]] = "queued"
    <2> SUFFICES ASSUME NEW i \in 1..Len(queue') PROVE reply'[queue'[i]] = "queued"
      OBVIOUS
    <2>1. /\ i + 1 \in 1..Len(queue) /\ 1 \in 1..Len(queue) /\ i + 1 # 1 /\ queue'[i] = queue[i + 1]
          /\ queue[i + 1] \in Reqs
      BY <1>3, <1>4, ElementOfSeq
    <2>2. queue[i + 1] # r /\ reply[queue[i + 1]] = "queued"
      BY <1>4, <2>1 DEF SvInv, SvReqs
    <2>3. QED
      BY <1>7, <2>1, <2>2
  <1>13. SvReqs'
    BY <1>7, <1>10, <1>11, <1>12 DEF SvReqs
  <1>14. SvConfig'
    BY <1>1, <1>2, <1>7 DEF SvInv, SvConfig, SessionMatchesConfig
  <1>15. SvPlace' /\ SvDone'
    BY <1>1, <1>7 DEF SvInv, SvPlace, SvDone, SvAttempt, SvIdle
  <1>16. SvRefused' /\ SvSids' /\ SvSecs'
    BY <1>1, <1>7, SvLoginsFrame DEF SvIdle
  <1>17. QED
    BY <1>9, <1>13, <1>14, <1>15, <1>16 DEF SvInv

\* The connection is cut, and nothing else but the place and the end of the session changes.
LEMMA SvCuts ==
    ASSUME SvInv, UNCHANGED <<cfg, sid, k, snap, left, exit, reloads, server, kicks, now, since>>,
           cancel' \in BOOLEAN, faults' \in 0..MaxFaults, k >= 1 \/ UNCHANGED cut, cut' = cut \/ cut' = [cut EXCEPT ![k] = TRUE],
           \/ pc' = pc /\ done' = done
           \/ pc \in {"session", "waitEnd", "cancelEnd"} /\ pc' = pc /\ done' \in {"kicked", "disconnected"}
           \/ pc = "session" /\ pc' = "cancelEnd" /\ done' = done
    PROVE  SvInv'
  <1>1. UNCHANGED <<cfg, sid, k, snap, left, exit, queue, want, reply, held, hung, conn, login, agent, seen,
                    kicks, now, since>>
    BY DEF reloads, server
  <1>2. /\ cut \in [Attempts -> BOOLEAN] /\ (k >= 1 => k \in Attempts)
    BY SvNumbers DEF SvInv, TypeOK
  <1>3. cut' \in [Attempts -> BOOLEAN] /\ (k >= 1 => (cut'[k] = cut[k] \/ cut'[k] = TRUE))
    BY <1>2
  <1>4. TypeOK'
    BY <1>1, <1>3 DEF SvInv, TypeOK
  <1>5. SvReqs'
    BY <1>1, SvReqsKept DEF SvInv
  <1>6. pc = "session" => k >= 1
    BY DEF SvInv, SvPlace, SvAttempt
  <1>7. SvConfig'
    BY <1>1, <1>3, <1>6 DEF SvInv, SvConfig, SessionMatchesConfig
  <1>8. SvPlace' /\ SvDone'
    BY <1>1 DEF SvInv, SvPlace, SvDone, SvAttempt, SvIdle
  <1>9. SenderGone => SenderGone'
    BY <1>1 DEF SenderGone, Unanswered
  <1>10. SvRefused' /\ SvSids' /\ SvSecs'
    BY <1>1, <1>9, SvLoginsFrame DEF SvIdle
  <1>11. QED
    BY <1>4, <1>5, <1>7, <1>8, <1>10 DEF SvInv

LEMMA SvCutSteps ==
    ASSUME SvInv, ReaderEnds \/ SessionHungUp \/ SessionCancelled \/ Cancel \/ Break PROVE SvInv'
  <1>1. /\ faults \in 0..MaxFaults /\ cancel \in BOOLEAN /\ (pc \in SvAttempt => k >= 1)
    BY DEF SvInv, TypeOK, SvPlace
  <1>2. CASE ReaderEnds
    <2>1. UNCHANGED <<cfg, sid, k, snap, left, exit, reloads, server, kicks, now, since, faults, cancel, pc>>
      BY <1>2 DEF ReaderEnds, world
    <2>2. QED
      BY <1>1, <1>2, <2>1, SvCuts DEF ReaderEnds, SvAttempt
  <1>3. CASE SessionHungUp
    <2>1. UNCHANGED <<cfg, sid, k, snap, left, exit, reloads, server, kicks, now, since, faults, cancel, pc, done>>
      BY <1>3 DEF SessionHungUp, world, client
    <2>2. QED
      BY <1>1, <1>3, <2>1, SvCuts DEF SessionHungUp, SvAttempt
  <1>4. CASE SessionCancelled
    <2>1. UNCHANGED <<cfg, sid, k, snap, left, exit, reloads, server, kicks, now, since, faults, cancel, cut, done>>
      BY <1>4 DEF SessionCancelled, world
    <2>2. QED
      BY <1>1, <1>4, <2>1, SvCuts DEF SessionCancelled
  <1>5. CASE Cancel
    <2>1. UNCHANGED <<cfg, sid, k, snap, left, exit, reloads, server, kicks, now, since, faults, cut, pc, done>>
      BY <1>5 DEF Cancel, world, client
    <2>2. cancel' \in BOOLEAN
      BY <1>5 DEF Cancel
    <2>3. QED
      BY <1>1, <2>1, <2>2, SvCuts
  <1>6. CASE Break
    <2>1. UNCHANGED <<cfg, sid, k, snap, left, exit, reloads, server, kicks, now, since, cancel, pc, done>>
      BY <1>6 DEF Break, client
    <2>2. faults' \in 0..MaxFaults /\ k >= 1 /\ cut' = [cut EXCEPT ![k] = TRUE]
      BY <1>6, SvNumbers DEF Break, SvInv
    <2>3. QED
      BY <1>1, <2>1, <2>2, SvCuts
  <1>7. QED
    BY <1>2, <1>3, <1>4, <1>5, <1>6

LEMMA SvHangUp == ASSUME SvInv, HangUp PROVE SvInv'
  <1>1. /\ ~hung /\ hung' = TRUE
        /\ UNCHANGED <<pc, cfg, sid, k, snap, done, left, exit, queue, want, reply, held, conn, login, agent, seen,
                       faults, kicks, now, since, cancel, cut>>
    BY DEF HangUp, client, server, world
  <1>2. TypeOK'
    BY <1>1 DEF SvInv, TypeOK
  <1>3. SvReqs' /\ SvConfig' /\ SvPlace' /\ SvDone'
    BY <1>1, SvReqsKept DEF SvInv, SvConfig, SessionMatchesConfig, SvPlace, SvDone
  <1>4. ~SenderGone
    BY <1>1 DEF SenderGone
  <1>5. SvRefused' /\ SvSids' /\ SvSecs'
    BY <1>1, <1>4, SvLoginsFrame
  <1>6. QED
    BY <1>2, <1>3, <1>5 DEF SvInv

LEMMA SvSendReload == ASSUME SvInv, NEW r \in Reqs, SendReload(r) PROVE SvInv'
  <1>1. /\ reply[r] = "unsent" /\ ~hung /\ queue' = Append(queue, r) /\ reply' = [reply EXCEPT ![r] = "queued"]
        /\ UNCHANGED <<pc, cfg, sid, k, snap, done, left, exit, held, hung, conn, login, agent, seen,
                       faults, kicks, now, since, cancel, cut>>
    BY DEF SendReload, client, server, world
  <1>2. PICK c \in Configs \cup {None} : want' = [want EXCEPT ![r] = c]
    BY DEF SendReload
  <1>3. want' \in [Reqs -> Configs \cup {None}]
    BY <1>2 DEF SvInv, TypeOK
  <1>4. queue \in Seq(Reqs) /\ Len(queue) \in Nat /\ \A i \in 1..Len(queue) : queue[i] \in Reqs
    BY LenProperties, ElementOfSeq DEF SvInv, TypeOK
  <1>5. /\ queue' \in Seq(Reqs) /\ Len(queue') = Len(queue) + 1
        /\ \A i \in 1..Len(queue) : queue'[i] = queue[i] /\ queue'[Len(queue) + 1] = r
    BY <1>1, <1>4, AppendProperties
  <1>6. queue'[Len(queue) + 1] = r
    BY <1>1, <1>4, AppendProperties
  <1>7. /\ reply' \in [Reqs -> {"unsent", "queued", "held", "ok", "err"}] /\ reply'[r] = "queued"
        /\ \A q \in Reqs \ {r} : reply'[q] = reply[q]
    BY <1>1 DEF SvInv, TypeOK
  <1>8. TypeOK'
    BY <1>1, <1>3, <1>5, <1>7 DEF SvInv, TypeOK
  <1>9. \A i \in 1..Len(queue) : reply[queue[i]] = "queued" /\ queue[i] # r
    BY <1>1, <1>4 DEF SvInv, SvReqs
  <1>10. \A i \in 1..Len(queue') : i \in 1..Len(queue) \/ i = Len(queue) + 1
    BY <1>4, <1>5
  <1>11. \A i \in 1..Len(queue') : reply'[queue'[i]] = "queued"
    BY <1>4, <1>5, <1>6, <1>7, <1>9, <1>10
  <1>12. \A i, j \in 1..Len(queue') : queue'[i] = queue'[j] => i = j
    BY <1>5, <1>6, <1>9, <1>10 DEF SvInv, SvReqs
  <1>13. HeldIsPending'
    BY <1>1, <1>7 DEF SvInv, SvReqs, HeldIsPending
  <1>14. SvReqs'
    BY <1>1, <1>11, <1>12, <1>13 DEF SvInv, SvReqs
  <1>15. SvConfig' /\ SvPlace' /\ SvDone'
    BY <1>1 DEF SvInv, SvConfig, SessionMatchesConfig, SvPlace, SvDone
  <1>16. ~SenderGone
    BY <1>1 DEF SenderGone
  <1>17. SvRefused' /\ SvSids' /\ SvSecs'
    BY <1>1, <1>16, SvLoginsFrame
  <1>18. QED
    BY <1>8, <1>14, <1>15, <1>17 DEF SvInv

-----------------------------------------------------------------------------
(* The server, and time.                                                   *)

\* A step of the server: it answers no login but with a cause, sees no second but that of a
\* login it takes up, and has the agent online on the session of a login.
LEMMA SvServerMoves ==
    ASSUME SvInv, UNCHANGED <<client, reloads, login, faults, now, since, cancel, cut>>, kicks' \in 0..MaxKicks,
           conn' \in [Attempts -> {"none", "sent", "up", "kick", "refused", "over"}],
           \A j \in Attempts : /\ conn'[j] = "none" <=> conn[j] = "none"
                               /\ conn'[j] = "sent" => conn[j] = "sent"
                               /\ conn'[j] = "refused" => conn[j] = "refused" \/ SvCause,
           agent' = agent \/ agent' = None \/ \E j \in Attempts : j <= k /\ agent' = [ses |-> SessionId(j), gen |-> j],
           \A s \in seen' : s \in seen \/ \E j \in Attempts : j <= k /\ login[j].sec = s /\ conn'[j] # "sent"
    PROVE  SvInv'
  <1>1. UNCHANGED <<pc, cfg, sid, k, snap, done, left, exit, queue, want, reply, held, hung, login, faults, now, since,
                    cancel, cut>>
    BY DEF client, reloads
  <1>2. agent' \in [ses : Attempts, gen : Attempts] \cup {None}
    <2>1. ASSUME NEW j \in Attempts, j <= k PROVE SessionId(j) \in Attempts
      <3>1. login[j] \in SvLogin
        BY <2>1 DEF SvInv, SvPlace
      <3>2. QED
        BY <3>1 DEF SvLogin, SessionId, SessionIds, Attempts
    <2>2. QED
      BY <2>1 DEF SvInv, TypeOK
  <1>3. ASSUME NEW s \in seen' PROVE \E j \in Attempts : j <= k /\ login[j].sec = s /\ conn'[j] # "sent"
    <2>1. CASE s \in seen
      BY <2>1 DEF SvInv, SvSecs
    <2>2. QED
      BY <1>3, <2>1
  <1>4. seen' \subseteq 0..MaxSecs
    BY <1>3 DEF SvInv, SvPlace, SvLogin
  <1>5. TypeOK'
    BY <1>1, <1>2, <1>4 DEF SvInv, TypeOK
  <1>6. SvReqs' /\ SvConfig' /\ SvDone'
    BY <1>1, SvReqsKept DEF SvInv, SvConfig, SessionMatchesConfig, SvDone
  <1>7. SvPlace'
    BY <1>1 DEF SvInv, SvPlace
  <1>8. (SvCause => SvCause') /\ (SvCause' => SvCause)
    BY <1>1 DEF SvCause
  <1>9. SvRefused'
    BY <1>1, <1>8 DEF SvInv, SvRefused
  <1>10. SvSids'
    <2> SUFFICES ASSUME ~SvCause PROVE (/\ \A i \in Attempts : i <= k => SessionId(i) = 1
                                        /\ k = 0 => sid = 0
                                        /\ pc \in SvIdle /\ k >= 1 => sid = 1
                                        /\ agent # None => agent.ses = 1)'
      BY <1>8 DEF SvSids
    <2>1. /\ \A i \in Attempts : i <= k => SessionId(i) = 1
          /\ k = 0 => sid = 0
          /\ pc \in SvIdle /\ k >= 1 => sid = 1
          /\ agent # None => agent.ses = 1
      BY DEF SvInv, SvSids
    <2>2. agent' # None => agent'.ses = 1
      BY <2>1
    <2>3. QED
      BY <1>1, <2>1, <2>2 DEF SessionId
  <1>11. SenderGone => SenderGone'
    BY <1>1 DEF SenderGone, Unanswered
  <1>12. SvSecs'
    <2>1. /\ since' <= now' /\ \A i \in Attempts : i <= k' => login'[i].sec <= now'
          /\ \A s \in seen' : \E i \in Attempts : i <= k' /\ login'[i].sec = s /\ conn'[i] # "sent"
      BY <1>1, <1>3 DEF SvInv, SvSecs
    <2>2. QED
      BY <1>1, <1>8, <1>11, <2>1 DEF SvInv, SvSecs
  <1>13. QED
    BY <1>5, <1>6, <1>7, <1>9, <1>10, <1>12 DEF SvInv

\* Without a cause a login is neither a replay nor on another session than the agent.
LEMMA SvAccepted ==
    ASSUME SvInv, NEW i \in Attempts, conn[i] = "sent", i <= k, Replayed(i) \/ Conflict(i)
    PROVE  SvCause
  <1> SUFFICES ASSUME ~SvCause PROVE FALSE
    OBVIOUS
  <1>1. CASE Conflict(i)
    BY <1>1 DEF Conflict, SvInv, SvSids
  <1>2. CASE Replayed(i)
    <2>1. PICK j \in Attempts : j <= k /\ login[j].sec = login[i].sec /\ conn[j] # "sent"
      BY <1>2 DEF Replayed, SvInv, SvSecs
    <2>2. \A a, b \in Attempts : a < b /\ b <= k => login[a].sec < login[b].sec
      BY <1>2 DEF Replayed, SvInv, SvSecs
    <2>3. i # j /\ i \in Nat /\ j \in Nat
      BY <2>1, SvNumbers DEF SvInv
    <2>4. login[i].sec \in Nat /\ login[j].sec \in Nat
      BY <2>1 DEF SvInv, SvPlace, SvLogin
    <2>5. QED
      BY <2>1, <2>2, <2>3, <2>4
  <1>3. QED
    BY <1>1, <1>2

LEMMA SvServerLogin == ASSUME SvInv, NEW i \in Attempts, ServerLogin(i) PROVE SvInv'
  <1>1. /\ conn[i] = "sent" /\ seen' = IF WithToken THEN seen \cup {login[i].sec} ELSE seen
        /\ UNCHANGED <<client, reloads, login, faults, kicks, now, since, cancel, cut>>
    BY DEF ServerLogin, world
  <1>2. i <= k /\ k \in Nat /\ i \in Nat /\ conn \in [Attempts -> {"none", "sent", "up", "kick", "refused", "over"}]
        /\ kicks' \in 0..MaxKicks
    <2>1. k \in Nat /\ i \in Nat
      BY SvNumbers DEF SvInv
    <2>2. i <= k
      BY <1>1, <2>1 DEF SvInv, SvPlace
    <2>3. QED
      BY <1>1, <2>1, <2>2 DEF SvInv, TypeOK
  <1>3. CASE Replayed(i) \/ Conflict(i)
    <2>1. SvCause
      BY <1>1, <1>2, <1>3, SvAccepted
    <2>2. conn' = [conn EXCEPT ![i] = "refused"] /\ agent' = agent
      BY <1>3 DEF ServerLogin
    <2>3. /\ conn' \in [Attempts -> {"none", "sent", "up", "kick", "refused", "over"}]
          /\ conn'[i] = "refused" /\ \A j \in Attempts \ {i} : conn'[j] = conn[j]
      BY <1>2, <2>2
    <2>4. \A s \in seen' : s \in seen \/ \E j \in Attempts : j <= k /\ login[j].sec = s /\ conn'[j] # "sent"
      BY <1>1, <1>2, <2>3
    <2>5. QED
      BY <1>1, <1>2, <2>1, <2>2, <2>3, <2>4, SvServerMoves
  <1>4. CASE ~(Replayed(i) \/ Conflict(i))
    <2>1. /\ conn' = [j \in Attempts |-> IF j = i THEN "up"
                                        ELSE IF conn[j] = "up" /\ SessionId(j) = SessionId(i) THEN "over" ELSE conn[j]]
          /\ agent' = [ses |-> SessionId(i), gen |-> i]
      BY <1>4 DEF ServerLogin
    <2>2. /\ conn' \in [Attempts -> {"none", "sent", "up", "kick", "refused", "over"}] /\ conn'[i] = "up"
          /\ \A j \in Attempts \ {i} : conn'[j] = conn[j] \/ (conn[j] = "up" /\ conn'[j] = "over")
      BY <1>2, <2>1
    <2>3. \A s \in seen' : s \in seen \/ \E j \in Attempts : j <= k /\ login[j].sec = s /\ conn'[j] # "sent"
      BY <1>1, <1>2, <2>2
    <2>4. \A j \in Attempts : /\ conn'[j] = "none" <=> conn[j] = "none"
                              /\ conn'[j] = "sent" => conn[j] = "sent"
                              /\ conn'[j] = "refused" => conn[j] = "refused"
      BY <1>1, <2>2
    <2>5. QED
      BY <1>1, <1>2, <2>1, <2>2, <2>3, <2>4, SvServerMoves
  <1>5. QED
    BY <1>3, <1>4

LEMMA SvServerEnds == ASSUME SvInv, NEW i \in Attempts, ServerNotices(i) \/ ServerKick(i) PROVE SvInv'
  <1>1. PICK state \in {"over", "kick"} : conn' = [conn EXCEPT ![i] = state]
    BY DEF ServerNotices, ServerKick
  <1>2. /\ conn[i] \in {"sent", "up", "kick", "refused"} /\ Release(i)
        /\ UNCHANGED <<client, reloads, login, seen, faults, now, since, cancel, cut>>
    BY DEF ServerNotices, ServerKick, world
  <1>3. kicks' \in 0..MaxKicks
    <2>1. kicks \in 0..MaxKicks /\ kicks \in Nat /\ MaxKicks \in Nat
      BY SvNumbers DEF SvInv, TypeOK
    <2>2. kicks' = kicks \/ (kicks < MaxKicks /\ kicks' = kicks + 1)
      BY DEF ServerNotices, ServerKick, world
    <2>3. QED
      BY <2>1, <2>2
  <1>4. conn \in [Attempts -> {"none", "sent", "up", "kick", "refused", "over"}]
    BY DEF SvInv, TypeOK
  <1>5. /\ conn' \in [Attempts -> {"none", "sent", "up", "kick", "refused", "over"}]
        /\ \A j \in Attempts : /\ conn'[j] = "none" <=> conn[j] = "none"
                               /\ conn'[j] = "sent" => conn[j] = "sent"
                               /\ conn'[j] = "refused" => conn[j] = "refused"
    BY <1>1, <1>2, <1>4
  <1>6. agent' = agent \/ agent' = None
    BY <1>2 DEF Release
  <1>7. seen' = seen
    BY <1>2
  <1>8. QED
    BY <1>2, <1>3, <1>5, <1>6, <1>7, SvServerMoves

LEMMA SvTick == ASSUME SvInv, Tick PROVE SvInv'
  <1>1. /\ now < MaxSecs /\ now' = now + 1
        /\ UNCHANGED <<pc, cfg, sid, k, snap, done, left, exit, queue, want, reply, held, hung, conn, login, agent, seen,
                       faults, kicks, since, cancel, cut>>
    BY DEF Tick, client, reloads, server
  <1>2. /\ now \in Nat /\ since \in Nat /\ MaxSecs \in Nat /\ \A i \in Attempts : i <= k => login[i].sec \in Nat
    BY SvNumbers DEF SvInv, SvPlace, SvLogin
  <1>3. TypeOK'
    BY <1>1, <1>2 DEF SvInv, TypeOK
  <1>4. SvReqs' /\ SvConfig' /\ SvPlace' /\ SvDone'
    BY <1>1, SvReqsKept DEF SvInv, SvConfig, SessionMatchesConfig, SvPlace, SvDone
  <1>5. (SvCause => SvCause') /\ (SvCause' => SvCause)
    BY <1>1 DEF SvCause
  <1>6. SvRefused' /\ SvSids'
    BY <1>1, <1>5 DEF SvInv, SvRefused, SvSids, SessionId
  <1>7. SenderGone => SenderGone'
    BY <1>1 DEF SenderGone, Unanswered
  <1>8. SvSecs'
    <2>1. /\ since' <= now' /\ \A i \in Attempts : i <= k' => login'[i].sec <= now'
          /\ \A s \in seen' : \E i \in Attempts : i <= k' /\ login'[i].sec = s /\ conn'[i] # "sent"
      BY <1>1, <1>2 DEF SvInv, SvSecs
    <2>2. ASSUME ~SvCause, WithToken
          PROVE  /\ \A i, j \in Attempts : i < j /\ j <= k => login[i].sec < login[j].sec
                 /\ pc = "backoff" => \A i \in Attempts : i <= k => login[i].sec <= since
                 /\ pc = "top" => SenderGone \/ \A i \in Attempts : i <= k => login[i].sec < now + 1
      BY <1>2, <2>2 DEF SvInv, SvSecs
    <2>3. QED
      BY <1>1, <1>5, <1>7, <2>1, <2>2 DEF SvSecs
  <1>9. QED
    BY <1>3, <1>4, <1>6, <1>8 DEF SvInv

LEMMA SvInit == Init => SvInv
  <1> SUFFICES ASSUME Init PROVE SvInv
    OBVIOUS
  <1>1. /\ queue \in Seq(Reqs) /\ Len(queue) = 0 /\ MaxAttempts \in Nat /\ MaxSecs \in Nat /\ MaxFaults \in Nat
        /\ MaxKicks \in Nat /\ None \notin Reqs
    BY ServiceAssumptions, EmptySeq DEF Init
  <1>2. TypeOK
    <2>1. 0 \in SessionIds /\ 0 \in 0..MaxFaults /\ 0 \in 0..MaxKicks /\ 0 \in 0..MaxSecs
      BY <1>1 DEF SessionIds
    <2>2. /\ left \in [Attempts -> {"no", "aborted", "reload", "disconnected", "hurried", "kicked", "stopped"}]
          /\ want \in [Reqs -> Configs \cup {None}] /\ reply \in [Reqs -> {"unsent", "queued", "held", "ok", "err"}]
          /\ conn \in [Attempts -> {"none", "sent", "up", "kick", "refused", "over"}] /\ cut \in [Attempts -> BOOLEAN]
          /\ login \in [Attempts -> [sid : SessionIds, sec : 0..MaxSecs] \cup {None}]
      BY DEF Init
    <2>3. QED
      BY <1>1, <2>1, <2>2 DEF Init, TypeOK
  <1>3. SvReqs
    BY <1>1 DEF Init, SvReqs, HeldIsPending
  <1>4. SvConfig /\ SvPlace /\ SvDone
    BY <1>1 DEF Init, SvConfig, SessionMatchesConfig, SvPlace, SvDone, SvAttempt, SvIdle, Attempts
  <1>5. SvRefused /\ SvSids /\ SvSecs
    BY <1>1 DEF Init, SvRefused, SvSids, SvSecs, SvIdle, Attempts
  <1>6. QED
    BY <1>2, <1>3, <1>4, <1>5 DEF SvInv

LEMMA SvStep == SvInv /\ [Next]_vars => SvInv'
  <1> SUFFICES ASSUME SvInv, [Next]_vars PROVE SvInv'
    OBVIOUS
  <1>1. CASE UNCHANGED vars
    <2>1. UNCHANGED <<pc, cfg, sid, k, snap, done, left, exit, queue, want, reply, held, hung, conn, login, agent, seen,
                      faults, kicks, now, since, cancel, cut>>
      BY <1>1 DEF vars, client, reloads, server, world
    <2>2. TypeOK'
      BY <2>1 DEF SvInv, TypeOK
    <2>3. SvReqs' /\ SvConfig' /\ SvPlace' /\ SvDone'
      BY <2>1, SvReqsKept DEF SvInv, SvConfig, SessionMatchesConfig, SvPlace, SvDone
    <2>4. SenderGone => SenderGone'
      BY <2>1 DEF SenderGone, Unanswered
    <2>5. SvRefused' /\ SvSids' /\ SvSecs'
      BY <2>1, <2>4, SvLoginsFrame
    <2>6. QED
      BY <2>2, <2>3, <2>5 DEF SvInv
  <1>2. CASE ServiceStep
    BY <1>2, SvStopSteps, SvLeaveSteps, SvDisconnected, SvDrainReload, SvIdleSteps, SvBackoffReload, SvOpenSession,
       SvLoginOk, SvReloadInSession, SvCutSteps DEF ServiceStep
  <1>3. QED
    BY <1>1, <1>2, SvIdleSteps, SvCutSteps, SvHangUp, SvSendReload, SvServerLogin, SvServerEnds, SvTick DEF Next

\* For any number of attempts and requests: the session in use was opened with the
\* configuration in force and every later reload reached it, and the request whose answer
\* waits for the reconnect is the one that Service::run holds.
THEOREM ServiceStaysConsistent == Spec => []ServiceConsistent
  <1>1. SvInv => ServiceConsistent
    BY DEF SvInv, SvConfig, SvReqs, ServiceConsistent
  <1>2. QED
    BY <1>1, SvInit, SvStep, PTL DEF Spec

\* For any number of attempts, faults and seconds: a client that was refused had aborted a
\* login, reconnected for a reload, or come back within the second because of one.
THEOREM RejectionsHaveCauses == Spec => []RejectionHasCause
  <1>1. SvInv => RejectionHasCause
    BY DEF SvInv, SvRefused, SvCause, RejectionHasCause
  <1>2. QED
    BY <1>1, SvInit, SvStep, PTL DEF Spec

\* A kicked client logs in again only when a reload was reconnecting it.
THEOREM KickedStaysAway == Spec => KickedReturnsByReload
  <1>1. SvInv /\ [Next]_vars => [done = "kicked" /\ k' # k => left[k] = "reload"]_vars
    <2> SUFFICES ASSUME SvInv, Next, done = "kicked", k' # k PROVE left[k] = "reload"
      BY DEF vars, client
    <2>1. ~OpenSession => k' = k
      BY DEF Next, ServiceStep, DrainReload, TopCancelled, LoginCancelled, LoginAborted, LoginHungUp, LoginLost,
             LoginRejected, LoginOk, ReaderEnds, ReloadInSession, SessionHungUp, ReloadReconnect, SessionCancelled,
             CancelEnds, SessionKicked, Disconnected, Drained, BackoffOver, BackoffReload, BackoffCancelled,
             ConnectFails, Cancel, HangUp, Break, Tick, SendReload, ServerLogin, ServerNotices, ServerKick, client
    <2>2. pc = "top"
      BY <2>1 DEF OpenSession
    <2>3. QED
      BY <2>2 DEF SvInv, SvDone, SvIdle
  <1>2. QED
    BY <1>1, SvInit, SvStep, PTL DEF Spec, KickedReturnsByReload
=============================================================================
