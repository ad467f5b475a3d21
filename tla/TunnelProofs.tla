---------------------------- MODULE TunnelProofs ----------------------------
(***************************************************************************)
(* Proofs about the tunnels of a client: those it has against those of the *)
(* server, through reloads and lost sessions, for any number of names,     *)
(* versions, reloads and breaks; and the two ends of a udp tunnel: the     *)
(* client's forwarder, for any number of visitors and sockets, and the     *)
(* server's tunnel with the client's sessions, for any number of data      *)
(* connections and failures.                                               *)
(***************************************************************************)
EXTENDS ClientTunnels, UdpForwarder, UdpTunnel, SequenceTheorems, FiniteSetTheorems,
        WellFoundedInduction, TLAPS

-----------------------------------------------------------------------------
(* The tunnels of a client and of its session on the server.  A stream is  *)
(* a sequence of messages, each about one name; the invariant speaks of    *)
(* what a stream says about one name, so that a step about another name    *)
(* makes no difference (CtFrame).                                          *)

CtReq == [kind : {"new", "close"}, name : Names, ver : Versions \cup {Absent}]
CtAns == [name : Names, ok : BOOLEAN, ver : Versions]

\* What a stream s holds about a name: some message; a request; a refusal.
CtAbout(s, n) == \E i \in 1..Len(s) : s[i].name = n
CtAsked(s, n) == \E i \in 1..Len(s) : s[i].name = n /\ s[i].kind = "new"
CtRefused(s, n) == \E i \in 1..Len(s) : s[i].name = n /\ s[i].ok = FALSE

\* The last message about n has version ver.
CtLastVer(s, n, ver) ==
    \E i \in 1..Len(s) : /\ s[i].name = n /\ s[i].ver = ver
                         /\ \A j \in 1..Len(s) : s[j].name = n => j <= i

\* No two messages are about n; no two of them are requests; nothing follows a request.
CtSingle(s, n) == \A i, j \in 1..Len(s) : s[i].name = n /\ s[j].name = n => i = j
CtOneNew(s, n) ==
    \A i, j \in 1..Len(s) :
        s[i].name = n /\ s[i].kind = "new" /\ s[j].name = n /\ s[j].kind = "new" => i = j
CtNewLast(s, n) ==
    \A i, j \in 1..Len(s) : s[i].name = n /\ s[i].kind = "new" /\ s[j].name = n => j <= i

\* A success about n is that of version ver.
CtGranted(s, n, ver) == \A i \in 1..Len(s) : s[i].name = n /\ s[i].ok = TRUE => s[i].ver = ver

\* A closing has no version, and nothing else has none.
CtKinds(s) == \A i \in 1..Len(s) : s[i].kind = "close" <=> s[i].ver = Absent

-----------------------------------------------------------------------------
(* Streams.                                                                *)

\* What s says about n, t says as well.
CtSays(s, t, n) ==
    /\ CtAbout(s, n) => CtAbout(t, n)
    /\ CtAsked(s, n) => CtAsked(t, n)
    /\ CtRefused(s, n) => CtRefused(t, n)
    /\ CtSingle(t, n) => CtSingle(s, n)
    /\ CtOneNew(t, n) => CtOneNew(s, n)
    /\ CtNewLast(t, n) => CtNewLast(s, n)
    /\ \A v : CtLastVer(s, n, v) => CtLastVer(t, n, v)
    /\ \A v : CtGranted(t, n, v) => CtGranted(s, n, v)

CtSame(s, t, n) == CtSays(s, t, n) /\ CtSays(t, s, n)

\* So it is when the messages about n are the same, moved by d.
LEMMA CtMoved ==
    ASSUME NEW s, NEW t, NEW n, NEW d \in Int,
           \A i \in 1..Len(s) : s[i].name = n => i - d \in 1..Len(t) /\ t[i - d] = s[i],
           \A i \in 1..Len(t) : t[i].name = n => i + d \in 1..Len(s) /\ s[i + d] = t[i]
    PROVE  CtSays(s, t, n)
  <1>1. (CtAbout(s, n) => CtAbout(t, n)) /\ (CtAsked(s, n) => CtAsked(t, n))
    <2>1. ASSUME CtAbout(s, n) PROVE CtAbout(t, n)
      BY <2>1 DEF CtAbout
    <2>2. ASSUME CtAsked(s, n) PROVE CtAsked(t, n)
      BY <2>2 DEF CtAsked
    <2>3. QED
      BY <2>1, <2>2
  <1>2. CtRefused(s, n) => CtRefused(t, n)
    BY DEF CtRefused
  <1>3. CtSingle(t, n) => CtSingle(s, n)
    <2> SUFFICES ASSUME CtSingle(t, n), NEW i \in 1..Len(s), NEW j \in 1..Len(s), s[i].name = n, s[j].name = n
                 PROVE  i = j
      BY DEF CtSingle
    <2>1. i - d \in 1..Len(t) /\ t[i - d] = s[i] /\ j - d \in 1..Len(t) /\ t[j - d] = s[j]
      OBVIOUS
    <2>2. i - d = j - d
      BY <2>1 DEF CtSingle
    <2>3. QED
      BY <2>2
  <1>4. CtOneNew(t, n) => CtOneNew(s, n)
    <2> SUFFICES ASSUME CtOneNew(t, n), NEW i \in 1..Len(s), NEW j \in 1..Len(s), s[i].name = n, s[j].name = n,
                        s[i].kind = "new", s[j].kind = "new"
                 PROVE  i = j
      BY DEF CtOneNew
    <2>1. i - d \in 1..Len(t) /\ t[i - d].name = n /\ t[i - d].kind = "new"
      OBVIOUS
    <2>2. j - d \in 1..Len(t) /\ t[j - d].name = n /\ t[j - d].kind = "new"
      OBVIOUS
    <2>3. i - d = j - d
      BY <2>1, <2>2 DEF CtOneNew
    <2>4. QED
      BY <2>3
  <1>5. CtNewLast(t, n) => CtNewLast(s, n)
    <2> SUFFICES ASSUME CtNewLast(t, n), NEW i \in 1..Len(s), NEW j \in 1..Len(s), s[i].name = n, s[j].name = n,
                        s[i].kind = "new"
                 PROVE  j <= i
      BY DEF CtNewLast
    <2>1. i - d \in 1..Len(t) /\ t[i - d] = s[i] /\ j - d \in 1..Len(t) /\ t[j - d] = s[j]
      OBVIOUS
    <2>2. j - d <= i - d
      BY <2>1 DEF CtNewLast
    <2>3. QED
      BY <2>2
  <1>6. ASSUME NEW v, CtLastVer(s, n, v) PROVE CtLastVer(t, n, v)
    <2>1. PICK i \in 1..Len(s) : s[i].name = n /\ s[i].ver = v /\ \A j \in 1..Len(s) : s[j].name = n => j <= i
      BY <1>6 DEF CtLastVer
    <2>2. i - d \in 1..Len(t) /\ t[i - d] = s[i]
      BY <2>1
    <2>3. ASSUME NEW j \in 1..Len(t), t[j].name = n PROVE j <= i - d
      <3>1. j + d \in 1..Len(s) /\ s[j + d] = t[j]
        BY <2>3
      <3>2. j + d <= i
        BY <2>1, <2>3, <3>1
      <3>3. QED
        BY <3>2
    <2>4. QED
      BY <2>1, <2>2, <2>3 DEF CtLastVer
  <1>7. ASSUME NEW v, CtGranted(t, n, v) PROVE CtGranted(s, n, v)
    BY <1>7 DEF CtGranted
  <1>8. QED
    BY <1>1, <1>2, <1>3, <1>4, <1>5, <1>6, <1>7 DEF CtSays

\* A message about another name makes no difference when it is sent,
LEMMA CtSentOther ==
    ASSUME NEW S, NEW s \in Seq(S), NEW e \in S, NEW n, e.name # n
    PROVE  CtSame(s, Append(s, e), n)
  <1> DEFINE t == Append(s, e)
  <1>1. /\ Len(s) \in Nat /\ Len(t) = Len(s) + 1 /\ t[Len(s) + 1] = e
        /\ \A i \in 1..Len(s) : t[i] = s[i]
    BY AppendProperties, LenProperties
  <1> HIDE DEF t
  <1>2. \A i \in 1..Len(t) : t[i].name = n => i + 0 \in 1..Len(s) /\ s[i + 0] = t[i] /\ i - 0 \in 1..Len(s) /\ s[i - 0] = t[i]
    BY <1>1
  <1>3. \A i \in 1..Len(s) : s[i].name = n => i + 0 \in 1..Len(t) /\ t[i + 0] = s[i] /\ i - 0 \in 1..Len(t) /\ t[i - 0] = s[i]
    BY <1>1
  <1>4. 0 \in Int
    OBVIOUS
  <1>5. CtSays(s, t, n)
    BY <1>2, <1>3, <1>4, CtMoved, Zenon
  <1>6. CtSays(t, s, n)
    BY <1>2, <1>3, <1>4, CtMoved, Zenon
  <1>7. QED
    BY <1>5, <1>6 DEF CtSame, t

\* and when it is taken off the stream.
LEMMA CtTakenOther ==
    ASSUME NEW S, NEW s \in Seq(S), s # <<>>, NEW n, Head(s).name # n
    PROVE  CtSame(s, Tail(s), n)
  <1> DEFINE t == Tail(s)
  <1>1. /\ Len(s) \in Nat \ {0} /\ Len(t) = Len(s) - 1 /\ Head(s) = s[1]
        /\ \A i \in 1..Len(t) : t[i] = s[i + 1]
    BY HeadTailProperties, LenProperties, EmptySeq
  <1> HIDE DEF t
  <1>2. \A i \in 1..Len(s) : s[i].name = n => i - 1 \in 1..Len(t) /\ t[i - 1] = s[i]
    BY <1>1
  <1>3. \A i \in 1..Len(t) : t[i].name = n => i + 1 \in 1..Len(s) /\ s[i + 1] = t[i]
    BY <1>1
  <1>4. /\ \A i \in 1..Len(s) : s[i].name = n => i + (0 - 1) \in 1..Len(t) /\ t[i + (0 - 1)] = s[i]
        /\ \A i \in 1..Len(t) : t[i].name = n => i - (0 - 1) \in 1..Len(s) /\ s[i - (0 - 1)] = t[i]
        /\ 0 - 1 \in Int /\ 1 \in Int
    BY <1>1, <1>2, <1>3
  <1>5. CtSays(s, t, n)
    BY <1>2, <1>3, <1>4, CtMoved, Zenon
  <1>6. CtSays(t, s, n)
    BY <1>2, <1>3, <1>4, CtMoved, Zenon
  <1>7. QED
    BY <1>5, <1>6 DEF CtSame, t

\* A message about n is sent: it is the last one.
LEMMA CtSent ==
    ASSUME NEW S, NEW s \in Seq(S), NEW e \in S, NEW n, e.name = n
    PROVE  /\ CtAbout(Append(s, e), n) /\ CtLastVer(Append(s, e), n, e.ver)
           /\ e.kind # "new" => (CtAsked(Append(s, e), n) <=> CtAsked(s, n))
           /\ ~CtAbout(s, n) => CtSingle(Append(s, e), n)
           /\ ~CtAsked(s, n) => CtOneNew(Append(s, e), n) /\ CtNewLast(Append(s, e), n)
           /\ CtRefused(s, n) \/ e.ok = FALSE => CtRefused(Append(s, e), n)
           /\ ~CtAbout(s, n) => \A v : (e.ok = TRUE => e.ver = v) => CtGranted(Append(s, e), n, v)
  <1> DEFINE t == Append(s, e)
  <1>1. /\ Len(s) \in Nat /\ Len(t) = Len(s) + 1 /\ t[Len(s) + 1] = e
        /\ \A i \in 1..Len(s) : t[i] = s[i]
    BY AppendProperties, LenProperties
  <1> DEFINE l == Len(s) + 1
  <1>2. /\ l \in 1..Len(t) /\ t[l] = e
        /\ \A i \in 1..Len(t) : i \in Nat /\ i <= l /\ (i = l \/ (i \in 1..Len(s) /\ t[i] = s[i]))
        /\ \A i \in 1..Len(s) : i \in 1..Len(t) /\ t[i] = s[i] /\ i \in Nat
    BY <1>1
  <1> HIDE DEF t, l
  <1>4. CtAbout(t, n) /\ CtLastVer(t, n, e.ver)
    BY <1>2 DEF CtAbout, CtLastVer
  <1>5. e.kind # "new" => (CtAsked(t, n) <=> CtAsked(s, n))
    BY <1>2 DEF CtAsked
  <1>6. ~CtAbout(s, n) => CtSingle(t, n)
    BY <1>2 DEF CtAbout, CtSingle
  <1>7. ~CtAsked(s, n) => CtOneNew(t, n)
    BY <1>2 DEF CtAsked, CtOneNew
  <1>8. ~CtAsked(s, n) => CtNewLast(t, n)
    BY <1>2 DEF CtAsked, CtNewLast
  <1>9. CtRefused(s, n) \/ e.ok = FALSE => CtRefused(t, n)
    BY <1>2 DEF CtRefused
  <1>10. ~CtAbout(s, n) => \A v : (e.ok = TRUE => e.ver = v) => CtGranted(t, n, v)
    BY <1>2 DEF CtAbout, CtGranted
  <1>11. QED
    BY <1>4, <1>5, <1>6, <1>7, <1>8, <1>9, <1>10 DEF t

\* The first message, about n, is taken off the stream.
LEMMA CtTaken ==
    ASSUME NEW S, NEW s \in Seq(S), s # <<>>, NEW n, Head(s).name = n
    PROVE  /\ CtAbout(s, n)
           /\ CtAsked(Tail(s), n) => CtAsked(s, n)
           /\ CtAbout(Tail(s), n) => \A v : CtLastVer(s, n, v) => CtLastVer(Tail(s), n, v)
           /\ ~CtAbout(Tail(s), n) => \A v : CtLastVer(s, n, v) => v = Head(s).ver
           /\ CtSingle(s, n) => ~CtAbout(Tail(s), n)
           /\ CtOneNew(s, n) => CtOneNew(Tail(s), n)
           /\ CtNewLast(s, n) => CtNewLast(Tail(s), n)
           /\ Head(s).kind = "new" /\ CtOneNew(s, n) => ~CtAsked(Tail(s), n)
           /\ Head(s).kind = "new" /\ CtNewLast(s, n) => ~CtAbout(Tail(s), n)
           /\ Head(s).kind = "new" => CtAsked(s, n)
           /\ CtRefused(s, n) => CtRefused(Tail(s), n) \/ Head(s).ok = FALSE
           /\ \A v : CtGranted(s, n, v) /\ Head(s).ok = TRUE => Head(s).ver = v
  <1> DEFINE t == Tail(s)
             h == Head(s)
  <1>1. /\ Len(s) \in Nat \ {0} /\ Len(t) = Len(s) - 1 /\ h = s[1]
        /\ \A i \in 1..Len(t) : t[i] = s[i + 1]
    BY HeadTailProperties, LenProperties, EmptySeq
  <1>2. h.name = n
    OBVIOUS
  <1> HIDE DEF t, h
  <1>3. /\ 1 \in 1..Len(s) /\ s[1] = h
        /\ \A i \in 1..Len(s) : i = 1 \/ (i - 1 \in 1..Len(t) /\ t[i - 1] = s[i] /\ i \in Nat)
        /\ \A i \in 1..Len(t) : i + 1 \in 1..Len(s) /\ t[i] = s[i + 1] /\ i \in Nat /\ i + 1 > 1
    BY <1>1
  <1>4. CtAbout(s, n) /\ (CtAsked(t, n) => CtAsked(s, n)) /\ (h.kind = "new" => CtAsked(s, n))
    BY <1>2, <1>3 DEF CtAbout, CtAsked
  <1>5. CtAbout(t, n) => \A v : CtLastVer(s, n, v) => CtLastVer(t, n, v)
    <2> SUFFICES ASSUME CtAbout(t, n), NEW v, CtLastVer(s, n, v) PROVE CtLastVer(t, n, v)
      OBVIOUS
    <2>1. PICK i \in 1..Len(s) : s[i].name = n /\ s[i].ver = v /\ \A j \in 1..Len(s) : s[j].name = n => j <= i
      BY DEF CtLastVer
    <2>2. PICK k \in 1..Len(t) : t[k].name = n
      BY DEF CtAbout
    <2>3. i # 1 /\ i - 1 \in 1..Len(t) /\ t[i - 1] = s[i] /\ i \in Nat
      BY <1>3, <2>1, <2>2
    <2>4. \A j \in 1..Len(t) : t[j].name = n => j <= i - 1
      BY <1>3, <2>1, <2>3
    <2>5. QED
      BY <2>1, <2>3, <2>4 DEF CtLastVer
  <1>6. ~CtAbout(t, n) => \A v : CtLastVer(s, n, v) => v = h.ver
    BY <1>3 DEF CtAbout, CtLastVer
  <1>7. CtSingle(s, n) => ~CtAbout(t, n)
    BY <1>2, <1>3 DEF CtAbout, CtSingle
  <1>8. CtOneNew(s, n) => CtOneNew(t, n)
    <2> SUFFICES ASSUME CtOneNew(s, n), NEW i \in 1..Len(t), NEW j \in 1..Len(t), t[i].name = n, t[j].name = n,
                        t[i].kind = "new", t[j].kind = "new"
                 PROVE  i = j
      BY DEF CtOneNew
    <2>1. i + 1 \in 1..Len(s) /\ t[i] = s[i + 1] /\ j + 1 \in 1..Len(s) /\ t[j] = s[j + 1]
      BY <1>3
    <2>2. i + 1 = j + 1
      BY <2>1 DEF CtOneNew
    <2>3. QED
      BY <2>2
  <1>9. CtNewLast(s, n) => CtNewLast(t, n)
    BY <1>3 DEF CtNewLast
  <1>10. h.kind = "new" /\ CtOneNew(s, n) => ~CtAsked(t, n)
    BY <1>2, <1>3 DEF CtOneNew, CtAsked
  <1>11. h.kind = "new" /\ CtNewLast(s, n) => ~CtAbout(t, n)
    BY <1>2, <1>3 DEF CtNewLast, CtAbout
  <1>12. CtRefused(s, n) => CtRefused(t, n) \/ h.ok = FALSE
    BY <1>3 DEF CtRefused
  <1>13. \A v : CtGranted(s, n, v) /\ h.ok = TRUE => h.ver = v
    BY <1>2, <1>3 DEF CtGranted
  <1>14. QED
    BY <1>4, <1>5, <1>6, <1>7, <1>8, <1>9, <1>10, <1>11, <1>12, <1>13 DEF t, h

\* A message with a version asks for it; and nothing is said on an empty stream.
LEMMA CtLastAsks ==
    ASSUME NEW s \in Seq(CtReq), CtKinds(s), NEW n, NEW v, v # Absent, CtLastVer(s, n, v)
    PROVE  CtAsked(s, n)
  <1>1. PICK i \in 1..Len(s) : s[i].name = n /\ s[i].ver = v
    BY DEF CtLastVer
  <1>2. s[i] \in CtReq
    BY ElementOfSeq
  <1>3. s[i].kind = "new"
    BY <1>1, <1>2 DEF CtKinds, CtReq
  <1>4. QED
    BY <1>1, <1>3 DEF CtAsked

LEMMA CtEmpty ==
    ASSUME NEW s, s = <<>>, NEW n
    PROVE  /\ ~CtAbout(s, n) /\ ~CtAsked(s, n) /\ ~CtRefused(s, n)
           /\ CtKinds(s)
  BY DEF CtAbout, CtAsked, CtRefused, CtKinds

LEMMA CtAskedIsAbout ==
    ASSUME NEW s, NEW n
    PROVE  (CtAsked(s, n) => CtAbout(s, n)) /\ (CtRefused(s, n) => CtAbout(s, n))
  BY DEF CtAbout, CtAsked, CtRefused

LEMMA CtKindsSent ==
    ASSUME NEW S, NEW s \in Seq(S), NEW e \in S, CtKinds(s), e.kind = "close" <=> e.ver = Absent
    PROVE  CtKinds(Append(s, e))
  <1>1. /\ Len(s) \in Nat /\ Len(Append(s, e)) = Len(s) + 1 /\ Append(s, e)[Len(s) + 1] = e
        /\ \A i \in 1..Len(s) : Append(s, e)[i] = s[i]
    BY AppendProperties, LenProperties
  <1>2. QED
    BY <1>1 DEF CtKinds

LEMMA CtKindsTaken ==
    ASSUME NEW S, NEW s \in Seq(S), s # <<>>, CtKinds(s)
    PROVE  CtKinds(Tail(s)) /\ (Head(s).kind = "close" <=> Head(s).ver = Absent)
  <1>1. /\ Len(s) \in Nat \ {0} /\ Len(Tail(s)) = Len(s) - 1 /\ Head(s) = s[1]
        /\ \A i \in 1..Len(Tail(s)) : Tail(s)[i] = s[i + 1]
    BY HeadTailProperties, LenProperties, EmptySeq
  <1>2. QED
    BY <1>1 DEF CtKinds

-----------------------------------------------------------------------------
(* What holds of the tunnels.                                              *)

CtTasks ==
    [pc : {"idle", "stop", "start", "closeAll"}, new : Configs, removed : SUBSET Names,
     stop : SUBSET Names, updated : SUBSET Names, added : SUBSET Names,
     started : SUBSET Names, failed : SUBSET Names]

CtTables ==
    /\ cfg \in Configs /\ mgr \in Configs /\ srv \in Configs /\ remote \in Configs
    /\ up \in Seq(CtReq) /\ CtKinds(up) /\ down \in Seq(CtAns)
    /\ conn \in {"up", "lost"}

CtWatch ==
    /\ pending \subseteq Names /\ errors \subseteq Names \ pending
    /\ outcome.failed \cap (outcome.added \cup outcome.updated \cup outcome.removed) = {}

\* The tunnels that the reload has still to start.
CtDue == task.updated \cup task.added

CtSteps ==
    /\ task \in CtTasks
    /\ task.pc = "start" => task.stop = {} /\ task.started \cap CtDue = {}
    /\ task.pc = "stop" => task.started = {}

\* A session that is over has left nothing.
CtLost == conn = "lost" => up = <<>> /\ down = <<>> /\ \A n \in Names : srv[n] = Absent

\* The server has, or will have, the manager's version of n or none,
CtFollows(n) ==
    /\ CtAbout(up, n) => CtLastVer(up, n, mgr[n])
    /\ ~CtAbout(up, n) => srv[n] \in {Absent, mgr[n]}

\* and none only if that was or will be reported.
CtMissed(n) ==
    mgr[n] # Absent => CtAbout(up, n) \/ srv[n] = mgr[n] \/ n \in told \/ CtRefused(down, n)

\* Unless it was closed before its answer came, n has one request under way, then its
\* answer, then the address that is shown.
CtShown(n) ==
    n \notin crossed =>
       /\ remote[n] # Absent => ~CtAbout(up, n) /\ ~CtAbout(down, n) /\ srv[n] = remote[n]
       /\ CtAbout(down, n) => /\ CtSingle(down, n) /\ CtGranted(down, n, srv[n])
                              /\ ~CtAbout(up, n)
       /\ CtAsked(up, n) => CtNewLast(up, n) /\ ~CtAbout(down, n)

\* n was closed, and what is said about it belongs to the time before.
CtOut(n) ==
    /\ mgr[n] = Absent
    /\ n \in crossed \/ (remote[n] = Absent /\ ~CtAsked(up, n) /\ ~CtAbout(down, n))

\* Between two reloads the manager has what is configured, or the user was told.
CtSettled(n) ==
    /\ cfg[n] = Absent => CtOut(n)
    /\ mgr[n] = cfg[n] \/ (mgr[n] = Absent /\ n \in told)

\* In a reload, a tunnel that is closed and not yet started is out, and one that is
\* neither has what the new configuration says, or has failed.
CtPlan(n) ==
    /\ n \in CtDue => task.new[n] # Absent
    /\ n \notin task.stop /\ (n \in CtDue \/ task.new[n] = Absent) => CtOut(n)
    /\ n \notin CtDue /\ task.new[n] # Absent =>
          n \notin task.stop /\ (mgr[n] = task.new[n] \/ (mgr[n] = Absent /\ n \in told \cup task.failed))

\* A tunnel that was started, with no older request unanswered: its request, its answer
\* or what the answer said.
CtAwaited(n) ==
    /\ task.new[n] # Absent
    /\ n \notin late =>
          \/ /\ n \in pending /\ ~CtAbout(down, n)
             /\ CtLastVer(up, n, task.new[n]) /\ CtOneNew(up, n)
          \/ /\ n \in pending /\ ~CtAbout(up, n) /\ CtAbout(down, n) /\ CtSingle(down, n)
             /\ srv[n] = task.new[n] \/ CtRefused(down, n)
          \/ /\ n \notin pending /\ ~CtAbout(up, n) /\ ~CtAbout(down, n)
             /\ n \in errors \/ srv[n] = task.new[n]

CtName(n) ==
    /\ CtFollows(n) /\ CtMissed(n) /\ CtShown(n)
    /\ task.pc = "idle" => CtSettled(n)
    /\ task.pc \in {"stop", "start"} => CtPlan(n)
    /\ task.pc = "start" /\ n \in task.started => CtAwaited(n)

CtNames == conn = "up" => \A n \in Names : CtName(n)

CtBase == CtTables /\ CtWatch /\ CtSteps /\ CtLost
CtInv == CtBase /\ CtNames

\* A step that does nothing about n.
LEMMA CtFrame ==
    ASSUME NEW n \in Names, CtName(n),
           cfg'[n] = cfg[n], mgr'[n] = mgr[n], srv'[n] = srv[n], remote'[n] = remote[n],
           CtSame(up, up', n), CtSame(down, down', n),
           n \in told => n \in told', n \in late <=> n \in late', n \in crossed <=> n \in crossed',
           n \in pending <=> n \in pending', n \in errors => n \in errors',
           task'.pc = task.pc, task'.new = task.new, n \in task.stop <=> n \in task'.stop,
           n \in CtDue <=> n \in CtDue', n \in task.started <=> n \in task'.started,
           n \in task.failed => n \in task'.failed
    PROVE  CtName(n)'
  <1> USE DEF CtSame, CtSays
  <1>1. CtFollows(n)'
    BY DEF CtName, CtFollows
  <1>2. CtMissed(n)'
    BY DEF CtName, CtMissed
  <1>3. CtShown(n)'
    BY DEF CtName, CtShown
  <1>4. CtOut(n) => CtOut(n)'
    BY DEF CtOut
  <1>5. (task.pc = "idle" => CtSettled(n))'
    BY <1>4 DEF CtName, CtSettled
  <1>6. (task.pc \in {"stop", "start"} => CtPlan(n))'
    BY <1>4 DEF CtName, CtPlan
  <1>7. (task.pc = "start" /\ n \in task.started => CtAwaited(n))'
    BY DEF CtName, CtAwaited
  <1>8. QED
    BY <1>1, <1>2, <1>3, <1>5, <1>6, <1>7 DEF CtName

LEMMA CtUnanswered ==
    ASSUME CtTables, NEW n
    PROVE  Unanswered(n) <=> CtAsked(up, n) \/ CtAbout(down, n)
  <1>1. DOMAIN up = 1..Len(up) /\ DOMAIN down = 1..Len(down)
    BY LenProperties DEF CtTables
  <1>2. QED
    BY <1>1 DEF Unanswered, CtAsked, CtAbout

LEMMA CtNoTask ==
    /\ NoTask \in CtTasks
    /\ NoTask.pc = "idle" /\ NoTask.stop = {} /\ NoTask.updated = {} /\ NoTask.added = {}
    /\ NoTask.started = {} /\ NoTask.failed = {} /\ NoTask.removed = {}
  BY DEF NoTask, CtTasks, Configs

LEMMA CtSameStream == ASSUME NEW s, NEW n PROVE CtSame(s, s, n)
  BY DEF CtSame, CtSays

\* The least of a set of names is one of them.
LEMMA CtFirst == ASSUME NEW S \in SUBSET Names, S # {} PROVE First(S) \in S
  <1>1. S \subseteq Nat
    BY TunnelAssumptions
  <1>2. PICK x \in S : \A y \in S : ~(<<y, x>> \in OpToRel(<, Nat))
    BY <1>1, WFMin, NatLessThanWellFounded
  <1>3. \A y \in S : ~(y < x)
    BY <1>1, <1>2 DEF OpToRel
  <1>4. \A y \in S : x <= y
    BY <1>1, <1>3
  <1>5. QED
    BY <1>4 DEF First

\* A tunnel is closed.
LEMMA CtClose ==
    ASSUME CtInv, conn = "up", conn' = conn, NEW m \in Names, CloseTunnel(m),
           UNCHANGED <<cfg, srv, down, pending, errors, told, late, outcome>>
    PROVE  /\ CtTables' /\ CtWatch' /\ CtLost'
           /\ CtFollows(m)' /\ CtMissed(m)' /\ CtShown(m)' /\ CtOut(m)'
           /\ \A n \in Names \ {m} : /\ mgr'[n] = mgr[n] /\ remote'[n] = remote[n]
                                     /\ n \in crossed <=> n \in crossed'
                                     /\ CtSame(up, up', n)
  <1> DEFINE e == [kind |-> "close", name |-> m, ver |-> Absent]
  <1>1. CtTables /\ CtWatch /\ CtName(m) /\ up \in Seq(CtReq) /\ CtKinds(up)
    BY DEF CtInv, CtBase, CtNames, CtTables
  <1>2. e \in CtReq /\ e.name = m /\ e.kind = "close" /\ e.ver = Absent
    BY DEF CtReq
  <1>3. up' = Append(up, e) /\ crossed' = IF Unanswered(m) THEN crossed \cup {m} ELSE crossed \ {m}
    BY DEF CloseTunnel
  <1> HIDE DEF e
  <1>4. /\ mgr' = [mgr EXCEPT ![m] = Absent] /\ remote' = [remote EXCEPT ![m] = Absent]
        /\ mgr \in Configs /\ remote \in Configs
    BY <1>1 DEF CloseTunnel, RemoveEntry, RemoveTunnelRemote, CtTables
  <1>5. /\ mgr'[m] = Absent /\ remote'[m] = Absent /\ mgr' \in Configs /\ remote' \in Configs
        /\ \A n \in Names \ {m} : mgr'[n] = mgr[n] /\ remote'[n] = remote[n]
    BY <1>4 DEF Configs
  <1>6. up' \in Seq(CtReq) /\ CtKinds(up')
    BY <1>1, <1>2, <1>3, AppendProperties, CtKindsSent
  <1>7. CtTables'
    BY <1>1, <1>5, <1>6 DEF CtTables
  <1>8. CtWatch' /\ CtLost'
    BY <1>1 DEF CtWatch, CtLost
  <1>9. /\ CtAbout(up', m) /\ CtLastVer(up', m, Absent)
        /\ CtAsked(up', m) <=> CtAsked(up, m)
        /\ ~CtAsked(up, m) => CtNewLast(up', m)
    BY <1>1, <1>2, <1>3, CtSent
  <1>10. CtFollows(m)' /\ CtMissed(m)'
    BY <1>5, <1>9 DEF CtFollows, CtMissed
  <1>11. m \notin crossed' => ~CtAsked(up', m) /\ ~CtAbout(down', m)
    BY <1>1, <1>3, <1>9, CtUnanswered
  <1>12. CtShown(m)' /\ CtOut(m)'
    BY <1>5, <1>11 DEF CtShown, CtOut
  <1>13. \A n \in Names \ {m} : CtSame(up, up', n)
    BY <1>1, <1>2, <1>3, CtSentOther
  <1>14. QED
    BY <1>3, <1>5, <1>7, <1>8, <1>10, <1>12, <1>13

\* The next tunnel that is closed.
LEMMA CtStopOne == ASSUME CtInv, StopOne PROVE CtInv'
  <1>1. /\ CtTables /\ CtWatch /\ CtSteps /\ CtLost /\ task \in CtTasks
        /\ task.pc = "stop" /\ task.stop \subseteq Names /\ task.stop # {}
    BY DEF CtInv, CtBase, CtSteps, CtTasks, StopOne
  <1>2. PICK m \in Names : m = First(task.stop) /\ m \in task.stop
    BY <1>1, CtFirst
  <1>3. UNCHANGED <<cfg, srv, down, pending, errors, conn, outcome, told, late>>
    BY DEF StopOne, watch
  <1>4. CASE conn = "up"
    <2>1. CloseTunnel(m) /\ task' = [task EXCEPT !.stop = @ \ {m}]
      BY <1>2, <1>4 DEF StopOne
    <2>2. /\ task' \in CtTasks /\ task'.pc = "stop" /\ task'.new = task.new /\ task'.stop = task.stop \ {m}
          /\ task'.updated = task.updated /\ task'.added = task.added /\ task'.started = task.started
          /\ task'.failed = task.failed
      BY <1>1, <2>1 DEF CtTasks
    <2>3. /\ CtTables' /\ CtWatch' /\ CtLost'
          /\ CtFollows(m)' /\ CtMissed(m)' /\ CtShown(m)' /\ CtOut(m)'
          /\ \A n \in Names \ {m} : /\ mgr'[n] = mgr[n] /\ remote'[n] = remote[n]
                                    /\ n \in crossed <=> n \in crossed'
                                    /\ CtSame(up, up', n)
      BY <1>2, <1>3, <1>4, <2>1, CtClose
    <2>4. CtSteps'
      BY <1>1, <2>2 DEF CtSteps
    <2>5. CtDue' = CtDue
      BY <2>2 DEF CtDue
    <2>6. CtName(m)'
      <3>1. CtPlan(m)
        BY <1>1, <1>2, <1>4 DEF CtInv, CtNames, CtName
      <3>2. CtPlan(m)'
        BY <1>2, <2>2, <2>3, <2>5, <3>1 DEF CtPlan
      <3>3. QED
        BY <2>2, <2>3, <3>2 DEF CtName
    <2>7. ASSUME NEW n \in Names \ {m} PROVE CtName(n)'
      <3>1. CtName(n)
        BY <1>4 DEF CtInv, CtNames
      <3>2. CtSame(down, down', n)
        BY <1>3, CtSameStream
      <3>3. n \in task.stop <=> n \in task'.stop
        BY <2>2
      <3>4. QED
        BY <1>1, <1>3, <2>2, <2>3, <2>5, <3>1, <3>2, <3>3, CtFrame
    <2>8. QED
      BY <2>3, <2>4, <2>6, <2>7 DEF CtInv, CtBase, CtNames
  <1>5. CASE conn # "up"
    <2>1. /\ task' = [task EXCEPT !.stop = @ \ {m}, !.failed = @ \cup {m}]
          /\ UNCHANGED <<up, mgr, remote, crossed>>
      BY <1>2, <1>5 DEF StopOne
    <2>2. /\ task' \in CtTasks /\ task'.pc = "stop" /\ task'.started = task.started
      BY <1>1, <1>2, <2>1 DEF CtTasks
    <2>3. CtSteps'
      BY <1>1, <2>2 DEF CtSteps
    <2>4. CtTables' /\ CtWatch' /\ CtLost'
      BY <1>1, <1>3, <2>1 DEF CtTables, CtWatch, CtLost
    <2>5. QED
      BY <1>3, <1>5, <2>3, <2>4 DEF CtInv, CtBase, CtNames
  <1>6. QED
    BY <1>4, <1>5

LEMMA CtInitInv == Init => CtInv
  <1> SUFFICES ASSUME Init PROVE CtInv
    OBVIOUS
  <1> USE DEF Init
  <1>1. cfg \in Configs
    BY DEF Configs
  <1>2. <<>> \in Seq(CtReq) /\ <<>> \in Seq(CtAns)
    BY EmptySeq
  <1>3. \A n : ~CtAbout(up, n) /\ ~CtAsked(up, n) /\ ~CtAbout(down, n) /\ CtKinds(up)
    BY CtEmpty
  <1>4. CtTables /\ CtLost
    BY <1>1, <1>2, <1>3 DEF CtTables, CtLost
  <1>5. CtWatch
    BY DEF CtWatch, NoOutcome
  <1>6. CtSteps
    BY CtNoTask DEF CtSteps
  <1>7. ASSUME NEW n \in Names PROVE CtName(n)
    <2>1. CtFollows(n) /\ CtMissed(n) /\ CtShown(n)
      BY <1>3 DEF CtFollows, CtMissed, CtShown
    <2>2. CtSettled(n)
      BY <1>3 DEF CtSettled, CtOut
    <2>3. QED
      BY <2>1, <2>2, CtNoTask DEF CtName
  <1>8. QED
    BY <1>4, <1>5, <1>6, <1>7 DEF CtInv, CtBase, CtNames

\* A step after which no session is open.
LEMMA CtGone ==
    ASSUME CtTables', CtWatch', CtSteps', CtLost', conn' = "lost" PROVE CtInv'
  BY DEF CtInv, CtBase, CtNames

LEMMA CtReloadNoop == ASSUME CtInv, NEW new \in Configs, ReloadNoop(new) PROVE CtInv'
  <1> USE DEF CtInv, CtBase, ReloadNoop, watch, history
  <1>1. CtTables' /\ CtLost'
    BY DEF CtTables, CtLost
  <1>2. CtWatch'
    BY DEF CtWatch, NoOutcome
  <1>3. CtSteps' /\ CtDue' = CtDue
    BY DEF CtSteps, CtDue
  <1>4. ASSUME NEW n \in Names PROVE CtName(n)'
    BY <1>3, CtSameStream, CtFrame DEF CtNames
  <1>5. QED
    BY <1>1, <1>2, <1>3, <1>4 DEF CtNames

\* The plan of a reload, from what was settled.
LEMMA CtReload == ASSUME CtInv, NEW new \in Configs, Reload(new) PROVE CtInv'
  <1> DEFINE rem == Removed(cfg, new)
             upd == Updated(cfg, new)
             add == Added(cfg, new)
  <1>1. /\ task.pc = "idle" /\ conn = "up" /\ CtBase /\ \A n \in Names : CtName(n)
        /\ UNCHANGED <<cfg, mgr, srv, up, down, pending, errors, remote, conn, outcome, told, late, crossed>>
    BY DEF Reload, CtInv, CtNames, watch, history
  <1>2. rem \subseteq Names /\ upd \subseteq Names /\ add \subseteq Names
    BY DEF Removed, Updated, Added
  <1>3. /\ task' \in CtTasks /\ task'.pc = "stop" /\ task'.new = new /\ task'.stop = rem \cup upd
        /\ task'.updated = upd /\ task'.added = add /\ task'.started = {} /\ task'.failed = {}
    <2> HIDE DEF rem, upd, add
    <2>1. task' = [NoTask EXCEPT !.pc = "stop", !.new = new, !.removed = rem, !.stop = rem \cup upd,
                                 !.updated = upd, !.added = add]
      BY DEF Reload, rem, upd, add
    <2>2. QED
      BY <1>2, <2>1, CtNoTask DEF CtTasks
  <1>4. CtTables' /\ CtLost' /\ CtWatch'
    BY <1>1 DEF CtBase, CtTables, CtLost, CtWatch
  <1>5. CtSteps'
    BY <1>3 DEF CtSteps
  <1>6. ASSUME NEW n \in Names PROVE CtName(n)'
    <2>1. CtFollows(n)' /\ CtMissed(n)' /\ CtShown(n)' /\ CtSettled(n) /\ (CtOut(n) => CtOut(n)')
      BY <1>1 DEF CtName, CtFollows, CtMissed, CtShown, CtOut
    <2>2. CtDue' = upd \cup add
      BY <1>3 DEF CtDue
    <2>3. /\ n \in rem <=> cfg[n] # Absent /\ new[n] = Absent
          /\ n \in upd <=> cfg[n] # Absent /\ new[n] # Absent /\ cfg[n] # new[n]
          /\ n \in add <=> cfg[n] = Absent /\ new[n] # Absent
      BY DEF Removed, Updated, Added
    <2> HIDE DEF rem, upd, add
    <2>4. CtPlan(n)'
      BY <1>1, <1>3, <2>1, <2>2, <2>3 DEF CtPlan, CtSettled
    <2>5. QED
      BY <1>3, <2>1, <2>4 DEF CtName
  <1>7. QED
    BY <1>4, <1>5, <1>6 DEF CtInv, CtBase, CtNames

LEMMA CtStopDone == ASSUME CtInv, StopDone PROVE CtInv'
  <1>1. /\ task.pc = "stop" /\ task.stop = {} /\ CtBase /\ task \in CtTasks /\ task.started = {}
        /\ UNCHANGED <<cfg, mgr, srv, up, down, pending, errors, remote, conn, outcome, told, late, crossed>>
    BY DEF StopDone, CtInv, CtBase, CtSteps, watch, history
  <1>2. /\ task' \in CtTasks /\ task'.pc = "start" /\ task'.new = task.new /\ task'.stop = task.stop
        /\ task'.updated = task.updated /\ task'.added = task.added /\ task'.started = task.started
        /\ task'.failed = task.failed
    BY <1>1 DEF StopDone, CtTasks
  <1>3. CtTables' /\ CtLost' /\ CtWatch'
    BY <1>1 DEF CtBase, CtTables, CtLost, CtWatch
  <1>4. CtSteps'
    BY <1>1, <1>2 DEF CtSteps
  <1>5. ASSUME NEW n \in Names, conn = "up" PROVE CtName(n)'
    <2>1. CtName(n)
      BY <1>5 DEF CtInv, CtNames
    <2>2. CtFollows(n)' /\ CtMissed(n)' /\ CtShown(n)' /\ CtPlan(n) /\ (CtOut(n) => CtOut(n)')
      BY <1>1, <2>1 DEF CtName, CtFollows, CtMissed, CtShown, CtOut
    <2>3. CtDue' = CtDue
      BY <1>2 DEF CtDue
    <2>4. CtPlan(n)'
      BY <1>1, <1>2, <2>2, <2>3 DEF CtPlan
    <2>5. QED
      BY <1>1, <1>2, <2>2, <2>4 DEF CtName
  <1>6. QED
    BY <1>1, <1>3, <1>4, <1>5 DEF CtInv, CtBase, CtNames

\* What is started next is due.
LEMMA CtNextDue == ASSUME CtSteps, NEW n, NextStart(n) PROVE n \in CtDue /\ n \in Names
  <1>1. task.updated \in SUBSET Names /\ task.added \in SUBSET Names
    BY DEF CtSteps, CtTasks
  <1>2. QED
    BY <1>1, CtFirst DEF NextStart, CtDue

LEMMA CtStarted ==
    ASSUME CtSteps, task.pc = "start", NEW m \in Names, NEW ok \in BOOLEAN, task' = Started(m, ok)
    PROVE  /\ CtSteps' /\ task'.pc = "start" /\ task'.new = task.new /\ task'.stop = task.stop
           /\ CtDue' = CtDue \ {m}
           /\ task'.started = IF ok THEN task.started \cup {m} ELSE task.started
           /\ task'.failed = IF ok THEN task.failed ELSE task.failed \cup {m}
  <1>1. task \in CtTasks /\ task.stop = {} /\ task.started \cap CtDue = {}
    BY DEF CtSteps
  <1>2. /\ task' \in CtTasks /\ task'.pc = "start" /\ task'.new = task.new /\ task'.stop = task.stop
        /\ task'.updated = task.updated \ {m} /\ task'.added = task.added \ {m}
        /\ task'.started = IF ok THEN task.started \cup {m} ELSE task.started
        /\ task'.failed = IF ok THEN task.failed ELSE task.failed \cup {m}
    <2>1. CASE ok
      BY <1>1, <2>1 DEF Started, CtTasks
    <2>2. CASE ~ok
      BY <1>1, <2>2 DEF Started, CtTasks
    <2>3. QED
      BY <2>1, <2>2
  <1>3. CtDue' = CtDue \ {m}
    BY <1>2 DEF CtDue
  <1>4. CtSteps'
    <2>1. CASE ok
      BY <1>1, <1>2, <1>3, <2>1 DEF CtSteps
    <2>2. CASE ~ok
      BY <1>1, <1>2, <1>3, <2>2 DEF CtSteps
    <2>3. QED
      BY <2>1, <2>2
  <1>5. QED
    BY <1>2, <1>3, <1>4

\* A tunnel is not started: it has failed.
LEMMA CtNotStarted ==
    ASSUME CtInv, task.pc = "start", NEW m \in Names, NextStart(m), task' = Started(m, FALSE),
           UNCHANGED <<cfg, mgr, srv, up, down, pending, errors, remote, conn, outcome, told, late, crossed>>
    PROVE  CtInv'
  <1>1. CtBase /\ CtSteps /\ m \in CtDue /\ task.stop = {} /\ task.started \cap CtDue = {}
    BY CtNextDue DEF CtInv, CtBase, CtSteps
  <1>2. /\ CtSteps' /\ task'.pc = "start" /\ task'.new = task.new /\ task'.stop = task.stop
        /\ CtDue' = CtDue \ {m} /\ task'.started = task.started /\ task'.failed = task.failed \cup {m}
    BY <1>1, CtStarted
  <1>3. CtTables' /\ CtLost' /\ CtWatch'
    BY <1>1 DEF CtBase, CtTables, CtLost, CtWatch
  <1>4. ASSUME NEW n \in Names \ {m}, conn = "up" PROVE CtName(n)'
    <2>1. CtName(n) /\ CtSame(up, up', n) /\ CtSame(down, down', n)
      BY <1>4, CtSameStream DEF CtInv, CtNames
    <2>2. (n \in CtDue <=> n \in CtDue') /\ (n \in task.failed => n \in task'.failed)
      BY <1>2
    <2>3. QED
      BY <1>2, <2>1, <2>2, CtFrame
  <1>5. ASSUME conn = "up" PROVE CtName(m)'
    <2>1. CtName(m)
      BY <1>5 DEF CtInv, CtNames
    <2>2. CtFollows(m)' /\ CtMissed(m)' /\ CtShown(m)' /\ CtPlan(m) /\ (CtOut(m) => CtOut(m)')
      BY <2>1 DEF CtName, CtFollows, CtMissed, CtShown, CtOut
    <2>3. CtPlan(m)'
      BY <1>1, <1>2, <2>2 DEF CtPlan, CtOut
    <2>4. m \notin task'.started
      BY <1>1, <1>2
    <2>5. QED
      BY <1>2, <2>2, <2>3, <2>4 DEF CtName
  <1>6. QED
    BY <1>2, <1>3, <1>4, <1>5 DEF CtInv, CtBase, CtNames

LEMMA CtNotStartedSteps ==
    ASSUME CtInv, StartSkipped \/ StartUnfit PROVE CtInv'
  <1>1. PICK m \in Names : NextStart(m) /\ task' = Started(m, FALSE)
    <2>1. CtSteps
      BY DEF CtInv, CtBase
    <2>2. QED
      BY <2>1, CtNextDue DEF StartSkipped, StartUnfit
  <1>2. /\ task.pc = "start"
        /\ UNCHANGED <<cfg, mgr, srv, up, down, pending, errors, remote, conn, outcome, told, late, crossed>>
    BY DEF StartSkipped, StartUnfit, watch, history
  <1>3. QED
    BY <1>1, <1>2, CtNotStarted

\* A tunnel is started: it was out, so that its request is the only one, unless answers to
\* older ones are still to come.
LEMMA CtStartOne == ASSUME CtInv, StartOne PROVE CtInv'
  <1>1. PICK m \in Names :
            /\ m \notin task.failed /\ NextStart(m) /\ task.new[m] \notin Unfit
            /\ Upsert(m, task.new[m]) /\ Begin(m)
            /\ up' = IF conn = "up" THEN Append(up, [kind |-> "new", name |-> m, ver |-> task.new[m]])
                     ELSE up
            /\ task' = Started(m, conn = "up")
    BY DEF StartOne
  <1>2. /\ task.pc = "start" /\ UNCHANGED <<cfg, srv, down, remote, conn, outcome>>
        /\ CtTables /\ CtWatch /\ CtSteps /\ CtLost /\ m \in CtDue
        /\ task.stop = {} /\ task.started \cap CtDue = {} /\ task.new \in Configs
    BY <1>1, CtNextDue DEF StartOne, CtInv, CtBase, CtSteps, CtTasks
  <1>3. /\ mgr' \in Configs /\ mgr'[m] = task.new[m]
        /\ \A n \in Names \ {m} : mgr'[n] = mgr[n]
    BY <1>1, <1>2 DEF Upsert, Configs, CtTables
  <1>4. /\ errors' = errors \ {m} /\ pending' = pending \cup {m} /\ told' = told \ {m}
        /\ late' = (IF Unanswered(m) THEN late \cup {m} ELSE late \ {m}) /\ crossed' = crossed
    BY <1>1 DEF Begin
  <1>5. CtWatch'
    BY <1>2, <1>4 DEF CtWatch
  <1>6. CASE conn # "up"
    <2>1. CtSteps'
      BY <1>1, <1>2, <1>6, CtStarted
    <2>2. CtTables' /\ CtLost' /\ conn' = "lost"
      BY <1>1, <1>2, <1>3, <1>6 DEF CtTables, CtLost
    <2>3. QED
      BY <1>5, <2>1, <2>2, CtGone
  <1>7. CASE conn = "up"
    <2> DEFINE e == [kind |-> "new", name |-> m, ver |-> task.new[m]]
    <2>1. /\ CtSteps' /\ task'.pc = "start" /\ task'.new = task.new /\ task'.stop = task.stop
          /\ CtDue' = CtDue \ {m} /\ task'.started = task.started \cup {m} /\ task'.failed = task.failed
      BY <1>1, <1>2, <1>7, CtStarted
    <2>2. CtName(m) /\ CtPlan(m) /\ task.new[m] # Absent /\ CtOut(m)
      <3>1. CtName(m) /\ CtPlan(m)
        BY <1>2, <1>7 DEF CtInv, CtNames, CtName
      <3>2. QED
        BY <1>2, <3>1 DEF CtPlan
    <2>3. e \in CtReq /\ e.name = m /\ e.kind = "new" /\ e.ver = task.new[m]
      BY <1>2 DEF CtReq, Configs
    <2>4. up' = Append(up, e) /\ up \in Seq(CtReq) /\ CtKinds(up)
      BY <1>1, <1>2, <1>7 DEF CtTables
    <2> HIDE DEF e
    <2>5. up' \in Seq(CtReq) /\ CtKinds(up')
      BY <2>2, <2>3, <2>4, AppendProperties, CtKindsSent
    <2>6. CtTables' /\ CtLost'
      BY <1>2, <1>3, <1>7, <2>5 DEF CtTables, CtLost
    <2>7. /\ CtAbout(up', m) /\ CtLastVer(up', m, task.new[m])
          /\ ~CtAsked(up, m) => CtOneNew(up', m) /\ CtNewLast(up', m)
      BY <2>3, <2>4, CtSent
    <2>8. CtFollows(m)' /\ CtMissed(m)'
      BY <1>3, <2>7 DEF CtFollows, CtMissed
    <2>9. CtShown(m)'
      BY <1>2, <1>4, <2>2, <2>7 DEF CtShown, CtOut
    <2>10. CtPlan(m)'
      BY <1>2, <1>3, <2>1, <2>2 DEF CtPlan
    <2>11. m \notin late' => ~CtAsked(up, m) /\ ~CtAbout(down, m)
      BY <1>2, <1>4, CtUnanswered
    <2>12. CtAwaited(m)'
      BY <1>2, <1>4, <2>1, <2>2, <2>7, <2>11 DEF CtAwaited
    <2>13. CtName(m)'
      BY <2>1, <2>8, <2>9, <2>10, <2>12 DEF CtName
    <2>14. ASSUME NEW n \in Names \ {m} PROVE CtName(n)'
      <3>1. CtName(n) /\ CtSame(down, down', n) /\ CtSame(up, up', n)
        BY <1>2, <1>7, <2>3, <2>4, CtSameStream, CtSentOther DEF CtInv, CtNames
      <3>2. /\ (n \in told => n \in told') /\ (n \in late <=> n \in late') /\ (n \in crossed <=> n \in crossed')
            /\ (n \in pending <=> n \in pending') /\ (n \in errors => n \in errors')
        BY <1>4
      <3>3. (n \in CtDue <=> n \in CtDue') /\ (n \in task.started <=> n \in task'.started)
        BY <2>1
      <3>4. QED
        BY <1>2, <1>3, <2>1, <3>1, <3>2, <3>3, CtFrame
    <2>15. QED
      BY <1>5, <2>1, <2>6, <2>13, <2>14 DEF CtInv, CtBase, CtNames
  <1>8. QED
    BY <1>6, <1>7

\* The reload reports: the plan is settled.
LEMMA CtReport ==
    ASSUME CtInv, task.pc = "start", task.updated = {}, task.added = {},
           NEW failed, task.failed \subseteq failed, Report(failed)
    PROVE  CtInv'
  <1>1. /\ CtBase /\ task.stop = {} /\ CtDue = {} /\ task.new \in Configs
        /\ cfg' = task.new /\ task' = NoTask /\ told' = told \cup failed
        /\ UNCHANGED <<mgr, srv, up, down, pending, errors, remote, conn, late, crossed>>
    BY DEF Report, StoreConfig, CtInv, CtBase, CtSteps, CtTasks, CtDue, watch
  <1>2. CtTables' /\ CtLost'
    BY <1>1 DEF CtBase, CtTables, CtLost
  <1>3. CtWatch'
    <2>1. pending' \subseteq Names /\ errors' \subseteq Names \ pending'
      BY <1>1 DEF CtBase, CtWatch
    <2>2. outcome'.failed = failed /\ outcome'.added \cap failed = {} /\ outcome'.updated \cap failed = {}
          /\ outcome'.removed \cap failed = {}
      BY DEF Report
    <2>3. QED
      BY <2>1, <2>2 DEF CtWatch
  <1>4. CtSteps'
    BY <1>1, CtNoTask DEF CtSteps
  <1>5. ASSUME NEW n \in Names, conn = "up" PROVE CtName(n)'
    <2>1. CtName(n) /\ CtPlan(n)
      BY <1>5 DEF CtInv, CtNames, CtName
    <2>2. CtFollows(n)' /\ CtMissed(n)' /\ CtShown(n)' /\ (CtOut(n) => CtOut(n)')
      BY <1>1, <2>1 DEF CtName, CtFollows, CtMissed, CtShown, CtOut
    <2>3. CtSettled(n)'
      BY <1>1, <2>1, <2>2 DEF CtPlan, CtSettled, CtOut
    <2>4. QED
      BY <1>1, <2>2, <2>3, CtNoTask DEF CtName
  <1>6. QED
    BY <1>1, <1>2, <1>3, <1>4, <1>5 DEF CtInv, CtBase, CtNames

\* And what it reports as added or updated is there.
LEMMA CtTrue ==
    ASSUME CtInv, task.pc = "start", NEW failed, Report(failed),
           task.started \cap (pending \cup errors) \subseteq failed
    PROVE  \A n \in outcome'.added \cup outcome'.updated :
               srv[n] = task.new[n] \/ conn = "lost" \/ n \in late
  <1> SUFFICES ASSUME NEW n \in outcome'.added \cup outcome'.updated, conn # "lost", n \notin late
               PROVE  srv[n] = task.new[n]
    OBVIOUS
  <1>1. n \in task.started /\ n \notin failed
    BY DEF Report
  <1>2. n \in Names /\ conn = "up"
    BY <1>1 DEF CtInv, CtBase, CtSteps, CtTasks, CtTables
  <1>3. CtAwaited(n)
    BY <1>1, <1>2 DEF CtInv, CtNames, CtName
  <1>4. n \notin pending /\ n \notin errors
    BY <1>1
  <1>5. QED
    BY <1>3, <1>4 DEF CtAwaited

LEMMA CtCollects ==
    ASSUME CtInv, Collect \/ CollectTimeout
    PROVE  /\ CtInv'
           /\ \A n \in outcome'.added \cup outcome'.updated :
                  srv[n] = task.new[n] \/ conn = "lost" \/ n \in late
  <1>1. PICK failed : /\ Report(failed) /\ task.failed \subseteq failed
                      /\ task.started \cap (pending \cup errors) \subseteq failed
    <2>1. CASE Collect
      BY <2>1 DEF Collect
    <2>2. CASE CollectTimeout
      BY <2>2 DEF CollectTimeout
    <2>3. QED
      BY <2>1, <2>2
  <1>2. task.pc = "start" /\ task.updated = {} /\ task.added = {}
    BY DEF Collect, CollectTimeout
  <1>3. QED
    BY <1>1, <1>2, CtReport, CtTrue

-----------------------------------------------------------------------------
(* Sessions.                                                               *)

LEMMA CtReloadConnection ==
    ASSUME CtInv, NEW new \in Configs, ReloadConnection(new) PROVE CtInv'
  <1>1. /\ conn = "up" /\ CtBase /\ cfg' = new
        /\ UNCHANGED <<mgr, srv, up, down, pending, errors, remote, conn, told, late, crossed>>
        /\ outcome'.failed = {}
    BY DEF ReloadConnection, StoreConfig, OutcomeFromPlan, CtInv, watch, history
  <1>2. task' \in CtTasks /\ task'.pc = "closeAll"
    <2> DEFINE S == {n \in Names : mgr[n] # Absent}
    <2>1. S \in SUBSET Names /\ task' = [NoTask EXCEPT !.pc = "closeAll", !.stop = S]
      BY DEF ReloadConnection
    <2> HIDE DEF S
    <2>2. QED
      BY <2>1, CtNoTask DEF CtTasks
  <1>3. CtTables' /\ CtLost' /\ CtWatch'
    BY <1>1 DEF CtBase, CtTables, CtLost, CtWatch
  <1>4. CtSteps'
    BY <1>2 DEF CtSteps
  <1>5. ASSUME NEW n \in Names PROVE CtName(n)'
    <2>1. CtName(n)
      BY <1>1 DEF CtInv, CtNames
    <2>2. CtFollows(n)' /\ CtMissed(n)' /\ CtShown(n)'
      BY <1>1, <2>1 DEF CtName, CtFollows, CtMissed, CtShown
    <2>3. QED
      BY <1>2, <2>2 DEF CtName
  <1>6. QED
    BY <1>3, <1>4, <1>5 DEF CtInv, CtBase, CtNames

LEMMA CtCloseAllOne == ASSUME CtInv, CloseAllOne PROVE CtInv'
  <1>1. /\ CtTables /\ CtWatch /\ CtSteps /\ CtLost /\ task \in CtTasks
        /\ task.pc = "closeAll" /\ task.stop \subseteq Names /\ task.stop # {}
    BY DEF CtInv, CtBase, CtSteps, CtTasks, CloseAllOne
  <1>2. PICK m \in Names : m = First(task.stop) /\ m \in task.stop
    BY <1>1, CtFirst
  <1>3. UNCHANGED <<cfg, srv, down, pending, errors, conn, outcome, told, late>>
    BY DEF CloseAllOne, watch
  <1>4. task' \in CtTasks /\ task'.pc = "closeAll"
    <2>1. task' = [task EXCEPT !.stop = @ \ {m}]
      BY <1>2 DEF CloseAllOne
    <2>2. QED
      BY <1>1, <2>1 DEF CtTasks
  <1>5. CtSteps'
    BY <1>4 DEF CtSteps
  <1>6. CASE conn = "up"
    <2>1. CloseTunnel(m)
      BY <1>2, <1>6 DEF CloseAllOne
    <2>2. /\ CtTables' /\ CtWatch' /\ CtLost'
          /\ CtFollows(m)' /\ CtMissed(m)' /\ CtShown(m)' /\ CtOut(m)'
          /\ \A n \in Names \ {m} : /\ mgr'[n] = mgr[n] /\ remote'[n] = remote[n]
                                    /\ n \in crossed <=> n \in crossed'
                                    /\ CtSame(up, up', n)
      BY <1>2, <1>3, <1>6, <2>1, CtClose
    <2>3. CtName(m)'
      BY <1>4, <2>2 DEF CtName
    <2>4. ASSUME NEW n \in Names \ {m} PROVE CtName(n)'
      <3>1. CtFollows(n) /\ CtMissed(n) /\ CtShown(n)
        BY <1>6 DEF CtInv, CtNames, CtName
      <3>2. /\ mgr'[n] = mgr[n] /\ remote'[n] = remote[n] /\ srv' = srv /\ down' = down /\ told' = told
            /\ n \in crossed <=> n \in crossed'
            /\ CtSame(up, up', n)
        BY <1>3, <2>2
      <3>3. CtFollows(n)' /\ CtMissed(n)'
        BY <3>1, <3>2 DEF CtFollows, CtMissed, CtSame, CtSays
      <3>4. CtShown(n)'
        BY <3>1, <3>2 DEF CtShown, CtSame, CtSays
      <3>5. QED
        BY <1>4, <3>3, <3>4 DEF CtName
    <2>5. QED
      BY <1>5, <2>2, <2>3, <2>4 DEF CtInv, CtBase, CtNames
  <1>7. CASE conn # "up"
    <2>1. UNCHANGED <<up, mgr, remote, crossed>>
      BY <1>7 DEF CloseAllOne
    <2>2. CtTables' /\ CtWatch' /\ CtLost' /\ conn' = "lost"
      BY <1>1, <1>3, <1>7, <2>1 DEF CtTables, CtWatch, CtLost
    <2>3. QED
      BY <1>5, <2>2, CtGone
  <1>8. QED
    BY <1>6, <1>7

LEMMA CtOver == ASSUME CtTables, SessionOver, UNCHANGED <<cfg, mgr, remote>> PROVE CtTables' /\ CtLost'
  <1>1. /\ up' = <<>> /\ down' = <<>> /\ conn' = "lost" /\ srv' \in Configs
        /\ \A n \in Names : srv'[n] = Absent
    BY DEF SessionOver, Configs
  <1>2. up' \in Seq(CtReq) /\ down' \in Seq(CtAns) /\ CtKinds(up')
    BY <1>1, EmptySeq, CtEmpty
  <1>3. QED
    BY <1>1, <1>2 DEF CtTables, CtLost

LEMMA CtDisconnect == ASSUME CtInv, Disconnect PROVE CtInv'
  <1>1. CtTables' /\ CtLost' /\ conn' = "lost"
    BY CtOver DEF Disconnect, CtInv, CtBase, SessionOver
  <1>2. CtWatch' /\ CtSteps'
    BY CtNoTask DEF Disconnect, CtInv, CtBase, CtWatch, CtSteps, watch
  <1>3. QED
    BY <1>1, <1>2, CtGone

LEMMA CtBreak == ASSUME CtInv, Break PROVE CtInv'
  <1>1. CtTables' /\ CtLost' /\ conn' = "lost"
    BY CtOver DEF Break, CtInv, CtBase, SessionOver
  <1>2. CtWatch' /\ CtSteps'
    BY DEF Break, CtInv, CtBase, CtWatch, CtSteps, CtDue, watch
  <1>3. QED
    BY <1>1, <1>2, CtGone

LEMMA CtReloadQueued == ASSUME CtInv, NEW new \in Configs, ReloadQueued(new) PROVE CtInv'
  <1> USE DEF ReloadQueued, CtInv, CtBase, watch, StoreConfig
  <1>1. CtTables' /\ CtLost' /\ conn' = "lost"
    BY DEF CtTables, CtLost
  <1>2. CtWatch' /\ CtSteps'
    BY DEF CtWatch, CtSteps, CtDue, OutcomeFromPlan
  <1>3. QED
    BY <1>1, <1>2, CtGone

\* A list of requests has one for each of the names.
LEMMA CtRequests ==
    ASSUME cfg \in Configs, NEW names \in SUBSET Names, \A n \in names : cfg[n] # Absent,
           NEW q \in Requests(names)
    PROVE  /\ q \in Seq(CtReq) /\ CtKinds(q)
           /\ \A n : CtAbout(q, n) <=> n \in names
           /\ \A n \in names : CtLastVer(q, n, cfg[n]) /\ CtNewLast(q, n)
  <1> DEFINE c == Cardinality(names)
             R == [kind : {"new"}, name : names, ver : Versions]
  <1>1. IsFiniteSet(names) /\ c \in Nat
    BY FS_Subset, FS_CardinalityType, TunnelAssumptions
  <1>2. /\ q \in [1..c -> R] /\ {q[i].name : i \in DOMAIN q} = names
        /\ \A i, j \in DOMAIN q : q[i].name = q[j].name => i = j
        /\ \A i \in DOMAIN q : q[i].ver = cfg[q[i].name]
    BY DEF Requests
  <1> HIDE DEF c
  <1>3. R \subseteq CtReq /\ \A r \in R : r.kind = "new" /\ r.ver # Absent /\ r.name \in names
    BY TunnelAssumptions DEF CtReq
  <1> HIDE DEF R
  <1>4. q \in Seq(R) /\ Len(q) = c /\ DOMAIN q = 1..Len(q)
    BY <1>1, <1>2
  <1>5. q \in Seq(CtReq)
    BY <1>2, <1>3, <1>4
  <1>6. \A i \in 1..Len(q) : q[i].kind = "new" /\ q[i].ver # Absent /\ q[i].name \in names
    BY <1>2, <1>3, <1>4
  <1>7. CtKinds(q)
    BY <1>6 DEF CtKinds
  <1>8. \A n : CtAbout(q, n) <=> n \in names
    BY <1>2, <1>4 DEF CtAbout
  <1>9. ASSUME NEW n \in names PROVE CtLastVer(q, n, cfg[n]) /\ CtNewLast(q, n)
    <2>1. PICK i \in 1..Len(q) : q[i].name = n
      BY <1>8 DEF CtAbout
    <2>2. \A j \in 1..Len(q) : q[j].name = n => j = i
      BY <1>2, <1>4, <2>1
    <2>3. q[i].ver = cfg[n] /\ i \in Nat
      BY <1>2, <1>4, <2>1
    <2>4. CtLastVer(q, n, cfg[n])
      BY <2>1, <2>2, <2>3 DEF CtLastVer
    <2>5. CtNewLast(q, n)
      BY <2>2, <2>3 DEF CtNewLast
    <2>6. QED
      BY <2>4, <2>5
  <1>10. QED
    BY <1>5, <1>7, <1>8, <1>9

\* A session begins with one request for every tunnel.
LEMMA CtConnect == ASSUME CtInv, Connect PROVE CtInv'
  <1> DEFINE names == {n \in Names : cfg[n] # Absent}
  <1>1. /\ conn = "lost" /\ conn' = "up" /\ task.pc = "idle" /\ CtBase
        /\ mgr' = cfg /\ pending' = names /\ errors' = {} /\ up' \in Requests(names)
        /\ told' = {} /\ late' = {} /\ crossed' = {}
        /\ UNCHANGED <<cfg, srv, down, task, outcome>>
    BY DEF Connect, CtInv
  <1>2. names \in SUBSET Names /\ cfg \in Configs /\ \A n \in names : cfg[n] # Absent
    BY <1>1 DEF CtBase, CtTables
  <1>3. \A n \in Names : n \in names <=> cfg[n] # Absent
    OBVIOUS
  <1> HIDE DEF names
  <1>4. /\ up' \in Seq(CtReq) /\ CtKinds(up')
        /\ \A n : CtAbout(up', n) <=> n \in names
        /\ \A n \in names : CtLastVer(up', n, cfg[n]) /\ CtNewLast(up', n)
    BY <1>1, <1>2, CtRequests
  <1>5. remote' \in Configs /\ \A n \in Names : remote'[n] = Absent
    BY DEF Connect, ClearTunnelRemotes, Configs
  <1>6. CtTables' /\ CtLost'
    BY <1>1, <1>4, <1>5 DEF CtBase, CtTables, CtLost
  <1>7. CtWatch' /\ CtSteps'
    BY <1>1, <1>2 DEF CtBase, CtWatch, CtSteps, CtDue
  <1>8. down' = <<>> /\ \A n \in Names : srv'[n] = Absent
    BY <1>1 DEF CtBase, CtLost
  <1>9. ASSUME NEW n \in Names PROVE CtName(n)'
    <2>1. ~CtAbout(down', n)
      BY <1>8, CtEmpty
    <2>2. CtFollows(n)'
      BY <1>1, <1>3, <1>4, <1>8 DEF CtFollows
    <2>3. CtMissed(n)'
      BY <1>1, <1>3, <1>4 DEF CtMissed
    <2>4. CtAsked(up', n) => CtAbout(up', n)
      BY CtAskedIsAbout
    <2>5. CtShown(n)'
      BY <1>4, <1>5, <2>1, <2>4 DEF CtShown
    <2>6. CtSettled(n)'
      BY <1>1, <1>3, <1>4, <1>5, <2>1, <2>4 DEF CtSettled, CtOut
    <2>7. QED
      BY <1>1, <2>2, <2>3, <2>5, <2>6 DEF CtName
  <1>10. QED
    BY <1>6, <1>7, <1>9 DEF CtInv, CtBase, CtNames

-----------------------------------------------------------------------------
(* The streams.                                                            *)

\* A message is there only in a session.
LEMMA CtOpen == ASSUME CtInv, up # <<>> \/ down # <<>> PROVE conn = "up" /\ \A n \in Names : CtName(n)
  BY DEF CtInv, CtBase, CtTables, CtLost, CtNames

\* The server handles a closing.
LEMMA CtHandlesClose ==
    ASSUME CtInv, up # <<>>, Head(up).kind = "close", up' = Tail(up), UNCHANGED down,
           srv' = [srv EXCEPT ![Head(up).name] = Absent],
           UNCHANGED <<cfg, mgr, pending, errors, remote, conn, task, outcome, told, late, crossed>>
    PROVE  CtInv'
  <1>1. /\ conn = "up" /\ CtTables /\ CtWatch /\ CtSteps /\ CtLost /\ \A n \in Names : CtName(n)
        /\ up \in Seq(CtReq) /\ CtKinds(up)
    BY CtOpen DEF CtInv, CtBase, CtTables
  <1>2. PICK m \in Names : m = Head(up).name
    <2>1. Head(up) \in CtReq
      BY <1>1, HeadTailProperties
    <2>2. QED
      BY <2>1 DEF CtReq
  <1>3. /\ srv' \in Configs /\ srv'[m] = Absent /\ \A n \in Names \ {m} : srv'[n] = srv[n]
    BY <1>1, <1>2 DEF CtTables, Configs
  <1>4. up' \in Seq(CtReq) /\ CtKinds(up') /\ Head(up).ver = Absent
    BY <1>1, HeadTailProperties, CtKindsTaken
  <1>5. CtTables' /\ CtLost' /\ CtWatch' /\ CtSteps' /\ CtDue' = CtDue
    BY <1>1, <1>3, <1>4 DEF CtTables, CtLost, CtWatch, CtSteps, CtDue
  <1>6. ASSUME NEW n \in Names \ {m} PROVE CtName(n)'
    <2>1. CtSame(up, up', n) /\ CtSame(down, down', n) /\ CtName(n)
      BY <1>1, <1>2, CtTakenOther, CtSameStream
    <2>2. QED
      BY <1>3, <1>5, <2>1, CtFrame
  <1>7. CtName(m)'
    <2>1. /\ CtAbout(up, m)
          /\ CtAsked(up', m) => CtAsked(up, m)
          /\ CtAbout(up', m) => \A v : CtLastVer(up, m, v) => CtLastVer(up', m, v)
          /\ ~CtAbout(up', m) => \A v : CtLastVer(up, m, v) => v = Absent
          /\ CtOneNew(up, m) => CtOneNew(up', m)
          /\ CtNewLast(up, m) => CtNewLast(up', m)
      BY <1>1, <1>2, <1>4, CtTaken
    <2>2. CtName(m)
      BY <1>1
    <2>3. CtFollows(m)'
      BY <1>3, <2>1, <2>2 DEF CtName, CtFollows
    <2>4. CtMissed(m)'
      BY <2>1, <2>2 DEF CtName, CtFollows, CtMissed
    <2>5. CtShown(m)'
      BY <2>1, <2>2 DEF CtName, CtShown
    <2>6. CtOut(m) => CtOut(m)'
      BY <2>1 DEF CtOut
    <2>7. CtSettled(m) => CtSettled(m)'
      BY <2>6 DEF CtSettled
    <2>8. CtPlan(m) => CtPlan(m)'
      BY <1>5, <2>6 DEF CtPlan
    <2>9. CtAwaited(m) => CtAwaited(m)'
      BY <2>1 DEF CtAwaited
    <2>10. QED
      BY <2>2, <2>3, <2>4, <2>5, <2>7, <2>8, <2>9 DEF CtName
  <1>8. QED
    BY <1>5, <1>6, <1>7 DEF CtInv, CtBase, CtNames

\* The server handles a request, and answers.
LEMMA CtHandlesNew ==
    ASSUME CtInv, up # <<>>, Head(up).kind = "new", up' = Tail(up), NEW ok \in BOOLEAN,
           srv' = [srv EXCEPT ![Head(up).name] = IF ok THEN Head(up).ver ELSE Absent],
           down' = Append(down, [name |-> Head(up).name, ok |-> ok, ver |-> Head(up).ver]),
           UNCHANGED <<cfg, mgr, pending, errors, remote, conn, task, outcome, told, late, crossed>>
    PROVE  CtInv'
  <1>1. /\ conn = "up" /\ CtTables /\ CtWatch /\ CtSteps /\ CtLost /\ \A n \in Names : CtName(n)
        /\ up \in Seq(CtReq) /\ CtKinds(up) /\ down \in Seq(CtAns)
    BY CtOpen DEF CtInv, CtBase, CtTables
  <1>2. Head(up) \in CtReq
    BY <1>1, HeadTailProperties
  <1>3. up' \in Seq(CtReq) /\ CtKinds(up') /\ Head(up).ver # Absent
    BY <1>1, HeadTailProperties, CtKindsTaken
  <1>4. PICK m \in Names, ver \in Versions : m = Head(up).name /\ ver = Head(up).ver
    BY <1>2, <1>3 DEF CtReq
  <1>5. PICK e \in CtAns : e.name = m /\ e.ok = ok /\ e.ver = ver /\ down' = Append(down, e)
    BY <1>4 DEF CtAns
  <1>6. down' \in Seq(CtAns)
    BY <1>1, <1>5, AppendProperties
  <1>7. ver # Absent
    BY <1>3, <1>4
  <1>8. /\ srv' \in Configs /\ srv'[m] = (IF ok THEN ver ELSE Absent) /\ \A n \in Names \ {m} : srv'[n] = srv[n]
    BY <1>1, <1>4 DEF CtTables, Configs
  <1>9. CtTables' /\ CtLost' /\ CtWatch' /\ CtSteps' /\ CtDue' = CtDue
    BY <1>1, <1>3, <1>6, <1>8 DEF CtTables, CtLost, CtWatch, CtSteps, CtDue
  <1>10. ASSUME NEW n \in Names \ {m} PROVE CtName(n)'
    <2>1. CtSame(up, up', n) /\ CtSame(down, down', n) /\ CtName(n)
      BY <1>1, <1>4, <1>5, CtTakenOther, CtSentOther
    <2>2. QED
      BY <1>8, <1>9, <2>1, CtFrame
  <1>11. CtName(m)'
    <2>1. /\ CtAbout(up, m) /\ CtAsked(up, m)
          /\ CtAsked(up', m) => CtAsked(up, m)
          /\ CtAbout(up', m) => \A v : CtLastVer(up, m, v) => CtLastVer(up', m, v)
          /\ ~CtAbout(up', m) => \A v : CtLastVer(up, m, v) => v = ver
          /\ CtOneNew(up, m) => ~CtAsked(up', m)
          /\ CtNewLast(up, m) => ~CtAbout(up', m)
      BY <1>1, <1>4, CtTaken
    <2>2. /\ CtAbout(down', m)
          /\ ~CtAbout(down, m) => CtSingle(down', m)
          /\ ok = FALSE => CtRefused(down', m)
          /\ CtRefused(down, m) => CtRefused(down', m)
          /\ ~CtAbout(down, m) => \A v : (ok = TRUE => ver = v) => CtGranted(down', m, v)
      <3>1. /\ CtAbout(Append(down, e), m)
            /\ ~CtAbout(down, m) => CtSingle(Append(down, e), m)
            /\ CtRefused(down, m) \/ e.ok = FALSE => CtRefused(Append(down, e), m)
            /\ ~CtAbout(down, m) => \A v : (e.ok = TRUE => e.ver = v) => CtGranted(Append(down, e), m, v)
        BY <1>1, <1>5, CtSent, Zenon
      <3>2. e.ok = ok /\ e.ver = ver /\ down' = Append(down, e)
        BY <1>5
      <3>3. QED
        BY <3>1, <3>2, Zenon
    <2>3. CtName(m)
      BY <1>1
    <2>4. CtFollows(m)'
      BY <1>8, <2>1, <2>3 DEF CtName, CtFollows
    <2>5. CtMissed(m)'
      BY <1>8, <2>1, <2>2, <2>3 DEF CtName, CtFollows, CtMissed
    <2>6. CtAsked(up', m) => CtAbout(up', m)
      BY CtAskedIsAbout
    <2>7. CtShown(m)'
      <3>1. m \notin crossed => /\ remote[m] = Absent /\ ~CtAbout(down, m) /\ ~CtAbout(up', m)
        BY <2>1, <2>3 DEF CtName, CtShown
      <3>2. ok = TRUE => ver = srv'[m]
        BY <1>8
      <3>3. m \notin crossed => CtSingle(down', m) /\ CtGranted(down', m, srv'[m])
        BY <2>2, <3>1, <3>2
      <3>4. QED
        BY <2>6, <3>1, <3>3 DEF CtShown
    <2>8. CtOut(m) => CtOut(m)'
      BY <2>1 DEF CtOut
    <2>9. CtSettled(m) => CtSettled(m)'
      BY <2>8 DEF CtSettled
    <2>10. CtPlan(m) => CtPlan(m)'
      BY <1>9, <2>8 DEF CtPlan
    <2>11. ASSUME CtAwaited(m) PROVE CtAwaited(m)'
      <3>1. ASSUME m \notin late
            PROVE  /\ m \in pending /\ ~CtAbout(down, m) /\ task.new[m] # Absent
                   /\ CtLastVer(up, m, task.new[m]) /\ CtOneNew(up, m)
        BY <2>1, <2>11, <3>1 DEF CtAwaited
      <3>2. ASSUME m \notin late PROVE ~CtAbout(up', m)
        BY <1>3, <2>1, <3>1, <3>2, CtLastAsks
      <3>3. ASSUME m \notin late PROVE srv'[m] = task.new[m] \/ CtRefused(down', m)
        BY <1>8, <2>1, <2>2, <3>1, <3>2, <3>3
      <3>4. QED
        BY <2>2, <2>11, <3>1, <3>2, <3>3 DEF CtAwaited
    <2>12. QED
      BY <2>3, <2>4, <2>5, <2>7, <2>9, <2>10, <2>11 DEF CtName
  <1>12. QED
    BY <1>9, <1>10, <1>11 DEF CtInv, CtBase, CtNames

LEMMA CtServerHandles == ASSUME CtInv, ServerHandles PROVE CtInv'
  <1>1. /\ up # <<>> /\ up' = Tail(up)
        /\ UNCHANGED <<cfg, mgr, pending, errors, remote, conn, task, outcome, told, late, crossed>>
    BY DEF ServerHandles, watch, history
  <1>2. CASE Head(up).kind = "close"
    BY <1>1, <1>2, CtHandlesClose DEF ServerHandles
  <1>3. CASE Head(up).kind = "new"
    <2>1. PICK ok \in BOOLEAN :
              /\ srv' = [srv EXCEPT ![Head(up).name] = IF ok THEN Head(up).ver ELSE Absent]
              /\ down' = Append(down, [name |-> Head(up).name, ok |-> ok, ver |-> Head(up).ver])
      BY <1>3 DEF ServerHandles
    <2>2. QED
      BY <1>1, <1>3, <2>1, CtHandlesNew
  <1>4. QED
    BY <1>2, <1>3 DEF ServerHandles

\* The reader takes an answer.
LEMMA CtReadResp == ASSUME CtInv, ReadResp PROVE CtInv'
  <1>0. down # <<>>
    BY DEF ReadResp
  <1>1. /\ conn = "up" /\ CtTables /\ CtWatch /\ CtSteps /\ CtLost /\ \A n \in Names : CtName(n)
        /\ down \in Seq(CtAns)
    BY <1>0, CtOpen DEF CtInv, CtBase, CtTables
  <1>2. PICK r \in CtAns : r = Head(down)
    BY <1>0, <1>1, HeadTailProperties
  <1>3. PICK m \in Names : m = r.name /\ r.ok \in BOOLEAN /\ r.ver \in Versions
    BY DEF CtAns
  <1>4. /\ down' = Tail(down) /\ UNCHANGED <<cfg, mgr, srv, up, conn, task, outcome, late, crossed>>
        /\ pending' = pending \ {m}
        /\ errors' = IF r.ok THEN errors ELSE errors \cup {m}
        /\ told' = IF r.ok THEN told ELSE told \cup {m}
        /\ IF r.ok THEN remote' = [remote EXCEPT ![m] = r.ver] ELSE remote' = remote
    BY <1>2, <1>3 DEF ReadResp, Finish, SetTunnelRemote
  <1>5. /\ remote' \in Configs /\ \A n \in Names \ {m} : remote'[n] = remote[n]
        /\ r.ok = TRUE => remote'[m] = r.ver
        /\ r.ok = FALSE => remote'[m] = remote[m]
    BY <1>1, <1>3, <1>4 DEF CtTables, Configs
  <1>6. down' \in Seq(CtAns)
    BY <1>0, <1>1, <1>4, HeadTailProperties
  <1>7. CtTables' /\ CtLost' /\ CtSteps' /\ CtDue' = CtDue
    BY <1>1, <1>4, <1>5, <1>6 DEF CtTables, CtLost, CtSteps, CtDue
  <1>8. CtWatch'
    BY <1>1, <1>4 DEF CtWatch
  <1>9. ASSUME NEW n \in Names \ {m} PROVE CtName(n)'
    <2>1. CtSame(up, up', n) /\ CtSame(down, down', n) /\ CtName(n)
      BY <1>0, <1>1, <1>2, <1>3, <1>4, CtTakenOther, CtSameStream
    <2>2. (n \in told => n \in told') /\ (n \in pending <=> n \in pending') /\ (n \in errors => n \in errors')
      BY <1>4
    <2>3. QED
      BY <1>4, <1>5, <1>7, <2>1, <2>2, CtFrame
  <1>10. CtName(m)'
    <2>1. /\ CtAbout(down, m)
          /\ CtSingle(down, m) => ~CtAbout(down', m)
          /\ CtRefused(down, m) => CtRefused(down', m) \/ r.ok = FALSE
          /\ \A v : CtGranted(down, m, v) /\ r.ok = TRUE => r.ver = v
      BY <1>0, <1>1, <1>2, <1>3, <1>4, CtTaken
    <2>2. CtName(m)
      BY <1>1
    <2>3. CtFollows(m)'
      BY <1>4, <2>2 DEF CtName, CtFollows
    <2>4. (r.ok = FALSE => m \in told' /\ m \in errors') /\ (m \in told => m \in told') /\ m \notin pending'
      BY <1>4
    <2>5. CtMissed(m)'
      BY <1>4, <2>1, <2>2, <2>4 DEF CtName, CtMissed
    <2>6. CtShown(m)'
      <3>1. m \notin crossed => /\ remote[m] = Absent /\ ~CtAbout(down', m) /\ ~CtAbout(up, m)
                                /\ CtGranted(down, m, srv[m]) /\ ~CtAsked(up, m)
        BY <2>1, <2>2 DEF CtName, CtShown
      <3>2. m \notin crossed => remote'[m] = Absent \/ remote'[m] = srv[m]
        BY <1>3, <1>5, <2>1, <3>1
      <3>3. QED
        BY <1>4, <3>1, <3>2 DEF CtShown
    <2>7. CtOut(m) => CtOut(m)'
      BY <1>4, <2>1 DEF CtOut
    <2>8. CtSettled(m) => CtSettled(m)'
      BY <1>4, <2>4, <2>7 DEF CtSettled
    <2>9. CtPlan(m) => CtPlan(m)'
      BY <1>4, <1>7, <2>4, <2>7 DEF CtPlan
    <2>10. ASSUME CtAwaited(m) PROVE CtAwaited(m)'
      <3>1. ASSUME m \notin late
            PROVE  /\ ~CtAbout(up, m) /\ CtSingle(down, m)
                   /\ srv[m] = task.new[m] \/ CtRefused(down, m)
        BY <2>1, <2>10, <3>1 DEF CtAwaited
      <3>2. CtRefused(down', m) => CtAbout(down', m)
        BY CtAskedIsAbout
      <3>3. ASSUME m \notin late PROVE ~CtAbout(down', m) /\ (m \in errors' \/ srv[m] = task.new[m])
        BY <2>1, <2>4, <3>1, <3>2, <3>3
      <3>4. QED
        BY <1>4, <2>4, <2>10, <3>1, <3>3 DEF CtAwaited
    <2>11. QED
      BY <1>4, <2>2, <2>3, <2>5, <2>6, <2>8, <2>9, <2>10 DEF CtName
  <1>11. QED
    BY <1>7, <1>8, <1>9, <1>10 DEF CtInv, CtBase, CtNames

-----------------------------------------------------------------------------

LEMMA CtStep == CtInv /\ [Next]_vars => CtInv'
  <1> SUFFICES ASSUME CtInv, [Next]_vars PROVE CtInv'
    OBVIOUS
  <1>1. ASSUME NEW new \in Configs,
               ReloadNoop(new) \/ Reload(new) \/ ReloadConnection(new) \/ ReloadQueued(new)
        PROVE  CtInv'
    BY <1>1, CtReloadNoop, CtReload, CtReloadConnection, CtReloadQueued
  <1>2. CASE StopOne \/ StopDone \/ StartSkipped \/ StartUnfit \/ StartOne
    BY <1>2, CtStopOne, CtStopDone, CtNotStartedSteps, CtStartOne
  <1>3. CASE Collect \/ CollectTimeout
    BY <1>3, CtCollects
  <1>4. CASE CloseAllOne \/ Disconnect \/ Break \/ Connect
    BY <1>4, CtCloseAllOne, CtDisconnect, CtBreak, CtConnect
  <1>5. CASE ServerHandles \/ ReadResp
    BY <1>5, CtServerHandles, CtReadResp
  <1>6. CASE UNCHANGED vars
    <2>1. CtBase' /\ CtDue' = CtDue
      BY <1>6 DEF vars, CtInv, CtBase, CtTables, CtWatch, CtSteps, CtLost, CtDue
    <2>2. ASSUME NEW n \in Names, conn = "up" PROVE CtName(n)'
      BY <1>6, <2>1, <2>2, CtSameStream, CtFrame DEF vars, CtInv, CtNames
    <2>3. QED
      BY <1>6, <2>1, <2>2 DEF vars, CtInv, CtNames
  <1>7. QED
    BY <1>1, <1>2, <1>3, <1>4, <1>5, <1>6 DEF Next

\* What the last message about a name says is what the server will have.
LEMMA CtLastIs ==
    ASSUME CtTables, NEW n \in Names
    PROVE  /\ ~CtAbout(up, n) => Last(n) = srv[n]
           /\ \A v : CtLastVer(up, n, v) => Last(n) = v
  <1> DEFINE about == {i \in DOMAIN up : up[i].name = n}
  <1>1. DOMAIN up = 1..Len(up) /\ Len(up) \in Nat
    BY LenProperties DEF CtTables
  <1>2. ~CtAbout(up, n) => Last(n) = srv[n]
    BY <1>1 DEF Last, CtAbout
  <1>3. ASSUME NEW v, CtLastVer(up, n, v) PROVE Last(n) = v
    <2>1. PICK i \in 1..Len(up) : /\ up[i].name = n /\ up[i].ver = v
                                  /\ \A j \in 1..Len(up) : up[j].name = n => j <= i
      BY <1>3 DEF CtLastVer
    <2>2. i \in about /\ \A j \in about : j <= i
      BY <1>1, <2>1
    <2>3. \A k \in about : (\A j \in about : j <= k) => k = i
      BY <1>1, <2>2
    <2>4. (CHOOSE k \in about : \A j \in about : j <= k) = i
      <3> HIDE DEF about
      <3>1. QED
        BY <2>2, <2>3
    <2>5. Last(n) = up[CHOOSE k \in about : \A j \in about : j <= k].ver
      BY <2>2 DEF Last
    <2>6. QED
      BY <2>1, <2>4, <2>5
  <1>4. QED
    BY <1>2, <1>3

\* Once what is on its way has been handled, the server's tunnels are those of the client's
\* manager, and the addresses that are shown are theirs: for any number of tunnels and of
\* reloads, in whatever order requests and answers are handled and sessions break
\* (apply_tunnel_changes and the reader of the client's Control).
THEOREM TunnelsStayAgreed == Spec => []TunnelsAgree
  <1>1. CtInv => TunnelsAgree
    <2> SUFFICES ASSUME CtInv PROVE TunnelsAgree
      OBVIOUS
    <2>1. CtTables /\ CtWatch /\ CtLost /\ task.new \in Configs
      BY DEF CtInv, CtBase, CtSteps, CtTasks
    <2>2. TypeOK
      BY <2>1 DEF TypeOK, CtTables, CtWatch
    <2>3. ServerFollowsManager
      <3> SUFFICES ASSUME NEW n \in Names PROVE Last(n) \in {Absent, mgr[n]}
        BY DEF ServerFollowsManager
      <3>1. CASE conn = "up"
        <4>1. CtFollows(n)
          BY <3>1 DEF CtInv, CtNames, CtName
        <4>2. QED
          BY <2>1, <4>1, CtLastIs DEF CtFollows
      <3>2. CASE conn # "up"
        <4>1. up = <<>> /\ srv[n] = Absent
          BY <2>1, <3>2 DEF CtTables, CtLost
        <4>2. QED
          BY <2>1, <4>1, CtEmpty, CtLastIs
      <3>3. QED
        BY <3>1, <3>2
    <2>4. RemoteIsCurrent
      BY DEF RemoteIsCurrent, Settled, CtInv, CtNames, CtName, CtShown
    <2>5. QED
      BY <2>2, <2>3, <2>4 DEF TunnelsAgree
  <1>2. QED
    BY <1>1, CtInitInv, CtStep, PTL DEF Spec

\* When everything has been answered, a configured tunnel that the server does not have was
\* reported to the user as failed.
THEOREM NothingMissingInSilence == Spec => []MissingWasReported
  <1>1. CtInv => MissingWasReported
    <2> SUFFICES ASSUME CtInv, Settled, NEW n \in Names
                 PROVE  srv[n] = cfg[n] \/ (srv[n] = Absent /\ n \in told)
      BY DEF MissingWasReported
    <2>1. CtFollows(n) /\ CtMissed(n) /\ CtSettled(n)
      BY DEF Settled, CtInv, CtNames, CtName
    <2>2. ~CtAbout(up, n) /\ ~CtRefused(down, n)
      BY CtEmpty DEF Settled
    <2>3. QED
      BY <2>1, <2>2 DEF CtFollows, CtMissed, CtSettled
  <1>2. QED
    BY <1>1, CtInitInv, CtStep, PTL DEF Spec

\* A reload reports a tunnel as added or updated only if the server has that version, the
\* stream broke, or the answer to an older request was taken for this one's.
THEOREM ReportedIsThere == Spec => SuccessIsTrue
  <1>1. ASSUME CtInv, [Next]_vars, task.pc = "start", task'.pc = "idle"
        PROVE  \A n \in outcome'.added \cup outcome'.updated :
                   srv[n] = task.new[n] \/ conn = "lost" \/ n \in late
    <2>1. CASE Collect \/ CollectTimeout
      BY <1>1, <2>1, CtCollects
    <2>2. ASSUME NEW n, task' = Started(n, FALSE) \/ task' = Started(n, conn = "up") PROVE FALSE
      <3>1. task \in CtTasks
        BY <1>1 DEF CtInv, CtBase, CtSteps
      <3>2. task'.pc = task.pc
        BY <2>2, <3>1 DEF Started, CtTasks
      <3>3. QED
        BY <1>1, <3>2
    <2>3. CASE StartSkipped \/ StartUnfit \/ StartOne
      BY <2>2, <2>3 DEF StartSkipped, StartUnfit, StartOne
    <2>4. ASSUME UNCHANGED task PROVE FALSE
      BY <1>1, <2>4
    <2>5. QED
      BY <1>1, <2>1, <2>3, <2>4 DEF Next, vars, ReloadNoop, Reload, ReloadConnection, ReloadQueued, StopOne,
         StopDone, CloseAllOne, Disconnect, Break, Connect, ServerHandles, ReadResp
  <1>2. CtInv /\ [Next]_vars =>
            [task.pc = "start" /\ task'.pc = "idle" =>
               \A n \in outcome'.added \cup outcome'.updated :
                   srv[n] = task.new[n] \/ conn = "lost" \/ n \in late]_vars
    BY <1>1
  <1>3. QED
    BY <1>2, CtInitInv, CtStep, PTL DEF Spec, SuccessIsTrue

-----------------------------------------------------------------------------
(* The client's forwarder of a udp session.                                *)

UfActive(s) == ufSock[s].reader \in {"read", "remove"}

\* What the forwarder holds between looking the map up and sending.  A socket that it has
\* just bound is fresh, and still in the map unless a send for its visitor had failed; one
\* that it found has had its first packet.
UfFwdInv ==
    /\ ufFwd.pc \in {"bind", "send"} => ufFwd.visitor \in UfVisitors
    /\ ufFwd.pc = "bind" => ufFwd.sock = UfNone
    /\ ufFwd.pc = "send" =>
         /\ ufFwd.sock \in UfSockets
         /\ ufFwd.new => /\ ufSock[ufFwd.sock].visitor = ufFwd.visitor
                         /\ ufSock[ufFwd.sock].reader = "none" /\ ufSock[ufFwd.sock].got = "nothing"
                         /\ ufFwd.visitor \in ufFailed \/ ufMap[ufFwd.visitor] = ufFwd.sock
         /\ ~ufFwd.new => ufSock[ufFwd.sock].reader # "none"
    /\ ufFwd.pc = "over" => \A v \in UfVisitors : ufMap[v] = UfNone

\* The vacant entry stays vacant until the forwarder fills it.
UfVacant == ufFwd.pc = "bind" => ufMap[ufFwd.visitor] = UfNone

\* A socket with a reader has a visitor and had its first packet, with the header.
UfStarted ==
    \A s \in UfSockets : ufSock[s].reader # "none" =>
        ufSock[s].visitor \in UfVisitors /\ ufSock[s].got = "flow"

\* As long as no send for its visitor has failed, a socket that is read is the one in the map.
UfReaderHasEntry ==
    ufFwd.pc # "over" =>
        \A s \in UfSockets : UfActive(s) /\ ufSock[s].visitor \notin ufFailed
                             => ufMap[ufSock[s].visitor] = s

UfInv == UfSound /\ UfFwdInv /\ UfVacant /\ UfStarted /\ UfReaderHasEntry

-----------------------------------------------------------------------------
(* The forwarder.                                                          *)

LEMMA UfFreshTyped ==
    /\ UfFresh.reader = "none" /\ UfFresh.got = "nothing"
    /\ \A v \in UfVisitors \cup {UfNone} :
           /\ [UfFresh EXCEPT !.visitor = v] \in UfSocks
           /\ [UfFresh EXCEPT !.visitor = v].visitor = v
           /\ [UfFresh EXCEPT !.visitor = v].reader = "none"
           /\ [UfFresh EXCEPT !.visitor = v].got = "nothing"
    /\ UfFresh \in UfSocks
  BY DEF UfFresh, UfSocks

LEMMA UfIdleTyped ==
    /\ UfIdle \in [pc : {"recv", "bind", "send", "over"}, visitor : UfVisitors \cup {UfNone},
                   sock : UfSockets \cup {UfNone}, new : BOOLEAN]
    /\ UfIdle.pc = "recv"
    /\ [UfIdle EXCEPT !.pc = "over"] \in
           [pc : {"recv", "bind", "send", "over"}, visitor : UfVisitors \cup {UfNone},
            sock : UfSockets \cup {UfNone}, new : BOOLEAN]
    /\ [UfIdle EXCEPT !.pc = "over"].pc = "over"
  BY DEF UfIdle

\* At the start the map is empty and no socket was used.
LEMMA UfInitInv == UfInit => UfInv
  <1> SUFFICES ASSUME UfInit PROVE UfInv
    OBVIOUS
  <1>1. UfTypeOK
    BY UfFreshTyped, UfIdleTyped DEF UfInit, UfTypeOK
  <1>2. UfEntryHasReader
    BY DEF UfInit, UfEntryHasReader
  <1>3. UfHeaderFirst
    BY UfFreshTyped DEF UfInit, UfHeaderFirst
  <1>4. UfDoubleHasCause
    BY UfFreshTyped DEF UfInit, UfDoubleHasCause
  <1>5. UfFwdInv /\ UfVacant
    BY UfIdleTyped DEF UfInit, UfFwdInv, UfVacant
  <1>6. UfStarted /\ UfReaderHasEntry
    BY UfFreshTyped DEF UfInit, UfStarted, UfReaderHasEntry, UfActive
  <1>7. QED
    BY <1>1, <1>2, <1>3, <1>4, <1>5, <1>6 DEF UfInv, UfSound

\* The forwarder takes a packet: what it found in the map has had its first packet.
LEMMA UfRecvInv == ASSUME UfInv, NEW v \in UfVisitors, UfRecv(v) PROVE UfInv'
  <1> USE DEF UfInv, UfSound, UfRecv
  <1>1. UfTypeOK'
    BY DEF UfTypeOK
  <1>2. UfEntryHasReader'
    BY DEF UfTypeOK, UfEntryHasReader
  <1>3. UfHeaderFirst' /\ UfDoubleHasCause' /\ UfStarted'
    BY DEF UfHeaderFirst, UfDoubleHasCause, UfStarted
  <1>4. UfFwdInv'
    BY UfAssumptions DEF UfFwdInv, UfTypeOK, UfEntryHasReader
  <1>5. UfVacant'
    BY DEF UfVacant
  <1>6. UfReaderHasEntry'
    BY DEF UfReaderHasEntry, UfActive
  <1>7. QED
    BY <1>1, <1>2, <1>3, <1>4, <1>5, <1>6

LEMMA UfBindFailsInv == ASSUME UfInv, UfBindFails PROVE UfInv'
  <1> USE DEF UfInv, UfSound, UfBindFails
  <1>1. UfTypeOK'
    BY UfIdleTyped DEF UfTypeOK
  <1>2. UfEntryHasReader'
    BY UfIdleTyped DEF UfTypeOK, UfEntryHasReader
  <1>3. UfHeaderFirst' /\ UfDoubleHasCause' /\ UfStarted'
    BY DEF UfHeaderFirst, UfDoubleHasCause, UfStarted
  <1>4. UfFwdInv' /\ UfVacant'
    BY UfIdleTyped DEF UfFwdInv, UfVacant
  <1>5. UfReaderHasEntry'
    BY DEF UfReaderHasEntry, UfActive
  <1>6. QED
    BY <1>1, <1>2, <1>3, <1>4, <1>5

\* A new socket has no reader yet: it joins the sockets that nobody reads.
LEMMA UfBindInv == ASSUME UfInv, UfBind PROVE UfInv'
  <1> DEFINE v == ufFwd.visitor
  <1>1. PICK s \in UfSockets :
            /\ UfUnused(s)
            /\ ufMap' = [ufMap EXCEPT ![v] = s]
            /\ ufSock' = [ufSock EXCEPT ![s] = [UfFresh EXCEPT !.visitor = v]]
            /\ ufFwd' = [ufFwd EXCEPT !.pc = "send", !.sock = s, !.new = TRUE]
    BY DEF UfBind
  <1>2. v \in UfVisitors /\ ufFwd.pc = "bind" /\ ufFailed' = ufFailed /\ ufMap[v] = UfNone
    BY DEF UfBind, UfInv, UfFwdInv, UfVacant
  <1>3. UfTypeOK
    BY DEF UfInv, UfSound
  <1>4. /\ ufFwd' \in [pc : {"recv", "bind", "send", "over"}, visitor : UfVisitors \cup {UfNone},
                       sock : UfSockets \cup {UfNone}, new : BOOLEAN]
        /\ ufFwd'.pc = "send" /\ ufFwd'.sock = s /\ ufFwd'.new /\ ufFwd'.visitor = v
    BY <1>1, <1>3 DEF UfTypeOK
  <1>5. /\ ufMap' \in [UfVisitors -> UfSockets \cup {UfNone}]
        /\ ufMap'[v] = s /\ \A w \in UfVisitors \ {v} : ufMap'[w] = ufMap[w]
    BY <1>1, <1>2, <1>3 DEF UfTypeOK
  <1>6. /\ ufSock'[s] = [UfFresh EXCEPT !.visitor = v]
        /\ ufSock'[s] \in UfSocks /\ ufSock'[s].visitor = v
        /\ ufSock'[s].reader = "none" /\ ufSock'[s].got = "nothing"
        /\ \A t \in UfSockets \ {s} : ufSock'[t] = ufSock[t]
    BY <1>1, <1>2, <1>3, UfFreshTyped DEF UfTypeOK
  <1>7. ufSock' \in [UfSockets -> UfSocks]
    BY <1>1, <1>6, <1>3 DEF UfTypeOK
  <1>8. ufSock[s].reader \in {"none", "gone"} /\ \A w \in UfVisitors : ufMap[w] # s
    BY <1>1 DEF UfUnused
  <1> HIDE DEF v
  <1>9. UfTypeOK'
    BY <1>2, <1>3, <1>4, <1>5, <1>7 DEF UfTypeOK
  <1>10. UfEntryHasReader'
    <2> SUFFICES ASSUME NEW w \in UfVisitors, ufMap'[w] # UfNone
                 PROVE  /\ ufSock'[ufMap'[w]].visitor = w
                        /\ \/ ufSock'[ufMap'[w]].reader \in {"read", "remove"}
                           \/ ufMap'[w] = s
      BY <1>4 DEF UfEntryHasReader
    <2>1. CASE w = v
      BY <2>1, <1>5, <1>6
    <2>2. CASE w # v
      <3>1. ufMap'[w] = ufMap[w] /\ ufMap[w] \in UfSockets \ {s}
        BY <2>2, <1>3, <1>5, <1>8 DEF UfTypeOK
      <3>2. ufSock'[ufMap'[w]] = ufSock[ufMap[w]]
        BY <3>1, <1>6
      <3>3. ufSock[ufMap[w]].visitor = w /\ ufSock[ufMap[w]].reader \in {"read", "remove"}
        BY <3>1, <1>2 DEF UfEntryHasReader, UfInv, UfSound
      <3>4. QED
        BY <3>2, <3>3
    <2>3. QED
      BY <2>1, <2>2
  <1>11. UfHeaderFirst'
    BY <1>6 DEF UfHeaderFirst, UfInv, UfSound
  <1>12. UfDoubleHasCause'
    <2> SUFFICES ASSUME NEW a \in UfSockets, NEW b \in UfSockets, a # b,
                        ufSock'[a].visitor = ufSock'[b].visitor,
                        ufSock'[a].reader \in {"read", "remove"},
                        ufSock'[b].reader \in {"read", "remove"}
                 PROVE  ufSock'[a].visitor \in ufFailed
      BY <1>2 DEF UfDoubleHasCause
    <2>1. ufSock'[a] = ufSock[a] /\ ufSock'[b] = ufSock[b]
      BY <1>6
    <2>2. QED
      BY <2>1 DEF UfDoubleHasCause, UfInv, UfSound
  <1>13. UfFwdInv' /\ UfVacant'
    BY <1>2, <1>4, <1>5, <1>6 DEF UfFwdInv, UfVacant
  <1>14. UfStarted'
    BY <1>6 DEF UfStarted, UfInv
  <1>15. UfReaderHasEntry'
    <2> SUFFICES ASSUME NEW t \in UfSockets, UfActive(t)', ufSock'[t].visitor \notin ufFailed'
                 PROVE  ufMap'[ufSock'[t].visitor] = t
      BY DEF UfReaderHasEntry
    <2>1. t # s /\ ufSock'[t] = ufSock[t] /\ UfActive(t)
      BY <1>6 DEF UfActive
    <2>2. ufSock[t].visitor \in UfVisitors /\ ufMap[ufSock[t].visitor] = t
      BY <2>1, <1>2 DEF UfInv, UfReaderHasEntry, UfStarted, UfActive
    <2>3. QED
      BY <2>1, <2>2, <1>2, <1>5, UfAssumptions
  <1>16. QED
    BY <1>9, <1>10, <1>11, <1>12, <1>13, <1>14, <1>15 DEF UfInv, UfSound

\* The first packet goes out with the header and starts the reader, a later one goes out
\* without; a new reader finds no other one of its visitor, unless a send had failed.
LEMMA UfSendInv == ASSUME UfInv, UfSend PROVE UfInv'
  <1> DEFINE s == ufFwd.sock
  <1>1. /\ ufFwd.pc = "send" /\ ufFwd' = UfIdle /\ ufMap' = ufMap /\ ufFailed' = ufFailed
        /\ ufSock' = [ufSock EXCEPT ![s].got = UfReceive(@, ufFwd.new),
                                    ![s].reader = IF ufFwd.new THEN "read" ELSE @]
    BY DEF UfSend
  <1>2. UfTypeOK /\ s \in UfSockets /\ ufFwd.visitor \in UfVisitors
    BY <1>1 DEF UfInv, UfSound, UfFwdInv
  <1>3. /\ ufFwd.new => /\ ufSock[s].reader = "none" /\ ufSock[s].got = "nothing"
                        /\ ufSock[s].visitor = ufFwd.visitor
        /\ ~ufFwd.new => ufSock[s].reader # "none" /\ ufSock[s].got = "flow"
    BY <1>1, <1>2 DEF UfInv, UfFwdInv, UfStarted
  <1>4. UfReceive(ufSock[s].got, ufFwd.new) = "flow"
    BY <1>2, <1>3 DEF UfReceive, UfTypeOK
  <1>5. /\ ufSock'[s] = [ufSock[s] EXCEPT !.got = "flow",
                                          !.reader = IF ufFwd.new THEN "read" ELSE ufSock[s].reader]
        /\ \A t \in UfSockets \ {s} : ufSock'[t] = ufSock[t]
        /\ DOMAIN ufSock' = UfSockets
        /\ ufSock' = [t \in UfSockets |-> ufSock'[t]]
    BY <1>1, <1>2, <1>4 DEF UfTypeOK
  <1>6. /\ ufSock'[s] \in UfSocks /\ ufSock'[s].got = "flow"
        /\ ufSock'[s].visitor = ufSock[s].visitor
        /\ ufFwd.new => ufSock'[s].reader = "read"
        /\ ~ufFwd.new => ufSock'[s].reader = ufSock[s].reader
    <2>1. ufSock[s] \in UfSocks
      BY <1>2 DEF UfTypeOK
    <2>2. CASE ufFwd.new
      <3>1. ufSock'[s] = [ufSock[s] EXCEPT !.got = "flow", !.reader = "read"]
        BY <1>5, <2>2
      <3>2. QED
        BY <2>1, <2>2, <3>1 DEF UfSocks
    <2>3. CASE ~ufFwd.new
      <3>1. ufSock'[s] = [ufSock[s] EXCEPT !.got = "flow", !.reader = ufSock[s].reader]
        BY <1>5, <2>3
      <3>2. QED
        BY <2>1, <2>3, <3>1 DEF UfSocks
    <2>4. QED
      BY <2>2, <2>3
  <1>7. ufSock' \in [UfSockets -> UfSocks]
    BY <1>2, <1>5, <1>6 DEF UfTypeOK
  <1>8. \A t \in UfSockets : UfActive(t) => UfActive(t)'
    BY <1>3, <1>5, <1>6 DEF UfActive
  <1> HIDE DEF s
  <1>9. UfTypeOK'
    BY <1>1, <1>2, <1>7, UfIdleTyped DEF UfTypeOK
  <1>10. UfEntryHasReader'
    <2> SUFFICES ASSUME NEW v \in UfVisitors, ufMap[v] # UfNone
                 PROVE  ufSock'[ufMap[v]].visitor = v /\ UfActive(ufMap[v])'
      BY <1>1 DEF UfEntryHasReader, UfActive
    <2>1. ufMap[v] \in UfSockets /\ ufSock[ufMap[v]].visitor = v
      BY <1>2 DEF UfTypeOK, UfEntryHasReader, UfInv, UfSound
    <2>2. UfActive(ufMap[v]) \/ (ufMap[v] = s /\ ufFwd.new)
      BY DEF UfEntryHasReader, UfInv, UfSound, UfActive, s
    <2>3. ufSock'[ufMap[v]].visitor = v
      BY <2>1, <1>5, <1>6
    <2>4. UfActive(ufMap[v])'
      BY <2>1, <2>2, <1>1, <1>6, <1>8 DEF UfActive
    <2>5. QED
      BY <2>3, <2>4
  <1>11. UfHeaderFirst'
    BY <1>5, <1>6 DEF UfHeaderFirst, UfInv, UfSound
  <1>12. UfStarted'
    <2> SUFFICES ASSUME NEW t \in UfSockets, ufSock'[t].reader # "none"
                 PROVE  ufSock'[t].visitor \in UfVisitors /\ ufSock'[t].got = "flow"
      BY DEF UfStarted
    <2>1. CASE t = s
      BY <2>1, <1>2, <1>3, <1>6 DEF UfStarted, UfInv
    <2>2. CASE t # s
      BY <2>2, <1>5 DEF UfStarted, UfInv
    <2>3. QED
      BY <2>1, <2>2
  <1>13. UfReaderHasEntry'
    <2> SUFFICES ASSUME NEW t \in UfSockets, UfActive(t)', ufSock'[t].visitor \notin ufFailed
                 PROVE  ufMap[ufSock'[t].visitor] = t
      BY <1>1 DEF UfReaderHasEntry
    <2>1. CASE t = s /\ ufFwd.new
      BY <2>1, <1>1, <1>3, <1>6 DEF UfInv, UfFwdInv, s
    <2>2. CASE ~(t = s /\ ufFwd.new)
      <3>1. ufSock'[t].visitor = ufSock[t].visitor /\ UfActive(t)
        BY <2>2, <1>5, <1>6 DEF UfActive
      <3>2. QED
        BY <3>1, <1>1 DEF UfInv, UfReaderHasEntry
    <2>3. QED
      BY <2>1, <2>2
  <1>14. UfDoubleHasCause'
    <2>1. ufFwd'.pc # "over"
      BY <1>1, UfIdleTyped
    <2>2. QED
      BY <1>13, <2>1 DEF UfDoubleHasCause, UfReaderHasEntry, UfActive
  <1>15. UfFwdInv' /\ UfVacant'
    BY <1>1, UfIdleTyped DEF UfFwdInv, UfVacant
  <1>16. QED
    BY <1>9, <1>10, <1>11, <1>12, <1>13, <1>14, <1>15 DEF UfInv, UfSound

\* A failed send vacates the entry of the packet's visitor, whichever socket is there.
LEMMA UfSendFailsInv == ASSUME UfInv, UfSendFails PROVE UfInv'
  <1> DEFINE v == ufFwd.visitor
  <1>1. /\ ufFwd.pc = "send" /\ ufFwd' = UfIdle /\ ufSock' = ufSock
        /\ ufFailed' = ufFailed \cup {v} /\ ufMap' = [ufMap EXCEPT ![v] = UfNone]
    BY DEF UfSendFails
  <1>2. UfTypeOK /\ v \in UfVisitors
    BY <1>1 DEF UfInv, UfSound, UfFwdInv
  <1>3. /\ ufMap' \in [UfVisitors -> UfSockets \cup {UfNone}]
        /\ ufMap'[v] = UfNone /\ \A w \in UfVisitors \ {v} : ufMap'[w] = ufMap[w]
    BY <1>1, <1>2 DEF UfTypeOK
  <1>4. UfTypeOK'
    BY <1>1, <1>2, <1>3, UfIdleTyped DEF UfTypeOK
  <1>5. UfEntryHasReader'
    <2> SUFFICES ASSUME NEW w \in UfVisitors, ufMap'[w] # UfNone
                 PROVE  ufSock[ufMap'[w]].visitor = w /\ UfActive(ufMap'[w])
      BY <1>1 DEF UfEntryHasReader, UfActive
    <2>1. w # v /\ ufMap'[w] = ufMap[w]
      BY <1>3
    <2>2. ufSock[ufMap[w]].visitor = w
      BY <2>1 DEF UfInv, UfSound, UfEntryHasReader
    <2>3. ~(ufFwd.pc = "send" /\ ufFwd.sock = ufMap[w] /\ ufFwd.new)
      BY <2>1, <2>2, <1>2 DEF UfInv, UfFwdInv
    <2>4. QED
      BY <2>1, <2>2, <2>3 DEF UfInv, UfSound, UfEntryHasReader, UfActive
  <1>6. UfHeaderFirst' /\ UfDoubleHasCause' /\ UfStarted'
    BY <1>1 DEF UfHeaderFirst, UfDoubleHasCause, UfStarted, UfInv, UfSound
  <1>7. UfFwdInv' /\ UfVacant'
    BY <1>1, UfIdleTyped DEF UfFwdInv, UfVacant
  <1>8. UfReaderHasEntry'
    BY <1>1, <1>3 DEF UfReaderHasEntry, UfActive, UfInv, UfStarted
  <1>9. QED
    BY <1>4, <1>5, <1>6, <1>7, <1>8 DEF UfInv, UfSound

\* A reader leaves its loop; its entry is still there.
LEMMA UfReaderBreaksInv == ASSUME UfInv, NEW s \in UfSockets, UfReaderBreaks(s) PROVE UfInv'
  <1>1. /\ ufSock[s].reader = "read" /\ ufSock' = [ufSock EXCEPT ![s].reader = "remove"]
        /\ ufMap' = ufMap /\ ufFwd' = ufFwd /\ ufFailed' = ufFailed
    BY DEF UfReaderBreaks
  <1>2. UfTypeOK
    BY DEF UfInv, UfSound
  <1>3. /\ ufSock'[s] \in UfSocks /\ ufSock'[s].visitor = ufSock[s].visitor
        /\ ufSock'[s].got = ufSock[s].got /\ ufSock'[s].reader = "remove"
        /\ \A t \in UfSockets \ {s} : ufSock'[t] = ufSock[t]
    BY <1>1, <1>2 DEF UfTypeOK, UfSocks
  <1>4. UfTypeOK'
    BY <1>1, <1>2, <1>3 DEF UfTypeOK
  <1>5. UfEntryHasReader'
    BY <1>1, <1>2, <1>3 DEF UfInv, UfSound, UfEntryHasReader, UfTypeOK
  <1>6. UfHeaderFirst' /\ UfStarted'
    BY <1>1, <1>3 DEF UfInv, UfSound, UfHeaderFirst, UfStarted
  <1>7. UfDoubleHasCause'
    BY <1>1, <1>3 DEF UfInv, UfSound, UfDoubleHasCause
  <1>8. UfFwdInv' /\ UfVacant'
    BY <1>1, <1>3 DEF UfInv, UfFwdInv, UfVacant
  <1>9. UfReaderHasEntry'
    BY <1>1, <1>3 DEF UfInv, UfReaderHasEntry, UfActive
  <1>10. QED
    BY <1>4, <1>5, <1>6, <1>7, <1>8, <1>9 DEF UfInv, UfSound

\* The reader removes the entry of its visitor.  That is its own socket unless a send for
\* the visitor had failed.
LEMMA UfReaderRemovesInv == ASSUME UfInv, NEW s \in UfSockets, UfReaderRemoves(s) PROVE UfInv'
  <1> DEFINE v == ufSock[s].visitor
  <1>1. /\ ufSock[s].reader = "remove" /\ ufSock' = [ufSock EXCEPT ![s].reader = "gone"]
        /\ ufMap' = IF ufFwd.pc = "over" THEN ufMap ELSE [ufMap EXCEPT ![v] = UfNone]
        /\ ufFwd' = ufFwd /\ ufFailed' = ufFailed
    BY DEF UfReaderRemoves
  <1>2. UfTypeOK /\ v \in UfVisitors
    BY <1>1 DEF UfInv, UfSound, UfStarted
  <1>3. /\ ufSock'[s] \in UfSocks /\ ufSock'[s].visitor = v
        /\ ufSock'[s].got = ufSock[s].got /\ ufSock'[s].reader = "gone"
        /\ \A t \in UfSockets \ {s} : ufSock'[t] = ufSock[t]
    BY <1>1, <1>2 DEF UfTypeOK, UfSocks
  <1>4. /\ ufMap' \in [UfVisitors -> UfSockets \cup {UfNone}]
        /\ ufMap'[v] = UfNone /\ \A w \in UfVisitors \ {v} : ufMap'[w] = ufMap[w]
    BY <1>1, <1>2 DEF UfTypeOK, UfInv, UfFwdInv
  <1> HIDE DEF v
  <1>5. UfTypeOK'
    BY <1>1, <1>2, <1>3, <1>4 DEF UfTypeOK
  <1>6. UfEntryHasReader'
    <2> SUFFICES ASSUME NEW w \in UfVisitors, ufMap'[w] # UfNone
                 PROVE  /\ ufSock'[ufMap'[w]].visitor = w
                        /\ \/ ufSock'[ufMap'[w]].reader \in {"read", "remove"}
                           \/ ufFwd.pc = "send" /\ ufFwd.sock = ufMap'[w] /\ ufFwd.new
      BY <1>1 DEF UfEntryHasReader
    <2>1. w # v /\ ufMap'[w] = ufMap[w]
      BY <1>4
    <2>2. ufMap[w] \in UfSockets /\ ufSock[ufMap[w]].visitor = w
      BY <2>1, <1>2 DEF UfInv, UfSound, UfEntryHasReader, UfTypeOK
    <2>3. ufMap[w] # s
      BY <2>1, <2>2 DEF v
    <2>4. ufSock'[ufMap[w]] = ufSock[ufMap[w]]
      BY <2>2, <2>3, <1>3
    <2>5. QED
      BY <2>1, <2>4 DEF UfInv, UfSound, UfEntryHasReader
  <1>7. UfHeaderFirst' /\ UfStarted'
    BY <1>1, <1>2, <1>3 DEF UfInv, UfSound, UfHeaderFirst, UfStarted
  <1>8. UfDoubleHasCause'
    BY <1>1, <1>3 DEF UfInv, UfSound, UfDoubleHasCause
  <1>9. UfFwdInv'
    <2>1. ufFwd.pc = "send" /\ ufFwd.new => ufFwd.sock # s
      BY <1>1, <1>2 DEF UfInv, UfFwdInv
    <2>2. ufFwd.pc = "send" /\ ufFwd.new /\ ufFwd.visitor \notin ufFailed => ufFwd.visitor # v
      BY <2>1, <1>1 DEF UfInv, UfFwdInv, UfReaderHasEntry, UfActive, v
    <2>3. QED
      BY <2>1, <2>2, <1>1, <1>3, <1>4 DEF UfInv, UfFwdInv
  <1>10. UfVacant'
    BY <1>1, <1>4 DEF UfInv, UfFwdInv, UfVacant
  <1>11. UfReaderHasEntry'
    <2> SUFFICES ASSUME ufFwd.pc # "over", NEW t \in UfSockets, UfActive(t)',
                        ufSock'[t].visitor \notin ufFailed
                 PROVE  ufMap'[ufSock'[t].visitor] = t
      BY <1>1 DEF UfReaderHasEntry
    <2>1. t # s /\ ufSock'[t] = ufSock[t] /\ UfActive(t)
      BY <1>3 DEF UfActive
    <2>2. ufSock[t].visitor \in UfVisitors /\ ufMap[ufSock[t].visitor] = t
      BY <2>1 DEF UfInv, UfReaderHasEntry, UfStarted, UfActive
    <2>3. ufSock[t].visitor # v
      BY <2>1, <2>2, <1>1 DEF UfInv, UfReaderHasEntry, UfActive, v
    <2>4. QED
      BY <2>1, <2>2, <2>3, <1>4
  <1>12. QED
    BY <1>5, <1>6, <1>7, <1>8, <1>9, <1>10, <1>11 DEF UfInv, UfSound

LEMMA UfAbortInv == ASSUME UfInv, UfAbort PROVE UfInv'
  <1>1. /\ ufFwd' = [UfIdle EXCEPT !.pc = "over"] /\ ufMap' = [v \in UfVisitors |-> UfNone]
        /\ ufSock' = ufSock /\ ufFailed' = ufFailed /\ UfTypeOK
    BY DEF UfAbort, UfInv, UfSound
  <1>2. UfTypeOK'
    BY <1>1, UfIdleTyped DEF UfTypeOK
  <1>3. UfEntryHasReader'
    BY <1>1 DEF UfEntryHasReader
  <1>4. UfHeaderFirst' /\ UfDoubleHasCause' /\ UfStarted'
    BY <1>1 DEF UfHeaderFirst, UfDoubleHasCause, UfStarted, UfInv, UfSound
  <1>5. UfFwdInv' /\ UfVacant' /\ UfReaderHasEntry'
    BY <1>1, UfIdleTyped DEF UfFwdInv, UfVacant, UfReaderHasEntry
  <1>6. QED
    BY <1>2, <1>3, <1>4, <1>5 DEF UfInv, UfSound

LEMMA UfNextInv == UfInv /\ [UfNext]_ufVars => UfInv'
  <1> SUFFICES ASSUME UfInv, [UfNext]_ufVars PROVE UfInv'
    OBVIOUS
  <1>1. ASSUME NEW v \in UfVisitors, UfRecv(v) PROVE UfInv'
    BY <1>1, UfRecvInv
  <1>2. ASSUME NEW s \in UfSockets, UfReaderBreaks(s) \/ UfReaderRemoves(s) PROVE UfInv'
    BY <1>2, UfReaderBreaksInv, UfReaderRemovesInv
  <1>3. CASE UNCHANGED ufVars
    BY <1>3 DEF ufVars, UfInv, UfSound, UfTypeOK, UfEntryHasReader, UfHeaderFirst,
        UfDoubleHasCause, UfFwdInv, UfVacant, UfStarted, UfReaderHasEntry, UfActive
  <1>4. QED
    BY <1>1, <1>2, <1>3, UfBindFailsInv, UfBindInv, UfSendInv, UfSendFailsInv, UfAbortInv DEF UfNext

\* The client's udp forwarder, for any visitors and sockets: every packet leaves on a
\* socket of its visitor's own whose replies are read; the PROXY header is the first packet
\* of every socket and is not repeated; two readers of one visitor, or a reader that removes
\* another socket's entry, need a send that failed.
THEOREM UfSpecSound == UfSpec => []UfSound
  <1>1. UfInv => UfSound
    BY DEF UfInv
  <1>2. QED
    BY <1>1, UfInitInv, UfNextInv, PTL DEF UfSpec

-----------------------------------------------------------------------------
(* The tunnel and its sessions.                                            *)

\* The reader that runs is that of the current connection, and the loop is serving it or
\* has been aborted: nothing runs when the loop gets the next one.
UtReaderCurrent ==
    \A d \in UtConns : utReader[d] = "run" => d = utConn /\ utLoop \in {"join", "write", "gone"}

UtLoopHasConn == utLoop \in {"start", "join", "write"} => utConn \in UtConns

\* A session that was not told to end is the one the slot names.
UtSessionInSlot == \A d \in UtConns : utSess[d] = "run" => d = utSlot

\* What may end the loop of an open tunnel has the cause that the loop's end has.
UtCauses ==
    /\ utWoken => utTun # "open"
    /\ utTun = "open" /\ utFwd = "gone" => "recv" \in utCause

UtInv ==
    /\ UtTypeOK /\ UtSilenceHasCause
    /\ UtReaderCurrent /\ UtLoopHasConn /\ UtSessionInSlot /\ UtCauses

LEMMA UtAtMostOne ==
    ASSUME NEW S, NEW x, S \subseteq {x}
    PROVE  Cardinality(S) <= 1
  <1>1. IsFiniteSet({x}) /\ Cardinality({x}) = 1
    BY FS_Singleton
  <1>2. QED
    BY <1>1, FS_Subset

LEMMA UtInvImpliesSound == UtInv => UtSound
  <1> SUFFICES ASSUME UtInv PROVE UtSound
    OBVIOUS
  <1>1. UtOneReader
    <2>1. {d \in UtConns : utReader[d] = "run"} \subseteq {utConn}
      BY DEF UtInv, UtReaderCurrent
    <2>2. QED
      BY <2>1, UtAtMostOne DEF UtOneReader
  <1>2. UtOneSession
    <2>1. {d \in UtConns : utSess[d] = "run"} \subseteq {utSlot}
      BY DEF UtInv, UtSessionInSlot
    <2>2. QED
      BY <2>1, UtAtMostOne DEF UtOneSession
  <1>3. QED
    BY <1>1, <1>2 DEF UtInv, UtSound

LEMMA UtInitInv == UtInit => UtInv
  BY DEF UtInit, UtInv, UtTypeOK, UtSilenceHasCause, UtReaderCurrent, UtLoopHasConn,
      UtSessionInSlot, UtCauses

\* The loop gets a connection, serves it and gives it up: every step aborts the reader of
\* the connection it drops.
LEMMA UtLoopInv ==
    ASSUME UtInv,
           \/ UtWake \/ UtGet \/ UtGetFails \/ UtStart \/ UtStartFails \/ UtPacket
           \/ UtWritten \/ UtWriteFails \/ UtReaderFailed \/ UtNoSender \/ UtNotified
    PROVE  UtInv'
  <1> USE DEF UtInv, UtTypeOK, UtSilenceHasCause, UtReaderCurrent, UtLoopHasConn,
          UtSessionInSlot, UtCauses, utClient
  <1>1. CASE UtWake
    BY <1>1 DEF UtWake, UtLoopGoes
  <1>2. CASE UtGet
    BY <1>2 DEF UtGet, UtLoopGoes
  <1>3. CASE UtGetFails
    BY <1>3 DEF UtGetFails, UtLoopGoes
  <1>4. CASE UtStart
    BY <1>4 DEF UtStart, UtLoopGoes
  <1>5. CASE UtStartFails
    BY <1>5 DEF UtStartFails
  <1>6. CASE UtPacket
    BY <1>6 DEF UtPacket, UtLoopGoes
  <1>7. CASE UtWritten
    BY <1>7 DEF UtWritten, UtLoopGoes
  <1>8. CASE UtWriteFails
    BY <1>8 DEF UtWriteFails, UtDropConn
  <1>9. CASE UtReaderFailed
    BY <1>9 DEF UtReaderFailed, UtDropConn
  <1>10. CASE UtNoSender
    BY <1>10 DEF UtNoSender, UtDropConn
  <1>11. CASE UtNotified
    <2>1. utTun # "open" /\ utTun' = utTun
      BY <1>11 DEF UtNotified
    <2>2. CASE utLoop = "join"
      BY <1>11, <2>1, <2>2 DEF UtNotified, UtDropConn
    <2>3. CASE utLoop # "join"
      BY <1>11, <2>1, <2>3 DEF UtNotified
    <2>4. QED
      BY <2>2, <2>3
  <1>12. QED
    BY <1>1, <1>2, <1>3, <1>4, <1>5, <1>6, <1>7, <1>8, <1>9, <1>10, <1>11

\* The tasks that end, by an error of the socket or because the tunnel is closed.
LEMMA UtTasksInv ==
    ASSUME UtInv,
           \/ UtRecvError \/ UtSendError \/ UtChildEnds
           \/ UtClose \/ UtFwdStops \/ UtLoopAborted \/ UtClosed
           \/ \E d \in UtConns : UtReaderEnds(d)
    PROVE  UtInv'
  <1> USE DEF UtInv, UtTypeOK, UtSilenceHasCause, UtReaderCurrent, UtLoopHasConn,
          UtSessionInSlot, UtCauses, utClient
  <1>1. CASE UtRecvError
    BY <1>1 DEF UtRecvError
  <1>2. CASE UtSendError
    BY <1>2 DEF UtSendError
  <1>3. CASE UtChildEnds
    BY <1>3 DEF UtChildEnds, UtHasReplies
  <1>4. CASE UtClose
    BY <1>4 DEF UtClose
  <1>5. CASE UtFwdStops
    BY <1>5 DEF UtFwdStops
  <1>6. CASE UtLoopAborted
    BY <1>6 DEF UtLoopAborted
  <1>7. CASE UtClosed
    BY <1>7 DEF UtClosed
  <1>8. ASSUME NEW d \in UtConns, UtReaderEnds(d) PROVE UtInv'
    BY <1>8 DEF UtReaderEnds
  <1>9. QED
    BY <1>1, <1>2, <1>3, <1>4, <1>5, <1>6, <1>7, <1>8

\* The client's sessions: a new one takes the slot and ends the one that had it.
LEMMA UtClientInv ==
    ASSUME UtInv,
           \/ UtClientRemoves
           \/ \E d \in UtConns : UtStartRead(d) \/ UtSessionStarts(d) \/ UtSessionEnds(d)
    PROVE  UtInv'
  <1> USE DEF UtInv, UtTypeOK, UtSilenceHasCause, UtReaderCurrent, UtLoopHasConn,
          UtSessionInSlot, UtCauses, utServer
  <1>1. CASE UtClientRemoves
    BY <1>1 DEF UtClientRemoves
  <1>2. ASSUME NEW d \in UtConns, UtStartRead(d) PROVE UtInv'
    BY <1>2 DEF UtStartRead
  <1>3. ASSUME NEW d \in UtConns, UtSessionStarts(d) PROVE UtInv'
    BY <1>3 DEF UtSessionStarts
  <1>4. ASSUME NEW d \in UtConns, UtSessionEnds(d) PROVE UtInv'
    BY <1>4 DEF UtSessionEnds, UtMustEnd
  <1>5. QED
    BY <1>1, <1>2, <1>3, <1>4

LEMMA UtNextInv == UtInv /\ [UtNext]_utVars => UtInv'
  <1> SUFFICES ASSUME UtInv, [UtNext]_utVars PROVE UtInv'
    OBVIOUS
  <1>1. CASE UNCHANGED utVars
    BY <1>1 DEF utVars, UtInv, UtTypeOK, UtSilenceHasCause, UtReaderCurrent, UtLoopHasConn,
        UtSessionInSlot, UtCauses
  <1>2. CASE UtNext
    BY <1>2, UtLoopInv, UtTasksInv, UtClientInv DEF UtNext
  <1>3. QED
    BY <1>1, <1>2

\* A udp tunnel, for any number of data connections and failures: the server reads at most
\* one data connection, the client has at most one session that was not told to end, and an
\* open tunnel falls silent only after an error of its own socket.
THEOREM UtSpecSound == UtSpec => []UtSound
  BY UtInitInv, UtNextInv, UtInvImpliesSound, PTL DEF UtSpec
=============================================================================
