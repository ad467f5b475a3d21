-------------------------- MODULE ServerPartsProofs --------------------------
(***************************************************************************)
(* Proofs about parts of the server that stand by themselves: the replay   *)
(* cache of the login check, the traffic metrics and the bandwidth limits. *)
(***************************************************************************)
EXTENDS ReplayCache, TrafficCounters, Limiter, FiniteSetTheorems, WellFoundedInduction, TLAPS

-----------------------------------------------------------------------------
(* The replay cache, for any skew, size of the cache and set of timestamps *)
(* and however often and long the wall clock is ahead.                     *)

\* The entry of an acceptance.
RpEntry(a) == [stamp |-> a.stamp, exp |-> a.at + RpTtl]

\* The record of acceptances: each was within the skew, and is no later than now.
RpUsedOK ==
    /\ IsFiniteSet(rpUsed)
    /\ \A a \in rpUsed : /\ a.stamp \in RpStamps /\ a.at \in 0..rpNow /\ a.sec \in Int
                         /\ a.sec - a.stamp <= RpSkew /\ a.stamp - a.sec <= RpSkew

\* The map has the entry of every acceptance whose time is not over, and no others.
RpMapOK ==
    /\ IsFiniteSet(rpMap)
    /\ \A a \in rpUsed : a.at + RpTtl <= rpNow \/ RpEntry(a) \in rpMap
    /\ \A e \in rpMap : \E a \in rpUsed : e = RpEntry(a)

\* Unless it was set back, the wall clock has moved at least as far as the monotonic one.
RpClockOK == ~rpBack => \A a \in rpUsed : rpNow - a.at <= rpWall - 2 * a.sec

RpInv == RpSound /\ RpUsedOK /\ RpMapOK /\ RpClockOK

\* The time an entry lives.
LEMMA RpTtlValue == RpTtl \in Nat /\ RpTtl = 4 * RpSkew /\ RpSkew \in Nat
  BY RpAssumption DEF RpTtl

\* The wall clock in seconds.
LEMMA RpSecsValue ==
    ASSUME NEW w \in Int
    PROVE  RpSecs(w) \in Int /\ 2 * RpSecs(w) <= w /\ w < 2 * RpSecs(w) + 2
  BY DEF RpSecs

\* What is left after purge_expired: a part of the map, with the entries that live.
LEMMA RpPurgedOK ==
    ASSUME RpInv
    PROVE  /\ RpPurged \subseteq rpMap /\ IsFiniteSet(RpPurged)
           /\ Cardinality(RpPurged) \in Nat /\ Cardinality(RpPurged) <= RpMaxEntries
           /\ \A a \in rpUsed : a.at + RpTtl <= rpNow \/ RpEntry(a) \in RpPurged
           /\ \A e \in RpPurged : \E a \in rpUsed : e = RpEntry(a) /\ rpNow - a.at < RpTtl
  <1>1. RpPurged \subseteq rpMap
    BY DEF RpPurged
  <1>2. /\ IsFiniteSet(RpPurged) /\ Cardinality(RpPurged) <= Cardinality(rpMap)
        /\ Cardinality(RpPurged) \in Nat /\ Cardinality(rpMap) \in Nat
    BY <1>1, FS_Subset, FS_CardinalityType DEF RpInv, RpMapOK
  <1>3. Cardinality(rpMap) <= RpMaxEntries
    BY DEF RpInv, RpSound, RpTypeOK
  <1>4. \A a \in rpUsed : a.at \in Int /\ rpNow \in Int /\ RpTtl \in Int /\ RpEntry(a).exp = a.at + RpTtl
    BY RpTtlValue DEF RpInv, RpSound, RpTypeOK, RpUsedOK, RpEntry
  <1>5. \A a \in rpUsed : a.at + RpTtl <= rpNow \/ RpEntry(a) \in RpPurged
    BY <1>4 DEF RpInv, RpMapOK, RpPurged
  <1>6. \A e \in RpPurged : \E a \in rpUsed : e = RpEntry(a) /\ rpNow - a.at < RpTtl
    BY <1>4 DEF RpInv, RpMapOK, RpPurged
  <1>7. QED
    BY <1>1, <1>2, <1>3, <1>5, <1>6, RpAssumption

\* No more live entries than recent acceptances.
LEMMA RpCounts ==
    ASSUME RpInv
    PROVE  Cardinality(RpPurged) <= Cardinality({a \in rpUsed : rpNow - a.at < RpTtl})
  <1> DEFINE recent == {a \in rpUsed : rpNow - a.at < RpTtl}
             f == [e \in RpPurged |-> CHOOSE a \in recent : e = RpEntry(a)]
  <1>1. \A e \in RpPurged : \E a \in recent : e = RpEntry(a)
    BY RpPurgedOK
  <1>2. \A e \in RpPurged : f[e] \in recent /\ e = RpEntry(f[e])
    BY <1>1
  <1>3. f \in [RpPurged -> recent]
    BY <1>2
  <1>4. \A d, e \in RpPurged : f[d] = f[e] => d = e
    BY <1>2
  <1>5. f \in Injection(RpPurged, recent)
    <2> HIDE DEF f, recent
    <2>1. QED
      BY <1>3, <1>4 DEF Injection, IsInjective
  <1>6. IsFiniteSet(recent)
    BY FS_Subset DEF RpInv, RpUsedOK
  <1>7. QED
    <2> HIDE DEF f, recent
    <2>1. Cardinality(RpPurged) <= Cardinality(recent)
      BY <1>5, <1>6, FS_Injection
    <2>2. QED
      BY <2>1 DEF recent

\* A digest is accepted.
LEMMA RpAccept ==
    ASSUME RpInv, NEW ts \in RpStamps, RpWithinSkew(ts), ~RpFull,
           ~\E e \in RpPurged : e.stamp = ts,
           rpMap' = RpPurged \cup {[stamp |-> ts, exp |-> rpNow + RpTtl]},
           rpUsed' = rpUsed \cup {[stamp |-> ts, at |-> rpNow, sec |-> RpSecs(rpWall)]},
           rpAnswer' = [stamp |-> ts, answer |-> "ok"],
           UNCHANGED <<rpNow, rpWall, rpBack>>
    PROVE  RpInv'
  <1> DEFINE new == [stamp |-> ts, at |-> rpNow, sec |-> RpSecs(rpWall)]
             sec == RpSecs(rpWall)
  <1>1. /\ rpNow \in Nat /\ rpNow <= RpLast /\ rpWall \in Int /\ ts \in Int /\ RpLast \in Nat
        /\ RpSkew \in Nat /\ RpTtl \in Nat /\ RpTtl = 4 * RpSkew /\ RpMaxEntries \in Nat
    BY RpAssumption, RpTtlValue DEF RpInv, RpSound, RpTypeOK
  <1>2. /\ sec \in Int /\ 2 * sec <= rpWall /\ rpWall < 2 * sec + 2
        /\ sec - ts <= RpSkew /\ ts - sec <= RpSkew
    <2>1. sec \in Int /\ 2 * sec <= rpWall /\ rpWall < 2 * sec + 2
      BY <1>1, RpSecsValue
    <2>2. QED
      BY <1>1, <2>1 DEF RpWithinSkew
  <1>3. new.stamp = ts /\ new.at = rpNow /\ new.sec = sec /\ RpEntry(new) = [stamp |-> ts, exp |-> rpNow + RpTtl]
    BY DEF RpEntry
  <1>4. RpEntry(new).stamp = ts /\ RpEntry(new).exp = rpNow + RpTtl
    BY <1>3
  <1> HIDE DEF sec
  <1>5. rpUsed' = rpUsed \cup {new} /\ rpMap' = RpPurged \cup {RpEntry(new)}
    BY <1>3
  <1> HIDE DEF new
  <1>6. \A a \in rpUsed : a.stamp \in Int /\ a.at \in Nat /\ a.at <= rpNow /\ a.sec \in Int
                          /\ a.sec - a.stamp <= RpSkew /\ a.stamp - a.sec <= RpSkew
    <2>1. \A a \in rpUsed : a.stamp \in Int
      BY RpAssumption DEF RpInv, RpUsedOK
    <2>2. \A a \in rpUsed : a.at \in 0..rpNow /\ a.sec \in Int
                          /\ a.sec - a.stamp <= RpSkew /\ a.stamp - a.sec <= RpSkew
      BY DEF RpInv, RpUsedOK
    <2>3. \A i \in 0..rpNow : i \in Nat /\ i <= rpNow
      BY <1>1
    <2>4. QED
      BY <2>1, <2>2, <2>3
  <1>7. RpUsedOK'
    <2>1. IsFiniteSet(rpUsed')
      BY <1>5, FS_AddElement DEF RpInv, RpUsedOK
    <2>2. new.at \in 0..rpNow
      BY <1>1, <1>3
    <2>3. QED
      BY <1>2, <1>3, <1>5, <2>1, <2>2 DEF RpInv, RpUsedOK
  <1>8. RpMapOK'
    <2>1. IsFiniteSet(rpMap')
      BY <1>5, RpPurgedOK, FS_AddElement
    <2>2. \A a \in rpUsed' : a.at + RpTtl <= rpNow \/ RpEntry(a) \in rpMap'
      BY <1>5, RpPurgedOK
    <2>3. \A e \in rpMap' : \E a \in rpUsed' : e = RpEntry(a)
      BY <1>5, RpPurgedOK
    <2>4. QED
      BY <2>1, <2>2, <2>3 DEF RpMapOK, RpTtl, RpEntry
  <1>9. RpClockOK'
    <2>1. rpNow - new.at <= rpWall - 2 * new.sec
      BY <1>1, <1>2, <1>3
    <2>2. QED
      BY <1>5, <2>1 DEF RpInv, RpClockOK
  <1>10. RpReplayHasCause'
    <2> SUFFICES ASSUME NEW a \in rpUsed', NEW b \in rpUsed', a.stamp = b.stamp, a.at < b.at, ~rpBack
                 PROVE  a.stamp - a.sec = RpSkew /\ b.sec - b.stamp = RpSkew
      BY DEF RpReplayHasCause
    <2>1. CASE a \in rpUsed /\ b \in rpUsed
      BY <2>1 DEF RpInv, RpSound, RpReplayHasCause
    <2>2. CASE a = new
      <3>1. b.at \in Nat /\ b.at <= rpNow
        BY <1>1, <1>3, <1>5, <1>6
      <3>2. QED
        BY <1>1, <1>3, <2>2, <3>1
    <2>3. CASE a \in rpUsed /\ b = new
      <3>1. RpEntry(a).stamp = ts
        BY <1>3, <2>3 DEF RpEntry
      <3>2. a.at + RpTtl <= rpNow
        BY <2>3, <3>1, RpPurgedOK
      <3>3. rpNow - a.at <= rpWall - 2 * a.sec
        BY <2>3 DEF RpInv, RpClockOK
      <3>4. a.at \in Nat /\ a.sec \in Int /\ a.stamp = ts /\ a.stamp - a.sec <= RpSkew
        BY <1>3, <1>6, <2>3
      <3>5. 4 * RpSkew <= rpWall - 2 * a.sec
        BY <1>1, <3>2, <3>3, <3>4
      <3>6. a.sec + 2 * RpSkew <= sec
        BY <1>1, <1>2, <3>4, <3>5
      <3>7. QED
        BY <1>1, <1>2, <1>3, <2>3, <3>4, <3>6
    <2>4. QED
      BY <1>5, <2>1, <2>2, <2>3
  <1>11. RpRefusalHasCause'
    BY DEF RpRefusalHasCause
  <1>12. RpTypeOK'
    <2>1. Cardinality(rpMap') <= RpMaxEntries
      <3>1. Cardinality(RpPurged) < RpMaxEntries
        BY <1>1, RpPurgedOK DEF RpFull
      <3>2. Cardinality(rpMap') <= Cardinality(RpPurged) + 1
        <4>1. IsFiniteSet(RpPurged) /\ Cardinality(RpPurged) \in Nat
          BY RpPurgedOK
        <4>2. Cardinality(RpPurged \cup {RpEntry(new)}) =
                  IF RpEntry(new) \in RpPurged THEN Cardinality(RpPurged)
                  ELSE Cardinality(RpPurged) + 1
          BY <4>1, FS_AddElement
        <4>3. Cardinality(RpPurged \cup {RpEntry(new)}) <= Cardinality(RpPurged) + 1
          BY <4>1, <4>2
        <4>4. QED
          BY <1>5, <4>3, Zenon
      <3>3. Cardinality(rpMap') \in Nat
        BY <1>8, FS_CardinalityType DEF RpMapOK
      <3>4. QED
        BY <1>1, <3>1, <3>2, <3>3, RpPurgedOK
    <2>2. \A e \in RpPurged : e.stamp \in RpStamps /\ e.exp \in 0..(RpLast + RpTtl)
      BY RpPurgedOK DEF RpInv, RpSound, RpTypeOK
    <2>3. rpNow + RpTtl \in 0..(RpLast + RpTtl)
      BY <1>1
    <2>4. \A e \in rpMap' : e.stamp \in RpStamps /\ e.exp \in 0..(RpLast + RpTtl)
      BY <1>4, <1>5, <2>2, <2>3
    <2>5. rpNow' \in 0..RpLast /\ rpWall' \in Int /\ rpBack' \in BOOLEAN
      BY DEF RpInv, RpSound, RpTypeOK
    <2>6. QED
      BY <2>1, <2>4, <2>5 DEF RpTypeOK, RpTtl
  <1>13. QED
    BY <1>7, <1>8, <1>9, <1>10, <1>11, <1>12 DEF RpInv, RpSound

\* A digest is refused: at most the expired entries go.
LEMMA RpRefuse ==
    ASSUME RpInv, rpMap' = rpMap \/ rpMap' = RpPurged,
           UNCHANGED <<rpNow, rpWall, rpBack, rpUsed>>,
           \/ rpAnswer'.answer \in {"skew", "invalid", "ok", "none"}
           \/ rpAnswer'.answer = "replay" /\ \E e \in RpPurged : e.stamp = rpAnswer'.stamp
           \/ rpAnswer'.answer = "full" /\ RpFull
    PROVE  RpInv'
  <1>1. rpMap' \subseteq rpMap /\ IsFiniteSet(rpMap')
    BY RpPurgedOK DEF RpInv, RpMapOK
  <1>2. RpUsedOK' /\ RpClockOK' /\ RpReplayHasCause'
    BY DEF RpInv, RpSound, RpUsedOK, RpClockOK, RpReplayHasCause
  <1>3. RpMapOK'
    <2>1. \A a \in rpUsed : a.at + RpTtl <= rpNow \/ RpEntry(a) \in rpMap'
      BY RpPurgedOK DEF RpInv, RpMapOK
    <2>2. \A e \in rpMap' : \E a \in rpUsed : e = RpEntry(a)
      BY <1>1 DEF RpInv, RpMapOK
    <2>3. QED
      BY <1>1, <2>1, <2>2 DEF RpMapOK, RpEntry, RpTtl
  <1>4. RpTypeOK'
    <2>1. Cardinality(rpMap') <= RpMaxEntries
      BY RpPurgedOK DEF RpInv, RpSound, RpTypeOK
    <2>2. rpAnswer'.answer \in {"none", "ok", "skew", "replay", "full", "invalid"}
      OBVIOUS
    <2>3. QED
      BY <1>1, <2>1, <2>2 DEF RpInv, RpSound, RpTypeOK, RpTtl
  <1>5. RpRefusalHasCause'
    <2> DEFINE recent == {a \in rpUsed : rpNow - a.at < RpTtl}
    <2>1. rpAnswer'.answer = "replay" => \E a \in recent : a.stamp = rpAnswer'.stamp
      <3>1. \A e \in RpPurged : \E a \in recent : e = RpEntry(a)
        BY RpPurgedOK
      <3>2. \A a \in rpUsed : RpEntry(a).stamp = a.stamp
        BY DEF RpEntry
      <3>3. QED
        BY <3>1, <3>2
    <2>2. rpAnswer'.answer = "full" => Cardinality(recent) >= RpMaxEntries
      <3>1. rpAnswer'.answer = "full" => Cardinality(RpPurged) >= RpMaxEntries
        BY DEF RpFull
      <3>2. Cardinality(RpPurged) <= Cardinality(recent)
        BY RpCounts
      <3>3. Cardinality(recent) \in Nat
        BY FS_Subset, FS_CardinalityType DEF RpInv, RpUsedOK
      <3> HIDE DEF recent
      <3>4. QED
        BY <3>1, <3>2, <3>3, RpPurgedOK, RpAssumption
    <2>3. QED
      BY <2>1, <2>2 DEF RpRefusalHasCause, RpTtl
  <1>6. QED
    BY <1>2, <1>3, <1>4, <1>5 DEF RpInv, RpSound

\* Time passes, or the wall clock is set.
LEMMA RpClockMoves ==
    ASSUME RpInv, RpTick \/ \E d \in {-1, 1} : RpSetClock(d)
    PROVE  RpInv'
  <1>1. UNCHANGED <<rpMap, rpUsed>> /\ rpAnswer' = RpNoLogin
    BY DEF RpTick, RpSetClock
  <1>2. rpNow \in Nat /\ rpWall \in Int /\ RpTtl \in Nat /\ RpLast \in Nat
    BY RpTtlValue, RpAssumption DEF RpInv, RpSound, RpTypeOK
  <1>3. /\ rpNow' \in 0..RpLast /\ rpWall' \in Int /\ rpBack' \in BOOLEAN /\ rpNow <= rpNow'
        /\ rpNow' \in Nat
        /\ ~rpBack' => ~rpBack /\ rpNow' - rpNow <= rpWall' - rpWall
    <2>1. CASE RpTick
      <3>1. /\ rpNow < RpLast /\ rpNow' = rpNow + 1 /\ rpWall' = rpWall + 1 /\ rpBack' = rpBack
            /\ rpBack \in BOOLEAN
        BY <2>1 DEF RpTick, RpInv, RpSound, RpTypeOK
      <3>2. rpNow' \in 0..RpLast /\ rpWall' \in Int /\ rpNow <= rpNow' /\ rpNow' \in Nat
            /\ rpNow' - rpNow <= rpWall' - rpWall
        BY <1>2, <3>1
      <3>3. QED
        BY <3>1, <3>2
    <2>2. ASSUME NEW d \in {-1, 1}, RpSetClock(d)
          PROVE  /\ rpNow' \in 0..RpLast /\ rpWall' \in Int /\ rpBack' \in BOOLEAN /\ rpNow <= rpNow'
                 /\ rpNow' \in Nat
                 /\ ~rpBack' => ~rpBack /\ rpNow' - rpNow <= rpWall' - rpWall
      <3>1. /\ rpNow' = rpNow /\ rpNow \in 0..RpLast /\ ~rpBack /\ rpWall' = rpWall + 2 * d
            /\ rpBack' = (d < 0)
        BY <2>2 DEF RpSetClock, RpInv, RpSound, RpTypeOK
      <3>2. CASE d = 1
        BY <1>2, <3>1, <3>2
      <3>3. CASE d = -1
        <4>0. d < 0
          BY <3>3
        <4>1. rpBack'
          BY <3>1, <4>0, Zenon
        <4>2. rpWall' \in Int
          BY <1>2, <3>1, <3>3
        <4>3. QED
          BY <1>2, <3>1, <4>1, <4>2
      <3>4. QED
        BY <3>2, <3>3
    <2>3. QED
      BY <2>1, <2>2
  <1>4. \A a \in rpUsed : a.at \in Nat /\ a.at <= rpNow /\ a.sec \in Int
    BY <1>2 DEF RpInv, RpUsedOK
  <1>5. RpUsedOK'
    <2>1. \A a \in rpUsed : a.at \in 0..rpNow'
      BY <1>2, <1>3, <1>4
    <2>2. QED
      BY <1>1, <2>1 DEF RpInv, RpUsedOK
  <1>6. RpMapOK'
    <2>1. \A a \in rpUsed : a.at + RpTtl <= rpNow' \/ RpEntry(a) \in rpMap
      BY <1>2, <1>3, <1>4 DEF RpInv, RpMapOK
    <2>2. QED
      BY <1>1, <2>1 DEF RpInv, RpMapOK, RpEntry, RpTtl
  <1>7. RpClockOK'
    <2> SUFFICES ASSUME ~rpBack', NEW a \in rpUsed
                 PROVE  rpNow' - a.at <= rpWall' - 2 * a.sec
      BY <1>1 DEF RpClockOK
    <2>1. rpNow - a.at <= rpWall - 2 * a.sec
      BY <1>3 DEF RpInv, RpClockOK
    <2>2. rpNow' - rpNow <= rpWall' - rpWall
      BY <1>3
    <2>3. a.at \in Int /\ a.sec \in Int /\ rpNow \in Int /\ rpWall \in Int /\ rpNow' \in Int
          /\ rpWall' \in Int
      BY <1>2, <1>3, <1>4
    <2>4. \A n, m, w, x, t, u \in Int : n - t <= w - 2 * u /\ m - n <= x - w => m - t <= x - 2 * u
      OBVIOUS
    <2>5. QED
      BY <2>1, <2>2, <2>3, <2>4, Zenon
  <1>8. RpReplayHasCause'
    BY <1>1, <1>3 DEF RpInv, RpSound, RpReplayHasCause
  <1>9. RpTypeOK' /\ RpRefusalHasCause'
    BY <1>1, <1>3 DEF RpInv, RpSound, RpTypeOK, RpRefusalHasCause, RpNoLogin, RpTtl
  <1>10. QED
    BY <1>5, <1>6, <1>7, <1>8, <1>9 DEF RpInv, RpSound

\* Every step preserves RpInv.
LEMMA RpStep == RpInv /\ [RpNext]_rpVars => RpInv'
  <1> SUFFICES ASSUME RpInv, [RpNext]_rpVars PROVE RpInv'
    OBVIOUS
  <1>1. ASSUME NEW ts \in RpStamps, RpVerify(ts) PROVE RpInv'
    <2> DEFINE known == \E e \in RpPurged : e.stamp = ts
               answer == IF ~RpWithinSkew(ts) THEN "skew"
                         ELSE IF known THEN "replay" ELSE IF RpFull THEN "full" ELSE "ok"
    <2>1. /\ rpAnswer' = [stamp |-> ts, answer |-> answer]
          /\ rpMap' = CASE answer = "skew" -> rpMap
                        [] answer = "ok" -> RpPurged \cup {[stamp |-> ts, exp |-> rpNow + RpTtl]}
                        [] OTHER -> RpPurged
          /\ rpUsed' = IF answer # "ok" THEN rpUsed
                       ELSE rpUsed \cup {[stamp |-> ts, at |-> rpNow, sec |-> RpSecs(rpWall)]}
          /\ UNCHANGED <<rpNow, rpWall, rpBack>>
      BY <1>1 DEF RpVerify
    <2>2. CASE RpWithinSkew(ts) /\ ~known /\ ~RpFull
      <3>1. answer = "ok"
        BY <2>2
      <3>2. QED
        BY <2>1, <2>2, <3>1, RpAccept
    <2>3. CASE ~RpWithinSkew(ts)
      <3>1. answer = "skew"
        BY <2>3
      <3>2. QED
        BY <2>1, <3>1, RpRefuse
    <2>4. CASE RpWithinSkew(ts) /\ known
      <3>1. answer = "replay"
        BY <2>4
      <3>2. QED
        BY <2>1, <2>4, <3>1, RpRefuse
    <2>5. CASE RpWithinSkew(ts) /\ ~known /\ RpFull
      <3>1. answer = "full"
        BY <2>5
      <3>2. QED
        BY <2>1, <2>5, <3>1, RpRefuse
    <2>6. QED
      BY <2>2, <2>3, <2>4, <2>5
  <1>2. ASSUME NEW ts \in RpStamps, RpVerifyFails(ts) PROVE RpInv'
    BY <1>2, RpRefuse DEF RpVerifyFails
  <1>3. CASE UNCHANGED rpVars
    BY <1>3 DEF rpVars, RpInv, RpSound, RpTypeOK, RpReplayHasCause, RpRefusalHasCause, RpUsedOK,
       RpMapOK, RpClockOK, RpEntry, RpTtl
  <1>4. QED
    BY <1>1, <1>2, <1>3, RpClockMoves DEF RpNext

\* The replay cache refuses what it must and nothing it need not: a digest is accepted
\* twice only at the very edge of the skew or after the wall clock was set back, and a
\* refusal has its cause within the time an entry lives.
THEOREM RpSpecSound == RpSpec => []RpSound
  <1>1. RpInit => RpInv
    <2> SUFFICES ASSUME RpInit PROVE RpInv
      OBVIOUS
    <2>1. /\ rpNow = 0 /\ rpWall = RpFirst /\ rpMap = {} /\ rpUsed = {} /\ rpBack = FALSE
          /\ rpAnswer.answer = "none"
      BY DEF RpInit, RpNoLogin
    <2>2. IsFiniteSet(rpMap) /\ IsFiniteSet(rpUsed) /\ Cardinality(rpMap) = 0
      BY <2>1, FS_EmptySet
    <2>3. 0 \in 0..RpLast /\ 0 <= RpMaxEntries /\ RpFirst \in Int
      BY RpAssumption
    <2>4. RpTypeOK
      BY <2>1, <2>2, <2>3 DEF RpTypeOK
    <2>5. QED
      BY <2>1, <2>2, <2>4 DEF RpInv, RpSound, RpReplayHasCause, RpRefusalHasCause, RpUsedOK,
         RpMapOK, RpClockOK
  <1>2. RpInv => RpSound
    BY DEF RpInv
  <1>3. QED
    BY <1>1, <1>2, RpStep, PTL DEF RpSpec

-----------------------------------------------------------------------------
(* The traffic metrics, for any window, any clock and any number of        *)
(* connections and types.                                                  *)

\* Counter ctr has, for every age, the traffic of ledger in the unit of that age before the
\* counter's newest, and there was no traffic after that one.
TcTells(ctr, ledger) ==
    /\ \A a \in TcAges : ctr.counts[a] = IF a <= ctr.last THEN ledger[ctr.last - a] ELSE 0
    /\ \A u \in TcUnits : u > ctr.last => ledger[u] = 0

TcHistoryInv ==
    ~tcBack => /\ tcTotal.last <= tcNow /\ TcTells(tcTotal, tcLedger.server)
               /\ tcTun.type # TcNone => tcTun.ctr.last <= tcNow /\ TcTells(tcTun.ctr, tcLedger.tunnel)

TcCountInv ==
    /\ tcBack \in BOOLEAN
    /\ \A t \in TcTypes : tcOfType[t] = IF t = tcRuns THEN 1 ELSE 0
    /\ tcRuns # TcNone => tcTun.type = tcRuns

TcInv == TcTypeOK /\ TcHistoryInv /\ TcActiveTrue /\ TcCountInv

\* The ages and units are numbers.
LEMMA TcNumbers ==
    /\ TcWindow \in Nat /\ TcWindow > 0 /\ TcLastUnit \in Nat
    /\ \A a : a \in TcAges <=> a \in Nat /\ a < TcWindow
    /\ \A u : u \in TcUnits <=> u \in Nat /\ u <= TcLastUnit
    /\ 0 \in TcAges /\ 0 \in TcUnits
  BY TcAssumptions DEF TcAges, TcUnits

\* rotate gives a counter whose newest unit is now.
LEMMA TcRotatedType ==
    ASSUME NEW ctr \in TcCounters, tcNow \in TcUnits
    PROVE  /\ TcRotated(ctr) \in TcCounters
           /\ ctr.last <= tcNow => TcRotated(ctr).last = tcNow
           /\ ctr.last <= tcNow => \A a \in TcAges :
                 TcRotated(ctr).counts[a] = IF a < tcNow - ctr.last THEN 0 ELSE ctr.counts[a - (tcNow - ctr.last)]
  <1>1. ctr.last \in Nat /\ ctr.last \in TcUnits /\ ctr.counts \in [TcAges -> Nat] /\ tcNow \in Nat
    BY TcNumbers DEF TcCounters
  <1> DEFINE shift == tcNow - ctr.last
  <1>2. CASE tcNow <= ctr.last
    <2>1. TcRotated(ctr) = ctr
      BY <1>2 DEF TcRotated
    <2>2. ctr.last <= tcNow => tcNow = ctr.last
      BY <1>1, <1>2
    <2>3. \A a \in TcAges : a \in Nat /\ a - 0 = a /\ ~(a < 0)
      BY TcNumbers
    <2>4. QED
      BY <1>1, <2>1, <2>2, <2>3
  <1>3. CASE ~(tcNow <= ctr.last)
    <2>1. shift \in Nat /\ shift > 0
      BY <1>1, <1>3
    <2> DEFINE counts == IF shift >= TcWindow THEN [a \in TcAges |-> 0]
                         ELSE [a \in TcAges |-> IF a < shift THEN 0 ELSE ctr.counts[a - shift]]
    <2>2. TcRotated(ctr) = [last |-> tcNow, counts |-> counts]
      BY <1>3 DEF TcRotated
    <2> HIDE DEF shift
    <2>3. \A a \in TcAges : a < shift \/ (a - shift \in TcAges /\ ctr.counts[a - shift] \in Nat)
      BY <1>1, <2>1, TcNumbers
    <2>4. counts \in [TcAges -> Nat]
      BY <2>3
    <2>5. \A a \in TcAges : counts[a] = IF a < shift THEN 0 ELSE ctr.counts[a - shift]
      BY <2>1, TcNumbers
    <2> HIDE DEF counts
    <2>6. QED
      BY <2>2, <2>4, <2>5 DEF TcCounters, shift
  <1>4. QED
    BY <1>2, <1>3

\* The rotated counter tells the same traffic.
LEMMA TcRotatedTells ==
    ASSUME NEW ctr \in TcCounters, NEW ledger, tcNow \in TcUnits, ctr.last <= tcNow,
           TcTells(ctr, ledger)
    PROVE  TcTells(TcRotated(ctr), ledger)
  <1> DEFINE new == TcRotated(ctr)
             shift == tcNow - ctr.last
  <1>1. ctr.last \in Nat /\ tcNow \in Nat /\ tcNow <= TcLastUnit
    BY TcNumbers DEF TcCounters
  <1>2. new.last = tcNow /\ \A a \in TcAges : new.counts[a] = IF a < shift THEN 0 ELSE ctr.counts[a - shift]
    BY TcRotatedType
  <1> HIDE DEF new
  <1>3. ASSUME NEW a \in TcAges
        PROVE  new.counts[a] = IF a <= tcNow THEN ledger[tcNow - a] ELSE 0
    <2>1. a \in Nat /\ a < TcWindow
      BY TcNumbers
    <2>2. CASE a < shift
      <3>1. a <= tcNow /\ tcNow - a \in TcUnits /\ tcNow - a > ctr.last
        BY <1>1, <2>1, <2>2, TcNumbers
      <3>2. ledger[tcNow - a] = 0
        BY <3>1 DEF TcTells
      <3>3. QED
        BY <1>2, <2>2, <3>1, <3>2
    <2>3. CASE ~(a < shift)
      <3>1. a - shift \in TcAges /\ shift \in Nat
        BY <1>1, <2>1, <2>3, TcNumbers
      <3>2. new.counts[a] = ctr.counts[a - shift]
        BY <1>2, <2>3
      <3>3. ctr.counts[a - shift] = IF a - shift <= ctr.last THEN ledger[ctr.last - (a - shift)] ELSE 0
        BY <3>1 DEF TcTells
      <3>4. (a - shift <= ctr.last <=> a <= tcNow) /\ ctr.last - (a - shift) = tcNow - a
        BY <1>1, <2>1
      <3> HIDE DEF shift
      <3>5. QED
        BY <3>2, <3>3, <3>4
    <2>4. QED
      BY <2>2, <2>3
  <1>4. \A u \in TcUnits : u > tcNow => ledger[u] = 0
    <2>1. \A u \in TcUnits : u > tcNow => u > ctr.last
      BY <1>1, TcNumbers
    <2>2. QED
      BY <2>1 DEF TcTells
  <1>5. QED
    BY <1>2, <1>3, <1>4 DEF TcTells, new

\* So does a counter to which the traffic of now is added, of the ledger with it.
LEMMA TcAddTells ==
    ASSUME NEW ctr \in TcCounters, NEW ledger \in [TcUnits -> Nat], NEW n \in Nat,
           tcNow \in TcUnits
    PROVE  /\ TcAdd(ctr, n) \in TcCounters
           /\ ctr.last <= tcNow => TcAdd(ctr, n).last <= tcNow
           /\ ctr.last <= tcNow /\ TcTells(ctr, ledger) =>
                 TcTells(TcAdd(ctr, n), [ledger EXCEPT ![tcNow] = @ + n])
  <1> DEFINE rot == TcRotated(ctr)
             new == TcAdd(ctr, n)
             book == [ledger EXCEPT ![tcNow] = @ + n]
  <1>1. rot \in TcCounters /\ (ctr.last <= tcNow => rot.last = tcNow)
    BY TcRotatedType
  <1>2. rot.counts \in [TcAges -> Nat] /\ rot.last \in TcUnits
    BY <1>1 DEF TcCounters
  <1>3. new = [rot EXCEPT !.counts[0] = @ + n]
    BY DEF TcAdd
  <1>4. ctr.last <= tcNow /\ TcTells(ctr, ledger) => TcTells(rot, ledger)
    BY TcRotatedTells
  <1> HIDE DEF rot, new
  <1>5. new.last = rot.last /\ new.counts = [rot.counts EXCEPT ![0] = @ + n]
    BY <1>1, <1>3 DEF TcCounters
  <1>6. new.counts \in [TcAges -> Nat]
    BY <1>2, <1>5, TcNumbers
  <1>7. new \in TcCounters
    <2>1. new = [last |-> rot.last, counts |-> [rot.counts EXCEPT ![0] = @ + n]]
      BY <1>1, <1>3 DEF TcCounters
    <2>2. QED
      BY <1>2, <1>5, <1>6, <2>1 DEF TcCounters
  <1>8. tcNow \in Nat
    BY TcNumbers
  <1>9. ASSUME ctr.last <= tcNow, TcTells(ctr, ledger)
        PROVE  TcTells(new, book)
    <2>1. rot.last = tcNow /\ new.last = tcNow /\ TcTells(rot, ledger)
      BY <1>1, <1>4, <1>5, <1>9
    <2>2. ASSUME NEW a \in TcAges
          PROVE  new.counts[a] = IF a <= tcNow THEN book[tcNow - a] ELSE 0
      <3>1. a \in Nat /\ rot.counts[a] = IF a <= tcNow THEN ledger[tcNow - a] ELSE 0
        BY <2>1, TcNumbers DEF TcTells
      <3>2. CASE a = 0
        <4>1. new.counts[0] = rot.counts[0] + n
          BY <1>2, <1>5, TcNumbers
        <4>2. rot.counts[0] = ledger[tcNow] /\ tcNow - 0 = tcNow /\ 0 <= tcNow
          BY <1>8, <3>1, <3>2
        <4>3. book[tcNow] = ledger[tcNow] + n
          OBVIOUS
        <4>4. QED
          BY <3>2, <4>1, <4>2, <4>3
      <3>3. CASE a # 0
        <4>1. new.counts[a] = rot.counts[a]
          BY <1>2, <1>5, <3>3
        <4>2. a <= tcNow => tcNow - a \in TcUnits /\ tcNow - a # tcNow
          BY <1>8, <3>1, <3>3, TcNumbers
        <4>3. a <= tcNow => book[tcNow - a] = ledger[tcNow - a]
          BY <4>2
        <4>4. QED
          BY <3>1, <4>1, <4>3
      <3>4. QED
        BY <3>2, <3>3
    <2>3. \A u \in TcUnits : u > tcNow => book[u] = 0
      <3>1. \A u \in TcUnits : u > tcNow => u # tcNow
        BY <1>8, TcNumbers
      <3>2. \A u \in TcUnits : u > tcNow => ledger[u] = 0
        BY <2>1 DEF TcTells
      <3>3. QED
        BY <3>1, <3>2
    <2>4. QED
      BY <2>1, <2>2, <2>3 DEF TcTells
  <1>10. QED
    BY <1>1, <1>5, <1>7, <1>8, <1>9 DEF new

TcOpenConns == {c \in TcConns : tcConn[c] # "none"}

\* Connections that hold a guard are finitely many; another one counts one more, one
\* that goes one less.
LEMMA TcOpenCount ==
    ASSUME tcConn \in [TcConns -> {"none", "open", "counted"}], NEW c \in TcConns
    PROVE  /\ Cardinality(TcOpenConns) \in Nat
           /\ \A s \in {"open", "counted"} :
                 tcConn[c] = "none" /\ tcConn' = [tcConn EXCEPT ![c] = s] =>
                     Cardinality(TcOpenConns') = Cardinality(TcOpenConns) + 1
           /\ tcConn[c] # "none" /\ tcConn' = [tcConn EXCEPT ![c] = "none"] =>
                 /\ Cardinality(TcOpenConns') = Cardinality(TcOpenConns) - 1
                 /\ Cardinality(TcOpenConns') \in Nat
           /\ tcConn[c] # "none" /\ tcConn' = [tcConn EXCEPT ![c] = "counted"] =>
                 TcOpenConns' = TcOpenConns
  <1>1. IsFiniteSet(TcOpenConns)
    BY TcAssumptions, FS_Subset DEF TcOpenConns
  <1>2. Cardinality(TcOpenConns) \in Nat
    BY <1>1, FS_CardinalityType
  <1>3. ASSUME NEW s \in {"open", "counted"}, tcConn[c] = "none", tcConn' = [tcConn EXCEPT ![c] = s]
        PROVE  Cardinality(TcOpenConns') = Cardinality(TcOpenConns) + 1
    <2>1. TcOpenConns' = TcOpenConns \cup {c} /\ c \notin TcOpenConns
      BY <1>3 DEF TcOpenConns
    <2>2. QED
      BY <1>1, <2>1, FS_AddElement
  <1>4. ASSUME tcConn[c] # "none", tcConn' = [tcConn EXCEPT ![c] = "none"]
        PROVE  /\ Cardinality(TcOpenConns') = Cardinality(TcOpenConns) - 1
               /\ Cardinality(TcOpenConns') \in Nat
    <2>1. TcOpenConns' = TcOpenConns \ {c} /\ c \in TcOpenConns
      BY <1>4 DEF TcOpenConns
    <2>2. IsFiniteSet(TcOpenConns \ {c})
          /\ Cardinality(TcOpenConns \ {c}) = Cardinality(TcOpenConns) - 1
      BY <1>1, <2>1, FS_RemoveElement
    <2>3. Cardinality(TcOpenConns \ {c}) \in Nat
      BY <2>2, FS_CardinalityType
    <2>4. QED
      BY <2>1, <2>2, <2>3
  <1>5. ASSUME tcConn[c] # "none", tcConn' = [tcConn EXCEPT ![c] = "counted"]
        PROVE  TcOpenConns' = TcOpenConns
    BY <1>5 DEF TcOpenConns
  <1>6. QED
    BY <1>2, <1>3, <1>4, <1>5

\* The fields of the entry and of the ledger.
LEMMA TcFields ==
    ASSUME TcTypeOK
    PROVE  /\ tcTun.type \in TcTypes \cup {TcNone} /\ tcTun.ctr \in TcCounters /\ tcTun.active \in Int
           /\ \A x \in TcCounters : /\ [tcTun EXCEPT !.ctr = x].ctr = x
                                    /\ [tcTun EXCEPT !.ctr = x].type = tcTun.type
                                    /\ [tcTun EXCEPT !.ctr = x].active = tcTun.active
                                    /\ [tcTun EXCEPT !.ctr = x] \in [type : TcTypes \cup {TcNone}, ctr : TcCounters, active : Int]
           /\ \A d \in Int : /\ [tcTun EXCEPT !.active = @ + d].ctr = tcTun.ctr
                             /\ [tcTun EXCEPT !.active = @ + d].type = tcTun.type
                             /\ [tcTun EXCEPT !.active = @ + d].active = tcTun.active + d
                             /\ [tcTun EXCEPT !.active = @ + d] \in [type : TcTypes \cup {TcNone}, ctr : TcCounters, active : Int]
           /\ tcLedger.server \in [TcUnits -> Nat] /\ tcLedger.tunnel \in [TcUnits -> Nat]
  BY DEF TcTypeOK

\* An empty counter tells an empty ledger.
LEMMA TcNewTells ==
    ASSUME tcNow \in TcUnits
    PROVE  TcNew \in TcCounters /\ TcNew.last <= tcNow /\ TcTells(TcNew, TcNothing)
           /\ TcNothing \in [TcUnits -> Nat]
  <1>1. tcNow \in Nat /\ TcNew.last = tcNow /\ TcNew.counts = [a \in TcAges |-> 0]
    BY TcNumbers DEF TcNew
  <1>2. TcNew \in TcCounters
    BY DEF TcNew, TcCounters
  <1>3. \A a \in TcAges : a <= tcNow => tcNow - a \in TcUnits
    BY <1>1, TcNumbers
  <1>4. TcTells(TcNew, TcNothing)
    <2>1. \A a \in TcAges : TcNew.counts[a] = 0
      BY <1>1
    <2>2. \A u \in TcUnits : TcNothing[u] = 0
      BY DEF TcNothing
    <2> HIDE DEF TcNothing
    <2>3. QED
      BY <1>1, <1>3, <2>1, <2>2 DEF TcTells
  <1>5. QED
    BY <1>1, <1>2, <1>4 DEF TcNothing

\* TcTells depends on the units alone.
LEMMA TcClockStep == TcInv /\ TcClock => TcInv'
  <1> SUFFICES ASSUME TcInv, TcClock PROVE TcInv'
    OBVIOUS
  <1>1. PICK now \in TcUnits : tcNow' = now /\ tcBack' = (tcBack \/ now < tcNow)
    BY DEF TcClock
  <1>2. UNCHANGED <<tcTotal, tcTun, tcActive, tcOfType, tcRuns, tcSwapped, tcConn, tcLedger>>
    BY DEF TcClock, tcTunnels
  <1>3. TcTypeOK' /\ TcActiveTrue'
    BY <1>1, <1>2 DEF TcInv, TcTypeOK, TcActiveTrue
  <1>4. tcBack' \in BOOLEAN
    BY <1>1, Zenon
  <1>5. TcCountInv'
    BY <1>2, <1>4 DEF TcInv, TcCountInv
  <1>6. TcHistoryInv'
    <2> SUFFICES ASSUME ~tcBack' PROVE TcHistoryInv'
      BY DEF TcHistoryInv
    <2>1. ~tcBack /\ ~(now < tcNow)
      BY <1>1, Zenon
    <2>2. \A u \in TcUnits : u <= tcNow => u <= now
      BY <1>1, <2>1, TcNumbers DEF TcInv, TcTypeOK
    <2>3. tcTotal.last \in TcUnits /\ tcTun.ctr.last \in TcUnits
      BY TcFields DEF TcInv, TcTypeOK, TcCounters
    <2>4. QED
      BY <1>1, <1>2, <2>1, <2>2, <2>3 DEF TcInv, TcHistoryInv, TcTells
  <1>7. QED
    BY <1>3, <1>5, <1>6 DEF TcInv

\* A tunnel is registered.
LEMMA TcNewTunnelStep ==
    ASSUME TcInv, NEW t \in TcTypes, TcNewTunnel(t)
    PROVE  TcInv'
  <1>1. /\ tcRuns = TcNone /\ tcRuns' = t /\ tcOfType' = [tcOfType EXCEPT ![t] = @ + 1]
        /\ UNCHANGED <<tcNow, tcBack, tcTotal, tcActive, tcConn>> /\ t # TcNone
    BY TcAssumptions DEF TcNewTunnel
  <1>2. tcOfType' \in [TcTypes -> Nat] /\ \A u \in TcTypes : tcOfType'[u] = IF u = t THEN 1 ELSE 0
    <2>1. \A u \in TcTypes : tcOfType[u] = 0 /\ tcOfType'[u] = IF u = t THEN tcOfType[u] + 1 ELSE tcOfType[u]
      BY <1>1, TcAssumptions DEF TcInv, TcCountInv, TcTypeOK
    <2>2. QED
      BY <1>1, <2>1 DEF TcInv, TcTypeOK
  <1>3. CASE tcTun.type = t
    <2>1. UNCHANGED <<tcTun, tcSwapped, tcLedger>>
      BY <1>3 DEF TcNewTunnel
    <2>2. TcTypeOK' /\ TcActiveTrue' /\ TcHistoryInv' /\ TcCountInv'
      BY <1>1, <1>2, <1>3, <2>1 DEF TcInv, TcTypeOK, TcActiveTrue, TcHistoryInv, TcTells, TcCountInv
    <2>3. QED
      BY <2>2 DEF TcInv
  <1>4. CASE tcTun.type # t
    <2>1. /\ tcTun' = [type |-> t, ctr |-> TcNew, active |-> 0]
          /\ tcSwapped' = (tcSwapped \/ \E c \in TcConns : tcConn[c] # "none")
          /\ tcLedger' = [tcLedger EXCEPT !.tunnel = TcNothing]
      BY <1>4 DEF TcNewTunnel
    <2>2. tcNow \in TcUnits
      BY DEF TcInv, TcTypeOK
    <2>3. tcTun'.type = t /\ tcTun'.ctr = TcNew /\ tcTun'.active = 0
      BY <2>1
    <2>4. tcTun' \in [type : TcTypes \cup {TcNone}, ctr : TcCounters, active : Int]
      BY <2>1, <2>2, TcNewTells
    <2>5. /\ tcLedger' \in [{"server", "tunnel"} -> [TcUnits -> Nat]]
          /\ tcLedger'.server = tcLedger.server /\ tcLedger'.tunnel = TcNothing
      BY <2>1, <2>2, TcNewTells DEF TcInv, TcTypeOK
    <2>6. TcTypeOK'
      BY <1>1, <1>2, <2>4, <2>5 DEF TcInv, TcTypeOK
    <2>7. TcHistoryInv'
      BY <1>1, <2>2, <2>3, <2>5, TcNewTells DEF TcInv, TcHistoryInv, TcTells
    <2>8. TcActiveTrue'
      <3>1. tcActive = Cardinality({c \in TcConns : tcConn[c] # "none"})
        BY DEF TcInv, TcActiveTrue
      <3>2. ASSUME ~tcSwapped' PROVE Cardinality({c \in TcConns : tcConn[c] # "none"}) = 0
        <4>1. \A c \in TcConns : tcConn[c] = "none"
          BY <2>1, <3>2, Zenon
        <4>2. {c \in TcConns : tcConn[c] # "none"} = {}
          BY <4>1
        <4>3. QED
          BY <4>2, FS_EmptySet
      <3>3. QED
        BY <1>1, <2>3, <3>1, <3>2 DEF TcActiveTrue
    <2>9. TcCountInv'
      BY <1>1, <1>2, <2>3 DEF TcInv, TcCountInv
    <2>10. QED
      BY <2>6, <2>7, <2>8, <2>9 DEF TcInv
  <1>5. QED
    BY <1>3, <1>4

\* A tunnel is closed.
LEMMA TcCloseTunnelStep == TcInv /\ TcCloseTunnel => TcInv'
  <1> SUFFICES ASSUME TcInv, TcCloseTunnel PROVE TcInv'
    OBVIOUS
  <1>1. /\ tcRuns # TcNone /\ tcRuns' = TcNone /\ tcOfType' = [tcOfType EXCEPT ![tcRuns] = @ - 1]
        /\ UNCHANGED <<tcNow, tcBack, tcTotal, tcTun, tcActive, tcConn, tcSwapped, tcLedger>>
    BY DEF TcCloseTunnel
  <1>2. tcRuns \in TcTypes
    BY <1>1 DEF TcInv, TcTypeOK
  <1>3. \A u \in TcTypes : tcOfType'[u] = 0
    <2>1. \A u \in TcTypes : tcOfType'[u] = IF u = tcRuns THEN tcOfType[u] - 1 ELSE tcOfType[u]
      BY <1>1, <1>2 DEF TcInv, TcTypeOK
    <2>2. QED
      BY <2>1 DEF TcInv, TcCountInv
  <1>4. tcOfType' \in [TcTypes -> Nat]
    BY <1>1, <1>3 DEF TcInv, TcTypeOK
  <1>5. \A u \in TcTypes : u # TcNone
    BY TcAssumptions
  <1>6. QED
    BY <1>1, <1>3, <1>4, <1>5 DEF TcInv, TcTypeOK, TcActiveTrue, TcHistoryInv, TcTells, TcCountInv

\* A guard is taken or dropped.
LEMMA TcGuardStep ==
    ASSUME TcInv, NEW c \in TcConns, TcOpen(c) \/ TcDrop(c)
    PROVE  TcInv'
  <1>1. PICK d \in {-1, 1} :
            /\ TcActiveBy(d)
            /\ d = 1 => tcConn[c] = "none" /\ tcConn' = [tcConn EXCEPT ![c] = "open"]
            /\ d = -1 => tcConn[c] # "none" /\ tcConn' = [tcConn EXCEPT ![c] = "none"]
    <2>1. CASE TcOpen(c)
      BY <2>1 DEF TcOpen
    <2>2. CASE TcDrop(c)
      BY <2>2 DEF TcDrop
    <2>3. QED
      BY <2>1, <2>2
  <1>2. d \in Int /\ (d = 1 \/ d = -1)
    OBVIOUS
  <1>3. /\ tcActive' = tcActive + d
        /\ tcTun' = IF tcTun.type = TcNone THEN tcTun ELSE [tcTun EXCEPT !.active = @ + d]
        /\ UNCHANGED <<tcNow, tcBack, tcTotal, tcOfType, tcRuns, tcSwapped, tcLedger>>
    BY <1>1 DEF TcActiveBy, tcTunnels
  <1>4. tcConn' \in [TcConns -> {"none", "open", "counted"}]
    BY <1>1, <1>2 DEF TcInv, TcTypeOK
  <1>5. /\ Cardinality(TcOpenConns) \in Nat /\ Cardinality(TcOpenConns') \in Nat
        /\ Cardinality(TcOpenConns') = Cardinality(TcOpenConns) + d
    <2>1. CASE d = 1
      BY <1>1, <2>1, TcOpenCount DEF TcInv, TcTypeOK
    <2>2. CASE d = -1
      BY <1>1, <2>2, TcOpenCount DEF TcInv, TcTypeOK
    <2>3. QED
      BY <1>2, <2>1, <2>2
  <1>6. /\ tcTun'.type = tcTun.type /\ tcTun'.ctr = tcTun.ctr
        /\ tcTun.type # TcNone => tcTun'.active = tcTun.active + d
        /\ tcTun' \in [type : TcTypes \cup {TcNone}, ctr : TcCounters, active : Int]
    <2>1. CASE tcTun.type = TcNone
      BY <1>3, <2>1 DEF TcInv, TcTypeOK
    <2>2. CASE tcTun.type # TcNone
      <3>1. tcTun' = [tcTun EXCEPT !.active = @ + d]
        BY <1>3, <2>2
      <3>2. QED
        BY <1>2, <3>1, TcFields DEF TcInv
    <2>3. QED
      BY <2>1, <2>2
  <1>7. TcActiveTrue'
    <2>1. /\ tcActive = Cardinality(TcOpenConns)
          /\ tcTun.type # TcNone /\ ~tcSwapped => tcTun.active = Cardinality(TcOpenConns)
      BY DEF TcInv, TcActiveTrue, TcOpenConns
    <2>2. /\ tcActive' = Cardinality(TcOpenConns')
          /\ tcTun'.type # TcNone /\ ~tcSwapped' => tcTun'.active = Cardinality(TcOpenConns')
      BY <1>3, <1>5, <1>6, <2>1
    <2>3. QED
      BY <2>2 DEF TcActiveTrue, TcOpenConns
  <1>8. tcActive' \in Nat
    BY <1>5, <1>7 DEF TcActiveTrue, TcOpenConns
  <1>9. TcTypeOK' /\ TcCountInv'
    BY <1>3, <1>4, <1>6, <1>8 DEF TcInv, TcTypeOK, TcCountInv
  <1>10. TcHistoryInv'
    BY <1>3, <1>6 DEF TcInv, TcHistoryInv, TcTells
  <1>11. QED
    BY <1>7, <1>9, <1>10 DEF TcInv

\* Traffic is added.
LEMMA TcCountStep ==
    ASSUME TcInv, NEW c \in TcConns, NEW n \in 0..1, TcCount(c, n)
    PROVE  TcInv'
  <1>1. /\ tcConn[c] = "open" /\ tcConn' = [tcConn EXCEPT ![c] = "counted"] /\ TcAddTraffic(n)
        /\ UNCHANGED <<tcNow, tcBack, tcActive, tcOfType, tcRuns, tcSwapped>>
    BY DEF TcCount, tcTunnels
  <1>2. TcOpenConns' = TcOpenConns /\ tcConn' \in [TcConns -> {"none", "open", "counted"}]
    BY <1>1, TcOpenCount DEF TcInv, TcTypeOK
  <1>3. CASE n = 0
    <2>1. UNCHANGED <<tcTotal, tcTun, tcLedger>>
      BY <1>1, <1>3 DEF TcAddTraffic
    <2>2. TcActiveTrue'
      BY <1>1, <1>2, <2>1 DEF TcInv, TcActiveTrue, TcOpenConns
    <2>3. QED
      BY <1>1, <1>2, <2>1, <2>2 DEF TcInv, TcTypeOK, TcHistoryInv, TcTells, TcCountInv
  <1>4. CASE n # 0
    <2>1. /\ tcTotal' = TcAdd(tcTotal, n)
          /\ tcTun' = IF tcTun.type = TcNone THEN tcTun ELSE [tcTun EXCEPT !.ctr = TcAdd(@, n)]
          /\ tcLedger' = [tcLedger EXCEPT !.server[tcNow] = @ + n, !.tunnel[tcNow] = @ + n]
      BY <1>1, <1>4 DEF TcAddTraffic
    <2>2. tcNow \in TcUnits /\ n \in Nat /\ tcTotal \in TcCounters
      BY DEF TcInv, TcTypeOK
    <2> DEFINE server == [tcLedger.server EXCEPT ![tcNow] = @ + n]
               tunnel == [tcLedger.tunnel EXCEPT ![tcNow] = @ + n]
    <2>3. tcLedger'.server = server /\ tcLedger'.tunnel = tunnel
      BY <2>1 DEF TcInv, TcTypeOK
    <2>4. server \in [TcUnits -> Nat] /\ tunnel \in [TcUnits -> Nat]
      BY <2>2, TcFields DEF TcInv
    <2>5. tcLedger' \in [{"server", "tunnel"} -> [TcUnits -> Nat]]
      BY <2>1, <2>3, <2>4 DEF TcInv, TcTypeOK
    <2>6. /\ tcTun'.type = tcTun.type /\ tcTun'.active = tcTun.active
          /\ tcTun.type # TcNone => tcTun'.ctr = TcAdd(tcTun.ctr, n)
          /\ tcTun' \in [type : TcTypes \cup {TcNone}, ctr : TcCounters, active : Int]
      <3>1. CASE tcTun.type = TcNone
        BY <2>1, <3>1 DEF TcInv, TcTypeOK
      <3>2. CASE tcTun.type # TcNone
        <4>1. tcTun.ctr \in TcCounters /\ tcLedger.tunnel \in [TcUnits -> Nat]
          BY TcFields DEF TcInv
        <4>2. TcAdd(tcTun.ctr, n) \in TcCounters
          BY <2>2, <4>1, TcAddTells
        <4>3. tcTun' = [tcTun EXCEPT !.ctr = TcAdd(tcTun.ctr, n)]
          BY <2>1, <3>2
        <4>4. QED
          BY <3>2, <4>2, <4>3, TcFields DEF TcInv
      <3>3. QED
        BY <3>1, <3>2
    <2>7. TcAdd(tcTotal, n) \in TcCounters
      BY <2>2, TcFields, TcAddTells DEF TcInv
    <2>8. TcTypeOK'
      BY <1>1, <1>2, <2>1, <2>5, <2>6, <2>7 DEF TcInv, TcTypeOK
    <2>9. TcHistoryInv'
      <3> SUFFICES ASSUME ~tcBack
                   PROVE  /\ tcTotal'.last <= tcNow /\ TcTells(tcTotal', server)
                          /\ tcTun'.type # TcNone => tcTun'.ctr.last <= tcNow /\ TcTells(tcTun'.ctr, tunnel)
        BY <1>1, <2>3 DEF TcHistoryInv, TcTells
      <3>1. tcTotal'.last <= tcNow /\ TcTells(tcTotal', server)
        BY <2>1, <2>2, TcFields, TcAddTells DEF TcInv, TcHistoryInv
      <3>2. ASSUME tcTun.type # TcNone
            PROVE  tcTun'.ctr.last <= tcNow /\ TcTells(tcTun'.ctr, tunnel)
        <4>1. tcTun'.ctr = TcAdd(tcTun.ctr, n)
          BY <2>6, <3>2
        <4>2. tcTun.ctr.last <= tcNow /\ TcTells(tcTun.ctr, tcLedger.tunnel)
          BY <3>2 DEF TcInv, TcHistoryInv
        <4>3. tcTun.ctr \in TcCounters /\ tcLedger.tunnel \in [TcUnits -> Nat]
          BY TcFields DEF TcInv
        <4>4. QED
          BY <2>2, <4>1, <4>2, <4>3, TcAddTells
      <3>3. QED
        BY <2>6, <3>1, <3>2
    <2>10. TcActiveTrue'
      BY <1>1, <1>2, <2>6 DEF TcInv, TcActiveTrue, TcOpenConns
    <2>11. TcCountInv'
      BY <1>1, <2>6 DEF TcInv, TcCountInv
    <2>12. QED
      BY <2>8, <2>9, <2>10, <2>11 DEF TcInv
  <1>5. QED
    BY <1>3, <1>4

\* The history is asked for.
LEMMA TcAskStep == TcInv /\ TcAsk => TcInv'
  <1> SUFFICES ASSUME TcInv, TcAsk PROVE TcInv'
    OBVIOUS
  <1>1. UNCHANGED <<tcNow, tcBack, tcActive, tcOfType, tcRuns, tcSwapped, tcConn, tcLedger>>
    BY DEF TcAsk, tcTunnels
  <1>2. tcNow \in TcUnits /\ tcTotal \in TcCounters /\ tcNow <= tcNow
    BY TcNumbers DEF TcInv, TcTypeOK
  <1>3. CASE tcTotal' = TcRotated(tcTotal) /\ UNCHANGED tcTun
    <2>1. TcRotated(tcTotal) \in TcCounters
      BY <1>2, TcRotatedType
    <2>2. TcTypeOK' /\ TcActiveTrue' /\ TcCountInv'
      BY <1>1, <1>3, <2>1 DEF TcInv, TcTypeOK, TcActiveTrue, TcCountInv
    <2>3. tcTotal.last <= tcNow /\ TcTells(tcTotal, tcLedger.server) =>
              TcRotated(tcTotal).last <= tcNow /\ TcTells(TcRotated(tcTotal), tcLedger.server)
      BY <1>2, TcRotatedType, TcRotatedTells
    <2>4. TcHistoryInv'
      BY <1>1, <1>3, <2>3 DEF TcInv, TcHistoryInv, TcTells
    <2>5. QED
      BY <2>2, <2>4 DEF TcInv
  <1>4. CASE /\ tcTun.type # TcNone /\ tcTun' = [tcTun EXCEPT !.ctr = TcRotated(@)]
             /\ UNCHANGED tcTotal
    <2>1. tcTun.ctr \in TcCounters
      BY TcFields DEF TcInv
    <2>2. TcRotated(tcTun.ctr) \in TcCounters
      BY <1>2, <2>1, TcRotatedType
    <2>3. tcTun' = [tcTun EXCEPT !.ctr = TcRotated(tcTun.ctr)]
      BY <1>4
    <2>4. /\ tcTun'.type = tcTun.type /\ tcTun'.active = tcTun.active
          /\ tcTun'.ctr = TcRotated(tcTun.ctr)
          /\ tcTun' \in [type : TcTypes \cup {TcNone}, ctr : TcCounters, active : Int]
      BY <2>2, <2>3, TcFields DEF TcInv
    <2>5. TcTypeOK' /\ TcActiveTrue' /\ TcCountInv'
      BY <1>1, <1>4, <2>4 DEF TcInv, TcTypeOK, TcActiveTrue, TcCountInv
    <2>6. tcTun.ctr.last <= tcNow /\ TcTells(tcTun.ctr, tcLedger.tunnel) =>
              TcRotated(tcTun.ctr).last <= tcNow /\ TcTells(TcRotated(tcTun.ctr), tcLedger.tunnel)
      BY <1>2, <2>1, TcRotatedType, TcRotatedTells
    <2>7. TcHistoryInv'
      BY <1>1, <1>4, <2>4, <2>6 DEF TcInv, TcHistoryInv, TcTells
    <2>8. QED
      BY <2>5, <2>7 DEF TcInv
  <1>5. QED
    BY <1>3, <1>4 DEF TcAsk

\* TcInv holds at first.
LEMMA TcInitInv == TcInit => TcInv
  <1> SUFFICES ASSUME TcInit PROVE TcInv
    OBVIOUS
  <1> USE DEF TcInit
  <1>1. tcNow \in TcUnits /\ tcNow = 0
    BY TcNumbers
  <1>2. tcTotal \in TcCounters /\ tcTotal.last <= tcNow /\ TcTells(tcTotal, TcNothing)
        /\ TcNothing \in [TcUnits -> Nat]
    BY <1>1, TcNewTells
  <1>3. tcTun.type = TcNone /\ tcTun.active = 0
        /\ tcTun \in [type : TcTypes \cup {TcNone}, ctr : TcCounters, active : Int]
    BY TcNumbers DEF TcNoEntry, TcCounters
  <1>4. tcLedger \in [{"server", "tunnel"} -> [TcUnits -> Nat]] /\ tcLedger.server = TcNothing
    BY <1>2
  <1>5. {c \in TcConns : tcConn[c] # "none"} = {}
    OBVIOUS
  <1>6. TcTypeOK
    BY <1>1, <1>2, <1>3, <1>4 DEF TcTypeOK
  <1>7. TcHistoryInv
    BY <1>2, <1>3, <1>4 DEF TcHistoryInv
  <1>8. TcActiveTrue
    BY <1>3, <1>5, FS_EmptySet DEF TcActiveTrue
  <1>9. TcCountInv
    BY TcAssumptions DEF TcCountInv
  <1>10. QED
    BY <1>6, <1>7, <1>8, <1>9 DEF TcInv

\* The dashboard shows the traffic and the connections there were, for the tunnel they were
\* of: for every window, whatever gaps there are between the touches of a counter.
THEOREM TcSpecSound == TcSpec => []TcSound
  <1>1. TcInv /\ [TcNext]_tcVars => TcInv'
    <2>1. TcInv /\ UNCHANGED tcVars => TcInv'
      BY DEF tcVars, TcInv, TcTypeOK, TcHistoryInv, TcTells, TcActiveTrue, TcCountInv
    <2>2. QED
      BY <2>1, TcClockStep, TcNewTunnelStep, TcCloseTunnelStep, TcGuardStep, TcCountStep, TcAskStep
      DEF TcNext
  <1>2. TcInv => TcSound
    <2> SUFFICES ASSUME TcInv PROVE TcSound
      OBVIOUS
    <2>1. tcNow \in TcUnits /\ tcTotal \in TcCounters /\ tcTun.ctr \in TcCounters
      BY TcFields DEF TcInv, TcTypeOK
    <2>2. TcHistoryTrue
      <3>1. \A ctr \in TcCounters : \A ledger : ctr.last <= tcNow /\ TcTells(ctr, ledger) =>
                \A a \in TcAges : TcRotated(ctr).counts[a] = IF a <= tcNow THEN ledger[tcNow - a] ELSE 0
        <4> SUFFICES ASSUME NEW ctr \in TcCounters, NEW ledger, ctr.last <= tcNow, TcTells(ctr, ledger)
                     PROVE  \A a \in TcAges : TcRotated(ctr).counts[a] =
                                IF a <= tcNow THEN ledger[tcNow - a] ELSE 0
          OBVIOUS
        <4>1. TcTells(TcRotated(ctr), ledger) /\ TcRotated(ctr).last = tcNow
          BY <2>1, TcRotatedType, TcRotatedTells
        <4>2. QED
          BY <4>1 DEF TcTells
      <3>2. QED
        BY <2>1, <3>1 DEF TcInv, TcHistoryInv, TcHistoryTrue
    <2>3. TcEntryIsRunning
      BY DEF TcInv, TcCountInv, TcEntryIsRunning, TcTypeOK
    <2>4. QED
      BY <2>2, <2>3 DEF TcInv, TcSound
  <1>3. QED
    BY <1>1, <1>2, TcInitInv, PTL DEF TcSpec

-----------------------------------------------------------------------------
(* The bandwidth limiter, for any rate, chunk and number of streams.       *)

BlN == Cardinality(BlStreams)

\* The streams in some order.
BlOrder == CHOOSE e : e \in Bijection(1..BlN, BlStreams)

\* The bytes a stream was granted and has not moved.
BlOut(s) ==
    IF s \in BlReaders THEN IF blRead[s].phase \in {"granted", "deliver"} THEN blRead[s].n ELSE 0
    ELSE IF blWrite[s].phase = "write" THEN blWrite[s].chunk - blWrite[s].written ELSE 0

\* p adds them up, stream by stream.
BlAddsUp(p) ==
    /\ p \in [0..BlN -> Int] /\ p[0] = 0
    /\ \A i \in 1..BlN : p[i] = p[i - 1] + BlOut(BlOrder[i])

\* The bucket that pays when bytes move is behind the limiter by what was granted and not
\* moved, and by what it could not save while it was full, at most a chunk of every stream.
BlBalance ==
    blIdeal <= BlBurst /\ \E p : BlAddsUp(p) /\ BlRefilled + p[BlN] <= blIdeal + BlCap * BlN

\* A chunk is part of what the writer's call has pending, and is under way only in a phase
\* that says so.
BlShape ==
    \A w \in BlWriters :
        /\ blWrite[w].phase \in {"wait", "write"} => blWrite[w].chunk <= blWrite[w].pending
        /\ blWrite[w].phase # "write" => blWrite[w].written = 0
        /\ blWrite[w].written <= blWrite[w].chunk

BlInv == BlTypeOK /\ BlExact /\ BlShape /\ BlBalance

\* The chunk of one request.
LEMMA BlCapValue == BlCap \in Nat /\ 0 < BlCap /\ BlCap <= BlBurst /\ BlBurst \in Nat
  BY BlAssumptions DEF BlCap, BlMin

\* A set of numbers that is not empty has a least one.
LEMMA LeastOf ==
    ASSUME NEW T \in SUBSET Nat, T # {}
    PROVE  \E x \in T : \A y \in T : x <= y
  <1>1. PICK x \in T : \A y \in T : ~(<<y, x>> \in OpToRel(<, Nat))
    BY WFMin, NatLessThanWellFounded
  <1>2. \A y \in T : ~(y < x)
    BY <1>1 DEF OpToRel
  <1>3. QED
    BY <1>2

\* BlOrder visits every stream once.
LEMMA BlOrdered ==
    /\ BlN \in Nat
    /\ \A i \in 1..BlN : BlOrder[i] \in BlStreams
    /\ \A s \in BlStreams : \E i \in 1..BlN : BlOrder[i] = s
    /\ \A i, j \in 1..BlN : BlOrder[i] = BlOrder[j] => i = j
  <1>1. BlN \in Nat /\ ExistsBijection(1..BlN, BlStreams)
    BY BlAssumptions, FS_CardinalityType DEF BlN, BlStreams
  <1>2. BlOrder \in Bijection(1..BlN, BlStreams)
    BY <1>1 DEF BlOrder, ExistsBijection
  <1>3. QED
    BY <1>1, <1>2 DEF Bijection, Injection, Surjection, IsInjective

\* What a stream has outstanding is at most one chunk.
LEMMA BlOutBound ==
    ASSUME BlTypeOK, BlShape, NEW s \in BlStreams
    PROVE  BlOut(s) \in Int /\ 0 <= BlOut(s) /\ BlOut(s) <= BlCap
  <1>1. CASE s \in BlReaders
    <2>1. blRead[s].n \in 0..BlCap
      BY <1>1 DEF BlTypeOK, BlReads
    <2>2. QED
      BY <1>1, <2>1, BlCapValue DEF BlOut
  <1>2. CASE s \notin BlReaders
    <2>1. s \in BlWriters
      BY <1>2 DEF BlStreams
    <2>2. blWrite[s].chunk \in 0..BlCap /\ blWrite[s].written \in 0..BlCap /\ blWrite[s].written <= blWrite[s].chunk
      BY <2>1 DEF BlTypeOK, BlWrites, BlShape
    <2>3. QED
      BY <1>2, <2>2, BlCapValue DEF BlOut
  <1>3. QED
    BY <1>1, <1>2

\* So all of them together at most one chunk each.
LEMMA BlSumBound ==
    ASSUME BlTypeOK, BlShape, NEW p, BlAddsUp(p)
    PROVE  p[BlN] \in Int /\ 0 <= p[BlN] /\ p[BlN] <= BlCap * BlN
  <1> DEFINE Good(i) == 0 <= p[i] /\ p[i] <= BlCap * i
             bad == {i \in 0..BlN : ~Good(i)}
  <1>1. BlN \in Nat /\ BlCap \in Nat
    BY BlOrdered, BlCapValue
  <1>2. p \in [0..BlN -> Int] /\ p[0] = 0 /\ \A i \in 1..BlN : p[i] = p[i - 1] + BlOut(BlOrder[i])
    BY DEF BlAddsUp
  <1>3. bad = {}
    <2> SUFFICES ASSUME bad # {} PROVE FALSE
      OBVIOUS
    <2>1. bad \in SUBSET Nat
      BY <1>1
    <2>2. PICK i \in bad : \A j \in bad : i <= j
      <3> HIDE DEF bad
      <3>1. QED
        BY <2>1, LeastOf
    <2>3. i \in 0..BlN /\ ~Good(i)
      OBVIOUS
    <2>4. i # 0
      <3>1. BlCap * 0 = 0
        BY <1>1
      <3>2. QED
        BY <1>2, <2>3, <3>1
    <2>5. i \in 1..BlN /\ i - 1 \in 0..BlN /\ ~(i <= i - 1)
      BY <1>1, <2>3, <2>4
    <2>6. Good(i - 1)
      BY <2>2, <2>5
    <2>7. p[i] = p[i - 1] + BlOut(BlOrder[i]) /\ p[i - 1] \in Int
      BY <1>2, <2>5
    <2>8. BlOut(BlOrder[i]) \in Int /\ 0 <= BlOut(BlOrder[i]) /\ BlOut(BlOrder[i]) <= BlCap
      BY <2>5, BlOrdered, BlOutBound
    <2>9. BlCap * i = BlCap * (i - 1) + BlCap /\ BlCap * (i - 1) \in Int
      BY <1>1, <2>5
    <2>10. Good(i)
      BY <1>1, <2>6, <2>7, <2>8, <2>9
    <2>11. QED
      BY <2>3, <2>10
  <1>4. BlN \in 0..BlN
    BY <1>1
  <1>5. QED
    BY <1>2, <1>3, <1>4

\* One stream's outstanding bytes change by d, and the two buckets make up for it.
LEMMA BlShift ==
    ASSUME BlBalance, NEW s \in BlStreams, NEW d \in Int,
           \A t \in BlStreams \ {s} : BlOut(t)' = BlOut(t),
           BlOut(s)' = BlOut(s) + d, \A t \in BlStreams : BlOut(t) \in Int,
           BlRefilled \in Int, BlRefilled' \in Int, blIdeal \in Int, blIdeal' \in Int,
           blIdeal' <= BlBurst, BlRefilled' + d - blIdeal' <= BlRefilled - blIdeal
    PROVE  BlBalance'
  <1>1. PICK p : BlAddsUp(p) /\ BlRefilled + p[BlN] <= blIdeal + BlCap * BlN
    BY DEF BlBalance
  <1>2. PICK k \in 1..BlN : BlOrder[k] = s
    BY BlOrdered
  <1> DEFINE q == [j \in 0..BlN |-> IF j < k THEN p[j] ELSE p[j] + d]
  <1>3. BlN \in Nat /\ p \in [0..BlN -> Int] /\ p[0] = 0 /\ k \in Nat /\ k > 0 /\ k <= BlN
    BY <1>1, <1>2, BlOrdered DEF BlAddsUp
  <1>4. q \in [0..BlN -> Int] /\ q[0] = 0 /\ q[BlN] = p[BlN] + d
    BY <1>3
  <1>5. ASSUME NEW i \in 1..BlN PROVE q[i] = q[i - 1] + BlOut(BlOrder[i])'
    <2>1. /\ i \in Nat /\ i > 0 /\ i \in 0..BlN /\ i - 1 \in 0..BlN
          /\ p[i] = p[i - 1] + BlOut(BlOrder[i]) /\ p[i] \in Int /\ p[i - 1] \in Int
      BY <1>1, <1>3 DEF BlAddsUp
    <2>2. CASE i = k
      <3>1. q[i] = p[i] + d /\ q[i - 1] = p[i - 1]
        BY <1>3, <2>1, <2>2
      <3>2. BlOut(BlOrder[i])' = BlOut(s) + d
        BY <1>2, <2>2
      <3>3. QED
        BY <1>2, <2>1, <2>2, <3>1, <3>2
    <2>3. CASE i # k
      <3>1. BlOrder[i] \in BlStreams \ {s}
        BY <1>2, <2>3, BlOrdered
      <3>2. BlOut(BlOrder[i])' = BlOut(BlOrder[i])
        BY <3>1
      <3>3. \/ q[i] = p[i] /\ q[i - 1] = p[i - 1]
            \/ q[i] = p[i] + d /\ q[i - 1] = p[i - 1] + d
        <4>1. \/ i < k /\ i - 1 < k
              \/ ~(i < k) /\ ~(i - 1 < k)
          <5>1. \A a, b \in Int : a # b => (a < b /\ a - 1 < b) \/ (~(a < b) /\ ~(a - 1 < b))
            OBVIOUS
          <5>2. i \in Int /\ k \in Int
            BY <1>3, <2>1
          <5>3. QED
            BY <2>3, <5>1, <5>2, Zenon
        <4>2. q[i] = (IF i < k THEN p[i] ELSE p[i] + d) /\ q[i - 1] = (IF i - 1 < k THEN p[i - 1] ELSE p[i - 1] + d)
          BY <2>1
        <4>3. QED
          BY <4>1, <4>2
      <3>4. BlOut(BlOrder[i]) = p[i] - p[i - 1] /\ BlOut(BlOrder[i]) \in Int
        BY <2>1, <3>1
      <3>5. QED
        BY <2>1, <3>2, <3>3, <3>4
    <2>4. QED
      BY <2>2, <2>3
  <1>6. BlAddsUp(q)'
    BY <1>4, <1>5 DEF BlAddsUp
  <1>7. BlRefilled' + q[BlN] <= blIdeal' + BlCap * BlN
    <2>1. BlCap * BlN \in Int /\ p[BlN] \in Int
      BY <1>3, BlCapValue
    <2>2. \A a, b, c, e, x, y \in Int : a + c <= b + e /\ x + d - y <= a - b => x + (c + d) <= y + e
      OBVIOUS
    <2>3. BlRefilled' + (p[BlN] + d) <= blIdeal' + BlCap * BlN
      <3> HIDE DEF q
      <3> USE <1>1, <2>1, <2>2
      <3>1. QED
        BY Zenon
    <2>4. QED
      BY <1>4, <2>3
  <1>8. QED
    BY <1>6, <1>7 DEF BlBalance

\* The tokens after a refill.
LEMMA BlRefilledType ==
    ASSUME BlTypeOK
    PROVE  BlRefilled \in Int /\ 0 <= BlRefilled /\ BlRefilled <= BlBurst
  BY BlAssumptions DEF BlTypeOK, BlRefilled, BlMin

\* Taking tokens costs as many.
LEMMA BlTakeEffect ==
    ASSUME BlTypeOK, NEW s \in BlStreams, NEW n \in Nat, BlTake(s, n)
    PROVE  /\ blTokens' \in 0..BlBurst /\ blLag' \in 0..BlBurst /\ blOthers' \subseteq BlStreams
           /\ BlRefilled' = BlRefilled - n /\ BlRefilled' \in Int
  <1>1. BlRefilled \in Int /\ 0 <= BlRefilled /\ BlRefilled <= BlBurst /\ BlBurst \in Nat
    BY BlRefilledType, BlCapValue
  <1>2. BlRefilled >= n /\ blTokens' = BlRefilled - n /\ blLag' = 0 /\ blOthers' = (blOthers \cup BlWaiting) \ {s}
    BY DEF BlTake
  <1>3. blTokens' \in 0..BlBurst /\ blLag' \in 0..BlBurst
    BY <1>1, <1>2
  <1>4. BlRefilled' = BlMin(blTokens' + blLag', BlBurst)
    BY DEF BlRefilled
  <1>5. BlRefilled' = BlRefilled - n /\ BlRefilled' \in Int
    <2> HIDE DEF BlRefilled
    <2>1. QED
      BY <1>1, <1>2, <1>3, <1>4 DEF BlMin
  <1>6. blOthers' \subseteq BlStreams
    BY <1>2 DEF BlTypeOK, BlWaiting, BlStreams
  <1>7. QED
    BY <1>3, <1>5, <1>6

\* Asking for too many changes nothing but the time of the last use.
LEMMA BlTooFewEffect ==
    ASSUME BlTypeOK, NEW s \in BlStreams, NEW n \in Nat, BlTooFew(s, n)
    PROVE  /\ blTokens' \in 0..BlBurst /\ blLag' \in 0..BlBurst /\ blOthers' \subseteq BlStreams
           /\ BlRefilled' = BlRefilled /\ BlRefilled' \in Int
  <1>1. BlRefilled \in Int /\ 0 <= BlRefilled /\ BlRefilled <= BlBurst /\ BlBurst \in Nat
    BY BlRefilledType, BlCapValue
  <1>2. blTokens' = BlRefilled /\ blLag' = 0 /\ blOthers' = blOthers
    BY DEF BlTooFew
  <1>3. blTokens' \in 0..BlBurst /\ blLag' \in 0..BlBurst
    BY <1>1, <1>2
  <1>4. BlRefilled' = BlMin(blTokens' + blLag', BlBurst)
    BY DEF BlRefilled
  <1>5. BlRefilled' = BlRefilled /\ BlRefilled' \in Int
    BY <1>1, <1>2, <1>3, <1>4 DEF BlMin
  <1>6. QED
    BY <1>2, <1>3, <1>5 DEF BlTypeOK

\* Tokens given back are at most added.
LEMMA BlReturnEffect ==
    ASSUME BlTypeOK, NEW n \in Nat, BlReturn(n)
    PROVE  /\ blTokens' \in 0..BlBurst /\ blLag' \in 0..BlBurst
           /\ BlRefilled' <= BlRefilled + n /\ BlRefilled' \in Int
  <1>1. BlRefilled \in Int /\ 0 <= BlRefilled /\ BlRefilled <= BlBurst /\ BlBurst \in Nat
    BY BlRefilledType, BlCapValue
  <1>2. BlRefilled' = BlMin(blTokens' + blLag', BlBurst)
    BY DEF BlRefilled
  <1>3. CASE n = 0
    <2>1. blTokens' = blTokens /\ blLag' = blLag
      BY <1>3 DEF BlReturn
    <2>2. BlRefilled' = BlRefilled
      BY <2>1, <1>2 DEF BlRefilled
    <2>3. QED
      BY <1>1, <1>3, <2>1, <2>2 DEF BlTypeOK
  <1>4. CASE n # 0
    <2>1. blTokens' = BlMin(BlRefilled + n, BlBurst) /\ blLag' = 0
      BY <1>4 DEF BlReturn
    <2>2. blTokens' \in 0..BlBurst /\ blLag' \in 0..BlBurst /\ blTokens' <= BlRefilled + n
      BY <1>1, <2>1 DEF BlMin
    <2>3. BlRefilled' = blTokens'
      BY <1>1, <1>2, <2>1, <2>2 DEF BlMin
    <2>4. QED
      BY <2>2, <2>3
  <1>5. QED
    BY <1>3, <1>4

\* A step that stays away from the limiter.
LEMMA BlNoVisit ==
    ASSUME BlTypeOK, UNCHANGED <<blTokens, blLag, blOthers>>
    PROVE  /\ blTokens' \in 0..BlBurst /\ blLag' \in 0..BlBurst /\ blOthers' \subseteq BlStreams
           /\ BlRefilled' = BlRefilled /\ BlRefilled' \in Int
  <1>1. blTokens' = blTokens /\ blLag' = blLag /\ blOthers' = blOthers
    OBVIOUS
  <1>2. BlRefilled' = BlRefilled
    BY <1>1 DEF BlRefilled
  <1>3. QED
    BY <1>1, <1>2, BlRefilledType DEF BlTypeOK

\* A step of a reader keeps the invariant when what it has outstanding afterwards, the
\* limiter and the bytes it moved make up for each other.
LEMMA BlReaderStep ==
    ASSUME BlInv, NEW r \in BlReaders,
           NEW phase \in {"idle", "granted", "starved", "wait", "deliver"}, NEW n \in 0..BlCap,
           BlReadIs(r, phase, n, IF phase \in {"wait", "deliver"} THEN n ELSE 0),
           UNCHANGED blWrite,
           blTokens' \in 0..BlBurst, blLag' \in 0..BlBurst, blOthers' \subseteq BlStreams,
           blIdeal' \in Int, blIdeal' <= BlBurst, BlRefilled' \in Int,
           NEW d \in Int, (IF phase \in {"granted", "deliver"} THEN n ELSE 0) = BlOut(r) + d,
           BlRefilled' + d - blIdeal' <= BlRefilled - blIdeal
    PROVE  BlInv'
  <1> DEFINE kept == IF phase \in {"wait", "deliver"} THEN n ELSE 0
             rec == [phase |-> phase, n |-> n, kept |-> kept]
  <1>1. kept \in 0..BlCap
    BY BlCapValue
  <1>2. rec \in BlReads /\ rec.phase = phase /\ rec.n = n /\ rec.kept = kept
    BY <1>1 DEF BlReads
  <1>3. blRead \in [BlReaders -> BlReads] /\ blRead' = [blRead EXCEPT ![r] = rec] /\ blWrite' = blWrite
    BY DEF BlInv, BlTypeOK, BlReadIs
  <1> HIDE DEF rec
  <1>4. blRead' \in [BlReaders -> BlReads]
    BY <1>2, <1>3
  <1>5. blRead'[r] = rec /\ \A t \in BlReaders \ {r} : blRead'[t] = blRead[t]
    BY <1>3
  <1>6. BlTypeOK'
    BY <1>3, <1>4 DEF BlInv, BlTypeOK
  <1>7. BlExact'
    BY <1>2, <1>3, <1>5 DEF BlInv, BlExact
  <1>8. BlShape'
    BY <1>3 DEF BlInv, BlShape
  <1>9. r \in BlStreams
    BY DEF BlStreams
  <1>10. BlOut(r)' = BlOut(r) + d
    BY <1>2, <1>5 DEF BlOut
  <1>11. ASSUME NEW t \in BlStreams \ {r} PROVE BlOut(t)' = BlOut(t)
    BY <1>3, <1>5 DEF BlOut
  <1>12. \A t \in BlStreams : BlOut(t) \in Int
    BY BlOutBound DEF BlInv
  <1>13. BlRefilled \in Int /\ blIdeal \in Int
    BY BlRefilledType DEF BlInv, BlTypeOK
  <1>14. BlBalance'
    BY <1>9, <1>10, <1>11, <1>12, <1>13, BlShift DEF BlInv
  <1>15. QED
    BY <1>6, <1>7, <1>8, <1>14 DEF BlInv

\* The same for a writer.
LEMMA BlWriterStep ==
    ASSUME BlInv, NEW w \in BlWriters, NEW s \in BlWrites, BlWriteIs(w, s),
           s.ahead = s.report - s.pending + s.written,
           s.phase \in {"wait", "write"} => s.chunk <= s.pending,
           s.phase # "write" => s.written = 0, s.written <= s.chunk,
           UNCHANGED blRead,
           blTokens' \in 0..BlBurst, blLag' \in 0..BlBurst, blOthers' \subseteq BlStreams,
           blIdeal' \in Int, blIdeal' <= BlBurst, BlRefilled' \in Int,
           NEW d \in Int, (IF s.phase = "write" THEN s.chunk - s.written ELSE 0) <= BlOut(w) + d,
           BlRefilled' + d - blIdeal' <= BlRefilled - blIdeal
    PROVE  BlInv'
  <1>3. blWrite \in [BlWriters -> BlWrites] /\ blWrite' = [blWrite EXCEPT ![w] = s] /\ blRead' = blRead
    BY DEF BlInv, BlTypeOK, BlWriteIs
  <1>4. blWrite' \in [BlWriters -> BlWrites]
    BY <1>3
  <1>5. blWrite'[w] = s /\ \A t \in BlWriters \ {w} : blWrite'[t] = blWrite[t]
    BY <1>3
  <1>6. BlTypeOK'
    BY <1>3, <1>4 DEF BlInv, BlTypeOK
  <1>7. BlExact'
    BY <1>3, <1>5 DEF BlInv, BlExact
  <1>8. BlShape'
    BY <1>3, <1>5 DEF BlInv, BlShape
  <1>9. w \in BlStreams /\ w \notin BlReaders
    BY BlAssumptions DEF BlStreams
  <1> DEFINE out == IF s.phase = "write" THEN s.chunk - s.written ELSE 0
             e == out - BlOut(w)
  <1>10. BlOut(w)' = out
    BY <1>5, <1>9 DEF BlOut
  <1>11. ASSUME NEW t \in BlStreams \ {w} PROVE BlOut(t)' = BlOut(t)
    <2>1. CASE t \in BlReaders
      BY <2>1, <1>3 DEF BlOut
    <2>2. CASE t \notin BlReaders
      BY <2>2, <1>5 DEF BlOut, BlStreams
    <2>3. QED
      BY <2>1, <2>2
  <1>12. \A t \in BlStreams : BlOut(t) \in Int
    BY BlOutBound DEF BlInv
  <1>13. BlRefilled \in Int /\ blIdeal \in Int
    BY BlRefilledType DEF BlInv, BlTypeOK
  <1>14. out \in Int
    BY DEF BlWrites
  <1>15. e \in Int /\ out = BlOut(w) + e /\ e <= d
    <2>1. BlOut(w) \in Int
      BY <1>9, <1>12
    <2> HIDE DEF BlOut
    <2>2. out <= BlOut(w) + d
      OBVIOUS
    <2> HIDE DEF out
    <2>3. QED
      BY <1>14, <2>1, <2>2
  <1>16. BlRefilled' + e - blIdeal' <= BlRefilled - blIdeal
    <2>1. \A f, g, x, y, a, b \in Int : x + f - y <= a - b /\ g <= f => x + g - y <= a - b
      OBVIOUS
    <2> HIDE DEF e, out
    <2>2. QED
      BY <1>13, <1>15, <2>1, Zenon
  <1>17. BlOut(w)' = BlOut(w) + e
    BY <1>10, <1>15
  <1>18. BlBalance'
    <2> HIDE DEF e, out
    <2>1. QED
      BY <1>9, <1>11, <1>12, <1>13, <1>15, <1>16, <1>17, BlShift DEF BlInv
  <1>19. QED
    BY <1>6, <1>7, <1>8, <1>18 DEF BlInv

\* Time passes: a full bucket loses what it could not save, and then even everything the
\* streams may have outstanding does not put it behind.
LEMMA BlTickInv ==
    ASSUME BlInv, BlTick
    PROVE  BlInv'
  <1>1. /\ BlTypeOK /\ blLag' = BlMin(blLag + 1, BlBurst) /\ blIdeal' = BlMin(blIdeal + 1, BlBurst)
        /\ blTokens' = blTokens /\ blRead' = blRead /\ blWrite' = blWrite /\ blOthers' = blOthers
    BY DEF BlInv, BlTick
  <1>2. blTokens \in Int /\ 0 <= blTokens /\ blLag \in 0..BlBurst /\ blIdeal \in Int /\ BlBurst \in Nat
    BY <1>1, BlCapValue DEF BlTypeOK
  <1>3. blLag' \in 0..BlBurst /\ blIdeal' \in Int /\ blIdeal' <= BlBurst
    BY <1>1, <1>2 DEF BlMin
  <1>4. BlTypeOK' /\ BlExact' /\ BlShape'
    BY <1>1, <1>3 DEF BlInv, BlTypeOK, BlExact, BlShape
  <1>5. BlRefilled \in Int /\ BlRefilled' \in Int /\ BlRefilled' <= BlRefilled + 1 /\ BlRefilled' <= BlBurst
    <2>1. BlRefilled' = BlMin(blTokens + blLag', BlBurst)
      BY <1>1 DEF BlRefilled
    <2>2. QED
      BY <1>1, <1>2, <2>1 DEF BlRefilled, BlMin
  <1>6. PICK p : BlAddsUp(p) /\ BlRefilled + p[BlN] <= blIdeal + BlCap * BlN
    BY DEF BlInv, BlBalance
  <1>7. p[BlN] \in Int /\ p[BlN] <= BlCap * BlN /\ BlCap * BlN \in Int
    BY <1>6, BlSumBound, BlOrdered, BlCapValue DEF BlInv
  <1>8. \A s : BlOut(s)' = BlOut(s)
    BY <1>1 DEF BlOut
  <1>9. BlAddsUp(p)'
    BY <1>6, <1>8 DEF BlAddsUp
  <1>10. BlRefilled' + p[BlN] <= blIdeal' + BlCap * BlN
    <2>1. \A a, b, c, x, f, g \in Int : a <= b + 1 /\ b + c <= x + f /\ a <= g /\ c <= f =>
              a + c <= (IF x + 1 < g THEN x + 1 ELSE g) + f
      OBVIOUS
    <2>2. blIdeal' = IF blIdeal + 1 < BlBurst THEN blIdeal + 1 ELSE BlBurst
      BY <1>1 DEF BlMin
    <2>3. BlBurst \in Int
      BY <1>2
    <2>4. QED
      BY <1>2, <1>5, <1>6, <1>7, <2>1, <2>2, <2>3, Zenon
  <1>11. BlBalance'
    BY <1>3, <1>9, <1>10 DEF BlBalance
  <1>12. QED
    BY <1>4, <1>11 DEF BlInv

\* What the lemmas on the readers' steps need of the state.
LEMMA BlReaderFacts ==
    ASSUME BlInv, NEW r \in BlReaders
    PROVE  /\ BlTypeOK /\ r \in BlStreams
           /\ blRead[r].phase \in {"idle", "granted", "starved", "wait", "deliver"}
           /\ blRead[r].n \in 0..BlCap /\ blRead[r].n \in Nat
           /\ blRead[r].kept = IF blRead[r].phase \in {"wait", "deliver"} THEN blRead[r].n ELSE 0
           /\ BlOut(r) = IF blRead[r].phase \in {"granted", "deliver"} THEN blRead[r].n ELSE 0
           /\ blIdeal \in Int /\ blIdeal <= BlBurst
           /\ BlRefilled \in Int /\ BlCap \in Nat /\ BlBurst \in Nat
  <1>1. BlTypeOK /\ r \in BlStreams
    BY DEF BlInv, BlStreams
  <1>2. blRead[r] \in BlReads
    BY <1>1 DEF BlTypeOK
  <1>3. QED
    BY <1>1, <1>2, BlCapValue, BlRefilledType DEF BlReads, BlInv, BlExact, BlBalance, BlOut, BlTypeOK

LEMMA BlReadTryInv ==
    ASSUME BlInv, NEW r \in BlReaders, NEW b \in 1..(BlCap + 1), BlReadTry(r, b)
    PROVE  BlInv'
  <1> DEFINE want == BlMin(b, BlCap)
  <1>1. want \in 0..BlCap /\ want \in Nat
    BY BlCapValue DEF BlMin
  <1>2. blRead[r].phase = "idle" /\ blWrite' = blWrite /\ blIdeal' = blIdeal
    BY DEF BlReadTry
  <1>3. BlOut(r) = 0
    BY <1>2, BlReaderFacts
  <1>4. CASE BlTake(r, want) /\ BlReadIs(r, "granted", want, 0)
    <2>1. BlReadIs(r, "granted", want, IF "granted" \in {"wait", "deliver"} THEN want ELSE 0)
      BY <1>4
    <2> HIDE DEF want
    <2>2. /\ blTokens' \in 0..BlBurst /\ blLag' \in 0..BlBurst /\ blOthers' \subseteq BlStreams
          /\ BlRefilled' = BlRefilled - want /\ BlRefilled' \in Int
      BY <1>1, <1>4, BlTakeEffect, BlReaderFacts
    <2>3. BlRefilled' + want - blIdeal' <= BlRefilled - blIdeal
      BY <1>1, <1>2, <2>2, BlReaderFacts
    <2>4. (IF "granted" \in {"granted", "deliver"} THEN want ELSE 0) = BlOut(r) + want /\ want \in Int
      BY <1>1, <1>3
    <2>5. blIdeal' \in Int /\ blIdeal' <= BlBurst
      BY <1>2, BlReaderFacts
    <2>6. "granted" \in {"idle", "granted", "starved", "wait", "deliver"}
      OBVIOUS
    <2>7. QED
      BY <1>1, <1>2, <2>1, <2>2, <2>3, <2>4, <2>5, <2>6, BlReaderStep
  <1>5. CASE BlTooFew(r, want) /\ BlReadIs(r, "starved", want, 0)
    <2>1. BlReadIs(r, "starved", want, IF "starved" \in {"wait", "deliver"} THEN want ELSE 0)
      BY <1>5
    <2> HIDE DEF want
    <2>2. /\ blTokens' \in 0..BlBurst /\ blLag' \in 0..BlBurst /\ blOthers' \subseteq BlStreams
          /\ BlRefilled' = BlRefilled /\ BlRefilled' \in Int
      BY <1>1, <1>5, BlTooFewEffect, BlReaderFacts
    <2>3. BlRefilled' + 0 - blIdeal' <= BlRefilled - blIdeal
      BY <1>1, <1>2, <2>2, BlReaderFacts
    <2>4. (IF "starved" \in {"granted", "deliver"} THEN want ELSE 0) = BlOut(r) + 0
      BY <1>1, <1>3
    <2>5. blIdeal' \in Int /\ blIdeal' <= BlBurst
      BY <1>2, BlReaderFacts
    <2>6. "starved" \in {"idle", "granted", "starved", "wait", "deliver"}
      OBVIOUS
    <2>7. QED
      BY <1>1, <1>2, <2>1, <2>2, <2>3, <2>4, <2>5, <2>6, BlReaderStep
  <1>6. QED
    BY <1>4, <1>5 DEF BlReadTry

LEMMA BlReadGrantedInv ==
    ASSUME BlInv, NEW r \in BlReaders, BlReadGranted(r)
    PROVE  BlInv'
  <1>1. PICK n \in 0..blRead[r].n : BlReturn(blRead[r].n - n) /\ blIdeal' = blIdeal - n
    BY DEF BlReadGranted
  <1>2. blRead[r].phase = "granted" /\ blWrite' = blWrite /\ blOthers' = blOthers /\ BlReadIs(r, "idle", 0, 0)
    BY DEF BlReadGranted
  <1>3. BlOut(r) = blRead[r].n /\ blRead[r].n \in Nat /\ n \in Nat /\ blRead[r].n - n \in Nat /\ 0 \in 0..BlCap
    BY <1>1, <1>2, BlReaderFacts
  <1>4. /\ blTokens' \in 0..BlBurst /\ blLag' \in 0..BlBurst
        /\ BlRefilled' <= BlRefilled + (blRead[r].n - n) /\ BlRefilled' \in Int
    BY <1>1, <1>3, BlReturnEffect, BlReaderFacts
  <1>5. blOthers' \subseteq BlStreams
    BY <1>2 DEF BlInv, BlTypeOK
  <1>6. blIdeal' \in Int /\ blIdeal' <= BlBurst
    BY <1>1, <1>3, BlReaderFacts
  <1>7. BlRefilled' + (0 - blRead[r].n) - blIdeal' <= BlRefilled - blIdeal
    <2>1. \A x, a, b, m, k \in Int : x <= a + (m - k) => x + (0 - m) - (b - k) <= a - b
      OBVIOUS
    <2>2. BlRefilled \in Int /\ blIdeal \in Int /\ blRead[r].n \in Int /\ n \in Int
      BY <1>3, BlReaderFacts
    <2>3. QED
      BY <1>1, <1>4, <2>1, <2>2, Zenon
  <1>8. (IF "idle" \in {"granted", "deliver"} THEN 0 ELSE 0) = BlOut(r) + (0 - blRead[r].n) /\ 0 - blRead[r].n \in Int
    BY <1>3
  <1>9. BlReadIs(r, "idle", 0, IF "idle" \in {"wait", "deliver"} THEN 0 ELSE 0)
    BY <1>2
  <1>10. QED
    BY <1>2, <1>3, <1>4, <1>5, <1>6, <1>7, <1>8, <1>9, BlReaderStep

LEMMA BlReadStarvedNothingInv ==
    ASSUME BlInv, NEW r \in BlReaders, BlReadStarvedNothing(r)
    PROVE  BlInv'
  <1>1. /\ blRead[r].phase = "starved" /\ blWrite' = blWrite /\ BlReadIs(r, "idle", 0, 0) /\ blIdeal' = blIdeal
        /\ UNCHANGED <<blTokens, blLag, blOthers>>
    BY DEF BlReadStarvedNothing
  <1>2. /\ blTokens' \in 0..BlBurst /\ blLag' \in 0..BlBurst /\ blOthers' \subseteq BlStreams
        /\ BlRefilled' = BlRefilled /\ BlRefilled' \in Int
    BY <1>1, BlNoVisit, BlReaderFacts
  <1>3. BlRefilled' + 0 - blIdeal' <= BlRefilled - blIdeal /\ blIdeal' \in Int /\ blIdeal' <= BlBurst
    BY <1>1, <1>2, BlReaderFacts
  <1>4. (IF "idle" \in {"granted", "deliver"} THEN 0 ELSE 0) = BlOut(r) + 0 /\ 0 \in 0..BlCap
    BY <1>1, BlReaderFacts
  <1>5. BlReadIs(r, "idle", 0, IF "idle" \in {"wait", "deliver"} THEN 0 ELSE 0)
    BY <1>1
  <1>6. QED
    BY <1>1, <1>2, <1>3, <1>4, <1>5, BlReaderStep

LEMMA BlReadStarvedInv ==
    ASSUME BlInv, NEW r \in BlReaders, BlReadStarved(r)
    PROVE  BlInv'
  <1>1. blRead[r].phase = "starved" /\ blWrite' = blWrite
    BY DEF BlReadStarved
  <1>2. PICK n \in 1..blRead[r].n :
            \/ BlTake(r, n) /\ BlReadIs(r, "idle", 0, 0) /\ blIdeal' = blIdeal - n
            \/ BlTooFew(r, n) /\ BlReadIs(r, "wait", n, n) /\ UNCHANGED blIdeal
    BY DEF BlReadStarved
  <1>3. BlOut(r) = 0 /\ n \in Nat /\ n \in 0..BlCap /\ 0 \in 0..BlCap
    BY <1>1, <1>2, BlReaderFacts
  <1>4. CASE BlTake(r, n) /\ BlReadIs(r, "idle", 0, 0) /\ blIdeal' = blIdeal - n
    <2>1. /\ blTokens' \in 0..BlBurst /\ blLag' \in 0..BlBurst /\ blOthers' \subseteq BlStreams
          /\ BlRefilled' = BlRefilled - n /\ BlRefilled' \in Int
      BY <1>3, <1>4, BlTakeEffect, BlReaderFacts
    <2>2. BlRefilled' + 0 - blIdeal' <= BlRefilled - blIdeal /\ blIdeal' \in Int /\ blIdeal' <= BlBurst
      BY <1>3, <1>4, <2>1, BlReaderFacts
    <2>3. (IF "idle" \in {"granted", "deliver"} THEN 0 ELSE 0) = BlOut(r) + 0
      BY <1>3
    <2>4. BlReadIs(r, "idle", 0, IF "idle" \in {"wait", "deliver"} THEN 0 ELSE 0)
      BY <1>4
    <2>5. QED
      BY <1>1, <1>3, <2>1, <2>2, <2>3, <2>4, BlReaderStep
  <1>5. CASE BlTooFew(r, n) /\ BlReadIs(r, "wait", n, n) /\ UNCHANGED blIdeal
    <2>1. /\ blTokens' \in 0..BlBurst /\ blLag' \in 0..BlBurst /\ blOthers' \subseteq BlStreams
          /\ BlRefilled' = BlRefilled /\ BlRefilled' \in Int
      BY <1>3, <1>5, BlTooFewEffect, BlReaderFacts
    <2>2. BlRefilled' + 0 - blIdeal' <= BlRefilled - blIdeal /\ blIdeal' \in Int /\ blIdeal' <= BlBurst
      BY <1>3, <1>5, <2>1, BlReaderFacts
    <2>3. (IF "wait" \in {"granted", "deliver"} THEN n ELSE 0) = BlOut(r) + 0
      BY <1>3
    <2>4. BlReadIs(r, "wait", n, IF "wait" \in {"wait", "deliver"} THEN n ELSE 0)
      BY <1>5
    <2>5. QED
      BY <1>1, <1>3, <2>1, <2>2, <2>3, <2>4, BlReaderStep
  <1>6. QED
    BY <1>2, <1>4, <1>5

LEMMA BlReadWaitsInv ==
    ASSUME BlInv, NEW r \in BlReaders, BlReadWaits(r)
    PROVE  BlInv'
  <1> DEFINE n == blRead[r].n
  <1>1. blRead[r].phase = "wait" /\ blWrite' = blWrite /\ blIdeal' = blIdeal
    BY DEF BlReadWaits
  <1>2. BlOut(r) = 0 /\ n \in Nat /\ n \in 0..BlCap /\ blRead[r].kept = n
    BY <1>1, BlReaderFacts
  <1>3. blIdeal' \in Int /\ blIdeal' <= BlBurst
    BY <1>1, BlReaderFacts
  <1>4. CASE BlTake(r, n) /\ BlReadIs(r, "deliver", n, n)
    <2>1. /\ blTokens' \in 0..BlBurst /\ blLag' \in 0..BlBurst /\ blOthers' \subseteq BlStreams
          /\ BlRefilled' = BlRefilled - n /\ BlRefilled' \in Int
      BY <1>2, <1>4, BlTakeEffect, BlReaderFacts
    <2>2. BlRefilled' + n - blIdeal' <= BlRefilled - blIdeal
      BY <1>1, <1>2, <2>1, BlReaderFacts
    <2>3. (IF "deliver" \in {"granted", "deliver"} THEN n ELSE 0) = BlOut(r) + n /\ n \in Int
      BY <1>2
    <2>4. BlReadIs(r, "deliver", n, IF "deliver" \in {"wait", "deliver"} THEN n ELSE 0)
      BY <1>4
    <2> HIDE DEF n
    <2>5. QED
      BY <1>1, <1>2, <1>3, <2>1, <2>2, <2>3, <2>4, BlReaderStep
  <1>5. CASE BlTooFew(r, n) /\ UNCHANGED blRead
    <2>1. /\ blTokens' \in 0..BlBurst /\ blLag' \in 0..BlBurst /\ blOthers' \subseteq BlStreams
          /\ BlRefilled' = BlRefilled /\ BlRefilled' \in Int
      BY <1>2, <1>5, BlTooFewEffect, BlReaderFacts
    <2>2. BlRefilled' + 0 - blIdeal' <= BlRefilled - blIdeal
      BY <1>1, <2>1, BlReaderFacts
    <2>3. (IF "wait" \in {"granted", "deliver"} THEN n ELSE 0) = BlOut(r) + 0
      BY <1>2
    <2>4. BlReadIs(r, "wait", n, IF "wait" \in {"wait", "deliver"} THEN n ELSE 0)
      <3>1. blRead \in [BlReaders -> BlReads] /\ blRead' = blRead
        BY <1>5 DEF BlInv, BlTypeOK
      <3>2. blRead[r] = [phase |-> "wait", n |-> n, kept |-> n]
        <4>1. blRead[r] \in BlReads
          BY <3>1
        <4>2. QED
          BY <1>1, <1>2, <4>1 DEF BlReads
      <3> HIDE DEF n
      <3>3. QED
        BY <3>1, <3>2 DEF BlReadIs
    <2> HIDE DEF n
    <2>5. QED
      BY <1>1, <1>2, <1>3, <2>1, <2>2, <2>3, <2>4, BlReaderStep
  <1>6. QED
    BY <1>2, <1>4, <1>5 DEF BlReadWaits

LEMMA BlReadDeliverInv ==
    ASSUME BlInv, NEW r \in BlReaders, NEW b \in 1..(BlCap + 1), BlReadDeliver(r, b)
    PROVE  BlInv'
  <1> DEFINE n == BlMin(blRead[r].n, b)
             m == blRead[r].n - n
             phase == IF n < blRead[r].n THEN "deliver" ELSE "idle"
  <1>1. /\ blRead[r].phase = "deliver" /\ blWrite' = blWrite /\ blIdeal' = blIdeal - n
        /\ BlReadIs(r, phase, m, blRead[r].kept - n) /\ UNCHANGED <<blTokens, blLag, blOthers>>
    BY DEF BlReadDeliver
  <1>2. BlOut(r) = blRead[r].n /\ blRead[r].kept = blRead[r].n /\ blRead[r].n \in Nat /\ blRead[r].n <= BlCap /\ BlCap \in Nat
    BY <1>1, BlReaderFacts
  <1>3. n \in Nat /\ n <= blRead[r].n
    BY <1>2, BlCapValue DEF BlMin
  <1>4. m \in 0..BlCap /\ (phase = "deliver" \/ (phase = "idle" /\ m = 0)) /\ BlOut(r) = m + n
    <2> HIDE DEF n
    <2>1. QED
      BY <1>2, <1>3
  <1>5. blRead[r].kept - n = m
    BY <1>2
  <1>6. BlReadIs(r, phase, m, m)
    BY <1>1, <1>5
  <1> HIDE DEF phase, m, n
  <1>7. /\ blTokens' \in 0..BlBurst /\ blLag' \in 0..BlBurst /\ blOthers' \subseteq BlStreams
        /\ BlRefilled' = BlRefilled /\ BlRefilled' \in Int
    BY <1>1, BlNoVisit, BlReaderFacts
  <1>8. /\ BlRefilled' + (0 - n) - blIdeal' <= BlRefilled - blIdeal /\ blIdeal' \in Int /\ blIdeal' <= BlBurst
        /\ 0 - n \in Int
    BY <1>1, <1>3, <1>7, BlReaderFacts
  <1>9. /\ m = IF phase \in {"wait", "deliver"} THEN m ELSE 0
        /\ m = IF phase \in {"granted", "deliver"} THEN m ELSE 0
        /\ phase \in {"idle", "granted", "starved", "wait", "deliver"}
    BY <1>4
  <1>10. BlReadIs(r, phase, m, IF phase \in {"wait", "deliver"} THEN m ELSE 0)
    BY <1>6, <1>9
  <1>11. (IF phase \in {"granted", "deliver"} THEN m ELSE 0) = BlOut(r) + (0 - n)
    <2>1. BlOut(r) + (0 - n) = m
      BY <1>3, <1>4
    <2>2. QED
      BY <1>9, <2>1
  <1>12. QED
    BY <1>1, <1>4, <1>7, <1>8, <1>9, <1>10, <1>11, BlReaderStep

\* What the lemmas on the writers' steps need of the state.
LEMMA BlWriterFacts ==
    ASSUME BlInv, NEW w \in BlWriters
    PROVE  /\ BlTypeOK /\ w \in BlStreams /\ blWrite[w] \in BlWrites
           /\ blWrite[w].chunk \in 0..BlCap /\ blWrite[w].written \in 0..BlCap
           /\ blWrite[w].pending \in 0..BlCap /\ blWrite[w].report \in 0..BlCap
           /\ blWrite[w].ahead = blWrite[w].report - blWrite[w].pending + blWrite[w].written
           /\ blWrite[w].phase \in {"wait", "write"} => blWrite[w].chunk <= blWrite[w].pending
           /\ blWrite[w].phase # "write" => blWrite[w].written = 0
           /\ blWrite[w].written <= blWrite[w].chunk
           /\ BlOut(w) = IF blWrite[w].phase = "write" THEN blWrite[w].chunk - blWrite[w].written ELSE 0
           /\ blIdeal \in Int /\ blIdeal <= BlBurst
           /\ BlRefilled \in Int /\ BlCap \in Nat /\ BlBurst \in Nat
  <1>1. BlTypeOK /\ w \in BlStreams /\ w \notin BlReaders
    BY BlAssumptions DEF BlInv, BlStreams
  <1>2. blWrite[w] \in BlWrites
    BY <1>1 DEF BlTypeOK
  <1>3. BlOut(w) = IF blWrite[w].phase = "write" THEN blWrite[w].chunk - blWrite[w].written ELSE 0
    BY <1>1 DEF BlOut
  <1>4. blIdeal \in Int /\ blIdeal <= BlBurst
    BY <1>1 DEF BlTypeOK, BlInv, BlBalance
  <1>5. QED
    BY <1>1, <1>2, <1>3, <1>4, BlCapValue, BlRefilledType DEF BlWrites, BlInv, BlExact, BlShape

LEMMA BlWriteCallInv ==
    ASSUME BlInv, NEW w \in BlWriters, NEW b \in 1..(BlCap + 1), BlWriteCall(w, b)
    PROVE  BlInv'
  <1> DEFINE take == BlMin(b, BlCap)
             s == [blWrite[w] EXCEPT !.pending = take, !.report = take]
  <1>1. take \in 0..BlCap
    BY BlCapValue DEF BlMin
  <1>2. /\ blWrite[w].phase = "idle" /\ blWrite[w].pending = 0 /\ blWrite[w].report = 0 /\ BlWriteIs(w, s)
        /\ blRead' = blRead /\ blIdeal' = blIdeal /\ UNCHANGED <<blTokens, blLag, blOthers>>
    BY DEF BlWriteCall
  <1> HIDE DEF take
  <1>3. /\ s \in BlWrites /\ s.phase = "idle" /\ s.chunk = blWrite[w].chunk /\ s.written = blWrite[w].written
        /\ s.pending = take /\ s.report = take /\ s.ahead = blWrite[w].ahead
    BY <1>1, <1>2, BlWriterFacts DEF BlWrites
  <1>4. s.ahead = s.report - s.pending + s.written /\ s.written = 0 /\ s.written <= s.chunk
    <2>1. /\ blWrite[w].chunk \in 0..BlCap
          /\ blWrite[w].phase # "write" => blWrite[w].written = 0
          /\ blWrite[w].ahead = blWrite[w].report - blWrite[w].pending + blWrite[w].written
      BY BlWriterFacts, Zenon
    <2> HIDE DEF s
    <2>2. blWrite[w].written = 0 /\ blWrite[w].ahead = 0
      BY <1>2, <2>1
    <2>3. QED
      BY <1>1, <1>3, <2>1, <2>2, BlCapValue
  <1>5. /\ blTokens' \in 0..BlBurst /\ blLag' \in 0..BlBurst /\ blOthers' \subseteq BlStreams
        /\ BlRefilled' = BlRefilled /\ BlRefilled' \in Int
    BY <1>2, BlNoVisit, BlWriterFacts
  <1>6. BlRefilled' + 0 - blIdeal' <= BlRefilled - blIdeal /\ blIdeal' \in Int /\ blIdeal' <= BlBurst
    BY <1>2, <1>5, BlWriterFacts
  <1>7. (IF s.phase = "write" THEN s.chunk - s.written ELSE 0) <= BlOut(w) + 0
    BY <1>2, <1>3, BlWriterFacts
  <1>8. s.phase \notin {"wait", "write"}
    BY <1>3
  <1> HIDE DEF s
  <1>9. QED
    BY <1>2, <1>3, <1>4, <1>5, <1>6, <1>7, <1>8, BlWriterStep

LEMMA BlWriteTryInv ==
    ASSUME BlInv, NEW w \in BlWriters, BlWriteTry(w)
    PROVE  BlInv'
  <1> DEFINE chunk == BlMin(blWrite[w].pending, BlCap)
             s(phase) == [blWrite[w] EXCEPT !.phase = phase, !.chunk = chunk, !.written = 0]
  <1>1. chunk \in 0..BlCap /\ chunk \in Nat /\ chunk <= blWrite[w].pending
    BY BlWriterFacts DEF BlMin
  <1>2. /\ blWrite[w].phase = "idle" /\ blRead' = blRead /\ blIdeal' = blIdeal
        /\ \/ BlTake(w, chunk) /\ BlWriteIs(w, s("write"))
           \/ BlTooFew(w, chunk) /\ BlWriteIs(w, s("wait"))
    BY DEF BlWriteTry
  <1> HIDE DEF chunk
  <1>3. ASSUME NEW ph \in {"wait", "write"}
        PROVE  /\ s(ph) \in BlWrites /\ s(ph).phase = ph /\ s(ph).chunk = chunk /\ s(ph).written = 0
               /\ s(ph).pending = blWrite[w].pending /\ s(ph).report = blWrite[w].report
               /\ s(ph).ahead = blWrite[w].ahead
    <2>1. blWrite[w] \in BlWrites /\ 0 \in 0..BlCap
      BY BlWriterFacts
    <2>2. QED
      BY <1>1, <2>1 DEF BlWrites
  <1> HIDE DEF s
  <1>4. BlOut(w) = 0
    BY <1>2, BlWriterFacts
  <1>5. blIdeal' \in Int /\ blIdeal' <= BlBurst
    BY <1>2, BlWriterFacts
  <1>6. ASSUME NEW ph \in {"wait", "write"}
        PROVE  /\ s(ph).ahead = s(ph).report - s(ph).pending + s(ph).written
               /\ s(ph).chunk <= s(ph).pending /\ s(ph).written = 0 /\ s(ph).written <= s(ph).chunk
    BY <1>1, <1>2, <1>3, BlWriterFacts
  <1>7. CASE BlTake(w, chunk) /\ BlWriteIs(w, s("write"))
    <2>1. /\ blTokens' \in 0..BlBurst /\ blLag' \in 0..BlBurst /\ blOthers' \subseteq BlStreams
          /\ BlRefilled' = BlRefilled - chunk /\ BlRefilled' \in Int
      BY <1>1, <1>7, BlTakeEffect, BlWriterFacts
    <2>2. BlRefilled' + chunk - blIdeal' <= BlRefilled - blIdeal
      BY <1>1, <1>2, <2>1, BlWriterFacts
    <2>3. (IF s("write").phase = "write" THEN s("write").chunk - s("write").written ELSE 0) <= BlOut(w) + chunk /\ chunk \in Int
      BY <1>1, <1>3, <1>4
    <2>4. QED
      BY <1>2, <1>3, <1>5, <1>6, <1>7, <2>1, <2>2, <2>3, BlWriterStep
  <1>8. CASE BlTooFew(w, chunk) /\ BlWriteIs(w, s("wait"))
    <2>1. /\ blTokens' \in 0..BlBurst /\ blLag' \in 0..BlBurst /\ blOthers' \subseteq BlStreams
          /\ BlRefilled' = BlRefilled /\ BlRefilled' \in Int
      BY <1>1, <1>8, BlTooFewEffect, BlWriterFacts
    <2>2. BlRefilled' + 0 - blIdeal' <= BlRefilled - blIdeal
      BY <1>1, <1>2, <2>1, BlWriterFacts
    <2>3. (IF s("wait").phase = "write" THEN s("wait").chunk - s("wait").written ELSE 0) <= BlOut(w) + 0
      BY <1>1, <1>3, <1>4
    <2>4. QED
      BY <1>2, <1>3, <1>5, <1>6, <1>8, <2>1, <2>2, <2>3, BlWriterStep
  <1>9. QED
    BY <1>2, <1>7, <1>8

LEMMA BlWriteWaitsInv ==
    ASSUME BlInv, NEW w \in BlWriters, BlWriteWaits(w)
    PROVE  BlInv'
  <1> DEFINE chunk == blWrite[w].chunk
             s == [blWrite[w] EXCEPT !.phase = "write"]
  <1>1. /\ blWrite[w].phase = "wait" /\ blRead' = blRead /\ blIdeal' = blIdeal
        /\ \/ BlTake(w, chunk) /\ BlWriteIs(w, s)
           \/ BlTooFew(w, chunk) /\ UNCHANGED blWrite
    BY DEF BlWriteWaits
  <1>2. /\ chunk \in Nat /\ chunk \in Int /\ BlOut(w) = 0 /\ blWrite[w].written = 0
        /\ chunk <= blWrite[w].pending /\ blIdeal' \in Int /\ blIdeal' <= BlBurst
    BY <1>1, BlWriterFacts
  <1>3. CASE BlTake(w, chunk) /\ BlWriteIs(w, s)
    <2>1. /\ blTokens' \in 0..BlBurst /\ blLag' \in 0..BlBurst /\ blOthers' \subseteq BlStreams
          /\ BlRefilled' = BlRefilled - chunk /\ BlRefilled' \in Int
      BY <1>2, <1>3, BlTakeEffect, BlWriterFacts
    <2>2. BlRefilled' + chunk - blIdeal' <= BlRefilled - blIdeal
      BY <1>1, <1>2, <2>1, BlWriterFacts
    <2>3. /\ s \in BlWrites /\ s.phase = "write" /\ s.chunk = chunk /\ s.written = 0
          /\ s.pending = blWrite[w].pending /\ s.report = blWrite[w].report /\ s.ahead = blWrite[w].ahead
      BY <1>2, BlWriterFacts DEF BlWrites
    <2>4. s.ahead = s.report - s.pending + s.written /\ s.written <= s.chunk /\ s.chunk <= s.pending
      BY <1>2, <2>3, BlWriterFacts
    <2>5. (IF s.phase = "write" THEN s.chunk - s.written ELSE 0) <= BlOut(w) + chunk
      BY <1>2, <2>3
    <2> HIDE DEF s, chunk
    <2>6. QED
      BY <1>1, <1>2, <1>3, <2>1, <2>2, <2>3, <2>4, <2>5, BlWriterStep
  <1>4. CASE BlTooFew(w, chunk) /\ UNCHANGED blWrite
    <2>1. /\ blTokens' \in 0..BlBurst /\ blLag' \in 0..BlBurst /\ blOthers' \subseteq BlStreams
          /\ BlRefilled' = BlRefilled /\ BlRefilled' \in Int
      BY <1>2, <1>4, BlTooFewEffect, BlWriterFacts
    <2>2. BlRefilled' + 0 - blIdeal' <= BlRefilled - blIdeal
      BY <1>1, <2>1, BlWriterFacts
    <2>3. BlWriteIs(w, blWrite[w])
      BY <1>4 DEF BlWriteIs, BlInv, BlTypeOK
    <2>4. (IF blWrite[w].phase = "write" THEN blWrite[w].chunk - blWrite[w].written ELSE 0) <= BlOut(w) + 0
      BY <1>1, <1>2
    <2>5. /\ blWrite[w] \in BlWrites
          /\ blWrite[w].ahead = blWrite[w].report - blWrite[w].pending + blWrite[w].written
          /\ blWrite[w].phase \in {"wait", "write"} => blWrite[w].chunk <= blWrite[w].pending
          /\ blWrite[w].phase # "write" => blWrite[w].written = 0
          /\ blWrite[w].written <= blWrite[w].chunk
      BY BlWriterFacts
    <2>6. QED
      BY <1>1, <1>2, <2>1, <2>2, <2>3, <2>4, <2>5, BlWriterStep
  <1>5. QED
    BY <1>1, <1>3, <1>4

LEMMA BlWriteInnerInv ==
    ASSUME BlInv, NEW w \in BlWriters, BlWriteInner(w)
    PROVE  BlInv'
  <1> DEFINE s == blWrite[w]
             more(n) == [s EXCEPT !.written = s.written + n, !.ahead = s.ahead + n]
             done(n) == [s EXCEPT !.phase = "idle", !.chunk = 0, !.written = 0,
                                  !.pending = s.pending - s.chunk, !.ahead = s.ahead + n]
  <1>1. PICK n \in 1..(s.chunk - s.written) :
            /\ BlWriteIs(w, IF s.written + n < s.chunk THEN more(n) ELSE done(n))
            /\ blIdeal' = blIdeal - n
    BY Zenon DEF BlWriteInner
  <1>2. s.phase = "write" /\ blRead' = blRead /\ UNCHANGED <<blTokens, blLag, blOthers>>
    BY DEF BlWriteInner
  <1>3. /\ s \in BlWrites /\ s.chunk \in 0..BlCap /\ s.written \in 0..BlCap /\ s.pending \in 0..BlCap
        /\ s.report \in 0..BlCap /\ s.ahead = s.report - s.pending + s.written
        /\ s.chunk <= s.pending /\ s.written <= s.chunk /\ BlOut(w) = s.chunk - s.written /\ BlCap \in Nat
    BY <1>2, BlWriterFacts
  <1>4. n \in Nat /\ n >= 1 /\ s.written + n <= s.chunk
    BY <1>1, <1>3
  <1>5. /\ blTokens' \in 0..BlBurst /\ blLag' \in 0..BlBurst /\ blOthers' \subseteq BlStreams
        /\ BlRefilled' = BlRefilled /\ BlRefilled' \in Int
    BY <1>2, BlNoVisit, BlWriterFacts
  <1>6. /\ BlRefilled' + (0 - n) - blIdeal' <= BlRefilled - blIdeal /\ blIdeal' \in Int /\ blIdeal' <= BlBurst
        /\ 0 - n \in Int
    BY <1>1, <1>4, <1>5, BlWriterFacts
  <1>7. CASE s.written + n < s.chunk
    <2>1. BlWriteIs(w, more(n))
      BY <1>1, <1>7
    <2>2. s.written + n \in 0..BlCap /\ s.ahead + n \in Int
      BY <1>3, <1>4
    <2> HIDE DEF s
    <2>3. /\ more(n) \in BlWrites /\ more(n).phase = "write" /\ more(n).chunk = s.chunk
          /\ more(n).written = s.written + n /\ more(n).pending = s.pending /\ more(n).report = s.report
          /\ more(n).ahead = s.ahead + n
      BY <1>2, <1>3, <2>2 DEF BlWrites
    <2> HIDE DEF more
    <2>4. /\ more(n).ahead = more(n).report - more(n).pending + more(n).written
          /\ more(n).written <= more(n).chunk /\ more(n).chunk <= more(n).pending
      BY <1>3, <1>4, <2>3
    <2>5. (IF more(n).phase = "write" THEN more(n).chunk - more(n).written ELSE 0) <= BlOut(w) + (0 - n)
      BY <1>3, <1>4, <2>3
    <2>6. QED
      BY <1>2, <1>5, <1>6, <2>1, <2>3, <2>4, <2>5, BlWriterStep
  <1>8. CASE ~(s.written + n < s.chunk)
    <2>1. BlWriteIs(w, done(n))
      BY <1>1, <1>8
    <2>2. s.pending - s.chunk \in 0..BlCap /\ s.ahead + n \in Int /\ 0 \in 0..BlCap /\ s.written + n = s.chunk
      BY <1>3, <1>4, <1>8
    <2> HIDE DEF s
    <2>3. /\ done(n) \in BlWrites /\ done(n).phase = "idle" /\ done(n).chunk = 0
          /\ done(n).written = 0 /\ done(n).pending = s.pending - s.chunk /\ done(n).report = s.report
          /\ done(n).ahead = s.ahead + n
      BY <1>2, <1>3, <2>2 DEF BlWrites
    <2> HIDE DEF done
    <2>4. /\ done(n).ahead = done(n).report - done(n).pending + done(n).written
          /\ done(n).written <= done(n).chunk /\ done(n).phase \notin {"wait", "write"}
      BY <1>3, <1>4, <2>2, <2>3
    <2>5. (IF done(n).phase = "write" THEN done(n).chunk - done(n).written ELSE 0) <= BlOut(w) + (0 - n)
      BY <1>3, <1>4, <2>2, <2>3
    <2>6. QED
      BY <1>2, <1>5, <1>6, <2>1, <2>3, <2>4, <2>5, BlWriterStep
  <1>9. QED
    BY <1>7, <1>8

\* What a stream that fails had been granted is lost to all of them.
LEMMA BlWriteFailsInv ==
    ASSUME BlInv, NEW w \in BlWriters, BlWriteFails(w)
    PROVE  BlInv'
  <1> DEFINE s == [BlIdleWrite EXCEPT !.phase = "failed"]
  <1>1. /\ blWrite[w].phase = "write" /\ BlWriteIs(w, s)
        /\ blRead' = blRead /\ blIdeal' = blIdeal /\ UNCHANGED <<blTokens, blLag, blOthers>>
    BY DEF BlWriteFails
  <1>2. /\ s \in BlWrites /\ s.phase = "failed" /\ s.chunk = 0 /\ s.written = 0 /\ s.pending = 0
        /\ s.report = 0 /\ s.ahead = 0
    BY BlCapValue DEF BlWrites, BlIdleWrite
  <1> HIDE DEF s
  <1>3. s.ahead = s.report - s.pending + s.written /\ s.written <= s.chunk /\ s.phase \notin {"wait", "write"}
    BY <1>2
  <1>4. /\ blTokens' \in 0..BlBurst /\ blLag' \in 0..BlBurst /\ blOthers' \subseteq BlStreams
        /\ BlRefilled' = BlRefilled /\ BlRefilled' \in Int
    BY <1>1, BlNoVisit, BlWriterFacts
  <1>5. BlRefilled' + 0 - blIdeal' <= BlRefilled - blIdeal /\ blIdeal' \in Int /\ blIdeal' <= BlBurst
    BY <1>1, <1>4, BlWriterFacts
  <1>6. (IF s.phase = "write" THEN s.chunk - s.written ELSE 0) <= BlOut(w) + 0
    BY <1>1, <1>2, BlWriterFacts
  <1>7. QED
    BY <1>1, <1>2, <1>3, <1>4, <1>5, <1>6, BlWriterStep

LEMMA BlWriteReportInv ==
    ASSUME BlInv, NEW w \in BlWriters, BlWriteReport(w)
    PROVE  BlInv'
  <1> DEFINE a == blWrite[w].ahead - blWrite[w].report
             s == [blWrite[w] EXCEPT !.report = 0, !.ahead = a]
  <1>1. /\ blWrite[w].phase = "idle" /\ blWrite[w].pending = 0 /\ BlWriteIs(w, s)
        /\ blRead' = blRead /\ blIdeal' = blIdeal /\ UNCHANGED <<blTokens, blLag, blOthers>>
    BY DEF BlWriteReport
  <1>2. a = 0 /\ blWrite[w].written = 0 /\ blWrite[w].chunk \in 0..BlCap /\ BlCap \in Nat
    BY <1>1, BlWriterFacts
  <1> HIDE DEF a
  <1>3. /\ s \in BlWrites /\ s.phase = "idle" /\ s.chunk = blWrite[w].chunk /\ s.written = 0 /\ s.pending = 0
        /\ s.report = 0 /\ s.ahead = 0
    <2>1. blWrite[w] \in BlWrites /\ 0 \in 0..BlCap /\ a \in Int
      BY <1>2, BlWriterFacts
    <2>2. QED
      BY <1>1, <1>2, <2>1 DEF BlWrites
  <1> HIDE DEF s
  <1>4. s.ahead = s.report - s.pending + s.written /\ s.written <= s.chunk /\ s.phase \notin {"wait", "write"}
    BY <1>2, <1>3
  <1>5. /\ blTokens' \in 0..BlBurst /\ blLag' \in 0..BlBurst /\ blOthers' \subseteq BlStreams
        /\ BlRefilled' = BlRefilled /\ BlRefilled' \in Int
    BY <1>1, BlNoVisit, BlWriterFacts
  <1>6. BlRefilled' + 0 - blIdeal' <= BlRefilled - blIdeal /\ blIdeal' \in Int /\ blIdeal' <= BlBurst
    BY <1>1, <1>5, BlWriterFacts
  <1>7. (IF s.phase = "write" THEN s.chunk - s.written ELSE 0) <= BlOut(w) + 0
    BY <1>1, <1>3, BlWriterFacts
  <1>8. QED
    BY <1>1, <1>3, <1>4, <1>5, <1>6, <1>7, BlWriterStep

LEMMA BlInitInv == BlInit => BlInv
  <1> SUFFICES ASSUME BlInit PROVE BlInv
    OBVIOUS
  <1>1. BlCap \in Nat /\ BlBurst \in Nat /\ BlN \in Nat
    BY BlCapValue, BlOrdered
  <1>2. BlIdleRead \in BlReads /\ BlIdleRead.phase = "idle" /\ BlIdleRead.n = 0 /\ BlIdleRead.kept = 0
    BY <1>1 DEF BlReads, BlIdleRead
  <1>3. /\ BlIdleWrite \in BlWrites /\ BlIdleWrite.phase = "idle" /\ BlIdleWrite.chunk = 0 /\ BlIdleWrite.written = 0
        /\ BlIdleWrite.pending = 0 /\ BlIdleWrite.report = 0 /\ BlIdleWrite.ahead = 0
    BY <1>1 DEF BlWrites, BlIdleWrite
  <1>4. /\ blTokens = BlBurst /\ blLag = 0 /\ blOthers = {} /\ blIdeal = BlBurst
        /\ blRead = [r \in BlReaders |-> BlIdleRead] /\ blWrite = [w \in BlWriters |-> BlIdleWrite]
    BY DEF BlInit
  <1>5. BlTypeOK
    BY <1>1, <1>2, <1>3, <1>4 DEF BlTypeOK
  <1>6. BlExact /\ BlShape
    BY <1>2, <1>3, <1>4 DEF BlExact, BlShape
  <1>7. \A s \in BlStreams : BlOut(s) = 0
    BY <1>2, <1>3, <1>4 DEF BlOut, BlStreams
  <1> DEFINE p == [i \in 0..BlN |-> 0]
  <1>8. BlAddsUp(p)
    <2>1. p \in [0..BlN -> Int] /\ p[0] = 0
      BY <1>1
    <2>2. ASSUME NEW i \in 1..BlN PROVE p[i] = p[i - 1] + BlOut(BlOrder[i])
      <3>1. i \in 0..BlN /\ i - 1 \in 0..BlN
        BY <1>1
      <3>2. BlOut(BlOrder[i]) = 0
        BY <1>7, BlOrdered
      <3>3. QED
        BY <3>1, <3>2
    <2>3. QED
      BY <2>1, <2>2 DEF BlAddsUp
  <1>9. BlRefilled + p[BlN] <= blIdeal + BlCap * BlN
    <2>1. BlCap * BlN \in Nat /\ p[BlN] = 0
      BY <1>1
    <2>2. QED
      BY <1>1, <1>4, <2>1 DEF BlRefilled, BlMin
  <1>10. blIdeal <= BlBurst
    BY <1>1, <1>4
  <1>11. BlBalance
    <2> HIDE DEF p
    <2>1. QED
      BY <1>8, <1>9, <1>10 DEF BlBalance
  <1>12. QED
    BY <1>5, <1>6, <1>11 DEF BlInv

LEMMA BlNextInv == BlInv /\ [BlNext]_blVars => BlInv'
  <1> SUFFICES ASSUME BlInv, [BlNext]_blVars PROVE BlInv'
    OBVIOUS
  <1>1. CASE BlTick
    BY <1>1, BlTickInv
  <1>2. ASSUME NEW r \in BlReaders,
               \/ BlReadGranted(r) \/ BlReadStarvedNothing(r) \/ BlReadStarved(r) \/ BlReadWaits(r)
               \/ \E b \in 1..(BlCap + 1) : BlReadTry(r, b) \/ BlReadDeliver(r, b)
        PROVE  BlInv'
    BY <1>2, BlReadGrantedInv, BlReadStarvedNothingInv, BlReadStarvedInv, BlReadWaitsInv,
       BlReadTryInv, BlReadDeliverInv
  <1>3. ASSUME NEW w \in BlWriters,
               \/ BlWriteTry(w) \/ BlWriteWaits(w) \/ BlWriteInner(w) \/ BlWriteFails(w) \/ BlWriteReport(w)
               \/ \E b \in 1..(BlCap + 1) : BlWriteCall(w, b)
        PROVE  BlInv'
    BY <1>3, BlWriteTryInv, BlWriteWaitsInv, BlWriteInnerInv, BlWriteFailsInv, BlWriteReportInv, BlWriteCallInv
  <1>4. CASE UNCHANGED blVars
    <2>1. /\ blTokens' = blTokens /\ blLag' = blLag /\ blRead' = blRead /\ blWrite' = blWrite
          /\ blOthers' = blOthers /\ blIdeal' = blIdeal
      BY <1>4 DEF blVars
    <2>2. BlTypeOK' /\ BlExact' /\ BlShape'
      BY <2>1 DEF BlInv, BlTypeOK, BlExact, BlShape
    <2>3. BlRefilled' = BlRefilled /\ \A s : BlOut(s)' = BlOut(s)
      BY <2>1 DEF BlRefilled, BlOut
    <2>4. BlBalance'
      BY <2>1, <2>3 DEF BlInv, BlBalance, BlAddsUp
    <2>5. QED
      BY <2>2, <2>4 DEF BlInv
  <1>5. QED
    BY <1>1, <1>2, <1>3, <1>4 DEF BlNext

\* However the streams of a tunnel share its limiter, no byte is lost or reported twice, and
\* the bytes that move never get further ahead of the configured rate than the burst and one
\* chunk for every stream.
THEOREM BlSpecSound == BlSpec => []BlSound
  <1>1. BlInv => BlSound
    <2> SUFFICES ASSUME BlInv PROVE BlMovesWithinLimit
      BY DEF BlInv, BlSound
    <2>1. PICK p : BlAddsUp(p) /\ BlRefilled + p[BlN] <= blIdeal + BlCap * BlN
      BY DEF BlInv, BlBalance
    <2>2. p[BlN] \in Int /\ 0 <= p[BlN] /\ BlRefilled \in Int /\ 0 <= BlRefilled
      BY <2>1, BlSumBound, BlRefilledType DEF BlInv
    <2>3. blIdeal \in Int /\ BlCap * BlN \in Int
      BY BlCapValue, BlOrdered DEF BlInv, BlTypeOK
    <2>4. blIdeal + BlCap * BlN >= 0
      <3>1. \A x, y, a, b \in Int : x + y <= a + b /\ 0 <= x /\ 0 <= y => a + b >= 0
        OBVIOUS
      <3>2. QED
        BY <2>1, <2>2, <2>3, <3>1, Zenon
    <2>5. QED
      BY <2>4 DEF BlMovesWithinLimit, BlN
  <1>2. QED
    BY <1>1, BlInitInv, BlNextInv, PTL DEF BlSpec

-----------------------------------------------------------------------------
(* The limiter implements the bucket of TokenBucket.                       *)

\* Nobody asks for nothing: a request of a reader, and the chunk a writer waits for, have
\* at least one byte.
BlAsks ==
    /\ \A r \in BlReaders : blRead[r].phase # "idle" => blRead[r].n > 0
    /\ \A w \in BlWriters : blWrite[w].phase = "wait" => blWrite[w].chunk > 0

\* A step that only touches reader r.
LEMMA BlAsksReader ==
    ASSUME BlInv, BlAsks, NEW r \in BlReaders, NEW phase, NEW n \in Int, NEW kept,
           BlReadIs(r, phase, n, kept), phase = "idle" \/ n > 0, blWrite' = blWrite
    PROVE  BlAsks'
  <1>1. blRead \in [BlReaders -> BlReads]
    BY DEF BlInv, BlTypeOK
  <1>2. /\ blRead'[r].phase = phase /\ blRead'[r].n = n
        /\ \A q \in BlReaders \ {r} : blRead'[q] = blRead[q]
    BY <1>1 DEF BlReadIs
  <1>3. QED
    BY <1>2 DEF BlAsks

\* A step that only touches writer w.
LEMMA BlAsksWriter ==
    ASSUME BlInv, BlAsks, NEW w \in BlWriters, NEW s, BlWriteIs(w, s),
           s.phase = "wait" => s.chunk > 0, blRead' = blRead
    PROVE  BlAsks'
  <1>1. blWrite \in [BlWriters -> BlWrites]
    BY DEF BlInv, BlTypeOK
  <1>2. blWrite'[w] = s /\ \A q \in BlWriters \ {w} : blWrite'[q] = blWrite[q]
    BY <1>1 DEF BlWriteIs
  <1>3. QED
    BY <1>2 DEF BlAsks

LEMMA BlAsksStep == BlInv /\ BlAsks /\ [BlNext]_blVars => BlAsks'
  <1> SUFFICES ASSUME BlInv, BlAsks, [BlNext]_blVars PROVE BlAsks'
    OBVIOUS
  <1>1. CASE BlTick \/ UNCHANGED blVars
    BY <1>1 DEF BlTick, blVars, BlAsks
  <1>2. ASSUME NEW r \in BlReaders, BlReadGranted(r) \/ BlReadStarvedNothing(r) PROVE BlAsks'
    BY <1>2, BlAsksReader DEF BlReadGranted, BlReadStarvedNothing
  <1>3. ASSUME NEW r \in BlReaders, BlReadStarved(r) PROVE BlAsks'
    <2>1. PICK n \in 1..blRead[r].n : BlReadIs(r, "idle", 0, 0) \/ BlReadIs(r, "wait", n, n)
      BY <1>3 DEF BlReadStarved
    <2>2. blWrite' = blWrite /\ n \in Int /\ n > 0
      BY <1>3, <2>1, BlReaderFacts DEF BlReadStarved
    <2>3. QED
      BY <2>1, <2>2, BlAsksReader
  <1>4. ASSUME NEW r \in BlReaders, BlReadWaits(r) PROVE BlAsks'
    <2>1. blRead[r].n \in Int /\ blRead[r].n > 0 /\ blWrite' = blWrite
      BY <1>4, BlReaderFacts DEF BlReadWaits, BlAsks
    <2>2. BlReadIs(r, "deliver", blRead[r].n, blRead[r].kept) \/ blRead' = blRead
      BY <1>4 DEF BlReadWaits
    <2>3. CASE blRead' = blRead
      BY <2>1, <2>3 DEF BlAsks
    <2>4. QED
      BY <2>1, <2>2, <2>3, BlAsksReader
  <1>5. ASSUME NEW r \in BlReaders, NEW b \in 1..(BlCap + 1), BlReadTry(r, b) PROVE BlAsks'
    <2> DEFINE want == BlMin(b, BlCap)
    <2>1. want \in Int /\ want > 0
      BY BlCapValue DEF BlMin
    <2>2. blWrite' = blWrite /\ (BlReadIs(r, "granted", want, 0) \/ BlReadIs(r, "starved", want, 0))
      BY <1>5 DEF BlReadTry
    <2> HIDE DEF want
    <2>3. QED
      BY <2>1, <2>2, BlAsksReader
  <1>6. ASSUME NEW r \in BlReaders, NEW b \in 1..(BlCap + 1), BlReadDeliver(r, b) PROVE BlAsks'
    <2> DEFINE n == BlMin(blRead[r].n, b)
               m == blRead[r].n - n
    <2>1. BlReadIs(r, IF n < blRead[r].n THEN "deliver" ELSE "idle", m, blRead[r].kept - n) /\ blWrite' = blWrite
      BY <1>6 DEF BlReadDeliver
    <2>2. m \in Int /\ (n < blRead[r].n => m > 0)
      BY BlReaderFacts, BlCapValue DEF BlMin
    <2> HIDE DEF m
    <2>3. QED
      BY <2>1, <2>2, BlAsksReader
  <1>7. ASSUME NEW w \in BlWriters, BlWriteTry(w) PROVE BlAsks'
    <2> DEFINE chunk == BlMin(blWrite[w].pending, BlCap)
               s(phase) == [blWrite[w] EXCEPT !.phase = phase, !.chunk = chunk, !.written = 0]
    <2>1. chunk > 0
      BY <1>7, BlWriterFacts, BlCapValue DEF BlMin, BlWriteTry
    <2>2. blRead' = blRead /\ (BlWriteIs(w, s("write")) \/ BlWriteIs(w, s("wait")))
      BY <1>7 DEF BlWriteTry
    <2> HIDE DEF chunk
    <2>3. s("write").chunk > 0 /\ s("wait").chunk > 0
      BY <2>1, BlWriterFacts DEF BlWrites
    <2> HIDE DEF s
    <2>4. QED
      BY <2>2, <2>3, BlAsksWriter
  <1>8. ASSUME NEW w \in BlWriters, BlWriteWaits(w) PROVE BlAsks'
    <2>1. blRead' = blRead /\ (BlWriteIs(w, [blWrite[w] EXCEPT !.phase = "write"]) \/ blWrite' = blWrite)
      BY <1>8 DEF BlWriteWaits
    <2>2. CASE blWrite' = blWrite
      BY <2>1, <2>2 DEF BlAsks
    <2> DEFINE s == [blWrite[w] EXCEPT !.phase = "write"]
    <2>3. s.phase = "write"
      BY BlWriterFacts DEF BlWrites
    <2> HIDE DEF s
    <2>4. QED
      BY <2>1, <2>2, <2>3, BlAsksWriter DEF s
  <1>9. ASSUME NEW w \in BlWriters, BlWriteInner(w) PROVE BlAsks'
    <2> DEFINE s == blWrite[w]
               t(n) == IF s.written + n < s.chunk
                       THEN [s EXCEPT !.written = s.written + n, !.ahead = s.ahead + n]
                       ELSE [s EXCEPT !.phase = "idle", !.chunk = 0, !.written = 0,
                                      !.pending = s.pending - s.chunk, !.ahead = s.ahead + n]
    <2>1. s.phase = "write" /\ blRead' = blRead /\ s \in BlWrites
      BY <1>9, BlWriterFacts DEF BlWriteInner
    <2>2. \E n \in 1..(s.chunk - s.written) : BlWriteIs(w, t(n))
      BY <1>9, Zenon DEF BlWriteInner
    <2>3. \A n : t(n).phase # "wait"
      BY <2>1 DEF BlWrites
    <2> HIDE DEF t
    <2>4. QED
      BY <2>1, <2>2, <2>3, BlAsksWriter
  <1>10. ASSUME NEW w \in BlWriters, BlWriteFails(w) \/ BlWriteReport(w) \/ \E b \in 1..(BlCap + 1) : BlWriteCall(w, b)
        PROVE  BlAsks'
    <2>1. blRead' = blRead
      BY <1>10, Zenon DEF BlWriteFails, BlWriteReport, BlWriteCall
    <2>2. blWrite'[w].phase # "wait" /\ \A q \in BlWriters \ {w} : blWrite'[q] = blWrite[q]
      <3>1. blWrite \in [BlWriters -> BlWrites]
        BY DEF BlInv, BlTypeOK
      <3>2. CASE BlWriteFails(w)
        BY <3>1, <3>2 DEF BlWriteFails, BlWriteIs, BlIdleWrite
      <3>3. CASE BlWriteReport(w)
        BY <3>1, <3>3 DEF BlWriteReport, BlWriteIs, BlWrites
      <3>4. ASSUME NEW b \in 1..(BlCap + 1), BlWriteCall(w, b)
            PROVE blWrite'[w].phase # "wait" /\ \A q \in BlWriters \ {w} : blWrite'[q] = blWrite[q]
        BY <3>1, <3>4 DEF BlWriteCall, BlWriteIs, BlWrites
      <3>5. QED
        BY <1>10, <3>2, <3>3, <3>4
    <2>3. QED
      BY <2>1, <2>2 DEF BlAsks
  <1>11. QED
    BY <1>1, <1>2, <1>3, <1>4, <1>5, <1>6, <1>7, <1>8, <1>9, <1>10 DEF BlNext

\* A reader's state after BlReadIs, in the terms of the bucket.
LEMMA BlLoansAfter ==
    ASSUME BlInv, NEW r \in BlReaders, NEW phase, NEW n, NEW kept, BlReadIs(r, phase, n, kept)
    PROVE  BlLoans' = [BlLoans EXCEPT ![r] = IF phase = "granted" THEN n ELSE 0]
  <1>1. blRead \in [BlReaders -> BlReads]
    BY DEF BlInv, BlTypeOK
  <1>2. /\ blRead'[r].phase = phase /\ blRead'[r].n = n
        /\ \A q \in BlReaders \ {r} : blRead'[q] = blRead[q]
    BY <1>1 DEF BlReadIs
  <1>3. QED
    BY <1>2 DEF BlLoans

\* What is given back is added to the bucket, up to its size.
LEMMA BlReturnFills ==
    ASSUME BlTypeOK, NEW n \in Nat, BlReturn(n)
    PROVE  BlRefilled' = BlBucket!Refill(n)
  <1>1. BlRefilled \in Int /\ 0 <= BlRefilled /\ BlRefilled <= BlBurst /\ BlBurst \in Nat
    BY BlRefilledType, BlCapValue
  <1>2. BlRefilled' = BlMin(blTokens' + blLag', BlBurst)
    BY DEF BlRefilled
  <1>3. CASE n = 0
    <2>1. BlRefilled' = BlRefilled
      BY <1>3 DEF BlReturn, BlRefilled
    <2>2. QED
      BY <1>1, <1>3, <2>1 DEF BlBucket!Refill
  <1>4. CASE n # 0
    <2>1. blTokens' = BlMin(BlRefilled + n, BlBurst) /\ blLag' = 0
      BY <1>4 DEF BlReturn
    <2>2. QED
      BY <1>1, <1>2, <2>1 DEF BlMin, BlBucket!Refill
  <1>5. QED
    BY <1>3, <1>4

\* A unit of time fills the bucket by a token, whenever the limiter looks at the clock.
LEMMA BlTickFills ==
    ASSUME BlTypeOK, BlTick
    PROVE  BlBucket!Tick
  <1>1. blTokens \in Int /\ 0 <= blTokens /\ blLag \in Int /\ 0 <= blLag /\ BlBurst \in Nat
    BY BlCapValue DEF BlTypeOK
  <1>2. blTokens' = blTokens /\ blLag' = BlMin(blLag + 1, BlBurst) /\ blRead' = blRead
    BY DEF BlTick
  <1>3. BlRefilled' = BlMin(blTokens' + blLag', BlBurst) /\ BlRefilled = BlMin(blTokens + blLag, BlBurst)
    BY DEF BlRefilled
  <1>4. BlRefilled' = IF BlRefilled + 1 < BlBurst THEN BlRefilled + 1 ELSE BlBurst
    BY <1>1, <1>2, <1>3 DEF BlMin
  <1>5. BlLoans' = BlLoans
    BY <1>2 DEF BlLoans
  <1>6. QED
    BY <1>4, <1>5 DEF BlBucket!Tick, BlBucket!Refill

\* A debit of the limiter is one of the bucket.
LEMMA BlTakeSpends ==
    ASSUME BlTypeOK, NEW s \in BlStreams, NEW n \in 1..BlCap, BlTake(s, n)
    PROVE  n \in 1..BlBurst /\ BlRefilled >= n /\ BlRefilled' = BlRefilled - n
  BY BlTakeEffect, BlCapValue DEF BlTake

\* Every step of the limiter and its streams is a step of the bucket, or none.
LEMMA BlStepIsBucketStep ==
    ASSUME BlInv, BlAsks, [BlNext]_blVars
    PROVE  [BlBucket!Step]_<<BlRefilled, BlLoans>>
  <1> DEFINE Same == BlRefilled' = BlRefilled /\ BlLoans' = BlLoans
             Spent == BlBucket!Spend
  <1> USE BlCapValue
  <1>1. BlTypeOK
    BY DEF BlInv
  <1>2. CASE BlTick
    BY <1>1, <1>2, BlTickFills DEF BlBucket!Step
  <1>3. ASSUME UNCHANGED <<blTokens, blLag>> PROVE BlRefilled' = BlRefilled
    BY <1>3 DEF BlRefilled
  <1>4. ASSUME blRead' = blRead PROVE BlLoans' = BlLoans
    BY <1>4 DEF BlLoans
  <1>5. ASSUME NEW r \in BlReaders, NEW phase, phase # "granted", NEW n, NEW kept, BlReadIs(r, phase, n, kept),
               blRead[r].phase # "granted"
        PROVE  BlLoans' = BlLoans
    <2>1. BlLoans[r] = 0 /\ BlLoans = [q \in BlReaders |-> BlLoans[q]]
      BY <1>5 DEF BlLoans
    <2>2. QED
      BY <1>5, <2>1, BlLoansAfter
  <1>6. ASSUME NEW s \in BlStreams, NEW n \in 1..BlCap, BlTake(s, n), BlLoans' = BlLoans PROVE Spent
    BY <1>1, <1>6, BlTakeSpends DEF BlBucket!Spend
  <1>7. ASSUME NEW s \in BlStreams, NEW n \in 1..BlCap, BlTooFew(s, n) PROVE BlRefilled' = BlRefilled
    BY <1>1, <1>7, BlTooFewEffect
  <1>8. ASSUME NEW r \in BlReaders, BlReadGranted(r) PROVE BlBucket!Settle(r)
    <2>1. PICK n \in 0..blRead[r].n : BlReturn(blRead[r].n - n)
      BY <1>8 DEF BlReadGranted
    <2>2. blRead[r].phase = "granted" /\ BlReadIs(r, "idle", 0, 0)
      BY <1>8 DEF BlReadGranted
    <2>3. BlLoans[r] = blRead[r].n /\ blRead[r].n \in Nat /\ blRead[r].n > 0
      BY <2>2, BlReaderFacts DEF BlLoans, BlAsks
    <2>4. blRead[r].n - n \in 0..BlLoans[r] /\ blRead[r].n - n \in Nat
      BY <2>1, <2>3
    <2>5. BlRefilled' = BlBucket!Refill(blRead[r].n - n)
      BY <1>1, <2>1, <2>4, BlReturnFills
    <2>6. BlLoans' = [BlLoans EXCEPT ![r] = 0]
      BY <2>2, BlLoansAfter
    <2>7. QED
      BY <2>3, <2>4, <2>5, <2>6 DEF BlBucket!Settle
  <1>9. ASSUME NEW r \in BlReaders, BlReadStarvedNothing(r) PROVE Same
    <2>1. UNCHANGED <<blTokens, blLag>> /\ blRead[r].phase = "starved" /\ BlReadIs(r, "idle", 0, 0)
      BY <1>9 DEF BlReadStarvedNothing
    <2>2. QED
      BY <1>3, <1>5, <2>1
  <1>10. ASSUME NEW r \in BlReaders, BlReadStarved(r) PROVE Spent \/ Same
    <2>1. PICK n \in 1..blRead[r].n : \/ BlTake(r, n) /\ BlReadIs(r, "idle", 0, 0)
                                      \/ BlTooFew(r, n) /\ BlReadIs(r, "wait", n, n)
      BY <1>10 DEF BlReadStarved
    <2>2. blRead[r].phase = "starved" /\ n \in 1..BlCap /\ r \in BlStreams
      BY <1>10, <2>1, BlReaderFacts DEF BlReadStarved
    <2>3. BlLoans' = BlLoans
      BY <1>5, <2>1, <2>2
    <2>4. QED
      BY <1>6, <1>7, <2>1, <2>2, <2>3
  <1>11. ASSUME NEW r \in BlReaders, BlReadWaits(r) PROVE Spent \/ Same
    <2>1. blRead[r].phase = "wait" /\ blRead[r].n \in 1..BlCap /\ r \in BlStreams
      BY <1>11, BlReaderFacts DEF BlReadWaits, BlAsks
    <2>2. \/ BlTake(r, blRead[r].n) /\ BlReadIs(r, "deliver", blRead[r].n, blRead[r].kept)
          \/ BlTooFew(r, blRead[r].n) /\ blRead' = blRead
      BY <1>11 DEF BlReadWaits
    <2>3. BlLoans' = BlLoans
      BY <1>4, <1>5, <2>1, <2>2
    <2>4. QED
      BY <1>6, <1>7, <2>1, <2>2, <2>3
  <1>12. ASSUME NEW r \in BlReaders, NEW b \in 1..(BlCap + 1), BlReadTry(r, b)
         PROVE  BlBucket!Borrow(r) \/ Same
    <2> DEFINE want == BlMin(b, BlCap)
    <2>1. want \in 1..BlCap /\ r \in BlStreams
      BY BlReaderFacts DEF BlMin
    <2>2. /\ blRead[r].phase = "idle"
          /\ \/ BlTake(r, want) /\ BlReadIs(r, "granted", want, 0)
             \/ BlTooFew(r, want) /\ BlReadIs(r, "starved", want, 0)
      BY <1>12 DEF BlReadTry
    <2> HIDE DEF want
    <2>3. CASE BlTake(r, want) /\ BlReadIs(r, "granted", want, 0)
      <3>1. BlLoans[r] = 0
        BY <2>2 DEF BlLoans
      <3>2. BlLoans' = [BlLoans EXCEPT ![r] = want]
        BY <2>3, BlLoansAfter
      <3>3. QED
        BY <1>1, <2>1, <2>3, <3>1, <3>2, BlTakeSpends DEF BlBucket!Borrow
    <2>4. CASE BlTooFew(r, want) /\ BlReadIs(r, "starved", want, 0)
      BY <1>5, <1>7, <2>1, <2>2, <2>4
    <2>5. QED
      BY <2>2, <2>3, <2>4
  <1>13. ASSUME NEW r \in BlReaders, NEW b \in 1..(BlCap + 1), BlReadDeliver(r, b) PROVE Same
    <2> DEFINE n == BlMin(blRead[r].n, b)
               phase == IF n < blRead[r].n THEN "deliver" ELSE "idle"
    <2>1. /\ UNCHANGED <<blTokens, blLag>> /\ blRead[r].phase = "deliver"
          /\ BlReadIs(r, phase, blRead[r].n - n, blRead[r].kept - n)
      BY <1>13 DEF BlReadDeliver
    <2>2. phase # "granted"
      OBVIOUS
    <2> HIDE DEF phase, n
    <2>3. QED
      BY <1>3, <1>5, <2>1, <2>2
  <1>14. ASSUME NEW w \in BlWriters, BlWriteTry(w) PROVE Spent \/ Same
    <2> DEFINE chunk == BlMin(blWrite[w].pending, BlCap)
    <2>1. chunk \in 1..BlCap /\ w \in BlStreams
      BY <1>14, BlWriterFacts DEF BlMin, BlWriteTry
    <2>2. blRead' = blRead /\ (BlTake(w, chunk) \/ BlTooFew(w, chunk))
      BY <1>14 DEF BlWriteTry
    <2> HIDE DEF chunk
    <2>3. QED
      BY <1>4, <1>6, <1>7, <2>1, <2>2
  <1>15. ASSUME NEW w \in BlWriters, BlWriteWaits(w) PROVE Spent \/ Same
    <2>1. blWrite[w].chunk \in 1..BlCap /\ w \in BlStreams
      BY <1>15, BlWriterFacts DEF BlWriteWaits, BlAsks
    <2>2. blRead' = blRead /\ (BlTake(w, blWrite[w].chunk) \/ BlTooFew(w, blWrite[w].chunk))
      BY <1>15 DEF BlWriteWaits
    <2>3. QED
      BY <1>4, <1>6, <1>7, <2>1, <2>2
  <1>16. ASSUME NEW w \in BlWriters,
                \/ BlWriteInner(w) \/ BlWriteFails(w) \/ BlWriteReport(w)
                \/ \E b \in 1..(BlCap + 1) : BlWriteCall(w, b)
         PROVE  Same
    <2>1. UNCHANGED <<blTokens, blLag, blRead>>
      BY <1>16, Zenon DEF BlWriteInner, BlWriteFails, BlWriteReport, BlWriteCall
    <2>2. QED
      BY <1>3, <1>4, <2>1
  <1>17. CASE UNCHANGED blVars
    BY <1>3, <1>4, <1>17 DEF blVars
  <1>18. Same => UNCHANGED <<BlRefilled, BlLoans>>
    OBVIOUS
  <1> HIDE DEF Same, Spent
  <1>19. QED
    <2>1. ASSUME NEW r \in BlReaders,
                 \/ BlReadGranted(r) \/ BlReadStarvedNothing(r) \/ BlReadStarved(r) \/ BlReadWaits(r)
                 \/ \E b \in 1..(BlCap + 1) : BlReadTry(r, b) \/ BlReadDeliver(r, b)
          PROVE  \/ Spent \/ Same
                 \/ \E u \in BlReaders : BlBucket!Borrow(u) \/ BlBucket!Settle(u)
      BY <1>8, <1>9, <1>10, <1>11, <1>12, <1>13, <2>1
    <2>2. ASSUME NEW w \in BlWriters,
                 \/ BlWriteTry(w) \/ BlWriteWaits(w) \/ BlWriteInner(w) \/ BlWriteFails(w) \/ BlWriteReport(w)
                 \/ \E b \in 1..(BlCap + 1) : BlWriteCall(w, b)
          PROVE  Spent \/ Same
      BY <1>14, <1>15, <1>16, <2>2
    <2>3. \/ BlTick \/ Spent \/ Same \/ UNCHANGED blVars
          \/ \E u \in BlReaders : BlBucket!Borrow(u) \/ BlBucket!Settle(u)
      BY <2>1, <2>2 DEF BlNext
    <2>4. Spent => BlBucket!Step
      BY DEF Spent, BlBucket!Step
    <2>5. (\E u \in BlReaders : BlBucket!Borrow(u) \/ BlBucket!Settle(u)) => BlBucket!Step
      BY DEF BlBucket!Step
    <2>6. QED
      BY <1>2, <1>17, <1>18, <2>3, <2>4, <2>5

\* For any burst, any chunk size and any streams, the limiter that only looks at the clock
\* when it is used is the bucket that fills all the time: whatever the streams take, wait
\* for and give back, no stretch of time sees more tokens used than the bucket allows.
THEOREM BlImplementsBucket == BlSpec => BlIsBucket
  <1>1. BlInit => BlAsks
    BY DEF BlInit, BlAsks, BlIdleRead, BlIdleWrite
  <1>2. BlInit => BlBucket!Start
    BY BlCapValue DEF BlInit, BlBucket!Start, BlRefilled, BlMin, BlLoans, BlIdleRead
  <1>3. BlInv /\ BlAsks /\ [BlNext]_blVars => [BlBucket!Step]_<<BlRefilled, BlLoans>>
    BY BlStepIsBucketStep
  <1>4. QED
    BY <1>1, <1>2, <1>3, BlInitInv, BlNextInv, BlAsksStep, PTL DEF BlSpec, BlIsBucket, BlBucket!Spec
==============================================================================
