----------------------------- MODULE ReplayCache -----------------------------
(***************************************************************************)
(* The check of a login with a token: its digest covers the token and a    *)
(* timestamp in seconds, the timestamp must be within the skew of the wall *)
(* clock of the server, and a digest is refused for RpTtl seconds after it *)
(* was accepted.                                                           *)
(*                                                                         *)
(* Time runs in half seconds: the wall clock is read in whole seconds and  *)
(* may be set, entries expire by the monotonic clock.  A digest is its     *)
(* timestamp, as the digests of one token differ in nothing else.          *)
(***************************************************************************)
EXTENDS Integers, FiniteSets

CONSTANTS
    RpSkew,         \* AUTH_SKEW_SECS
    RpMaxEntries,   \* REPLAY_MAX_ENTRIES
    RpStamps,       \* timestamps a login may carry
    RpFirst,        \* the wall clock at the start, in half seconds
    RpLast          \* bound: half seconds of the monotonic clock

ASSUME RpAssumption == RpSkew \in Nat /\ RpMaxEntries \in Nat \ {0} /\ RpStamps \subseteq Int
                       /\ RpFirst \in Int /\ RpLast \in Nat

VARIABLES
    rpNow,          \* the monotonic clock
    rpWall,         \* the wall clock
    rpMap,          \* ReplayCache::inner: a set of digest and expiry
    rpUsed,         \* every acceptance: digest, monotonic time, wall clock in seconds
    rpBack,         \* the wall clock was set back
    rpAnswer        \* the last login and its answer

rpVars == <<rpNow, rpWall, rpMap, rpUsed, rpBack, rpAnswer>>

RpNoLogin == [stamp |-> 0, answer |-> "none"]

RpInit ==
    /\ rpNow = 0 /\ rpWall = RpFirst /\ rpMap = {} /\ rpUsed = {} /\ rpBack = FALSE
    /\ rpAnswer = RpNoLogin

\* MUTANT: an entry is kept for the skew on one side only.
RpTtlOneSide == 2 * RpSkew

\* REPLAY_TTL_SECS, in half seconds, and unix_now_secs.
RpTtl == 2 * (2 * RpSkew)
RpSecs(w) == w \div 2

RpWithinSkew(ts) == RpSecs(rpWall) - ts \in (-RpSkew)..RpSkew

\* purge_expired.
RpPurged == {e \in rpMap : e.exp > rpNow}

RpFull == Cardinality(RpPurged) >= RpMaxEntries

\* verify_auth_digest with the cache: the checks in their order.  A digest that does
\* not verify changes nothing, and one that does is purged for, looked up and inserted.
RpVerify(ts) ==
    /\ LET known == \E e \in RpPurged : e.stamp = ts
           answer == IF ~RpWithinSkew(ts) THEN "skew"
                     ELSE IF known THEN "replay" ELSE IF RpFull THEN "full" ELSE "ok"
       IN  /\ rpAnswer' = [stamp |-> ts, answer |-> answer]
           /\ rpMap' = CASE answer = "skew" -> rpMap
                         [] answer = "ok" -> RpPurged \cup {[stamp |-> ts, exp |-> rpNow + RpTtl]}
                         [] OTHER -> RpPurged
           /\ rpUsed' = IF answer # "ok" THEN rpUsed
                        ELSE rpUsed \cup {[stamp |-> ts, at |-> rpNow, sec |-> RpSecs(rpWall)]}
    /\ UNCHANGED <<rpNow, rpWall, rpBack>>

RpVerifyFails(ts) ==
    /\ rpAnswer' = [stamp |-> ts, answer |-> IF RpWithinSkew(ts) THEN "invalid" ELSE "skew"]
    /\ UNCHANGED <<rpNow, rpWall, rpMap, rpUsed, rpBack>>

RpTick ==
    /\ rpNow < RpLast /\ rpNow' = rpNow + 1 /\ rpWall' = rpWall + 1 /\ rpAnswer' = RpNoLogin
    /\ UNCHANGED <<rpMap, rpUsed, rpBack>>

\* The wall clock is set, by one second either way; once back is enough to tell.
RpSetClock(d) ==
    /\ ~rpBack /\ rpWall' = rpWall + 2 * d /\ rpBack' = (d < 0) /\ rpAnswer' = RpNoLogin
    /\ RpSecs(rpWall') <= RpSecs(RpFirst + RpLast)
    /\ UNCHANGED <<rpNow, rpMap, rpUsed>>

RpNext ==
    \/ \E ts \in RpStamps : RpVerify(ts) \/ RpVerifyFails(ts)
    \/ RpTick \/ \E d \in {-1, 1} : RpSetClock(d)

RpSpec == RpInit /\ [][RpNext]_rpVars

-----------------------------------------------------------------------------
(* Properties.                                                             *)

\* The types of the variables.
RpTypeOK ==
    /\ rpNow \in 0..RpLast /\ rpWall \in Int /\ rpBack \in BOOLEAN
    /\ Cardinality(rpMap) <= RpMaxEntries
    /\ \A e \in rpMap : e.stamp \in RpStamps /\ e.exp \in 0..(RpLast + RpTtl)
    /\ rpAnswer.answer \in {"none", "ok", "skew", "replay", "full", "invalid"}

\* A digest is accepted twice only at the very edge: the first time by a clock that is
\* the whole skew behind its timestamp, the second time by one that is the whole skew
\* ahead of it, when the entry of the first has just expired; or after the wall clock
\* was set back.
RpReplayHasCause ==
    \A a, b \in rpUsed :
       a.stamp = b.stamp /\ a.at < b.at /\ ~rpBack
       => a.stamp - a.sec = RpSkew /\ b.sec - b.stamp = RpSkew

\* A login is refused as a replay only if its digest was accepted within the time an
\* entry lives, and for a full cache only if that many logins were: an expired entry
\* stands in nobody's way, although only a login purges it.
RpRefusalHasCause ==
    LET recent == {a \in rpUsed : rpNow - a.at < RpTtl}
    IN  /\ rpAnswer.answer = "replay" => \E a \in recent : a.stamp = rpAnswer.stamp
        /\ rpAnswer.answer = "full" => Cardinality(recent) >= RpMaxEntries

\* The cache refuses what it must, and nothing it need not.
RpSound == RpTypeOK /\ RpReplayHasCause /\ RpRefusalHasCause
=============================================================================
