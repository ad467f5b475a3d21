------------------------------ MODULE Limiter ------------------------------
(***************************************************************************)
(* A bandwidth limiter and the streams that share it.                      *)
(*                                                                         *)
(* The limiter does not tick: it keeps the tokens it had when it was last  *)
(* used and adds what the time since then is worth.  One unit of time is   *)
(* the time of one token, and rate and burst are one number.  All the      *)
(* connections of a tunnel share the limiter; each step below is one visit *)
(* to it, so the streams interleave between asking for tokens, reading or  *)
(* writing, and giving back what was not used.                             *)
(***************************************************************************)
EXTENDS Integers, FiniteSets

CONSTANTS
    BlBurst,     \* bytes per second
    BlMaxChunk,  \* MAX_IO_CHUNK
    BlReaders,   \* streams that are read
    BlWriters    \* streams that are written

ASSUME BlAssumptions ==
    /\ BlBurst \in Nat \ {0} /\ BlMaxChunk \in Nat \ {0}
    /\ BlReaders \cap BlWriters = {} /\ IsFiniteSet(BlReaders \cup BlWriters)

BlStreams == BlReaders \cup BlWriters

VARIABLES
    blTokens,   \* State.tokens
    blLag,      \* the time since State.last, cut off at what fills the bucket
    blRead,     \* per reader: ReadPhase, the tokens or bytes it is about, and what the
                \* inner stream gave that its user has not got (history)
    blWrite,    \* per writer: WritePhase, chunk, written, write_pending, write_report, and
                \* what the inner stream got that its user was not told (history)
    blOthers,   \* waiters that lost tokens to another stream since they wait (history)
    blIdeal     \* a bucket that pays when bytes move (history)

blVars == <<blTokens, blLag, blRead, blWrite, blOthers, blIdeal>>

BlMin(a, b) == IF a < b THEN a ELSE b

\* io_chunk_cap
BlCap == BlMin(BlBurst, BlMaxChunk)

BlIdleRead == [phase |-> "idle", n |-> 0, kept |-> 0]
BlIdleWrite == [phase |-> "idle", chunk |-> 0, written |-> 0, pending |-> 0, report |-> 0, ahead |-> 0]

BlInit ==
    /\ blTokens = BlBurst /\ blLag = 0
    /\ blRead = [r \in BlReaders |-> BlIdleRead]
    /\ blWrite = [w \in BlWriters |-> BlIdleWrite]
    /\ blOthers = {}
    /\ blIdeal = BlBurst

-----------------------------------------------------------------------------
(* The limiter.                                                            *)

\* State::refill
BlRefilled == BlMin(blTokens + blLag, BlBurst)

BlWaiting == {r \in BlReaders : blRead[r].phase = "wait"} \cup {w \in BlWriters : blWrite[w].phase = "wait"}

\* MUTANT: the debit forgets the time that passed.
BlTakeKeepsLast(s, n) ==
    /\ BlRefilled >= n
    /\ blTokens' = BlRefilled - n /\ UNCHANGED blLag
    /\ blOthers' = (blOthers \cup BlWaiting) \ {s}

\* try_wait_n, and one round of wait_n, when there are enough tokens.
BlTake(s, n) ==
    /\ BlRefilled >= n
    /\ blTokens' = BlRefilled - n /\ blLag' = 0
    /\ blOthers' = (blOthers \cup BlWaiting) \ {s}

\* The same when there are not.
BlTooFew(s, n) ==
    /\ BlRefilled < n
    /\ blTokens' = BlRefilled /\ blLag' = 0
    /\ UNCHANGED blOthers

\* return_n
BlReturn(n) ==
    IF n = 0 THEN UNCHANGED <<blTokens, blLag>>
    ELSE blTokens' = BlMin(BlRefilled + n, BlBurst) /\ blLag' = 0

\* Time passes.
BlTick ==
    /\ blLag' = BlMin(blLag + 1, BlBurst)
    /\ blIdeal' = BlMin(blIdeal + 1, BlBurst)
    /\ UNCHANGED <<blTokens, blRead, blWrite, blOthers>>

-----------------------------------------------------------------------------
(* poll_read, with room for b bytes.                                       *)

BlReadIs(r, phase, n, kept) == blRead' = [blRead EXCEPT ![r] = [phase |-> phase, n |-> n, kept |-> kept]]

BlReadTry(r, b) ==
    /\ blRead[r].phase = "idle"
    /\ LET want == BlMin(b, BlCap)
       IN  \/ BlTake(r, want) /\ BlReadIs(r, "granted", want, 0)
           \/ BlTooFew(r, want) /\ BlReadIs(r, "starved", want, 0)
    /\ UNCHANGED <<blWrite, blIdeal>>

\* MUTANT: all the tokens come back, however many bytes were read.
BlReadGrantedReturnsAll(r) ==
    /\ blRead[r].phase = "granted"
    /\ \E n \in 0..blRead[r].n : blIdeal' = blIdeal - n
    /\ BlReturn(blRead[r].n)
    /\ BlReadIs(r, "idle", 0, 0)
    /\ UNCHANGED <<blWrite, blOthers>>

\* The inner stream gives n bytes; none also when it is pending, at its end or broken.
BlReadGranted(r) ==
    /\ blRead[r].phase = "granted"
    /\ \E n \in 0..blRead[r].n : BlReturn(blRead[r].n - n) /\ blIdeal' = blIdeal - n
    /\ BlReadIs(r, "idle", 0, 0)
    /\ UNCHANGED <<blWrite, blOthers>>

\* Without tokens the inner stream is read into a buffer of its own.
BlReadStarvedNothing(r) ==
    /\ blRead[r].phase = "starved"
    /\ BlReadIs(r, "idle", 0, 0)
    /\ UNCHANGED <<blTokens, blLag, blWrite, blOthers, blIdeal>>

BlReadStarved(r) ==
    /\ blRead[r].phase = "starved"
    /\ \E n \in 1..blRead[r].n :
           \/ BlTake(r, n) /\ BlReadIs(r, "idle", 0, 0) /\ blIdeal' = blIdeal - n
           \/ BlTooFew(r, n) /\ BlReadIs(r, "wait", n, n) /\ UNCHANGED blIdeal
    /\ UNCHANGED blWrite

\* A round of wait_n; it sleeps between them for the time that the missing tokens take.
BlReadWaits(r) ==
    /\ blRead[r].phase = "wait"
    /\ \/ BlTake(r, blRead[r].n) /\ BlReadIs(r, "deliver", blRead[r].n, blRead[r].kept)
       \/ BlTooFew(r, blRead[r].n) /\ UNCHANGED blRead
    /\ UNCHANGED <<blWrite, blIdeal>>

BlReadDeliver(r, b) ==
    /\ blRead[r].phase = "deliver"
    /\ LET n == BlMin(blRead[r].n, b)
       IN  /\ BlReadIs(r, IF n < blRead[r].n THEN "deliver" ELSE "idle", blRead[r].n - n,
                       blRead[r].kept - n)
           /\ blIdeal' = blIdeal - n
    /\ UNCHANGED <<blTokens, blLag, blWrite, blOthers>>

-----------------------------------------------------------------------------
(* poll_write.  A user whose write is pending calls again with the same    *)
(* bytes in front.                                                         *)

BlWriteIs(w, s) == blWrite' = [blWrite EXCEPT ![w] = s]

BlWriteCall(w, b) ==
    /\ blWrite[w].phase = "idle" /\ blWrite[w].pending = 0 /\ blWrite[w].report = 0
    /\ LET take == BlMin(b, BlCap)
       IN  BlWriteIs(w, [blWrite[w] EXCEPT !.pending = take, !.report = take])
    /\ UNCHANGED <<blTokens, blLag, blRead, blOthers, blIdeal>>

BlWriteTry(w) ==
    /\ blWrite[w].phase = "idle" /\ blWrite[w].pending > 0
    /\ LET chunk == BlMin(blWrite[w].pending, BlCap)
           to(phase) == BlWriteIs(w, [blWrite[w] EXCEPT !.phase = phase, !.chunk = chunk, !.written = 0])
       IN  \/ BlTake(w, chunk) /\ to("write")
           \/ BlTooFew(w, chunk) /\ to("wait")
    /\ UNCHANGED <<blRead, blIdeal>>

BlWriteWaits(w) ==
    /\ blWrite[w].phase = "wait"
    /\ \/ BlTake(w, blWrite[w].chunk) /\ BlWriteIs(w, [blWrite[w] EXCEPT !.phase = "write"])
       \/ BlTooFew(w, blWrite[w].chunk) /\ UNCHANGED blWrite
    /\ UNCHANGED <<blRead, blIdeal>>

\* The inner stream takes n bytes of the chunk; the chunk leaves write_pending as a whole.
BlWriteInner(w) ==
    LET s == blWrite[w]
    IN  /\ s.phase = "write"
        /\ \E n \in 1..(s.chunk - s.written) :
               /\ BlWriteIs(w, IF s.written + n < s.chunk
                               THEN [s EXCEPT !.written = s.written + n, !.ahead = s.ahead + n]
                               ELSE [s EXCEPT !.phase = "idle", !.chunk = 0, !.written = 0,
                                              !.pending = s.pending - s.chunk, !.ahead = s.ahead + n])
               /\ blIdeal' = blIdeal - n
        /\ UNCHANGED <<blTokens, blLag, blRead, blOthers>>

\* It fails, or takes nothing: the stream is of no use any more.
BlWriteFails(w) ==
    /\ blWrite[w].phase = "write"
    /\ BlWriteIs(w, [BlIdleWrite EXCEPT !.phase = "failed"])
    /\ UNCHANGED <<blTokens, blLag, blRead, blOthers, blIdeal>>

\* The user is told write_report.
BlWriteReport(w) ==
    /\ blWrite[w].phase = "idle" /\ blWrite[w].pending = 0 /\ blWrite[w].report > 0
    /\ BlWriteIs(w, [blWrite[w] EXCEPT !.report = 0, !.ahead = @ - blWrite[w].report])
    /\ UNCHANGED <<blTokens, blLag, blRead, blOthers, blIdeal>>

BlNext ==
    \/ BlTick
    \/ \E r \in BlReaders : \/ BlReadGranted(r) \/ BlReadStarvedNothing(r) \/ BlReadStarved(r)
                            \/ BlReadWaits(r)
                            \/ \E b \in 1..(BlCap + 1) : BlReadTry(r, b) \/ BlReadDeliver(r, b)
    \/ \E w \in BlWriters : \/ BlWriteTry(w) \/ BlWriteWaits(w) \/ BlWriteInner(w)
                            \/ BlWriteFails(w) \/ BlWriteReport(w)
                            \/ \E b \in 1..(BlCap + 1) : BlWriteCall(w, b)

\* Time passes and sleeps end.
BlFairness ==
    /\ WF_blVars(BlTick)
    /\ \A r \in BlReaders : WF_blVars(BlReadWaits(r))
    /\ \A w \in BlWriters : WF_blVars(BlWriteWaits(w))

BlSpec == BlInit /\ [][BlNext]_blVars /\ BlFairness

-----------------------------------------------------------------------------
BlReads == [phase : {"idle", "granted", "starved", "wait", "deliver"}, n : 0..BlCap, kept : 0..BlCap]
BlWrites == [phase : {"idle", "wait", "write", "failed"}, chunk : 0..BlCap, written : 0..BlCap,
             pending : 0..BlCap, report : 0..BlCap, ahead : Int]

\* The types of the variables.
BlTypeOK ==
    /\ blTokens \in 0..BlBurst /\ blLag \in 0..BlBurst
    /\ blRead \in [BlReaders -> BlReads]
    /\ blWrite \in [BlWriters -> BlWrites]
    /\ blOthers \subseteq BlStreams
    /\ blIdeal \in Int

\* The tokens that each reader was granted and may still give back.
BlLoans == [r \in BlReaders |-> IF blRead[r].phase = "granted" THEN blRead[r].n ELSE 0]
BlBucket == INSTANCE TokenBucket
                WITH Burst <- BlBurst, Borrowers <- BlReaders, level <- BlRefilled, loan <- BlLoans

\* The limiter, which only looks at the clock when it is used, is a bucket that fills all
\* the time: however its users take, fail and give back, it gives out what the abstract
\* bucket would.
BlIsBucket == BlBucket!Spec

\* Bytes that move keep to the limit as well, up to what the streams had been granted and
\* not yet moved: in no stretch of t units do more than burst + t and one chunk of every
\* stream pass.
BlMovesWithinLimit == blIdeal + BlCap * Cardinality(BlStreams) >= 0

\* Nothing is lost, repeated or reported too early: a reader's user has all the inner
\* stream gave but the bytes that wait, and a writer's user is told of exactly what the
\* inner stream took.
BlExact ==
    /\ \A r \in BlReaders :
           blRead[r].kept = IF blRead[r].phase \in {"wait", "deliver"} THEN blRead[r].n ELSE 0
    /\ \A w \in BlWriters :
           blWrite[w].ahead = blWrite[w].report - blWrite[w].pending + blWrite[w].written

\* A stream that waits for tokens gets them, unless others take some meanwhile: waiters
\* have no turn of their own.
BlServed == \A s \in BlStreams : (s \in BlWaiting) ~> (s \notin BlWaiting \/ s \in blOthers)

\* Bytes are neither lost nor moved beyond the limit.
BlSound == BlTypeOK /\ BlMovesWithinLimit /\ BlExact
=============================================================================
