-------------------------- MODULE DataConnsProofs --------------------------
(***************************************************************************)
(* Proofs about DataConns: writer and reader of the control stream agree   *)
(* on the boundaries of messages unless a future is dropped in the middle  *)
(* of one, and the pool accounts for its connections.                      *)
(***************************************************************************)
EXTENDS DataConns, FiniteSetTheorems, TLAPS

\* TypeOK without what the argument does not need, WholeMessages and the part the
\* writer's lock plays.
StreamTypes ==
    /\ writer \in Users \cup {"run", "bg", "none"}
    /\ wire \in Seq({"head", "body"})
    /\ user \in [Users -> {"idle", "ask", "asking", "wait", "refill", "joined", "done", "failed"}]
    /\ reader \in {"head", "body", "lost"}
    /\ damage \subseteq {"written", "read", "conn"}

\* A user is writing exactly when it holds the writer's lock.
WriterAsks == \A u \in Users : writer = u <=> user[u] = "asking"

StreamInv == StreamTypes /\ WriterAsks /\ WholeMessages

\* A message begins: with the lock free, the stream ends with a whole message.
LEMMA HeadAligned ==
    ASSUME Aligned, wire \in Seq({"head", "body"}), reader \in {"head", "body", "lost"},
           NEW w, w # "none", WriteHead(w), reader' = reader, up' = up
    PROVE  Aligned' /\ wire' \in Seq({"head", "body"})
<1>1. /\ wire' = Append(wire, "head") /\ wire' \in Seq({"head", "body"})
      /\ writer = "none" /\ writer' = w /\ Len(wire') = Len(wire) + 1 /\ wire' # <<>>
  BY DEF WriteHead
<1>2. wire'[1] = reader'
  BY <1>1 DEF Aligned
<1>3. ASSUME NEW i \in 1..(Len(wire') - 1) PROVE wire'[i + 1] = Other(wire'[i])
  <2>1. CASE i < Len(wire)
    BY <1>1, <2>1 DEF Aligned
  <2>2. CASE i = Len(wire)
    <3>1. wire # <<>> /\ wire[Len(wire)] = "body" /\ wire'[i] = wire[i] /\ wire'[i + 1] = "head"
      BY <1>1, <2>2 DEF Aligned
    <3>2. QED
      BY <3>1, <2>2 DEF Other
  <2>3. QED
    BY <1>1, <2>1, <2>2
<1>4. wire'[Len(wire')] = "head"
  BY <1>1
<1>5. QED
  BY <1>1, <1>2, <1>3, <1>4 DEF Aligned

\* The message that holds the lock ends.
LEMMA BodyAligned ==
    ASSUME Aligned, wire \in Seq({"head", "body"}), reader \in {"head", "body", "lost"},
           NEW w, w # "none", WriteBody(w), reader' = reader, up' = up
    PROVE  Aligned' /\ wire' \in Seq({"head", "body"})
<1>1. /\ wire' = Append(wire, "body") /\ wire' \in Seq({"head", "body"})
      /\ writer = w /\ writer' = "none" /\ Len(wire') = Len(wire) + 1 /\ wire' # <<>>
  BY DEF WriteBody
<1>2. wire'[1] = reader'
  BY <1>1 DEF Aligned
<1>3. ASSUME NEW i \in 1..(Len(wire') - 1) PROVE wire'[i + 1] = Other(wire'[i])
  <2>1. CASE i < Len(wire)
    BY <1>1, <2>1 DEF Aligned
  <2>2. CASE i = Len(wire)
    <3>1. wire # <<>> /\ wire[Len(wire)] = "head" /\ wire'[i] = wire[i] /\ wire'[i + 1] = "body"
      BY <1>1, <2>2 DEF Aligned
    <3>2. QED
      BY <3>1, <2>2 DEF Other
  <2>3. QED
    BY <1>1, <2>1, <2>2
<1>4. wire'[Len(wire')] = "body"
  BY <1>1
<1>5. QED
  BY <1>1, <1>2, <1>3, <1>4 DEF Aligned

\* The client takes the piece it expects.
LEMMA TakeAligned ==
    ASSUME Aligned, wire \in Seq({"head", "body"}), reader \in {"head", "body"}, Take,
           reader' = Other(reader), up' = up, writer' = writer
    PROVE  Aligned' /\ wire' \in Seq({"head", "body"})
<1>1. /\ wire' = Tail(wire) /\ wire' \in Seq({"head", "body"}) /\ Len(wire') = Len(wire) - 1
      /\ wire # <<>> /\ wire[1] = reader
      /\ \A i \in 1..Len(wire') : wire'[i] = wire[i + 1]
  BY DEF Take, Aligned
<1>2. wire' # <<>> => wire'[1] = reader'
  BY <1>1 DEF Aligned
<1>3. \A i \in 1..(Len(wire') - 1) : wire'[i + 1] = Other(wire'[i])
  BY <1>1 DEF Aligned
<1>4. reader' # "lost" /\ up'
  BY DEF Aligned, Other
<1>5. (writer' = "none") <=> (IF wire' = <<>> THEN reader' = "head" ELSE wire'[Len(wire')] = "body")
  <2>1. CASE wire' = <<>>
    <3>1. Len(wire') = 0
      BY <2>1
    <3>2. Len(wire) = 1 /\ wire[1] = reader
      BY <1>1, <3>1
    <3>3. (writer = "none") <=> (reader = "body")
      BY <1>1, <3>2 DEF Aligned
    <3>4. (reader' = "head") <=> (reader = "body")
      BY DEF Other
    <3>5. QED
      BY <2>1, <3>3, <3>4
  <2>2. CASE wire' # <<>>
    BY <1>1, <2>2 DEF Aligned
  <2>3. QED
    BY <2>1, <2>2
<1>6. QED
  BY <1>1, <1>2, <1>3, <1>4, <1>5 DEF Aligned

\* The stream is in order when the session starts.
LEMMA StreamInit == Init => StreamInv
<1> SUFFICES ASSUME Init PROVE StreamInv
  OBVIOUS
<1>1. StreamTypes
  BY DEF Init, StreamTypes
<1>2. WriterAsks
  BY PoolAssumptions DEF Init, WriterAsks
<1>3. WholeMessages
  BY DEF Init, WholeMessages, Aligned
<1>4. QED
  BY <1>1, <1>2, <1>3 DEF StreamInv

\* A step that leaves the stream, the reader and the writers alone.
LEMMA StreamFrame ==
    ASSUME StreamInv, UNCHANGED <<writer, wire, reader, up>>, damage \subseteq damage',
           damage' \subseteq {"written", "read", "conn"},
           user' \in [Users -> {"idle", "ask", "asking", "wait", "refill", "joined", "done", "failed"}],
           \A u \in Users : user'[u] = "asking" <=> user[u] = "asking"
    PROVE  StreamInv'
<1>1. StreamTypes'
  BY DEF StreamInv, StreamTypes
<1>2. WriterAsks'
  BY DEF StreamInv, WriterAsks
<1>3. Aligned' <=> Aligned
  BY DEF Aligned
<1>4. WholeMessages'
  BY <1>3 DEF StreamInv, WholeMessages
<1>5. QED
  BY <1>1, <1>2, <1>4 DEF StreamInv

\* run and the refills write under the lock.
LEMMA OthersWrite ==
    ASSUME StreamInv, NEW w \in {"run", "bg"}, WriteHead(w) \/ WriteBody(w),
           UNCHANGED <<user, reader, up, damage>>
    PROVE  StreamInv'
<1>1. w # "none" /\ w \notin Users
  BY PoolAssumptions
<1>2. wire' \in Seq({"head", "body"}) /\ writer' \in {w, "none"} /\ writer \in {w, "none"}
  BY DEF WriteHead, WriteBody, StreamInv, StreamTypes
<1>3. StreamTypes'
  BY <1>2 DEF StreamInv, StreamTypes
<1>4. WriterAsks'
  BY <1>1, <1>2, PoolAssumptions DEF StreamInv, WriterAsks
<1>5. Aligned => Aligned'
  BY <1>1, HeadAligned, BodyAligned DEF StreamInv, StreamTypes
<1>6. WholeMessages'
  BY <1>5 DEF StreamInv, WholeMessages
<1>7. QED
  BY <1>3, <1>4, <1>6 DEF StreamInv

\* A user takes the lock and begins its request.
LEMMA AskStream == ASSUME StreamInv, NEW u \in Users, Ask(u) PROVE StreamInv'
<1>1. CASE WriteHead(u) /\ At(u, "asking")
  <2>1. u # "none" /\ wire' \in Seq({"head", "body"}) /\ writer' = u /\ writer = "none"
    BY <1>1, PoolAssumptions DEF WriteHead, StreamInv, StreamTypes
  <2>2. user' = [user EXCEPT ![u] = "asking"]
    BY <1>1 DEF At
  <2>3. StreamTypes'
    BY <2>1, <2>2 DEF Ask, client, history, StreamInv, StreamTypes
  <2>4. WriterAsks'
    BY <2>1, <2>2, PoolAssumptions DEF StreamInv, StreamTypes, WriterAsks
  <2>5. Aligned => Aligned'
    BY <1>1, <2>1, HeadAligned DEF Ask, client, StreamInv, StreamTypes
  <2>6. QED
    BY <2>3, <2>4, <2>5 DEF Ask, history, StreamInv, WholeMessages
<1>2. CASE At(u, "failed") /\ UNCHANGED stream
  BY <1>2, StreamFrame DEF Ask, At, stream, client, history, StreamInv, StreamTypes
<1>3. QED
  BY <1>1, <1>2 DEF Ask

\* A user ends its request and gives the lock back.
LEMMA AskedStream == ASSUME StreamInv, NEW u \in Users, Asked(u) PROVE StreamInv'
<1>1. /\ u # "none" /\ wire' \in Seq({"head", "body"}) /\ writer' = "none" /\ writer = u
      /\ WriteBody(u)
  BY PoolAssumptions DEF Asked, WriteBody, StreamInv, StreamTypes
<1>2. user' = [user EXCEPT ![u] = "wait"]
  BY DEF Asked, At
<1>3. StreamTypes'
  BY <1>1, <1>2 DEF Asked, client, StreamInv, StreamTypes
<1>4. WriterAsks'
  BY <1>1, <1>2, PoolAssumptions DEF StreamInv, StreamTypes, WriterAsks
<1>5. Aligned => Aligned'
  BY <1>1, BodyAligned DEF Asked, client, StreamInv, StreamTypes
<1>6. QED
  BY <1>3, <1>4, <1>5 DEF Asked, StreamInv, WholeMessages

\* A dropped user gives the lock back; in the middle of a message this is damage.
LEMMA DropStream == ASSUME StreamInv, NEW u \in Users, Drop(u) PROVE StreamInv'
<1>1. user' = [user EXCEPT ![u] = "failed"] /\ writer' = IF writer = u THEN "none" ELSE writer
  BY DEF Drop, At
<1>2. damage' \subseteq {"written", "read", "conn"} /\ damage \subseteq damage'
  BY DEF Drop, StreamInv, StreamTypes
<1>3. StreamTypes'
  BY <1>1, <1>2 DEF Drop, StreamInv, StreamTypes
<1>4. WriterAsks'
  BY <1>1, PoolAssumptions DEF StreamInv, StreamTypes, WriterAsks
<1>5. CASE user[u] = "asking"
  <2>1. "written" \in damage'
    BY <1>5 DEF Drop
  <2>2. QED
    BY <1>3, <1>4, <2>1 DEF StreamInv, WholeMessages
<1>6. CASE user[u] # "asking"
  <2>1. writer # u
    BY <1>6 DEF StreamInv, WriterAsks
  <2>2. UNCHANGED <<writer, wire, reader, up>>
    BY <1>1, <2>1 DEF Drop
  <2>3. Aligned' <=> Aligned
    BY <2>2 DEF Aligned
  <2>4. QED
    BY <1>2, <1>3, <1>4, <2>3 DEF StreamInv, WholeMessages
<1>7. QED
  BY <1>5, <1>6

\* The client reads a piece, the expected one or not.
LEMMA ReadStream == ASSUME StreamInv, ReadHead \/ ReadBody \/ Misread PROVE StreamInv'
<1>1. wire' \in Seq({"head", "body"}) /\ Take /\ UNCHANGED <<writer, user, damage>>
  BY DEF ReadHead, ReadBody, Misread, Take, StreamInv, StreamTypes, history
<1>2. WriterAsks'
  BY <1>1 DEF StreamInv, WriterAsks
<1>3. CASE ReadHead \/ ReadBody
  <2>1. reader \in {"head", "body"} /\ reader' = Other(reader) /\ up' = up
    BY <1>3 DEF ReadHead, ReadBody, Other
  <2>2. StreamTypes'
    BY <1>1, <2>1 DEF StreamInv, StreamTypes, Other
  <2>3. Aligned => Aligned'
    BY <1>1, <2>1, TakeAligned DEF StreamInv, StreamTypes
  <2>4. QED
    BY <1>1, <1>2, <2>2, <2>3 DEF StreamInv, WholeMessages
<1>4. CASE Misread
  <2>1. ~Aligned
    BY <1>4 DEF Misread, Synced, Aligned, StreamInv, StreamTypes
  <2>2. reader' \in {reader, "lost"}
    BY <1>4 DEF Misread
  <2>3. StreamTypes'
    BY <1>1, <2>2 DEF StreamInv, StreamTypes
  <2>4. QED
    BY <1>1, <1>2, <2>1, <2>3 DEF StreamInv, WholeMessages
<1>5. QED
  BY <1>3, <1>4

\* Joining a data task drops the read under way: damage if a piece was read already.
LEMMA JoinStream == ASSUME StreamInv, JoinEnded PROVE StreamInv'
<1>1. /\ UNCHANGED <<writer, wire, user, up>> /\ reader' \in {"head", "body", "lost"}
      /\ damage \subseteq damage' /\ damage' \subseteq {"written", "read", "conn"}
  BY DEF JoinEnded, stream, StreamInv, StreamTypes
<1>2. StreamTypes' /\ WriterAsks'
  BY <1>1 DEF StreamInv, StreamTypes, WriterAsks
<1>3. CASE reader = "head"
  BY <1>1, <1>3, StreamFrame DEF JoinEnded, StreamInv, StreamTypes
<1>4. CASE reader = "body"
  <2>1. "read" \in damage'
    BY <1>4 DEF JoinEnded
  <2>2. QED
    BY <1>2, <2>1 DEF StreamInv, WholeMessages
<1>5. CASE reader = "lost"
  <2>1. ~Aligned
    BY <1>5 DEF Aligned
  <2>2. QED
    BY <1>1, <1>2, <2>1 DEF StreamInv, WholeMessages
<1>6. QED
  BY <1>3, <1>4, <1>5 DEF StreamInv, StreamTypes

\* Every step keeps the stream invariant.
LEMMA StreamStep == StreamInv /\ [Next]_vars => StreamInv'
<1> SUFFICES ASSUME StreamInv, [Next]_vars PROVE StreamInv'
  OBVIOUS
<1> USE DEF pooled, client, history
<1>1. CASE RunAsks
  BY <1>1, OthersWrite DEF RunAsks
<1>2. CASE Refill
  <2>1. CASE WriteHead("bg") \/ WriteBody("bg")
    BY <1>2, <2>1, OthersWrite DEF Refill
  <2>2. CASE UNCHANGED stream
    BY <1>2, <2>2, StreamFrame DEF Refill, stream, StreamInv, StreamTypes
  <2>3. QED
    BY <1>2, <2>1, <2>2 DEF Refill
<1>3. CASE ReadHead \/ ReadBody \/ Misread
  BY <1>3, ReadStream
<1>4. CASE JoinEnded
  BY <1>4, JoinStream
<1>5. CASE HeartbeatTimeout
  <2>1. ~Aligned /\ UNCHANGED <<writer, wire, reader, user, damage>>
    BY <1>5 DEF HeartbeatTimeout, Aligned, stream
  <2>2. StreamTypes' /\ WriterAsks'
    BY <2>1 DEF StreamInv, StreamTypes, WriterAsks
  <2>3. QED
    BY <2>1, <2>2 DEF StreamInv, WholeMessages
<1>6. CASE Open \/ Push \/ Close
  BY <1>6, StreamFrame DEF Open, Push, Close, stream, StreamInv, StreamTypes
<1>7. ASSUME NEW u \in Users, Arrive(u) \/ Pop(u) \/ SpawnRefill(u) \/ Leave(u) \/ GiveUp(u)
      PROVE  StreamInv'
  <2>1. UNCHANGED <<writer, wire, reader, up, damage>>
    BY <1>7 DEF Arrive, Pop, SpawnRefill, Leave, GiveUp, stream
  <2>2. PICK p \in {"ask", "refill", "joined", "done", "failed"} : user' = [user EXCEPT ![u] = p]
    BY <1>7 DEF Arrive, Pop, SpawnRefill, Leave, GiveUp, At
  <2>3. user[u] # "asking"
    BY <1>7 DEF Arrive, Pop, SpawnRefill, Leave, GiveUp
  <2>4. QED
    BY <2>1, <2>2, <2>3, StreamFrame DEF StreamInv, StreamTypes
<1>8. ASSUME NEW u \in Users, Ask(u) \/ Asked(u) \/ Drop(u) PROVE StreamInv'
  BY <1>8, AskStream, AskedStream, DropStream
<1>9. CASE UNCHANGED vars
  BY <1>9, StreamFrame DEF vars, StreamInv, StreamTypes
<1>10. QED
  BY <1>1, <1>2, <1>3, <1>4, <1>5, <1>6, <1>7, <1>8, <1>9 DEF Next, ClientStep, UserStep

\* Writer and reader of the control stream agree on where messages begin, for any
\* number of users, any pool and any capacity, until a future is dropped in the
\* middle of a message (request_data_conn in data_pool.rs, reader_loop in the client).
THEOREM MessagesStayWhole == Spec => []WholeMessages
<1>1. StreamInv => WholeMessages
  BY DEF StreamInv
<1>2. QED
  BY <1>1, StreamInit, StreamStep, PTL DEF Spec

-----------------------------------------------------------------------------
(* The pool accounts for its connections.                                  *)

Bodies == {i \in 1..Len(wire) : wire[i] = "body"}
BodyCount == Cardinality(Bodies)
RefillCount == Cardinality(Refilling)
MissCount == Cardinality(missed)

\* Nobody asks twice.
AskedOnce == \A u \in Users : user[u] \in {"idle", "ask", "asking"} => u \notin missed

PoolInv == TypeOK /\ StreamInv /\ AskedOnce /\ PoolAccounts

Counts ==
    /\ IsFiniteSet(Bodies) /\ BodyCount \in Nat
    /\ IsFiniteSet(Refilling) /\ RefillCount \in Nat
    /\ IsFiniteSet(missed) /\ MissCount \in Nat

LEMMA CountTypes == TypeOK => Counts
<1> SUFFICES ASSUME TypeOK PROVE Counts
  OBVIOUS
<1>1. IsFiniteSet(1..Len(wire)) /\ Bodies \in SUBSET (1..Len(wire))
  BY FS_Interval DEF TypeOK, Bodies
<1>2. Refilling \in SUBSET Users /\ missed \in SUBSET Users /\ IsFiniteSet(Users)
  BY PoolAssumptions DEF TypeOK, Refilling
<1>3. QED
  BY <1>1, <1>2, FS_Subset, FS_CardinalityType DEF Counts, BodyCount, RefillCount, MissCount

\* A piece that is written is counted if it is the body of a message.
LEMMA WriteCounts ==
    ASSUME TypeOK, NEW x \in {"head", "body"}, wire' = Append(wire, x)
    PROVE  BodyCount' = IF x = "body" THEN BodyCount + 1 ELSE BodyCount
<1>1. /\ wire \in Seq({"head", "body"}) /\ Len(wire) \in Nat /\ Len(wire') = Len(wire) + 1
      /\ wire'[Len(wire) + 1] = x /\ \A i \in 1..Len(wire) : wire'[i] = wire[i]
  BY DEF TypeOK
<1>2. Bodies' = IF x = "body" THEN Bodies \cup {Len(wire) + 1} ELSE Bodies
  <2>1. ASSUME NEW i PROVE i \in Bodies' <=> i \in Bodies \/ (x = "body" /\ i = Len(wire) + 1)
    <3>1. i \in 1..Len(wire') <=> i \in 1..Len(wire) \/ i = Len(wire) + 1
      BY <1>1
    <3>2. QED
      BY <1>1, <3>1 DEF Bodies
  <2>2. QED
    BY <2>1
<1>3. IsFiniteSet(Bodies) /\ Len(wire) + 1 \notin Bodies
  BY <1>1, CountTypes DEF Bodies, Counts
<1>4. QED
  BY <1>2, <1>3, FS_AddElement DEF BodyCount

\* A piece that is read is not counted any more.
LEMMA TakeCounts ==
    ASSUME TypeOK, wire # <<>>, wire' = Tail(wire)
    PROVE  BodyCount' = IF Head(wire) = "body" THEN BodyCount - 1 ELSE BodyCount
<1>1. /\ wire \in Seq({"head", "body"}) /\ Len(wire) \in Nat /\ Len(wire) > 0 /\ Head(wire) = wire[1]
      /\ Len(wire') = Len(wire) - 1 /\ \A i \in 1..(Len(wire) - 1) : wire'[i] = wire[i + 1]
  BY DEF TypeOK
<1> DEFINE rest == Bodies \ {1}
           f == [i \in Bodies' |-> i + 1]
<1>2. f \in Bijection(Bodies', rest)
  <2>1. ASSUME NEW i \in Bodies' PROVE i + 1 \in rest /\ i \in Nat
    BY <1>1 DEF Bodies
  <2>2. ASSUME NEW j \in rest PROVE j - 1 \in Bodies' /\ (j - 1) + 1 = j
    BY <1>1 DEF Bodies
  <2>3. f \in [Bodies' -> rest]
    BY <2>1
  <2>4. \A i, j \in Bodies' : f[i] = f[j] => i = j
    BY <2>1
  <2>5. \A j \in rest : \E i \in Bodies' : f[i] = j
    BY <2>2
  <2>6. QED
    BY <2>3, <2>4, <2>5 DEF Bijection, Injection, Surjection, IsInjective
<1>3. IsFiniteSet(Bodies)
  BY CountTypes DEF Counts
<1>4. IsFiniteSet(Bodies')
  <2>1. Bodies' \in SUBSET (1..Len(wire')) /\ Len(wire') \in Int
    BY <1>1 DEF Bodies
  <2>2. IsFiniteSet(1..Len(wire'))
    BY <2>1, FS_Interval
  <2>3. QED
    BY <2>1, <2>2, FS_Subset
<1>5. Cardinality(rest) = BodyCount'
  <2> HIDE DEF f, rest
  <2>1. ExistsBijection(Bodies', rest)
    BY <1>2 DEF ExistsBijection
  <2>2. QED
    BY <1>4, <2>1, FS_Bijection DEF BodyCount
<1>6. 1 \in Bodies <=> Head(wire) = "body"
  BY <1>1 DEF Bodies
<1>7. QED
  BY <1>3, <1>5, <1>6, FS_RemoveElement DEF BodyCount

\* A user that comes to its refill, or leaves it, is counted.
LEMMA UserCounts ==
    ASSUME TypeOK, NEW u \in Users, NEW p, At(u, p)
    PROVE  RefillCount' = IF user[u] # "refill" /\ p = "refill" THEN RefillCount + 1
                          ELSE IF user[u] = "refill" /\ p # "refill" THEN RefillCount - 1
                          ELSE RefillCount
<1>1. user'[u] = p /\ \A v \in Users \ {u} : user'[v] = user[v]
  BY DEF At, TypeOK
<1>2. Refilling' = IF p = "refill" THEN Refilling \cup {u} ELSE Refilling \ {u}
  BY <1>1 DEF Refilling
<1>3. IsFiniteSet(Refilling) /\ (u \in Refilling <=> user[u] = "refill")
  BY CountTypes DEF Refilling, Counts
<1>4. CASE p = "refill"
  BY <1>2, <1>3, <1>4, FS_AddElement DEF RefillCount
<1>5. CASE p # "refill"
  BY <1>2, <1>3, <1>5, FS_RemoveElement DEF RefillCount
<1>6. QED
  BY <1>4, <1>5

\* The accounts stay true when a step moves a connection from one place to another.
LEMMA Balanced ==
    ASSUME TypeOK, PoolAccounts, TypeOK',
           Smooth' /\ ~closed' =>
              /\ Smooth /\ ~closed
              /\ initial' + refills' + BodyCount' + opening' + pushing' + pool' + RefillCount' + MissCount
                   = initial + refills + BodyCount + opening + pushing + pool + RefillCount + MissCount'
    PROVE  PoolAccounts'
<1>1. CASE Smooth' /\ ~closed'
  <2>1. /\ BodyCount \in Nat /\ RefillCount \in Nat /\ MissCount \in Nat
        /\ initial \in Nat /\ refills \in Nat /\ opening \in Nat /\ pushing \in Nat /\ pool \in Nat
    BY CountTypes, PoolAssumptions DEF TypeOK, Counts
  <2>2. /\ BodyCount' \in Nat /\ RefillCount' \in Nat /\ MissCount' \in Nat
        /\ initial' \in Nat /\ refills' \in Nat /\ opening' \in Nat /\ pushing' \in Nat /\ pool' \in Nat
    <3>1. Counts'
      BY CountTypes, PTL
    <3>2. QED
      BY <3>1, PoolAssumptions DEF TypeOK, Counts
  <2>3. initial + refills + BodyCount + opening + pushing + pool + RefillCount = PoolCount + MissCount
    BY <1>1 DEF PoolAccounts, Smooth, Supply, BodyCount, Bodies, RefillCount, MissCount
  <2>4. initial' + refills' + BodyCount' + opening' + pushing' + pool' + RefillCount' = PoolCount + MissCount'
    BY <1>1, <2>1, <2>2, <2>3, PoolAssumptions
  <2>5. QED
    BY <2>4 DEF PoolAccounts, Supply, BodyCount, Bodies, RefillCount, MissCount
<1>2. CASE ~(Smooth' /\ ~closed')
  BY <1>2 DEF PoolAccounts, Smooth
<1>3. QED
  BY <1>1, <1>2

\* The types that StreamTypes leaves out.
Booleans == closed \in BOOLEAN /\ up \in BOOLEAN
Numbers ==
    /\ initial \in Nat /\ initial <= PoolCount
    /\ refills \in Nat /\ pool \in Nat /\ pushing \in Nat /\ opening \in Nat /\ ended \in Nat
    /\ pool <= Cap
    /\ faults \in Nat /\ faults <= MaxFaults

LEMMA TypesSplit == TypeOK <=> StreamTypes /\ Booleans /\ Numbers /\ missed \subseteq Users
  BY PoolAssumptions DEF TypeOK, StreamTypes, Booleans, Numbers

\* Every step keeps the types.
LEMMA TypeStep == TypeOK /\ StreamInv /\ [Next]_vars => TypeOK'
<1> SUFFICES ASSUME TypeOK, StreamInv, [Next]_vars PROVE TypeOK'
  OBVIOUS
<1>1. StreamTypes'
  BY StreamStep DEF StreamInv
<1>2. Booleans /\ Numbers /\ missed \subseteq Users
  BY TypesSplit
<1> USE DEF pooled, client, history, stream
<1>3. missed' \subseteq Users
  BY <1>2 DEF Next, RunAsks, Refill, ClientStep, ReadHead, ReadBody, Misread, JoinEnded, HeartbeatTimeout,
     Open, Push, Close, UserStep, Arrive, Ask, Asked, Pop, SpawnRefill, Leave, GiveUp, Drop, vars
<1>4. Booleans'
  <2>1. closed' \in BOOLEAN
    BY <1>2, Zenon DEF Next, RunAsks, Refill, ClientStep, ReadHead, ReadBody, Misread, JoinEnded, HeartbeatTimeout,
       Open, Push, Close, UserStep, Arrive, Ask, Asked, Pop, SpawnRefill, Leave, GiveUp, Drop, vars, Booleans
  <2>2. up' \in BOOLEAN
    BY <1>2, Zenon DEF Next, RunAsks, Refill, ClientStep, ReadHead, ReadBody, Misread, JoinEnded, HeartbeatTimeout,
       Open, Push, Close, UserStep, Arrive, Ask, Asked, Pop, SpawnRefill, Leave, GiveUp, Drop, vars, Booleans
  <2>3. QED
    BY <2>1, <2>2 DEF Booleans
<1>5. Numbers'
  <2> USE <1>2, PoolAssumptions DEF Numbers
  <2>1. CASE UNCHANGED vars \/ RunAsks \/ Refill \/ Open \/ Push \/ Close
    BY <2>1 DEF vars, RunAsks, Refill, Open, Push, Close
  <2>2. CASE ClientStep
    BY <2>2 DEF ClientStep, ReadHead, ReadBody, Misread, JoinEnded, HeartbeatTimeout
  <2>3. CASE \E u \in Users : UserStep(u) \/ GiveUp(u) \/ Drop(u)
    <3>1. PICK u \in Users : UserStep(u) \/ GiveUp(u) \/ Drop(u)
      BY <2>3
    <3>2. QED
      BY <3>1 DEF UserStep, Arrive, Ask, Asked, Pop, SpawnRefill, Leave, GiveUp, Drop
  <2>4. QED
    BY <2>1, <2>2, <2>3 DEF Next
<1>6. QED
  <2>1. (TypeOK <=> StreamTypes /\ Booleans /\ Numbers /\ missed \subseteq Users)'
    BY TypesSplit, PTL
  <2>2. QED
    BY <1>1, <1>3, <1>4, <1>5, <2>1

\* Every step keeps AskedOnce: only Asked adds to missed, and it ends the asking.
LEMMA AskedOnceStep == TypeOK /\ AskedOnce /\ [Next]_vars => AskedOnce'
<1> SUFFICES ASSUME TypeOK, AskedOnce, [Next]_vars PROVE AskedOnce'
  OBVIOUS
<1> USE DEF history
<1>1. CASE UNCHANGED <<user, missed>>
  BY <1>1 DEF AskedOnce
<1>2. ASSUME NEW u \in Users, NEW p, At(u, p), p \notin {"idle", "ask", "asking"},
             missed' \subseteq missed \cup {u}
      PROVE  AskedOnce'
  <2>1. user'[u] = p /\ \A v \in Users \ {u} : user'[v] = user[v]
    BY <1>2 DEF At, TypeOK
  <2>2. QED
    BY <1>2, <2>1 DEF AskedOnce
<1>3. ASSUME NEW u \in Users, NEW p, At(u, p), user[u] \in {"idle", "ask"}, missed' = missed
      PROVE  AskedOnce'
  <2>1. user'[u] = p /\ \A v \in Users \ {u} : user'[v] = user[v]
    BY <1>3 DEF At, TypeOK
  <2>2. QED
    BY <1>3, <2>1 DEF AskedOnce
<1>4. ASSUME NEW u \in Users, UserStep(u) \/ GiveUp(u) \/ Drop(u) PROVE AskedOnce'
  <2>1. CASE Arrive(u) \/ Ask(u)
    BY <2>1, <1>3 DEF Arrive, Ask
  <2>2. CASE Asked(u) \/ Pop(u) \/ SpawnRefill(u) \/ Leave(u) \/ GiveUp(u) \/ Drop(u)
    BY <2>2, <1>2 DEF Asked, Pop, SpawnRefill, Leave, GiveUp, Drop
  <2>3. QED
    BY <1>4, <2>1, <2>2 DEF UserStep
<1>5. CASE RunAsks \/ Refill \/ ClientStep \/ Open \/ Push \/ Close
  BY <1>5, <1>1 DEF RunAsks, Refill, ClientStep, ReadHead, ReadBody, Misread, JoinEnded,
     HeartbeatTimeout, Open, Push, Close
<1>6. CASE UNCHANGED vars
  BY <1>6, <1>1 DEF vars
<1>7. QED
  BY <1>4, <1>5, <1>6 DEF Next

\* Every step keeps the accounts.
LEMMA AccountsStep == PoolInv /\ [Next]_vars => PoolAccounts'
<1> SUFFICES ASSUME PoolInv, [Next]_vars PROVE PoolAccounts'
  OBVIOUS
<1> USE DEF pooled, client, history, stream
<1>1. TypeOK /\ TypeOK' /\ PoolAccounts /\ (Smooth => Aligned)
  BY TypeStep DEF PoolInv, StreamInv, WholeMessages, Smooth
<1>2. /\ BodyCount \in Nat /\ RefillCount \in Nat /\ MissCount \in Nat
      /\ initial \in Nat /\ refills \in Nat /\ opening \in Nat /\ pushing \in Nat /\ pool \in Nat
  BY <1>1, CountTypes, PoolAssumptions DEF TypeOK, Counts
<1>3. ASSUME UNCHANGED wire PROVE BodyCount' = BodyCount
  BY <1>3 DEF BodyCount, Bodies
<1>4. ASSUME UNCHANGED user PROVE RefillCount' = RefillCount
  BY <1>4 DEF RefillCount, Refilling
<1>5. ASSUME UNCHANGED missed PROVE MissCount' = MissCount
  BY <1>5 DEF MissCount
<1>6. /\ BodyCount' \in Nat /\ RefillCount' \in Nat /\ MissCount' \in Nat
      /\ initial' \in Nat /\ refills' \in Nat /\ opening' \in Nat /\ pushing' \in Nat /\ pool' \in Nat
  <2>1. Counts'
    BY <1>1, CountTypes, PTL
  <2>2. QED
    BY <1>1, <2>1, PoolAssumptions DEF TypeOK, Counts
<1>7. CASE RunAsks
  <2>1. /\ UNCHANGED <<refills, opening, pushing, pool, closed>> /\ RefillCount' = RefillCount
        /\ MissCount' = MissCount /\ (Smooth' => Smooth)
    BY <1>4, <1>5, <1>7 DEF RunAsks, Smooth
  <2>2. CASE WriteHead("run") /\ UNCHANGED initial
    <3>1. BodyCount' = BodyCount
      BY <1>1, <2>2, WriteCounts DEF WriteHead
    <3>2. QED
      BY <1>1, <2>1, <2>2, <3>1, Balanced
  <2>3. CASE WriteBody("run") /\ initial' = initial - 1
    <3>1. BodyCount' = BodyCount + 1
      BY <1>1, <2>3, WriteCounts DEF WriteBody
    <3>2. QED
      BY <1>1, <1>2, <2>1, <2>3, <3>1, Balanced
  <2>4. QED
    BY <1>7, <2>2, <2>3 DEF RunAsks
<1>8. CASE Refill
  <2>1. /\ UNCHANGED <<initial, opening, pushing, pool, closed>> /\ RefillCount' = RefillCount
        /\ MissCount' = MissCount /\ (Smooth' => Smooth)
    BY <1>4, <1>5, <1>8 DEF Refill, Smooth
  <2>2. CASE WriteHead("bg") /\ UNCHANGED refills
    <3>1. BodyCount' = BodyCount
      BY <1>1, <2>2, WriteCounts DEF WriteHead
    <3>2. QED
      BY <1>1, <2>1, <2>2, <3>1, Balanced
  <2>3. CASE WriteBody("bg") /\ refills' = refills - 1
    <3>1. BodyCount' = BodyCount + 1
      BY <1>1, <2>3, WriteCounts DEF WriteBody
    <3>2. QED
      BY <1>1, <1>2, <2>1, <2>3, <3>1, Balanced
  <2>4. CASE closed
    BY <1>1, <2>1, <2>4, Balanced
  <2>5. QED
    BY <1>8, <2>2, <2>3, <2>4 DEF Refill
<1>9. CASE ReadHead \/ ReadBody
  <2>1. /\ UNCHANGED <<initial, refills, pushing, pool, closed>> /\ RefillCount' = RefillCount
        /\ MissCount' = MissCount /\ (Smooth' => Smooth)
        /\ wire # <<>> /\ wire' = Tail(wire) /\ Head(wire) = reader
    BY <1>4, <1>5, <1>9 DEF ReadHead, ReadBody, Smooth, Synced, Take
  <2>2. CASE ReadHead
    <3>1. BodyCount' = BodyCount /\ opening' = opening
      BY <1>1, <2>1, <2>2, TakeCounts DEF ReadHead
    <3>2. QED
      BY <1>1, <2>1, <3>1, Balanced
  <2>3. CASE ReadBody
    <3>1. BodyCount' = BodyCount - 1 /\ opening' = opening + 1
      BY <1>1, <2>1, <2>3, TakeCounts DEF ReadBody
    <3>2. QED
      BY <1>1, <1>2, <2>1, <3>1, Balanced
  <2>4. QED
    BY <1>9, <2>2, <2>3
<1>10. CASE Misread
  <2>1. ~Aligned /\ (Smooth' => Smooth)
    <3>1. wire # <<>> /\ Head(wire) # reader /\ damage' = damage /\ faults' = faults
      BY <1>10 DEF Misread, Synced
    <3>2. Head(wire) = wire[1]
      BY <1>1, <3>1 DEF TypeOK
    <3>3. QED
      BY <3>1, <3>2 DEF Aligned, Smooth
  <2>2. ~Smooth'
    BY <1>1, <2>1
  <2>3. QED
    BY <1>1, <2>2, Balanced
<1>11. CASE JoinEnded \/ HeartbeatTimeout
  <2>1. /\ UNCHANGED <<initial, refills, opening, pushing, pool, closed>> /\ RefillCount' = RefillCount
        /\ MissCount' = MissCount /\ BodyCount' = BodyCount /\ (Smooth' => Smooth)
    BY <1>3, <1>4, <1>5, <1>11 DEF JoinEnded, HeartbeatTimeout, Smooth
  <2>2. QED
    BY <1>1, <2>1, Balanced
<1>12. CASE Open
  <2>1. /\ UNCHANGED <<initial, refills, pool, closed>> /\ RefillCount' = RefillCount
        /\ MissCount' = MissCount /\ BodyCount' = BodyCount /\ damage' = damage /\ opening' = opening - 1
    BY <1>3, <1>4, <1>5, <1>12 DEF Open
  <2>2. CASE pushing' = pushing + 1 /\ UNCHANGED faults
    BY <1>1, <1>2, <2>1, <2>2, Balanced DEF Smooth
  <2>3. CASE (~up \/ closed) /\ UNCHANGED faults
    <3>1. Smooth' /\ ~closed' => FALSE
      BY <1>1, <2>1, <2>3 DEF Smooth, Aligned
    <3>2. QED
      BY <1>1, <3>1, Balanced
  <2>4. CASE faults' = faults + 1
    <3>1. ~Smooth'
      BY <1>1, <2>4 DEF Smooth, TypeOK
    <3>2. QED
      BY <1>1, <3>1, Balanced
  <2>5. QED
    BY <1>12, <2>2, <2>3, <2>4 DEF Open
<1>13. CASE Push
  <2>1. /\ UNCHANGED <<initial, refills, opening, closed>> /\ RefillCount' = RefillCount
        /\ MissCount' = MissCount /\ BodyCount' = BodyCount /\ (Smooth' => Smooth)
        /\ pushing' = pushing - 1 /\ pool' = pool + 1
    BY <1>3, <1>4, <1>5, <1>13 DEF Push, Smooth
  <2>2. QED
    BY <1>1, <1>2, <2>1, Balanced
<1>14. CASE Close
  BY <1>1, <1>14, Balanced DEF Close
<1>15. ASSUME NEW u \in Users, Arrive(u) \/ Pop(u) PROVE PoolAccounts'
  <2>1. /\ UNCHANGED <<initial, refills, opening, pushing, closed>> /\ user[u] # "refill"
        /\ MissCount' = MissCount /\ BodyCount' = BodyCount /\ (Smooth' => Smooth)
    BY <1>3, <1>5, <1>15 DEF Arrive, Pop, Smooth
  <2>2. CASE pool' = pool - 1 /\ At(u, "refill")
    <3>1. RefillCount' = RefillCount + 1
      BY <1>1, <2>1, <2>2, UserCounts
    <3>2. QED
      BY <1>1, <1>2, <2>1, <2>2, <3>1, Balanced
  <2>3. CASE pool' = pool /\ At(u, "ask")
    <3>1. RefillCount' = RefillCount
      BY <1>1, <2>1, <2>3, UserCounts
    <3>2. QED
      BY <1>1, <2>1, <2>3, <3>1, Balanced
  <2>4. QED
    BY <1>15, <2>2, <2>3 DEF Arrive, Pop
<1>16. ASSUME NEW u \in Users, Ask(u) PROVE PoolAccounts'
  <2>1. /\ UNCHANGED <<initial, refills, opening, pushing, pool, closed>> /\ user[u] # "refill"
        /\ MissCount' = MissCount /\ (Smooth' => Smooth)
    BY <1>5, <1>16 DEF Ask, Smooth
  <2>2. BodyCount' = BodyCount
    <3>1. CASE WriteHead(u)
      BY <1>1, <3>1, WriteCounts DEF WriteHead
    <3>2. CASE UNCHANGED stream
      BY <1>3, <3>2
    <3>3. QED
      BY <1>16, <3>1, <3>2 DEF Ask
  <2>3. RefillCount' = RefillCount
    BY <1>1, <1>16, <2>1, UserCounts DEF Ask
  <2>4. QED
    BY <1>1, <2>1, <2>2, <2>3, Balanced
<1>17. ASSUME NEW u \in Users, Asked(u) PROVE PoolAccounts'
  <2>1. /\ UNCHANGED <<initial, refills, opening, pushing, pool, closed>> /\ user[u] = "asking"
        /\ At(u, "wait") /\ missed' = missed \cup {u} /\ (Smooth' => Smooth)
    BY <1>17 DEF Asked, Smooth
  <2>2. BodyCount' = BodyCount + 1
    BY <1>1, <1>17, WriteCounts DEF Asked, WriteBody
  <2>3. RefillCount' = RefillCount
    BY <1>1, <2>1, UserCounts
  <2>4. MissCount' = MissCount + 1
    <3>1. u \notin missed /\ IsFiniteSet(missed)
      BY <1>1, <2>1, CountTypes DEF PoolInv, AskedOnce, Counts
    <3>2. QED
      BY <2>1, <3>1, FS_AddElement DEF MissCount
  <2>5. QED
    BY <1>1, <1>2, <2>1, <2>2, <2>3, <2>4, Balanced
<1>18. ASSUME NEW u \in Users, SpawnRefill(u) PROVE PoolAccounts'
  <2>1. /\ UNCHANGED <<initial, opening, pushing, pool, closed>> /\ user[u] = "refill" /\ At(u, "joined")
        /\ MissCount' = MissCount /\ BodyCount' = BodyCount /\ (Smooth' => Smooth)
        /\ (~closed => refills' = refills + 1)
    BY <1>3, <1>5, <1>18 DEF SpawnRefill, Smooth
  <2>2. RefillCount' = RefillCount - 1
    BY <1>1, <2>1, UserCounts
  <2>3. QED
    BY <1>1, <1>2, <2>1, <2>2, Balanced
<1>19. ASSUME NEW u \in Users, Leave(u) \/ GiveUp(u) PROVE PoolAccounts'
  <2>1. /\ UNCHANGED <<initial, refills, opening, pushing, pool, closed>> /\ user[u] # "refill"
        /\ At(u, "done") \/ At(u, "failed")
        /\ MissCount' = MissCount /\ BodyCount' = BodyCount /\ (Smooth' => Smooth)
    BY <1>3, <1>5, <1>19 DEF Leave, GiveUp, Smooth
  <2>2. RefillCount' = RefillCount
    BY <1>1, <2>1, UserCounts
  <2>3. QED
    BY <1>1, <2>1, <2>2, Balanced
<1>20. ASSUME NEW u \in Users, Drop(u) PROVE PoolAccounts'
  <2>1. /\ UNCHANGED <<initial, refills, opening, pushing, pool, closed>> /\ At(u, "failed")
        /\ MissCount' = MissCount /\ BodyCount' = BodyCount /\ (Smooth' => Smooth)
        /\ (user[u] = "refill" => ~Smooth')
    BY <1>3, <1>5, <1>20 DEF Drop, Smooth
  <2>2. CASE user[u] = "refill"
    BY <1>1, <2>1, <2>2, Balanced
  <2>3. CASE user[u] # "refill"
    <3>1. RefillCount' = RefillCount
      BY <1>1, <2>1, <2>3, UserCounts
    <3>2. QED
      BY <1>1, <2>1, <3>1, Balanced
  <2>4. QED
    BY <2>2, <2>3
<1>21. CASE UNCHANGED vars
  <2>1. /\ UNCHANGED <<initial, refills, opening, pushing, pool, closed>> /\ RefillCount' = RefillCount
        /\ MissCount' = MissCount /\ BodyCount' = BodyCount /\ (Smooth' => Smooth)
    BY <1>3, <1>4, <1>5, <1>21 DEF vars, Smooth
  <2>2. QED
    BY <1>1, <2>1, Balanced
<1>22. QED
  BY <1>7, <1>8, <1>9, <1>10, <1>11, <1>12, <1>13, <1>14, <1>15, <1>16, <1>17, <1>18, <1>19,
     <1>20, <1>21 DEF Next, ClientStep, UserStep

LEMMA PoolInit == Init => PoolInv
<1> SUFFICES ASSUME Init PROVE PoolInv
  OBVIOUS
<1>1. TypeOK
  <2>1. StreamTypes /\ Numbers /\ missed \subseteq Users
    BY PoolAssumptions, StreamInit DEF Init, StreamInv, Numbers
  <2>2. Booleans
    BY DEF Init, Booleans
  <2>3. QED
    BY <2>1, <2>2, TypesSplit
<1>2. AskedOnce /\ StreamInv
  BY StreamInit DEF Init, AskedOnce
<1>3. Bodies = {} /\ Refilling = {} /\ missed = {}
  BY DEF Init, Bodies, Refilling
<1>4. PoolAccounts
  BY <1>3, FS_EmptySet, PoolAssumptions DEF Init, PoolAccounts, Supply, Bodies
<1>5. QED
  BY <1>1, <1>2, <1>4 DEF PoolInv

\* For any pool, any capacity and any number of users that arrive, wait, give up and leave
\* in any order, the pool is within its bounds, and no connection is lost or asked for
\* twice: it has as many under way as it was configured with, and one more for every user
\* that found it empty (get_data_conn, spawn_refill and push_data_conn in data_pool.rs).
THEOREM PoolStaysSound == Spec => []PoolSound
<1>1. PoolInv /\ [Next]_vars => PoolInv'
  BY TypeStep, StreamStep, AskedOnceStep, AccountsStep DEF PoolInv
<1>2. PoolInv => PoolSound
  BY DEF PoolInv, PoolSound
<1>3. QED
  BY <1>1, <1>2, PoolInit, PTL DEF Spec
=============================================================================
