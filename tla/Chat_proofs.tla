----------------------------- MODULE Chat_proofs -----------------------------
(***************************************************************************)
(* For any turns, session ids, owners, slots and queue sizes: the types,   *)
(* SlotsConserved, ToldTheTruth and HistorySeen.                           *)
(*                                                                         *)
(* The bridge: what is on its way to a client is chunks, then an error if  *)
(* the model's stream broke, then the end (Flow).  So a reader that meets  *)
(* the end knows that nothing broke, and one that meets the error knows    *)
(* that no chunk behind it can push it out of the queue.                   *)
(*                                                                         *)
(* The sessions: a turn with an id holds the lock of that id from before   *)
(* it reads the history until its exchange is appended (Locked), so only   *)
(* first turns write to its session beside it (Reading).                   *)
(*                                                                         *)
(* Last comes a run of the agent (module Agent): its thread, and then what *)
(* it finds.                                                               *)
(***************************************************************************)
EXTENDS Chat, Agent, FiniteSetTheorems, WellFoundedInduction, TLAPS

Items == {"chunk"} \cup Terminals
flow(r) == queue[r] \o posted[r]

Busy == {"running", "failing", "closing"}
Active == {r \in Streams : producer[r] \in Busy}

\* The order of what is on its way, and what it says of the thread.
InOrder(f) ==
  \A i, j \in 1..Len(f) : i < j => f[i] # "done" /\ (f[i] = "error" => f[j] = "done")

Flow(r) ==
  /\ InOrder(flow(r))
  /\ \A i \in 1..Len(flow(r)) :
       /\ flow(r)[i] = "chunk" => produced[r] > 0
       /\ flow(r)[i] = "error" => broken[r] /\ producer[r] \in {"failing", "closing", "finished"}
       /\ flow(r)[i] = "done" => producer[r] \in {"closing", "finished"}

\* What the thread has done.
ThreadKnows(r) ==
  /\ producer[r] = "none" => flow(r) = <<>>
  /\ producer[r] \in {"none", "running"} => ~broken[r]
  /\ producer[r] = "failing" => broken[r]
  /\ producer[r] \in {"closing", "finished"} /\ ~broken[r] /\ ~stop[r] => produced[r] > 0

\* What the reader knows.
ReaderKnows(r) ==
  /\ stage[r] \in {"off", "waiting", "reading", "interrupted", "complete"} => ~stop[r]
  /\ stage[r] = "reading" /\ broken[r] => \E i \in 1..Len(flow(r)) : flow(r)[i] = "error"
  /\ stage[r] = "complete" => ~broken[r] /\ producer[r] \in {"closing", "finished"}
  /\ stage[r] = "interrupted" =>
       broken[r] /\ producer[r] \in {"failing", "closing", "finished"} /\ got[r] > 0
  /\ got[r] > 0 => produced[r] > 0
  /\ answer[r] # NoAnswer =>
       /\ answer[r] = [text |-> produced[r], noted |-> broken[r]]
       /\ producer[r] \in {"failing", "closing", "finished"}

BridgeOK(r) == Flow(r) /\ ThreadKnows(r) /\ ReaderKnows(r)

\* The types, without the numbers of slots.
StreamTypes ==
  /\ stage \in [Streams -> {"off", "waiting", "reading", "interrupted", "complete"} \cup BridgeOver]
  /\ stop \in [Streams -> BOOLEAN]
  /\ producer \in [Streams -> {"none", "finished"} \cup Busy]
  /\ posted \in [Streams -> Seq(Items)]
  /\ queue \in [Streams -> Seq(Items)]
  /\ \A r \in Streams : Len(queue[r]) <= QueueSize
  /\ produced \in [Streams -> Nat]
  /\ broken \in [Streams -> BOOLEAN]
  /\ got \in [Streams -> Nat]
  /\ answer \in [Streams -> Answers \cup {NoAnswer}]

Slots ==
  /\ slots \in Nat /\ others \in Nat /\ lost \in Nat
  /\ slots + others + lost + Cardinality(Active) = MaxProducers

BridgeInv == StreamTypes /\ Slots /\ \A r \in Streams : BridgeOK(r)

-----------------------------------------------------------------------------
(* Sequences. *)

LEMMA Bounds == MaxProducers \in Nat /\ QueueSize \in Nat \ {0} /\ IsFiniteSet(Streams)
BY BridgeAssumption

LEMMA PutBehind ==
  ASSUME NEW q \in Seq(Items), NEW p \in Seq(Items), NEW x \in Items
  PROVE  /\ Len(q \o Append(p, x)) = Len(q \o p) + 1
         /\ (q \o Append(p, x))[Len(q \o p) + 1] = x
         /\ \A i \in 1..Len(q \o p) : (q \o Append(p, x))[i] = (q \o p)[i]
OBVIOUS

LEMMA MoveOver ==
  ASSUME NEW q \in Seq(Items), NEW p \in Seq(Items), p # <<>>
  PROVE  /\ Len(Append(q, Head(p)) \o Tail(p)) = Len(q \o p)
         /\ \A i \in 1..Len(q \o p) : (Append(q, Head(p)) \o Tail(p))[i] = (q \o p)[i]
         /\ Head(p) = (q \o p)[Len(q) + 1]
OBVIOUS

LEMMA TakeFront ==
  ASSUME NEW q \in Seq(Items), NEW p \in Seq(Items), q # <<>>
  PROVE  /\ Len(Tail(q) \o p) = Len(q \o p) - 1
         /\ \A i \in 1..Len(q \o p) - 1 : (Tail(q) \o p)[i] = (q \o p)[i + 1]
         /\ Head(q) = (q \o p)[1] /\ Len(q \o p) >= 1
OBVIOUS

LEMMA FlowType ==
  ASSUME StreamTypes, NEW r \in Streams
  PROVE  /\ flow(r) \in Seq(Items) /\ Len(flow(r)) \in Nat
         /\ Len(flow(r)) = Len(queue[r]) + Len(posted[r])
         /\ \A i \in 1..Len(flow(r)) : flow(r)[i] \in Items
BY DEF StreamTypes, flow

LEMMA OrderBehind ==
  ASSUME NEW f, NEW g, NEW n \in Nat, Len(f) = n, Len(g) = n + 1, \A i \in 1..n : g[i] = f[i],
         InOrder(f), \A i \in 1..n : f[i] # "done" /\ (f[i] = "error" => g[n + 1] = "done")
  PROVE  InOrder(g)
<1> SUFFICES ASSUME NEW i \in 1..n + 1, NEW j \in 1..n + 1, i < j
             PROVE  g[i] # "done" /\ (g[i] = "error" => g[j] = "done")
  BY DEF InOrder
<1>1. i \in 1..n
  OBVIOUS
<1>2. CASE j \in 1..n
  BY <1>1, <1>2 DEF InOrder
<1>3. CASE j = n + 1
  BY <1>1, <1>3
<1> QED
  BY <1>2, <1>3

LEMMA OrderFront ==
  ASSUME NEW f, NEW g, NEW n \in Nat, Len(f) = n + 1, Len(g) = n, \A i \in 1..n : g[i] = f[i + 1],
         InOrder(f)
  PROVE  InOrder(g)
<1> SUFFICES ASSUME NEW i \in 1..n, NEW j \in 1..n, i < j
             PROVE  g[i] # "done" /\ (g[i] = "error" => g[j] = "done")
  BY DEF InOrder
<1>1. i + 1 \in 1..n + 1 /\ j + 1 \in 1..n + 1 /\ i + 1 < j + 1
  OBVIOUS
<1> QED
  BY <1>1 DEF InOrder

-----------------------------------------------------------------------------
(* Each stream keeps what Told says. *)

\* A step that leaves a stream's variables alone leaves Told alone.
LEMMA Undisturbed ==
  ASSUME NEW r \in Streams, BridgeOK(r), stage'[r] = stage[r], stop'[r] = stop[r],
         producer'[r] = producer[r], posted'[r] = posted[r], queue'[r] = queue[r],
         produced'[r] = produced[r], broken'[r] = broken[r], got'[r] = got[r],
         answer'[r] = answer[r]
  PROVE  BridgeOK(r)'
BY DEF BridgeOK, Flow, ThreadKnows, ReaderKnows, flow

\* The thread posts an item behind all that is on its way.
LEMMA Posting ==
  ASSUME StreamTypes, NEW r \in Streams, NEW x \in Items, Posts(r, x), queue' = queue
  PROVE  LET n == Len(flow(r)) IN
         /\ n \in Nat /\ Len(flow(r)') = n + 1 /\ flow(r)'[n + 1] = x
         /\ \A i \in 1..n : flow(r)'[i] = flow(r)[i]
<1>1. posted'[r] = Append(posted[r], x) /\ queue'[r] = queue[r]
  BY DEF Posts, StreamTypes
<1>2. queue[r] \in Seq(Items) /\ posted[r] \in Seq(Items)
  BY DEF StreamTypes
<1>3. flow(r)' = queue[r] \o Append(posted[r], x) /\ flow(r) = queue[r] \o posted[r]
  BY <1>1 DEF flow
<1>4. /\ Len(flow(r)') = Len(flow(r)) + 1 /\ flow(r)'[Len(flow(r)) + 1] = x
      /\ \A i \in 1..Len(flow(r)) : flow(r)'[i] = flow(r)[i]
  <2> DEFINE f == queue[r] \o posted[r]
             g == queue[r] \o Append(posted[r], x)
  <2>1. /\ Len(g) = Len(f) + 1 /\ g[Len(f) + 1] = x
        /\ \A i \in 1..Len(f) : g[i] = f[i]
    BY <1>2, PutBehind
  <2> HIDE DEF f, g
  <2>2. flow(r)' = g /\ flow(r) = f
    BY <1>3 DEF f, g
  <2> QED
    BY <2>1, <2>2
<1>5. Len(flow(r)) \in Nat
  BY FlowType
<1> QED
  BY <1>4, <1>5

LEMMA ChunkTold ==
  ASSUME StreamTypes, NEW r \in Streams, BridgeOK(r), Chunk(r)
  PROVE  BridgeOK(r)'
<1> DEFINE n == Len(flow(r))
<1>1. /\ producer[r] = "running" /\ produced'[r] > 0
      /\ producer' = producer /\ stage' = stage /\ stop' = stop /\ broken' = broken
      /\ got' = got /\ answer' = answer /\ queue' = queue
  BY DEF Chunk, StreamTypes
<1>2. /\ n \in Nat /\ Len(flow(r)') = n + 1 /\ flow(r)'[n + 1] = "chunk"
      /\ \A i \in 1..n : flow(r)'[i] = flow(r)[i]
  BY Posting DEF Chunk, Items
<1>3. \A i \in 1..n : flow(r)[i] \notin {"error", "done"}
  BY <1>1 DEF BridgeOK, Flow
<1> HIDE DEF n
<1>4. InOrder(flow(r)')
  <2>1. InOrder(flow(r)) /\ n = Len(flow(r))
    BY DEF BridgeOK, Flow, n
  <2> QED
    BY <1>2, <1>3, <2>1, OrderBehind
<1>5. Flow(r)'
  <2>1. \A i \in 1..n + 1 : flow(r)'[i] \notin {"error", "done"}
    BY <1>2, <1>3
  <2> QED
    BY <1>1, <1>2, <1>4, <2>1 DEF Flow
<1>6. ThreadKnows(r)'
  BY <1>1 DEF BridgeOK, ThreadKnows
<1>7. ReaderKnows(r)'
  BY <1>1 DEF BridgeOK, ThreadKnows, ReaderKnows
<1> QED
  BY <1>5, <1>6, <1>7 DEF BridgeOK

LEMMA EndTold ==
  ASSUME StreamTypes, NEW r \in Streams, BridgeOK(r), ChunksEnd(r) \/ ErrorSettled(r)
  PROVE  BridgeOK(r)'
<1> DEFINE n == Len(flow(r))
<1>1. /\ producer[r] \in {"running", "failing"} /\ producer'[r] = "closing"
      /\ stage' = stage /\ stop' = stop /\ broken' = broken /\ produced' = produced
      /\ got' = got /\ answer' = answer /\ queue' = queue
  BY DEF ChunksEnd, ErrorSettled, Producer, StreamTypes
<1>2. /\ n \in Nat /\ Len(flow(r)') = n + 1 /\ flow(r)'[n + 1] = "done"
      /\ \A i \in 1..n : flow(r)'[i] = flow(r)[i]
  BY Posting DEF ChunksEnd, ErrorSettled, Items, Terminals
<1>3. \A i \in 1..n : flow(r)[i] # "done"
  BY <1>1 DEF BridgeOK, Flow
<1> HIDE DEF n
<1>4. InOrder(flow(r)')
  <2>1. InOrder(flow(r)) /\ n = Len(flow(r))
    BY DEF BridgeOK, Flow, n
  <2> QED
    BY <1>2, <1>3, <2>1, OrderBehind
<1>5. Flow(r)'
  <2>1. ASSUME NEW i \in 1..n + 1
        PROVE  /\ flow(r)'[i] = "chunk" => produced'[r] > 0
               /\ flow(r)'[i] = "error" => broken'[r]
    BY <1>1, <1>2, <2>1 DEF BridgeOK, Flow, n
  <2> QED
    BY <1>1, <1>2, <1>4, <2>1 DEF Flow
<1>6. ThreadKnows(r)'
  <2>1. ChunksEnd(r) => stop[r] \/ produced[r] > 0
    BY DEF ChunksEnd
  <2>2. ErrorSettled(r) => broken[r]
    BY DEF ErrorSettled, Producer, BridgeOK, ThreadKnows
  <2> QED
    BY <1>1, <2>1, <2>2 DEF ThreadKnows
<1>7. ReaderKnows(r)'
  <2>1. ASSUME NEW i \in 1..n, flow(r)[i] = "error" PROVE \E k \in 1..n + 1 : flow(r)'[k] = "error"
    BY <1>2, <2>1
  <2>2. stage[r] = "reading" /\ broken[r] => \E k \in 1..n + 1 : flow(r)'[k] = "error"
    BY <2>1 DEF BridgeOK, ReaderKnows, n
  <2> QED
    BY <1>1, <1>2, <2>2 DEF BridgeOK, ReaderKnows
<1> QED
  BY <1>5, <1>6, <1>7 DEF BridgeOK

LEMMA RaisesTold ==
  ASSUME StreamTypes, NEW r \in Streams, BridgeOK(r), StreamRaises(r)
  PROVE  BridgeOK(r)'
<1> DEFINE n == Len(flow(r))
<1>1. /\ producer[r] = "running" /\ producer'[r] = "failing" /\ broken'[r] = TRUE
      /\ stage' = stage /\ stop' = stop /\ produced' = produced
      /\ got' = got /\ answer' = answer /\ queue' = queue
  BY DEF StreamRaises, Producer, StreamTypes
<1>2. /\ n \in Nat /\ Len(flow(r)') = n + 1 /\ flow(r)'[n + 1] = "error"
      /\ \A i \in 1..n : flow(r)'[i] = flow(r)[i]
  BY Posting DEF StreamRaises, Items, Terminals
<1>3. \A i \in 1..n : flow(r)[i] \notin {"error", "done"}
  BY <1>1 DEF BridgeOK, Flow
<1> HIDE DEF n
<1>4. InOrder(flow(r)')
  <2>1. InOrder(flow(r)) /\ n = Len(flow(r))
    BY DEF BridgeOK, Flow, n
  <2> QED
    BY <1>2, <1>3, <2>1, OrderBehind
<1>5. Flow(r)'
  <2>1. ASSUME NEW i \in 1..n + 1
        PROVE  /\ flow(r)'[i] = "chunk" => produced'[r] > 0
               /\ flow(r)'[i] # "done"
    BY <1>1, <1>2, <1>3, <2>1 DEF BridgeOK, Flow, n
  <2> QED
    BY <1>1, <1>2, <1>4, <2>1 DEF Flow
<1>6. ThreadKnows(r)'
  BY <1>1 DEF ThreadKnows
<1>7. ReaderKnows(r)'
  BY <1>1, <1>2 DEF BridgeOK, ReaderKnows
<1> QED
  BY <1>5, <1>6, <1>7 DEF BridgeOK

\* The item in front is taken, by the reader or to make room.
LEMMA FrontGone ==
  ASSUME NEW r \in Streams, Flow(r), NEW n \in Nat, Len(flow(r)) = n + 1, Len(flow(r)') = n,
         \A i \in 1..n : flow(r)'[i] = flow(r)[i + 1],
         produced'[r] = produced[r], broken'[r] = broken[r], producer'[r] = producer[r]
  PROVE  Flow(r)'
<1>1. InOrder(flow(r)')
  BY OrderFront DEF Flow
<1>2. ASSUME NEW i \in 1..n
      PROVE  /\ flow(r)'[i] = "chunk" => produced'[r] > 0
             /\ flow(r)'[i] = "error" => broken'[r] /\ producer'[r] \in {"failing", "closing", "finished"}
             /\ flow(r)'[i] = "done" => producer'[r] \in {"closing", "finished"}
  <2>1. i + 1 \in 1..n + 1
    OBVIOUS
  <2> QED
    BY <2>1 DEF Flow
<1> QED
  BY <1>1, <1>2 DEF Flow

LEMMA DeliverTold ==
  ASSUME StreamTypes, NEW r \in Streams, BridgeOK(r), Deliver(r)
  PROVE  BridgeOK(r)'
<1> DEFINE q == queue[r]
           p == posted[r]
<1>1. q \in Seq(Items) /\ p \in Seq(Items) /\ p # <<>> /\ Len(q) <= QueueSize
  BY DEF StreamTypes, Deliver
<1>2. /\ queue'[r] = Append(Room(r), Head(p)) /\ posted'[r] = Tail(p)
      /\ Head(p) \in Terminals => Len(q) < QueueSize
      /\ producer' = producer /\ produced' = produced /\ broken' = broken
      /\ stage' = stage /\ stop' = stop /\ got' = got /\ answer' = answer
  BY DEF Deliver, StreamTypes, thread
<1>3. flow(r) = q \o p /\ flow(r)' = Append(Room(r), Head(p)) \o Tail(p)
  BY <1>2 DEF flow
<1>4. producer[r] # "none"
  BY <1>1, <1>3 DEF BridgeOK, ThreadKnows
<1>5. CASE Len(q) # QueueSize
  <2> DEFINE f == q \o p
             g == Append(q, Head(p)) \o Tail(p)
  <2>1. Len(g) = Len(f) /\ \A i \in 1..Len(f) : g[i] = f[i]
    BY <1>1, MoveOver
  <2> HIDE DEF f, g
  <2>2. flow(r) = f /\ flow(r)' = g
    BY <1>3, <1>5 DEF Room, f, g
  <2>3. Flow(r)'
    BY <1>2, <2>1, <2>2 DEF BridgeOK, Flow, InOrder
  <2>4. ThreadKnows(r)'
    BY <1>2, <1>4 DEF BridgeOK, ThreadKnows
  <2>5. ReaderKnows(r)'
    BY <1>2, <2>1, <2>2 DEF BridgeOK, ReaderKnows
  <2> QED
    BY <2>3, <2>4, <2>5 DEF BridgeOK
<1>6. CASE Len(q) = QueueSize
  <2> DEFINE f == q \o p
             g == Append(Tail(q), Head(p)) \o Tail(p)
             n == Len(f) - 1
             k == Len(q) + 1
  <2>1. q # <<>> /\ Tail(q) \in Seq(Items)
    BY <1>1, <1>6, Bounds
  <2>2. Len(g) = Len(Tail(q) \o p) /\ \A i \in 1..Len(Tail(q) \o p) : g[i] = (Tail(q) \o p)[i]
    BY <1>1, <2>1, MoveOver
  <2>3. Len(Tail(q) \o p) = n /\ \A i \in 1..n : (Tail(q) \o p)[i] = f[i + 1]
    BY <1>1, <2>1, TakeFront
  <2>4. n \in Nat /\ Len(f) = n + 1 /\ k \in 2..n + 1 /\ f[k] = Head(p)
    <3>1. Len(f) = Len(q) + Len(p) /\ Len(q) \in Nat /\ Len(p) \in Nat
      BY <1>1
    <3>2. Len(q) > 0 /\ Len(p) > 0
      BY <1>1, <2>1
    <3>3. f[k] = Head(p)
      BY <1>1, MoveOver
    <3> HIDE DEF f, q, p
    <3> QED
      BY <3>1, <3>2, <3>3
  <2> HIDE DEF f, g, n, k
  <2>5. flow(r) = f /\ flow(r)' = g
    BY <1>3, <1>6 DEF Room, f, g
  <2>6. Len(g) = n /\ \A i \in 1..n : g[i] = f[i + 1]
    BY <2>2, <2>3
  <2>7. f[k] = "chunk"
    <3>1. Head(p) \in Items /\ Head(p) \notin Terminals
      BY <1>1, <1>2, <1>6
    <3> QED
      BY <2>4, <3>1 DEF Items
  <2>8. f[1] # "error"
    <3>1. f[1] = "error" => f[k] = "done"
      BY <2>4, <2>5 DEF BridgeOK, Flow, InOrder
    <3> QED
      BY <2>7, <3>1
  <2>9. Flow(r)'
    BY <1>2, <2>4, <2>5, <2>6, FrontGone DEF BridgeOK
  <2>10. ThreadKnows(r)'
    BY <1>2, <1>4 DEF BridgeOK, ThreadKnows
  <2>11. ReaderKnows(r)'
    <3>1. ASSUME NEW i \in 1..n + 1, f[i] = "error" PROVE \E j \in 1..n : g[j] = "error"
      <4>1. i - 1 \in 1..n /\ (i - 1) + 1 = i
        BY <2>4, <2>8, <3>1
      <4> QED
        BY <2>6, <3>1, <4>1
    <3>2. stage[r] = "reading" /\ broken[r] => \E j \in 1..n : g[j] = "error"
      BY <2>4, <2>5, <3>1 DEF BridgeOK, ReaderKnows
    <3> QED
      BY <1>2, <2>5, <2>6, <3>2 DEF BridgeOK, ReaderKnows
  <2> QED
    BY <2>9, <2>10, <2>11 DEF BridgeOK
<1> QED
  BY <1>5, <1>6

LEMMA ReadTold ==
  ASSUME StreamTypes, NEW r \in Streams, BridgeOK(r), Read(r)
  PROVE  BridgeOK(r)'
<1> DEFINE f == flow(r)
           n == Len(f) - 1
<1>1. queue[r] \in Seq(Items) /\ posted[r] \in Seq(Items) /\ queue[r] # <<>>
  BY DEF StreamTypes, Read
<1>2. /\ queue'[r] = Tail(queue[r]) /\ posted' = posted /\ stage[r] = "reading"
      /\ producer' = producer /\ produced' = produced /\ broken' = broken /\ answer' = answer
  BY DEF Read, StreamTypes, thread
<1>3. f = queue[r] \o posted[r] /\ flow(r)' = Tail(queue[r]) \o posted[r]
  BY <1>2 DEF flow
<1>4. /\ n \in Nat /\ Len(f) = n + 1 /\ Len(flow(r)') = n
      /\ \A i \in 1..n : flow(r)'[i] = f[i + 1]
      /\ Head(queue[r]) = f[1]
  <2> DEFINE a == queue[r] \o posted[r]
             b == Tail(queue[r]) \o posted[r]
  <2>1. /\ Len(b) = Len(a) - 1 /\ \A i \in 1..Len(a) - 1 : b[i] = a[i + 1]
        /\ Head(queue[r]) = a[1] /\ Len(a) >= 1
    BY <1>1, TakeFront
  <2>0. Len(a) \in Nat
    BY FlowType DEF flow
  <2> HIDE DEF a, b
  <2>2. f = a /\ flow(r)' = b
    BY <1>3 DEF a, b
  <2> HIDE DEF f
  <2> QED
    BY <2>0, <2>1, <2>2
<1>5. Flow(r)'
  BY <1>2, <1>4, FrontGone DEF BridgeOK
<1>6. producer[r] # "none"
  BY <1>4 DEF BridgeOK, ThreadKnows
<1> HIDE DEF f, n
<1>7. ASSUME NEW i \in 1..n + 1, i # 1, f[i] = "error" PROVE \E j \in 1..n : flow(r)'[j] = "error"
  <2>1. i - 1 \in 1..n /\ (i - 1) + 1 = i
    BY <1>4, <1>7
  <2> QED
    BY <1>4, <1>7, <2>1
<1>8. broken[r] => \E i \in 1..n + 1 : f[i] = "error"
  BY <1>2, <1>4 DEF BridgeOK, ReaderKnows, f
<1>9. 1 \in 1..n + 1
  BY <1>4
<1>10. CASE f[1] = "chunk"
  <2>1. got'[r] > 0 /\ stage' = stage /\ stop' = stop
    BY <1>4, <1>10 DEF Read, StreamTypes
  <2>2. produced[r] > 0
    BY <1>4, <1>9, <1>10 DEF BridgeOK, Flow, f
  <2>3. broken[r] => \E j \in 1..n : flow(r)'[j] = "error"
    BY <1>7, <1>8, <1>10
  <2>4. ThreadKnows(r)'
    BY <1>2, <1>6, <2>1 DEF BridgeOK, ThreadKnows
  <2>5. ReaderKnows(r)'
    BY <1>2, <1>4, <2>1, <2>2, <2>3 DEF BridgeOK, ReaderKnows
  <2> QED
    BY <1>5, <2>4, <2>5 DEF BridgeOK
<1>11. CASE f[1] = "error"
  <2>1. /\ stage'[r] = IF got[r] = 0 THEN "failed" ELSE "interrupted"
        /\ got[r] # 0 => ~stop'[r]
        /\ got' = got /\ got[r] \in Nat
    BY <1>4, <1>11 DEF Read, StreamTypes
  <2>2. broken[r] /\ producer[r] \in {"failing", "closing", "finished"}
    BY <1>4, <1>9, <1>11 DEF BridgeOK, Flow, f
  <2>3. ThreadKnows(r)'
    BY <1>2, <1>6, <2>2 DEF BridgeOK, ThreadKnows
  <2>4. ReaderKnows(r)'
    BY <1>2, <2>1, <2>2 DEF BridgeOK, ReaderKnows
  <2> QED
    BY <1>5, <2>3, <2>4 DEF BridgeOK
<1>12. CASE f[1] = "done"
  <2>1. stage'[r] = "complete" /\ stop' = stop /\ got' = got
    BY <1>4, <1>12 DEF Read, StreamTypes
  <2>2. producer[r] \in {"closing", "finished"}
    BY <1>4, <1>9, <1>12 DEF BridgeOK, Flow, f
  <2>3. ~broken[r]
    <3>1. \A j \in 1..n + 1 : 1 < j => f[1] # "done"
      BY <1>4, <1>9 DEF BridgeOK, Flow, InOrder, f
    <3> QED
      BY <1>4, <1>8, <1>12, <3>1
  <2>4. ThreadKnows(r)'
    BY <1>2, <1>6, <2>1 DEF BridgeOK, ThreadKnows
  <2>5. ReaderKnows(r)'
    BY <1>2, <2>1, <2>2, <2>3 DEF BridgeOK, ReaderKnows
  <2> QED
    BY <1>5, <2>4, <2>5 DEF BridgeOK
<1> QED
  BY <1>4, <1>10, <1>11, <1>12 DEF Read

\* Steps that move nothing between thread and reader.
Starts(r) ==
  /\ Stage(r, "off", "waiting")
  /\ UNCHANGED <<slots, others, lost, stop, thread, channel, got, answer>>

LEMMA FinishTold ==
  ASSUME StreamTypes, NEW r \in Streams, BridgeOK(r), Finish(r)
  PROVE  BridgeOK(r)'
<1>1. /\ stage[r] \in {"complete", "interrupted"}
      /\ stage'[r] = IF stage[r] = "complete" THEN "told" ELSE "failed"
      /\ producer' = producer /\ produced' = produced /\ broken' = broken
      /\ posted' = posted /\ queue' = queue /\ got' = got
      /\ stop'[r]
      /\ answer'[r] = [text |-> Assembled(r), noted |-> stage[r] = "interrupted"]
  BY DEF Finish, StreamTypes, thread, channel
<1>2. produced[r] > 0 /\ produced[r] \in Nat
  BY <1>1 DEF BridgeOK, ThreadKnows, ReaderKnows, StreamTypes
<1>3. Assembled(r) = produced[r]
  BY <1>2 DEF Assembled
<1>4. (stage[r] = "interrupted") = broken[r]
  <2>1. broken[r] \in BOOLEAN
    BY DEF StreamTypes
  <2>2. CASE stage[r] = "complete"
    <3>1. ~broken[r]
      BY <2>2 DEF BridgeOK, ReaderKnows
    <3> QED
      BY <2>1, <2>2, <3>1
  <2>3. CASE stage[r] = "interrupted"
    <3>1. broken[r]
      BY <2>3 DEF BridgeOK, ReaderKnows
    <3> QED
      BY <2>1, <2>3, <3>1
  <2> QED
    BY <1>1, <2>2, <2>3
<1>5. answer'[r] = [text |-> produced[r], noted |-> broken[r]]
  BY <1>1, <1>3, <1>4, Zenon
<1>6. flow(r)' = flow(r)
  BY <1>1 DEF flow
<1>7. Flow(r)'
  BY <1>1, <1>6 DEF BridgeOK, Flow
<1>8. ThreadKnows(r)'
  BY <1>1, <1>6 DEF BridgeOK, ThreadKnows
<1>9. ReaderKnows(r)'
  <2>1. producer[r] \in {"failing", "closing", "finished"}
    BY <1>1 DEF BridgeOK, ReaderKnows
  <2> QED
    BY <1>1, <1>2, <1>5, <2>1 DEF BridgeOK, ReaderKnows
<1> QED
  BY <1>7, <1>8, <1>9 DEF BridgeOK

LEMMA QuietTold ==
  ASSUME StreamTypes, NEW r \in Streams, BridgeOK(r),
         DoneSettled(r) \/ Disconnect(r) \/ TakeSlot(r) \/ NoThread(r) \/ Refuse(r) \/ Starts(r)
  PROVE  BridgeOK(r)'
<1>1. /\ produced' = produced /\ broken' = broken /\ got' = got /\ answer' = answer
      /\ posted' = posted /\ queue' = queue
  BY DEF DoneSettled, Disconnect, TakeSlot, NoThread, Refuse, Starts, thread, channel
<1>2. flow(r)' = flow(r)
  BY <1>1 DEF flow
<1>3. CASE DoneSettled(r)
  <2>1. producer[r] = "closing" /\ producer'[r] = "finished" /\ stage' = stage /\ stop' = stop
    BY <1>3 DEF DoneSettled, Producer, StreamTypes
  <2>2. Flow(r)'
    BY <1>1, <1>2, <2>1 DEF BridgeOK, Flow
  <2>3. ThreadKnows(r)'
    BY <1>1, <1>2, <2>1 DEF BridgeOK, ThreadKnows
  <2>4. ReaderKnows(r)'
    BY <1>1, <1>2, <2>1 DEF BridgeOK, ReaderKnows
  <2> QED
    BY <2>2, <2>3, <2>4 DEF BridgeOK
<1>4. CASE TakeSlot(r)
  <2>1. /\ producer[r] = "none" /\ producer'[r] = "running" /\ stop' = stop
        /\ stage[r] = "waiting" /\ stage'[r] = "reading"
    BY <1>4 DEF TakeSlot, Stage, Producer, StreamTypes
  <2>2. flow(r) = <<>> /\ ~broken[r] /\ answer[r] = NoAnswer /\ ~stop[r]
    BY <2>1 DEF BridgeOK, ThreadKnows, ReaderKnows
  <2>3. Flow(r)' /\ ThreadKnows(r)'
    BY <1>1, <1>2, <2>1, <2>2 DEF Flow, InOrder, ThreadKnows
  <2>4. ReaderKnows(r)'
    BY <1>1, <2>1, <2>2 DEF BridgeOK, ReaderKnows
  <2> QED
    BY <2>3, <2>4 DEF BridgeOK
<1>5. CASE Disconnect(r) \/ NoThread(r) \/ Refuse(r) \/ Starts(r)
  <2>1. /\ producer' = producer
        /\ \/ stage'[r] \in {"failed", "left"} /\ (stop' = stop \/ stop'[r])
           \/ stage[r] = "off" /\ stage'[r] = "waiting" /\ stop' = stop
    BY <1>5 DEF Disconnect, NoThread, Refuse, Starts, Stage, StreamTypes, thread
  <2>2. Flow(r)'
    BY <1>1, <1>2, <2>1 DEF BridgeOK, Flow
  <2>3. ThreadKnows(r)'
    BY <1>1, <1>2, <2>1 DEF BridgeOK, ThreadKnows
  <2>4. ReaderKnows(r)'
    BY <1>1, <2>1 DEF BridgeOK, ReaderKnows
  <2> QED
    BY <2>2, <2>3, <2>4 DEF BridgeOK
<1> QED
  BY <1>3, <1>4, <1>5

\* A step of one stream leaves the others alone.
LEMMA OthersTold ==
  ASSUME StreamTypes, NEW r \in Streams, BridgeStep(r) \/ Starts(r), NEW q \in Streams, q # r, BridgeOK(q)
  PROVE  BridgeOK(q)'
<1> USE DEF StreamTypes, Stage, Producer, Posts, thread, channel
<1>1. CASE Chunk(r) \/ ChunksEnd(r) \/ StreamRaises(r) \/ ErrorSettled(r) \/ DoneSettled(r)
  BY <1>1, Undisturbed DEF Chunk, ChunksEnd, StreamRaises, ErrorSettled, DoneSettled
<1>2. CASE Deliver(r)
  BY <1>2, Undisturbed DEF Deliver
<1>3. CASE TakeSlot(r) \/ NoThread(r) \/ Refuse(r) \/ Starts(r)
  BY <1>3, Undisturbed DEF TakeSlot, NoThread, Refuse, Starts
<1>4. CASE Read(r)
  BY <1>4, Undisturbed DEF Read
<1>5. CASE Finish(r) \/ Disconnect(r)
  BY <1>5, Undisturbed DEF Finish, Disconnect
<1> QED
  BY <1>1, <1>2, <1>3, <1>4, <1>5 DEF BridgeStep, ThreadStep, ReaderStep

\* What may happen to the bridge.
BridgeNext ==
  \/ OtherTakes \/ OtherReturns \/ UNCHANGED bridge
  \/ \E r \in Streams : BridgeStep(r) \/ Starts(r)

LEMMA ToldStep ==
  ASSUME StreamTypes, \A q \in Streams : BridgeOK(q), BridgeNext
  PROVE  \A q \in Streams : BridgeOK(q)'
<1>1. ASSUME NEW r \in Streams, BridgeStep(r) \/ Starts(r), NEW q \in Streams PROVE BridgeOK(q)'
  <2>1. CASE q # r
    BY <1>1, <2>1, OthersTold
  <2>2. CASE q = r
    BY <1>1, <2>2, ChunkTold, EndTold, RaisesTold, DeliverTold, ReadTold, FinishTold, QuietTold
       DEF BridgeStep, ThreadStep, ReaderStep
  <2> QED
    BY <2>1, <2>2
<1>2. ASSUME OtherTakes \/ OtherReturns \/ UNCHANGED bridge, NEW q \in Streams PROVE BridgeOK(q)'
  BY <1>2, Undisturbed DEF OtherTakes, OtherReturns, bridge, thread, channel
<1> QED
  BY <1>1, <1>2 DEF BridgeNext

-----------------------------------------------------------------------------
(* Types of the bridge, and its slots. *)

LEMMA DeliverTypes == ASSUME StreamTypes, NEW r \in Streams, Deliver(r) PROVE StreamTypes'
<1> DEFINE q == queue[r]
           x == Head(posted[r])
<1>1. q \in Seq(Items) /\ posted[r] \in Seq(Items) /\ posted[r] # <<>> /\ Len(q) <= QueueSize
  BY DEF StreamTypes, Deliver
<1>2. x \in Items /\ Tail(posted[r]) \in Seq(Items) /\ QueueSize \in Nat \ {0}
  BY <1>1, Bounds
<1>3. Append(Room(r), x) \in Seq(Items) /\ Len(Append(Room(r), x)) <= QueueSize
  <2>1. CASE Len(q) = QueueSize
    <3>1. q # <<>> /\ Room(r) = Tail(q)
      BY <1>1, <1>2, <2>1 DEF Room
    <3>2. Tail(q) \in Seq(Items) /\ Len(Tail(q)) = Len(q) - 1
      BY <1>1, <3>1
    <3> QED
      BY <1>2, <2>1, <3>1, <3>2
  <2>2. CASE Len(q) # QueueSize
    <3>1. Room(r) = q
      BY <2>2 DEF Room
    <3>2. Len(q) \in Nat
      BY <1>1
    <3> HIDE DEF q, x
    <3> QED
      BY <1>1, <1>2, <2>2, <3>1, <3>2
  <2> QED
    BY <2>1, <2>2
<1>4. /\ queue' = [queue EXCEPT ![r] = Append(Room(r), x)]
      /\ posted' = [posted EXCEPT ![r] = Tail(posted[r])]
      /\ UNCHANGED <<stage, stop, thread, got, answer>>
  BY DEF Deliver
<1> HIDE DEF x
<1>5. queue' \in [Streams -> Seq(Items)] /\ posted' \in [Streams -> Seq(Items)]
  BY <1>2, <1>3, <1>4 DEF StreamTypes
<1>6. \A s \in Streams : Len(queue'[s]) <= QueueSize
  BY <1>3, <1>4 DEF StreamTypes
<1> QED
  BY <1>4, <1>5, <1>6 DEF StreamTypes, thread

LEMMA ThreadTypes == ASSUME StreamTypes, NEW r \in Streams, ThreadStep(r) PROVE StreamTypes'
<1>1. ASSUME NEW x \in Items, Posts(r, x) PROVE posted' \in [Streams -> Seq(Items)]
  BY <1>1 DEF StreamTypes, Posts
<1>2. "chunk" \in Items /\ "error" \in Items /\ "done" \in Items
  BY DEF Items, Terminals
<1>3. CASE Chunk(r)
  BY <1>1, <1>2, <1>3 DEF Chunk, StreamTypes
<1>4. CASE ChunksEnd(r) \/ ErrorSettled(r)
  BY <1>1, <1>2, <1>4 DEF ChunksEnd, ErrorSettled, Producer, StreamTypes, Busy
<1>5. CASE StreamRaises(r)
  BY <1>1, <1>2, <1>5 DEF StreamRaises, Producer, StreamTypes, Busy
<1>6. CASE DoneSettled(r)
  BY <1>6 DEF DoneSettled, Producer, StreamTypes, channel
<1> QED
  BY <1>3, <1>4, <1>5, <1>6 DEF ThreadStep

LEMMA ReaderTypes ==
  ASSUME StreamTypes, NEW r \in Streams, ReaderStep(r) \/ Starts(r)
  PROVE  StreamTypes'
<1>1. CASE TakeSlot(r) \/ NoThread(r) \/ Refuse(r) \/ Starts(r)
  BY <1>1 DEF TakeSlot, NoThread, Refuse, Starts, Stage, Producer, StreamTypes, Busy, BridgeOver,
     thread, channel
<1>2. CASE Read(r)
  <2>1. queue[r] \in Seq(Items) /\ queue[r] # <<>> /\ Len(queue[r]) <= QueueSize
    BY <1>2 DEF Read, StreamTypes
  <2>2. Tail(queue[r]) \in Seq(Items) /\ Len(Tail(queue[r])) = Len(queue[r]) - 1
    BY <2>1
  <2>3. Len(Tail(queue[r])) <= QueueSize
    BY <2>1, <2>2, Bounds
  <2>4. queue' = [queue EXCEPT ![r] = Tail(queue[r])]
    BY <1>2 DEF Read
  <2>5. queue' \in [Streams -> Seq(Items)] /\ \A s \in Streams : Len(queue'[s]) <= QueueSize
    BY <2>2, <2>3, <2>4 DEF StreamTypes
  <2>6. /\ stage' \in [Streams -> {"off", "waiting", "reading", "interrupted", "complete"} \cup BridgeOver]
        /\ got' \in [Streams -> Nat] /\ stop' \in [Streams -> BOOLEAN]
    <3>1. CASE UNCHANGED <<stage, stop>> /\ got' = [got EXCEPT ![r] = @ + 1]
      BY <3>1 DEF StreamTypes
    <3>2. ASSUME NEW b \in BOOLEAN, NEW s \in {"failed", "interrupted"}, got' = got,
                 stage' = [stage EXCEPT ![r] = s], stop' = [stop EXCEPT ![r] = b]
          PROVE  /\ stage' \in [Streams -> {"off", "waiting", "reading", "interrupted", "complete"} \cup BridgeOver]
                 /\ got' \in [Streams -> Nat] /\ stop' \in [Streams -> BOOLEAN]
      BY <3>2 DEF StreamTypes, BridgeOver
    <3>3. CASE /\ stage' = [stage EXCEPT ![r] = IF got[r] = 0 THEN "failed" ELSE "interrupted"]
               /\ stop' = [stop EXCEPT ![r] = got[r] = 0] /\ UNCHANGED got
      <4>1. CASE got[r] = 0
        BY <3>2, <3>3, <4>1
      <4>2. CASE got[r] # 0
        BY <3>2, <3>3, <4>2
      <4> QED
        BY <4>1, <4>2
    <3>4. CASE stage' = [stage EXCEPT ![r] = "complete"] /\ UNCHANGED <<got, stop>>
      BY <3>4 DEF StreamTypes
    <3> QED
      BY <1>2, <3>1, <3>3, <3>4 DEF Read
  <2>7. UNCHANGED <<thread, posted, answer>>
    BY <1>2 DEF Read
  <2> QED
    BY <2>5, <2>6, <2>7 DEF StreamTypes, thread
<1>3. CASE Finish(r)
  <2>1. Assembled(r) \in Nat
    BY DEF StreamTypes, Assembled
  <2> QED
    BY <1>3, <2>1 DEF Finish, StreamTypes, BridgeOver, Answers, thread, channel
<1>4. CASE Disconnect(r)
  BY <1>4 DEF Disconnect, StreamTypes, BridgeOver, thread, channel
<1> QED
  BY <1>1, <1>2, <1>3, <1>4 DEF ReaderStep

LEMMA StreamTypesStep == ASSUME StreamTypes, BridgeNext PROVE StreamTypes'
<1>1. ASSUME OtherTakes \/ OtherReturns \/ UNCHANGED bridge PROVE StreamTypes'
  BY <1>1 DEF OtherTakes, OtherReturns, bridge, StreamTypes, thread, channel
<1> QED
  BY <1>1, DeliverTypes, ThreadTypes, ReaderTypes DEF BridgeNext, BridgeStep

\* The set of threads that hold a slot changes where the counter does.
LEMMA SlotsStep == ASSUME StreamTypes, Slots, BridgeNext PROVE Slots'
<1> DEFINE held == Cardinality(Active)
<1>1. IsFiniteSet(Active) /\ held \in Nat
  BY Bounds, FS_Subset, FS_CardinalityType DEF Active
<1>2. MaxProducers \in Nat
  BY Bounds
<1>3. ASSUME Active' = Active, slots' + others' + lost' = slots + others + lost,
             slots' \in Nat, others' \in Nat, lost' \in Nat
      PROVE  Slots'
  BY <1>1, <1>2, <1>3 DEF Slots
<1>4. producer' = producer => Active' = Active
  BY DEF Active
<1>5. CASE OtherTakes \/ OtherReturns \/ UNCHANGED bridge
  BY <1>3, <1>4, <1>5 DEF OtherTakes, OtherReturns, bridge, thread, Slots
<1>6. ASSUME NEW r \in Streams, TakeSlot(r) PROVE Slots'
  <2>1. /\ producer[r] = "none" /\ producer' = [producer EXCEPT ![r] = "running"]
        /\ slots > 0 /\ slots' = slots - 1 /\ others' = others /\ lost' = lost
    BY <1>6 DEF TakeSlot, Producer
  <2>2. r \notin Active /\ Active' = Active \cup {r}
    BY <2>1 DEF Active, Busy, StreamTypes
  <2>3. Cardinality(Active \cup {r}) = held + 1
    BY <1>1, <2>2, FS_AddElement
  <2> HIDE DEF held
  <2>4. Cardinality(Active') = held + 1
    BY <2>2, <2>3
  <2>5. slots + others + lost + held = MaxProducers
    BY DEF Slots, held
  <2>6. slots' + others' + lost' + Cardinality(Active') = MaxProducers
    BY <1>1, <2>1, <2>4, <2>5 DEF Slots
  <2> QED
    BY <2>1, <2>6 DEF Slots
<1>7. ASSUME NEW r \in Streams, DoneSettled(r) PROVE Slots'
  <2>1. /\ producer[r] = "closing" /\ producer' = [producer EXCEPT ![r] = "finished"]
        /\ slots' = slots + 1 /\ others' = others /\ lost' = lost
    BY <1>7 DEF DoneSettled, Producer, Releases
  <2>2. r \in Active /\ Active' = Active \ {r}
    BY <2>1 DEF Active, Busy, StreamTypes
  <2>3. Cardinality(Active \ {r}) = held - 1
    BY <1>1, <2>2, FS_RemoveElement
  <2> HIDE DEF held
  <2>4. Cardinality(Active') = held - 1
    BY <2>2, <2>3
  <2>5. slots + others + lost + held = MaxProducers
    BY DEF Slots, held
  <2>6. slots' + others' + lost' + Cardinality(Active') = MaxProducers
    BY <1>1, <2>1, <2>4, <2>5 DEF Slots
  <2> QED
    BY <2>1, <2>6 DEF Slots
<1>8. ASSUME NEW r \in Streams, ChunksEnd(r) \/ StreamRaises(r) \/ ErrorSettled(r) PROVE Slots'
  <2>1. /\ producer[r] \in Busy
        /\ \E b \in Busy : producer' = [producer EXCEPT ![r] = b]
        /\ slots' = slots /\ others' = others /\ lost' = lost
    BY <1>8 DEF ChunksEnd, StreamRaises, ErrorSettled, Producer, Busy
  <2>2. Active' = Active
    BY <2>1 DEF Active, StreamTypes
  <2> QED
    BY <1>3, <2>1, <2>2 DEF Slots
<1>9. ASSUME NEW r \in Streams, NoThread(r) PROVE Slots'
  BY <1>3, <1>4, <1>9 DEF NoThread, thread, Slots
<1>10. ASSUME NEW r \in Streams,
              Chunk(r) \/ Deliver(r) \/ Refuse(r) \/ Read(r) \/ Finish(r) \/ Disconnect(r) \/ Starts(r)
       PROVE  Slots'
  BY <1>3, <1>4, <1>10 DEF Chunk, Deliver, Refuse, Read, Finish, Disconnect, Starts, thread, Slots
<1> QED
  BY <1>5, <1>6, <1>7, <1>8, <1>9, <1>10 DEF BridgeNext, BridgeStep, ThreadStep, ReaderStep

-----------------------------------------------------------------------------
(* The bridge as the conversations use it. *)

LEMMA BridgeStarts == Init => BridgeInv
<1> SUFFICES ASSUME Init PROVE BridgeInv
  OBVIOUS
<1>1. StreamTypes
  BY Bounds DEF Init, BridgeInit, StreamTypes
<1>2. Slots
  <2>1. Active = {}
    BY DEF Init, BridgeInit, Active, Busy
  <2> QED
    BY <2>1, Bounds, FS_EmptySet DEF Init, BridgeInit, Slots
<1>3. \A r \in Streams : BridgeOK(r)
  <2> SUFFICES ASSUME NEW r \in Streams PROVE BridgeOK(r)
    OBVIOUS
  <2>1. flow(r) = <<>>
    BY DEF Init, BridgeInit, flow
  <2> QED
    BY <2>1 DEF Init, BridgeInit, BridgeOK, Flow, InOrder, ThreadKnows, ReaderKnows
<1> QED
  BY <1>1, <1>2, <1>3 DEF BridgeInv

LEMMA BridgeSteps == [Next]_vars => BridgeNext
<1>1. ASSUME NEW t \in Turns, StreamStarts(t) PROVE BridgeNext
  BY <1>1 DEF StreamStarts, BridgeNext, Starts
<1>2. ASSUME NEW t \in Turns, Turn(t), ~StreamStarts(t) PROVE UNCHANGED bridge
  BY <1>2 DEF Turn, Lock, NotFound, Known, Create, Fail, Answered, HandOver, NeverStarts, AgentRuns,
     StreamOver, StreamLeft, AppendExchange
<1>3. ASSUME NEW t \in Streams, Streaming(t) \/ Outlives(t) PROVE BridgeNext
  BY <1>3 DEF Streaming, Outlives, BridgeNext, BridgeStep
<1>4. ASSUME NEW s \in Ids, NEW t \in Turns, Begin(t, s) PROVE UNCHANGED bridge
  BY <1>4 DEF Begin
<1>5. ASSUME NEW s \in Sids, Collect(s) \/ Drop(s) PROVE UNCHANGED bridge
  BY <1>5 DEF Collect, Drop
<1>6. Elsewhere => BridgeNext
  BY DEF Elsewhere, BridgeNext
<1>7. UNCHANGED vars => BridgeNext
  BY DEF vars, BridgeNext
<1> QED
  BY <1>1, <1>2, <1>3, <1>4, <1>5, <1>6, <1>7 DEF Next, BridgeNext

LEMMA BridgeHolds == Spec => []BridgeInv
<1>1. BridgeInv /\ BridgeNext => BridgeInv'
  BY StreamTypesStep, SlotsStep, ToldStep DEF BridgeInv
<1> QED
  BY <1>1, BridgeStarts, BridgeSteps, PTL DEF Spec

\* Every slot is free, held, or lost: none is released twice or kept, whatever fails.
THEOREM SlotsConservedAlways == Spec => []SlotsConserved
<1>1. BridgeInv => SlotsConserved
  BY DEF BridgeInv, Slots, SlotsConserved, Active, Busy
<1> QED
  BY <1>1, BridgeHolds, PTL

\* The answer of a done event is all that the model generated, and says so if it broke off.
THEOREM ToldTheTruthAlways == Spec => []ToldTheTruth
<1>1. BridgeInv => ToldTheTruth
  BY DEF BridgeInv, BridgeOK, ReaderKnows, ToldTheTruth
<1> QED
  BY <1>1, BridgeHolds, PTL

-----------------------------------------------------------------------------
(* The sessions. *)

Places == {"new", "lock", "read", "work", "handed", "dropped", "stream", "append", "over"}
Held == {"read", "work", "handed", "stream", "append"}
Mine(t) == IF asked[t] = NoSid THEN NewId[t] ELSE asked[t]

ChatTypes ==
  /\ sessions \in [Sids -> Sessions \cup {NoSession}]
  /\ holder \in [Sids -> Turns \cup {NoTurn}]
  /\ pc \in [Turns -> Places]
  /\ asked \in [Turns -> Ids]
  /\ sid \in [Turns -> Ids]
  /\ saw \in [Turns -> Seq(Turns)]
  /\ given \subseteq Sids
  /\ gone \in 0..MaxGone
  /\ cut \subseteq Turns

\* A turn with an id holds its lock, and works on the session of that id.
Locked(t) ==
  /\ pc[t] = "lock" => asked[t] # NoSid
  /\ pc[t] \in Held /\ asked[t] # NoSid => holder[asked[t]] = t
  /\ pc[t] \in Held \ {"read"} => sid[t] = Mine(t)
  /\ pc[t] \in {"new", "lock", "read"} => saw[t] = <<>>

\* What it read is up to date for as long as it works.
Reading(t) ==
  pc[t] \in Held \ {"read"} /\ asked[t] # NoSid /\ t \notin cut => UpToDate(t)

\* What a session holds was said by turns that are over.
Said(s) == Exists(s) => \A i \in DOMAIN sessions[s].log : pc[sessions[s].log[i]] = "over"

ChatInv ==
  /\ ChatTypes
  /\ \A t \in Turns : Locked(t) /\ Reading(t)
  /\ \A s \in Sids : Said(s)

LEMMA ChatConstants ==
  /\ NewId \in [Turns -> Sids] /\ MaxTurns \in Nat \ {0} /\ MaxGone \in Nat
  /\ NoSid \notin Sids /\ NoTurn \notin Turns /\ NoSession \notin Sessions
  /\ \A t \in Turns : OwnerOf[t] \in Range(OwnerOf)
BY ChatAssumption DEF Sessions, Range

LEMMA ChatStarts == Init => ChatInv
BY ChatConstants
   DEF Init, ChatInv, ChatTypes, Places, Ids, Locked, Reading, Said, Exists, Held

\* A session without an exchange, or with one more.
LEMMA EmptySession ==
  ASSUME NEW t \in Turns
  PROVE  [owner |-> OwnerOf[t], log |-> <<>>] \in Sessions
BY ChatConstants DEF Sessions

LEMMA TrimmedLog ==
  ASSUME NEW log \in Seq(Turns)
  PROVE  /\ Trimmed(log) \in Seq(Turns)
         /\ \A i \in DOMAIN Trimmed(log) : \E j \in DOMAIN log : Trimmed(log)[i] = log[j]
         /\ Len(Trimmed(log)) < MaxTurns => Trimmed(log) = log
<1>1. Len(log) \in Nat /\ MaxTurns \in Nat \ {0}
  BY ChatConstants
<1>2. CASE Len(log) > MaxTurns
  <2> DEFINE k == Len(log) - MaxTurns
  <2>1. Trimmed(log) = SubSeq(log, k + 1, Len(log)) /\ k \in 1..Len(log)
    BY <1>1, <1>2 DEF Trimmed
  <2>2. /\ SubSeq(log, k + 1, Len(log)) \in Seq(Turns)
        /\ Len(SubSeq(log, k + 1, Len(log))) = Len(log) - k
        /\ \A i \in 1..Len(log) - k : SubSeq(log, k + 1, Len(log))[i] = log[k + i]
    BY <1>1, <2>1
  <2>3. Len(log) - k = MaxTurns
    BY <1>1
  <2>4. \A i \in 1..MaxTurns : k + i \in 1..Len(log)
    BY <1>1, <2>1
  <2> HIDE DEF k
  <2>5. /\ Trimmed(log) \in Seq(Turns) /\ Len(Trimmed(log)) = MaxTurns
        /\ DOMAIN Trimmed(log) = 1..MaxTurns
        /\ \A i \in 1..MaxTurns : Trimmed(log)[i] = log[k + i]
    BY <2>1, <2>2, <2>3
  <2>6. \A i \in 1..MaxTurns : Trimmed(log)[i] = log[k + i] /\ k + i \in DOMAIN log
    BY <2>4, <2>5
  <2> QED
    BY <1>1, <2>5, <2>6
<1>3. CASE ~(Len(log) > MaxTurns)
  BY <1>3 DEF Trimmed
<1> QED
  BY <1>2, <1>3

LEMMA NewLog ==
  ASSUME ChatTypes, NEW t \in Turns, sid[t] \in Sids
  PROVE  LET old == IF Exists(sid[t]) THEN sessions[sid[t]].log ELSE <<>> IN
         /\ WithExchange(t) \in Sessions
         /\ WithExchange(t).log = Trimmed(Append(old, t))
         /\ old \in Seq(Turns)
<1> DEFINE now == IF Exists(sid[t]) THEN sessions[sid[t]] ELSE [owner |-> OwnerOf[t], log |-> <<>>]
<1>1. now \in Sessions
  BY EmptySession DEF ChatTypes, Exists
<1>2. /\ now.owner \in Range(OwnerOf) /\ now.log \in Seq(Turns)
      /\ now.log = IF Exists(sid[t]) THEN sessions[sid[t]].log ELSE <<>>
  <2>1. now.owner \in Range(OwnerOf) /\ now.log \in Seq(Turns)
    <3> HIDE DEF now
    <3> QED
      BY <1>1 DEF Sessions
  <2> QED
    BY <2>1
<1>3. WithExchange(t) = [now EXCEPT !.log = Trimmed(Append(now.log, t))]
  BY DEF WithExchange
<1> HIDE DEF now
<1>4. Append(now.log, t) \in Seq(Turns)
  BY <1>2
<1>5. Trimmed(Append(now.log, t)) \in Seq(Turns)
  BY <1>4, TrimmedLog
<1>6. /\ [now EXCEPT !.log = Trimmed(Append(now.log, t))] \in Sessions
      /\ [now EXCEPT !.log = Trimmed(Append(now.log, t))].log = Trimmed(Append(now.log, t))
  BY <1>1, <1>5 DEF Sessions
<1> QED
  BY <1>2, <1>3, <1>6

\* The steps of a turn that leave the sessions as they are, by what they do to its lock.
RestStays == UNCHANGED <<sessions, asked, sid, saw, given, gone, cut>>
Takes(t) == pc[t] = "lock" /\ pc' = [pc EXCEPT ![t] = "read"] /\ Acquires(t) /\ RestStays
Exits(t) == pc[t] \in Held /\ pc' = [pc EXCEPT ![t] = "over"] /\ Unlocks(t) /\ RestStays
Passes(t) ==
  /\ pc[t] \in Held \ {"read"}
  /\ \E there \in (Held \ {"read"}) \cup {"dropped"} : pc' = [pc EXCEPT ![t] = there]
  /\ holder' = holder /\ RestStays

LEMMA Moves ==
  ASSUME NEW t \in Turns, Turn(t)
  PROVE  \/ Takes(t) \/ Exits(t) \/ Passes(t)
         \/ Known(t) \/ Create(t) \/ AppendExchange(t)
<1> USE DEF Goes, RestStays, Held
<1>1. CASE Lock(t)
  BY <1>1 DEF Lock, Takes
<1>2. CASE NotFound(t) \/ Fail(t) \/ StreamLeft(t)
  BY <1>2 DEF NotFound, Fail, StreamLeft, Exits
<1>3. CASE Answered(t) \/ HandOver(t) \/ NeverStarts(t) \/ StreamStarts(t)
  BY <1>3 DEF Answered, HandOver, NeverStarts, StreamStarts, Passes
<1>4. CASE AgentRuns(t) \/ StreamOver(t)
  BY <1>4 DEF AgentRuns, StreamOver, Exits, Passes
<1> QED
  BY <1>1, <1>2, <1>3, <1>4 DEF Turn

LEMMA ChatTypesStep ==
  ASSUME ChatTypes, \A t \in Turns : Locked(t), [Next]_vars
  PROVE  ChatTypes'
<1>1. ASSUME NEW t \in Turns, Takes(t) \/ Exits(t) \/ Passes(t) PROVE ChatTypes'
  <2>1. UNCHANGED <<sessions, asked, sid, saw, given, gone, cut>>
    BY <1>1 DEF Takes, Exits, Passes, RestStays
  <2>2. pc' \in [Turns -> Places]
    BY <1>1 DEF Takes, Exits, Passes, ChatTypes, Places, Held
  <2>3. holder' \in [Sids -> Turns \cup {NoTurn}]
    BY <1>1 DEF Takes, Exits, Passes, Acquires, Unlocks, ChatTypes
  <2> QED
    BY <2>1, <2>2, <2>3 DEF ChatTypes
<1>2. ASSUME NEW t \in Turns, Known(t) PROVE ChatTypes'
  <2>1. asked[t] \in Sids /\ sessions[asked[t]] \in Sessions
    BY <1>2 DEF Known, Exists, ChatTypes, Ids
  <2>2. sessions[asked[t]].log \in Seq(Turns)
    BY <2>1 DEF Sessions
  <2> QED
    BY <1>2, <2>1, <2>2 DEF Known, Goes, ChatTypes, Places, Ids
<1>3. ASSUME NEW t \in Turns, Create(t) PROVE ChatTypes'
  <2>1. Mine(t) \in Sids
    BY ChatConstants DEF ChatTypes, Mine, Ids
  <2>2. /\ sid' = [sid EXCEPT ![t] = Mine(t)]
        /\ sessions' = [sessions EXCEPT ![Mine(t)] = [owner |-> OwnerOf[t], log |-> <<>>]]
        /\ pc' = [pc EXCEPT ![t] = "work"]
        /\ UNCHANGED <<holder, asked, saw, given, gone, cut>>
    BY <1>3 DEF Create, Goes, Mine
  <2>3. sessions' \in [Sids -> Sessions \cup {NoSession}]
    BY <2>1, <2>2, EmptySession DEF ChatTypes
  <2>4. sid' \in [Turns -> Ids] /\ pc' \in [Turns -> Places]
    BY <2>1, <2>2 DEF ChatTypes, Ids, Places
  <2> QED
    BY <2>2, <2>3, <2>4 DEF ChatTypes
<1>4. ASSUME NEW t \in Turns, AppendExchange(t) PROVE ChatTypes'
  <2>1. sid[t] \in Sids
    BY <1>4, ChatConstants DEF AppendExchange, Goes, Locked, Held, Mine, ChatTypes, Ids
  <2>2. WithExchange(t) \in Sessions
    BY <2>1, NewLog
  <2>3. sessions' \in [Sids -> Sessions \cup {NoSession}] /\ given' \subseteq Sids
    BY <1>4, <2>1, <2>2 DEF AppendExchange, ChatTypes
  <2>4. holder' \in [Sids -> Turns \cup {NoTurn}]
    BY <1>4 DEF AppendExchange, Unlocks, ChatTypes
  <2>5. pc' \in [Turns -> Places] /\ UNCHANGED <<asked, sid, saw, gone, cut>>
    BY <1>4 DEF AppendExchange, Goes, ChatTypes, Places
  <2> QED
    BY <2>3, <2>4, <2>5 DEF ChatTypes
<1>5. ASSUME NEW t \in Turns, NEW s \in Ids, Begin(t, s) PROVE ChatTypes'
  BY <1>5 DEF Begin, Goes, ChatTypes, Places
<1>6. ASSUME NEW t \in Streams, Streaming(t) PROVE ChatTypes'
  <2>1. t \in Turns
    BY ChatAssumption
  <2>2. sid[t] \in Sids
    BY <1>6, <2>1, ChatConstants DEF Streaming, Locked, Held, Mine, ChatTypes, Ids
  <2> QED
    BY <1>6, <2>2 DEF Streaming, ChatTypes
<1>7. ASSUME NEW t \in Streams, Outlives(t) PROVE ChatTypes'
  BY <1>7 DEF Outlives, chat, ChatTypes
<1>8. ASSUME NEW s \in Sids, Collect(s) PROVE ChatTypes'
  BY <1>8 DEF Collect, ChatTypes
<1>9. ASSUME NEW s \in Sids, Drop(s) PROVE ChatTypes'
  BY <1>9, ChatConstants DEF Drop, ChatTypes, Running
<1>10. CASE Elsewhere \/ UNCHANGED vars
  BY <1>10 DEF Elsewhere, vars, chat, ChatTypes
<1> QED
  BY <1>1, <1>2, <1>3, <1>4, <1>5, <1>6, <1>7, <1>8, <1>9, <1>10, Moves DEF Next

\* Whose lock it is, and where a turn's session is.
LEMMA LockedStep ==
  ASSUME ChatTypes, \A t \in Turns : Locked(t), [Next]_vars
  PROVE  \A t \in Turns : Locked(t)'
<1> USE DEF Locked, Held
<1>1. ASSUME NEW u \in Turns, pc'[u] = pc[u], asked'[u] = asked[u], sid'[u] = sid[u], saw'[u] = saw[u],
             pc[u] \in Held /\ asked[u] # NoSid => holder'[asked[u]] = holder[asked[u]]
      PROVE  Locked(u)'
  BY <1>1 DEF Mine
<1>2. ASSUME NEW t \in Turns, Takes(t) PROVE \A u \in Turns : Locked(u)'
  <2>1. asked[t] # NoSid /\ holder[asked[t]] = NoTurn /\ holder' = [holder EXCEPT ![asked[t]] = t]
    BY <1>2 DEF Takes, Acquires
  <2>2. pc' = [pc EXCEPT ![t] = "read"] /\ pc[t] = "lock" /\ UNCHANGED <<asked, sid, saw>>
    BY <1>2 DEF Takes, RestStays
  <2>3. asked[t] \in Sids
    BY <2>1 DEF ChatTypes, Ids
  <2>4. Locked(t)'
    BY <2>1, <2>2, <2>3 DEF ChatTypes
  <2>5. ASSUME NEW u \in Turns, u # t, pc[u] \in Held, asked[u] # NoSid
        PROVE  holder'[asked[u]] = holder[asked[u]]
    <3>1. holder[asked[u]] = u
      BY <2>5
    <3>2. asked[u] # asked[t]
      BY <2>1, <3>1, ChatConstants
    <3> QED
      BY <2>1, <3>2 DEF ChatTypes
  <2>6. ASSUME NEW u \in Turns, u # t PROVE Locked(u)'
    BY <1>1, <2>2, <2>5, <2>6 DEF ChatTypes
  <2> QED
    BY <2>4, <2>6
<1>3. ASSUME NEW t \in Turns, pc[t] \in Held, pc' = [pc EXCEPT ![t] = "over"], Unlocks(t),
             UNCHANGED <<asked, sid, saw>>
      PROVE  \A u \in Turns : Locked(u)'
  <2>1. Locked(t)'
    BY <1>3 DEF ChatTypes
  <2>2. ASSUME NEW u \in Turns, u # t, pc[u] \in Held, asked[u] # NoSid
        PROVE  holder'[asked[u]] = holder[asked[u]]
    <3>1. CASE asked[t] = NoSid
      BY <1>3, <3>1 DEF Unlocks
    <3>2. CASE asked[t] # NoSid
      <4>1. holder[asked[u]] = u /\ holder[asked[t]] = t
        BY <1>3, <2>2, <3>2
      <4>2. asked[u] # asked[t]
        BY <2>2, <4>1
      <4>3. holder' = [holder EXCEPT ![asked[t]] = NoTurn]
        BY <1>3, <3>2 DEF Unlocks
      <4> QED
        BY <4>2, <4>3 DEF ChatTypes
    <3> QED
      BY <3>1, <3>2
  <2>3. ASSUME NEW u \in Turns, u # t PROVE Locked(u)'
    BY <1>1, <1>3, <2>2, <2>3 DEF ChatTypes
  <2> QED
    BY <2>1, <2>3
<1>4. ASSUME NEW t \in Turns, Exits(t) \/ AppendExchange(t) PROVE \A u \in Turns : Locked(u)'
  BY <1>3, <1>4 DEF Exits, RestStays, AppendExchange, Goes
<1>5. ASSUME NEW t \in Turns, Passes(t) PROVE \A u \in Turns : Locked(u)'
  <2>1. UNCHANGED <<asked, sid, saw, holder>>
    BY <1>5 DEF Passes, RestStays
  <2>2. ASSUME NEW u \in Turns, u # t PROVE Locked(u)'
    BY <1>1, <1>5, <2>1, <2>2 DEF Passes, ChatTypes
  <2>3. Locked(t)'
    BY <1>5, <2>1 DEF Passes, ChatTypes, Mine
  <2> QED
    BY <2>2, <2>3
<1>6. ASSUME NEW t \in Turns, Known(t) \/ Create(t) PROVE \A u \in Turns : Locked(u)'
  <2>1. /\ pc[t] = "read" /\ pc' = [pc EXCEPT ![t] = "work"] /\ UNCHANGED <<asked, holder>>
        /\ sid' = [sid EXCEPT ![t] = Mine(t)]
        /\ \A u \in Turns : u # t => saw'[u] = saw[u]
    BY <1>6 DEF Known, Create, Goes, Mine, ChatTypes
  <2>2. ASSUME NEW u \in Turns, u # t PROVE Locked(u)'
    BY <1>1, <2>1, <2>2 DEF ChatTypes
  <2>3. Locked(t)'
    BY <2>1 DEF ChatTypes, Mine
  <2> QED
    BY <2>2, <2>3
<1>7. ASSUME NEW t \in Turns, NEW s \in Ids, Begin(t, s) PROVE \A u \in Turns : Locked(u)'
  <2>1. /\ pc[t] = "new" /\ pc' = [pc EXCEPT ![t] = IF s = NoSid THEN "read" ELSE "lock"]
        /\ asked' = [asked EXCEPT ![t] = s] /\ UNCHANGED <<sid, saw, holder>>
    BY <1>7 DEF Begin, Goes
  <2>2. ASSUME NEW u \in Turns, u # t PROVE Locked(u)'
    BY <1>1, <2>1, <2>2 DEF ChatTypes
  <2>3. Locked(t)'
    BY <2>1 DEF ChatTypes
  <2> QED
    BY <2>2, <2>3
<1>8. ASSUME NEW s \in Sids, Collect(s) PROVE \A u \in Turns : Locked(u)'
  <2>1. /\ pc[holder[s]] = "dropped" /\ holder' = [holder EXCEPT ![s] = NoTurn]
        /\ UNCHANGED <<pc, asked, sid, saw>>
    BY <1>8 DEF Collect, Stranded
  <2>2. ASSUME NEW u \in Turns, pc[u] \in Held, asked[u] # NoSid
        PROVE  holder'[asked[u]] = holder[asked[u]]
    <3>1. holder[asked[u]] = u
      BY <2>2
    <3>2. asked[u] # s
      BY <2>1, <2>2, <3>1
    <3> QED
      BY <2>1, <3>2 DEF ChatTypes
  <2> QED
    BY <1>1, <2>1, <2>2
<1>9. UNCHANGED <<pc, asked, sid, saw, holder>> => \A u \in Turns : Locked(u)'
  BY <1>1
<1>10. ASSUME NEW t \in Streams, Streaming(t) \/ Outlives(t) PROVE UNCHANGED <<pc, asked, sid, saw, holder>>
  BY <1>10 DEF Streaming, Outlives, chat
<1>11. ASSUME NEW s \in Sids, Drop(s) PROVE UNCHANGED <<pc, asked, sid, saw, holder>>
  BY <1>11 DEF Drop
<1>12. Elsewhere \/ UNCHANGED vars => UNCHANGED <<pc, asked, sid, saw, holder>>
  BY DEF Elsewhere, vars, chat
<1> QED
  BY <1>2, <1>4, <1>5, <1>6, <1>7, <1>8, <1>9, <1>10, <1>11, <1>12, Moves DEF Next

\* A turn that is over stays over; a turn that came with an id keeps it.
LEMMA OverStays ==
  ASSUME ChatTypes, [Next]_vars, NEW u \in Turns
  PROVE  /\ pc[u] = "over" => pc'[u] = "over"
         /\ pc[u] # "new" => asked'[u] = asked[u]
<1>1. ASSUME NEW t \in Turns, Takes(t) \/ Exits(t) \/ Passes(t)
      PROVE  asked' = asked /\ (pc[u] = "over" => pc'[u] = "over")
  BY <1>1 DEF Takes, Exits, Passes, RestStays, Held, ChatTypes
<1>2. ASSUME NEW t \in Turns, Known(t) \/ Create(t) \/ AppendExchange(t)
      PROVE  asked' = asked /\ (pc[u] = "over" => pc'[u] = "over")
  BY <1>2 DEF Known, Create, AppendExchange, Goes, ChatTypes
<1>3. ASSUME NEW t \in Turns, NEW s \in Ids, Begin(t, s)
      PROVE  /\ pc[u] = "over" => pc'[u] = "over"
             /\ pc[u] # "new" => asked'[u] = asked[u]
  BY <1>3 DEF Begin, Goes, ChatTypes
<1>4. ASSUME NEW t \in Streams, Streaming(t) \/ Outlives(t) PROVE UNCHANGED <<pc, asked>>
  BY <1>4 DEF Streaming, Outlives, chat
<1>5. ASSUME NEW s \in Sids, Collect(s) \/ Drop(s) PROVE UNCHANGED <<pc, asked>>
  BY <1>5 DEF Collect, Drop
<1>6. Elsewhere \/ UNCHANGED vars => UNCHANGED <<pc, asked>>
  BY DEF Elsewhere, vars, chat
<1> QED
  BY <1>1, <1>2, <1>3, <1>4, <1>5, <1>6, Moves DEF Next

\* How a step changes one session: not at all, or as one of these says.
LEMMA SessionSteps ==
  ASSUME ChatTypes, \A t \in Turns : Locked(t), [Next]_vars, NEW s \in Sids
  PROVE  \/ sessions'[s] = sessions[s]
         \/ \E t \in Turns : Create(t) /\ ~Exists(s) /\ sessions'[s].log = <<>>
         \/ \E t \in Turns : AppendExchange(t) /\ sid[t] = s /\ sessions'[s] = WithExchange(t)
         \/ Drop(s) /\ sessions'[s] = NoSession
<1>1. ASSUME NEW t \in Turns, Takes(t) \/ Exits(t) \/ Passes(t) \/ Known(t) PROVE sessions' = sessions
  BY <1>1 DEF Takes, Exits, Passes, RestStays, Known
<1>2. ASSUME NEW t \in Turns, Create(t), sessions'[s] # sessions[s]
      PROVE  ~Exists(s) /\ sessions'[s].log = <<>>
  <2>1. /\ sessions' = [sessions EXCEPT ![Mine(t)] = [owner |-> OwnerOf[t], log |-> <<>>]]
        /\ ~Exists(Mine(t))
    BY <1>2 DEF Create, Mine
  <2> QED
    BY <1>2, <2>1 DEF ChatTypes
<1>3. ASSUME NEW t \in Turns, AppendExchange(t), sessions'[s] # sessions[s]
      PROVE  sid[t] = s /\ sessions'[s] = WithExchange(t)
  BY <1>3 DEF AppendExchange, ChatTypes
<1>4. ASSUME NEW r \in Sids, Drop(r), sessions'[s] # sessions[s]
      PROVE  r = s /\ sessions'[s] = NoSession
  BY <1>4 DEF Drop, ChatTypes
<1>5. ASSUME NEW t \in Streams, Streaming(t) \/ Outlives(t) PROVE sessions' = sessions
  BY <1>5 DEF Streaming, Outlives, chat
<1>6. ASSUME NEW r \in Sids, Collect(r) PROVE sessions' = sessions
  BY <1>6 DEF Collect
<1>7. ASSUME NEW t \in Turns, NEW r \in Ids, Begin(t, r) PROVE sessions' = sessions
  BY <1>7 DEF Begin
<1>8. Elsewhere \/ UNCHANGED vars => sessions' = sessions
  BY DEF Elsewhere, vars, chat
<1> QED
  BY <1>1, <1>2, <1>3, <1>4, <1>5, <1>6, <1>7, <1>8, Moves DEF Next

LEMMA SaidStep ==
  ASSUME ChatInv, [Next]_vars, NEW s \in Sids
  PROVE  Said(s)'
<1>0. ChatTypes /\ (\A t \in Turns : Locked(t)) /\ Said(s)
  BY DEF ChatInv
<1>1. CASE sessions'[s] = sessions[s]
  <2> SUFFICES ASSUME Exists(s), NEW i \in DOMAIN sessions[s].log
               PROVE  pc'[sessions[s].log[i]] = "over"
    BY <1>1 DEF Said, Exists
  <2>1. sessions[s].log \in Seq(Turns)
    BY <1>0 DEF Exists, ChatTypes, Sessions
  <2>2. sessions[s].log[i] \in Turns /\ pc[sessions[s].log[i]] = "over"
    BY <1>0, <2>1 DEF Said
  <2> QED
    BY <1>0, <2>2, OverStays
<1>2. ASSUME NEW t \in Turns, Create(t), ~Exists(s), sessions'[s].log = <<>> PROVE Said(s)'
  BY <1>2 DEF Said
<1>3. ASSUME NEW t \in Turns, AppendExchange(t), sid[t] = s, sessions'[s] = WithExchange(t)
      PROVE  Said(s)'
  <2> DEFINE old == IF Exists(s) THEN sessions[s].log ELSE <<>>
             new == sessions'[s].log
  <2>1. old \in Seq(Turns) /\ new = Trimmed(Append(old, t))
    BY <1>0, <1>3, NewLog
  <2>2. pc' = [pc EXCEPT ![t] = "over"]
    BY <1>3 DEF AppendExchange, Goes
  <2>3. ASSUME NEW j \in DOMAIN Append(old, t) PROVE pc'[Append(old, t)[j]] = "over"
    <3>1. \A k \in DOMAIN old : pc[old[k]] = "over" /\ old[k] \in Turns
      BY <1>0, <2>1 DEF Said
    <3> HIDE DEF old
    <3>2. CASE j \in DOMAIN old
      BY <1>0, <2>1, <2>2, <3>1, <3>2 DEF ChatTypes
    <3>3. CASE j = Len(old) + 1
      BY <1>0, <2>1, <2>2, <3>3 DEF ChatTypes
    <3>4. j \in DOMAIN old \/ j = Len(old) + 1
      BY <2>1
    <3> QED
      BY <3>2, <3>3, <3>4
  <2> HIDE DEF old
  <2>4. Append(old, t) \in Seq(Turns)
    BY <2>1
  <2>5. ASSUME NEW i \in DOMAIN new PROVE pc'[new[i]] = "over"
    <3> DEFINE log == Append(old, t)
    <3>1. \E j \in DOMAIN log : Trimmed(log)[i] = log[j]
      BY <2>1, <2>4, <2>5, TrimmedLog
    <3>2. new[i] = Trimmed(log)[i]
      BY <2>1
    <3> HIDE DEF log, new
    <3> QED
      BY <2>3, <3>1, <3>2 DEF log
  <2> QED
    BY <2>5 DEF Said
<1>4. CASE sessions'[s] = NoSession
  BY <1>4 DEF Said, Exists
<1> QED
  BY <1>0, <1>1, <1>2, <1>3, <1>4, SessionSteps

Working == Held \ {"read"}

\* A turn works from when it read the history, and on the same session throughout.
LEMMA WorkSteps ==
  ASSUME ChatTypes, [Next]_vars, NEW u \in Turns
  PROVE  /\ pc'[u] \in Working => pc[u] \in Working \/ Known(u) \/ Create(u)
         /\ pc[u] \in Working => sid'[u] = sid[u] /\ saw'[u] = saw[u]
         /\ cut \subseteq cut'
<1> USE DEF Working, Held
<1> DEFINE Fine == /\ pc'[u] \in Working => pc[u] \in Working \/ Known(u) \/ Create(u)
                   /\ pc[u] \in Working => sid'[u] = sid[u] /\ saw'[u] = saw[u]
                   /\ cut \subseteq cut'
<1>1. ASSUME NEW t \in Turns, Takes(t) \/ Exits(t) \/ Passes(t) PROVE Fine
  BY <1>1 DEF Takes, Exits, Passes, RestStays, ChatTypes
<1>2. ASSUME NEW t \in Turns, Known(t) \/ Create(t) PROVE Fine
  BY <1>2 DEF Known, Create, Goes, ChatTypes
<1>3. ASSUME NEW t \in Turns, AppendExchange(t) PROVE Fine
  BY <1>3 DEF AppendExchange, Goes, ChatTypes
<1>4. ASSUME NEW t \in Turns, NEW s \in Ids, Begin(t, s) PROVE Fine
  BY <1>4 DEF Begin, Goes, ChatTypes
<1>5. ASSUME NEW t \in Streams, Streaming(t) \/ Outlives(t) PROVE Fine
  BY <1>5 DEF Streaming, Outlives, chat
<1>6. ASSUME NEW s \in Sids, Collect(s) \/ Drop(s) PROVE Fine
  BY <1>6 DEF Collect, Drop
<1>7. Elsewhere \/ UNCHANGED vars => Fine
  BY DEF Elsewhere, vars, chat
<1> QED
  BY <1>1, <1>2, <1>3, <1>4, <1>5, <1>6, <1>7, Moves DEF Next

\* What a turn read is up to date when it has read it.
LEMMA ReadsAll ==
  ASSUME ChatInv, NEW t \in Turns, Known(t) \/ Create(t)
  PROVE  UpToDate(t)'
<1>1. ChatTypes /\ Locked(t) /\ pc[t] = "read"
  BY DEF ChatInv, Known, Create, Goes
<1>2. CASE Known(t)
  <2>1. /\ asked[t] \in Sids /\ sessions[asked[t]] # NoSession
        /\ sessions' = sessions /\ asked' = asked
        /\ sid'[t] = asked[t] /\ saw'[t] = sessions[asked[t]].log
    BY <1>1, <1>2 DEF Known, Exists, ChatTypes, Ids
  <2> QED
    BY <2>1 DEF UpToDate, Exists, Range
<1>3. CASE Create(t)
  <2>1. /\ sid'[t] = Mine(t) /\ Mine(t) \in Sids /\ asked' = asked
        /\ sessions'[Mine(t)] = [owner |-> OwnerOf[t], log |-> <<>>]
    BY <1>1, <1>3, ChatConstants DEF Create, Mine, ChatTypes, Ids
  <2>2. saw'[t] = <<>>
    BY <1>1, <1>3 DEF Create, Locked
  <2>3. sessions'[Mine(t)] # NoSession
    BY <2>1, EmptySession, ChatConstants
  <2>4. Range(saw'[t]) = {}
    BY <2>2 DEF Range
  <2> QED
    BY <2>1, <2>3, <2>4 DEF UpToDate, Exists
<1> QED
  BY <1>2, <1>3

\* It stays up to date, whoever else writes to its session.
LEMMA StaysUpToDate ==
  ASSUME ChatInv, [Next]_vars, NEW t \in Turns, pc[t] \in Working, pc'[t] \in Working,
         asked[t] # NoSid, t \notin cut'
  PROVE  UpToDate(t)'
<1> DEFINE s == sid[t]
           log == sessions[s].log
<1>1. ChatTypes /\ (\A u \in Turns : Locked(u)) /\ Locked(t)
  BY DEF ChatInv
<1>2. t \notin cut /\ sid'[t] = s /\ saw'[t] = saw[t] /\ asked'[t] = asked[t]
  BY <1>1, WorkSteps, OverStays DEF Working, Held
<1>3. s = asked[t] /\ s \in Sids /\ holder[s] = t
  BY <1>1 DEF Locked, Mine, Working, ChatTypes, Ids
<1>4. /\ Exists(s)
      /\ \A i \in DOMAIN log : asked[log[i]] # NoSid => log[i] \in Range(saw[t])
      /\ Len(log) < MaxTurns => Range(saw[t]) \subseteq Range(log)
  BY <1>2 DEF ChatInv, Reading, Working, UpToDate
<1>5. log \in Seq(Turns)
  BY <1>1, <1>3, <1>4 DEF Exists, ChatTypes, Sessions
<1>6. \A i \in DOMAIN log : log[i] \in Turns /\ asked'[log[i]] = asked[log[i]]
  <2>1. \A i \in DOMAIN log : log[i] \in Turns /\ pc[log[i]] = "over"
    BY <1>3, <1>4, <1>5 DEF ChatInv, Said
  <2> QED
    BY <1>1, <2>1, OverStays
<1>7. CASE sessions'[s] = sessions[s]
  BY <1>2, <1>4, <1>6, <1>7 DEF UpToDate, Exists
<1>8. ASSUME NEW u \in Turns, AppendExchange(u), sid[u] = s, sessions'[s] = WithExchange(u)
      PROVE  UpToDate(t)'
  <2>1. pc[u] = "append" /\ pc' = [pc EXCEPT ![u] = "over"] /\ asked' = asked
    BY <1>8 DEF AppendExchange, Goes
  <2>2. u # t
    BY <1>1, <2>1 DEF Working, Held, ChatTypes
  <2>3. asked[u] = NoSid
    BY <1>1, <1>3, <1>8, <2>1, <2>2 DEF Locked, Mine, Held
  <2> DEFINE more == Append(log, u)
             new == Trimmed(more)
  <2>4. sessions'[s] \in Sessions /\ sessions'[s].log = new
    BY <1>1, <1>3, <1>4, <1>8, NewLog
  <2>5. more \in Seq(Turns) /\ Len(more) = Len(log) + 1 /\ Len(log) \in Nat
    BY <1>5
  <2>6. /\ \A i \in DOMAIN new : \E j \in DOMAIN more : new[i] = more[j]
        /\ Len(new) < MaxTurns => new = more
    BY <2>5, TrimmedLog
  <2>7. /\ \A j \in DOMAIN more : (j \in DOMAIN log /\ more[j] = log[j]) \/ more[j] = u
        /\ \A j \in DOMAIN log : j \in DOMAIN more /\ more[j] = log[j]
    BY <1>5
  <2> HIDE DEF log, more, new
  <2>8. \A j \in DOMAIN more : asked[more[j]] # NoSid => more[j] \in Range(saw[t])
    BY <1>4, <2>3, <2>7
  <2>9. \A i \in DOMAIN new : asked[new[i]] # NoSid => new[i] \in Range(saw[t])
    BY <2>6, <2>8
  <2>10. Len(new) < MaxTurns => Range(saw[t]) \subseteq Range(new)
    <3> SUFFICES ASSUME Len(new) < MaxTurns, NEW x \in Range(saw[t]) PROVE x \in Range(new)
      OBVIOUS
    <3>1. new = more /\ Len(log) < MaxTurns
      BY <2>5, <2>6, ChatConstants
    <3>2. x \in Range(log)
      BY <1>4, <3>1
    <3> QED
      BY <2>7, <3>1, <3>2 DEF Range
  <2>11. sessions'[s] # NoSession
    BY <2>4, ChatConstants
  <2> QED
    BY <1>2, <2>1, <2>4, <2>9, <2>10, <2>11 DEF UpToDate, Exists
<1>9. CASE Drop(s)
  BY <1>2, <1>9 DEF Drop, Running, Working, Held
<1> QED
  BY <1>1, <1>3, <1>4, <1>7, <1>8, <1>9, SessionSteps

LEMMA ChatHolds == Spec => []ChatInv
<1>1. ChatInv /\ [Next]_vars => ChatInv'
  <2> SUFFICES ASSUME ChatInv, [Next]_vars PROVE ChatInv'
    OBVIOUS
  <2>1. ChatTypes /\ \A t \in Turns : Locked(t)
    BY DEF ChatInv
  <2>2. ChatTypes' /\ \A t \in Turns : Locked(t)'
    BY <2>1, ChatTypesStep, LockedStep
  <2>3. ASSUME NEW t \in Turns PROVE Reading(t)'
    <3> SUFFICES ASSUME pc'[t] \in Working, asked'[t] # NoSid, t \notin cut' PROVE UpToDate(t)'
      BY DEF Reading, Working
    <3>1. CASE Known(t) \/ Create(t)
      BY <3>1, ReadsAll
    <3>2. CASE pc[t] \in Working
      <4>1. asked[t] # NoSid
        BY <2>1, <3>2, OverStays DEF Working, Held
      <4> QED
        BY <3>2, <4>1, StaysUpToDate
    <3> QED
      BY <2>1, <3>1, <3>2, WorkSteps
  <2>4. \A s \in Sids : Said(s)'
    BY SaidStep
  <2> QED
    BY <2>2, <2>3, <2>4 DEF ChatInv
<1> QED
  BY <1>1, ChatStarts, PTL DEF Spec

\* Every variable of the sessions and of the bridge has its type.
THEOREM TypeCorrect == Spec => []TypeOK
<1>1. ChatInv /\ BridgeInv => TypeOK
  <2> SUFFICES ASSUME ChatInv, BridgeInv PROVE TypeOK
    OBVIOUS
  <2>1. {slots, others, lost} \subseteq 0..MaxProducers
    <3>1. Cardinality(Active) \in Nat
      BY Bounds, FS_Subset, FS_CardinalityType DEF Active
    <3> QED
      BY <3>1, Bounds DEF BridgeInv, Slots
  <2>2. BridgeTypeOK
    BY <2>1 DEF BridgeInv, StreamTypes, BridgeTypeOK, Items, Busy
  <2> QED
    BY <2>2 DEF ChatInv, ChatTypes, Places, TypeOK
<1> QED
  BY <1>1, ChatHolds, BridgeHolds, PTL

\* A turn that appends its exchange answered from all that was said in its session before it,
\* unless the session went away meanwhile, or the exchange is a first turn's.
THEOREM HistoryAlwaysSeen == Spec => HistorySeen
<1>1. ChatInv /\ [Next]_vars =>
        [\A t \in Turns :
           pc[t] = "append" /\ sessions' # sessions /\ pc'[t] = "over" /\ asked[t] # NoSid /\ t \notin cut
             => UpToDate(t)]_vars
  BY DEF ChatInv, Reading, Held
<1> QED
  BY <1>1, ChatHolds, PTL DEF Spec, HistorySeen
-----------------------------------------------------------------------------
(***************************************************************************)
(* The thread of POST /agent/query and /agent/stream (module Agent): for   *)
(* every corpus, set of tools, queue and time limit.                       *)
(***************************************************************************)
\* The thread, its queue and what the client knows, of the type they should be, and only
\* a stream has reports.
AgentTyped ==
  /\ mode \in {"stream", "query"} /\ clock \in 0..Timeout
  /\ node \in Nodes \cup {"end"}
  /\ at \in {"runs", "checks", "puts", "ends", "gone", "failed"}
  /\ reports \in Seq({"node"} \cup Terminal)
  /\ halt \in BOOLEAN /\ late \in Nat
  /\ client \in {"waits", "answer", "error", "timeout", "left"}
  /\ at \in {"checks", "puts", "ends"} => mode = "stream"

\* A stream's event is set when its client is gone, and not before.
Tells == mode = "stream" => (halt <=> client # "waits")

\* What the thread put last is in the queue of a client that still reads.
Ending == \E i \in DOMAIN reports : reports[i] \in Terminal
Leaving == mode = "stream" /\ at \in {"ends", "gone"} /\ client = "waits" => Ending

\* The node begun after the client left is the last one: its report looks at the event.
LastNode == late > 0 => late = 1 /\ halt /\ at # "puts" /\ mode = "stream"

\* Every draft still to be evaluated has an evaluation left.
Left ==
  /\ count \in Nat /\ count <= MaxReflexion
  /\ node \notin {"finalizer", "end"} => count < MaxReflexion

\* No run evaluates more than MAX_REFLEXION drafts (reflexion_evaluator.MAX_REFLEXION),
\* whatever the verdicts say: what _route_reflexion stops is not started again.
EvaluationsBounded == count <= MaxReflexion

\* From the moment it is drafted an answer goes with the passages its author was shown, and
\* with how many they were.
WroteFrom ==
  node \in {"evaluator", "verdict", "finalizer", "end"} /\ draft.kind = "answer" =>
    shown \in 0..Len(contexts) /\ draft.seen = First(contexts, shown)

AgentInv == AgentTyped /\ Tells /\ Leaving /\ LastNode /\ Left /\ WroteFrom

-----------------------------------------------------------------------------
(* The queue. *)

LEMMA TimeoutNat == Timeout \in Nat /\ MaxReflexion \in Nat \ {0}
  BY AgentAssumption

\* What is put at the end of a queue is in it, and what was in it still is.
LEMMA PutKeeps ==
  ASSUME NEW q \in Seq({"node"} \cup Terminal), NEW x \in {"node"} \cup Terminal
  PROVE  /\ Append(q, x) \in Seq({"node"} \cup Terminal)
         /\ (\E i \in DOMAIN q : q[i] \in Terminal) =>
              \E i \in DOMAIN Append(q, x) : Append(q, x)[i] \in Terminal
         /\ x \in Terminal => \E i \in DOMAIN Append(q, x) : Append(q, x)[i] \in Terminal
<1> DEFINE r == Append(q, x)
<1>1. /\ r \in Seq({"node"} \cup Terminal) /\ Len(q) \in Nat
      /\ DOMAIN r = 1..Len(q) + 1 /\ DOMAIN q = 1..Len(q)
      /\ r[Len(q) + 1] = x /\ \A i \in 1..Len(q) : r[i] = q[i]
  OBVIOUS
<1> HIDE DEF r
<1>2. ASSUME NEW i \in DOMAIN q, q[i] \in Terminal
      PROVE  i \in DOMAIN r /\ r[i] \in Terminal
  BY <1>1, <1>2
<1>3. x \in Terminal => Len(q) + 1 \in DOMAIN r /\ r[Len(q) + 1] \in Terminal
  BY <1>1
<1> QED BY <1>1, <1>2, <1>3 DEF r

\* What is read from the front of a queue and is no end leaves the ends in it.
LEMMA ReadKeeps ==
  ASSUME NEW q \in Seq({"node"} \cup Terminal), q # <<>>
  PROVE  /\ Tail(q) \in Seq({"node"} \cup Terminal)
         /\ Head(q) \in {"node"} \cup Terminal
         /\ (\E i \in DOMAIN q : q[i] \in Terminal) /\ Head(q) = "node" =>
              \E i \in DOMAIN Tail(q) : Tail(q)[i] \in Terminal
<1> DEFINE r == Tail(q)
<1>1. /\ r \in Seq({"node"} \cup Terminal) /\ Len(q) \in Nat
      /\ DOMAIN r = 1..Len(q) - 1 /\ DOMAIN q = 1..Len(q)
      /\ q[1] = Head(q) /\ \A i \in 1..Len(q) - 1 : r[i] = q[i + 1]
      /\ Head(q) \in {"node"} \cup Terminal
  OBVIOUS
<1> HIDE DEF r
<1>2. ASSUME NEW i \in DOMAIN q, q[i] \in Terminal, Head(q) = "node"
      PROVE  i - 1 \in DOMAIN r /\ r[i - 1] \in Terminal
  <2>1. i # 1
    BY <1>1, <1>2 DEF Terminal
  <2>2. i - 1 \in 1..Len(q) - 1 /\ (i - 1) + 1 = i
    BY <1>1, <2>1
  <2> QED BY <1>1, <1>2, <2>2
<1> QED BY <1>1, <1>2 DEF r

-----------------------------------------------------------------------------
(* The invariant. *)

LEMMA AgentInitInv == AgentInit => AgentInv
<1> SUFFICES ASSUME AgentInit PROVE AgentInv
  OBVIOUS
<1>1. AgentTyped
  <2>1. reports \in Seq({"node"} \cup Terminal)
    BY DEF AgentInit
  <2>2. clock \in 0..Timeout
    BY TimeoutNat DEF AgentInit
  <2> QED BY <2>1, <2>2 DEF AgentInit, AgentTyped, Nodes
<1>2. Tells /\ Leaving /\ LastNode /\ Left /\ WroteFrom
  BY TimeoutNat DEF AgentInit, Tells, Leaving, LastNode, Left, WroteFrom, NoDraft
<1> QED BY <1>1, <1>2 DEF AgentInv

\* The nodes: the thread goes on or looks at the event, nothing else happens to the bridge.
LEMMA OverStep ==
  ASSUME AgentInv, NEW here \in Nodes, NEW there \in Nodes \cup {"end"}, Over(here, there)
  PROVE  AgentTyped' /\ Tells' /\ Leaving' /\ LastNode'
<1> USE DEF AgentInv, Over, Reports, outlets
<1>1. AgentTyped'
  BY DEF AgentTyped
<1>2. Tells' /\ Leaving' /\ LastNode'
  BY DEF AgentTyped, Tells, Leaving, Ending, LastNode
<1> QED BY <1>1, <1>2

\* Where a verdict sends a run, and that a run out of evaluations goes to its end.
LEMMA RouteGoes ==
  ASSUME NEW n \in Nat, NEW done \in BOOLEAN, NEW action \in Actions
  PROVE  /\ Route(n, done, action) \in {"planner", "selector", "generator", "finalizer"}
         /\ Route(n, done, action) # "finalizer" => n < MaxReflexion /\ ~done
  BY TimeoutNat DEF Route, Actions

LEMMA NodeStep == AgentInv /\ Node => AgentInv'
<1> SUFFICES ASSUME AgentInv, Node PROVE AgentInv'
  OBVIOUS
<1>l. count \in Nat /\ (node \notin {"finalizer", "end"} => count + 1 <= MaxReflexion)
  BY TimeoutNat DEF AgentInv, Left
<1>1. CASE Plan
  <2>1. AgentTyped' /\ Tells' /\ Leaving' /\ LastNode'
    BY <1>1, OverStep DEF Plan, Nodes
  <2>2. Left' /\ WroteFrom'
    BY <1>1 DEF Plan, Over, AgentInv, Left, WroteFrom
  <2> QED BY <2>1, <2>2 DEF AgentInv
<1>2. CASE Select
  <2>1. AgentTyped' /\ Tells' /\ Leaving' /\ LastNode'
    BY <1>2, OverStep DEF Select, Nodes
  <2>2. Left' /\ WroteFrom'
    BY <1>2 DEF Select, Over, AgentInv, Left, WroteFrom
  <2> QED BY <2>1, <2>2 DEF AgentInv
<1>3. CASE Execute
  <2>1. AgentTyped' /\ Tells' /\ Leaving' /\ LastNode'
    BY <1>3, OverStep DEF Execute, Nodes
  <2>2. Left' /\ WroteFrom'
    BY <1>3 DEF Execute, Gathers, Over, AgentInv, Left, WroteFrom
  <2> QED BY <2>1, <2>2 DEF AgentInv
<1>9. ASSUME NEW c \in Calls, CallReturns(c) PROVE AgentInv'
  <2>1. node = "executor" /\ UNCHANGED <<mode, clock, node, count, at, late, reports, halt, client>>
    BY <1>9 DEF CallReturns, Gathers, outlets
  <2> QED BY <2>1 DEF AgentInv, AgentTyped, Tells, Leaving, Ending, LastNode, Left, WroteFrom
<1>4. CASE Generate
  <2>1. AgentTyped' /\ Tells' /\ Leaving' /\ LastNode'
    BY <1>4, OverStep DEF Generate, Nodes
  <2>2. Left'
    BY <1>4 DEF Generate, Over, AgentInv, Left
  <2>3. WroteFrom'
    <3>1. CASE Drafts
      BY <1>4, <3>1 DEF Drafts, Generate, WroteFrom, Sorry, NoDraft
    <3>2. CASE NoModel
      BY <3>2 DEF NoModel, Apologises, WroteFrom, Sorry, NoDraft
    <3> QED BY <1>4, <3>1, <3>2 DEF Generate
  <2> QED BY <2>1, <2>2, <2>3 DEF AgentInv
<1>5. CASE Ship
  <2>1. AgentTyped' /\ Tells' /\ Leaving' /\ LastNode'
    BY <1>5, OverStep DEF Ship, Nodes
  <2>2. Left'
    BY <1>5, <1>l, TimeoutNat DEF Ship, Over, Left
  <2>3. WroteFrom'
    BY <1>5 DEF Ship, Over, AgentInv, WroteFrom
  <2> QED BY <2>1, <2>2, <2>3 DEF AgentInv
<1>6. CASE StartsEvaluation
  <2>1. AgentTyped'
    BY <1>6 DEF StartsEvaluation, AgentInv, AgentTyped, outlets, Nodes
  <2>2. Tells' /\ Leaving' /\ LastNode' /\ Left' /\ WroteFrom'
    BY <1>6 DEF StartsEvaluation, AgentInv, Tells, Leaving, Ending, LastNode, Left, WroteFrom, outlets
  <2> QED BY <2>1, <2>2 DEF AgentInv
<1>7. ASSUME NEW v \in Verdicts, Evaluate(v) PROVE AgentInv'
  <2> DEFINE done == Ends(v) /\ (Written \/ Noted(v))
             there == Route(count + 1, done, v.action)
  <2>1. v.action \in Actions /\ done \in BOOLEAN /\ count + 1 \in Nat
    BY <1>l DEF Verdicts
  <2>2. Over("verdict", there) /\ count' = count + 1 /\ UNCHANGED <<contexts, draft, shown>>
    BY <1>7 DEF Evaluate
  <2> HIDE DEF done
  <2>3. /\ there \in {"planner", "selector", "generator", "finalizer"}
        /\ there # "finalizer" => count + 1 < MaxReflexion
    BY <2>1, RouteGoes
  <2> HIDE DEF there
  <2>4. AgentTyped' /\ Tells' /\ Leaving' /\ LastNode'
    BY <2>2, <2>3, OverStep DEF Nodes
  <2>5. Left'
    BY <2>2, <2>3, <1>l, TimeoutNat DEF Over, Left
  <2>6. WroteFrom'
    BY <2>2, <2>3 DEF Over, AgentInv, WroteFrom
  <2> QED BY <2>4, <2>5, <2>6 DEF AgentInv
<1>8. CASE Finalize
  <2>1. AgentTyped' /\ Tells' /\ Leaving' /\ LastNode'
    BY <1>8, OverStep DEF Finalize, Nodes
  <2>2. Left' /\ WroteFrom'
    BY <1>8 DEF Finalize, Over, AgentInv, Left, WroteFrom
  <2> QED BY <2>1, <2>2 DEF AgentInv
<1> QED BY <1>1, <1>2, <1>3, <1>4, <1>5, <1>6, <1>7, <1>8, <1>9 DEF Node

\* The reports: only the queue, the place of the thread and the count of late nodes move.
LEMMA ReportStep ==
  ASSUME AgentInv, Check \/ Put \/ Done \/ FailRun \/ PutTimesOut \/ LastPut
  PROVE  AgentInv'
<1> USE DEF AgentInv, graph, outlets
<1>t. "node" \in {"node"} \cup Terminal /\ {"done", "error"} = Terminal /\ "node" \notin Terminal
  BY DEF Terminal
<1>g. Left' /\ WroteFrom'
  BY DEF Check, Put, Done, FailRun, PutTimesOut, LastPut, Left, WroteFrom
<1>1. CASE Check
  <2>1. CASE halt
    BY <1>1, <2>1, <1>g DEF Check, AgentTyped, Tells, Leaving, LastNode
  <2>2. CASE ~halt
    <3>1. reports' = Append(reports, "node") /\ at' = "puts" /\ UNCHANGED <<mode, clock, node, late, halt, client>>
      BY <1>1, <2>2 DEF Check, Puts
    <3>2. reports' \in Seq({"node"} \cup Terminal)
      BY <3>1, <1>t, PutKeeps DEF AgentTyped
    <3>3. AgentTyped'
      BY <3>1, <3>2, <1>1 DEF AgentTyped, Check
    <3>4. Tells' /\ Leaving' /\ LastNode'
      BY <3>1, <2>2 DEF Tells, Leaving, LastNode
    <3> QED BY <3>3, <3>4, <1>g
  <2> QED BY <2>1, <2>2
<1>2. CASE Put
  <2>1. AgentTyped'
    BY <1>2 DEF Put, AgentTyped
  <2>2. Tells' /\ Leaving'
    BY <1>2 DEF Put, Tells, Leaving
  <2>3. late = 0
    BY <1>2 DEF Put, LastNode, AgentTyped
  <2>4. LastNode'
    BY <1>2, <2>3 DEF Put, LastNode, AgentTyped
  <2> QED BY <2>1, <2>2, <2>4, <1>g
<1>3. ASSUME NEW x \in Terminal, reports' = Append(reports, x), at' = "ends", mode = "stream",
             UNCHANGED <<mode, clock, node, late, halt, client>>
      PROVE  AgentInv'
  <2>1. reports' \in Seq({"node"} \cup Terminal) /\ Ending'
    BY <1>3, PutKeeps DEF AgentTyped, Ending
  <2>2. AgentTyped'
    BY <1>3, <2>1 DEF AgentTyped
  <2>3. Tells' /\ Leaving' /\ LastNode'
    BY <1>3, <2>1 DEF Tells, Leaving, LastNode
  <2> QED BY <2>2, <2>3, <1>g
<1>4. ASSUME at' \in {"gone", "failed"}, mode = "query" \/ at = "ends",
             UNCHANGED <<mode, clock, node, reports, late, halt, client>>
      PROVE  AgentInv'
  <2>1. AgentTyped' /\ Tells' /\ LastNode'
    BY <1>4 DEF AgentTyped, Tells, LastNode
  <2>2. Leaving'
    BY <1>4 DEF Leaving, Ending
  <2> QED BY <2>1, <2>2, <1>g
<1>5. CASE Done
  <2>1. CASE mode = "stream"
    BY <1>5, <2>1, <1>3, <1>t DEF Done, Puts
  <2>2. CASE mode # "stream"
    BY <1>5, <2>2, <1>4 DEF Done, AgentTyped
  <2> QED BY <2>1, <2>2
<1>6. CASE FailRun
  <2>1. CASE mode = "stream"
    BY <1>6, <2>1, <1>3, <1>t DEF FailRun, Puts
  <2>2. CASE mode # "stream"
    BY <1>6, <2>2, <1>4 DEF FailRun, AgentTyped
  <2> QED BY <2>1, <2>2
<1>7. CASE PutTimesOut
  <2>1. mode = "stream"
    BY <1>7 DEF PutTimesOut, AgentTyped
  <2>2. CASE at' = "ends" /\ Puts("error")
    BY <1>7, <2>1, <2>2, <1>3, <1>t DEF PutTimesOut, Puts
  <2>3. CASE at = "ends" /\ at' = "gone" /\ UNCHANGED reports
    BY <1>7, <2>3, <1>4 DEF PutTimesOut
  <2> QED BY <1>7, <2>2, <2>3 DEF PutTimesOut
<1>8. CASE LastPut
  BY <1>8, <1>4 DEF LastPut
<1> QED BY <1>1, <1>2, <1>5, <1>6, <1>7, <1>8

LEMMA ClientStep ==
  ASSUME AgentInv, ReadReport \/ Returns \/ TimesOut \/ Leaves \/ Tick
  PROVE  AgentInv'
<1> USE DEF AgentInv, graph, outlets
<1>g. Left' /\ WroteFrom'
  BY DEF ReadReport, Returns, TimesOut, Leaves, Tick, Left, WroteFrom
<1>1. ASSUME NEW what \in {"answer", "error", "timeout", "left"}, Told(what),
             reports' \in Seq({"node"} \cup Terminal), UNCHANGED <<mode, clock, node, at, late>>
      PROVE  AgentInv'
  <2>1. AgentTyped' /\ Tells' /\ Leaving'
    BY <1>1 DEF Told, AgentTyped, Tells, Leaving
  <2>2. LastNode'
    BY <1>1 DEF Told, LastNode, Tells, AgentTyped
  <2> QED BY <2>1, <2>2, <1>g
<1>2. CASE ReadReport
  <2>1. /\ Tail(reports) \in Seq({"node"} \cup Terminal)
        /\ Head(reports) \in {"node"} \cup Terminal
        /\ Ending /\ Head(reports) = "node" => \E i \in DOMAIN Tail(reports) : Tail(reports)[i] \in Terminal
    BY <1>2, ReadKeeps DEF ReadReport, AgentTyped, Ending
  <2>2. CASE Head(reports) = "node"
    <3>1. reports' = Tail(reports) /\ UNCHANGED <<mode, clock, node, at, late, halt, client>>
      BY <1>2, <2>2 DEF ReadReport
    <3>2. AgentTyped'
      BY <3>1, <2>1 DEF AgentTyped
    <3>3. Tells' /\ LastNode'
      BY <3>1 DEF Tells, LastNode
    <3>4. Leaving'
      BY <3>1, <2>1, <2>2 DEF Leaving, Ending
    <3> QED BY <3>2, <3>3, <3>4, <1>g
  <2>3. CASE Head(reports) # "node"
    <3>1. Told("answer") \/ Told("error")
      BY <1>2, <2>3 DEF ReadReport
    <3> QED BY <3>1, <1>1, <1>2, <2>1 DEF ReadReport
  <2> QED BY <2>2, <2>3
<1>3. CASE Returns
  <2>1. Told("answer") \/ Told("error")
    BY <1>3 DEF Returns
  <2> QED BY <2>1, <1>1, <1>3 DEF Returns, AgentTyped
<1>4. CASE TimesOut
  BY <1>1, <1>4 DEF TimesOut, AgentTyped
<1>5. CASE Leaves
  BY <1>1, <1>5 DEF Leaves, AgentTyped
<1>6. CASE Tick
  <2>1. AgentTyped'
    BY <1>6, TimeoutNat DEF Tick, AgentTyped
  <2>2. Tells' /\ Leaving' /\ LastNode'
    BY <1>6 DEF Tick, Tells, Leaving, Ending, LastNode
  <2> QED BY <2>1, <2>2, <1>g
<1> QED BY <1>2, <1>3, <1>4, <1>5, <1>6

LEMMA AgentNextInv == AgentInv /\ [AgentNext]_agentVars => AgentInv'
<1> SUFFICES ASSUME AgentInv, [AgentNext]_agentVars PROVE AgentInv'
  OBVIOUS
<1>1. CASE Thread
  BY <1>1, NodeStep, ReportStep DEF Thread
<1>2. CASE UNCHANGED agentVars
  BY <1>2 DEF AgentInv, AgentTyped, Tells, Leaving, Ending, LastNode, Left, WroteFrom, agentVars, graph, outlets
<1>3. CASE ReadReport \/ Returns \/ TimesOut \/ Leaves \/ Tick
  BY <1>3, ClientStep
<1> QED BY <1>1, <1>2, <1>3 DEF AgentNext

\* The invariant the theorems rest on.
THEOREM AgentInvAlways == AgentSpec => []AgentInv
<1> QED BY AgentInitInv, AgentNextInv, PTL DEF AgentSpec

-----------------------------------------------------------------------------
(* What it comes to. *)

\* A thread that is gone has left its reader an end to read, however slow the reader was
\* and whichever of its puts gave up (_enqueue of _run_and_stream).
THEOREM TerminalAlwaysArrives == AgentSpec => []TerminalArrives
<1>1. AgentInv => TerminalArrives
  BY DEF AgentInv, Leaving, Ending, TerminalArrives
<1> QED BY <1>1, AgentInvAlways, PTL

\* Once the client is gone the thread begins one more node at most (stop_event).
THEOREM StopsSoonAlways == AgentSpec => []StopsSoon
<1>1. AgentInv => StopsSoon
  BY DEF AgentInv, AgentTyped, LastNode, StopsSoon
<1> QED BY <1>1, AgentInvAlways, PTL

\* No run evaluates more than MAX_REFLEXION drafts, whatever the verdicts say
\* (_route_reflexion).
THEOREM EvaluationsAlwaysBounded == AgentSpec => []EvaluationsBounded
<1>1. AgentInv => EvaluationsBounded
  BY DEF AgentInv, Left, EvaluationsBounded
<1> QED BY <1>1, AgentInvAlways, PTL

\* Past the budget no cycle starts, unless the model wrote nothing: the gates before an
\* evaluation and the one after it leave no verdict that starts one.
THEOREM BudgetAlwaysKept == AgentSpec => BudgetKept
<1>1. ASSUME AgentInv, [AgentNext]_agentVars PROVE [Cycles /\ Written => ~OverBudget]_agentVars
  <2> SUFFICES ASSUME AgentNext, Cycles, Written PROVE ~OverBudget
    BY <1>1
  <2>1. PICK v \in Verdicts : Evaluate(v)
    <3>1. node = "verdict" /\ node' # node
      BY DEF Cycles
    <3> QED BY <3>1 DEF AgentNext, Thread, Node, Plan, Select, CallReturns, Gathers, Execute,
                        Generate, Ship, StartsEvaluation, Finalize, Over, Check, Put, Done, FailRun,
                        PutTimesOut, LastPut, ReadReport, Returns, TimesOut, Leaves, Tick, graph
  <2>2. count + 1 \in Nat /\ v.action \in Actions
    BY <1>1, <2>1 DEF AgentInv, Left, Verdicts
  <2>3. ~(Ends(v) /\ (Written \/ Noted(v)))
    <3>1. node' = Route(count + 1, Ends(v) /\ (Written \/ Noted(v)), v.action) /\ node' # "finalizer"
      BY <2>1 DEF Evaluate, Over, Cycles
    <3> QED BY <2>2, <3>1, RouteGoes
  <2> QED BY <2>3 DEF Ends
<1> QED BY <1>1, AgentInvAlways, PTL DEF AgentSpec, BudgetKept
-----------------------------------------------------------------------------
(***************************************************************************)
(* What a run finds.  A text is collected once, and what was collected is  *)
(* shared out tool by tool, in rounds: the n-th passage has a rank among   *)
(* those of its tool, no tool has more of the first n than that rank, and  *)
(* one less than it at least if it has passages left.                      *)
(***************************************************************************)
LEMMA NatOrder == IsWellFoundedOn({ss \in Nat \X Nat : ss[1] < ss[2]}, Nat)
  BY NatLessThanWellFounded, Zenon DEF OpToRel

\* A set of numbers has a least one.
LEMMA Least ==
  ASSUME NEW S \in SUBSET Nat, S # {}
  PROVE  \E m \in S : \A n \in S : m <= n
<1> DEFINE R == {ss \in Nat \X Nat : ss[1] < ss[2]}
<1>1. PICK m \in S : \A n \in S : ~(<<n, m>> \in R)
  <2>1. IsWellFoundedOn(R, Nat)
    BY NatOrder
  <2> HIDE DEF R
  <2> QED
    BY <2>1, WFMin, Zenon
<1>2. \A n \in S : ~(n < m)
  BY <1>1
<1> HIDE DEF R
<1> QED
  BY <1>2

-----------------------------------------------------------------------------
(* Passages in a row. *)

\* R puts these positions in a row.
Lined(places, R) ==
  /\ \A i \in places : <<i, i>> \in R
  /\ \A i, j \in places : <<i, j>> \in R \/ <<j, i>> \in R
  /\ \A i, j \in places : <<i, j>> \in R /\ <<j, i>> \in R => i = j
  /\ \A i, j, k \in places : <<i, j>> \in R /\ <<j, k>> \in R => <<i, k>> \in R
UpTo(places, R, i) == {j \in places : <<j, i>> \in R}
PlaceIn(places, R, i) == Cardinality(UpTo(places, R, i))
AtPlace(places, R, k) == CHOOSE i \in places : PlaceIn(places, R, i) = k

\* The places in a row are numbered from 1 on without a gap, in its order.
LEMMA RowPlaces ==
  ASSUME NEW places, IsFiniteSet(places), NEW R, Lined(places, R)
  PROVE  /\ Cardinality(places) \in Nat
         /\ \A i \in places : PlaceIn(places, R, i) \in 1..Cardinality(places)
         /\ \A i, j \in places : <<i, j>> \in R <=> PlaceIn(places, R, i) <= PlaceIn(places, R, j)
         /\ \A i, j \in places : PlaceIn(places, R, i) = PlaceIn(places, R, j) => i = j
         /\ \A k \in 1..Cardinality(places) : \E i \in places : PlaceIn(places, R, i) = k
<1>1. Cardinality(places) \in Nat
  BY FS_CardinalityType
<1>2. ASSUME NEW i \in places
      PROVE  IsFiniteSet(UpTo(places, R, i)) /\ PlaceIn(places, R, i) \in 1..Cardinality(places)
  <2>1. UpTo(places, R, i) \subseteq places /\ i \in UpTo(places, R, i)
    BY DEF UpTo, Lined
  <2>2. /\ IsFiniteSet(UpTo(places, R, i)) /\ Cardinality(UpTo(places, R, i)) <= Cardinality(places)
        /\ Cardinality(UpTo(places, R, i)) \in Nat
    BY <2>1, FS_Subset, FS_CardinalityType
  <2>3. Cardinality(UpTo(places, R, i)) # 0
    BY <2>1, <2>2, FS_EmptySet
  <2> QED
    BY <1>1, <2>2, <2>3 DEF PlaceIn
<1>3. ASSUME NEW i \in places, NEW j \in places, <<i, j>> \in R
      PROVE  /\ PlaceIn(places, R, i) <= PlaceIn(places, R, j)
             /\ PlaceIn(places, R, i) = PlaceIn(places, R, j) => i = j
  <2>1. UpTo(places, R, i) \subseteq UpTo(places, R, j) /\ j \in UpTo(places, R, j)
    BY <1>3 DEF UpTo, Lined
  <2>2. /\ PlaceIn(places, R, i) <= PlaceIn(places, R, j)
        /\ PlaceIn(places, R, i) = PlaceIn(places, R, j) => UpTo(places, R, i) = UpTo(places, R, j)
    BY <1>2, <2>1, FS_Subset DEF PlaceIn
  <2>3. j \in UpTo(places, R, i) => i = j
    BY <1>3 DEF UpTo, Lined
  <2> QED
    BY <2>1, <2>2, <2>3
<1>4. ASSUME NEW i \in places, NEW j \in places
      PROVE  /\ <<i, j>> \in R <=> PlaceIn(places, R, i) <= PlaceIn(places, R, j)
             /\ PlaceIn(places, R, i) = PlaceIn(places, R, j) => i = j
  <2>1. <<i, j>> \in R \/ <<j, i>> \in R
    BY DEF Lined
  <2>2. PlaceIn(places, R, i) \in Nat /\ PlaceIn(places, R, j) \in Nat
    BY <1>2
  <2>3. <<i, i>> \in R
    BY DEF Lined
  <2>4. CASE <<i, j>> \in R
    BY <1>3, <2>4
  <2>5. CASE ~(<<i, j>> \in R)
    <3>1. PlaceIn(places, R, j) <= PlaceIn(places, R, i) /\ i # j
      BY <1>3, <2>1, <2>3, <2>5
    <3>2. PlaceIn(places, R, j) # PlaceIn(places, R, i)
      BY <1>3, <2>1, <2>5, <3>1
    <3> QED
      BY <2>2, <2>5, <3>1, <3>2
  <2> QED
    BY <2>4, <2>5
<1> DEFINE f == [i \in places |-> PlaceIn(places, R, i)]
           n == Cardinality(places)
<1>5. f \in Injection(places, 1..n)
  BY <1>2, <1>4 DEF Injection, IsInjective
<1>6. f \in Surjection(places, 1..n)
  <2>1. IsFiniteSet(1..n) /\ Cardinality(1..n) = n
    BY <1>1, FS_Interval
  <2> HIDE DEF f, n
  <2> QED
    BY <1>5, <2>1, FS_Injection DEF n
<1>7. \A k \in 1..Cardinality(places) : \E i \in places : PlaceIn(places, R, i) = k
  BY <1>6 DEF Surjection
<1> QED
  BY <1>1, <1>2, <1>4, <1>7

LEMMA UpToN ==
  ASSUME NEW n \in Nat
  PROVE  IsFiniteSet(1..n) /\ Cardinality(1..n) = n
  BY FS_Interval

LEMMA DomainIs ==
  ASSUME NEW S, NEW s \in Seq(S)
  PROVE  IsFiniteSet(DOMAIN s) /\ Cardinality(DOMAIN s) = Len(s)
<1>1. Len(s) \in Nat /\ DOMAIN s = 1..Len(s)
  OBVIOUS
<1> QED
  BY <1>1, UpToN

LEMMA Concats ==
  ASSUME NEW S, NEW a \in Seq(S), NEW b \in Seq(S)
  PROVE  /\ a \o b \in Seq(S) /\ Len(a \o b) = Len(a) + Len(b)
         /\ DOMAIN (a \o b) = 1..Len(a) + Len(b)
         /\ \A i \in 1..Len(a) : (a \o b)[i] = a[i]
         /\ \A i \in 1..Len(b) : (a \o b)[Len(a) + i] = b[i]
  OBVIOUS

\* What Arranged gives: every entry once, at its place in the row.
LEMMA Arranges ==
  ASSUME NEW S, NEW s \in Seq(S), NEW places \in SUBSET DOMAIN s, NEW R, Lined(places, R)
  PROVE  /\ IsFiniteSet(places) /\ Cardinality(places) \in 0..Len(s)
         /\ Arranged(s, places, R) \in Seq(S)
         /\ DOMAIN Arranged(s, places, R) = 1..Cardinality(places)
         /\ Len(Arranged(s, places, R)) = Cardinality(places)
         /\ \A k \in 1..Cardinality(places) :
              /\ AtPlace(places, R, k) \in places
              /\ Arranged(s, places, R)[k] = s[AtPlace(places, R, k)]
              /\ PlaceIn(places, R, AtPlace(places, R, k)) = k
         /\ \A i \in places : /\ PlaceIn(places, R, i) \in 1..Cardinality(places)
                              /\ AtPlace(places, R, PlaceIn(places, R, i)) = i
<1> DEFINE n == Cardinality(places)
<1>1. Len(s) \in Nat /\ DOMAIN s = 1..Len(s)
  OBVIOUS
<1>2. IsFiniteSet(DOMAIN s) /\ Cardinality(DOMAIN s) = Len(s)
  BY DomainIs
<1>3. IsFiniteSet(places) /\ n \in 0..Len(s)
  BY <1>2, FS_Subset, FS_CardinalityType
<1>4. ASSUME NEW k \in 1..n
      PROVE  AtPlace(places, R, k) \in places /\ PlaceIn(places, R, AtPlace(places, R, k)) = k
  <2>1. \E i \in places : PlaceIn(places, R, i) = k
    BY <1>3, RowPlaces
  <2> QED
    BY <2>1 DEF AtPlace
<1>5. Arranged(s, places, R) = [k \in 1..n |-> s[AtPlace(places, R, k)]]
  BY DEF Arranged, AtPlace, PlaceIn, UpTo
<1>6. ASSUME NEW k \in 1..n
      PROVE  s[AtPlace(places, R, k)] \in S
  BY <1>4
<1>7. ASSUME NEW i \in places
      PROVE  PlaceIn(places, R, i) \in 1..n /\ AtPlace(places, R, PlaceIn(places, R, i)) = i
  <2>1. PlaceIn(places, R, i) \in 1..n
    BY <1>3, RowPlaces
  <2>2. AtPlace(places, R, PlaceIn(places, R, i)) \in places
        /\ PlaceIn(places, R, AtPlace(places, R, PlaceIn(places, R, i))) = PlaceIn(places, R, i)
    BY <1>4, <2>1
  <2> QED
    BY <1>3, <2>1, <2>2, RowPlaces
<1> HIDE DEF n
<1>8. /\ Arranged(s, places, R) \in Seq(S)
      /\ DOMAIN Arranged(s, places, R) = 1..n /\ Len(Arranged(s, places, R)) = n
  BY <1>3, <1>5, <1>6
<1> QED
  BY <1>3, <1>4, <1>5, <1>7, <1>8 DEF n

-----------------------------------------------------------------------------
(* Collected and shared out. *)

\* No text twice.
Unlike(s) == \A i, j \in DOMAIN s : s[i].text = s[j].text => i = j

\* What is collected of a call: passages, and no text twice.
LEMMA Adds ==
  ASSUME NEW s \in Seq(Passages), Unlike(s), NEW t \in Tools, NEW texts \in Seq(Texts)
  PROVE  Add(s, t, texts) \in Seq(Passages) /\ Unlike(Add(s, t, texts))
<1> DEFINE places == Fresh(s, texts)
           R == {r \in places \X places : r[1] <= r[2]}
           new == Arranged(texts, places, R)
           more == [i \in DOMAIN new |-> [tool |-> t, text |-> new[i]]]
<1>1. places \in SUBSET DOMAIN texts /\ DOMAIN texts = 1..Len(texts) /\ Len(texts) \in Nat
  BY DEF Fresh
<1>2. Lined(places, R)
  <2>1. \A i \in places : i \in Nat
    BY <1>1
  <2>2. \A i, j \in places : <<i, j>> \in R <=> i <= j
    OBVIOUS
  <2> HIDE DEF places, R
  <2> QED
    BY <2>1, <2>2 DEF Lined
<1> DEFINE n == Cardinality(places)
           p(k) == AtPlace(places, R, k)
<1>3. /\ n \in Nat /\ new \in Seq(Texts) /\ DOMAIN new = 1..n /\ Len(new) = n
      /\ \A k \in 1..n : p(k) \in places /\ new[k] = texts[p(k)] /\ PlaceIn(places, R, p(k)) = k
  <2>1. n \in 0..Len(texts)
    BY <1>1, <1>2, Arranges
  <2>2. n \in Nat
    BY <1>1, <2>1
  <2> HIDE DEF R, places
  <2> QED
    BY <1>1, <1>2, <2>2, Arranges
<1>4. \A k, l \in 1..n : p(k) = p(l) => k = l
  BY <1>3
<1>5. \A i \in places : \A q \in Range(s) : q.text # texts[i]
  BY DEF Fresh
<1>6. ASSUME NEW i \in places, NEW j \in places, texts[i] = texts[j]
      PROVE  i = j
  <2>1. i \in Nat \ {0} /\ j \in Nat \ {0}
    BY <1>1
  <2>2. \A l \in places : \A m \in 1..l-1 : texts[m] # texts[l]
    BY DEF Fresh
  <2> HIDE DEF places
  <2>3. ~(i < j) /\ ~(j < i)
    BY <1>6, <2>1, <2>2
  <2> QED
    BY <2>1, <2>3
<1>7. Add(s, t, texts) = s \o more
  BY DEF Add
<1> HIDE DEF new, places, R, p, n
<1>8. more \in Seq(Passages) /\ Len(more) = n /\ DOMAIN more = 1..n
      /\ \A k \in 1..n : more[k].text = new[k]
  <2>1. \A k \in 1..n : [tool |-> t, text |-> new[k]] \in Passages
    BY <1>3 DEF Passages
  <2>2. more = [k \in 1..n |-> [tool |-> t, text |-> new[k]]]
    BY <1>3
  <2> HIDE DEF more
  <2> QED
    BY <1>3, <2>1, <2>2
<1> HIDE DEF more
<1> DEFINE all == s \o more
           m == Len(s)
<1>9. /\ all \in Seq(Passages) /\ m \in Nat /\ DOMAIN s = 1..m /\ DOMAIN all = 1..m + n
      /\ \A i \in 1..m : all[i] = s[i] /\ s[i] \in Range(s)
      /\ \A i \in 1..m + n : i > m => i - m \in 1..n /\ all[i].text = new[i - m]
  <2>1. all \in Seq(Passages) /\ m \in Nat /\ DOMAIN s = 1..m /\ Len(all) = m + n /\ DOMAIN all = 1..m + n
    <3>1. m \in Nat /\ DOMAIN s = 1..m
      OBVIOUS
    <3> QED
      BY <1>8, <3>1, Concats
  <2>2. \A i \in 1..m : all[i] = s[i] /\ s[i] \in Range(s)
    BY <1>8, <2>1, Concats DEF Range
  <2>3. ASSUME NEW i \in 1..m + n, i > m
        PROVE  i - m \in 1..n /\ all[i].text = new[i - m]
    <3>1. i - m \in 1..n
      BY <1>3, <2>1, <2>3
    <3>2. all[m + (i - m)] = more[i - m] /\ m + (i - m) = i
      BY <1>8, <2>1, <2>3, <3>1, Concats
    <3> QED
      BY <1>8, <3>1, <3>2
  <2> QED
    BY <2>1, <2>2, <2>3
<1> HIDE DEF all
<1>10. ASSUME NEW i \in 1..m, NEW j \in 1..m + n, j > m
       PROVE  all[i].text # all[j].text
  <2>1. all[i] = s[i] /\ s[i] \in Range(s)
    BY <1>9
  <2>2. j - m \in 1..n /\ all[j].text = new[j - m]
    BY <1>9, <1>10
  <2>3. p(j - m) \in places /\ new[j - m] = texts[p(j - m)]
    BY <1>3, <2>2
  <2> QED
    BY <1>5, <2>1, <2>2, <2>3
<1>11. ASSUME NEW i \in 1..m + n, NEW j \in 1..m + n, i > m, j > m, all[i].text = all[j].text
       PROVE  i = j
  <2>1. i - m \in 1..n /\ j - m \in 1..n /\ new[i - m] = new[j - m]
    BY <1>9, <1>11
  <2>2. p(i - m) = p(j - m)
    BY <1>3, <1>6, <2>1
  <2>3. i - m = j - m
    BY <1>4, <2>1, <2>2
  <2> QED
    BY <1>3, <1>9, <2>3
<1>12. ASSUME NEW i \in 1..m, NEW j \in 1..m, all[i].text = all[j].text
       PROVE  i = j
  BY <1>9, <1>12 DEF Unlike
<1>13. Unlike(all)
  <2>1. ASSUME NEW i \in 1..m + n, NEW j \in 1..m + n, all[i].text = all[j].text
        PROVE  i = j
    <3>1. i \in Nat /\ j \in Nat /\ (i <= m => i \in 1..m) /\ (j <= m => j \in 1..m)
      BY <1>3, <1>9
    <3>2. CASE i <= m
      BY <1>9, <1>10, <1>12, <2>1, <3>1, <3>2
    <3>3. CASE ~(i <= m)
      BY <1>9, <1>10, <1>11, <2>1, <3>1, <3>3
    <3> QED
      BY <3>2, <3>3
  <2> QED
    BY <1>9, <2>1 DEF Unlike
<1> QED
  BY <1>7, <1>9, <1>13 DEF all

\* The passages of a tool up to a position.
OfTool(s, t, i) == {j \in 1..i : s[j].tool = t}

\* A tool's passages have their ranks in their order.
LEMMA Ranks ==
  ASSUME NEW s \in Seq(Passages)
  PROVE  /\ \A i \in DOMAIN s : Rank(s, i) \in Nat \ {0} /\ Rank(s, i) = Cardinality(OfTool(s, s[i].tool, i))
         /\ \A i, j \in DOMAIN s : s[i].tool = s[j].tool /\ i < j => Rank(s, i) < Rank(s, j)
<1>1. DOMAIN s = 1..Len(s) /\ Len(s) \in Nat
  OBVIOUS
<1>2. ASSUME NEW i \in DOMAIN s
      PROVE  /\ IsFiniteSet(OfTool(s, s[i].tool, i)) /\ Rank(s, i) = Cardinality(OfTool(s, s[i].tool, i))
             /\ Rank(s, i) \in Nat \ {0}
  <2>1. i \in Nat /\ i \in 1..i /\ OfTool(s, s[i].tool, i) \subseteq 1..i /\ i \in OfTool(s, s[i].tool, i)
    BY <1>1 DEF OfTool
  <2>2. IsFiniteSet(OfTool(s, s[i].tool, i))
    BY <2>1, UpToN, FS_Subset
  <2>3. Rank(s, i) = Cardinality(OfTool(s, s[i].tool, i))
    BY DEF Rank, OfTool
  <2>4. Cardinality(OfTool(s, s[i].tool, i)) \in Nat /\ Cardinality(OfTool(s, s[i].tool, i)) # 0
    BY <2>1, <2>2, FS_CardinalityType, FS_EmptySet
  <2> QED
    BY <2>2, <2>3, <2>4
<1>3. ASSUME NEW i \in DOMAIN s, NEW j \in DOMAIN s, s[i].tool = s[j].tool, i < j
      PROVE  Rank(s, i) < Rank(s, j)
  <2>1. OfTool(s, s[i].tool, i) \subseteq OfTool(s, s[j].tool, j)
        /\ j \in OfTool(s, s[j].tool, j) /\ j \notin OfTool(s, s[i].tool, i)
    BY <1>1, <1>3 DEF OfTool
  <2>2. Rank(s, i) <= Rank(s, j) /\ Rank(s, i) # Rank(s, j)
    BY <1>2, <2>1, FS_Subset
  <2> QED
    BY <1>2, <2>2
<1> QED
  BY <1>2, <1>3

\* A tool's seat is the position of its first passage.
LEMMA Seats ==
  ASSUME NEW s \in Seq(Passages), NEW i \in DOMAIN s
  PROVE  Seat(s, i) \in DOMAIN s /\ s[Seat(s, i)].tool = s[i].tool
<1>1. DOMAIN s = 1..Len(s) /\ Len(s) \in Nat
  OBVIOUS
<1> DEFINE S == {j \in DOMAIN s : s[j].tool = s[i].tool}
<1>2. S \in SUBSET Nat /\ S # {}
  BY <1>1
<1>3. \A j \in S : j \in DOMAIN s /\ s[j].tool = s[i].tool
  OBVIOUS
<1>4. \A j \in DOMAIN s : s[j].tool = s[i].tool => j \in S
  OBVIOUS
<1> HIDE DEF S
<1>5. PICK m \in S : \A n \in S : m <= n
  BY <1>2, Least
<1>6. \A k \in 1..m-1 : s[k].tool # s[i].tool
  <2>1. ASSUME NEW k \in 1..m-1, s[k].tool = s[i].tool PROVE FALSE
    <3>1. m \in 1..Len(s)
      BY <1>1, <1>3
    <3>2. k \in DOMAIN s /\ k < m
      BY <1>1, <3>1
    <3>3. k \in S
      BY <1>4, <2>1, <3>2
    <3> QED
      BY <1>5, <3>1, <3>2, <3>3
  <2> QED
    BY <2>1
<1>7. \E j \in DOMAIN s : s[j].tool = s[i].tool /\ \A k \in 1..j-1 : s[k].tool # s[i].tool
  BY <1>3, <1>5, <1>6
<1> QED
  BY <1>7 DEF Seat

\* Round-robin lines the passages up.
Row(s) == {r \in (DOMAIN s) \X (DOMAIN s) : Before(s, r[1], r[2])}
LEMMA BeforeLined ==
  ASSUME NEW s \in Seq(Passages)
  PROVE  /\ \A i, j \in DOMAIN s : <<i, j>> \in Row(s) <=> Before(s, i, j)
         /\ Lined(DOMAIN s, Row(s))
<1>1. DOMAIN s = 1..Len(s) /\ Len(s) \in Nat
  OBVIOUS
<1>2. \A i, j \in DOMAIN s : <<i, j>> \in Row(s) <=> Before(s, i, j)
  BY DEF Row
<1>3. \A i \in DOMAIN s : Rank(s, i) \in Nat /\ Seat(s, i) \in Nat
  <2>1. ASSUME NEW i \in DOMAIN s PROVE Rank(s, i) \in Nat /\ Seat(s, i) \in Nat
    BY <1>1, Ranks, Seats
  <2> QED
    BY <2>1
<1>4. ASSUME NEW i \in DOMAIN s, NEW j \in DOMAIN s, Before(s, i, j), Before(s, j, i)
      PROVE  i = j
  <2>1. Rank(s, i) = Rank(s, j) /\ Seat(s, i) = Seat(s, j)
    BY <1>3, <1>4 DEF Before
  <2>2. s[i].tool = s[j].tool
    BY <2>1, Seats
  <2>3. ~(i < j) /\ ~(j < i)
    BY <1>3, <2>1, <2>2, Ranks
  <2> QED
    BY <1>1, <2>3
<1>5. \A i, j \in DOMAIN s : Before(s, i, i) /\ (Before(s, i, j) \/ Before(s, j, i))
  BY <1>3 DEF Before
<1>6. \A i, j, k \in DOMAIN s : Before(s, i, j) /\ Before(s, j, k) => Before(s, i, k)
  BY <1>3 DEF Before
<1> QED
  BY <1>2, <1>4, <1>5, <1>6 DEF Lined

\* What is shared out is what was collected, in another order.
LEMMA SharesAll ==
  ASSUME NEW s \in Seq(Passages)
  PROVE  /\ Shared(s) \in Seq(Passages) /\ Len(Shared(s)) = Len(s)
         /\ Unlike(s) => Unlike(Shared(s))
<1> DEFINE D == DOMAIN s
           R == Row(s)
           n == Len(s)
           c == Shared(s)
           p(k) == AtPlace(D, R, k)
<1>1. n \in Nat /\ D = 1..n /\ Cardinality(D) = n /\ Lined(D, R) /\ D \in SUBSET DOMAIN s
  BY DomainIs, BeforeLined
<1>2. c = Arranged(s, D, R)
  BY DEF Shared, RoundRobin, Row
<1> HIDE DEF D, R, c
<1>3. /\ c \in Seq(Passages) /\ DOMAIN c = 1..n /\ Len(c) = n
      /\ \A k \in 1..n : p(k) \in D /\ c[k] = s[p(k)] /\ PlaceIn(D, R, p(k)) = k
  BY <1>1, <1>2, Arranges
<1>4. ASSUME Unlike(s), NEW k \in 1..n, NEW l \in 1..n, c[k].text = c[l].text
      PROVE  k = l
  <2>1. p(k) = p(l)
    BY <1>3, <1>4 DEF Unlike, D
  <2> QED
    BY <1>3, <2>1
<1> QED
  BY <1>3, <1>4 DEF Unlike, c

\* The passages of a tool that are shared out no later than the one at p.
InFront(s, t, p) == {j \in DOMAIN s : s[j].tool = t /\ Before(s, j, p)}

LEMMA InFrontFinite ==
  ASSUME NEW s \in Seq(Passages), NEW t, NEW p
  PROVE  IsFiniteSet(InFront(s, t, p)) /\ Cardinality(InFront(s, t, p)) \in Nat
<1>1. InFront(s, t, p) \subseteq DOMAIN s
  BY DEF InFront
<1> QED
  BY <1>1, DomainIs, FS_Subset, FS_CardinalityType

\* No tool has more of them than the rank of p ...
LEMMA FrontBelow ==
  ASSUME NEW s \in Seq(Passages), NEW t, NEW p \in DOMAIN s
  PROVE  Cardinality(InFront(s, t, p)) <= Rank(s, p)
<1> DEFINE F == InFront(s, t, p)
           f == [j \in F |-> Rank(s, j)]
<1>0. DOMAIN s = 1..Len(s) /\ Rank(s, p) \in Nat
  BY Ranks
<1>1. \A j \in F : Rank(s, j) \in 1..Rank(s, p)
  <2>1. ASSUME NEW j \in F PROVE Rank(s, j) \in 1..Rank(s, p)
    <3>1. j \in DOMAIN s /\ Before(s, j, p)
      BY DEF InFront
    <3>2. Rank(s, j) \in Nat \ {0} /\ Rank(s, p) \in Nat
      BY <3>1, Ranks
    <3> QED
      BY <3>1, <3>2 DEF Before
  <2> QED
    BY <2>1
<1>2. ASSUME NEW i \in F, NEW j \in F, Rank(s, i) = Rank(s, j)
      PROVE  i = j
  <2>1. i \in DOMAIN s /\ j \in DOMAIN s /\ s[i].tool = s[j].tool /\ Rank(s, i) \in Nat
    BY Ranks DEF InFront
  <2>2. ~(i < j) /\ ~(j < i)
    BY <1>2, <2>1, Ranks
  <2>3. i \in Nat /\ j \in Nat
    BY <1>0, <2>1
  <2> QED
    BY <2>2, <2>3
<1> HIDE DEF F
<1>3. f \in Injection(F, 1..Rank(s, p))
  BY <1>1, <1>2 DEF Injection, IsInjective
<1> HIDE DEF f
<1> QED
  BY <1>0, <1>3, UpToN, FS_Injection DEF F

\* ... and a tool that has more to give has one less at least.
LEMMA FrontAbove ==
  ASSUME NEW s \in Seq(Passages), NEW t, NEW p \in DOMAIN s,
         NEW j \in DOMAIN s, s[j].tool = t, ~Before(s, j, p)
  PROVE  Cardinality(InFront(s, t, p)) + 1 >= Rank(s, p)
<1> DEFINE S == {i \in DOMAIN s : s[i].tool = t /\ ~Before(s, i, p)}
<1>1. DOMAIN s = 1..Len(s) /\ Len(s) \in Nat
  OBVIOUS
<1>2. S \in SUBSET Nat /\ S # {}
  BY <1>1
<1>3. PICK m \in S : \A i \in S : m <= i
  <2> HIDE DEF S
  <2> QED
    BY <1>2, Least
<1>4. m \in DOMAIN s /\ m \in Nat /\ s[m].tool = t /\ ~Before(s, m, p)
  BY <1>1
<1>5. OfTool(s, t, m) \subseteq InFront(s, t, p) \cup {m}
  <2>1. ASSUME NEW i \in 1..m, s[i].tool = t, i # m
        PROVE  i \in DOMAIN s /\ Before(s, i, p)
    <3>1. i \in DOMAIN s /\ i < m /\ i \in Nat
      BY <1>1, <1>4, <2>1
    <3>2. i \notin S
      <4> HIDE DEF S
      <4> QED
        BY <1>3, <1>4, <3>1
    <3> QED
      BY <2>1, <3>1, <3>2
  <2> QED
    BY <2>1 DEF OfTool, InFront
<1>6. IsFiniteSet(InFront(s, t, p)) /\ Cardinality(InFront(s, t, p)) \in Nat
  BY InFrontFinite
<1>7. m \notin InFront(s, t, p)
  BY <1>4 DEF InFront
<1>8. /\ IsFiniteSet(InFront(s, t, p) \cup {m})
      /\ Cardinality(InFront(s, t, p) \cup {m}) = Cardinality(InFront(s, t, p)) + 1
  BY <1>6, <1>7, FS_AddElement
<1>9. Cardinality(OfTool(s, t, m)) <= Cardinality(InFront(s, t, p)) + 1
  BY <1>5, <1>8, FS_Subset
<1>10. Rank(s, m) = Cardinality(OfTool(s, t, m)) /\ Rank(s, m) \in Nat /\ Rank(s, p) \in Nat
  BY <1>4, Ranks
<1>11. Rank(s, m) >= Rank(s, p)
  BY <1>4, <1>10 DEF Before
<1> QED
  BY <1>6, <1>9, <1>10, <1>11

\* Among the first n of the passages shared out are those in front of the n-th.
LEMMA FirstAreInFront ==
  ASSUME NEW s \in Seq(Passages), NEW t, NEW n \in 1..Len(s)
  PROVE  /\ AtPlace(DOMAIN s, Row(s), n) \in DOMAIN s
         /\ Cardinality(OfTool(Shared(s), t, n)) = Cardinality(InFront(s, t, AtPlace(DOMAIN s, Row(s), n)))
         /\ (\A j \in DOMAIN s : s[j].tool = t => j \in InFront(s, t, AtPlace(DOMAIN s, Row(s), n)))
              => OfTool(Shared(s), t, n) = OfTool(Shared(s), t, Len(s))
<1> DEFINE D == DOMAIN s
           R == Row(s)
           N == Len(s)
           c == Shared(s)
           pos(k) == AtPlace(D, R, k)
           p == pos(n)
           F == InFront(s, t, p)
<1>1. N \in Nat /\ D = 1..N /\ Cardinality(D) = N /\ Lined(D, R) /\ D \in SUBSET DOMAIN s /\ IsFiniteSet(D)
  BY DomainIs, BeforeLined
<1>2. c = Arranged(s, D, R)
  BY DEF Shared, RoundRobin, Row
<1>3. \A j \in D : j \in F <=> s[j].tool = t /\ <<j, p>> \in R
  <2>1. p \in D
    <3> HIDE DEF D, R
    <3>1. n \in 1..Cardinality(D)
      BY <1>1
    <3> QED
      BY <1>1, <3>1, Arranges
  <2> QED
    BY <2>1, BeforeLined DEF InFront
<1>3b. F \subseteq D
  BY DEF InFront
<1> HIDE DEF D, R, c, F
<1>4. /\ \A k \in 1..N : pos(k) \in D /\ c[k] = s[pos(k)] /\ PlaceIn(D, R, pos(k)) = k
      /\ \A i \in D : PlaceIn(D, R, i) \in 1..N /\ pos(PlaceIn(D, R, i)) = i
  BY <1>1, <1>2, Arranges
<1>5. \A k \in 1..N : <<pos(k), p>> \in R <=> k <= n
  <2>1. ASSUME NEW k \in 1..N PROVE <<pos(k), p>> \in R <=> k <= n
    <3>1. pos(k) \in D /\ p \in D /\ PlaceIn(D, R, pos(k)) = k /\ PlaceIn(D, R, p) = n
      BY <1>4
    <3> QED
      BY <1>1, <3>1, RowPlaces
  <2> QED
    BY <2>1
<1> DEFINE A == OfTool(c, t, n)
           f == [k \in A |-> pos(k)]
<1>6. \A k \in A : k \in 1..N /\ pos(k) \in F
  <2>1. ASSUME NEW k \in A PROVE k \in 1..N /\ pos(k) \in F
    <3>1. k \in 1..n /\ c[k].tool = t
      BY DEF OfTool
    <3>2. k \in 1..N /\ k <= n
      BY <1>1, <3>1
    <3> QED
      BY <1>3, <1>4, <1>5, <3>1, <3>2
  <2> QED
    BY <2>1
<1>7. \A j \in F : \E k \in A : pos(k) = j
  <2>1. ASSUME NEW j \in F PROVE PlaceIn(D, R, j) \in A /\ pos(PlaceIn(D, R, j)) = j
    <3>1. j \in D /\ s[j].tool = t /\ <<j, p>> \in R
      BY <1>3, <1>3b
    <3>2. PlaceIn(D, R, j) \in 1..N /\ pos(PlaceIn(D, R, j)) = j
      BY <1>4, <3>1
    <3>3. PlaceIn(D, R, j) <= n /\ c[PlaceIn(D, R, j)] = s[j]
      BY <1>4, <1>5, <3>1, <3>2
    <3>4. PlaceIn(D, R, j) \in 1..n
      BY <1>1, <3>2, <3>3
    <3> QED
      BY <3>1, <3>2, <3>3, <3>4 DEF OfTool
  <2> QED
    BY <2>1
<1>8. (\A j \in D : s[j].tool = t => j \in F) => A = OfTool(c, t, N)
  <2> SUFFICES ASSUME \A j \in D : s[j].tool = t => j \in F
               PROVE  A = OfTool(c, t, N)
    OBVIOUS
  <2>1. ASSUME NEW k \in 1..N, c[k].tool = t PROVE k \in 1..n
    <3>1. pos(k) \in D /\ pos(k) \in F
      BY <1>4, <2>1
    <3>2. k <= n
      BY <1>3, <1>5, <3>1
    <3> QED
      BY <1>1, <3>2
  <2>2. 1..n \subseteq 1..N
    BY <1>1
  <2> QED
    BY <2>1, <2>2 DEF OfTool
<1>9. IsFiniteSet(A)
  <2>1. A \subseteq 1..n /\ n \in Nat
    BY DEF OfTool
  <2> QED
    BY <2>1, UpToN, FS_Subset
<1>10. \A k, l \in 1..N : pos(k) = pos(l) => k = l
  BY <1>4
<1> HIDE DEF A
<1>11. f \in Bijection(A, F)
  <2>1. f \in [A -> F]
    BY <1>6
  <2>2. \A k, l \in A : f[k] = f[l] => k = l
    BY <1>6, <1>10
  <2>3. \A j \in F : \E k \in A : f[k] = j
    BY <1>7
  <2> HIDE DEF f
  <2> QED
    BY <2>1, <2>2, <2>3 DEF Bijection, Injection, IsInjective, Surjection
<1>12. Cardinality(F) = Cardinality(A)
  <2>1. ExistsBijection(A, F)
    BY <1>11 DEF ExistsBijection
  <2> QED
    BY <1>9, <2>1, FS_Bijection
<1>13. p \in D
  BY <1>4
<1> QED
  BY <1>8, <1>12, <1>13 DEF A, F, D, R, c

\* Wherever what is shared out is cut, no tool has two more than another that has some left.
Fair(c) ==
  \A n \in DOMAIN c : \A t, u \in Tools :
    \/ Cardinality(OfTool(c, t, n)) + 1 >= Cardinality(OfTool(c, u, n))
    \/ Cardinality(OfTool(c, t, n)) = Cardinality(OfTool(c, t, Len(c)))

LEMMA SharedIsFair == ASSUME NEW s \in Seq(Passages) PROVE Fair(Shared(s))
<1> DEFINE c == Shared(s)
<1>1. Len(c) = Len(s) /\ DOMAIN c = 1..Len(s)
  BY SharesAll
<1>2. ASSUME NEW n \in 1..Len(s), NEW t \in Tools, NEW u \in Tools
      PROVE  \/ Cardinality(OfTool(c, t, n)) + 1 >= Cardinality(OfTool(c, u, n))
             \/ Cardinality(OfTool(c, t, n)) = Cardinality(OfTool(c, t, Len(s)))
  <2> DEFINE p == AtPlace(DOMAIN s, Row(s), n)
  <2>1. /\ p \in DOMAIN s
        /\ Cardinality(OfTool(c, t, n)) = Cardinality(InFront(s, t, p))
        /\ Cardinality(OfTool(c, u, n)) = Cardinality(InFront(s, u, p))
        /\ (\A j \in DOMAIN s : s[j].tool = t => j \in InFront(s, t, p))
             => OfTool(c, t, n) = OfTool(c, t, Len(s))
    BY FirstAreInFront
  <2> HIDE DEF p, c
  <2>2. CASE \A j \in DOMAIN s : s[j].tool = t => j \in InFront(s, t, p)
    BY <2>1, <2>2
  <2>3. CASE \E j \in DOMAIN s : s[j].tool = t /\ j \notin InFront(s, t, p)
    <3>1. PICK j \in DOMAIN s : s[j].tool = t /\ ~Before(s, j, p)
      BY <2>3 DEF InFront
    <3>2. Cardinality(InFront(s, t, p)) + 1 >= Rank(s, p)
      BY <2>1, <3>1, FrontAbove
    <3>3. Cardinality(InFront(s, u, p)) <= Rank(s, p)
      BY <2>1, FrontBelow
    <3>4. /\ Cardinality(InFront(s, t, p)) \in Nat /\ Cardinality(InFront(s, u, p)) \in Nat
          /\ Rank(s, p) \in Nat
      BY <2>1, InFrontFinite, Ranks
    <3> QED
      BY <2>1, <3>2, <3>3, <3>4
  <2> QED
    BY <2>2, <2>3
<1> HIDE DEF c
<1> QED
  BY <1>1, <1>2 DEF Fair, c

-----------------------------------------------------------------------------
(* The invariant of what the nodes hand on. *)

Drafted == [kind : {"none", "answer", "empty", "sorry"}, seen : Seq(Passages)]

\* The state of the graph has its types, and outside the executor every tool its share.
Found ==
  /\ scored \in (0..MaxComplete) \cup {NoScore}
  /\ calls \in SUBSET Calls
  /\ contexts \in Seq(Passages) /\ Unlike(contexts)
  /\ draft \in Drafted
  /\ shown \in 0..MaxShown
  /\ node # "executor" => Fair(contexts)

LEMMA NothingFound == <<>> \in Seq(Passages) /\ Unlike(<<>>) /\ Fair(<<>>)
<1>1. <<>> \in Seq(Passages) /\ DOMAIN <<>> = {}
  OBVIOUS
<1> QED
  BY <1>1 DEF Unlike, Fair

LEMMA ShownNat == MaxShown \in Nat \ {0} /\ MaxComplete \in Nat
  BY AgentAssumption

\* The first n of some passages are passages, the same ones at the same places.
LEMMA FirstPassages ==
  ASSUME NEW s \in Seq(Passages), NEW n \in 0..Len(s)
  PROVE  /\ First(s, n) \in Seq(Passages)
         /\ DOMAIN First(s, n) = 1..n
         /\ \A i \in 1..n : First(s, n)[i] = s[i] /\ i \in DOMAIN s
<1>1. n \in Nat /\ Len(s) \in Nat /\ DOMAIN s = 1..Len(s)
  OBVIOUS
<1>2. \A i \in 1..n : s[i] \in Passages
  BY <1>1
<1> QED BY <1>1, <1>2, SMT DEF First

LEMMA NoDrafts ==
  /\ NoDraft \in Drafted
  /\ Sorry \in Drafted
<1>1. NoDraft \in Drafted
  BY ShownNat DEF NoDraft, Drafted
<1>2. Sorry \in Drafted
  BY <1>1 DEF Sorry, Drafted
<1> QED
  BY <1>1, <1>2

LEMMA ResultsAreTexts == ASSUME NEW t \in Tools PROVE Results(t) \subseteq Seq(Texts)
<1>1. Failure[t] \in Texts
  BY DEF Texts
<1>2. <<Failure[t]>> \in Seq(Texts)
  BY <1>1
<1>3. Offers[t] \subseteq Seq(Texts)
  BY AgentAssumption
<1> QED
  BY <1>2, <1>3 DEF Results

LEMMA FoundStarts == AgentInit => Found
<1> SUFFICES ASSUME AgentInit PROVE Found
  OBVIOUS
<1>1. 0 \in 0..MaxShown
  BY ShownNat
<1> QED
  BY <1>1, NothingFound, NoDrafts DEF AgentInit, Found

LEMMA GathersFound ==
  ASSUME Found, NEW s \in Seq(Passages), Unlike(s), Gathers(s)
  PROVE  /\ contexts' \in Seq(Passages) /\ Unlike(contexts') /\ shown' = shown /\ scored' = scored
         /\ draft' \in Drafted
BY DEF Gathers, Found

LEMMA FoundSteps == Found /\ [AgentNext]_agentVars => Found'
<1> SUFFICES ASSUME Found, [AgentNext]_agentVars PROVE Found'
  OBVIOUS
<1>1. CASE UNCHANGED graph
  BY <1>1 DEF graph, Found
<1>2. CASE Plan
  <2>1. contexts' \in Seq(Passages) /\ Unlike(contexts') /\ Fair(contexts')
    BY <1>2, NothingFound DEF Plan, Over, Found
  <2> QED
    BY <1>2, <2>1 DEF Plan, Over, Found
<1>3. CASE Select
  BY <1>3 DEF Select, Over, Found
<1>4. CASE Execute
  <2>1. Shared(contexts) \in Seq(Passages) /\ Unlike(Shared(contexts)) /\ Fair(Shared(contexts))
    BY SharesAll, SharedIsFair DEF Found
  <2>2. Gathers(Shared(contexts)) /\ calls' = calls
    BY <1>4 DEF Execute
  <2>3. contexts' = Shared(contexts)
    BY <2>2 DEF Gathers
  <2>4. /\ contexts' \in Seq(Passages) /\ Unlike(contexts') /\ shown' = shown /\ scored' = scored
        /\ draft' \in Drafted
    BY <2>1, <2>2, GathersFound
  <2> QED
    BY <2>1, <2>2, <2>3, <2>4 DEF Found
<1>5. ASSUME NEW c \in Calls, CallReturns(c) PROVE Found'
  <2>1. PICK texts \in Results(ToolOf[c]) : Gathers(Add(contexts, ToolOf[c], texts))
    BY <1>5 DEF CallReturns
  <2>2. ToolOf[c] \in Tools
    BY DEF Tools
  <2>3. texts \in Seq(Texts)
    BY <2>1, <2>2, ResultsAreTexts
  <2> DEFINE s == Add(contexts, ToolOf[c], texts)
  <2>4. s \in Seq(Passages) /\ Unlike(s)
    BY <2>2, <2>3, Adds DEF Found
  <2> HIDE DEF s
  <2>5. /\ contexts' \in Seq(Passages) /\ Unlike(contexts') /\ shown' = shown /\ scored' = scored
        /\ draft' \in Drafted
    BY <2>1, <2>4, GathersFound DEF s
  <2>6. calls' \in SUBSET Calls /\ node' = "executor"
    BY <1>5 DEF CallReturns, Found
  <2> QED
    BY <2>5, <2>6 DEF Found
<1>6. CASE Generate
  <2>1. /\ draft' \in Drafted
        /\ shown' \in 0..MaxShown
    <3>1. ASSUME NEW n \in 0..Len(contexts), NEW kind \in {"answer", "empty"}, n <= MaxShown, n # 0,
                 draft' = [kind |-> kind, seen |-> First(contexts, n)], shown' = n
          PROVE  /\ draft' \in Drafted
                 /\ shown' \in 0..MaxShown
      <4>1. n \in 0..MaxShown
        BY <3>1, ShownNat
      <4>2. First(contexts, n) \in Seq(Passages)
        BY FirstPassages DEF Found
      <4> QED
        BY <3>1, <4>1, <4>2 DEF Drafted
    <3>2. CASE draft' = Sorry /\ UNCHANGED shown
      BY <3>2, NoDrafts DEF Found
    <3> QED
      BY <1>6, <3>1, <3>2 DEF Generate, Drafts, NoModel, Apologises
  <2> QED
    BY <1>6, <2>1 DEF Generate, Over, Found
<1>7. CASE Ship \/ StartsEvaluation \/ Finalize
  BY <1>7 DEF Ship, StartsEvaluation, Finalize, Over, Found
<1>8. ASSUME NEW v \in Verdicts, Evaluate(v) PROVE Found'
  <2>1. v.complete \in 0..MaxComplete
    BY DEF Verdicts
  <2>2. node = "verdict" /\ scored' = v.complete /\ UNCHANGED <<calls, contexts, draft, shown>>
    BY <1>8 DEF Evaluate, Over
  <2> QED
    BY <2>1, <2>2 DEF Found
<1>9. CASE Check \/ Put \/ Done \/ FailRun \/ PutTimesOut \/ LastPut \/ ReadReport \/ Returns \/ TimesOut
           \/ Leaves \/ Tick \/ UNCHANGED agentVars
  BY <1>9, <1>1 DEF Check, Put, Done, FailRun, PutTimesOut, LastPut, ReadReport, Returns, TimesOut, Leaves,
                    Tick, agentVars
<1> QED
  BY <1>2, <1>3, <1>4, <1>5, <1>6, <1>7, <1>8, <1>9 DEF AgentNext, Thread, Node

THEOREM FoundAlways == AgentSpec => []Found
<1> QED BY FoundStarts, FoundSteps, PTL DEF AgentSpec

-----------------------------------------------------------------------------
(* What that comes to. *)

\* How many titles the first i passages have.
Titles(s, i) == {TitleOf[s[j]] : j \in 1..i}

LEMMA TitlesCounted ==
  ASSUME NEW s, NEW i \in Nat
  PROVE  IsFiniteSet(Titles(s, i)) /\ Number(s, i) = Cardinality(Titles(s, i)) /\ Number(s, i) \in Nat
<1> DEFINE f == [j \in 1..i |-> TitleOf[s[j]]]
<1>1. IsFiniteSet(1..i)
  BY FS_Interval
<1>2. IsFiniteSet(Titles(s, i))
  <2>1. f \in [1..i -> Titles(s, i)] /\ \A t \in Titles(s, i) : \E j \in 1..i : f[j] = t
    BY DEF Titles
  <2>2. f \in Surjection(1..i, Titles(s, i))
    BY <2>1 DEF Surjection
  <2> QED BY <1>1, <2>2, FS_Surjection
<1> QED BY <1>2, FS_CardinalityType DEF Titles, Number

\* Of two passages that are the first of their titles the later has the higher number.
LEMMA NumbersRise ==
  ASSUME NEW s, NEW k \in Nat, NEW i \in Nat, 0 < k, k < i, Opens(s, i)
  PROVE  Number(s, k) < Number(s, i)
<1>1. Titles(s, k) \subseteq Titles(s, i) /\ TitleOf[s[i]] \in Titles(s, i)
  BY DEF Titles
<1>2. TitleOf[s[i]] \notin Titles(s, k)
  <2>1. \A j \in 1..k : j \in 1..i-1
    OBVIOUS
  <2> QED BY <2>1 DEF Titles, Opens
<1>3. Cardinality(Titles(s, k)) # Cardinality(Titles(s, i)) /\ Cardinality(Titles(s, k)) <= Cardinality(Titles(s, i))
  BY <1>1, <1>2, TitlesCounted, FS_Subset
<1> QED BY <1>3, TitlesCounted

\* A number the first n passages give to a paper is that paper's in all of them too.
LEMMA NumbersStay ==
  ASSUME NEW s \in Seq(Passages), NEW n \in 0..Len(s), NEW m, Paper(First(s, n), m) # {}
  PROVE  Paper(s, m) = Paper(First(s, n), m)
<1> DEFINE t == First(s, n)
           Here(q) == {k \in DOMAIN q : Opens(q, k) /\ Number(q, k) = m}
<1>1. DOMAIN t = 1..n /\ n \in Nat /\ DOMAIN s \subseteq Nat \ {0} /\ \A i \in 1..n : t[i] = s[i] /\ i \in DOMAIN s
  BY FirstPassages
<1> HIDE DEF t
<1>2. ASSUME NEW i \in 1..n PROVE (Opens(t, i) <=> Opens(s, i)) /\ Number(t, i) = Number(s, i)
  <2>1. \A j \in 1..i : t[j] = s[j]
    BY <1>1
  <2>2. {TitleOf[t[j]] : j \in 1..i} = {TitleOf[s[j]] : j \in 1..i}
    BY <2>1
  <2>3. \A j \in 1..i-1 : j \in 1..i
    OBVIOUS
  <2>4. i \in 1..i
    OBVIOUS
  <2> QED BY <2>1, <2>2, <2>3, <2>4 DEF Opens, Number
<1>3. PICK k \in 1..n : Opens(s, k) /\ Number(s, k) = m
  BY <1>1, <1>2 DEF Paper, t
<1>4. ASSUME NEW i \in DOMAIN s, Opens(s, i), Number(s, i) = m PROVE i = k
  <2>1. i \in Nat /\ k \in Nat /\ 0 < i /\ 0 < k
    BY <1>1
  <2>2. Number(s, i) \in Nat
    BY <2>1, TitlesCounted
  <2>3. ~(k < i)
    BY <1>3, <1>4, <2>1, <2>2, NumbersRise
  <2>4. ~(i < k)
    BY <1>3, <1>4, <2>1, <2>2, NumbersRise
  <2> QED BY <2>1, <2>3, <2>4
<1>5. Here(s) = {k}
  BY <1>1, <1>3, <1>4
<1>6. Here(t) = {k}
  <2>1. \A i \in Here(t) : i = k
    BY <1>1, <1>2, <1>4
  <2>2. k \in Here(t)
    BY <1>1, <1>2, <1>3
  <2> QED BY <2>1, <2>2
<1>7. Paper(s, m) = {TitleOf[s[i]] : i \in Here(s)} /\ Paper(t, m) = {TitleOf[t[i]] : i \in Here(t)}
  BY DEF Paper
<1> HIDE DEF Here
<1>8. t[k] = s[k]
  BY <1>1
<1>9. Paper(s, m) = {TitleOf[s[k]]} /\ Paper(t, m) = {TitleOf[t[k]]}
  BY <1>5, <1>6, <1>7
<1> QED BY <1>8, <1>9 DEF t

\* However many cycles and failures came before, a number in an answer means to its readers
\* the paper it meant to its author: to the evaluator, which looks it up in all passages, if
\* its author was shown that number (reflexion_evaluator_node), and to the routes, which look
\* it up in the passages he was shown (agent_query, agent_stream).
THEOREM MarksAlwaysResolve == AgentSpec => []MarksResolve
<1>1. AgentInv /\ Found => MarksResolve
  <2> SUFFICES ASSUME AgentInv, Found, draft.kind = "answer" PROVE
        /\ node \in {"evaluator", "verdict"} =>
             \A m \in 1..Len(draft.seen) :
               Paper(draft.seen, m) # {} => Paper(contexts, m) = Paper(draft.seen, m)
        /\ node \in {"finalizer", "end"} =>
             \A m \in 1..Len(contexts) : Paper(First(contexts, shown), m) = Paper(draft.seen, m)
    BY DEF MarksResolve
  <2>1. node \in {"evaluator", "verdict", "finalizer", "end"} =>
          shown \in 0..Len(contexts) /\ draft.seen = First(contexts, shown)
    BY DEF AgentInv, WroteFrom
  <2>2. contexts \in Seq(Passages)
    BY DEF Found
  <2>3. ASSUME node \in {"evaluator", "verdict"}, NEW m \in 1..Len(draft.seen), Paper(draft.seen, m) # {}
        PROVE  Paper(contexts, m) = Paper(draft.seen, m)
    BY <2>1, <2>2, <2>3, NumbersStay
  <2> QED BY <2>1, <2>3
<1> QED BY <1>1, AgentInvAlways, FoundAlways, PTL

\* Every variable of a run has its type, and no text is twice among what it has found.
THEOREM AgentTypesCorrect == AgentSpec => []AgentTypeOK
<1>1. AgentInv /\ Found => AgentTypeOK
  BY TimeoutNat DEF AgentInv, AgentTyped, Left, Found, Drafted, Unlike, AgentTypeOK
<1> QED BY <1>1, AgentInvAlways, FoundAlways, PTL

\* Wherever the prompt cuts the passages, no tool has two more in it than another that still
\* has some to give, whichever tool answered first (_interleave_by_retriever).
THEOREM FairShareAlways == AgentSpec => []FairShare
<1>1. Found => FairShare
  BY DEF Found, Fair, OfTool, FairShare, Share
<1> QED BY <1>1, FoundAlways, PTL
=============================================================================
