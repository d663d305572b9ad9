----------------------------- MODULE SseBridge -----------------------------
(***************************************************************************)
(* sse_utils.sse_stream: a thread produces the chunks of an answer, a      *)
(* coroutine hands them to the client.  Between them is a bounded queue    *)
(* that the event loop fills: the thread posts callbacks, the loop runs    *)
(* them in order.  A chunk never waits, it drops the oldest one instead;   *)
(* error and done wait for room, for at most 30 s.  A producer holds one   *)
(* of SSE_MAX_PRODUCERS slots.                                             *)
(***************************************************************************)
EXTENDS Naturals, Sequences, FiniteSets, SequencesExt

CONSTANTS
  Streams,
  MaxProducers,  \* config.SSE_MAX_PRODUCERS
  QueueSize,     \* the queue's maxsize
  MaxChunks,     \* bound: chunks of an answer
  MaxLost,       \* bound: threads that cannot be started
  NoAnswer

ASSUME BridgeAssumption ==
  /\ IsFiniteSet(Streams)
  /\ {MaxProducers, QueueSize} \subseteq Nat \ {0}
  /\ {MaxChunks, MaxLost} \subseteq Nat
  /\ NoAnswer \notin [text : Nat, noted : BOOLEAN]

VARIABLES
  slots,     \* _producer_slots
  others,    \* slots held by streams of other routes
  lost,      \* slots whose thread could not be started
  stage,     \* of the consumer
  stop,      \* stop_event
  producer,  \* where the thread is
  posted,    \* callbacks the loop has yet to run
  queue,
  produced,  \* chunks the model has generated
  broken,    \* its stream raised
  got,       \* chunks that reached the consumer
  answer     \* what the done event carries: a text, and whether it says it was cut off

thread == <<producer, produced, broken>>
channel == <<posted, queue>>
bridge == <<slots, others, lost, stage, stop, thread, channel, got, answer>>

Terminals == {"error", "done"}
Answers == [text : Nat, noted : BOOLEAN]

BridgeInit ==
  /\ slots = MaxProducers /\ others = 0 /\ lost = 0
  /\ stage = [r \in Streams |-> "off"]
  /\ stop = [r \in Streams |-> FALSE]
  /\ producer = [r \in Streams |-> "none"]
  /\ posted = [r \in Streams |-> <<>>]
  /\ queue = [r \in Streams |-> <<>>]
  /\ produced = [r \in Streams |-> 0]
  /\ broken = [r \in Streams |-> FALSE]
  /\ got = [r \in Streams |-> 0]
  /\ answer = [r \in Streams |-> NoAnswer]

Stage(r, here, there) == stage[r] = here /\ stage' = [stage EXCEPT ![r] = there]
Producer(r, here, there) == producer[r] = here /\ producer' = [producer EXCEPT ![r] = there]
Posts(r, item) == posted' = [posted EXCEPT ![r] = Append(@, item)]

-----------------------------------------------------------------------------
\* Streams of POST /query/stream and of other sessions take and give back slots.
OtherTakes ==
  /\ slots > 0 /\ slots' = slots - 1 /\ others' = others + 1
  /\ UNCHANGED <<lost, stage, stop, thread, channel, got, answer>>
OtherReturns ==
  /\ others > 0 /\ slots' = slots + 1 /\ others' = others - 1
  /\ UNCHANGED <<lost, stage, stop, thread, channel, got, answer>>

\* _acquire_producer_slot, then the thread; without a thread the slot is gone for good.
TakeSlot(r) ==
  /\ Stage(r, "waiting", "reading")
  /\ slots > 0 /\ slots' = slots - 1
  /\ Producer(r, "none", "running")
  /\ UNCHANGED <<others, lost, stop, produced, broken, channel, got, answer>>

NoThread(r) ==
  /\ Stage(r, "waiting", "failed")
  /\ slots > 0 /\ slots' = slots - 1
  /\ lost < MaxLost /\ lost' = lost + 1
  /\ UNCHANGED <<others, stop, thread, channel, got, answer>>

\* No slot for ADMISSION_WAIT_S: an error and [DONE].
Refuse(r) ==
  /\ slots = 0
  /\ Stage(r, "waiting", "failed")
  /\ UNCHANGED <<slots, others, lost, stop, thread, channel, got, answer>>

-----------------------------------------------------------------------------
(* The producer thread (_run). *)

\* The stop event is looked at with a chunk in hand, which is then thrown away.
Chunk(r) ==
  /\ producer[r] = "running" /\ ~stop[r]
  /\ produced[r] < MaxChunks
  /\ produced' = [produced EXCEPT ![r] = @ + 1]
  /\ Posts(r, "chunk")
  /\ UNCHANGED <<slots, others, lost, stage, stop, producer, broken, queue, got, answer>>

\* The stream is over, and it had text: llm_generate_stream raises if not.
ChunksEnd(r) ==
  /\ stop[r] \/ produced[r] > 0
  /\ Producer(r, "running", "closing")
  /\ Posts(r, "done")
  /\ UNCHANGED <<slots, others, lost, stage, stop, produced, broken, queue, got, answer>>

StreamRaises(r) ==
  /\ Producer(r, "running", "failing")
  /\ broken' = [broken EXCEPT ![r] = TRUE]
  /\ Posts(r, "error")
  /\ UNCHANGED <<slots, others, lost, stage, stop, produced, queue, got, answer>>

\* _enqueue_terminal returns: the item is in the queue, or the queue was full for 30 s.
Settled(r, item) == item \notin Range(posted[r]) \/ Len(queue[r]) = QueueSize

\* A put that was given up is still made when there is room.
ErrorSettled(r) ==
  /\ Settled(r, "error")
  /\ Producer(r, "failing", "closing")
  /\ Posts(r, "done")
  /\ UNCHANGED <<slots, others, lost, stage, stop, produced, broken, queue, got, answer>>

\* Bug: no release where the done event could not be delivered.
ReleasesIfPut(r) == IF "done" \in Range(posted[r]) THEN 0 ELSE 1
Releases(r) == 1

DoneSettled(r) ==
  /\ Settled(r, "done")
  /\ Producer(r, "closing", "finished")
  /\ slots' = slots + Releases(r)
  /\ UNCHANGED <<others, lost, stage, stop, produced, broken, channel, got, answer>>

Room(r) == IF Len(queue[r]) = QueueSize THEN Tail(queue[r]) ELSE queue[r]

\* The loop runs the next callback: a chunk drops the oldest item of a full queue, a
\* terminal item waits for room.
Deliver(r) ==
  LET item == Head(posted[r]) IN
  /\ posted[r] # <<>>
  /\ item \in Terminals => Len(queue[r]) < QueueSize
  /\ queue' = [queue EXCEPT ![r] = Append(Room(r), item)]
  /\ posted' = [posted EXCEPT ![r] = Tail(@)]
  /\ UNCHANGED <<slots, others, lost, stage, stop, thread, got, answer>>

-----------------------------------------------------------------------------
(* The consumer (sse_stream). *)

Read(r) ==
  /\ stage[r] = "reading" /\ queue[r] # <<>>
  /\ queue' = [queue EXCEPT ![r] = Tail(@)]
  /\ LET kind == Head(queue[r]) IN
     \/ /\ kind = "chunk"
        /\ got' = [got EXCEPT ![r] = @ + 1]
        /\ UNCHANGED <<stage, stop>>
     \/ /\ kind = "error"
        /\ stage' = [stage EXCEPT ![r] = IF got[r] = 0 THEN "failed" ELSE "interrupted"]
        /\ stop' = [stop EXCEPT ![r] = got[r] = 0]
        /\ UNCHANGED got
     \/ /\ kind = "done"
        /\ stage' = [stage EXCEPT ![r] = "complete"]
        /\ UNCHANGED <<got, stop>>
  /\ UNCHANGED <<slots, others, lost, thread, posted, answer>>

\* Bug: the answer is put together from the chunks that were delivered.
AssembledFromQueue(r) == got[r]
\* The text is what the producer kept, however much of it the queue dropped.
Assembled(r) == IF produced[r] > 0 THEN produced[r] ELSE got[r]

\* The done event.  After an error the stream counts as failed for its reader.
Finish(r) ==
  /\ stage[r] \in {"complete", "interrupted"}
  /\ answer' = [answer EXCEPT ![r] = [text |-> Assembled(r), noted |-> stage[r] = "interrupted"]]
  /\ stage' = [stage EXCEPT ![r] = IF @ = "complete" THEN "told" ELSE "failed"]
  /\ stop' = [stop EXCEPT ![r] = TRUE]
  /\ UNCHANGED <<slots, others, lost, thread, channel, got>>

\* The client disconnects: whatever the generator is at, its finally sets the event.
Disconnect(r) ==
  /\ stage[r] \in {"waiting", "reading", "interrupted", "complete"}
  /\ stage' = [stage EXCEPT ![r] = "left"]
  /\ stop' = [stop EXCEPT ![r] = TRUE]
  /\ UNCHANGED <<slots, others, lost, thread, channel, got, answer>>

BridgeOver == {"told", "failed", "left"}

ThreadStep(r) == Chunk(r) \/ ChunksEnd(r) \/ StreamRaises(r) \/ ErrorSettled(r) \/ DoneSettled(r)
ReaderStep(r) == TakeSlot(r) \/ NoThread(r) \/ Refuse(r) \/ Read(r) \/ Finish(r) \/ Disconnect(r)
BridgeStep(r) == ThreadStep(r) \/ Deliver(r) \/ ReaderStep(r)

-----------------------------------------------------------------------------
BridgeTypeOK ==
  /\ {slots, others, lost} \subseteq 0..MaxProducers
  /\ stage \in [Streams -> {"off", "waiting", "reading", "interrupted", "complete"} \cup BridgeOver]
  /\ stop \in [Streams -> BOOLEAN]
  /\ producer \in [Streams -> {"none", "running", "failing", "closing", "finished"}]
  /\ posted \in [Streams -> Seq({"chunk"} \cup Terminals)]
  /\ queue \in [Streams -> Seq({"chunk"} \cup Terminals)]
  /\ \A r \in Streams : Len(queue[r]) <= QueueSize
  /\ produced \in [Streams -> Nat]
  /\ broken \in [Streams -> BOOLEAN]
  /\ got \in [Streams -> Nat]
  /\ answer \in [Streams -> Answers \cup {NoAnswer}]

\* SlotsConserved: every slot is free, held by a producer or by another route, or lost with
\* the thread that could not be started.  One released twice, or not after a delivery that
\* failed, would change SSE_MAX_PRODUCERS for the life of the process.
SlotsConserved ==
  slots + others + lost
    + Cardinality({r \in Streams : producer[r] \in {"running", "failing", "closing"}}) = MaxProducers

\* ToldTheTruth: the answer of a done event is everything the model generated, and says it is
\* incomplete exactly if the model's stream broke: no chunk dropped for a slow client is
\* missing from it, and no error is lost on its way to the client.
ToldTheTruth ==
  \A r \in Streams : answer[r] # NoAnswer => answer[r] = [text |-> produced[r], noted |-> broken[r]]
=============================================================================
