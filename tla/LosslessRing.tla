---------------------------- MODULE LosslessRing ----------------------------
(* LosslessIqRing (rf-sensor/src/ring.rs): one producer, one consumer, a    *)
(* buffer of Capacity slots and two cursors, machine words that wrap.  The  *)
(* producer loads the consumer's cursor once per push and accepts what fits *)
(* in the space free at that moment; each side moves its own cursor when it *)
(* is done.  push and pop interleave sample by sample.  The samples are the *)
(* numbers 1, 2, ... in the order they are offered.                         *)
EXTENDS RingShared, SequencesExt

CONSTANT MaxOffered  \* bound of the model: samples ever offered

ASSUME OfferedAssumption == MaxOffered \in Nat

VARIABLES buf,        \* the slots
          writePos, readPos, dropped,
          producer,   \* push in progress: step, own cursor, samples to copy and refused
          consumer,   \* pop in progress: step, own cursor, samples still to copy
          offered,    \* history: samples offered so far
          got,        \* what the pop in progress has copied
          delivered   \* history: what all finished pops returned

ringVars == <<buf, writePos, readPos, dropped, producer, consumer, offered, got, delivered>>

RingInit ==
  /\ buf = EmptyBuffer
  /\ writePos = 0 /\ readPos = 0 /\ dropped = 0
  /\ producer = [step |-> "idle", write |-> 0, left |-> 0, refused |-> 0]
  /\ consumer = [step |-> "idle", read |-> 0, left |-> 0]
  /\ offered = 0 /\ got = <<>> /\ delivered = <<>>

-----------------------------------------------------------------------------
(* push *)

\* Space free when the consumer's cursor is loaded; the subtraction is unsigned.
FreeOffByOne == Capacity + 1 - Distance(writePos, readPos)
Free == Capacity - Distance(writePos, readPos)

PushBeginPublished(n) ==
  /\ producer.step = "idle"
  /\ offered + n <= MaxOffered
  /\ producer' = [step |-> "copy", write |-> writePos, left |-> AtMost(Free, n),
                  refused |-> n - AtMost(Free, n)]
  /\ offered' = offered + n
  /\ writePos' = (writePos + AtMost(Free, n)) % Word
  /\ UNCHANGED <<buf, readPos, dropped, consumer, got, delivered>>
PushBegin(n) ==
  /\ producer.step = "idle"
  /\ offered + n <= MaxOffered
  /\ producer' = [step |-> "copy", write |-> writePos, left |-> AtMost(Free, n),
                  refused |-> n - AtMost(Free, n)]
  /\ offered' = offered + n
  /\ UNCHANGED <<buf, writePos, readPos, dropped, consumer, got, delivered>>

\* The number of the next sample the push in progress copies.
NextSample == offered - producer.refused - producer.left + 1

PushSample ==
  /\ producer.step = "copy" /\ producer.left > 0
  /\ buf' = [buf EXCEPT ![Slot(producer.write)] = NextSample]
  /\ producer' = [step |-> "copy", write |-> Succ(producer.write),
                  left |-> producer.left - 1, refused |-> producer.refused]
  /\ UNCHANGED <<writePos, readPos, dropped, consumer, offered, got, delivered>>

PushPublish ==
  /\ producer.step = "copy" /\ producer.left = 0
  /\ writePos' = producer.write
  /\ producer' = [step |-> IF producer.refused > 0 THEN "count" ELSE "idle",
                  write |-> producer.write, left |-> 0, refused |-> producer.refused]
  /\ UNCHANGED <<buf, readPos, dropped, consumer, offered, got, delivered>>

PushCountStored ==
  /\ producer.step = "count"
  /\ dropped' = producer.refused
  /\ producer' = [step |-> "idle", write |-> producer.write, left |-> 0, refused |-> 0]
  /\ UNCHANGED <<buf, writePos, readPos, consumer, offered, got, delivered>>
PushCount ==
  /\ producer.step = "count"
  /\ dropped' = dropped + producer.refused
  /\ producer' = [step |-> "idle", write |-> producer.write, left |-> 0, refused |-> 0]
  /\ UNCHANGED <<buf, writePos, readPos, consumer, offered, got, delivered>>

-----------------------------------------------------------------------------
(* pop *)

PopBegin(n) ==
  /\ consumer.step = "idle"
  /\ consumer' = [step |-> "copy", read |-> readPos,
                  left |-> AtMost(Distance(writePos, readPos), n)]
  /\ UNCHANGED <<buf, writePos, readPos, dropped, producer, offered, got, delivered>>

PopSample ==
  /\ consumer.step = "copy" /\ consumer.left > 0
  /\ got' = Append(got, buf[Slot(consumer.read)])
  /\ consumer' = [step |-> "copy", read |-> Succ(consumer.read), left |-> consumer.left - 1]
  /\ UNCHANGED <<buf, writePos, readPos, dropped, producer, offered, delivered>>

PopPublish ==
  /\ consumer.step = "copy" /\ consumer.left = 0
  /\ readPos' = consumer.read
  /\ delivered' = delivered \o got
  /\ got' = <<>>
  /\ consumer' = [step |-> "idle", read |-> consumer.read, left |-> 0]
  /\ UNCHANGED <<buf, writePos, dropped, producer, offered>>

RingNext ==
  \/ \E n \in 1..MaxBlock : PushBegin(n) \/ PopBegin(n)
  \/ PushSample \/ PushPublish \/ PushCount
  \/ PopSample \/ PopPublish

RingSpec == RingInit /\ [][RingNext]_ringVars

-----------------------------------------------------------------------------
(* Properties *)

\* The push never writes a slot the consumer may still read, however far the
\* consumer gets meanwhile, and the space it found free (line 162) was not the
\* result of a subtraction below zero, also when the cursors wrap.
RoomForThePush ==
  /\ Distance(writePos, readPos) <= Capacity
  /\ Distance(producer.write, readPos) + producer.left <= Capacity

\* Nothing is lost without a trace: when no push is running, each sample offered
\* was handed out, is being handed out, is in the ring, or is counted in
\* `dropped` (the v1 ring hid its losses, says the module's comment).
LossIsVisible ==
  producer.step = "idle" =>
    offered = Len(delivered) + Distance(writePos, readPos) + dropped

\* What is between the cursors, oldest first.
Inside == [i \in 1..Distance(writePos, readPos) |-> buf[Slot((readPos + i - 1) % Word)]]

Fifo == INSTANCE BoundedFifo WITH queue <- Inside, taken <- delivered

\* The ring is a bounded first-in first-out queue: every publish of the producer
\* is a block entering, every publish of the consumer the oldest samples
\* leaving unchanged, and nothing else shows.
ImplementsFifo == Fifo!FifoSpec
=============================================================================
