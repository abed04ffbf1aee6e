------------------------- MODULE LosslessRingProofs -------------------------
(* Theorems about LosslessRing for every capacity, word size and number of  *)
(* samples: how far the four cursors (the two shared ones and each side's   *)
(* own) may be apart, where every offered sample is, what the slots hold,   *)
(* and that the ring implements a bounded queue.  Then about LossyRing: how *)
(* far its two shared cursors, of which one has two writers, may be apart,  *)
(* and which samples its consumer gets, in which order.                     *)
EXTENDS LosslessRing, LossyRing, SequenceTheorems, TLAPS

Cursor == 0..(Word - 1)

CursorTypes ==
  /\ writePos \in Cursor /\ readPos \in Cursor
  /\ producer \in [step : {"idle", "copy", "count"}, write : Cursor, left : Nat, refused : Nat]
  /\ consumer \in [step : {"idle", "copy"}, read : Cursor, left : Nat]
  /\ dropped \in Nat /\ offered \in Nat

SampleTypes ==
  /\ buf \in [0..(Capacity - 1) -> Nat]
  /\ got \in Seq(Nat) /\ delivered \in Seq(Nat)

\* The cursors come in the order readPos, consumer.read, writePos,
\* producer.write, and what is still to be pushed fits behind the last one.
CursorOrder ==
  /\ Distance(writePos, readPos) = Distance(writePos, consumer.read) + Distance(consumer.read, readPos)
  /\ Distance(producer.write, consumer.read)
       = Distance(producer.write, writePos) + Distance(writePos, consumer.read)
  /\ Distance(producer.write, readPos)
       = Distance(producer.write, writePos) + Distance(writePos, readPos)
  /\ Distance(producer.write, readPos) + producer.left <= Capacity
  /\ consumer.left <= Distance(writePos, consumer.read)

AtRest ==
  /\ producer.step # "copy" => producer.write = writePos /\ producer.left = 0
  /\ producer.step = "idle" => producer.refused = 0
  /\ consumer.step = "idle" => consumer.read = readPos /\ consumer.left = 0

\* Each sample offered was handed out, is being handed out, is in the ring, is
\* still to be copied or to be counted as dropped, or was counted.
Accounting ==
  /\ Len(got) = Distance(consumer.read, readPos)
  /\ offered = Len(delivered) + Distance(producer.write, readPos)
                 + producer.left + producer.refused + dropped

RingInv == CursorTypes /\ SampleTypes /\ CursorOrder /\ AtRest /\ Accounting

----------------------------------------------------------------------------
(* Arithmetic of cursors *)

LEMMA DistanceType ==
  ASSUME NEW a \in Cursor, NEW b \in Cursor
  PROVE  Distance(a, b) \in 0..(Word - 1)
BY RingAssumption DEF Distance, Cursor

LEMMA DistanceZero ==
  ASSUME NEW a \in Cursor
  PROVE  Distance(a, a) = 0
BY RingAssumption DEF Distance, Cursor

LEMMA SuccType ==
  ASSUME NEW a \in Cursor
  PROVE  Succ(a) \in Cursor
BY RingAssumption DEF Succ, Cursor

\* Moving the front cursor on widens the distance, unless it comes all round.
LEMMA FrontMoves ==
  ASSUME NEW a \in Cursor, NEW b \in Cursor, Distance(a, b) < Word - 1
  PROVE  Distance(Succ(a), b) = Distance(a, b) + 1
BY RingAssumption DEF Distance, Succ, Cursor

LEMMA BackMoves ==
  ASSUME NEW a \in Cursor, NEW b \in Cursor, Distance(a, b) > 0
  PROVE  Distance(a, Succ(b)) = Distance(a, b) - 1
BY RingAssumption DEF Distance, Succ, Cursor

LEMMA AtMostBounds ==
  ASSUME NEW a \in Nat, NEW b \in Nat
  PROVE  AtMost(a, b) \in Nat /\ AtMost(a, b) <= a /\ AtMost(a, b) <= b
BY DEF AtMost

LEMMA SlotType ==
  ASSUME NEW a \in Cursor
  PROVE  Slot(a) \in 0..(Capacity - 1)
BY RingAssumption DEF Slot, Cursor

\* The facts about the distances of the four cursors that the steps below use.
Distances ==
  /\ Distance(writePos, readPos) \in Nat
  /\ Distance(writePos, consumer.read) \in Nat
  /\ Distance(consumer.read, readPos) \in Nat
  /\ Distance(producer.write, writePos) \in Nat
  /\ Distance(producer.write, consumer.read) \in Nat
  /\ Distance(producer.write, readPos) \in Nat

LEMMA DistancesHold == CursorTypes => Distances
<1> SUFFICES ASSUME CursorTypes PROVE Distances
  OBVIOUS
<1>1. /\ writePos \in Cursor /\ readPos \in Cursor
      /\ producer.write \in Cursor /\ consumer.read \in Cursor
  BY DEF CursorTypes
<1>2. \A a, b \in Cursor : Distance(a, b) \in Nat
  BY DistanceType, RingAssumption
<1> QED BY <1>1, <1>2 DEF Distances

----------------------------------------------------------------------------

LEMMA InitRingInv == RingInit => RingInv
<1> SUFFICES ASSUME RingInit PROVE RingInv
  OBVIOUS
<1>1. 0 \in Cursor
  BY RingAssumption DEF Cursor
<1>2. Distance(0, 0) = 0
  BY <1>1, DistanceZero
<1>3. CursorTypes
  BY <1>1 DEF RingInit, CursorTypes
<1>4. SampleTypes
  BY DEF RingInit, SampleTypes, EmptyBuffer
<1>5. Len(got) = 0 /\ Len(delivered) = 0
  BY DEF RingInit
<1>6. CursorOrder
  BY <1>2, RingAssumption DEF RingInit, CursorOrder
<1>7. AtRest /\ Accounting
  BY <1>2, <1>5 DEF RingInit, AtRest, Accounting
<1> QED BY <1>3, <1>4, <1>6, <1>7 DEF RingInv

LEMMA PushBeginStep ==
  ASSUME RingInv, NEW n \in 1..MaxBlock, PushBegin(n)
  PROVE  RingInv'
<1> USE DEF RingInv
<1>1. n \in Nat
  BY RingAssumption
<1>2. /\ producer.step = "idle" /\ producer.write = writePos
      /\ producer.left = 0 /\ producer.refused = 0
  BY DEF PushBegin, AtRest
<1>3. Distances
  BY DistancesHold
<1>4. Free \in Nat /\ Free = Capacity - Distance(writePos, readPos)
  BY <1>2, <1>3, RingAssumption DEF CursorOrder, Free, Distances
<1>5. DEFINE accept == AtMost(Free, n)
<1>6. accept \in Nat /\ accept <= Free /\ accept <= n
  BY <1>1, <1>4, AtMostBounds
<1>7. /\ producer' = [step |-> "copy", write |-> writePos, left |-> accept, refused |-> n - accept]
      /\ offered' = offered + n
      /\ UNCHANGED <<buf, writePos, readPos, dropped, consumer, got, delivered>>
  BY DEF PushBegin
<1> HIDE DEF accept
<1>8. CursorTypes'
  BY <1>1, <1>6, <1>7 DEF CursorTypes
<1>9. SampleTypes'
  BY <1>7 DEF SampleTypes
<1>10. /\ producer'.write = producer.write /\ producer'.left = accept
       /\ producer'.refused = n - accept /\ producer'.step = "copy"
  BY <1>2, <1>7
<1>11. CursorOrder'
  BY <1>2, <1>3, <1>4, <1>6, <1>7, <1>10, RingAssumption DEF CursorOrder, Distances
<1>12. AtRest'
  BY <1>7, <1>10 DEF AtRest
<1>13. Accounting'
  <2>1. Len(delivered) \in Nat /\ dropped \in Nat /\ offered \in Nat
    BY DEF SampleTypes, CursorTypes
  <2> QED BY <1>1, <1>2, <1>3, <1>6, <1>7, <1>10, <2>1 DEF Accounting, Distances
<1> QED BY <1>8, <1>9, <1>11, <1>12, <1>13

LEMMA PushSampleStep ==
  ASSUME RingInv, PushSample
  PROVE  RingInv'
<1> USE DEF RingInv
<1>1. /\ producer.step = "copy" /\ producer.left > 0 /\ producer.left \in Nat
      /\ producer.write \in Cursor /\ writePos \in Cursor /\ readPos \in Cursor
      /\ consumer.read \in Cursor
  BY DEF PushSample, CursorTypes
<1>2. /\ producer' = [step |-> "copy", write |-> Succ(producer.write),
                      left |-> producer.left - 1, refused |-> producer.refused]
      /\ buf' = [buf EXCEPT ![Slot(producer.write)] = NextSample]
      /\ UNCHANGED <<writePos, readPos, dropped, consumer, offered, got, delivered>>
  BY DEF PushSample
<1>3. /\ producer'.write = Succ(producer.write) /\ producer'.left = producer.left - 1
      /\ producer'.refused = producer.refused /\ producer'.step = "copy"
  BY <1>2
<1>4. Distances
  BY DistancesHold
<1>5. /\ Distance(Succ(producer.write), readPos) = Distance(producer.write, readPos) + 1
      /\ Distance(Succ(producer.write), consumer.read) = Distance(producer.write, consumer.read) + 1
      /\ Distance(Succ(producer.write), writePos) = Distance(producer.write, writePos) + 1
  <2>1. /\ Distance(producer.write, readPos) < Word - 1
        /\ Distance(producer.write, consumer.read) < Word - 1
        /\ Distance(producer.write, writePos) < Word - 1
    BY <1>1, <1>4, RingAssumption DEF CursorOrder, Distances
  <2> QED BY <1>1, <2>1, FrontMoves
<1>6. NextSample \in Nat
  <2>1. Len(delivered) \in Nat /\ dropped \in Nat /\ producer.refused \in Nat
    BY DEF SampleTypes, CursorTypes
  <2>2. Distance(producer.write, readPos) \in Nat
    BY <1>4 DEF Distances
  <2>3. offered - producer.refused - producer.left
          = Len(delivered) + Distance(producer.write, readPos) + dropped
    BY <1>1, <2>1, <2>2 DEF Accounting
  <2> QED BY <2>1, <2>2, <2>3 DEF NextSample
<1>7. CursorTypes'
  <2>1. Succ(producer.write) \in Cursor /\ producer.left - 1 \in Nat
    BY <1>1, SuccType
  <2> QED BY <1>2, <2>1 DEF CursorTypes
<1>8. SampleTypes'
  BY <1>2, <1>6 DEF SampleTypes
<1>9. CursorOrder'
  BY <1>1, <1>2, <1>3, <1>4, <1>5, RingAssumption DEF CursorOrder, Distances
<1>10. AtRest'
  BY <1>2, <1>3 DEF AtRest
<1>11. Accounting'
  <2>1. Len(delivered) \in Nat /\ dropped \in Nat /\ offered \in Nat /\ producer.refused \in Nat
    BY DEF SampleTypes, CursorTypes
  <2> QED BY <1>1, <1>2, <1>3, <1>4, <1>5, <2>1 DEF Accounting, Distances
<1> QED BY <1>7, <1>8, <1>9, <1>10, <1>11

LEMMA PushPublishStep ==
  ASSUME RingInv, PushPublish
  PROVE  RingInv'
<1> USE DEF RingInv
<1>1. /\ producer.step = "copy" /\ producer.left = 0 /\ producer.write \in Cursor
      /\ producer.refused \in Nat
  BY DEF PushPublish, CursorTypes
<1>2. /\ writePos' = producer.write
      /\ producer' = [step |-> IF producer.refused > 0 THEN "count" ELSE "idle",
                      write |-> producer.write, left |-> 0, refused |-> producer.refused]
      /\ UNCHANGED <<buf, readPos, dropped, consumer, offered, got, delivered>>
  BY DEF PushPublish
<1>3. /\ producer'.write = producer.write /\ producer'.left = 0
      /\ producer'.refused = producer.refused
      /\ producer'.step = IF producer.refused > 0 THEN "count" ELSE "idle"
  BY <1>2
<1>4. Distances
  BY DistancesHold
<1>5. Distance(producer.write, producer.write) = 0
  BY <1>1, DistanceZero
<1>6. CursorTypes'
  BY <1>1, <1>2 DEF CursorTypes
<1>7. SampleTypes'
  BY <1>2 DEF SampleTypes
<1>8. CursorOrder'
  <2>1. consumer.left \in Nat
    BY DEF CursorTypes
  <2> QED BY <1>1, <1>2, <1>3, <1>4, <1>5, <2>1, RingAssumption DEF CursorOrder, Distances
<1>9. AtRest'
  BY <1>1, <1>2, <1>3 DEF AtRest
<1>10. Accounting'
  BY <1>1, <1>2, <1>3 DEF Accounting
<1> QED BY <1>6, <1>7, <1>8, <1>9, <1>10

LEMMA PushCountStep ==
  ASSUME RingInv, PushCount
  PROVE  RingInv'
<1> USE DEF RingInv
<1>1. /\ producer.step = "count" /\ producer.write = writePos /\ producer.left = 0
      /\ producer.refused \in Nat /\ dropped \in Nat
  BY DEF PushCount, CursorTypes, AtRest
<1>2. /\ dropped' = dropped + producer.refused
      /\ producer' = [step |-> "idle", write |-> producer.write, left |-> 0, refused |-> 0]
      /\ UNCHANGED <<buf, writePos, readPos, consumer, offered, got, delivered>>
  BY DEF PushCount
<1>3. /\ producer'.write = producer.write /\ producer'.left = producer.left
      /\ producer'.refused = 0 /\ producer'.step = "idle"
  BY <1>1, <1>2
<1>4. CursorTypes'
  BY <1>1, <1>2 DEF CursorTypes
<1>5. SampleTypes'
  BY <1>2 DEF SampleTypes
<1>6. CursorOrder'
  BY <1>2, <1>3 DEF CursorOrder
<1>7. AtRest'
  BY <1>1, <1>2, <1>3 DEF AtRest
<1>8. Accounting'
  <2>1. Len(delivered) \in Nat /\ Distance(producer.write, readPos) \in Nat
    BY DistancesHold DEF SampleTypes, Distances
  <2> QED BY <1>1, <1>2, <1>3, <2>1 DEF Accounting
<1> QED BY <1>4, <1>5, <1>6, <1>7, <1>8

----------------------------------------------------------------------------

LEMMA PopBeginStep ==
  ASSUME RingInv, NEW n \in 1..MaxBlock, PopBegin(n)
  PROVE  RingInv'
<1> USE DEF RingInv
<1>1. n \in Nat
  BY RingAssumption
<1>2. Distances
  BY DistancesHold
<1>3. DEFINE count == AtMost(Distance(writePos, readPos), n)
<1>4. count \in Nat /\ count <= Distance(writePos, readPos)
  BY <1>1, <1>2, AtMostBounds DEF Distances
<1>5. /\ consumer' = [step |-> "copy", read |-> readPos, left |-> count]
      /\ UNCHANGED <<buf, writePos, readPos, dropped, producer, offered, got, delivered>>
  BY DEF PopBegin
<1> HIDE DEF count
<1>6. /\ consumer'.read = consumer.read /\ consumer'.left = count /\ consumer'.step = "copy"
      /\ consumer.read = readPos
  BY <1>5 DEF PopBegin, AtRest
<1>7. CursorTypes'
  BY <1>4, <1>5 DEF CursorTypes
<1>8. SampleTypes'
  BY <1>5 DEF SampleTypes
<1>9. CursorOrder'
  BY <1>2, <1>4, <1>5, <1>6 DEF CursorOrder, Distances
<1>10. AtRest' /\ Accounting'
  BY <1>5, <1>6 DEF AtRest, Accounting
<1> QED BY <1>7, <1>8, <1>9, <1>10

LEMMA PopSampleStep ==
  ASSUME RingInv, PopSample
  PROVE  RingInv'
<1> USE DEF RingInv
<1>1. /\ consumer.step = "copy" /\ consumer.left > 0 /\ consumer.left \in Nat
      /\ producer.write \in Cursor /\ writePos \in Cursor /\ readPos \in Cursor
      /\ consumer.read \in Cursor
  BY DEF PopSample, CursorTypes
<1>2. /\ got' = Append(got, buf[Slot(consumer.read)])
      /\ consumer' = [step |-> "copy", read |-> Succ(consumer.read), left |-> consumer.left - 1]
      /\ UNCHANGED <<buf, writePos, readPos, dropped, producer, offered, delivered>>
  BY DEF PopSample
<1>3. /\ consumer'.read = Succ(consumer.read) /\ consumer'.left = consumer.left - 1
      /\ consumer'.step = "copy"
  BY <1>2
<1>4. Distances
  BY DistancesHold
<1>5. /\ Distance(Succ(consumer.read), readPos) = Distance(consumer.read, readPos) + 1
      /\ Distance(writePos, Succ(consumer.read)) = Distance(writePos, consumer.read) - 1
      /\ Distance(producer.write, Succ(consumer.read)) = Distance(producer.write, consumer.read) - 1
  <2>1. /\ Distance(consumer.read, readPos) < Word - 1
        /\ Distance(writePos, consumer.read) > 0
        /\ Distance(producer.write, consumer.read) > 0
    <3>1. producer.left \in Nat
      BY DEF CursorTypes
    <3> QED BY <1>1, <1>4, <3>1, RingAssumption DEF CursorOrder, Distances
  <2> QED BY <1>1, <2>1, FrontMoves, BackMoves
<1>6. CursorTypes'
  <2>1. Succ(consumer.read) \in Cursor /\ consumer.left - 1 \in Nat
    BY <1>1, SuccType
  <2> QED BY <1>2, <2>1 DEF CursorTypes
<1>7. SampleTypes' /\ Len(got') = Len(got) + 1
  <2>1. buf[Slot(consumer.read)] \in Nat
    BY <1>1, SlotType DEF SampleTypes
  <2> QED BY <1>2, <2>1 DEF SampleTypes
<1>8. CursorOrder'
  <2>1. /\ Distance(writePos, readPos)' = Distance(writePos, readPos)
        /\ Distance(producer.write, writePos)' = Distance(producer.write, writePos)
        /\ Distance(producer.write, readPos)' = Distance(producer.write, readPos)
        /\ producer'.left = producer.left
    BY <1>2
  <2>2. /\ Distance(consumer.read, readPos)' = Distance(consumer.read, readPos) + 1
        /\ Distance(writePos, consumer.read)' = Distance(writePos, consumer.read) - 1
        /\ Distance(producer.write, consumer.read)' = Distance(producer.write, consumer.read) - 1
    BY <1>2, <1>3, <1>5
  <2> QED BY <1>1, <1>3, <1>4, <2>1, <2>2 DEF CursorOrder, Distances
<1>9. AtRest'
  BY <1>2, <1>3 DEF AtRest
<1>10. Accounting'
  BY <1>2, <1>3, <1>5, <1>7 DEF Accounting
<1> QED BY <1>6, <1>7, <1>8, <1>9, <1>10

LEMMA PopPublishStep ==
  ASSUME RingInv, PopPublish
  PROVE  RingInv'
<1> USE DEF RingInv
<1>1. /\ consumer.step = "copy" /\ consumer.left = 0 /\ consumer.read \in Cursor
  BY DEF PopPublish, CursorTypes
<1>2. /\ readPos' = consumer.read
      /\ delivered' = delivered \o got
      /\ got' = <<>>
      /\ consumer' = [step |-> "idle", read |-> consumer.read, left |-> 0]
      /\ UNCHANGED <<buf, writePos, dropped, producer, offered>>
  BY DEF PopPublish
<1>3. /\ consumer'.read = consumer.read /\ consumer'.left = 0 /\ consumer'.step = "idle"
  BY <1>2
<1>4. Distances
  BY DistancesHold
<1>5. Distance(consumer.read, consumer.read) = 0
  BY <1>1, DistanceZero
<1>6. CursorTypes'
  BY <1>1, <1>2 DEF CursorTypes
<1>7. /\ SampleTypes'
      /\ Len(got') = 0
      /\ Len(delivered') = Len(delivered) + Len(got)
      /\ Len(delivered) \in Nat
  BY <1>2 DEF SampleTypes
<1>8. CursorOrder'
  <2>1. producer.left \in Nat /\ Capacity \in Nat
    BY RingAssumption DEF CursorTypes
  <2>2. /\ Distance(writePos, readPos)' = Distance(writePos, consumer.read)
        /\ Distance(producer.write, readPos)' = Distance(producer.write, consumer.read)
        /\ Distance(consumer.read, readPos)' = 0
    BY <1>2, <1>3, <1>5
  <2>3. /\ Distance(writePos, consumer.read)' = Distance(writePos, consumer.read)
        /\ Distance(producer.write, writePos)' = Distance(producer.write, writePos)
        /\ Distance(producer.write, consumer.read)' = Distance(producer.write, consumer.read)
        /\ producer'.left = producer.left
    BY <1>2, <1>3
  <2> QED BY <1>3, <1>4, <2>1, <2>2, <2>3 DEF CursorOrder, Distances
<1>9. AtRest'
  BY <1>2, <1>3 DEF AtRest
<1>10. Accounting'
  <2>1. Distance(producer.write, readPos)
          = Distance(producer.write, consumer.read) + Distance(consumer.read, readPos)
    BY <1>4 DEF CursorOrder, Distances
  <2>2. producer.left \in Nat /\ producer.refused \in Nat /\ dropped \in Nat
    BY DEF CursorTypes
  <2> QED BY <1>2, <1>3, <1>4, <1>5, <1>7, <2>1, <2>2 DEF Accounting, Distances
<1> QED BY <1>6, <1>7, <1>8, <1>9, <1>10

----------------------------------------------------------------------------

LEMMA RingInvariant == RingSpec => []RingInv
<1>1. RingInit => RingInv
  BY InitRingInv
<1>2. RingInv /\ [RingNext]_ringVars => RingInv'
  <2> SUFFICES ASSUME RingInv, [RingNext]_ringVars PROVE RingInv'
    OBVIOUS
  <2>1. ASSUME NEW n \in 1..MaxBlock, PushBegin(n) \/ PopBegin(n) PROVE RingInv'
    BY <2>1, PushBeginStep, PopBeginStep
  <2>2. CASE PushSample \/ PushPublish \/ PushCount
    BY <2>2, PushSampleStep, PushPublishStep, PushCountStep
  <2>3. CASE PopSample \/ PopPublish
    BY <2>3, PopSampleStep, PopPublishStep
  <2>4. CASE UNCHANGED ringVars
    BY <2>4 DEF ringVars, RingInv, CursorTypes, SampleTypes, CursorOrder, AtRest, Accounting
  <2> QED BY <2>1, <2>2, <2>3, <2>4 DEF RingNext
<1> QED BY <1>1, <1>2, PTL DEF RingSpec

(* For every capacity and word size and however push and pop interleave: a  *)
(* push in progress has room for all it will still write, so it never       *)
(* touches a slot the consumer may read, also when the cursors wrap.        *)
THEOREM RoomForThePushHolds == RingSpec => []RoomForThePush
<1>1. RingInv => RoomForThePush
  <2> SUFFICES ASSUME RingInv PROVE RoomForThePush
    OBVIOUS
  <2>1. Distances /\ producer.left \in Nat
    BY DistancesHold DEF RingInv, CursorTypes
  <2> QED BY <2>1, RingAssumption DEF RingInv, CursorOrder, RoomForThePush, Distances
<1> QED BY <1>1, RingInvariant, PTL

(* For every capacity and word size: when no push runs, each sample offered *)
(* was handed out, is in the ring, or is counted in `dropped`.              *)
THEOREM LossIsVisibleHolds == RingSpec => []LossIsVisible
<1>1. RingInv => LossIsVisible
  BY DistancesHold DEF RingInv, AtRest, Accounting, LossIsVisible, CursorTypes, SampleTypes, Distances
<1> QED BY <1>1, RingInvariant, PTL

----------------------------------------------------------------------------
(* The slots behind a cursor *)

\* The cursor k places on.
Along(p, k) == IF p + k < Word THEN p + k ELSE p + k - Word

LEMMA ModSmall ==
  ASSUME NEW m \in Nat \ {0}, NEW x \in 0..(m - 1)
  PROVE  x % m = x
OBVIOUS

LEMMA ModOnce ==
  ASSUME NEW m \in Nat \ {0}, NEW x \in m..(2 * m - 1)
  PROVE  x % m = x - m
OBVIOUS

LEMMA AlongIsMod ==
  ASSUME NEW p \in Cursor, NEW k \in Cursor
  PROVE  (p + k) % Word = Along(p, k)
<1>1. Word \in Nat \ {0}
  BY RingAssumption
<1>2. CASE p + k < Word
  <2>1. p + k \in 0..(Word - 1)
    BY <1>1, <1>2 DEF Cursor
  <2> QED BY <1>1, <1>2, <2>1, ModSmall DEF Along
<1>3. CASE ~(p + k < Word)
  <2>1. p + k \in Word..(2 * Word - 1)
    BY <1>1, <1>3 DEF Cursor
  <2>2. (p + k) % Word = (p + k) - Word
    BY <1>1, <2>1, ModOnce
  <2>3. Along(p, k) = p + k - Word
    BY <1>3 DEF Along
  <2> QED BY <1>1, <2>2, <2>3 DEF Cursor
<1> QED BY <1>2, <1>3

LEMMA AlongType ==
  ASSUME NEW p \in Cursor, NEW k \in Cursor
  PROVE  Along(p, k) \in Cursor
BY RingAssumption DEF Cursor, Along

LEMMA AlongDistance ==
  ASSUME NEW p \in Cursor, NEW q \in Cursor
  PROVE  Along(p, Distance(q, p)) = q
BY RingAssumption DEF Cursor, Along, Distance

LEMMA AlongFurther ==
  ASSUME NEW p \in Cursor, NEW q \in Cursor, NEW k \in Nat, Distance(q, p) + k < Word
  PROVE  Along(q, k) = Along(p, Distance(q, p) + k)
BY RingAssumption DEF Cursor, Along, Distance

LEMMA AlongApart ==
  ASSUME NEW p \in Cursor, NEW j \in Cursor, NEW k \in Cursor, j < k
  PROVE  Distance(Along(p, k), Along(p, j)) = k - j
BY RingAssumption DEF Cursor, Along, Distance

LEMMA Multiple ==
  ASSUME NEW c \in Nat \ {0}, NEW z \in Int, 0 < c * z
  PROVE  c <= c * z
OBVIOUS

LEMMA QuotientRemainder ==
  ASSUME NEW c \in Nat \ {0}, NEW x \in Nat
  PROVE  x \div c \in Int /\ x % c \in Int /\ x = c * (x \div c) + (x % c)
OBVIOUS

\* Numbers with the same remainder are a multiple apart.
LEMMA SameRemainder ==
  ASSUME NEW c \in Nat \ {0}, NEW q \in Int, NEW r \in Int, NEW e \in Int,
         c * r + e < c * q + e
  PROVE  c <= (c * q + e) - (c * r + e)
<1>1. (c * q + e) - (c * r + e) = c * (q - r)
  OBVIOUS
<1>2. 0 < c * (q - r)
  BY <1>1
<1> QED BY <1>1, <1>2, Multiple

\* Two cursors less than Capacity apart, also around the wrap, have their own slots.
LEMMA SlotsDiffer ==
  ASSUME NEW a \in Cursor, NEW b \in Cursor, 0 < Distance(a, b), Distance(a, b) < Capacity
  PROVE  Slot(a) # Slot(b)
<1> SUFFICES ASSUME a % Capacity = b % Capacity PROVE FALSE
  BY DEF Slot
<1>1. /\ Capacity \in Nat \ {0} /\ a \in Nat /\ b \in Nat
      /\ Word \in Nat /\ Word % Capacity = 0
  BY RingAssumption DEF Cursor
<1> DEFINE q == a \div Capacity
           r == b \div Capacity
           w == Word \div Capacity
           e == a % Capacity
<1>2. q \in Int /\ r \in Int /\ w \in Int /\ e \in Int
  BY <1>1, QuotientRemainder
<1>3. a = Capacity * q + e /\ b = Capacity * r + e /\ Word = Capacity * w
  <2>1. Word = Capacity * w + (Word % Capacity)
    BY <1>1, QuotientRemainder
  <2>2. a = Capacity * q + (a % Capacity) /\ b = Capacity * r + (b % Capacity)
    BY <1>1, QuotientRemainder
  <2> QED BY <1>1, <1>2, <2>1, <2>2
<1> HIDE DEF q, r, w, e
<1>4. CASE b <= a
  <2>1. Distance(a, b) = a - b
    BY <1>4 DEF Distance
  <2>2. Capacity <= (Capacity * q + e) - (Capacity * r + e)
    BY <1>1, <1>2, <1>3, <2>1, SameRemainder
  <2> QED BY <1>1, <1>3, <2>1, <2>2
<1>5. CASE ~(b <= a)
  <2>1. Distance(a, b) = (a + Word) - b
    BY <1>1, <1>5 DEF Distance
  <2>2. a + Word = Capacity * (q + w) + e /\ q + w \in Int
    BY <1>1, <1>2, <1>3
  <2>3. Capacity <= (Capacity * (q + w) + e) - (Capacity * r + e)
    BY <1>1, <1>2, <1>3, <2>1, <2>2, SameRemainder
  <2> QED BY <1>1, <1>3, <2>1, <2>2, <2>3
<1> QED BY <1>4, <1>5

----------------------------------------------------------------------------
(* What is in the slots *)

\* The slot k places behind readPos.
Cell(k) == buf[Slot(Along(readPos, k))]

\* The number of the first sample that is copied but not published.
FirstHidden == NextSample - Distance(producer.write, writePos)

\* The pop in progress holds the oldest samples in the ring; those between the
\* producer's own cursor and the published one are consecutive, and all that
\* are published or handed out came before them.
ContentInv ==
  /\ offered <= MaxOffered
  /\ \A k \in 0..(Len(got) - 1) : got[k + 1] = Cell(k)
  /\ \A k \in Nat :
       Distance(writePos, readPos) <= k /\ k < Distance(producer.write, readPos)
         => Cell(k) = FirstHidden + (k - Distance(writePos, readPos))
  /\ \A k \in Nat : k < Distance(writePos, readPos) => Cell(k) < FirstHidden
  /\ \A i \in 1..Len(delivered) : delivered[i] < FirstHidden

\* The numbers in ContentInv, and the distance of the two shared cursors.
LEMMA ContentTypes ==
  ASSUME RingInv
  PROVE  /\ Distances /\ producer.left \in Nat /\ producer.refused \in Nat
         /\ offered \in Nat /\ dropped \in Nat /\ NextSample \in Nat
         /\ FirstHidden \in Nat \ {0} /\ Capacity \in Nat /\ Capacity < Word
         /\ Len(delivered) \in Nat /\ Len(got) \in Nat
         /\ got \in Seq(Nat) /\ delivered \in Seq(Nat)
         /\ NextSample + producer.left <= offered + 1
<1>1. /\ Distances /\ producer.left \in Nat /\ producer.refused \in Nat
      /\ offered \in Nat /\ dropped \in Nat
  BY DistancesHold DEF RingInv, CursorTypes
<1>2. /\ got \in Seq(Nat) /\ delivered \in Seq(Nat)
      /\ Len(delivered) \in Nat /\ Len(got) \in Nat
  BY DEF RingInv, SampleTypes
<1>3. offered = Len(delivered) + Distance(producer.write, readPos)
                 + producer.left + producer.refused + dropped
  BY DEF RingInv, Accounting
<1>4. Distance(producer.write, readPos) \in Nat /\ Distance(writePos, readPos) \in Nat
      /\ Distance(producer.write, writePos) \in Nat
      /\ Distance(producer.write, readPos)
           = Distance(producer.write, writePos) + Distance(writePos, readPos)
  BY <1>1 DEF Distances, RingInv, CursorOrder
<1>5. offered - producer.refused - producer.left
        = Len(delivered) + Distance(producer.write, readPos) + dropped
  <2>1. /\ offered \in Nat /\ producer.refused \in Nat /\ producer.left \in Nat
        /\ Len(delivered) \in Nat /\ dropped \in Nat
        /\ Distance(producer.write, readPos) \in Nat
    BY <1>1, <1>2, <1>4
  <2> QED BY <1>3, <2>1
<1>6. NextSample \in Nat /\ FirstHidden \in Nat \ {0}
  <2>1. NextSample = Len(delivered) + Distance(producer.write, readPos) + dropped + 1
    BY <1>5 DEF NextSample
  <2>2. NextSample \in Nat
    BY <1>1, <1>2, <1>4, <2>1
  <2>3. NextSample - Distance(producer.write, writePos)
          = Len(delivered) + Distance(writePos, readPos) + dropped + 1
    BY <1>1, <1>2, <1>4, <2>1
  <2>4. FirstHidden = Len(delivered) + Distance(writePos, readPos) + dropped + 1
    BY <2>3 DEF FirstHidden
  <2> QED BY <1>1, <1>2, <1>4, <2>2, <2>4
<1>7. NextSample + producer.left <= offered + 1
  BY <1>1 DEF NextSample
<1>8. Capacity \in Nat /\ Capacity < Word
  BY RingAssumption
<1> QED BY <1>1, <1>2, <1>6, <1>7, <1>8

\* Cells of a window of Capacity places are in slots of their own.
LEMMA CellsApart ==
  ASSUME readPos \in Cursor, NEW j \in Nat, NEW k \in Nat, j < k, k < Capacity
  PROVE  Slot(Along(readPos, j)) # Slot(Along(readPos, k))
<1>1. j \in Cursor /\ k \in Cursor
  BY RingAssumption DEF Cursor
<1>2. Along(readPos, j) \in Cursor /\ Along(readPos, k) \in Cursor
  BY <1>1, AlongType
<1>3. Distance(Along(readPos, k), Along(readPos, j)) = k - j
  BY <1>1, AlongApart
<1>4. 0 < k - j /\ k - j < Capacity
  BY RingAssumption
<1> QED BY <1>2, <1>3, <1>4, SlotsDiffer

LEMMA InitContentInv ==
  ASSUME RingInit
  PROVE  ContentInv
<1>1. 0 \in Cursor /\ Distance(0, 0) = 0
  BY RingAssumption, DistanceZero DEF Cursor
<1>2. /\ Distance(writePos, readPos) = 0 /\ Distance(producer.write, readPos) = 0
      /\ Len(got) = 0 /\ Len(delivered) = 0 /\ offered = 0
  BY <1>1 DEF RingInit
<1> QED BY <1>2, OfferedAssumption DEF ContentInv

LEMMA CellType ==
  ASSUME RingInv, NEW k \in Nat, k < Capacity
  PROVE  Cell(k) \in Nat
<1>1. readPos \in Cursor /\ k \in Cursor
  BY RingAssumption DEF RingInv, CursorTypes, Cursor
<1>2. Slot(Along(readPos, k)) \in 0..(Capacity - 1)
  BY <1>1, AlongType, SlotType
<1> QED BY <1>2 DEF Cell, RingInv, SampleTypes

\* Steps that leave the buffer and the shared cursors alone, and refuse or copy
\* samples only when nothing is hidden.
LEMMA ContentUndisturbed ==
  ASSUME RingInv, ContentInv,
         UNCHANGED <<buf, writePos, readPos, got, delivered>>,
         offered' <= MaxOffered,
         FirstHidden' \in Nat, FirstHidden <= FirstHidden',
         \/ producer'.write = producer.write /\ FirstHidden' = FirstHidden
         \/ producer'.write = writePos
  PROVE  ContentInv'
<1>1. \A k \in Nat : Cell(k)' = Cell(k)
  BY DEF Cell
<1>2. /\ Distance(writePos, readPos)' = Distance(writePos, readPos)
      /\ Len(got)' = Len(got) /\ Len(delivered)' = Len(delivered)
      /\ got' = got /\ delivered' = delivered
  OBVIOUS
<1>3. /\ Distances /\ FirstHidden \in Nat /\ Capacity \in Nat
      /\ delivered \in Seq(Nat) /\ Len(got) \in Nat
  BY ContentTypes
<1>4. Distance(writePos, readPos) <= Capacity /\ Distance(writePos, readPos) \in Nat
  <2>1. PICK a \in Nat, b \in Nat, left \in Nat, c \in Nat :
          /\ a = Distance(producer.write, writePos) /\ b = Distance(writePos, readPos)
          /\ left = producer.left /\ c = Capacity
    BY ContentTypes DEF Distances
  <2>2. /\ Distance(producer.write, readPos) = a + b
        /\ Distance(producer.write, readPos) + left <= c
    BY <2>1 DEF RingInv, CursorOrder
  <2>3. b <= c
    BY <2>2
  <2> QED BY <2>1, <2>3
<1>5. \A k \in Nat : k < Distance(writePos, readPos) => Cell(k)' < FirstHidden'
  <2> SUFFICES ASSUME NEW k \in Nat, k < Distance(writePos, readPos) PROVE Cell(k)' < FirstHidden'
    OBVIOUS
  <2>1. Cell(k) < FirstHidden
    BY DEF ContentInv
  <2>2. k < Capacity
    BY <1>3, <1>4
  <2>3. Cell(k) \in Nat
    BY <2>2, CellType
  <2> QED BY <1>1, <1>3, <2>1, <2>3
<1>6. \A i \in 1..Len(delivered) : delivered[i] < FirstHidden'
  <2> SUFFICES ASSUME NEW i \in 1..Len(delivered) PROVE delivered[i] < FirstHidden'
    OBVIOUS
  <2>1. delivered[i] \in Nat /\ delivered[i] < FirstHidden
    BY <1>3 DEF ContentInv
  <2> QED BY <1>3, <2>1
<1>7. \A k \in 0..(Len(got) - 1) : got[k + 1] = Cell(k)'
  <2> SUFFICES ASSUME NEW k \in 0..(Len(got) - 1) PROVE got[k + 1] = Cell(k)'
    OBVIOUS
  <2>1. k \in Nat
    BY <1>3
  <2>2. got[k + 1] = Cell(k)
    BY DEF ContentInv
  <2> QED BY <1>1, <2>1, <2>2
<1>8. \A k \in Nat :
        Distance(writePos, readPos) <= k /\ k < Distance(producer.write, readPos)'
          => Cell(k)' = FirstHidden' + (k - Distance(writePos, readPos))
  <2>1. CASE producer'.write = producer.write /\ FirstHidden' = FirstHidden
    BY <1>1, <2>1 DEF ContentInv
  <2>2. CASE producer'.write = writePos
    <3>1. Distance(producer.write, readPos)' = Distance(writePos, readPos)
      BY <2>2
    <3> QED BY <1>4, <3>1
  <2> QED BY <2>1, <2>2
<1> QED BY <1>2, <1>5, <1>6, <1>7, <1>8 DEF ContentInv

LEMMA PushBeginContent ==
  ASSUME RingInv, ContentInv, NEW n \in 1..MaxBlock, PushBegin(n)
  PROVE  ContentInv'
<1>1. /\ producer.write = writePos /\ producer.left = 0 /\ producer.refused = 0
  BY DEF PushBegin, RingInv, AtRest
<1>2. writePos \in Cursor /\ Distance(writePos, writePos) = 0
  BY DistanceZero DEF RingInv, CursorTypes
<1>3. /\ producer' = [step |-> "copy", write |-> writePos, left |-> AtMost(Free, n),
                      refused |-> n - AtMost(Free, n)]
      /\ offered' = offered + n /\ offered + n <= MaxOffered
      /\ UNCHANGED <<buf, writePos, readPos, got, delivered>>
  BY DEF PushBegin
<1>4. n \in Nat /\ offered \in Nat /\ AtMost(Free, n) \in Nat
  <2>1. n \in Nat /\ Distances /\ offered \in Nat /\ Capacity \in Nat
    BY RingAssumption, ContentTypes
  <2>2. Free \in Nat
    <3>1. Distance(writePos, readPos) <= Capacity
      BY <1>1, <2>1 DEF RingInv, CursorOrder, Distances
    <3> QED BY <2>1, <3>1 DEF Free, Distances
  <2> QED BY <2>1, <2>2, AtMostBounds
<1>5. FirstHidden = offered + 1
  BY <1>1, <1>2, <1>4 DEF FirstHidden, NextSample
<1>6. FirstHidden' = offered + 1
  <2>1. /\ producer'.write = writePos /\ producer'.left = AtMost(Free, n)
        /\ producer'.refused = n - AtMost(Free, n)
    BY <1>3
  <2>2. Distance(producer.write, writePos)' = 0
    BY <1>2, <1>3, <2>1
  <2>3. NextSample' = offered + 1
    <3>1. offered' - producer'.refused - producer'.left + 1 = offered + 1
      BY <1>3, <1>4, <2>1
    <3> QED BY <3>1 DEF NextSample
  <2> QED BY <1>4, <2>2, <2>3 DEF FirstHidden
<1>7. producer'.write = writePos
  BY <1>3
<1> QED BY <1>3, <1>4, <1>5, <1>6, <1>7, ContentUndisturbed

LEMMA PushCountContent ==
  ASSUME RingInv, ContentInv, PushCount
  PROVE  ContentInv'
<1>1. /\ producer.write = writePos /\ producer.left = 0
  BY DEF PushCount, RingInv, AtRest
<1>2. writePos \in Cursor /\ Distance(writePos, writePos) = 0
  BY DistanceZero DEF RingInv, CursorTypes
<1>3. /\ producer' = [step |-> "idle", write |-> producer.write, left |-> 0, refused |-> 0]
      /\ UNCHANGED <<buf, writePos, readPos, offered, got, delivered>>
  BY DEF PushCount
<1>4. offered \in Nat /\ producer.refused \in Nat
  BY ContentTypes
<1>5. FirstHidden = offered - producer.refused + 1
  BY <1>1, <1>2, <1>4 DEF FirstHidden, NextSample
<1>6. FirstHidden' = offered + 1
  <2>1. producer'.write = writePos /\ producer'.left = 0 /\ producer'.refused = 0
    BY <1>1, <1>3
  <2>2. Distance(producer.write, writePos)' = 0
    BY <1>2, <1>3, <2>1
  <2>3. NextSample' = offered - 0 - 0 + 1
    BY <1>3, <2>1 DEF NextSample
  <2> QED BY <1>4, <2>2, <2>3 DEF FirstHidden
<1>7. producer'.write = writePos /\ offered' <= MaxOffered
  BY <1>1, <1>3 DEF ContentInv
<1> QED BY <1>3, <1>4, <1>5, <1>6, <1>7, ContentUndisturbed

LEMMA PopBeginContent ==
  ASSUME RingInv, ContentInv, NEW n \in 1..MaxBlock, PopBegin(n)
  PROVE  ContentInv'
<1>1. UNCHANGED <<buf, writePos, readPos, producer, offered, got, delivered>>
  BY DEF PopBegin
<1>2. FirstHidden' = FirstHidden /\ FirstHidden \in Nat
  BY <1>1, ContentTypes DEF FirstHidden, NextSample
<1> QED BY <1>1, <1>2, ContentUndisturbed DEF ContentInv

\* How far the producer's own cursor is, and that its slot is behind all cells.
LEMMA ProducerPlace ==
  ASSUME RingInv
  PROVE  /\ producer.write = Along(readPos, Distance(producer.write, readPos))
         /\ consumer.read = Along(readPos, Distance(consumer.read, readPos))
         /\ \A k \in Nat :
              k < Distance(producer.write, readPos) /\ producer.left > 0
                => Slot(Along(readPos, k)) # Slot(producer.write)
<1>1. /\ producer.write \in Cursor /\ readPos \in Cursor /\ consumer.read \in Cursor
  BY DEF RingInv, CursorTypes
<1>2. /\ producer.write = Along(readPos, Distance(producer.write, readPos))
      /\ consumer.read = Along(readPos, Distance(consumer.read, readPos))
  BY <1>1, AlongDistance
<1>3. ASSUME NEW k \in Nat, k < Distance(producer.write, readPos), producer.left > 0
      PROVE  Slot(Along(readPos, k)) # Slot(producer.write)
  <2>1. Distance(producer.write, readPos) \in Nat /\ producer.left \in Nat /\ Capacity \in Nat
    BY ContentTypes DEF Distances
  <2>2. Distance(producer.write, readPos) + producer.left <= Capacity
    BY DEF RingInv, CursorOrder
  <2>3. Distance(producer.write, readPos) < Capacity
    BY <1>3, <2>1, <2>2
  <2>4. Slot(Along(readPos, k)) # Slot(Along(readPos, Distance(producer.write, readPos)))
    BY <1>1, <1>3, <2>1, <2>3, CellsApart
  <2> QED BY <1>2, <2>4
<1> QED BY <1>2, <1>3

\* The sample goes to the slot next to the hidden ones and leaves all others.
LEMMA PushSampleCells ==
  ASSUME RingInv, PushSample, NEW w \in Nat, w = Distance(producer.write, readPos)
  PROVE  /\ \A k \in Nat : k < w => Cell(k)' = Cell(k)
         /\ Cell(w)' = NextSample
<1>1. /\ buf' = [buf EXCEPT ![Slot(producer.write)] = NextSample]
      /\ readPos' = readPos /\ producer.left > 0
  BY DEF PushSample
<1>2. Slot(producer.write) \in 0..(Capacity - 1) /\ buf \in [0..(Capacity - 1) -> Nat]
  BY SlotType DEF RingInv, CursorTypes, SampleTypes
<1>3. producer.write = Along(readPos, w)
  BY ProducerPlace
<1>4. \A k \in Nat : Cell(k)' = buf'[Slot(Along(readPos, k))]
  BY <1>1 DEF Cell
<1>5. ASSUME NEW k \in Nat, k < w PROVE Cell(k)' = Cell(k)
  <2>1. Slot(Along(readPos, k)) # Slot(producer.write)
    BY <1>1, <1>5, ProducerPlace
  <2>2. readPos \in Cursor /\ k \in Cursor
    <3>1. w \in Cursor
      BY DistanceType DEF RingInv, CursorTypes, Cursor
    <3> QED BY <1>5, <3>1, RingAssumption DEF RingInv, CursorTypes, Cursor
  <2>3. Slot(Along(readPos, k)) \in 0..(Capacity - 1)
    BY <2>2, AlongType, SlotType
  <2> QED BY <1>1, <1>2, <1>4, <2>1, <2>3 DEF Cell
<1>6. Cell(w)' = NextSample
  BY <1>1, <1>2, <1>3, <1>4
<1> QED BY <1>5, <1>6

LEMMA PushSampleContent ==
  ASSUME RingInv, ContentInv, PushSample
  PROVE  ContentInv'
<1>1. PICK w \in Nat, v \in Nat, h \in Nat :
        /\ w = Distance(producer.write, readPos) /\ v = Distance(writePos, readPos)
        /\ h = FirstHidden
  BY ContentTypes DEF Distances
<1>2. /\ producer' = [step |-> "copy", write |-> Succ(producer.write),
                      left |-> producer.left - 1, refused |-> producer.refused]
      /\ producer.left > 0
      /\ UNCHANGED <<writePos, readPos, offered, got, delivered>>
  BY DEF PushSample
<1>3. /\ producer.write \in Cursor /\ writePos \in Cursor /\ readPos \in Cursor
  BY DEF RingInv, CursorTypes
<1>4. /\ Distances /\ producer.left \in Nat /\ producer.refused \in Nat /\ offered \in Nat
      /\ NextSample \in Nat /\ Len(got) \in Nat /\ Capacity \in Nat /\ Capacity < Word
  BY ContentTypes
<1>5. /\ Distance(producer.write, writePos) \in Nat
      /\ w = Distance(producer.write, writePos) + v
      /\ w + producer.left <= Capacity
      /\ Len(got) <= v
  BY <1>1, <1>4 DEF Distances, RingInv, CursorOrder, Accounting
<1>6. /\ Distance(Succ(producer.write), readPos) = w + 1
      /\ Distance(Succ(producer.write), writePos) = Distance(producer.write, writePos) + 1
  <2>1. w < Word - 1 /\ Distance(producer.write, writePos) < Word - 1 /\ Word \in Nat
    BY <1>1, <1>2, <1>4, <1>5, RingAssumption
  <2> QED BY <1>1, <1>3, <2>1, FrontMoves
<1>7. /\ Distance(producer.write, readPos)' = w + 1
      /\ Distance(producer.write, writePos)' = Distance(producer.write, writePos) + 1
      /\ Distance(writePos, readPos)' = v
  BY <1>1, <1>2, <1>6
<1>8. FirstHidden' = h /\ NextSample = h + (w - v)
  <2>1. producer'.left = producer.left - 1 /\ producer'.refused = producer.refused
    BY <1>2
  <2>2. NextSample' = offered - producer.refused - (producer.left - 1) + 1
    BY <1>2, <2>1 DEF NextSample
  <2>3. NextSample' = NextSample + 1
    <3>1. /\ offered \in Nat /\ producer.refused \in Nat /\ producer.left \in Nat
      BY <1>4
    <3>2. offered - producer.refused - (producer.left - 1) + 1
            = (offered - producer.refused - producer.left + 1) + 1
      BY <3>1
    <3> QED BY <2>2, <3>2 DEF NextSample
  <2>4. h = NextSample - Distance(producer.write, writePos)
    BY <1>1 DEF FirstHidden
  <2>5. FirstHidden' = NextSample' - Distance(producer.write, writePos)'
    BY DEF FirstHidden
  <2> QED BY <1>4, <1>5, <1>7, <2>3, <2>4, <2>5
<1>9. /\ \A k \in Nat : k < w => Cell(k)' = Cell(k)
      /\ Cell(w)' = NextSample
  BY <1>1, PushSampleCells
<1>10. v <= w
  BY <1>5
<1>11. ASSUME NEW k \in Nat, v <= k, k < w + 1 PROVE Cell(k)' = h + (k - v)
  <2>1. CASE k < w
    BY <1>1, <1>9, <1>11, <2>1 DEF ContentInv
  <2>2. CASE ~(k < w)
    <3>1. k = w
      BY <1>11, <2>2
    <3> QED BY <1>8, <1>9, <3>1
  <2> QED BY <2>1, <2>2
<1>12. ASSUME NEW k \in Nat, k < v PROVE Cell(k)' < h
  <2>1. Cell(k)' = Cell(k)
    BY <1>9, <1>10, <1>12
  <2>2. Cell(k) < FirstHidden
    BY <1>1, <1>12 DEF ContentInv
  <2> QED BY <1>1, <2>1, <2>2
<1>13. ASSUME NEW k \in 0..(Len(got) - 1) PROVE got[k + 1] = Cell(k)'
  <2>1. k \in Nat /\ k < w
    BY <1>4, <1>5, <1>10
  <2>2. got[k + 1] = Cell(k)
    BY DEF ContentInv
  <2> QED BY <1>9, <2>1, <2>2
<1>14. offered <= MaxOffered /\ \A i \in 1..Len(delivered) : delivered[i] < h
  BY <1>1 DEF ContentInv
<1> QED BY <1>2, <1>7, <1>8, <1>11, <1>12, <1>13, <1>14 DEF ContentInv

LEMMA PushPublishContent ==
  ASSUME RingInv, ContentInv, PushPublish
  PROVE  ContentInv'
<1>1. PICK w \in Nat, v \in Nat, h \in Nat :
        /\ w = Distance(producer.write, readPos) /\ v = Distance(writePos, readPos)
        /\ h = FirstHidden
  BY ContentTypes DEF Distances
<1>2. /\ writePos' = producer.write /\ producer'.write = producer.write
      /\ producer'.left = 0 /\ producer'.refused = producer.refused /\ producer.left = 0
      /\ UNCHANGED <<buf, readPos, offered, got, delivered>>
  BY DEF PushPublish
<1>3. producer.write \in Cursor /\ Distance(producer.write, producer.write) = 0
  BY DistanceZero DEF RingInv, CursorTypes
<1>4. /\ Distances /\ NextSample \in Nat /\ offered \in Nat /\ producer.refused \in Nat
      /\ delivered \in Seq(Nat) /\ Capacity \in Nat /\ producer.left \in Nat
  BY ContentTypes
<1>5. /\ Distance(producer.write, writePos) \in Nat
      /\ w = Distance(producer.write, writePos) + v
      /\ w <= Capacity
  <2>1. w = Distance(producer.write, writePos) + v /\ w + producer.left <= Capacity
    BY <1>1 DEF RingInv, CursorOrder
  <2>2. producer.left = 0 /\ Capacity \in Nat
    BY <1>2, <1>4
  <2>3. Distance(producer.write, writePos) \in Nat
    BY <1>4 DEF Distances
  <2> QED BY <2>1, <2>2, <2>3
<1>6. /\ Distance(producer.write, readPos)' = w
      /\ Distance(writePos, readPos)' = w
      /\ Distance(producer.write, writePos)' = 0
  BY <1>1, <1>2, <1>3
<1>7. NextSample' = NextSample
  BY <1>2 DEF NextSample
<1>8. FirstHidden' = NextSample /\ NextSample = h + (w - v)
  <2>1. h = NextSample - Distance(producer.write, writePos)
    BY <1>1 DEF FirstHidden
  <2>2. FirstHidden' = NextSample' - Distance(producer.write, writePos)'
    BY DEF FirstHidden
  <2> QED BY <1>4, <1>5, <1>6, <1>7, <2>1, <2>2
<1>9. \A k \in Nat : Cell(k)' = Cell(k)
  BY <1>2 DEF Cell
<1>10. ASSUME NEW k \in Nat, k < w PROVE Cell(k) < NextSample
  <2>1. CASE k < v
    <3>1. Cell(k) < h
      BY <1>1, <2>1 DEF ContentInv
    <3>2. Cell(k) \in Nat
      BY <1>4, <1>5, <1>10, CellType
    <3> QED BY <1>4, <1>5, <1>8, <3>1, <3>2
  <2>2. CASE ~(k < v)
    <3>1. Cell(k) = h + (k - v)
      BY <1>1, <1>10, <2>2 DEF ContentInv
    <3> QED BY <1>8, <1>10, <3>1
  <2> QED BY <2>1, <2>2
<1>11. ASSUME NEW i \in 1..Len(delivered) PROVE delivered[i] < NextSample
  <2>1. delivered[i] < h
    BY <1>1 DEF ContentInv
  <2>2. delivered[i] \in Nat
    BY <1>4
  <2>3. PICK n \in Nat : n = NextSample
    BY <1>4
  <2>4. h <= n
    <3>1. w - v \in Nat
      BY <1>5
    <3> QED BY <1>8, <2>3, <3>1
  <2>5. delivered[i] < n
    BY <2>1, <2>2, <2>4
  <2> QED BY <2>3, <2>5
<1>12. \A k \in 0..(Len(got) - 1) : got[k + 1] = Cell(k)'
  <2>1. \A k \in 0..(Len(got) - 1) : k \in Nat
    OBVIOUS
  <2> QED BY <1>9, <2>1 DEF ContentInv
<1>13. \A k \in Nat : ~(w <= k /\ k < w)
  OBVIOUS
<1> QED BY <1>2, <1>6, <1>8, <1>9, <1>10, <1>11, <1>12, <1>13 DEF ContentInv

LEMMA PopSampleContent ==
  ASSUME RingInv, ContentInv, PopSample
  PROVE  ContentInv'
<1>1. PICK g \in Nat : g = Len(got)
  BY ContentTypes
<1>2. /\ got' = Append(got, buf[Slot(consumer.read)])
      /\ UNCHANGED <<buf, writePos, readPos, producer, offered, delivered>>
  BY DEF PopSample
<1>3. got \in Seq(Nat) /\ buf[Slot(consumer.read)] \in Nat
  BY SlotType DEF RingInv, CursorTypes, SampleTypes
<1>4. /\ Len(got') = g + 1 /\ got'[g + 1] = buf[Slot(consumer.read)]
      /\ \A k \in 0..(g - 1) : got'[k + 1] = got[k + 1]
  BY <1>1, <1>2, <1>3
<1>5. buf[Slot(consumer.read)] = Cell(g)
  BY <1>1, ProducerPlace DEF RingInv, Accounting, Cell
<1>6. /\ \A k \in Nat : Cell(k)' = Cell(k)
      /\ FirstHidden' = FirstHidden
      /\ Distance(writePos, readPos)' = Distance(writePos, readPos)
      /\ Distance(producer.write, readPos)' = Distance(producer.write, readPos)
  BY <1>2 DEF Cell, FirstHidden, NextSample
<1>7. ASSUME NEW k \in 0..g PROVE got'[k + 1] = Cell(k)'
  <2>1. CASE k = g
    BY <1>4, <1>5, <1>6, <2>1
  <2>2. CASE k # g
    <3>1. k \in 0..(g - 1) /\ k \in Nat
      BY <2>2
    <3>2. got[k + 1] = Cell(k)
      BY <1>1, <3>1 DEF ContentInv
    <3> QED BY <1>4, <1>6, <3>1, <3>2
  <2> QED BY <2>1, <2>2
<1>8. \A k \in 0..(Len(got') - 1) : got'[k + 1] = Cell(k)'
  BY <1>4, <1>7
<1> QED BY <1>2, <1>6, <1>8 DEF ContentInv

\* What is published: the cells move up by what was handed out.
LEMMA PopPublishCells ==
  ASSUME RingInv, PopPublish, NEW k \in Nat, Len(got) + k < Word
  PROVE  Cell(k)' = Cell(Len(got) + k)
<1>1. readPos' = consumer.read /\ buf' = buf
  BY DEF PopPublish
<1>2. readPos \in Cursor /\ consumer.read \in Cursor /\ Len(got) = Distance(consumer.read, readPos)
  BY DEF RingInv, CursorTypes, Accounting
<1>3. Along(consumer.read, k) = Along(readPos, Len(got) + k)
  BY <1>2, AlongFurther
<1>4. Cell(k)' = buf[Slot(Along(consumer.read, k))]
  BY <1>1 DEF Cell
<1> QED BY <1>3, <1>4 DEF Cell

\* Where the cursors are when the consumer's moves on by what it has copied.
LEMMA PopPublishDistances ==
  ASSUME RingInv, PopPublish
  PROVE  /\ Len(got) <= Distance(writePos, readPos)
         /\ Distance(writePos, readPos)' = Distance(writePos, readPos) - Len(got)
         /\ Distance(producer.write, readPos)' = Distance(producer.write, readPos) - Len(got)
         /\ FirstHidden' = FirstHidden
         /\ Distance(writePos, readPos) <= Distance(producer.write, readPos)
         /\ Distance(producer.write, readPos) <= Capacity
<1>1. UNCHANGED <<writePos, producer, offered>> /\ readPos' = consumer.read
  BY DEF PopPublish
<1>2. Distances /\ Len(got) \in Nat /\ producer.left \in Nat /\ Capacity \in Nat
  BY ContentTypes
<1>3. FirstHidden' = FirstHidden
  BY <1>1 DEF FirstHidden, NextSample
<1>4. /\ Distance(writePos, readPos)' = Distance(writePos, consumer.read)
      /\ Distance(producer.write, readPos)' = Distance(producer.write, consumer.read)
  BY <1>1
<1>5. /\ Distance(writePos, readPos) = Distance(writePos, consumer.read) + Len(got)
      /\ Distance(producer.write, consumer.read)
           = Distance(producer.write, writePos) + Distance(writePos, consumer.read)
      /\ Distance(producer.write, readPos)
           = Distance(producer.write, writePos) + Distance(writePos, readPos)
      /\ Distance(producer.write, readPos) + producer.left <= Capacity
  BY DEF RingInv, CursorOrder, Accounting
<1>6. /\ Distance(writePos, readPos) \in Nat /\ Distance(writePos, consumer.read) \in Nat
      /\ Distance(producer.write, writePos) \in Nat
      /\ Distance(producer.write, consumer.read) \in Nat
      /\ Distance(producer.write, readPos) \in Nat
      /\ Len(got) \in Nat /\ producer.left \in Nat /\ Capacity \in Nat
  BY <1>2 DEF Distances
<1>7. /\ Len(got) <= Distance(writePos, readPos)
      /\ Distance(writePos, consumer.read) = Distance(writePos, readPos) - Len(got)
      /\ Distance(writePos, readPos) <= Distance(producer.write, readPos)
      /\ Distance(producer.write, readPos) <= Capacity
  <2>1. PICK wr \in Nat, wc \in Nat, pw \in Nat, pr \in Nat, g \in Nat, left \in Nat, c \in Nat :
          /\ wr = Distance(writePos, readPos) /\ wc = Distance(writePos, consumer.read)
          /\ pw = Distance(producer.write, writePos) /\ pr = Distance(producer.write, readPos)
          /\ g = Len(got) /\ left = producer.left /\ c = Capacity
    BY <1>6
  <2>2. wr = wc + g /\ pr = pw + wr /\ pr + left <= c
    BY <1>5, <2>1
  <2>3. g <= wr /\ wc = wr - g /\ wr <= pr /\ pr <= c
    BY <2>2
  <2> QED BY <2>1, <2>3
<1>8. Distance(producer.write, consumer.read) = Distance(producer.write, readPos) - Len(got)
  BY <1>5, <1>6
<1> QED BY <1>3, <1>4, <1>7, <1>8

LEMMA PopPublishContent ==
  ASSUME RingInv, ContentInv, PopPublish
  PROVE  ContentInv'
<1>1. PICK w \in Nat, v \in Nat, g \in Nat, h \in Nat :
        /\ w = Distance(producer.write, readPos) /\ v = Distance(writePos, readPos)
        /\ g = Len(got) /\ h = FirstHidden
  BY ContentTypes DEF Distances
<1>2. /\ got' = <<>> /\ delivered' = delivered \o got
      /\ offered' = offered
  BY DEF PopPublish
<1>3. /\ g <= v /\ v <= w /\ w <= Capacity /\ Capacity < Word
      /\ Distance(writePos, readPos)' = v - g
      /\ Distance(producer.write, readPos)' = w - g
      /\ FirstHidden' = h
  BY <1>1, PopPublishDistances, ContentTypes
<1>4. Capacity \in Nat /\ Word \in Nat /\ got \in Seq(Nat) /\ delivered \in Seq(Nat)
  BY RingAssumption, ContentTypes
<1>5. \A k \in Nat : k < w - g => Cell(k)' = Cell(g + k)
  <2> SUFFICES ASSUME NEW k \in Nat, k < w - g PROVE Cell(k)' = Cell(g + k)
    OBVIOUS
  <2>1. g + k < Word
    BY <1>3, <1>4
  <2> QED BY <1>1, <2>1, PopPublishCells
<1>6. ASSUME NEW k \in Nat, v - g <= k, k < w - g PROVE Cell(k)' = h + (k - (v - g))
  <2>1. g + k \in Nat /\ v <= g + k /\ g + k < w
    BY <1>6
  <2>2. Cell(g + k) = h + ((g + k) - v)
    BY <1>1, <2>1 DEF ContentInv
  <2> QED BY <1>5, <1>6, <2>2
<1>7. ASSUME NEW k \in Nat, k < v - g PROVE Cell(k)' < h
  <2>1. g + k \in Nat /\ g + k < v /\ k < w - g
    BY <1>3, <1>7
  <2>2. Cell(g + k) < h
    BY <1>1, <2>1 DEF ContentInv
  <2> QED BY <1>5, <2>1, <2>2
<1>8. ASSUME NEW i \in 1..Len(delivered') PROVE delivered'[i] < h
  <2>1. Len(delivered') = Len(delivered) + g /\ Len(delivered) \in Nat
    BY <1>1, <1>2, <1>4
  <2>2. CASE i <= Len(delivered)
    <3>1. i \in 1..Len(delivered) /\ delivered'[i] = delivered[i]
      BY <1>2, <1>4, <2>1, <2>2
    <3> QED BY <1>1, <3>1 DEF ContentInv
  <2>3. CASE ~(i <= Len(delivered))
    <3>1. PICK k \in 0..(g - 1) : i = Len(delivered) + (k + 1)
      <4>1. i - Len(delivered) - 1 \in 0..(g - 1)
        BY <2>1, <2>3
      <4>2. i = Len(delivered) + ((i - Len(delivered) - 1) + 1)
        <5>1. i \in Int /\ Len(delivered) \in Int
          BY <2>1
        <5> QED BY <5>1
      <4> QED BY <4>1, <4>2
    <3>2. delivered'[i] = got[k + 1]
      BY <1>1, <1>2, <1>4, <2>1, <3>1
    <3>3. k \in Nat /\ k < v
      BY <1>3
    <3>4. got[k + 1] = Cell(k) /\ Cell(k) < h
      BY <1>1, <3>3 DEF ContentInv
    <3> QED BY <3>2, <3>4
  <2> QED BY <2>2, <2>3
<1>9. Len(got') = 0 /\ offered' <= MaxOffered
  BY <1>2 DEF ContentInv
<1> QED BY <1>3, <1>6, <1>7, <1>8, <1>9 DEF ContentInv

----------------------------------------------------------------------------
(* The ring implements the bounded queue *)

\* The queue's samples are the cells between the shared cursors.
LEMMA InsideIsCells ==
  RingInv =>
    /\ Inside = [i \in 1..Distance(writePos, readPos) |-> Cell(i - 1)]
    /\ Inside \in Seq(Nat) /\ Len(Inside) = Distance(writePos, readPos)
<1> SUFFICES ASSUME RingInv
             PROVE  /\ Inside = [i \in 1..Distance(writePos, readPos) |-> Cell(i - 1)]
                    /\ Inside \in Seq(Nat) /\ Len(Inside) = Distance(writePos, readPos)
  OBVIOUS
<1>1. PICK v \in Nat : v = Distance(writePos, readPos)
  BY ContentTypes DEF Distances
<1>2. readPos \in Cursor /\ v <= Capacity /\ Capacity \in Nat /\ Capacity < Word /\ Word \in Nat
  <2>1. Distances /\ producer.left \in Nat /\ Capacity \in Nat /\ Capacity < Word
    BY ContentTypes
  <2> QED BY <1>1, <2>1, RingAssumption DEF RingInv, CursorTypes, CursorOrder, Distances
<1>3. ASSUME NEW i \in 1..v
      PROVE  buf[Slot((readPos + i - 1) % Word)] = Cell(i - 1) /\ Cell(i - 1) \in Nat
  <2>1. i - 1 \in Cursor /\ i - 1 \in Nat /\ i - 1 < Capacity
    BY <1>2 DEF Cursor
  <2>2. readPos + i - 1 = readPos + (i - 1)
    BY <1>2 DEF Cursor
  <2>3. (readPos + (i - 1)) % Word = Along(readPos, i - 1)
    BY <1>2, <2>1, AlongIsMod
  <2>4. Cell(i - 1) \in Nat
    BY <2>1, CellType
  <2> QED BY <2>2, <2>3, <2>4 DEF Cell
<1>4. Inside = [i \in 1..v |-> Cell(i - 1)]
  BY <1>1, <1>3 DEF Inside
<1>5. Inside \in Seq(Nat) /\ Len(Inside) = v
  BY <1>3, <1>4
<1> QED BY <1>1, <1>4, <1>5

LEMMA InsideIsCellsNext ==
  RingInv' =>
    (/\ Inside = [i \in 1..Distance(writePos, readPos) |-> Cell(i - 1)]
     /\ Inside \in Seq(Nat) /\ Len(Inside) = Distance(writePos, readPos))'
BY InsideIsCells, PTL

\* Steps that keep the cells between the shared cursors do not show.
LEMMA FifoStutters ==
  ASSUME RingInv, RingInv', delivered' = delivered,
         NEW v \in Nat, v = Distance(writePos, readPos), v = Distance(writePos, readPos)',
         \A k \in Nat : k < v => Cell(k)' = Cell(k)
  PROVE  UNCHANGED Fifo!fifoVars
<1>1. \A i \in 1..v : Cell(i - 1)' = Cell(i - 1)
  OBVIOUS
<1>2. Inside' = Inside
  BY <1>1, InsideIsCells, InsideIsCellsNext
<1> QED BY <1>2 DEF Fifo!fifoVars

LEMMA PushPublishImplements ==
  ASSUME RingInv, RingInv', ContentInv, PushPublish
  PROVE  [Fifo!FifoNext]_Fifo!fifoVars
<1>1. PICK w \in Nat, v \in Nat, h \in Nat \ {0} :
        /\ w = Distance(producer.write, readPos) /\ v = Distance(writePos, readPos)
        /\ h = FirstHidden
  BY ContentTypes DEF Distances
<1>2. /\ writePos' = producer.write /\ readPos' = readPos /\ buf' = buf
      /\ producer.left = 0 /\ delivered' = delivered
  BY DEF PushPublish
<1>3. /\ Distance(producer.write, writePos) \in Nat
      /\ w = Distance(producer.write, writePos) + v
      /\ w <= Capacity /\ Capacity \in Nat
  <2>1. Distances /\ Capacity \in Nat
    BY ContentTypes
  <2> QED BY <1>1, <1>2, <2>1 DEF Distances, RingInv, CursorOrder
<1>4. Distance(writePos, readPos)' = w /\ \A k \in Nat : Cell(k)' = Cell(k)
  BY <1>1, <1>2 DEF Cell
<1>5. CASE w = v
  BY <1>1, <1>2, <1>4, <1>5, FifoStutters
<1>6. CASE w # v
  <2>1. w - v \in 1..Capacity
    BY <1>3, <1>6
  <2>2. h \in 1..MaxOffered
    <3>1. h + (w - v) <= offered + 1
      <4>1. NextSample + producer.left <= offered + 1 /\ NextSample \in Nat /\ offered \in Nat
        BY ContentTypes
      <4>2. h = NextSample - Distance(producer.write, writePos)
        BY <1>1 DEF FirstHidden
      <4> QED BY <1>2, <1>3, <4>1, <4>2
    <3>2. offered <= MaxOffered /\ offered \in Nat /\ MaxOffered \in Nat
      BY ContentTypes, OfferedAssumption DEF ContentInv
    <3> QED BY <2>1, <3>1, <3>2
  <2>3. /\ Inside \in Seq(Nat) /\ Len(Inside) = v
        /\ \A i \in 1..v : Inside[i] = Cell(i - 1)
        /\ Inside' = [i \in 1..w |-> Cell(i - 1)]
    <3>1. /\ Inside = [i \in 1..v |-> Cell(i - 1)] /\ Inside \in Seq(Nat) /\ Len(Inside) = v
      BY <1>1, InsideIsCells
    <3>2. Inside' = [i \in 1..w |-> Cell(i - 1)']
      BY <1>4, InsideIsCellsNext
    <3> QED BY <1>4, <3>1, <3>2
  <2>4. h > Fifo!Youngest
    <3>1. CASE Inside # <<>>
      <4>1. Fifo!Youngest = Inside[v] /\ v # 0
        BY <2>3, <3>1 DEF Fifo!Youngest
      <4>2. Inside[v] = Cell(v - 1) /\ v - 1 \in Nat /\ v - 1 < v
        BY <2>3, <4>1
      <4> QED BY <1>1, <4>1, <4>2 DEF ContentInv
    <3>2. CASE Inside = <<>> /\ delivered # <<>>
      <4>1. Fifo!Youngest = delivered[Len(delivered)]
        BY <3>2 DEF Fifo!Youngest
      <4>2. Len(delivered) \in 1..Len(delivered)
        BY <3>2, ContentTypes
      <4> QED BY <1>1, <4>1, <4>2 DEF ContentInv
    <3>3. CASE Inside = <<>> /\ delivered = <<>>
      BY <1>1, <3>3 DEF Fifo!Youngest
    <3> QED BY <3>1, <3>2, <3>3
  <2>5. Inside' = Inside \o [i \in 1..(w - v) |-> h + i - 1]
    <3> DEFINE block == [i \in 1..(w - v) |-> h + i - 1]
    <3>1. /\ block \in Seq(Nat) /\ Len(block) = w - v
          /\ \A i \in 1..(w - v) : block[i] = h + i - 1
      BY <1>1, <2>1
    <3> HIDE DEF block
    <3>2. /\ Inside \o block \in Seq(Nat) /\ Len(Inside \o block) = w
          /\ \A i \in 1..w : (Inside \o block)[i] = IF i <= v THEN Inside[i] ELSE block[i - v]
      <4>1. v + (w - v) = w
        BY <1>1
      <4>2. /\ Inside \o block \in Seq(Nat)
            /\ Len(Inside \o block) = Len(Inside) + Len(block)
            /\ \A i \in 1..(Len(Inside) + Len(block)) :
                 (Inside \o block)[i] = IF i <= Len(Inside) THEN Inside[i]
                                        ELSE block[i - Len(Inside)]
        <5>1. Inside \in Seq(Nat) /\ block \in Seq(Nat)
          BY <2>3, <3>1
        <5> QED BY <5>1, ConcatProperties, Zenon
      <4>3. Len(Inside) + Len(block) = w /\ Len(Inside) = v
        BY <2>3, <3>1, <4>1
      <4> QED BY <4>2, <4>3
    <3>3. ASSUME NEW i \in 1..w PROVE (Inside \o block)[i] = Cell(i - 1)
      <4>1. CASE i <= v
        BY <2>3, <3>2, <3>3, <4>1
      <4>2. CASE ~(i <= v)
        <5>1. i - v \in 1..(w - v) /\ block[i - v] = h + (i - v) - 1
          BY <1>1, <3>1, <3>3, <4>2
        <5>2. i - 1 \in Nat /\ v <= i - 1 /\ i - 1 < w
          BY <1>1, <3>3, <4>2
        <5>3. Cell(i - 1) = h + ((i - 1) - v)
          BY <1>1, <5>2 DEF ContentInv
        <5>4. h + (i - v) - 1 = h + ((i - 1) - v)
          BY <1>1, <3>3
        <5> QED BY <3>2, <4>2, <5>1, <5>3, <5>4
      <4> QED BY <4>1, <4>2
    <3>4. Inside' \in Seq(Nat) /\ Len(Inside') = w
      BY <1>4, InsideIsCellsNext
    <3>5. \A i \in 1..Len(Inside') : Inside'[i] = (Inside \o block)[i]
      BY <2>3, <3>3, <3>4
    <3>6. Inside' = Inside \o block
      BY <3>2, <3>4, <3>5, SeqEqual
    <3> QED BY <3>6 DEF block
  <2>6. Fifo!Enter(h, w - v)
    <3>1. Len(Inside) + (w - v) <= Capacity
      BY <1>1, <1>3, <2>3
    <3> QED BY <1>2, <2>4, <2>5, <3>1 DEF Fifo!Enter
  <2> QED BY <2>1, <2>2, <2>6 DEF Fifo!FifoNext
<1> QED BY <1>5, <1>6

LEMMA PopPublishImplements ==
  ASSUME RingInv, RingInv', ContentInv, PopPublish
  PROVE  [Fifo!FifoNext]_Fifo!fifoVars
<1>1. PICK v \in Nat, g \in Nat : v = Distance(writePos, readPos) /\ g = Len(got)
  BY ContentTypes DEF Distances
<1>2. delivered' = delivered \o got /\ got \in Seq(Nat) /\ delivered \in Seq(Nat)
  BY ContentTypes DEF PopPublish
<1>3. /\ g <= v /\ v <= Capacity /\ Distance(writePos, readPos)' = v - g
      /\ Capacity \in Nat /\ Capacity < Word /\ Word \in Nat
  <2>1. Distances /\ Capacity \in Nat /\ Capacity < Word
    BY ContentTypes
  <2> QED BY <1>1, <2>1, PopPublishDistances, RingAssumption DEF Distances
<1>4. ASSUME NEW k \in Nat, k < v - g PROVE Cell(k)' = Cell(g + k)
  <2>1. g + k < Word
    BY <1>3, <1>4
  <2> QED BY <1>1, <2>1, PopPublishCells
<1>5. /\ Inside \in Seq(Nat) /\ Len(Inside) = v /\ \A i \in 1..v : Inside[i] = Cell(i - 1)
      /\ Inside' = [i \in 1..(v - g) |-> Cell(i - 1)']
      /\ Inside' \in Seq(Nat) /\ Len(Inside') = v - g
  BY <1>1, <1>3, InsideIsCells, InsideIsCellsNext
<1>6. CASE g = 0
  <2>1. delivered' = delivered
    <3>1. got = <<>>
      <4>1. Len(got) = 0
        BY <1>1, <1>6
      <4> QED BY <1>2, <4>1, EmptySeq
    <3> QED BY <1>2, <3>1
  <2>2. \A k \in Nat : k < v => Cell(k)' = Cell(k)
    BY <1>4, <1>6
  <2> QED BY <1>1, <1>3, <1>6, <2>1, <2>2, FifoStutters
<1>7. CASE g # 0
  <2>1. g \in 1..Capacity
    BY <1>3, <1>7
  <2>2. got = SubSeq(Inside, 1, g)
    <3>1. /\ SubSeq(Inside, 1, g) \in Seq(Nat) /\ Len(SubSeq(Inside, 1, g)) = g
          /\ \A i \in 1..g : SubSeq(Inside, 1, g)[i] = Inside[i]
      BY <1>3, <1>5, <2>1
    <3>2. ASSUME NEW i \in 1..g PROVE got[i] = SubSeq(Inside, 1, g)[i]
      <4>1. i - 1 \in 0..(Len(got) - 1) /\ (i - 1) + 1 = i /\ i \in 1..v
        BY <1>1, <1>3
      <4>2. got[i] = Cell(i - 1)
        BY <4>1 DEF ContentInv
      <4> QED BY <1>5, <3>1, <4>1, <4>2
    <3> QED BY <1>1, <1>2, <3>1, <3>2, SeqEqual
  <2>3. Inside' = SubSeq(Inside, g + 1, Len(Inside))
    <3>1. /\ SubSeq(Inside, g + 1, v) \in Seq(Nat) /\ Len(SubSeq(Inside, g + 1, v)) = v - g
          /\ \A i \in 1..(v - g) : SubSeq(Inside, g + 1, v)[i] = Inside[g + i]
      BY <1>3, <1>5, <2>1
    <3>2. ASSUME NEW i \in 1..(v - g) PROVE Inside'[i] = SubSeq(Inside, g + 1, v)[i]
      <4>1. i - 1 \in Nat /\ i - 1 < v - g /\ g + i \in 1..v /\ (g + i) - 1 = g + (i - 1)
        BY <1>3
      <4>2. Cell(i - 1)' = Cell(g + (i - 1))
        BY <1>4, <4>1
      <4> QED BY <1>5, <3>1, <4>1, <4>2
    <3> QED BY <1>5, <3>1, <3>2, SeqEqual
  <2>4. Fifo!Leave(g)
    BY <1>2, <1>3, <1>5, <2>2, <2>3 DEF Fifo!Leave
  <2> QED BY <2>1, <2>4 DEF Fifo!FifoNext
<1> QED BY <1>6, <1>7

LEMMA OthersImplement ==
  ASSUME RingInv, RingInv', [RingNext]_ringVars, ~PushPublish, ~PopPublish
  PROVE  UNCHANGED Fifo!fifoVars
<1>1. PICK w \in Nat, v \in Nat :
        w = Distance(producer.write, readPos) /\ v = Distance(writePos, readPos)
  BY ContentTypes DEF Distances
<1>2. CASE PushSample
  <2>1. UNCHANGED <<writePos, readPos, delivered>>
    BY <1>2 DEF PushSample
  <2>2. v <= w
    <3>1. Distances
      BY ContentTypes
    <3> QED BY <1>1, <3>1 DEF Distances, RingInv, CursorOrder
  <2>3. \A k \in Nat : k < v => Cell(k)' = Cell(k)
    BY <1>1, <1>2, <2>2, PushSampleCells
  <2>4. v = Distance(writePos, readPos)'
    BY <1>1, <2>1
  <2> QED BY <1>1, <2>1, <2>3, <2>4, FifoStutters
<1>3. CASE ~PushSample
  <2>1. UNCHANGED <<buf, writePos, readPos, delivered>>
    BY <1>3 DEF RingNext, ringVars, PushBegin, PopBegin, PushCount, PopSample
  <2> QED BY <2>1 DEF Fifo!fifoVars, Inside
<1> QED BY <1>2, <1>3

(* For every capacity, word size and number of samples, and however push    *)
(* and pop interleave: the ring is a bounded first-in first-out queue that  *)
(* blocks enter and leave whole, in order and unchanged.                    *)
THEOREM RingImplementsFifo == RingSpec => ImplementsFifo
<1>1. RingInit => RingInv /\ ContentInv /\ Fifo!FifoInit
  <2> SUFFICES ASSUME RingInit PROVE RingInv /\ ContentInv /\ Fifo!FifoInit
    OBVIOUS
  <2>1. RingInv /\ ContentInv
    BY InitRingInv, InitContentInv
  <2>2. Distance(writePos, readPos) = 0
    BY DistanceZero, RingAssumption DEF RingInit, Cursor
  <2>3. Inside = <<>>
    BY <2>1, <2>2, InsideIsCells
  <2> QED BY <2>1, <2>3 DEF Fifo!FifoInit, RingInit
<1>2. RingInv /\ ContentInv /\ [RingNext]_ringVars => ContentInv'
  <2> SUFFICES ASSUME RingInv, ContentInv, [RingNext]_ringVars PROVE ContentInv'
    OBVIOUS
  <2>1. ASSUME NEW n \in 1..MaxBlock, PushBegin(n) \/ PopBegin(n) PROVE ContentInv'
    BY <2>1, PushBeginContent, PopBeginContent
  <2>2. CASE PushSample \/ PushPublish \/ PushCount
    BY <2>2, PushSampleContent, PushPublishContent, PushCountContent
  <2>3. CASE PopSample \/ PopPublish
    BY <2>3, PopSampleContent, PopPublishContent
  <2>4. CASE UNCHANGED ringVars
    BY <2>4 DEF ringVars, ContentInv, Cell, FirstHidden, NextSample
  <2> QED BY <2>1, <2>2, <2>3, <2>4 DEF RingNext
<1>3. RingInv /\ RingInv' /\ ContentInv /\ [RingNext]_ringVars => [Fifo!FifoNext]_Fifo!fifoVars
  BY PushPublishImplements, PopPublishImplements, OthersImplement
<1> QED BY <1>1, <1>2, <1>3, RingInvariant, PTL DEF RingSpec, ImplementsFifo, Fifo!FifoSpec
----------------------------------------------------------------------------
(* The lossy ring *)

Unwrapped == 0..MaxPushed

LossyTypes ==
  /\ lossyWrite \in Unwrapped /\ lossyRead \in Cursor
  /\ pusher \in [step : {"idle", "copy", "check", "clamp"}, write : Unwrapped, left : Nat, clamp : Unwrapped]
  /\ popper \in [step : {"idle", "loaded", "copy"}, write : Unwrapped, from : Cursor, read : Cursor, left : Nat]
  /\ undone \in BOOLEAN /\ crossed \in BOOLEAN

\* What a push will store is no less than what is there, a clamp lies Capacity
\* behind; and what a pop has loaded has been written.
LossyOrder ==
  /\ pusher.step = "copy" => lossyWrite <= pusher.write /\ pusher.write + pusher.left <= MaxPushed
  /\ pusher.step = "clamp" => Capacity <= lossyWrite /\ pusher.clamp = lossyWrite - Capacity
  /\ popper.step = "loaded" => popper.write <= lossyWrite

\* The consumer's cursors are behind the producer's, the one it will store at or
\* after the one it loaded.
Uncrossed ==
  crossed = FALSE =>
    /\ lossyRead <= lossyWrite
    /\ popper.step = "copy" => popper.from <= popper.read /\ popper.read + popper.left <= lossyWrite

\* Cursors cross after a clamp only, and no clamp is stored before the buffer is full.
FirstLap ==
  (crossed = TRUE \/ (popper.step = "loaded" /\ popper.write < lossyRead)) => Capacity <= lossyWrite

\* A push leaves at most Capacity samples behind, and only a pop that had loaded
\* its cursor before can make them more.
LagIsBounded ==
  (pusher.step \in {"idle", "copy"} /\ undone = FALSE /\ crossed = FALSE) =>
    lossyWrite - lossyRead <= Capacity

LossyInv == LossyTypes /\ LossyOrder /\ Uncrossed /\ FirstLap /\ LagIsBounded

\* Cursors that have not wrapped are as far apart as their numbers say.
LEMMA UnwrappedDistance ==
  ASSUME NEW a \in Unwrapped, NEW b \in Unwrapped, b <= a
  PROVE  Distance(a, b) = a - b
BY PushedAssumption DEF Distance, Unwrapped

LEMMA UnwrappedSucc ==
  ASSUME NEW a \in Unwrapped, a < MaxPushed
  PROVE  Succ(a) = a + 1
BY PushedAssumption, RingAssumption DEF Succ, Unwrapped

\* From Capacity on, a cursor found at most Capacity behind is behind.
LEMMA CloseIsBehind ==
  ASSUME NEW a \in Unwrapped, NEW b \in Cursor, Capacity <= a, Distance(a, b) <= Capacity
  PROVE  b <= a /\ a - b <= Capacity
BY PushedAssumption, RingAssumption DEF Distance, Unwrapped, Cursor

LEMMA InitLossyInv == LossyInit => LossyInv
<1> SUFFICES ASSUME LossyInit PROVE LossyInv
  OBVIOUS
<1>1. 0 \in Unwrapped /\ 0 \in Cursor /\ Capacity \in Nat
  BY PushedAssumption, RingAssumption DEF Unwrapped, Cursor
<1>2. LossyTypes
  BY <1>1 DEF LossyInit, LossyTypes
<1>3. LossyOrder /\ Uncrossed /\ FirstLap /\ LagIsBounded
  BY <1>1 DEF LossyInit, LossyOrder, Uncrossed, FirstLap, LagIsBounded
<1> QED BY <1>2, <1>3 DEF LossyInv

\* The invariant as the steps use it: about numbers.
LEMMA LossyNumbers ==
  ASSUME LossyInv
  PROVE  /\ lossyWrite \in Nat /\ lossyWrite <= MaxPushed /\ lossyRead \in Nat
         /\ pusher.write \in Nat /\ pusher.write <= MaxPushed /\ pusher.left \in Nat
         /\ popper.write \in Nat /\ popper.read \in Nat /\ popper.left \in Nat /\ popper.from \in Nat
         /\ MaxPushed \in Nat /\ Capacity \in Nat
<1>1. MaxPushed \in Nat /\ Capacity \in Nat /\ Word \in Nat
  BY PushedAssumption, RingAssumption
<1>2. lossyWrite \in Unwrapped /\ lossyRead \in Cursor
  BY DEF LossyInv, LossyTypes
<1>3. pusher.write \in Unwrapped /\ popper.write \in Unwrapped
  BY DEF LossyInv, LossyTypes
<1>4. popper.read \in Cursor /\ popper.from \in Cursor
  BY DEF LossyInv, LossyTypes
<1>5. pusher.left \in Nat /\ popper.left \in Nat
  BY DEF LossyInv, LossyTypes
<1> QED BY <1>1, <1>2, <1>3, <1>4, <1>5 DEF Unwrapped, Cursor

LEMMA UncrossedNumbers ==
  ASSUME LossyInv, crossed = FALSE
  PROVE  /\ lossyRead <= lossyWrite
         /\ Distance(lossyWrite, lossyRead) = lossyWrite - lossyRead
<1>1. lossyRead <= lossyWrite
  BY DEF LossyInv, Uncrossed
<1>2. lossyRead \in Unwrapped /\ lossyWrite \in Unwrapped
  BY <1>1, LossyNumbers DEF Unwrapped
<1> QED BY <1>1, <1>2, UnwrappedDistance

LEMMA LossyPushStep ==
  ASSUME LossyInv,
         (\E n \in 1..MaxBlock : LossyPushBegin(n)) \/ LossyPushSample \/ LossyPushPublish
  PROVE  LossyInv'
<1> USE DEF LossyInv
<1>1. UNCHANGED <<lossyRead, popper, undone, crossed>>
  BY DEF LossyPushBegin, LossyPushSample, LossyPushPublish
<1>2. ASSUME NEW n \in 1..MaxBlock, LossyPushBegin(n) PROVE LossyInv'
  <2>1. n \in Nat
    BY RingAssumption
  <2>2. pusher.step = "idle" /\ lossyWrite' = lossyWrite /\ lossyWrite + n <= MaxPushed
    BY <1>2 DEF LossyPushBegin
  <2>3. LossyTypes' /\ pusher'.step = "copy" /\ pusher'.write = lossyWrite /\ pusher'.left = n
    BY <1>1, <1>2, <2>1 DEF LossyPushBegin, LossyTypes
  <2>4. LossyOrder'
    BY <1>1, <2>1, <2>2, <2>3, LossyNumbers DEF LossyOrder
  <2>5. Uncrossed' /\ FirstLap'
    BY <1>1, <2>2 DEF Uncrossed, FirstLap
  <2>6. LagIsBounded'
    BY <1>1, <2>2, <2>3 DEF LagIsBounded
  <2> QED BY <2>3, <2>4, <2>5, <2>6
<1>3. CASE LossyPushSample
  <2>1. pusher.step = "copy" /\ pusher.left > 0 /\ lossyWrite' = lossyWrite
    BY <1>3 DEF LossyPushSample
  <2>2. lossyWrite <= pusher.write /\ pusher.write + pusher.left <= MaxPushed
    BY <2>1 DEF LossyOrder
  <2>3. pusher.write \in Unwrapped /\ pusher.write < MaxPushed
    BY <2>1, <2>2, LossyNumbers DEF LossyTypes
  <2>4. Succ(pusher.write) = pusher.write + 1
    BY <2>3, UnwrappedSucc
  <2>5. pusher.write + 1 \in Unwrapped /\ pusher.left - 1 \in Nat
    BY <2>1, <2>3, LossyNumbers DEF Unwrapped
  <2>6. /\ LossyTypes' /\ pusher'.step = "copy"
        /\ pusher'.write = pusher.write + 1 /\ pusher'.left = pusher.left - 1
    BY <1>1, <1>3, <2>4, <2>5 DEF LossyPushSample, LossyTypes
  <2>7. LossyOrder'
    BY <1>1, <2>1, <2>2, <2>6, LossyNumbers DEF LossyOrder
  <2>8. Uncrossed' /\ FirstLap'
    BY <1>1, <2>1 DEF Uncrossed, FirstLap
  <2>9. LagIsBounded'
    BY <1>1, <2>1, <2>6 DEF LagIsBounded
  <2> QED BY <2>6, <2>7, <2>8, <2>9
<1>4. CASE LossyPushPublish
  <2>1. pusher.step = "copy" /\ lossyWrite' = pusher.write
    BY <1>4 DEF LossyPushPublish
  <2>2. LossyTypes' /\ pusher'.step = "check"
    BY <1>1, <1>4 DEF LossyPushPublish, LossyTypes
  <2>3. lossyWrite <= pusher.write
    BY <2>1 DEF LossyOrder
  <2>4. LossyOrder'
    BY <1>1, <2>1, <2>2, <2>3, LossyNumbers DEF LossyOrder
  <2>5. PICK w \in Nat, more \in Nat : w = lossyWrite /\ more = lossyWrite' /\ w <= more
    BY <2>1, <2>3, LossyNumbers
  <2>6. Uncrossed' /\ FirstLap'
    <3>1. ASSUME crossed = FALSE
          PROVE  /\ lossyRead <= more
                 /\ popper.step = "copy" => popper.from <= popper.read /\ popper.read + popper.left <= more
      <4>1. lossyRead <= w /\ (popper.step = "copy" => popper.from <= popper.read /\ popper.read + popper.left <= w)
        BY <2>5, <3>1 DEF Uncrossed
      <4> QED BY <2>5, <4>1, LossyNumbers
    <3>2. ASSUME crossed = TRUE \/ (popper.step = "loaded" /\ popper.write < lossyRead)
          PROVE  Capacity <= more
      <4>1. Capacity <= w
        BY <2>5, <3>2 DEF FirstLap
      <4> QED BY <2>5, <4>1, LossyNumbers
    <3> QED BY <1>1, <2>5, <3>1, <3>2 DEF Uncrossed, FirstLap
  <2>7. LagIsBounded'
    BY <2>2 DEF LagIsBounded
  <2> QED BY <2>2, <2>4, <2>6, <2>7
<1> QED BY <1>2, <1>3, <1>4

\* A push that finds more than Capacity samples prepares the clamp.
LEMMA ClampPrepared ==
  ASSUME LossyInv, LossyPushCheck, Distance(lossyWrite, lossyRead) > Capacity
  PROVE  /\ Capacity <= lossyWrite /\ lossyWrite - Capacity \in Unwrapped
         /\ pusher' = [pusher EXCEPT !.step = "clamp", !.clamp = lossyWrite - Capacity]
<1>1. Capacity <= lossyWrite
  <2>1. CASE crossed = FALSE
    <3>1. lossyWrite - lossyRead > Capacity
      BY <2>1, UncrossedNumbers
    <3> QED BY <3>1, LossyNumbers
  <2>2. CASE crossed = TRUE
    BY <2>2 DEF LossyInv, FirstLap
  <2> QED BY <2>1, <2>2 DEF LossyInv, LossyTypes
<1>2. Capacity \in Unwrapped /\ lossyWrite \in Unwrapped /\ lossyWrite - Capacity \in Unwrapped
  BY <1>1, LossyNumbers DEF Unwrapped
<1>3. Distance(lossyWrite, Capacity) = lossyWrite - Capacity
  BY <1>1, <1>2, UnwrappedDistance
<1> QED BY <1>1, <1>2, <1>3 DEF LossyPushCheck

LEMMA LossyCheckStep ==
  ASSUME LossyInv, LossyPushCheck
  PROVE  LossyInv'
<1> USE DEF LossyInv
<1>1. /\ UNCHANGED <<lossyWrite, lossyRead, popper>>
      /\ undone' \in BOOLEAN /\ crossed' \in BOOLEAN
      /\ crossed' = (crossed /\ (popper.step = "copy" \/ Distance(lossyWrite, lossyRead) > Capacity))
  BY DEF LossyPushCheck
<1>2. crossed \in BOOLEAN /\ (crossed' = TRUE => crossed = TRUE)
  BY <1>1 DEF LossyTypes
<1>3. FirstLap'
  BY <1>1, <1>2 DEF FirstLap
<1>4. CASE Distance(lossyWrite, lossyRead) > Capacity
  <2>1. /\ Capacity <= lossyWrite /\ lossyWrite - Capacity \in Unwrapped
        /\ pusher' = [pusher EXCEPT !.step = "clamp", !.clamp = lossyWrite - Capacity]
    BY <1>4, ClampPrepared
  <2>2. LossyTypes' /\ pusher'.step = "clamp" /\ pusher'.clamp = lossyWrite - Capacity
    BY <1>1, <2>1 DEF LossyTypes
  <2>3. LossyOrder' /\ LagIsBounded'
    BY <1>1, <2>1, <2>2 DEF LossyOrder, LagIsBounded
  <2>4. Uncrossed'
    <3>1. crossed' = crossed
      BY <1>1, <1>2, <1>4
    <3> QED BY <1>1, <3>1 DEF Uncrossed
  <2> QED BY <1>3, <2>2, <2>3, <2>4
<1>5. CASE ~(Distance(lossyWrite, lossyRead) > Capacity)
  <2>1. pusher' = [pusher EXCEPT !.step = "idle"]
    BY <1>5 DEF LossyPushCheck
  <2>2. LossyTypes' /\ pusher'.step = "idle"
    BY <1>1, <2>1 DEF LossyTypes
  <2>3. LossyOrder'
    BY <1>1, <2>2 DEF LossyOrder
  <2>4. CASE crossed = FALSE
    <3>1. lossyWrite - lossyRead <= Capacity /\ lossyRead <= lossyWrite
      <4>1. ~(lossyWrite - lossyRead > Capacity) /\ lossyRead <= lossyWrite
        BY <1>5, <2>4, UncrossedNumbers
      <4> QED BY <4>1, LossyNumbers
    <3>2. LagIsBounded'
      BY <1>1, <3>1 DEF LagIsBounded
    <3>3. Uncrossed'
      BY <1>1, <2>4 DEF Uncrossed
    <3> QED BY <1>3, <2>2, <2>3, <3>2, <3>3
  <2>5. CASE crossed = TRUE
    <3>1. Capacity <= lossyWrite
      BY <2>5 DEF FirstLap
    <3>2. Distance(lossyWrite, lossyRead) <= Capacity /\ lossyWrite \in Unwrapped /\ lossyRead \in Cursor
      <4>1. lossyWrite \in Unwrapped /\ lossyRead \in Cursor /\ lossyWrite \in Cursor
        BY LossyNumbers, PushedAssumption, RingAssumption DEF LossyTypes, Cursor
      <4>2. Distance(lossyWrite, lossyRead) \in Int /\ Capacity \in Int
        BY <4>1, DistanceType, RingAssumption
      <4> QED BY <1>5, <4>1, <4>2
    <3>3. lossyRead <= lossyWrite /\ lossyWrite - lossyRead <= Capacity
      BY <3>1, <3>2, CloseIsBehind
    <3>4. LagIsBounded'
      BY <1>1, <3>3 DEF LagIsBounded
    <3>5. crossed' = FALSE => popper.step # "copy"
      BY <1>1, <2>5
    <3>6. Uncrossed'
      BY <1>1, <3>3, <3>5 DEF Uncrossed
    <3> QED BY <1>3, <2>2, <2>3, <3>4, <3>6
  <2> QED BY <1>2, <2>4, <2>5
<1> QED BY <1>4, <1>5

LEMMA LossyClampStep ==
  ASSUME LossyInv, LossyPushClamp
  PROVE  LossyInv'
<1> USE DEF LossyInv
<1>1. /\ pusher.step = "clamp" /\ lossyRead' = pusher.clamp /\ undone' = FALSE
      /\ pusher' = [pusher EXCEPT !.step = "idle"]
      /\ crossed' = (crossed /\ popper.step = "copy")
      /\ UNCHANGED <<lossyWrite, popper>>
  BY DEF LossyPushClamp
<1>2. Capacity <= lossyWrite /\ pusher.clamp = lossyWrite - Capacity
  BY <1>1 DEF LossyOrder
<1>3. pusher.clamp \in Cursor
  BY PushedAssumption, RingAssumption DEF LossyTypes, Unwrapped, Cursor
<1>4. crossed \in BOOLEAN /\ crossed' \in BOOLEAN
  BY <1>1 DEF LossyTypes
<1>5. LossyTypes' /\ pusher'.step = "idle"
  BY <1>1, <1>3, <1>4 DEF LossyTypes
<1>6. LossyOrder' /\ FirstLap'
  BY <1>1, <1>2, <1>5 DEF LossyOrder, FirstLap
<1>7. lossyRead' <= lossyWrite' /\ lossyWrite' - lossyRead' <= Capacity
  BY <1>1, <1>2, LossyNumbers
<1>8. Uncrossed'
  <2>1. crossed' = FALSE => popper.step # "copy" \/ crossed = FALSE
    BY <1>1, <1>4
  <2> QED BY <1>1, <1>7, <2>1 DEF Uncrossed
<1>9. LagIsBounded'
  BY <1>7 DEF LagIsBounded
<1> QED BY <1>5, <1>6, <1>8, <1>9

LEMMA LossyPopBeginStep ==
  ASSUME LossyInv, LossyPopBegin
  PROVE  LossyInv'
<1> USE DEF LossyInv
<1>1. /\ UNCHANGED <<lossyWrite, lossyRead, pusher, undone, crossed>>
      /\ popper' = [popper EXCEPT !.step = "loaded", !.write = lossyWrite]
  BY DEF LossyPopBegin
<1>2. LossyTypes' /\ popper'.step = "loaded" /\ popper'.write = lossyWrite
  BY <1>1 DEF LossyTypes
<1>3. LossyOrder'
  BY <1>1, <1>2, LossyNumbers DEF LossyOrder
<1>4. Uncrossed' /\ LagIsBounded'
  BY <1>1, <1>2 DEF Uncrossed, LagIsBounded
<1>5. FirstLap'
  <2>1. CASE crossed = FALSE
    <3>1. ~(lossyWrite < lossyRead)
      <4>1. lossyRead <= lossyWrite
        BY <2>1 DEF Uncrossed
      <4> QED BY <4>1, LossyNumbers
    <3> QED BY <1>1, <1>2, <2>1, <3>1 DEF FirstLap
  <2>2. CASE crossed = TRUE
    BY <1>1, <2>2 DEF FirstLap
  <2> QED BY <2>1, <2>2 DEF LossyTypes
<1> QED BY <1>2, <1>3, <1>4, <1>5

LEMMA LossyPopCountStep ==
  ASSUME LossyInv, NEW n \in 1..MaxBlock, LossyPopCount(n)
  PROVE  LossyInv'
<1> USE DEF LossyInv
<1> DEFINE m == AtMost(Distance(popper.write, lossyRead), n)
<1>1. /\ UNCHANGED <<lossyWrite, lossyRead, pusher, undone>> /\ popper.step = "loaded"
      /\ crossed' = (crossed \/ popper.write < lossyRead)
      /\ popper' = [popper EXCEPT !.step = "copy", !.read = lossyRead, !.from = lossyRead, !.left = m]
  BY DEF LossyPopCount
<1>2. n \in Nat
  BY RingAssumption
<1>3. Distance(popper.write, lossyRead) \in Nat
  <2>1. popper.write \in Cursor /\ lossyRead \in Cursor
    BY PushedAssumption, RingAssumption DEF LossyTypes, Unwrapped, Cursor
  <2>2. Distance(popper.write, lossyRead) \in 0..(Word - 1)
    BY <2>1, DistanceType
  <2> QED BY <2>2
<1>4. m \in Nat /\ m <= Distance(popper.write, lossyRead)
  BY <1>2, <1>3, AtMostBounds
<1> HIDE DEF m
<1>5. crossed \in BOOLEAN /\ crossed' \in BOOLEAN
  BY <1>1 DEF LossyTypes
<1>6. /\ LossyTypes' /\ popper'.step = "copy" /\ popper'.read = lossyRead
      /\ popper'.from = lossyRead /\ popper'.left = m
  BY <1>1, <1>4, <1>5 DEF LossyTypes
<1>7. LossyOrder'
  BY <1>1, <1>6 DEF LossyOrder
<1>8. FirstLap'
  <2>1. crossed' = TRUE => crossed = TRUE \/ popper.write < lossyRead
    BY <1>1, <1>5
  <2> QED BY <1>1, <1>6, <2>1 DEF FirstLap
<1>9. crossed' = FALSE => crossed = FALSE /\ ~(popper.write < lossyRead)
  BY <1>1, <1>5
<1>10. LagIsBounded'
  BY <1>1, <1>9 DEF LagIsBounded
<1>11. Uncrossed'
  <2> SUFFICES ASSUME crossed' = FALSE
               PROVE  lossyRead <= lossyWrite /\ lossyRead <= lossyRead /\ lossyRead + m <= lossyWrite
    BY <1>1, <1>6 DEF Uncrossed
  <2>1. lossyRead <= popper.write /\ popper.write <= lossyWrite
    BY <1>1, <1>9, LossyNumbers DEF LossyOrder
  <2>2. Distance(popper.write, lossyRead) = popper.write - lossyRead
    <3>1. popper.write \in Unwrapped /\ lossyRead \in Unwrapped
      BY <2>1, LossyNumbers DEF LossyTypes, Unwrapped
    <3> QED BY <2>1, <3>1, UnwrappedDistance
  <2>3. m <= popper.write - lossyRead
    BY <1>4, <2>2
  <2> QED BY <1>4, <2>1, <2>3, LossyNumbers
<1> QED BY <1>6, <1>7, <1>8, <1>10, <1>11

LEMMA LossyPopSampleStep ==
  ASSUME LossyInv, LossyPopSample
  PROVE  LossyInv'
<1> USE DEF LossyInv
<1>1. /\ popper.step = "copy" /\ popper.left > 0
      /\ UNCHANGED <<lossyWrite, lossyRead, pusher, undone, crossed>>
      /\ popper' = [popper EXCEPT !.read = Succ(@), !.left = @ - 1]
  BY DEF LossyPopSample
<1>2. Succ(popper.read) \in Cursor /\ popper.left - 1 \in Nat
  BY <1>1, SuccType DEF LossyTypes
<1>3. /\ LossyTypes' /\ popper'.step = "copy" /\ popper'.from = popper.from
      /\ popper'.read = Succ(popper.read) /\ popper'.left = popper.left - 1
  BY <1>1, <1>2 DEF LossyTypes
<1>4. LossyOrder' /\ FirstLap' /\ LagIsBounded'
  BY <1>1, <1>3 DEF LossyOrder, FirstLap, LagIsBounded
<1>5. Uncrossed'
  <2> SUFFICES ASSUME crossed = FALSE PROVE Uncrossed'
    BY <1>1 DEF Uncrossed
  <2>1. popper.from <= popper.read /\ popper.read + popper.left <= lossyWrite /\ lossyRead <= lossyWrite
    BY <1>1 DEF Uncrossed
  <2>2. popper.read \in Unwrapped /\ popper.read < MaxPushed
    BY <1>1, <2>1, LossyNumbers DEF Unwrapped
  <2>3. Succ(popper.read) = popper.read + 1
    BY <2>2, UnwrappedSucc
  <2>4. popper.from <= popper.read + 1 /\ (popper.read + 1) + (popper.left - 1) <= lossyWrite
    BY <2>1, LossyNumbers
  <2> QED BY <1>1, <1>3, <2>1, <2>3, <2>4 DEF Uncrossed
<1> QED BY <1>3, <1>4, <1>5

LEMMA LossyPopPublishStep ==
  ASSUME LossyInv, LossyPopPublish
  PROVE  LossyInv'
<1> USE DEF LossyInv
<1>1. /\ popper.step = "copy" /\ popper.left = 0 /\ lossyRead' = popper.read
      /\ undone' = (undone \/ lossyRead # popper.from)
      /\ UNCHANGED <<lossyWrite, pusher, crossed>>
      /\ popper' = [popper EXCEPT !.step = "idle"]
  BY DEF LossyPopPublish
<1>2. undone' \in BOOLEAN /\ (undone' = FALSE => undone = FALSE /\ lossyRead = popper.from)
  BY <1>1 DEF LossyTypes
<1>3. LossyTypes' /\ popper'.step = "idle"
  BY <1>1, <1>2 DEF LossyTypes
<1>4. LossyOrder' /\ FirstLap'
  BY <1>1, <1>3 DEF LossyOrder, FirstLap
<1>5. crossed = FALSE => popper.from <= popper.read /\ popper.read <= lossyWrite
  <2> SUFFICES ASSUME crossed = FALSE PROVE popper.from <= popper.read /\ popper.read <= lossyWrite
    OBVIOUS
  <2>1. popper.from <= popper.read /\ popper.read + popper.left <= lossyWrite
    BY <1>1 DEF Uncrossed
  <2> QED BY <1>1, <2>1, LossyNumbers
<1>6. Uncrossed'
  BY <1>1, <1>3, <1>5 DEF Uncrossed
<1>7. LagIsBounded'
  <2> SUFFICES ASSUME pusher.step \in {"idle", "copy"}, undone' = FALSE, crossed = FALSE
               PROVE  lossyWrite - popper.read <= Capacity
    BY <1>1 DEF LagIsBounded
  <2>1. lossyWrite - lossyRead <= Capacity /\ lossyRead = popper.from
    BY <1>2 DEF LagIsBounded
  <2> QED BY <1>5, <2>1, LossyNumbers
<1> QED BY <1>3, <1>4, <1>6, <1>7

LEMMA LossyStep ==
  ASSUME LossyInv, [LossyNext]_lossyVars
  PROVE  LossyInv'
<1>1. CASE UNCHANGED lossyVars
  BY <1>1 DEF lossyVars, LossyInv, LossyTypes, LossyOrder, Uncrossed, FirstLap, LagIsBounded
<1>2. CASE LossyNext
  <2>1. CASE (\E n \in 1..MaxBlock : LossyPushBegin(n)) \/ LossyPushSample \/ LossyPushPublish
    BY <2>1, LossyPushStep
  <2>2. CASE LossyPushCheck \/ LossyPushClamp
    BY <2>2, LossyCheckStep, LossyClampStep
  <2>3. CASE LossyPopBegin \/ LossyPopSample \/ LossyPopPublish
    BY <2>3, LossyPopBeginStep, LossyPopSampleStep, LossyPopPublishStep
  <2>4. CASE \E n \in 1..MaxBlock : LossyPopCount(n)
    BY <2>4, LossyPopCountStep
  <2> QED BY <1>2, <2>1, <2>2, <2>3, <2>4 DEF LossyNext
<1> QED BY <1>1, <1>2

(* For every capacity and number of samples and every interleaving: though  *)
(* both sides store the consumer's cursor, it does not pass the producer's, *)
(* and between pushes at most Capacity samples are available, unless a pop  *)
(* has taken back what a push had skipped; both as long as no push has      *)
(* moved the cursor between the two loads of a pop, and again as soon as a  *)
(* push has ended while no pop copied.                                      *)
THEOREM LagFitsHolds == LossySpec => []LagFits
<1>1. LossyInv /\ [LossyNext]_lossyVars => LossyInv'
  BY LossyStep
<1>2. LossyInv => LagFits
  <2> SUFFICES ASSUME LossyInv, crossed = FALSE
               PROVE  /\ lossyRead <= lossyWrite
                      /\ popper.step = "copy" => popper.read + popper.left <= lossyWrite
                      /\ (pusher.step = "idle" /\ ~undone) => Distance(lossyWrite, lossyRead) <= Capacity
    BY DEF LagFits, LossyInv, LossyTypes
  <2>1. ~undone => undone = FALSE
    BY DEF LossyInv, LossyTypes
  <2>2. (pusher.step = "idle" /\ undone = FALSE) => lossyWrite - lossyRead <= Capacity
    BY DEF LossyInv, LagIsBounded
  <2> QED BY <2>1, <2>2, UncrossedNumbers DEF LossyInv, Uncrossed
<1> QED BY <1>1, <1>2, InitLossyInv, PTL DEF LossySpec

----------------------------------------------------------------------------
(* What the lossy ring hands out *)

\* The sample number up to which pops have copied: the next one, less one.
Place == IF popper.step = "copy" THEN popper.read ELSE lossyRead

HistoryTypes ==
  /\ popped \in Seq(Int) /\ lossyBuf \in [0..(Capacity - 1) -> Int]
  /\ behind \in BOOLEAN /\ overlapped \in BOOLEAN

\* The producer's own cursor is the shared one, except while it copies.
PusherAtRest == pusher.step # "copy" => pusher.write = lossyWrite /\ pusher.left = 0

\* The last Capacity samples written are in their slots.
SlotsFilled ==
  \A i \in Nat : (i < pusher.write /\ pusher.write - i <= Capacity) => lossyBuf[Slot(i)] = i + 1

\* While the consumer keeps up, what a push still writes fits behind what is
\* unread, so that no push takes the cursor away from a pop.
KeepsUp ==
  behind = FALSE =>
    /\ popper.step = "copy" => popper.from = lossyRead
    /\ pusher.write + pusher.left <= lossyRead + Capacity
    /\ pusher.step # "clamp"
    /\ Len(popped) = Place /\ \A i \in 1..Len(popped) : popped[i] = i

\* While pops and pushes take turns, nothing older than what was copied last can
\* be copied any more.
TakesTurns ==
  overlapped = FALSE =>
    /\ pusher.step = "idle" \/ popper.step = "idle"
    /\ undone = FALSE
    /\ popper.step = "copy" => popper.from = lossyRead
    /\ pusher.step = "clamp" => lossyRead <= pusher.clamp
    /\ \A i \in 1..Len(popped) : popped[i] <= Place
    /\ \A i \in 1..Len(popped), j \in 1..Len(popped) : i < j => popped[i] < popped[j]

\* A consumer that keeps up sees no clamp, and one that takes turns none between
\* its two loads, so that neither takes its cursors for crossed.
NeverCrosses ==
  (behind = FALSE \/ overlapped = FALSE) =>
    crossed = FALSE /\ (popper.step = "loaded" => lossyRead <= popper.write)

HistoryInv == HistoryTypes /\ PusherAtRest /\ SlotsFilled /\ KeepsUp /\ TakesTurns /\ NeverCrosses

\* Unwrapped cursors less than Capacity apart have their own slots.
LEMMA UnwrappedSlots ==
  ASSUME NEW a \in Unwrapped, NEW b \in Unwrapped, b < a, a - b < Capacity
  PROVE  Slot(a) # Slot(b)
<1>1. a \in Cursor /\ b \in Cursor
  BY PushedAssumption, RingAssumption DEF Unwrapped, Cursor
<1>2. Distance(a, b) = a - b
  BY UnwrappedDistance DEF Unwrapped
<1>3. 0 < Distance(a, b) /\ Distance(a, b) < Capacity
  BY <1>2 DEF Unwrapped
<1> QED BY <1>1, <1>3, SlotsDiffer

LEMMA InitHistoryInv == LossyInit => HistoryInv
<1> SUFFICES ASSUME LossyInit PROVE HistoryInv
  OBVIOUS
<1>1. HistoryTypes
  <2>1. lossyBuf = [i \in 0..(Capacity - 1) |-> 0] /\ popped = <<>> /\ behind = FALSE /\ overlapped = FALSE
    BY DEF LossyInit, EmptyBuffer
  <2>2. lossyBuf \in [0..(Capacity - 1) -> Int]
    BY <2>1
  <2>3. popped \in Seq(Int)
    BY <2>1, EmptySeq
  <2> QED BY <2>1, <2>2, <2>3 DEF HistoryTypes
<1>2. PusherAtRest /\ pusher.write = 0 /\ pusher.left = 0 /\ lossyRead = 0 /\ popper.step = "idle"
      /\ pusher.step = "idle" /\ undone = FALSE /\ crossed = FALSE /\ popped = <<>>
  BY DEF LossyInit, PusherAtRest
<1>3. SlotsFilled
  BY <1>2 DEF SlotsFilled
<1>4. KeepsUp
  BY <1>2, RingAssumption DEF KeepsUp, Place
<1>5. TakesTurns
  BY <1>2 DEF TakesTurns
<1>6. NeverCrosses
  BY <1>2 DEF NeverCrosses
<1> QED BY <1>1, <1>2, <1>3, <1>4, <1>5, <1>6 DEF HistoryInv

\* These parts of a step that leaves the history and the consumer's cursors alone.
LEMMA SameHistory ==
  ASSUME HistoryInv, LossyInv, UNCHANGED <<popped, popper, lossyRead>>,
         crossed = FALSE => crossed' = FALSE,
         behind' \in BOOLEAN, behind' = FALSE => behind = FALSE,
         overlapped' \in BOOLEAN, overlapped' = FALSE => overlapped = FALSE,
         behind' = FALSE => /\ pusher'.write + pusher'.left <= lossyRead + Capacity
                            /\ pusher'.step # "clamp",
         overlapped' = FALSE => /\ pusher'.step = "idle" \/ popper.step = "idle"
                                /\ undone' = FALSE
                                /\ pusher'.step = "clamp" => lossyRead <= pusher'.clamp
  PROVE  KeepsUp' /\ TakesTurns' /\ NeverCrosses'
<1>1. Place' = Place
  BY DEF Place
<1>2. KeepsUp'
  BY <1>1 DEF HistoryInv, KeepsUp
<1>3. TakesTurns'
  BY <1>1 DEF HistoryInv, TakesTurns
<1>4. NeverCrosses'
  BY DEF HistoryInv, NeverCrosses
<1> QED BY <1>2, <1>3, <1>4

LEMMA PushBeginHistory ==
  ASSUME HistoryInv, LossyInv, NEW n \in 1..MaxBlock, LossyPushBegin(n)
  PROVE  HistoryInv'
<1>1. /\ pusher.step = "idle" /\ UNCHANGED <<lossyBuf, lossyWrite, lossyRead, popper, popped, undone, crossed>>
      /\ behind' = (behind \/ Distance(lossyWrite, lossyRead) + n > Capacity)
      /\ overlapped' = (overlapped \/ popper.step # "idle")
  BY DEF LossyPushBegin
<1>2. behind \in BOOLEAN /\ overlapped \in BOOLEAN
  BY DEF HistoryInv, HistoryTypes
<1>3. /\ pusher.write = lossyWrite /\ pusher'.step = "copy"
      /\ pusher'.write = lossyWrite /\ pusher'.left = n
  BY <1>1 DEF LossyPushBegin, HistoryInv, PusherAtRest, LossyInv, LossyTypes
<1>4. behind' \in BOOLEAN /\ (behind' = FALSE => behind = FALSE /\ ~(Distance(lossyWrite, lossyRead) + n > Capacity))
  BY <1>1, <1>2
<1>5. overlapped' \in BOOLEAN /\ (overlapped' = FALSE => overlapped = FALSE /\ popper.step = "idle")
  BY <1>1, <1>2
<1>6. behind' = FALSE => pusher'.write + pusher'.left <= lossyRead + Capacity
  <2> SUFFICES ASSUME behind' = FALSE PROVE pusher'.write + pusher'.left <= lossyRead + Capacity
    OBVIOUS
  <2>1. n \in Nat
    BY RingAssumption
  <2>2. Distance(lossyWrite, lossyRead) = lossyWrite - lossyRead
    BY <1>4, UncrossedNumbers DEF HistoryInv, NeverCrosses
  <2>3. ~(lossyWrite - lossyRead + n > Capacity)
    BY <1>4, <2>2
  <2> QED BY <1>3, <2>1, <2>3, LossyNumbers
<1>7. overlapped' = FALSE => undone' = FALSE
  BY <1>1, <1>5 DEF HistoryInv, TakesTurns
<1>8. KeepsUp' /\ TakesTurns' /\ NeverCrosses'
  BY <1>1, <1>3, <1>4, <1>5, <1>6, <1>7, SameHistory
<1>9. SlotsFilled'
  BY <1>1, <1>3 DEF HistoryInv, SlotsFilled
<1>10. HistoryTypes'
  BY <1>1, <1>4, <1>5 DEF HistoryInv, HistoryTypes
<1> QED BY <1>3, <1>8, <1>9, <1>10 DEF HistoryInv, PusherAtRest

LEMMA PushSampleHistory ==
  ASSUME HistoryInv, LossyInv, LossyPushSample
  PROVE  HistoryInv'
<1>1. /\ pusher.step = "copy" /\ pusher.left > 0
      /\ UNCHANGED <<lossyWrite, lossyRead, popper, popped, behind, overlapped, undone, crossed>>
  BY DEF LossyPushSample
<1>2. PICK w \in Nat, left \in Nat, c \in Nat, max \in Nat :
        /\ w = pusher.write /\ left = pusher.left /\ c = Capacity /\ max = MaxPushed
  BY LossyNumbers
<1>3. w + left <= max /\ 0 < left
  BY <1>1, <1>2 DEF LossyInv, LossyOrder
<1>4. w \in Unwrapped /\ Succ(w) = w + 1
  <2>1. w < MaxPushed /\ w \in Unwrapped
    BY <1>2, <1>3 DEF Unwrapped
  <2> QED BY <2>1, UnwrappedSucc
<1>5. lossyBuf' = [lossyBuf EXCEPT ![Slot(w)] = w + 1]
  BY <1>2 DEF LossyPushSample
<1>6. pusher'.step = "copy" /\ pusher'.write = w + 1 /\ pusher'.left = left - 1
  BY <1>1, <1>2, <1>4 DEF LossyPushSample, LossyInv, LossyTypes
<1>7. lossyBuf \in [0..(Capacity - 1) -> Int] /\ Slot(w) \in 0..(Capacity - 1)
  <2>1. w \in Cursor
    BY <1>2, <1>3, PushedAssumption, RingAssumption DEF Cursor
  <2> QED BY <2>1, SlotType DEF HistoryInv, HistoryTypes
<1>8. SlotsFilled'
  <2> SUFFICES ASSUME NEW i \in Nat, i < w + 1, (w + 1) - i <= c
               PROVE  lossyBuf'[Slot(i)] = i + 1
    BY <1>2, <1>6 DEF SlotsFilled
  <2>1. CASE i = w
    BY <1>5, <1>7, <2>1
  <2>2. CASE i # w
    <3>1. i < w
      BY <2>2
    <3>2. w - i < c
      OBVIOUS
    <3>6. i \in Unwrapped
      BY <1>4, <3>1, PushedAssumption DEF Unwrapped
    <3>3. Slot(w) # Slot(i)
      BY <1>2, <1>4, <3>1, <3>2, <3>6, UnwrappedSlots
    <3>4. lossyBuf[Slot(i)] = i + 1
      BY <1>2, <3>1, <3>2 DEF HistoryInv, SlotsFilled
    <3>5. Slot(i) \in 0..(Capacity - 1)
      <4>1. i \in Cursor
        BY <3>6, PushedAssumption, RingAssumption DEF Unwrapped, Cursor
      <4> QED BY <4>1, SlotType
    <3> QED BY <1>5, <1>7, <3>3, <3>4, <3>5
  <2> QED BY <2>1, <2>2
<1>9. HistoryTypes'
  BY <1>1, <1>2, <1>5, <1>7 DEF HistoryInv, HistoryTypes
<1>10. KeepsUp' /\ TakesTurns' /\ NeverCrosses'
  <2>1. behind = FALSE => w + left <= lossyRead + Capacity
    BY <1>2 DEF HistoryInv, KeepsUp
  <2>2. behind = FALSE => pusher'.write + pusher'.left <= lossyRead + Capacity
    BY <1>2, <1>6, <2>1
  <2>3. overlapped = FALSE => undone = FALSE /\ popper.step = "idle"
    BY <1>1 DEF HistoryInv, TakesTurns
  <2>4. behind \in BOOLEAN /\ overlapped \in BOOLEAN
    BY DEF HistoryInv, HistoryTypes
  <2> QED BY <1>1, <1>6, <2>2, <2>3, <2>4, SameHistory
<1> QED BY <1>6, <1>8, <1>9, <1>10 DEF HistoryInv, PusherAtRest

LEMMA PushPublishHistory ==
  ASSUME HistoryInv, LossyInv, LossyPushPublish
  PROVE  HistoryInv'
<1>1. /\ pusher.step = "copy" /\ pusher.left = 0 /\ lossyWrite' = pusher.write
      /\ UNCHANGED <<lossyBuf, lossyRead, popper, popped, behind, overlapped, undone, crossed>>
  BY DEF LossyPushPublish
<1>2. pusher'.step = "check" /\ pusher'.write = pusher.write /\ pusher'.left = pusher.left
  BY DEF LossyPushPublish, LossyInv, LossyTypes
<1>3. SlotsFilled' /\ HistoryTypes'
  BY <1>1, <1>2 DEF HistoryInv, SlotsFilled, HistoryTypes
<1>4. KeepsUp' /\ TakesTurns' /\ NeverCrosses'
  <2>1. behind = FALSE => pusher'.write + pusher'.left <= lossyRead + Capacity
    BY <1>2 DEF HistoryInv, KeepsUp
  <2>2. overlapped = FALSE => undone = FALSE /\ popper.step = "idle"
    BY <1>1 DEF HistoryInv, TakesTurns
  <2>3. behind \in BOOLEAN /\ overlapped \in BOOLEAN
    BY DEF HistoryInv, HistoryTypes
  <2> QED BY <1>1, <1>2, <2>1, <2>2, <2>3, SameHistory
<1> QED BY <1>1, <1>2, <1>3, <1>4 DEF HistoryInv, PusherAtRest

LEMMA PushCheckHistory ==
  ASSUME HistoryInv, LossyInv, LossyPushCheck
  PROVE  HistoryInv'
<1>1. /\ pusher.step = "check" /\ pusher.write = lossyWrite /\ pusher.left = 0
      /\ UNCHANGED <<lossyBuf, lossyWrite, lossyRead, popper, popped, behind, overlapped>>
  BY DEF LossyPushCheck, HistoryInv, PusherAtRest
<1>2. behind \in BOOLEAN /\ overlapped \in BOOLEAN
  BY DEF HistoryInv, HistoryTypes
<1>3. PICK w \in Nat, r \in Nat, c \in Nat : w = lossyWrite /\ r = lossyRead /\ c = Capacity
  BY LossyNumbers
<1>4. pusher'.write = pusher.write /\ pusher'.left = pusher.left
  BY DEF LossyPushCheck, LossyInv, LossyTypes
<1>5. crossed = FALSE =>
        /\ crossed' = FALSE
        /\ pusher'.step = "idle" \/ (pusher'.step = "clamp" /\ w - r > c /\ pusher'.clamp = w - c)
  <2> SUFFICES ASSUME crossed = FALSE
               PROVE  pusher'.step = "idle" \/ (pusher'.step = "clamp" /\ w - r > c /\ pusher'.clamp = w - c)
    BY DEF LossyPushCheck
  <2>1. CASE Distance(lossyWrite, lossyRead) > Capacity
    <3>1. w - r > c
      BY <1>3, <2>1, UncrossedNumbers
    <3>2. pusher' = [pusher EXCEPT !.step = "clamp", !.clamp = w - c]
      BY <1>3, <2>1, ClampPrepared
    <3> QED BY <3>1, <3>2 DEF LossyInv, LossyTypes
  <2>2. CASE ~(Distance(lossyWrite, lossyRead) > Capacity)
    BY <2>2 DEF LossyPushCheck, LossyInv, LossyTypes
  <2> QED BY <2>1, <2>2
<1>6. behind = FALSE => w <= r + c
  <2>1. behind = FALSE => pusher.write + pusher.left <= lossyRead + Capacity
    BY DEF HistoryInv, KeepsUp
  <2> QED BY <1>1, <1>3, <2>1
<1>7. behind = FALSE => /\ pusher'.write + pusher'.left <= lossyRead + Capacity
                        /\ pusher'.step # "clamp"
  <2> SUFFICES ASSUME behind = FALSE
               PROVE  /\ pusher'.write + pusher'.left <= lossyRead + Capacity
                      /\ pusher'.step # "clamp"
    OBVIOUS
  <2>1. crossed = FALSE
    BY DEF HistoryInv, NeverCrosses
  <2> QED BY <1>1, <1>3, <1>4, <1>5, <1>6, <2>1
<1>8. overlapped = FALSE => /\ popper.step = "idle" /\ undone' = FALSE
                            /\ pusher'.step = "clamp" => lossyRead <= pusher'.clamp
  <2>1. overlapped = FALSE => popper.step = "idle" /\ undone = FALSE
    BY <1>1 DEF HistoryInv, TakesTurns
  <2>2. undone = FALSE => undone' = FALSE
    BY DEF LossyPushCheck
  <2>3. crossed = FALSE => (pusher'.step = "clamp" => lossyRead <= pusher'.clamp)
    BY <1>3, <1>5
  <2>4. overlapped = FALSE => crossed = FALSE
    BY DEF HistoryInv, NeverCrosses
  <2> QED BY <2>1, <2>2, <2>3, <2>4
<1>9. KeepsUp' /\ TakesTurns' /\ NeverCrosses'
  BY <1>1, <1>2, <1>5, <1>7, <1>8, SameHistory
<1>10. SlotsFilled' /\ HistoryTypes'
  BY <1>1, <1>4 DEF HistoryInv, SlotsFilled, HistoryTypes
<1> QED BY <1>1, <1>4, <1>9, <1>10 DEF HistoryInv, PusherAtRest

LEMMA PushClampHistory ==
  ASSUME HistoryInv, LossyInv, LossyPushClamp
  PROVE  HistoryInv'
<1>1. /\ pusher.step = "clamp" /\ pusher.write = lossyWrite /\ pusher.left = 0
      /\ lossyRead' = pusher.clamp /\ undone' = FALSE
      /\ crossed' = (crossed /\ popper.step = "copy")
      /\ UNCHANGED <<lossyBuf, lossyWrite, popper, popped, behind, overlapped>>
  BY DEF LossyPushClamp, HistoryInv, PusherAtRest
<1>2. pusher'.step = "idle" /\ pusher'.write = pusher.write /\ pusher'.left = pusher.left
  BY DEF LossyPushClamp, LossyInv, LossyTypes
<1>3. KeepsUp'
  BY <1>1 DEF HistoryInv, KeepsUp
<1>4. TakesTurns'
  <2> SUFFICES ASSUME overlapped = FALSE PROVE TakesTurns'
    BY <1>1 DEF TakesTurns
  <2>1. popper.step = "idle" /\ lossyRead <= pusher.clamp
    BY <1>1 DEF HistoryInv, TakesTurns
  <2>2. Place = lossyRead /\ Place' = pusher.clamp
    BY <1>1, <2>1 DEF Place
  <2>3. lossyRead \in Int /\ pusher.clamp \in Int /\ popped \in Seq(Int)
    BY LossyNumbers DEF LossyInv, LossyTypes, Unwrapped, HistoryInv, HistoryTypes
  <2>4. ASSUME NEW i \in 1..Len(popped) PROVE popped[i] <= Place'
    <3>1. popped[i] <= lossyRead /\ popped[i] \in Int
      BY <2>2, <2>3 DEF HistoryInv, TakesTurns
    <3> QED BY <2>1, <2>2, <2>3, <3>1
  <2>5. \A i \in 1..Len(popped), j \in 1..Len(popped) : i < j => popped[i] < popped[j]
    BY DEF HistoryInv, TakesTurns
  <2> QED BY <1>1, <1>2, <2>1, <2>4, <2>5 DEF TakesTurns
<1>5. SlotsFilled' /\ HistoryTypes'
  BY <1>1, <1>2 DEF HistoryInv, SlotsFilled, HistoryTypes
<1>6. NeverCrosses'
  <2>1. behind = FALSE => FALSE
    BY <1>1 DEF HistoryInv, KeepsUp
  <2>2. overlapped = FALSE => crossed = FALSE /\ popper.step = "idle"
    BY <1>1 DEF HistoryInv, TakesTurns, NeverCrosses
  <2> QED BY <1>1, <2>1, <2>2 DEF NeverCrosses
<1> QED BY <1>1, <1>2, <1>3, <1>4, <1>5, <1>6 DEF HistoryInv, PusherAtRest

LEMMA PopBeginHistory ==
  ASSUME HistoryInv, LossyInv, LossyPopBegin
  PROVE  HistoryInv'
<1>1. /\ popper.step = "idle"
      /\ UNCHANGED <<lossyBuf, lossyWrite, lossyRead, pusher, popped, behind, undone, crossed>>
      /\ overlapped' = (overlapped \/ pusher.step # "idle")
  BY DEF LossyPopBegin
<1>2. popper'.step = "loaded" /\ popper'.write = lossyWrite
  BY DEF LossyPopBegin, LossyInv, LossyTypes
<1>3. Place' = Place
  BY <1>1, <1>2 DEF Place
<1>4. overlapped' \in BOOLEAN /\ (overlapped' = FALSE => overlapped = FALSE /\ pusher.step = "idle")
  <2>1. overlapped \in BOOLEAN
    BY DEF HistoryInv, HistoryTypes
  <2> QED BY <1>1, <2>1
<1>5. KeepsUp'
  BY <1>1, <1>2, <1>3 DEF HistoryInv, KeepsUp
<1>6. TakesTurns'
  BY <1>1, <1>2, <1>3, <1>4 DEF HistoryInv, TakesTurns
<1>7. SlotsFilled' /\ HistoryTypes' /\ PusherAtRest'
  BY <1>1, <1>4 DEF HistoryInv, SlotsFilled, HistoryTypes, PusherAtRest
<1>8. NeverCrosses'
  <2> SUFFICES ASSUME behind = FALSE \/ overlapped = FALSE
               PROVE  crossed = FALSE /\ lossyRead <= lossyWrite
    BY <1>1, <1>2, <1>4 DEF NeverCrosses
  <2>1. crossed = FALSE
    BY DEF HistoryInv, NeverCrosses
  <2> QED BY <2>1, UncrossedNumbers
<1> QED BY <1>5, <1>6, <1>7, <1>8 DEF HistoryInv

LEMMA PopCountHistory ==
  ASSUME HistoryInv, LossyInv, NEW n \in 1..MaxBlock, LossyPopCount(n)
  PROVE  HistoryInv'
<1>1. /\ popper.step = "loaded"
      /\ UNCHANGED <<lossyBuf, lossyWrite, lossyRead, pusher, popped, behind, overlapped, undone>>
      /\ crossed' = (crossed \/ popper.write < lossyRead)
  BY DEF LossyPopCount
<1>2. popper'.step = "copy" /\ popper'.read = lossyRead /\ popper'.from = lossyRead
  BY DEF LossyPopCount, LossyInv, LossyTypes
<1>3. Place' = Place
  BY <1>1, <1>2 DEF Place
<1>4. KeepsUp'
  BY <1>1, <1>2, <1>3 DEF HistoryInv, KeepsUp
<1>5. TakesTurns'
  BY <1>1, <1>2, <1>3 DEF HistoryInv, TakesTurns
<1>6. NeverCrosses'
  <2> SUFFICES ASSUME behind = FALSE \/ overlapped = FALSE PROVE crossed' = FALSE
    BY <1>1, <1>2 DEF NeverCrosses
  <2>1. crossed = FALSE /\ lossyRead <= popper.write
    BY <1>1 DEF HistoryInv, NeverCrosses
  <2>2. ~(popper.write < lossyRead)
    BY <2>1, LossyNumbers
  <2> QED BY <1>1, <2>1, <2>2
<1>7. SlotsFilled' /\ HistoryTypes' /\ PusherAtRest'
  BY <1>1 DEF HistoryInv, SlotsFilled, HistoryTypes, PusherAtRest
<1> QED BY <1>4, <1>5, <1>6, <1>7 DEF HistoryInv

\* A pop that no push runs into reads the sample its cursor stands for.
LEMMA PoppedSample ==
  ASSUME HistoryInv, LossyInv, popper.step = "copy", popper.left > 0,
         behind = FALSE \/ overlapped = FALSE,
         NEW v \in Readable(Slot(popper.read))
  PROVE  v = popper.read + 1
<1>1. PICK p \in Nat, w \in Nat, r \in Nat, f \in Nat, c \in Nat, left \in Nat, room \in Nat :
        /\ p = popper.read /\ w = pusher.write /\ r = lossyRead /\ f = popper.from
        /\ c = Capacity /\ left = popper.left /\ room = pusher.left
  BY LossyNumbers
<1>2. f = r
  BY <1>1 DEF HistoryInv, KeepsUp, TakesTurns
<1>9. crossed = FALSE
  BY DEF HistoryInv, NeverCrosses
<1>3. f <= p /\ p + left <= lossyWrite /\ lossyWrite <= w
  <2>1. lossyWrite \in Nat
    BY LossyNumbers
  <2>2. f <= p /\ p + left <= lossyWrite
    BY <1>1, <1>9 DEF LossyInv, Uncrossed
  <2> QED BY <1>1, <2>1, <2>2 DEF LossyInv, LossyOrder, HistoryInv, PusherAtRest
<1>4. p < w /\ 0 < left
  BY <1>1, <1>3, LossyNumbers
<1>5. w + room <= r + c
  <2>1. CASE behind = FALSE
    BY <1>1, <2>1 DEF HistoryInv, KeepsUp
  <2>2. CASE overlapped = FALSE
    <3>1. pusher.step = "idle" /\ undone = FALSE
      BY <2>2 DEF HistoryInv, TakesTurns
    <3>2. lossyWrite - lossyRead <= Capacity
      BY <1>9, <3>1 DEF LossyInv, LagIsBounded
    <3>3. w = lossyWrite /\ room = 0
      BY <1>1, <3>1 DEF HistoryInv, PusherAtRest
    <3> QED BY <1>1, <3>2, <3>3
  <2> QED BY <2>1, <2>2
<1>6. lossyBuf[Slot(p)] = p + 1
  <2>1. w - p <= c
    BY <1>2, <1>3, <1>5
  <2> QED BY <1>1, <1>4, <2>1 DEF HistoryInv, SlotsFilled
<1>7. ~(pusher.step = "copy" /\ pusher.left > 0 /\ Slot(pusher.write) = Slot(popper.read))
  <2> SUFFICES ASSUME pusher.step = "copy", room > 0 PROVE Slot(w) # Slot(p)
    BY <1>1
  <2>1. w \in Unwrapped /\ p \in Unwrapped
    BY <1>1, <1>4, LossyNumbers DEF Unwrapped
  <2>2. w - p < c
    BY <1>2, <1>3, <1>5
  <2> QED BY <1>1, <1>4, <2>1, <2>2, UnwrappedSlots
<1>8. v = lossyBuf[Slot(popper.read)]
  BY <1>7 DEF Readable
<1> QED BY <1>1, <1>6, <1>8

LEMMA PopSampleHistory ==
  ASSUME HistoryInv, LossyInv, LossyPopSample
  PROVE  HistoryInv'
<1>1. /\ popper.step = "copy" /\ popper.left > 0
      /\ UNCHANGED <<lossyBuf, lossyWrite, lossyRead, pusher, behind, overlapped, undone, crossed>>
  BY DEF LossyPopSample
<1>2. PICK v \in Readable(Slot(popper.read)) : popped' = Append(popped, v)
  BY DEF LossyPopSample
<1>3. PICK p \in Nat : p = popper.read /\ p \in Cursor
  BY LossyNumbers DEF LossyInv, LossyTypes
<1>4. popper'.step = "copy" /\ popper'.read = Succ(p) /\ popper'.from = popper.from
  BY <1>1, <1>3 DEF LossyPopSample, LossyInv, LossyTypes
<1>5. Place = p /\ (behind = FALSE \/ overlapped = FALSE => Place' = p + 1)
  <2>1. ASSUME behind = FALSE \/ overlapped = FALSE PROVE Succ(p) = p + 1
    <3>1. crossed = FALSE
      BY <2>1 DEF HistoryInv, NeverCrosses
    <3>2. popper.read + popper.left <= lossyWrite
      BY <1>1, <3>1 DEF LossyInv, Uncrossed
    <3>3. p < MaxPushed
      BY <1>1, <1>3, <3>2, LossyNumbers
    <3>4. p \in Unwrapped
      BY <3>3, LossyNumbers DEF Unwrapped
    <3> QED BY <3>3, <3>4, UnwrappedSucc
  <2> QED BY <1>1, <1>3, <1>4, <2>1 DEF Place
<1>6. v \in Int
  <2>1. lossyBuf[Slot(popper.read)] \in Int
    BY <1>3, SlotType DEF HistoryInv, HistoryTypes
  <2> QED BY <2>1 DEF Readable, Torn
<1>7. popped \in Seq(Int) /\ Len(popped) \in Nat
  BY DEF HistoryInv, HistoryTypes
<1>8. /\ popped' \in Seq(Int) /\ Len(popped') = Len(popped) + 1
      /\ \A i \in 1..Len(popped) : popped'[i] = popped[i]
      /\ popped'[Len(popped) + 1] = v
  BY <1>2, <1>6, <1>7, AppendProperties
<1>9. KeepsUp'
  <2> SUFFICES ASSUME behind = FALSE PROVE KeepsUp'
    BY <1>1 DEF KeepsUp
  <2>1. v = p + 1
    BY <1>1, <1>3, PoppedSample
  <2>2. Len(popped) = p /\ \A i \in 1..Len(popped) : popped[i] = i
    BY <1>5 DEF HistoryInv, KeepsUp
  <2>3. ASSUME NEW i \in 1..Len(popped') PROVE popped'[i] = i
    BY <1>8, <2>1, <2>2
  <2>4. Len(popped') = Place'
    BY <1>5, <1>8, <2>2
  <2> QED BY <1>1, <1>4, <2>3, <2>4 DEF HistoryInv, KeepsUp
<1>10. TakesTurns'
  <2> SUFFICES ASSUME overlapped = FALSE PROVE TakesTurns'
    BY <1>1 DEF TakesTurns
  <2>1. v = p + 1
    BY <1>1, <1>3, PoppedSample
  <2>2. /\ \A i \in 1..Len(popped) : popped[i] <= p
        /\ \A i \in 1..Len(popped), j \in 1..Len(popped) : i < j => popped[i] < popped[j]
    BY <1>5 DEF HistoryInv, TakesTurns
  <2>3. \A i \in 1..Len(popped) : popped[i] \in Int
    BY <1>7
  <2>4. ASSUME NEW i \in 1..Len(popped') PROVE popped'[i] <= Place'
    <3>1. Place' = p + 1
      BY <1>5
    <3>2. CASE i \in 1..Len(popped)
      BY <1>8, <2>2, <2>3, <3>1, <3>2
    <3>3. CASE i = Len(popped) + 1
      BY <1>8, <2>1, <3>1, <3>3
    <3> QED BY <1>7, <1>8, <3>2, <3>3
  <2>5. ASSUME NEW i \in 1..Len(popped'), NEW j \in 1..Len(popped'), i < j PROVE popped'[i] < popped'[j]
    <3>1. i \in 1..Len(popped)
      BY <1>7, <1>8, <2>5
    <3>2. CASE j \in 1..Len(popped)
      BY <1>8, <2>2, <2>5, <3>1, <3>2
    <3>3. CASE j = Len(popped) + 1
      BY <1>8, <2>1, <2>2, <2>3, <3>1, <3>3
    <3> QED BY <1>7, <1>8, <3>2, <3>3
  <2> QED BY <1>1, <1>4, <2>4, <2>5 DEF HistoryInv, TakesTurns
<1>11. SlotsFilled' /\ HistoryTypes' /\ PusherAtRest'
  BY <1>1, <1>8 DEF HistoryInv, SlotsFilled, HistoryTypes, PusherAtRest
<1>12. NeverCrosses'
  BY <1>1, <1>4 DEF HistoryInv, NeverCrosses
<1> QED BY <1>9, <1>10, <1>11, <1>12 DEF HistoryInv

LEMMA PopPublishHistory ==
  ASSUME HistoryInv, LossyInv, LossyPopPublish
  PROVE  HistoryInv'
<1>1. /\ popper.step = "copy" /\ lossyRead' = popper.read
      /\ undone' = (undone \/ lossyRead # popper.from)
      /\ UNCHANGED <<lossyBuf, lossyWrite, pusher, popped, behind, overlapped, crossed>>
  BY DEF LossyPopPublish
<1>2. popper'.step = "idle"
  BY DEF LossyPopPublish, LossyInv, LossyTypes
<1>3. Place' = Place
  BY <1>1, <1>2 DEF Place
<1>4. KeepsUp'
  <2> SUFFICES ASSUME behind = FALSE PROVE KeepsUp'
    BY <1>1 DEF KeepsUp
  <2>1. PICK p \in Nat, w \in Nat, r \in Nat, f \in Nat, c \in Nat, room \in Nat :
          /\ p = popper.read /\ w = pusher.write /\ r = lossyRead /\ f = popper.from
          /\ c = Capacity /\ room = pusher.left
    BY LossyNumbers
  <2>2. f = r /\ w + room <= r + c
    BY <1>1, <2>1 DEF HistoryInv, KeepsUp
  <2>3. f <= p
    <3>1. crossed = FALSE
      BY DEF HistoryInv, NeverCrosses
    <3> QED BY <1>1, <2>1, <3>1 DEF LossyInv, Uncrossed
  <2>4. w + room <= p + c
    BY <2>2, <2>3
  <2> QED BY <1>1, <1>2, <1>3, <2>1, <2>4 DEF HistoryInv, KeepsUp
<1>5. TakesTurns'
  <2> SUFFICES ASSUME overlapped = FALSE PROVE TakesTurns'
    BY <1>1 DEF TakesTurns
  <2>1. undone = FALSE /\ popper.from = lossyRead /\ pusher.step = "idle"
    BY <1>1 DEF HistoryInv, TakesTurns
  <2>2. undone' = FALSE
    BY <1>1, <2>1
  <2> QED BY <1>1, <1>2, <1>3, <2>1, <2>2 DEF HistoryInv, TakesTurns
<1>6. SlotsFilled' /\ HistoryTypes' /\ PusherAtRest'
  BY <1>1 DEF HistoryInv, SlotsFilled, HistoryTypes, PusherAtRest
<1>7. NeverCrosses'
  BY <1>1, <1>2 DEF HistoryInv, NeverCrosses
<1> QED BY <1>4, <1>5, <1>6, <1>7 DEF HistoryInv

(* For every capacity and number of samples and every interleaving: a       *)
(* consumer that keeps up gets every sample once and in order, and one that *)
(* takes turns with the producer gets what it gets in order, also after it  *)
(* has fallen behind.                                                       *)
THEOREM PopsInOrderHolds == LossySpec => []PopsInOrder
<1>1. HistoryInv /\ LossyInv /\ [LossyNext]_lossyVars => HistoryInv' /\ LossyInv'
  <2> SUFFICES ASSUME HistoryInv, LossyInv, [LossyNext]_lossyVars PROVE HistoryInv'
    BY LossyStep
  <2>1. CASE UNCHANGED lossyVars
    <3>1. Place' = Place
      BY <2>1 DEF lossyVars, Place
    <3> QED BY <2>1, <3>1 DEF lossyVars, HistoryInv, HistoryTypes, PusherAtRest, SlotsFilled, KeepsUp,
                              TakesTurns, NeverCrosses
  <2>2. CASE LossyNext
    <3>1. CASE \E n \in 1..MaxBlock : LossyPushBegin(n) \/ LossyPopCount(n)
      BY <3>1, PushBeginHistory, PopCountHistory
    <3>2. CASE LossyPushSample \/ LossyPushPublish \/ LossyPushCheck \/ LossyPushClamp
      BY <3>2, PushSampleHistory, PushPublishHistory, PushCheckHistory, PushClampHistory
    <3>3. CASE LossyPopBegin \/ LossyPopSample \/ LossyPopPublish
      BY <3>3, PopBeginHistory, PopSampleHistory, PopPublishHistory
    <3> QED BY <2>2, <3>1, <3>2, <3>3 DEF LossyNext
  <2> QED BY <2>1, <2>2
<1>2. HistoryInv => PopsInOrder
  <2> SUFFICES ASSUME HistoryInv PROVE PopsInOrder
    OBVIOUS
  <2>1. behind \in BOOLEAN /\ overlapped \in BOOLEAN /\ popped \in Seq(Int) /\ Len(popped) \in Nat
    BY DEF HistoryInv, HistoryTypes
  <2>2. ASSUME behind = FALSE PROVE popped = [i \in 1..Len(popped) |-> i]
    <3>1. \A i \in 1..Len(popped) : popped[i] = i
      BY <2>2 DEF HistoryInv, KeepsUp
    <3> QED BY <2>1, <3>1
  <2>3. ASSUME overlapped = FALSE, NEW i \in 1..(Len(popped) - 1) PROVE popped[i] < popped[i + 1]
    <3>1. i \in 1..Len(popped) /\ i + 1 \in 1..Len(popped) /\ i < i + 1
      BY <2>1
    <3> QED BY <2>3, <3>1 DEF HistoryInv, TakesTurns
  <2> QED BY <2>1, <2>2, <2>3 DEF PopsInOrder
<1> QED BY <1>1, <1>2, InitHistoryInv, InitLossyInv, PTL DEF LossySpec
=============================================================================
