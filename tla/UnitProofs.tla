----------------------------- MODULE UnitProofs -----------------------------
(***************************************************************************)
(* Theorems about units that share no state with the rest of the running    *)
(* system: what a P25 receiver's caller is told (P25Decoder), which         *)
(* frequencies a pool of sensors sweeps (SweepPlan), how the groups and the *)
(* baseline of the MASINT analyses come about (Masint), which pulses the    *)
(* detector describes (PulseTrain), which signals the survey finds in a     *)
(* spectrum (Cfar) and what the waterfall shows (Occupancy); each for all   *)
(* the inputs that its module assumes.                                      *)
(***************************************************************************)
EXTENDS P25Decoder, SweepPlan, Masint, PulseTrain, Cfar, Occupancy,
        DataLemmas, SequenceTheorems

----------------------------------------------------------------------------
(* P25: the metadata of a call *)

Metadata(talkgroup, unit, encrypted, algorithm) ==
  [talkgroup |-> talkgroup, sourceUnit |-> unit, encrypted |-> encrypted, algorithm |-> algorithm]

\* The fields of a metadata record, whatever their values are.
WellFormed(m) == m = Metadata(m.talkgroup, m.sourceUnit, m.encrypted, m.algorithm)

\* What has been received of the call is in the decoder's metadata.
Follows ==
  heard # {} =>
    /\ metadata.encrypted = Encrypted
    /\ "talkgroup" \in heard => metadata.talkgroup = onAir.talkgroup
    /\ "source" \in heard => metadata.sourceUnit = onAir.unit
    /\ "crypto" \in heard => metadata.algorithm = onAir.algorithm

\* Unless they are flagged as updated, the caller has them.
CallerIsCurrent == metadataUpdated = FALSE => told = metadata

P25Inv == WellFormed(metadata) /\ Follows /\ CallerIsCurrent
----------------------------------------------------------------------------

LEMMA InitP25Inv ==
  ASSUME heard = {}, metadata = DefaultMetadata, told = DefaultMetadata
  PROVE  P25Inv
BY DEF P25Inv, WellFormed, Metadata, Follows, CallerIsCurrent, DefaultMetadata

\* Writing a field keeps the others.
LEMMA WriteTalkgroup ==
  ASSUME NEW r, NEW t, NEW u, NEW x, NEW y, r = Metadata(t, u, x, y), NEW v
  PROVE  [r EXCEPT !.talkgroup = v] = Metadata(v, u, x, y)
BY DEF Metadata

LEMMA WriteEncrypted ==
  ASSUME NEW r, NEW t, NEW u, NEW x, NEW y, r = Metadata(t, u, x, y), NEW v
  PROVE  [r EXCEPT !.encrypted = v] = Metadata(t, u, v, y)
BY DEF Metadata

LEMMA WriteAlgorithm ==
  ASSUME NEW r, NEW t, NEW u, NEW x, NEW y, r = Metadata(t, u, x, y), NEW v
  PROVE  [r EXCEPT !.algorithm = v] = Metadata(t, u, x, v)
BY DEF Metadata

\* A handler that writes the metadata and flags them.
LEMMA UpdateStep ==
  ASSUME NEW m, NEW parts, Update(m, parts), WellFormed(m),
         heard \cup parts # {} =>
           /\ m.encrypted = Encrypted
           /\ "talkgroup" \in heard \cup parts => m.talkgroup = onAir.talkgroup
           /\ "source" \in heard \cup parts => m.sourceUnit = onAir.unit
           /\ "crypto" \in heard \cup parts => m.algorithm = onAir.algorithm
  PROVE  P25Inv'
<1>1. /\ metadata' = m /\ metadataUpdated' = TRUE
      /\ heard' = heard \cup parts /\ onAir' = onAir
  BY DEF Update
<1>2. WellFormed(metadata)'
  BY <1>1 DEF WellFormed, Metadata
<1>3. Follows'
  BY <1>1 DEF Follows, Encrypted
<1>4. CallerIsCurrent'
  BY <1>1 DEF CallerIsCurrent
<1> QED BY <1>2, <1>3, <1>4 DEF P25Inv

\* Handlers that write no metadata.
LEMMA SameMetadataStep ==
  ASSUME P25Inv, Update(metadata, {})
  PROVE  P25Inv'
BY UpdateStep DEF P25Inv, Follows

LEMMA VoiceHeaderStep ==
  ASSUME P25Inv, VoiceHeader
  PROVE  P25Inv'
<1> DEFINE m == [metadata EXCEPT !.talkgroup = onAir.talkgroup, !.encrypted = Encrypted,
                                 !.algorithm = onAir.algorithm]
           parts == IF onAir.group THEN {"talkgroup", "crypto"} ELSE {"crypto"}
<1>1. Update(m, parts)
  BY DEF VoiceHeader
<1>2. m = Metadata(onAir.talkgroup, metadata.sourceUnit, Encrypted, onAir.algorithm)
  <2> DEFINE m1 == [metadata EXCEPT !.talkgroup = onAir.talkgroup]
             m2 == [m1 EXCEPT !.encrypted = Encrypted]
             m3 == [m2 EXCEPT !.algorithm = onAir.algorithm]
  <2>1. m1 = Metadata(onAir.talkgroup, metadata.sourceUnit, metadata.encrypted, metadata.algorithm)
    BY WriteTalkgroup DEF P25Inv, WellFormed
  <2>2. m = m3
    OBVIOUS
  <2> HIDE DEF m, m1, m2, m3
  <2>3. m2 = Metadata(onAir.talkgroup, metadata.sourceUnit, Encrypted, metadata.algorithm)
    BY <2>1, WriteEncrypted DEF m2
  <2>4. m3 = Metadata(onAir.talkgroup, metadata.sourceUnit, Encrypted, onAir.algorithm)
    BY <2>3, WriteAlgorithm DEF m3
  <2> QED BY <2>2, <2>4
<1>3. /\ WellFormed(m) /\ m.encrypted = Encrypted /\ m.talkgroup = onAir.talkgroup
      /\ m.sourceUnit = metadata.sourceUnit /\ m.algorithm = onAir.algorithm
  BY <1>2 DEF WellFormed, Metadata
<1>4. "source" \in heard \cup parts => m.sourceUnit = onAir.unit
  BY <1>3 DEF P25Inv, Follows
<1> HIDE DEF m, parts
<1> QED BY <1>1, <1>3, <1>4, UpdateStep

LEMMA LinkControlStep ==
  ASSUME P25Inv, LinkControl
  PROVE  P25Inv'
<1> DEFINE m == WithLinkControl
           parts == IF onAir.group THEN {"talkgroup", "source"} ELSE {"source"}
<1>1. Update(m, parts)
  BY DEF LinkControl
<1>2. m = Metadata(IF onAir.group THEN onAir.talkgroup ELSE metadata.talkgroup,
                   onAir.unit, Encrypted, metadata.algorithm)
  BY DEF P25Inv, WellFormed, Metadata, WithLinkControl
<1>3. /\ WellFormed(m) /\ m.encrypted = Encrypted /\ m.sourceUnit = onAir.unit
      /\ m.talkgroup = IF onAir.group THEN onAir.talkgroup ELSE metadata.talkgroup
      /\ m.algorithm = metadata.algorithm
  BY <1>2 DEF WellFormed, Metadata
<1>4. "talkgroup" \in heard \cup parts => m.talkgroup = onAir.talkgroup
  BY <1>3 DEF P25Inv, Follows
<1>5. "crypto" \in heard \cup parts => m.algorithm = onAir.algorithm
  BY <1>3 DEF P25Inv, Follows
<1> HIDE DEF m, parts
<1> QED BY <1>1, <1>3, <1>4, <1>5, UpdateStep

LEMMA CryptoControlStep ==
  ASSUME P25Inv, CryptoControl
  PROVE  P25Inv'
<1> DEFINE m == [metadata EXCEPT !.encrypted = Encrypted, !.algorithm = onAir.algorithm]
<1>1. Update(m, {"crypto"})
  BY DEF CryptoControl
<1>2. m = Metadata(metadata.talkgroup, metadata.sourceUnit, Encrypted, onAir.algorithm)
  <2> DEFINE m1 == [metadata EXCEPT !.encrypted = Encrypted]
             m2 == [m1 EXCEPT !.algorithm = onAir.algorithm]
  <2>1. m1 = Metadata(metadata.talkgroup, metadata.sourceUnit, Encrypted, metadata.algorithm)
    BY WriteEncrypted DEF P25Inv, WellFormed
  <2>2. m = m2
    OBVIOUS
  <2> HIDE DEF m, m1, m2
  <2>3. m2 = Metadata(metadata.talkgroup, metadata.sourceUnit, Encrypted, onAir.algorithm)
    BY <2>1, WriteAlgorithm DEF m2
  <2> QED BY <2>2, <2>3
<1>3. /\ WellFormed(m) /\ m.encrypted = Encrypted /\ m.talkgroup = metadata.talkgroup
      /\ m.sourceUnit = metadata.sourceUnit /\ m.algorithm = onAir.algorithm
  BY <1>2 DEF WellFormed, Metadata
<1>4. /\ "talkgroup" \in heard \cup {"crypto"} => m.talkgroup = onAir.talkgroup
      /\ "source" \in heard \cup {"crypto"} => m.sourceUnit = onAir.unit
  BY <1>3 DEF P25Inv, Follows
<1> HIDE DEF m
<1> QED BY <1>1, <1>3, <1>4, UpdateStep

LEMMA TakeMetadataStep ==
  ASSUME P25Inv, TakeMetadata
  PROVE  P25Inv'
BY DEF P25Inv, WellFormed, Metadata, Follows, CallerIsCurrent, Encrypted, TakeMetadata

\* Everything that leaves the metadata, what was heard and what was told alone,
\* or forgets what was heard.
LEMMA OtherStep ==
  ASSUME P25Inv, UNCHANGED <<metadata, metadataUpdated, told>>,
         heard' = {} \/ UNCHANGED <<heard, onAir>>
  PROVE  P25Inv'
BY DEF P25Inv, WellFormed, Metadata, Follows, CallerIsCurrent, Encrypted

LEMMA ResetStep ==
  ASSUME ResetDecoder
  PROVE  P25Inv'
BY DEF P25Inv, WellFormed, Metadata, Follows, CallerIsCurrent, DefaultMetadata, ResetDecoder

----------------------------------------------------------------------------

(* However many data units of however many calls are missed, and whenever   *)
(* the caller asks: what was received of the call on the air is what it is  *)
(* told, and nothing left over from an earlier call stands in its place.    *)
THEOREM MetadataFollowsCallHolds == P25Spec => []MetadataFollowsCall
<1>1. P25Init => P25Inv
  BY InitP25Inv DEF P25Init
<1>2. P25Inv /\ [P25Next]_p25Vars => P25Inv'
  <2> SUFFICES ASSUME P25Inv, [P25Next]_p25Vars PROVE P25Inv'
    OBVIOUS
  <2>1. CASE \E c \in Calls : CallBegins(c)
    BY <2>1, OtherStep DEF CallBegins
  <2>2. CASE CallEnds
    BY <2>2, OtherStep DEF CallEnds
  <2>3. CASE PacketNid \/ VoiceTerm \/ \E b \in OnAirBlocks : TrunkingControl(b)
    BY <2>3, SameMetadataStep DEF PacketNid, VoiceTerm, TrunkingControl
  <2>4. CASE TakeTsbkEvents
    BY <2>4, OtherStep DEF TakeTsbkEvents
  <2>5. CASE UNCHANGED p25Vars
    BY <2>5, OtherStep DEF p25Vars
  <2> QED
    BY <2>1, <2>2, <2>3, <2>4, <2>5, VoiceHeaderStep, LinkControlStep, CryptoControlStep,
       TakeMetadataStep, ResetStep DEF P25Next
<1>3. P25Inv => MetadataFollowsCall
  BY DEF P25Inv, Follows, CallerIsCurrent, MetadataFollowsCall, Known
<1> QED BY <1>1, <1>2, <1>3, PTL DEF P25Spec

----------------------------------------------------------------------------
(* The queue of trunking blocks *)

Payloads == {Payload(b) : b \in OnAirBlocks}

\* What stands in the queue, and what the caller has, for each block received.
QueueFollows ==
  /\ blocks \in Seq(OnAirBlocks)
  /\ taken \in Seq(Payloads) /\ tsbkEvents \in Seq(Payloads)
  /\ Len(taken) + Len(tsbkEvents) = Len(blocks)
  /\ \A i \in 1..Len(taken) : taken[i] = Payload(blocks[i])
  /\ \A i \in 1..Len(tsbkEvents) : tsbkEvents[i] = Payload(blocks[Len(taken) + i])

LEMMA EmptyQueue ==
  ASSUME blocks = <<>>, taken = <<>>, tsbkEvents = <<>>
  PROVE  QueueFollows
BY DEF QueueFollows

LEMMA QueueStays ==
  ASSUME QueueFollows, UNCHANGED <<blocks, taken, tsbkEvents>>
  PROVE  QueueFollows'
BY DEF QueueFollows

LEMMA BlockStep ==
  ASSUME QueueFollows, NEW b \in OnAirBlocks, TrunkingControl(b)
  PROVE  QueueFollows'
<1>1. taken' = taken /\ (b.mfg => tsbkEvents' = tsbkEvents /\ blocks' = blocks)
      /\ (~b.mfg => tsbkEvents' = Append(tsbkEvents, Payload(b)) /\ blocks' = Append(blocks, b))
  BY DEF TrunkingControl, Update, ParseTsbk
<1>2. CASE b.mfg
  BY <1>1, <1>2, QueueStays
<1>3. CASE ~b.mfg
  <2>1. /\ blocks \in Seq(OnAirBlocks) /\ taken \in Seq(Payloads) /\ tsbkEvents \in Seq(Payloads)
    BY DEF QueueFollows
  <2>2. /\ blocks' \in Seq(OnAirBlocks) /\ Len(blocks') = Len(blocks) + 1
        /\ \A i \in 1..Len(blocks) : blocks'[i] = blocks[i]
        /\ blocks'[Len(blocks) + 1] = b
    <3>1. blocks' = Append(blocks, b)
      BY <1>1, <1>3
    <3> QED BY <2>1, <3>1
  <2>3. /\ tsbkEvents' \in Seq(Payloads) /\ Len(tsbkEvents') = Len(tsbkEvents) + 1
        /\ \A i \in 1..Len(tsbkEvents) : tsbkEvents'[i] = tsbkEvents[i]
        /\ tsbkEvents'[Len(tsbkEvents) + 1] = Payload(b)
    <3>1. PICK e \in Payloads : e = Payload(b)
      BY DEF Payloads
    <3>2. tsbkEvents' = Append(tsbkEvents, e)
      BY <1>1, <1>3, <3>1
    <3> QED BY <2>1, <3>1, <3>2
  <2>4. /\ Len(taken) \in Nat /\ Len(tsbkEvents) \in Nat /\ Len(blocks) \in Nat
        /\ Len(taken) + Len(tsbkEvents) = Len(blocks)
    BY <2>1 DEF QueueFollows
  <2>5. ASSUME NEW i \in 1..Len(taken) PROVE taken[i] = Payload(blocks'[i])
    BY <2>2, <2>4 DEF QueueFollows
  <2>6. ASSUME NEW i \in 1..Len(tsbkEvents') PROVE tsbkEvents'[i] = Payload(blocks'[Len(taken) + i])
    <3>1. CASE i = Len(tsbkEvents) + 1
      BY <2>2, <2>3, <2>4, <3>1
    <3>2. CASE i \in 1..Len(tsbkEvents)
      <4>1. tsbkEvents[i] = Payload(blocks[Len(taken) + i])
        BY <3>2 DEF QueueFollows
      <4>2. Len(taken) + i \in 1..Len(blocks)
        BY <2>4, <3>2
      <4> QED BY <2>2, <2>3, <3>2, <4>1, <4>2
    <3> QED BY <2>3, <2>4, <3>1, <3>2
  <2> QED BY <1>1, <2>1, <2>2, <2>3, <2>4, <2>5, <2>6 DEF QueueFollows
<1> QED BY <1>2, <1>3

LEMMA TakeBlocksStep ==
  ASSUME QueueFollows, TakeTsbkEvents
  PROVE  QueueFollows'
<1>1. taken' = taken \o tsbkEvents /\ tsbkEvents' = <<>> /\ blocks' = blocks
  BY DEF TakeTsbkEvents
<1>2. /\ blocks \in Seq(OnAirBlocks) /\ taken \in Seq(Payloads) /\ tsbkEvents \in Seq(Payloads)
      /\ Len(taken) \in Nat /\ Len(tsbkEvents) \in Nat /\ Len(blocks) \in Nat
      /\ Len(taken) + Len(tsbkEvents) = Len(blocks)
  BY DEF QueueFollows
<1>3. /\ taken' \in Seq(Payloads) /\ Len(taken') = Len(taken) + Len(tsbkEvents)
      /\ \A i \in 1..Len(taken) : taken'[i] = taken[i]
      /\ \A i \in 1..Len(tsbkEvents) : taken'[Len(taken) + i] = tsbkEvents[i]
  BY <1>1, <1>2
<1>4. tsbkEvents' \in Seq(Payloads) /\ Len(tsbkEvents') = 0
  BY <1>1
<1>5. ASSUME NEW i \in 1..Len(taken') PROVE taken'[i] = Payload(blocks[i])
  <2>1. CASE i \in 1..Len(taken)
    BY <1>3, <2>1 DEF QueueFollows
  <2>2. CASE i \notin 1..Len(taken)
    <3>1. PICK j \in 1..Len(tsbkEvents) : i = Len(taken) + j
      <4>1. i - Len(taken) \in 1..Len(tsbkEvents) /\ i = Len(taken) + (i - Len(taken))
        BY <1>2, <1>3, <2>2
      <4> QED BY <4>1
    <3> QED BY <1>3, <3>1 DEF QueueFollows
  <2> QED BY <2>1, <2>2
<1> QED BY <1>1, <1>2, <1>3, <1>4, <1>5 DEF QueueFollows

LEMMA OpcodeSurvives ==
  ASSUME NEW b, b.raw \in AssignedOpcodes
  PROVE  Payload(b).raw = b.raw
<1>1. b.raw # Reserved
  BY DEF AssignedOpcodes, Reserved
<1>2. ToRaw(FromBits(b.raw)) = b.raw
  BY <1>1 DEF ToRaw, FromBits
<1> QED BY <1>2 DEF Payload

(* Whenever the caller takes the queue: it gets each standard block once, in *)
(* order and with its opcode, unless that is a reserved one, and none of a   *)
(* manufacturer's own (against the comment in parse_tsbk, which would have   *)
(* those with a standard opcode processed).                                  *)
THEOREM TsbksArriveInOrderHolds == P25Spec => []TsbksArriveInOrder
<1>1. P25Init => QueueFollows
  BY EmptyQueue DEF P25Init
<1>2. QueueFollows /\ [P25Next]_p25Vars => QueueFollows'
  <2> SUFFICES ASSUME QueueFollows, [P25Next]_p25Vars PROVE QueueFollows'
    OBVIOUS
  <2>1. CASE UNCHANGED <<blocks, taken, tsbkEvents>>
    BY <2>1, QueueStays
  <2>2. CASE ResetDecoder
    <3>1. blocks' = <<>> /\ taken' = <<>> /\ tsbkEvents' = <<>>
      BY <2>2 DEF ResetDecoder
    <3> QED BY <3>1 DEF QueueFollows
  <2> QED BY <2>1, <2>2, BlockStep, TakeBlocksStep
          DEF P25Next, CallBegins, CallEnds, PacketNid, VoiceHeader, LinkControl, CryptoControl,
              VoiceTerm, TakeMetadata, Update, p25Vars
<1>3. QueueFollows => TsbksArriveInOrder
  <2> SUFFICES ASSUME QueueFollows PROVE TsbksArriveInOrder
    OBVIOUS
  <2> DEFINE out == taken \o tsbkEvents
  <2>1. /\ taken \in Seq(Payloads) /\ tsbkEvents \in Seq(Payloads)
        /\ Len(taken) \in Nat /\ Len(tsbkEvents) \in Nat
        /\ Len(taken) + Len(tsbkEvents) = Len(blocks)
    BY DEF QueueFollows
  <2>2. /\ Len(out) = Len(taken) + Len(tsbkEvents) /\ DOMAIN out = 1..(Len(taken) + Len(tsbkEvents))
        /\ \A i \in 1..Len(taken) : out[i] = taken[i]
        /\ \A i \in 1..Len(tsbkEvents) : out[Len(taken) + i] = tsbkEvents[i]
    BY <2>1
  <2> HIDE DEF out
  <2>3. ASSUME NEW i \in DOMAIN out PROVE out[i] = Payload(blocks[i])
    <3>1. CASE i \in 1..Len(taken)
      BY <2>2, <3>1 DEF QueueFollows
    <3>2. CASE i \notin 1..Len(taken)
      <4>1. PICK j \in 1..Len(tsbkEvents) : i = Len(taken) + j
        <5>1. i - Len(taken) \in 1..Len(tsbkEvents) /\ i = Len(taken) + (i - Len(taken))
          BY <2>1, <2>2, <3>2
        <5> QED BY <5>1
      <4> QED BY <2>2, <4>1 DEF QueueFollows
    <3> QED BY <3>1, <3>2
  <2>4. Len(out) = Len(blocks)
      /\ \A i \in DOMAIN out : blocks[i].raw \in AssignedOpcodes => out[i].raw = blocks[i].raw
    BY <2>1, <2>2, <2>3, OpcodeSurvives
  <2> QED BY <2>4 DEF TsbksArriveInOrder, out
<1> QED BY <1>1, <1>2, <1>3, PTL DEF P25Spec

----------------------------------------------------------------------------
(* Sets of numbers in ascending order *)

LEMMA BelowGrows ==
  ASSUME NEW S \in SUBSET Int, IsFiniteSet(S), NEW t \in S, NEW u \in S, t < u
  PROVE  Cardinality(Below(S, t)) < Cardinality(Below(S, u))
<1>1. Below(S, t) \subseteq Below(S, u) /\ t \in Below(S, u) /\ t \notin Below(S, t)
  <2>1. t \in Int /\ u \in Int /\ \A v \in S : v \in Int
    OBVIOUS
  <2>2. ASSUME NEW v \in S, v < t PROVE v < u
    BY <2>1, <2>2
  <2>3. ~(t < t)
    BY <2>1
  <2> QED BY <2>2, <2>3 DEF Below
<1>2. IsFiniteSet(Below(S, u))
  BY FS_Subset DEF Below
<1>3. IsFiniteSet(Below(S, t)) /\ Cardinality(Below(S, t)) <= Cardinality(Below(S, u))
      /\ Cardinality(Below(S, t)) # Cardinality(Below(S, u))
  BY <1>1, <1>2, FS_Subset
<1>4. Cardinality(Below(S, t)) \in Nat /\ Cardinality(Below(S, u)) \in Nat
  BY <1>2, <1>3, FS_CardinalityType
<1> QED BY <1>3, <1>4

\* The ranks of the members are all different and at most as many as there are.
LEMMA Ranks ==
  ASSUME NEW S \in SUBSET Int, IsFiniteSet(S)
  PROVE  [t \in S |-> Cardinality(Below(S, t)) + 1] \in Bijection(S, 1..Cardinality(S))
<1> DEFINE rank == [t \in S |-> Cardinality(Below(S, t)) + 1]
           n == Cardinality(S)
<1>1. n \in Nat
  BY FS_CardinalityType
<1>2. ASSUME NEW t \in S PROVE rank[t] \in 1..n
  <2>1. Below(S, t) \in SUBSET S /\ Below(S, t) # S
    BY DEF Below
  <2>2. IsFiniteSet(Below(S, t)) /\ Cardinality(Below(S, t)) <= n /\ Cardinality(Below(S, t)) # n
    BY <2>1, FS_Subset
  <2>3. Cardinality(Below(S, t)) \in Nat
    BY <2>2, FS_CardinalityType
  <2> QED BY <1>1, <2>2, <2>3
<1>3. ASSUME NEW t \in S, NEW u \in S, t # u PROVE rank[t] # rank[u]
  <2>1. Cardinality(Below(S, t)) \in Nat /\ Cardinality(Below(S, u)) \in Nat
    BY FS_Subset, FS_CardinalityType DEF Below
  <2>2. CASE t < u
    BY <2>1, <2>2, BelowGrows
  <2>3. CASE u < t
    BY <2>1, <2>3, BelowGrows
  <2> QED BY <1>3, <2>2, <2>3
<1>4. rank \in [S -> 1..n]
  BY <1>2
<1> HIDE DEF rank
<1>5. rank \in Injection(S, 1..n)
  BY <1>3, <1>4 DEF Injection, IsInjective
<1>6. IsFiniteSet(1..n) /\ Cardinality(1..n) = n
  BY <1>1, FS_Interval
<1>7. rank \in Surjection(S, 1..n)
  BY <1>5, <1>6, FS_Injection
<1>8. rank \in Bijection(S, 1..n)
  BY <1>5, <1>7 DEF Bijection
<1> QED BY <1>8 DEF rank

\* Sorted lists the members of a set, and only them.
LEMMA SortedLists ==
  ASSUME NEW S \in SUBSET Int, IsFiniteSet(S)
  PROVE  /\ Sorted(S) \in Seq(S) /\ Len(Sorted(S)) = Cardinality(S) /\ Range(Sorted(S)) = S
<1> DEFINE rank == [t \in S |-> Cardinality(Below(S, t)) + 1]
           n == Cardinality(S)
<1>1. n \in Nat
  BY FS_CardinalityType
<1>2. ASSUME NEW t \in S PROVE Cardinality(Below(S, t)) \in Nat
  BY FS_Subset, FS_CardinalityType DEF Below
<1>3. rank \in Bijection(S, 1..n)
  BY Ranks
<1>4. ASSUME NEW i \in 1..n PROVE Sorted(S)[i] \in S /\ Cardinality(Below(S, Sorted(S)[i])) = i - 1
  <2>1. \E t \in S : rank[t] = i
    BY <1>3 DEF Bijection, Surjection
  <2>2. \E t \in S : Cardinality(Below(S, t)) = i - 1
    BY <1>2, <2>1
  <2> QED BY <2>2 DEF Sorted
<1>5. DOMAIN Sorted(S) = 1..n
  BY DEF Sorted
<1>6. Sorted(S) \in [1..n -> S]
  BY <1>4 DEF Sorted
<1>7. Sorted(S) \in Seq(S) /\ Len(Sorted(S)) = n
  BY <1>1, <1>6
<1>8. ASSUME NEW t \in S PROVE t \in Range(Sorted(S))
  <2>1. rank[t] \in 1..n /\ rank[t] = Cardinality(Below(S, t)) + 1
    BY <1>3 DEF Bijection, Injection
  <2>2. PICK i \in 1..n : i = rank[t]
    BY <2>1
  <2>3. Sorted(S)[i] \in S /\ Cardinality(Below(S, Sorted(S)[i])) = i - 1
    BY <1>4
  <2>4. rank[Sorted(S)[i]] = rank[t]
    BY <1>2, <2>1, <2>2, <2>3
  <2>5. Sorted(S)[i] = t
    BY <1>3, <2>3, <2>4 DEF Bijection, Injection, IsInjective
  <2> QED BY <1>5, <2>5 DEF Range
<1>9. Range(Sorted(S)) \subseteq S
  BY <1>5, <1>6 DEF Range
<1> QED BY <1>7, <1>8, <1>9

----------------------------------------------------------------------------
(* The split over the sensors *)

\* Every tile of a list is kept by the sensor whose number has its remainder.
LEMMA KeepEveryKeeps ==
  ASSUME NEW tiles, Len(tiles) \in Nat, NEW n \in Nat \ {0}, NEW k \in 1..n,
         NEW i \in 1..Len(tiles), i % n = k % n
  PROVE  \E j \in 1..Len(KeepEvery(tiles, n, k)) : KeepEvery(tiles, n, k)[j] = tiles[i]
<1> DEFINE S == {h \in 1..Len(tiles) : h % n = k % n}
<1>1. PICK z \in Int : i = z * n + k
  <2>1. i \in Int /\ k \in Int
    OBVIOUS
  <2> QED BY <2>1, SameRemainder
<1>2. z \in Nat
  <2>1. CASE z <= -1
    <3>1. z * n <= -n
      BY <2>1
    <3>2. z * n \in Int
      OBVIOUS
    <3> QED BY <1>1, <3>1, <3>2
  <2> QED BY <2>1
<1>3. IsFiniteSet(S) /\ Cardinality(S) \in Nat
  <2>1. IsFiniteSet(1..Len(tiles))
    BY FS_Interval
  <2> QED BY <2>1, FS_Subset, FS_CardinalityType
<1>4. Len(KeepEvery(tiles, n, k)) = Cardinality(S)
      /\ \A j \in 1..Cardinality(S) : KeepEvery(tiles, n, k)[j] = tiles[(j - 1) * n + k]
  <2>1. KeepEvery(tiles, n, k) = [j \in 1..Cardinality(S) |-> tiles[(j - 1) * n + k]]
    BY DEF KeepEvery
  <2> HIDE DEF S
  <2> QED BY <1>3, <2>1
<1> DEFINE nth == [x \in 1..(z + 1) |-> (x - 1) * n + k]
<1>5. ASSUME NEW x \in 1..(z + 1) PROVE (x - 1) * n + k \in S
  <2>1. (x - 1) * n \in Int /\ z * n \in Int /\ 0 <= (x - 1) * n /\ (x - 1) * n <= z * n
    <3>1. z * n = (x - 1) * n + (z - (x - 1)) * n
      OBVIOUS
    <3>2. \A y \in Nat : y * n \in Nat
      OBVIOUS
    <3>3. x - 1 \in Nat /\ z - (x - 1) \in Nat
      BY <1>2
    <3> QED BY <1>2, <3>1, <3>2, <3>3
  <2>2. (x - 1) * n + k \in 1..Len(tiles)
    BY <1>1, <2>1
  <2>3. ((x - 1) * n + k) % n = k % n
    <3>1. x - 1 \in Int /\ k \in Int
      OBVIOUS
    <3> QED BY <3>1, RemainderShifts
  <2> QED BY <2>2, <2>3
<1>6. ASSUME NEW x \in 1..(z + 1), NEW y \in 1..(z + 1), (x - 1) * n + k = (y - 1) * n + k
      PROVE x = y
  <2>1. n * (x - y) = (x - 1) * n - (y - 1) * n
    OBVIOUS
  <2>2. n * (x - y) = 0
    BY <1>6, <2>1
  <2>3. x - y = 0
    BY <2>2, NotBetweenMultiples
  <2> QED BY <2>3
<1>7. nth \in Injection(1..(z + 1), S)
  <2>1. nth \in [1..(z + 1) -> S]
    BY <1>5
  <2>2. IsInjective(nth)
    BY <1>6 DEF IsInjective
  <2> QED BY <2>1, <2>2 DEF Injection
<1> HIDE DEF nth, S
<1>8. z + 1 <= Cardinality(S)
  <2>1. Cardinality(1..(z + 1)) <= Cardinality(S)
    BY <1>3, <1>7, FS_Injection
  <2>2. Cardinality(1..(z + 1)) = z + 1
    BY <1>2, FS_Interval
  <2> QED BY <2>1, <2>2
<1>9. z + 1 \in 1..Cardinality(S) /\ (z + 1) - 1 = z
  BY <1>2, <1>3, <1>8
<1>10. KeepEvery(tiles, n, k)[z + 1] = tiles[i]
  BY <1>1, <1>4, <1>9
<1> QED BY <1>4, <1>9, <1>10

\* Each number in a list is the remainder of some sensor's.
LEMMA SomeSensorKeeps ==
  ASSUME NEW n \in Nat \ {0}, NEW i \in Nat \ {0}
  PROVE  \E k \in 1..n : i % n = k % n
<1>1. i % n \in 0..(n - 1)
  BY Division
<1>2. CASE i % n = 0
  <2>1. n = n * 1 + 0 /\ 0 \in 0..(n - 1)
    OBVIOUS
  <2>2. n % n = 0
    BY <2>1, DivisionIsUnique
  <2> QED BY <1>2, <2>2
<1>3. CASE i % n # 0
  <2>1. PICK e \in 0..(n - 1) : e = i % n
    BY <1>1
  <2>2. n * 0 + e = e
    OBVIOUS
  <2>3. e % n = e
    BY <2>2, DivisionIsUnique
  <2>4. e \in 1..n
    BY <1>3, <2>1
  <2> QED BY <2>1, <2>3, <2>4
<1> QED BY <1>2, <1>3

----------------------------------------------------------------------------
(* The tiles of one band *)

\* Half a tile and nine tenths of one.
LEMMA TileFractions ==
  ASSUME NEW width \in Nat \ {0}, width % 20 = 0
  PROVE  \E m \in Nat \ {0} : /\ width = 20 * m
                              /\ width \div 2 = 10 * m /\ (9 * width) \div 10 = 18 * m
<1>1. PICK m \in Int : width = 20 * m + 0
  BY Division
<1>2. m \in Nat \ {0}
  BY <1>1
<1>3. width \div 2 = 10 * m /\ (9 * width) \div 10 = 18 * m
  BY <1>1, <1>2
<1> QED BY <1>1, <1>2, <1>3

\* In a band wider than a tile: the tile that starts last before a frequency has it,
\* or the tile flush with the upper edge.
LEMMA TilesOverlap ==
  ASSUME NEW low \in Int, NEW high \in Int, NEW m \in Nat \ {0}, low + 10 * m < high - 10 * m,
         NEW f \in Int, low <= f, f <= high
  PROVE  \E i \in Nat, t \in Int :
           /\ (18 * m) * (i - 1) <= high - low
           /\ (low + 10 * m) + i * (18 * m) < (high - 10 * m) + 18 * m
           /\ t = Min({(low + 10 * m) + i * (18 * m), high - 10 * m})
           /\ t - 10 * m <= f /\ f <= t + 10 * m
<1>1. PICK first \in Int, last \in Int, step \in Nat \ {0} :
        first = low + 10 * m /\ last = high - 10 * m /\ step = 18 * m /\ first < last
  OBVIOUS
<1> SUFFICES \E i \in Nat, t \in Int :
               /\ step * (i - 1) <= high - low /\ first + i * step < last + step
               /\ t = Min({first + i * step, last})
               /\ t - 10 * m <= f /\ f <= t + 10 * m
  BY <1>1
<1>2. PICK q \in Nat, e \in 0..(step - 1) : f - low = step * q + e
  <2>1. PICK a \in Nat : a = f - low
    OBVIOUS
  <2>2. \E q \in Nat, e \in 0..(step - 1) : a = step * q + e
    BY DivisionOfNat
  <2> QED BY <2>1, <2>2
<1>3. PICK t \in Int : t = first + q * step /\ q * step = step * q
  OBVIOUS
<1>4. CASE t <= last
  <2>1. step * (q - 1) <= high - low
    <3>1. step * (q - 1) = step * q - step
      OBVIOUS
    <3> QED BY <1>2, <3>1
  <2>2. t - 10 * m <= f /\ f <= t + 10 * m
    BY <1>1, <1>2, <1>3
  <2>3. Min({t, last}) = t
    BY <1>4, MinOfTwo
  <2>4. first + q * step < last + step
    BY <1>3, <1>4
  <2>5. t = Min({first + q * step, last})
    BY <1>3, <2>3
  <2> QED BY <2>1, <2>2, <2>4, <2>5
<1>5. CASE last < t
  <2>1. last - 10 * m <= f /\ f <= last + 10 * m
    BY <1>1, <1>2, <1>3, <1>5
  <2>2. PICK r \in Nat, g \in 0..(step - 1) : last - first = step * r + g
    <3>1. PICK a \in Nat : a = last - first
      BY <1>1
    <3>2. \E r \in Nat, g \in 0..(step - 1) : a = step * r + g
      BY DivisionOfNat
    <3> QED BY <3>1, <3>2
  <2>3. PICK i \in Nat, u \in Int : /\ u = first + i * step /\ step * (i - 1) <= high - low
                                    /\ last <= u /\ u < last + step
    <3>1. /\ r * step = step * r /\ step * r \in Int /\ (r + 1) * step = step * r + step
          /\ step * (r - 1) = step * r - step /\ step * ((r + 1) - 1) = step * r
      OBVIOUS
    <3>2. step * r <= high - low
      BY <1>1, <2>2, <3>1
    <3>3. CASE g = 0
      <4>1. PICK u \in Int : u = first + r * step
        BY <3>1
      <4> QED BY <2>2, <3>1, <3>2, <3>3, <4>1
    <3>4. CASE g > 0
      <4>1. PICK u \in Int : u = first + (r + 1) * step
        BY <3>1
      <4>2. last <= u /\ u < last + step
        BY <2>2, <3>1, <3>4, <4>1
      <4>3. r + 1 \in Nat /\ step * ((r + 1) - 1) <= high - low
        BY <3>1, <3>2
      <4> QED BY <4>1, <4>2, <4>3
    <3>5. g = 0 \/ g > 0
      BY <2>2
    <3> QED BY <3>3, <3>4, <3>5
  <2>4. Min({u, last}) = last
    BY <2>3, MinOfTwo
  <2>5. last = Min({first + i * step, last}) /\ first + i * step < last + step
    BY <2>3, <2>4
  <2> QED BY <2>1, <2>3, <2>5
<1>6. t <= last \/ last < t
  OBVIOUS
<1> QED BY <1>4, <1>5, <1>6

LEMMA BandIsCovered ==
  ASSUME NEW b, b.low \in Int, b.high \in Int, b.low < b.high,
         NEW width \in Nat \ {0}, width % 20 = 0, NEW f \in b.low..b.high
  PROVE  \E tile \in BandTiles(b, width) :
           f \in (tile - width \div 2)..(tile + width \div 2)
<1> DEFINE low == b.low
           high == b.high
           first == b.low + width \div 2
           last == b.high - width \div 2
           step == (9 * width) \div 10
           steps == {i \in 0..((b.high - b.low) \div step + 1) : first + i * step < last + step}
<1>1. PICK m \in Nat \ {0} : /\ width = 20 * m
                             /\ width \div 2 = 10 * m /\ (9 * width) \div 10 = 18 * m
  BY TileFractions
<1>2. BandTiles(b, width) = IF last <= first THEN {(low + high) \div 2}
                            ELSE {Min({first + i * step, last}) : i \in steps}
  <2>1. ~(b.high <= b.low)
    OBVIOUS
  <2> QED BY <2>1 DEF BandTiles
<1>3. /\ low \in Int /\ high \in Int /\ first \in Int /\ last \in Int /\ step \in Nat \ {0}
      /\ first = low + 10 * m /\ last = high - 10 * m /\ step = 18 * m
  BY <1>1
<1>4. steps = {i \in 0..((high - low) \div step + 1) : first + i * step < last + step}
  OBVIOUS
<1>5. f \in Int /\ low <= f /\ f <= high /\ low < high
  OBVIOUS
<1> HIDE DEF low, high, first, last, step, steps
<1> SUFFICES \E tile \in BandTiles(b, width) : tile \in Int /\ tile - 10 * m <= f /\ f <= tile + 10 * m
  BY <1>1, <1>5
<1>6. CASE last <= first
  <2>1. PICK c \in Int : c = (low + high) \div 2 /\ 2 * c <= low + high /\ low + high <= 2 * c + 1
    BY <1>3
  <2>2. c - 10 * m <= f /\ f <= c + 10 * m
    BY <1>3, <1>5, <1>6, <2>1
  <2> QED BY <1>2, <1>6, <2>1, <2>2
<1>7. CASE first < last
  <2>1. ~(last <= first)
    BY <1>3, <1>7
  <2>2. PICK i \in Nat, t \in Int :
           /\ (18 * m) * (i - 1) <= high - low
           /\ (low + 10 * m) + i * (18 * m) < (high - 10 * m) + 18 * m
           /\ t = Min({(low + 10 * m) + i * (18 * m), high - 10 * m})
           /\ t - 10 * m <= f /\ f <= t + 10 * m
    <3>1. low + 10 * m < high - 10 * m
      BY <1>3, <1>7
    <3> QED BY <1>3, <1>5, <3>1, TilesOverlap
  <2>3. i \in 0..((high - low) \div step + 1)
    <3>1. PICK a \in Int, d \in Nat \ {0}, z \in Int : a = high - low /\ d = step /\ z = i - 1
      BY <1>3
    <3>2. z <= a \div d /\ a \div d \in Int
      BY <1>3, <2>2, <3>1, QuotientIsLargest, Division
    <3> QED BY <3>1, <3>2
  <2>4. i \in steps /\ t = Min({first + i * step, last})
    BY <1>3, <1>4, <2>2, <2>3
  <2> QED BY <1>2, <2>1, <2>2, <2>4
<1> QED BY <1>3, <1>6, <1>7

\* All tiles of a band are centered in it.
LEMMA TilesStayInBand ==
  ASSUME NEW b, b.low \in Int, b.high \in Int, NEW width \in Nat \ {0}, width % 20 = 0
  PROVE  BandTiles(b, width) \subseteq b.low..b.high
<1> DEFINE low == b.low
           high == b.high
           first == b.low + width \div 2
           last == b.high - width \div 2
           step == (9 * width) \div 10
           steps == {i \in 0..((b.high - b.low) \div step + 1) : first + i * step < last + step}
<1>1. PICK m \in Nat \ {0} : /\ width = 20 * m
                             /\ width \div 2 = 10 * m /\ (9 * width) \div 10 = 18 * m
  BY TileFractions
<1>2. BandTiles(b, width) = IF high <= low THEN {}
                            ELSE IF last <= first THEN {(low + high) \div 2}
                            ELSE {Min({first + i * step, last}) : i \in steps}
  BY DEF BandTiles
<1>3. /\ low \in Int /\ high \in Int /\ first \in Int /\ last \in Int /\ step \in Nat \ {0}
      /\ first = low + 10 * m /\ last = high - 10 * m
  BY <1>1
<1>4. \A i \in steps : i \in Nat
  BY <1>3
<1> HIDE DEF low, high, first, last, step, steps
<1> SUFFICES BandTiles(b, width) \subseteq low..high
  BY DEF low, high
<1>5. CASE ~(high <= low) /\ last <= first
  <2>1. (low + high) \div 2 \in low..high
    BY <1>3, <1>5
  <2> QED BY <1>2, <1>5, <2>1
<1>6. CASE ~(high <= low) /\ ~(last <= first)
  <2>1. ASSUME NEW i \in steps PROVE Min({first + i * step, last}) \in low..high
    <3>1. i * step \in Nat
      BY <1>3, <1>4
    <3>2. PICK t \in Int : t = first + i * step /\ t >= first
      BY <1>3, <3>1
    <3>3. PICK u \in Int : u = last
      BY <1>3
    <3>4. Min({t, u}) = IF t <= u THEN t ELSE u
      BY MinOfTwo
    <3>5. t \in Int /\ u \in Int /\ low <= t /\ low <= u /\ u <= high
      BY <1>3, <1>6, <3>2, <3>3
    <3>6. Min({t, u}) \in low..high
      BY <1>3, <3>4, <3>5
    <3> QED BY <3>2, <3>3, <3>6
  <2>2. BandTiles(b, width) = {Min({first + i * step, last}) : i \in steps}
    BY <1>2, <1>6
  <2> QED BY <2>1, <2>2
<1>7. CASE high <= low
  BY <1>2, <1>7
<1> QED BY <1>5, <1>6, <1>7

LEMMA TilesAreFinite ==
  ASSUME NEW bands, IsFiniteSet(bands), \A b \in bands : b.low \in Int /\ b.high \in Int,
         NEW width \in Nat \ {0}, width % 20 = 0
  PROVE  TilesOf(bands, width) \in SUBSET Int /\ IsFiniteSet(TilesOf(bands, width))
<1> DEFINE tiles == [b \in bands |-> BandTiles(b, width)]
           all == {BandTiles(b, width) : b \in bands}
<1>1. ASSUME NEW b \in bands PROVE BandTiles(b, width) \subseteq Int /\ IsFiniteSet(BandTiles(b, width))
  <2>1. BandTiles(b, width) \subseteq b.low..b.high
    BY TilesStayInBand
  <2>2. b.low..b.high \subseteq Int /\ IsFiniteSet(b.low..b.high)
    BY FS_Interval
  <2> QED BY <2>1, <2>2, FS_Subset
<1>2. tiles \in Surjection(bands, all)
  BY DEF Surjection
<1>3. IsFiniteSet(all)
  BY <1>2, FS_Surjection
<1>4. \A T \in all : IsFiniteSet(T)
  BY <1>1
<1> HIDE DEF all
<1>5. IsFiniteSet(UNION all)
  BY <1>3, <1>4, FS_UNION
<1> QED BY <1>1, <1>5 DEF TilesOf, all

----------------------------------------------------------------------------
(* The plan of a survey *)

SurveyKnown == survey \in Surveys

LEMMA SurveyStays == SweepSpec => []SurveyKnown
<1>1. SweepInit => SurveyKnown
  BY DEF SweepInit, SurveyKnown
<1>2. SurveyKnown /\ [SweepNext]_sweepVars => SurveyKnown'
  BY DEF SurveyKnown, SweepNext, PoolStart, SweepTile, sweepVars
<1> QED BY <1>1, <1>2, PTL DEF SweepSpec

\* What a survey that may be started gives the lemmas above.
LEMMA SurveyFacts ==
  ASSUME SurveyKnown
  PROVE  /\ IsFiniteSet(survey.bands) /\ \A b \in survey.bands : b.low \in Int /\ b.high \in Int
         /\ Len(survey.pool) \in Nat /\ Sensors = 1..Len(survey.pool)
         /\ \A k \in Sensors : /\ survey.pool[k].rate \in Nat \ {0} /\ survey.pool[k].rate % 20 = 0
                               /\ survey.pool[k].min \in Int /\ survey.pool[k].max \in Int
<1>1. /\ IsFiniteSet(survey.bands) /\ \A b \in survey.bands : b.low \in Int /\ b.high \in Int
      /\ survey.pool \in Seq([rate : Nat \ {0}, min : Int, max : Int])
      /\ \A k \in DOMAIN survey.pool : survey.pool[k].rate % 20 = 0
  BY SurveysAssumption DEF SurveyKnown
<1>2. DOMAIN survey.pool = 1..Len(survey.pool) /\ Len(survey.pool) \in Nat
      /\ \A k \in DOMAIN survey.pool : survey.pool[k] \in [rate : Nat \ {0}, min : Int, max : Int]
  <2> DEFINE kind == [rate : Nat \ {0}, min : Int, max : Int]
             pool == survey.pool
  <2>1. pool \in Seq(kind)
    BY <1>1
  <2> HIDE DEF kind, pool
  <2>2. DOMAIN pool = 1..Len(pool) /\ Len(pool) \in Nat /\ \A k \in DOMAIN pool : pool[k] \in kind
    BY <2>1
  <2> QED BY <2>2 DEF kind, pool
<1> QED BY <1>1, <1>2 DEF Sensors

\* Whatever the bands and the rates: the tiles planned for a band leave out no
\* frequency of it (plan_tiles in rf-sensor/src/lib.rs).
THEOREM TilesCoverBandsHolds == SweepSpec => []TilesCoverBands
<1>1. SurveyKnown => TilesCoverBands
  <2> SUFFICES ASSUME SurveyKnown, NEW k \in Sensors, NEW b \in survey.bands,
                      NEW f \in b.low..b.high, b.low < b.high
               PROVE  \E tile \in Range(PlanTiles(survey.bands, survey.pool[k].rate)) : f \in Seen(k, tile)
    BY DEF TilesCoverBands
  <2> DEFINE width == survey.pool[k].rate
  <2>1. /\ width \in Nat \ {0} /\ width % 20 = 0 /\ IsFiniteSet(survey.bands)
        /\ \A c \in survey.bands : c.low \in Int /\ c.high \in Int
    BY SurveyFacts
  <2>2. PICK tile \in BandTiles(b, width) : f \in (tile - width \div 2)..(tile + width \div 2)
    BY <2>1, BandIsCovered
  <2>3. tile \in TilesOf(survey.bands, width)
    BY DEF TilesOf
  <2>4. Range(PlanTiles(survey.bands, width)) = TilesOf(survey.bands, width)
    BY <2>1, TilesAreFinite, SortedLists DEF PlanTiles
  <2> QED BY <2>2, <2>3, <2>4 DEF Seen
<1> QED BY <1>1, SurveyStays, PTL

----------------------------------------------------------------------------
(* What the laps visit *)

\* The share of a sensor: the tiles it covers, those whose number has its remainder.
ShareOf(k) == KeepEvery(CoveredTiles(k), Len(survey.pool), k)

SharesPlanned ==
  \/ share = <<>> /\ lapped = {}
  \/ share = [k \in Sensors |-> ShareOf(k)] /\ lapped \subseteq Sensors

\* A worker that sweeps is at a tile of its share.
PlacesInShares ==
  share # <<>> => /\ place \in [Sensors -> Nat]
                  /\ \A k \in Sensors : share[k] # <<>> => place[k] \in 1..Len(share[k])

\* It has visited the tiles before the one it is at, and after a lap all of them.
LapsVisit ==
  share # <<>> =>
    \A k \in Sensors : \A j \in 1..Len(share[k]) :
      k \in lapped \/ j < place[k] => <<k, share[k][j]>> \in visited

SweepInv == SurveyKnown /\ SharesPlanned /\ PlacesInShares /\ LapsVisit

LEMMA KeepEveryIsAList ==
  ASSUME NEW tiles, Len(tiles) \in Nat, NEW n \in Nat \ {0}, NEW k \in 1..n
  PROVE  /\ Len(KeepEvery(tiles, n, k)) \in Nat
         /\ KeepEvery(tiles, n, k) # <<>> => Len(KeepEvery(tiles, n, k)) >= 1
         /\ Len(KeepEvery(tiles, n, k)) >= 1 => KeepEvery(tiles, n, k) # <<>>
<1> DEFINE S == {i \in 1..Len(tiles) : i % n = k % n}
<1>1. IsFiniteSet(S) /\ Cardinality(S) \in Nat
  <2>1. IsFiniteSet(1..Len(tiles))
    BY FS_Interval
  <2> QED BY <2>1, FS_Subset, FS_CardinalityType
<1>2. KeepEvery(tiles, n, k) = [j \in 1..Cardinality(S) |-> tiles[(j - 1) * n + k]]
  BY DEF KeepEvery
<1> HIDE DEF S
<1>3. Len(KeepEvery(tiles, n, k)) = Cardinality(S)
  BY <1>1, <1>2
<1>4. CASE Cardinality(S) = 0
  <2>1. KeepEvery(tiles, n, k) = <<>>
    BY <1>2, <1>4
  <2> QED BY <1>3, <1>4, <2>1
<1>5. CASE Cardinality(S) >= 1
  <2>1. 1 \in DOMAIN KeepEvery(tiles, n, k)
    BY <1>1, <1>2, <1>5
  <2>2. DOMAIN <<>> = {}
    OBVIOUS
  <2>3. KeepEvery(tiles, n, k) # <<>>
    BY <2>1, <2>2
  <2> QED BY <1>3, <1>1, <1>5, <2>3
<1> QED BY <1>1, <1>4, <1>5

\* The tiles that a sensor covers, in a list.
LEMMA CoveredTilesAreAList ==
  ASSUME SurveyKnown, NEW k \in Sensors
  PROVE  Len(CoveredTiles(k)) \in Nat /\ DOMAIN CoveredTiles(k) = 1..Len(CoveredTiles(k))
<1> DEFINE S == {tile \in TilesOf(survey.bands, survey.pool[k].rate) : Covers(survey.pool[k], tile)}
<1>1. TilesOf(survey.bands, survey.pool[k].rate) \in SUBSET Int
      /\ IsFiniteSet(TilesOf(survey.bands, survey.pool[k].rate))
  BY SurveyFacts, TilesAreFinite
<1>2. S \in SUBSET Int /\ IsFiniteSet(S)
  BY <1>1, FS_Subset
<1> HIDE DEF S
<1>3. Sorted(S) \in Seq(S)
  BY <1>2, SortedLists
<1> QED BY <1>3 DEF CoveredTiles, S

LEMMA ShareIsAList ==
  ASSUME SurveyKnown, NEW k \in Sensors
  PROVE  /\ Len(ShareOf(k)) \in Nat
         /\ ShareOf(k) # <<>> <=> Len(ShareOf(k)) >= 1
<1>1. Len(survey.pool) \in Nat \ {0} /\ k \in 1..Len(survey.pool)
  BY SurveyFacts
<1>2. Len(CoveredTiles(k)) \in Nat
  BY CoveredTilesAreAList
<1> QED BY <1>1, <1>2, KeepEveryIsAList DEF ShareOf

LEMMA SweepInvInit == SweepInit => SweepInv
BY DEF SweepInit, NotStarted, SweepInv, SurveyKnown, SharesPlanned, PlacesInShares, LapsVisit

LEMMA SweepInvStart ==
  ASSUME SweepInv, PoolStart
  PROVE  SweepInv'
<1>1. share = <<>> /\ lapped = {} /\ survey' = survey /\ lapped' = {} /\ visited' = visited
  BY DEF PoolStart, SweepInv, SharesPlanned, PlacesInShares
<1>2. Sensors' = Sensors /\ \A k : ShareOf(k)' = ShareOf(k)
  BY <1>1 DEF Sensors, ShareOf, CoveredTiles
<1>3. share' = [k \in Sensors |-> ShareOf(k)] /\ place' = [k \in Sensors |-> 1]
  BY DEF PoolStart, ShareOf
<1>4. SurveyKnown /\ SurveyKnown'
  BY <1>1 DEF SweepInv, SurveyKnown
<1>5. SharesPlanned'
  BY <1>1, <1>2, <1>3 DEF SharesPlanned
<1>6. PlacesInShares'
  <2>1. place' \in [Sensors -> Nat]
    BY <1>3
  <2>2. ASSUME NEW k \in Sensors, share'[k] # <<>> PROVE place'[k] \in 1..Len(share'[k])
    <3>1. share'[k] = ShareOf(k) /\ place'[k] = 1
      BY <1>3
    <3> QED BY <1>4, <2>2, <3>1, ShareIsAList
  <2> QED BY <1>2, <2>1, <2>2 DEF PlacesInShares
<1>7. LapsVisit'
  <2>1. \A k \in Sensors : place'[k] = 1 /\ k \notin lapped'
    BY <1>1, <1>3
  <2>2. \A k \in Sensors : \A j \in 1..Len(share'[k]) : ~(j < 1)
    OBVIOUS
  <2> QED BY <1>2, <2>1, <2>2 DEF LapsVisit
<1> QED BY <1>4, <1>5, <1>6, <1>7 DEF SweepInv

LEMMA SweepInvTile ==
  ASSUME SweepInv, NEW k \in Sensors, SweepTile(k)
  PROVE  SweepInv'
<1>1. survey' = survey /\ share' = share /\ k \in DOMAIN share /\ share[k] # <<>>
      /\ visited' = visited \cup {<<k, share[k][place[k]]>>}
  BY DEF SweepTile
<1>2. Sensors' = Sensors /\ \A i : ShareOf(i)' = ShareOf(i)
  BY <1>1 DEF Sensors, ShareOf, CoveredTiles
<1>3. share # <<>>
  <2>1. DOMAIN <<>> = {}
    OBVIOUS
  <2> QED BY <1>1, <2>1
<1>4. share = [i \in Sensors |-> ShareOf(i)] /\ lapped \subseteq Sensors
  BY <1>3 DEF SweepInv, SharesPlanned
<1>5. /\ SurveyKnown /\ place \in [Sensors -> Nat]
      /\ \A i \in Sensors : share[i] # <<>> => place[i] \in 1..Len(share[i])
      /\ \A i \in Sensors : \A j \in 1..Len(share[i]) :
           i \in lapped \/ j < place[i] => <<i, share[i][j]>> \in visited
  BY <1>3 DEF SweepInv, PlacesInShares, LapsVisit
<1>6. \A i \in Sensors : Len(share[i]) \in Nat
  BY <1>4, <1>5, ShareIsAList
<1>7. SurveyKnown'
  BY <1>1, <1>5 DEF SurveyKnown
<1>8. PICK here \in Nat, last \in Nat : here = place[k] /\ last = Len(share[k]) /\ 1 <= here /\ here <= last
  BY <1>1, <1>5, <1>6
<1>9. CASE here < last
  <2>1. place' = [place EXCEPT ![k] = here + 1] /\ lapped' = lapped
    BY <1>8, <1>9 DEF SweepTile
  <2>2. place' \in [Sensors -> Nat] /\ place'[k] = here + 1 /\ \A i \in Sensors \ {k} : place'[i] = place[i]
    BY <1>5, <2>1
  <2>3. SharesPlanned'
    BY <1>1, <1>2, <1>4, <2>1 DEF SharesPlanned
  <2>4. PlacesInShares'
    <3>1. here + 1 \in 1..Len(share[k])
      BY <1>8, <1>9
    <3> QED BY <1>1, <1>2, <1>5, <2>2, <3>1 DEF PlacesInShares
  <2>5. LapsVisit'
    <3>1. ASSUME NEW j \in 1..Len(share[k]), k \in lapped \/ j < here + 1
          PROVE  <<k, share[k][j]>> \in visited'
      <4>1. j = here \/ k \in lapped \/ j < here
        BY <1>8, <3>1
      <4> QED BY <1>1, <1>5, <1>8, <4>1
    <3>2. ASSUME NEW i \in Sensors \ {k}, NEW j \in 1..Len(share[i]), i \in lapped \/ j < place[i]
          PROVE  <<i, share[i][j]>> \in visited'
      BY <1>1, <1>5, <3>2
    <3> QED BY <1>1, <1>2, <2>1, <2>2, <3>1, <3>2 DEF LapsVisit
  <2> QED BY <1>7, <2>3, <2>4, <2>5 DEF SweepInv
<1>10. CASE here = last
  <2>1. place' = [place EXCEPT ![k] = 1] /\ lapped' = lapped \cup {k}
    <3>1. ~(here < last)
      BY <1>10
    <3> QED BY <1>8, <3>1 DEF SweepTile
  <2>2. place' \in [Sensors -> Nat] /\ place'[k] = 1 /\ \A i \in Sensors \ {k} : place'[i] = place[i]
    BY <1>5, <2>1
  <2>3. SharesPlanned'
    BY <1>1, <1>2, <1>4, <2>1 DEF SharesPlanned
  <2>4. PlacesInShares'
    <3>1. 1 \in 1..Len(share[k])
      BY <1>8
    <3> QED BY <1>1, <1>2, <1>5, <2>2, <3>1 DEF PlacesInShares
  <2>5. LapsVisit'
    <3>1. ASSUME NEW j \in 1..Len(share[k])
          PROVE  <<k, share[k][j]>> \in visited'
      <4>1. j = here \/ j < here
        BY <1>8, <1>10
      <4> QED BY <1>1, <1>5, <1>8, <4>1
    <3>2. ASSUME NEW i \in Sensors \ {k}, NEW j \in 1..Len(share[i]), i \in lapped \/ j < place[i]
          PROVE  <<i, share[i][j]>> \in visited'
      BY <1>1, <1>5, <3>2
    <3> QED BY <1>1, <1>2, <2>1, <2>2, <3>1, <3>2 DEF LapsVisit
  <2> QED BY <1>7, <2>3, <2>4, <2>5 DEF SweepInv
<1> QED BY <1>8, <1>9, <1>10

LEMMA SweepInvHolds == SweepSpec => []SweepInv
<1>1. SweepInv /\ UNCHANGED sweepVars => SweepInv'
  BY DEF SweepInv, SurveyKnown, SharesPlanned, PlacesInShares, LapsVisit, ShareOf, CoveredTiles,
         Sensors, sweepVars
<1>2. SweepInv /\ [SweepNext]_sweepVars => SweepInv'
  BY <1>1, SweepInvStart, SweepInvTile DEF SweepNext
<1> QED BY <1>2, SweepInvInit, PTL DEF SweepSpec

----------------------------------------------------------------------------
(* The split over equal sensors *)

\* The sensors of a pool have one rate and one range.  The run tiles_unswept shows
\* that without this the split leaves frequencies out.
EqualSensors == \A s \in Surveys : \A j \in DOMAIN s.pool, k \in DOMAIN s.pool : s.pool[j] = s.pool[k]

\* Whatever the bands and the number of sensors: if the sensors are equal, then
\* after a lap of every worker each frequency that a sensor could sweep has been
\* visited by one of them (SensorPool::start and sweep_worker in rf-sensor/src/pool.rs).
THEOREM EqualSensorsSweepEverything ==
  ASSUME EqualSensors
  PROVE  SweepSpec => []EveryFrequencyIsSwept
<1>1. SweepInv => EveryFrequencyIsSwept
  <2> SUFFICES ASSUME SweepInv,
                      \A k \in Sensors : k \in lapped \/ (share # <<>> /\ share[k] = <<>>),
                      NEW k \in Sensors, NEW tile \in Range(CoveredTiles(k)), NEW f \in Seen(k, tile)
               PROVE  \E v \in visited : f \in Seen(v[1], v[2])
    BY DEF EveryFrequencyIsSwept
  <2> DEFINE n == Len(survey.pool)
  <2>1. SurveyKnown /\ n \in Nat \ {0} /\ Sensors = 1..n
    BY SurveyFacts DEF SweepInv
  <2>2. Len(CoveredTiles(k)) \in Nat /\ DOMAIN CoveredTiles(k) = 1..Len(CoveredTiles(k))
    BY <2>1, CoveredTilesAreAList
  <2>3. PICK i \in 1..Len(CoveredTiles(k)) : tile = CoveredTiles(k)[i]
    BY <2>2 DEF Range
  <2>4. PICK j \in 1..n : i % n = j % n
    <3>1. i \in Nat \ {0}
      BY <2>2
    <3> QED BY <2>1, <3>1, SomeSensorKeeps
  <2>5. survey.pool[j] = survey.pool[k]
    BY <2>1 DEF EqualSensors, SurveyKnown, Sensors
  <2>6. CoveredTiles(j) = CoveredTiles(k) /\ Seen(j, tile) = Seen(k, tile)
    BY <2>5 DEF CoveredTiles, Seen
  <2>7. PICK p \in 1..Len(ShareOf(j)) : ShareOf(j)[p] = tile
    <3>1. \E p \in 1..Len(KeepEvery(CoveredTiles(k), n, j)) :
            KeepEvery(CoveredTiles(k), n, j)[p] = CoveredTiles(k)[i]
      BY <2>1, <2>2, <2>4, KeepEveryKeeps
    <3> QED BY <2>3, <2>6, <3>1 DEF ShareOf
  <2>8. share # <<>>
    BY DEF SweepInv, SharesPlanned
  <2>9. share[j] = ShareOf(j)
    BY <2>1, <2>4, <2>8 DEF SweepInv, SharesPlanned
  <2>10. share[j] # <<>>
    BY <2>1, <2>4, <2>7, <2>9, ShareIsAList
  <2>11. <<j, tile>> \in visited
    BY <2>1, <2>4, <2>7, <2>8, <2>9, <2>10 DEF SweepInv, LapsVisit
  <2> QED BY <2>6, <2>11
<1> QED BY <1>1, SweepInvHolds, PTL

----------------------------------------------------------------------------
(* The baseline of a spectrum *)

Stats == [sum : Int, sumSq : Int, min : Int, max : Int, count : Nat]

\* The mean of a bin is between its extremes.
MeanBetweenExtremes(b) == b.count * b.min <= b.sum /\ b.sum <= b.count * b.max

BinsSound ==
  /\ bins \in [1..BinCount -> Stats] /\ measured \in [1..BinCount -> SUBSET Int]
  /\ \A i \in 1..BinCount :
       /\ MeanBetweenExtremes(bins[i])
       /\ \A p \in measured[i] : bins[i].min <= p /\ p <= bins[i].max

\* An anomaly is about the baseline as it is.
AnomaliesSound ==
  \A a \in anomalies :
    /\ a.bin \in 1..BinCount /\ a.live \in Int
    /\ bins[a.bin].count > 0 /\ a.kind = Kind(bins[a.bin], a.live)

LEMMA IngestKeeps ==
  ASSUME NEW b \in Stats, NEW p \in Int, MeanBetweenExtremes(b)
  PROVE  /\ Ingest(b, p) \in Stats /\ MeanBetweenExtremes(Ingest(b, p))
         /\ Ingest(b, p).min <= b.min /\ Ingest(b, p).min <= p
         /\ b.max <= Ingest(b, p).max /\ p <= Ingest(b, p).max
<1>1. PICK n \in Nat, s \in Int, lo \in Int, hi \in Int :
        n = b.count /\ s = b.sum /\ lo = b.min /\ hi = b.max /\ n * lo <= s /\ s <= n * hi
  BY DEF Stats, MeanBetweenExtremes
<1>2. PICK low \in Int : low = Min({lo, p}) /\ low <= lo /\ low <= p
  BY MinOfTwo
<1>3. PICK high \in Int : high = Max({hi, p}) /\ hi <= high /\ p <= high
  BY MaxOfTwo
<1>4. Ingest(b, p).sum = s + p /\ Ingest(b, p).min = low /\ Ingest(b, p).max = high
      /\ Ingest(b, p).count = n + 1
  BY <1>1, <1>2, <1>3 DEF Ingest
<1>5. Ingest(b, p) \in Stats
  <2>1. b.sumSq + p * p \in Int
    BY DEF Stats
  <2>2. Ingest(b, p) = [sum |-> s + p, sumSq |-> b.sumSq + p * p, min |-> low, max |-> high,
                        count |-> n + 1]
    BY <1>1, <1>2, <1>3 DEF Ingest
  <2> QED BY <2>1, <2>2 DEF Stats
<1>6. (n + 1) * low <= s + p /\ s + p <= (n + 1) * high
  <2>1. n * low <= n * lo /\ n * hi <= n * high
    BY <1>2, <1>3
  <2>2. (n + 1) * low = n * low + low /\ (n + 1) * high = n * high + high
    OBVIOUS
  <2>3. n * low \in Int /\ n * lo \in Int /\ n * hi \in Int /\ n * high \in Int
    OBVIOUS
  <2> QED BY <1>1, <1>2, <1>3, <2>1, <2>2, <2>3
<1> QED BY <1>1, <1>2, <1>3, <1>4, <1>5, <1>6 DEF MeanBetweenExtremes

LEMMA BaselineStep ==
  ASSUME BinsSound, NEW powers \in Spectra, UpdateBaseline(powers)
  PROVE  BinsSound'
<1>1. powers \in Seq(Int)
  BY MasintAssumption
<1>2. DOMAIN powers = 1..Len(powers) /\ Len(powers) \in Nat /\ \A i \in 1..Len(powers) : powers[i] \in Int
  BY <1>1
<1>3. bins' = [i \in 1..BinCount |-> IF i <= Len(powers) THEN Ingest(bins[i], powers[i]) ELSE bins[i]]
      /\ measured' = [i \in 1..BinCount |-> measured[i] \cup {powers[j] : j \in DOMAIN powers \cap {i}}]
  BY DEF UpdateBaseline
<1>4. ASSUME NEW i \in 1..BinCount
      PROVE  /\ bins'[i] \in Stats /\ measured'[i] \in SUBSET Int /\ MeanBetweenExtremes(bins'[i])
             /\ \A p \in measured'[i] : bins'[i].min <= p /\ p <= bins'[i].max
  <2>1. /\ bins[i] \in Stats /\ measured[i] \in SUBSET Int /\ MeanBetweenExtremes(bins[i])
        /\ \A p \in measured[i] : bins[i].min <= p /\ p <= bins[i].max
    BY DEF BinsSound
  <2>2. CASE i <= Len(powers)
    <3>1. i \in DOMAIN powers /\ powers[i] \in Int
      BY <1>2, <2>2
    <3>2. bins'[i] = Ingest(bins[i], powers[i]) /\ measured'[i] = measured[i] \cup {powers[i]}
      BY <1>3, <2>2, <3>1
    <3>3. PICK b \in Stats, p \in Int : b = bins[i] /\ p = powers[i]
      BY <2>1, <3>1
    <3>4. PICK c \in Stats : /\ c = bins'[i] /\ MeanBetweenExtremes(c)
                             /\ c.min <= b.min /\ c.min <= p /\ b.max <= c.max /\ p <= c.max
      BY <2>1, <3>2, <3>3, IngestKeeps
    <3>5. b.min \in Int /\ b.max \in Int /\ c.min \in Int /\ c.max \in Int
      BY DEF Stats
    <3>6. ASSUME NEW q \in measured[i] PROVE c.min <= q /\ q <= c.max
      <4>1. q \in Int /\ b.min <= q /\ q <= b.max
        BY <2>1, <3>3
      <4> QED BY <3>4, <3>5, <4>1
    <3> QED BY <2>1, <3>2, <3>3, <3>4, <3>6
  <2>3. CASE ~(i <= Len(powers))
    <3>1. i \notin DOMAIN powers
      BY <1>2, <2>3
    <3>2. bins'[i] = bins[i] /\ measured'[i] = measured[i]
      BY <1>3, <2>3, <3>1
    <3> QED BY <2>1, <3>2
  <2> QED BY <2>2, <2>3
<1>5. DOMAIN bins' = 1..BinCount /\ DOMAIN measured' = 1..BinCount
      /\ bins' = [i \in 1..BinCount |-> bins'[i]] /\ measured' = [i \in 1..BinCount |-> measured'[i]]
  BY <1>3
<1> QED BY <1>4, <1>5 DEF BinsSound

LEMMA DetectStep ==
  ASSUME BinsSound, NEW live \in Spectra, DetectAnomalies(live)
  PROVE  AnomaliesSound'
<1>1. live \in Seq(Int) /\ BinCount \in Nat
  BY MasintAssumption
<1>2. PICK n \in Nat : n = Len(live) /\ \A i \in 1..n : live[i] \in Int
  BY <1>1
<1>3. bins' = bins
  BY DEF DetectAnomalies
<1>4. ASSUME NEW a \in anomalies'
      PROVE  \E i \in 1..BinCount : /\ a.bin = i /\ a.live = live[i] /\ live[i] \in Int
                                    /\ bins[i].count > 0 /\ a.kind = Kind(bins[i], live[i])
  <2>1. PICK i \in 1..Min({BinCount, n}) : /\ Significant(bins[i], live[i])
                                           /\ a = [live |-> live[i], bin |-> i, kind |-> Kind(bins[i], live[i])]
    BY <1>2 DEF DetectAnomalies
  <2>2. Min({BinCount, n}) = IF BinCount <= n THEN BinCount ELSE n
    BY <1>1, MinOfTwo
  <2>3. i \in 1..BinCount /\ i \in 1..n
    BY <1>1, <2>2
  <2>4. bins[i].count > 0
    BY <2>1 DEF Significant
  <2> QED BY <1>2, <2>1, <2>3, <2>4
<1> QED BY <1>3, <1>4 DEF AnomaliesSound

\* What the kind says of one bin.
LEMMA KindIsRight ==
  ASSUME NEW b \in Stats, MeanBetweenExtremes(b), b.count > 0, NEW live \in Int
  PROVE  /\ Kind(b, live) \in {"NewSignal", "PowerIncrease"} <=> Delta(b, live) > 0
         /\ Kind(b, live) \in {"NewSignal", "SignalGone"} => live < b.min \/ b.max < live
<1>1. PICK n \in Nat \ {0}, s \in Int, lo \in Int, hi \in Int :
        n = b.count /\ s = b.sum /\ lo = b.min /\ hi = b.max /\ n * lo <= s /\ s <= n * hi
  BY DEF Stats, MeanBetweenExtremes
<1>2. PICK d \in Int : d = Delta(b, live) /\ d = live * n - s
  BY <1>1 DEF Delta
<1>3. CASE live > hi + 3
  <2>1. n * hi < live * n
    <3>1. live * n = n * hi + n * (live - hi) /\ n * hi \in Int
      OBVIOUS
    <3>2. n * (live - hi) >= 1
      BY <1>3
    <3> QED BY <3>1, <3>2
  <2>2. n * hi \in Int /\ live * n \in Int
    OBVIOUS
  <2>3. d > 0
    BY <1>1, <1>2, <2>1, <2>2
  <2>4. Kind(b, live) = "NewSignal"
    BY <1>1, <1>3 DEF Kind
  <2> QED BY <1>1, <1>2, <1>3, <2>3, <2>4
<1>4. CASE ~(live > hi + 3) /\ d > 0
  <2>1. Kind(b, live) = "PowerIncrease"
    BY <1>1, <1>2, <1>4 DEF Kind
  <2> QED BY <1>2, <1>4, <2>1
<1>5. CASE ~(live > hi + 3) /\ ~(d > 0)
  <2>1. Kind(b, live) = IF live < lo - 3 THEN "SignalGone" ELSE "PowerDecrease"
    BY <1>1, <1>2, <1>5 DEF Kind
  <2> QED BY <1>1, <1>2, <1>5, <2>1
<1> QED BY <1>3, <1>4, <1>5

LEMMA NoBaselineSound == NoBaseline => BinsSound /\ AnomaliesSound
<1> SUFFICES ASSUME NoBaseline PROVE BinsSound /\ AnomaliesSound
  OBVIOUS
<1>1. bins = [i \in 1..BinCount |-> Unset] /\ measured = [i \in 1..BinCount |-> {}] /\ anomalies = {}
  BY DEF NoBaseline
<1>2. Unset \in Stats /\ MeanBetweenExtremes(Unset)
  BY DEF Unset, Stats, MeanBetweenExtremes
<1> QED BY <1>1, <1>2 DEF BinsSound, AnomaliesSound

(* Whatever the spectra, in whatever order they come, and some of them short: *)
(* the kind of an anomaly tells which way the power went from the mean, and a *)
(* power that the baseline has seen is never new or gone.                     *)
THEOREM KindFollowsBaselineHolds == MasintSpec => []KindFollowsBaseline
<1>1. MasintInit => BinsSound /\ AnomaliesSound
  BY NoBaselineSound DEF MasintInit
<1>2. BinsSound /\ AnomaliesSound /\ [MasintNext]_masintVars => BinsSound' /\ AnomaliesSound'
  <2> SUFFICES ASSUME BinsSound, AnomaliesSound, [MasintNext]_masintVars
               PROVE  BinsSound' /\ AnomaliesSound'
    OBVIOUS
  <2>1. ASSUME NEW powers \in Spectra, UpdateBaseline(powers) PROVE BinsSound' /\ AnomaliesSound'
    <3>1. anomalies' = {}
      BY <2>1 DEF UpdateBaseline
    <3> QED BY <2>1, <3>1, BaselineStep DEF AnomaliesSound
  <2>2. ASSUME NEW powers \in Spectra, DetectAnomalies(powers) PROVE BinsSound' /\ AnomaliesSound'
    <3>1. bins' = bins /\ measured' = measured
      BY <2>2 DEF DetectAnomalies
    <3>2. BinsSound'
      BY <3>1 DEF BinsSound
    <3> QED BY <2>2, <3>2, DetectStep
  <2>3. CASE UNCHANGED masintVars
    BY <2>3 DEF masintVars, BinsSound, AnomaliesSound
  <2> QED BY <2>1, <2>2, <2>3 DEF MasintNext
<1>3. BinsSound /\ AnomaliesSound => KindFollowsBaseline
  <2> SUFFICES ASSUME BinsSound, AnomaliesSound, NEW a \in anomalies
               PROVE  /\ a.kind \in {"NewSignal", "PowerIncrease"} <=> Delta(bins[a.bin], a.live) > 0
                      /\ a.kind \in {"NewSignal", "SignalGone"} => a.live \notin measured[a.bin]
    BY DEF KindFollowsBaseline
  <2>1. PICK i \in 1..BinCount, live \in Int :
          i = a.bin /\ live = a.live /\ bins[i].count > 0 /\ a.kind = Kind(bins[i], live)
    BY DEF AnomaliesSound
  <2>2. PICK b \in Stats : b = bins[i] /\ MeanBetweenExtremes(b)
                           /\ \A p \in measured[i] : b.min <= p /\ p <= b.max
    BY DEF BinsSound
  <2>3. /\ Kind(b, live) \in {"NewSignal", "PowerIncrease"} <=> Delta(b, live) > 0
        /\ Kind(b, live) \in {"NewSignal", "SignalGone"} => live < b.min \/ b.max < live
    BY <2>1, <2>2, KindIsRight
  <2>4. b.min \in Int /\ b.max \in Int
    BY DEF Stats
  <2>5. live < b.min \/ b.max < live => live \notin measured[i]
    BY <2>2, <2>4
  <2> QED BY <2>1, <2>2, <2>3, <2>5
<1> QED BY <1>1, <1>2, <1>3, PTL DEF MasintSpec

----------------------------------------------------------------------------
(* Groups of harmonics *)

GroupsOfPeaks == [fundamental : DOMAIN peaks, harmonics : SUBSET DOMAIN peaks]
GroupingStates == [used : SUBSET DOMAIN peaks, groups : SUBSET GroupsOfPeaks]

Ungrouped == [used |-> {}, groups |-> {}]

\* The peaks that a round takes with the peak it is about.
HarmonicsFor(st, i) ==
  {j \in DOMAIN peaks : j # i /\ j \notin st.used /\ IsMultipleOf(peaks[j], peaks[i])}

LEMMA GroupFromCases ==
  ASSUME NEW st, NEW i
  PROVE  /\ (i \in st.used \/ HarmonicsFor(st, i) = {}) => GroupFrom(st, i) = st
         /\ ~(i \in st.used \/ HarmonicsFor(st, i) = {}) =>
              GroupFrom(st, i) =
                [used |-> st.used \cup HarmonicsFor(st, i) \cup {i},
                 groups |-> st.groups \cup {[fundamental |-> i, harmonics |-> HarmonicsFor(st, i)]}]
BY DEF GroupFrom, HarmonicsFor

LEMMA GroupFromStays ==
  ASSUME NEW st \in GroupingStates, NEW i \in DOMAIN peaks
  PROVE  GroupFrom(st, i) \in GroupingStates
<1>1. CASE i \in st.used \/ HarmonicsFor(st, i) = {}
  BY <1>1, GroupFromCases
<1>2. CASE ~(i \in st.used \/ HarmonicsFor(st, i) = {})
  <2> DEFINE h == HarmonicsFor(st, i)
             g == [fundamental |-> i, harmonics |-> h]
  <2>1. h \subseteq DOMAIN peaks
    BY DEF HarmonicsFor
  <2>2. GroupFrom(st, i) = [used |-> st.used \cup h \cup {i}, groups |-> st.groups \cup {g}]
    BY <1>2, GroupFromCases
  <2>3. g \in GroupsOfPeaks
    BY <2>1 DEF GroupsOfPeaks
  <2>4. st.used \subseteq DOMAIN peaks /\ st.groups \subseteq GroupsOfPeaks
    BY DEF GroupingStates
  <2> HIDE DEF h, g
  <2>5. st.used \cup h \cup {i} \in SUBSET DOMAIN peaks /\ st.groups \cup {g} \in SUBSET GroupsOfPeaks
    BY <2>1, <2>3, <2>4
  <2> QED BY <2>2, <2>5 DEF GroupingStates
<1> QED BY <1>1, <1>2

LEMMA GroupingRounds ==
  ASSUME peaks \in PeakLists
  PROVE  /\ Len(peaks) \in Nat /\ DOMAIN peaks = 1..Len(peaks)
         /\ Grouping[0] = Ungrouped
         /\ \A i \in 1..Len(peaks) : Grouping[i] = GroupFrom(Grouping[i - 1], i)
         /\ \A i \in 0..Len(peaks) : Grouping[i] \in GroupingStates
<1>1. Len(peaks) \in Nat /\ DOMAIN peaks = 1..Len(peaks)
  BY MasintAssumption
<1> DEFINE n == Len(peaks)
           S == GroupingStates
           step == [i \in 1..n |-> [st \in S |-> GroupFrom(st, i)]]
           Defining(f) == f = [i \in 0..n |-> IF i = 0 THEN Ungrouped ELSE GroupFrom(f[i - 1], i)]
<1>2. Ungrouped \in S
  BY DEF Ungrouped, GroupingStates
<1>3. step \in [1..n -> [S -> S]]
  BY <1>1, GroupFromStays
<1>4. PICK f \in [0..n -> S] : f[0] = Ungrouped /\ \A i \in 1..n : f[i] = step[i][f[i - 1]]
  <2>1. n \in Nat /\ StepsOf(step, S, n)
    BY <1>1, <1>3 DEF StepsOf
  <2> HIDE DEF n, S, step
  <2>2. \E f : Iterates(f, S, Ungrouped, n, step)
    BY <1>2, <2>1, IterationExists
  <2> QED BY <2>2 DEF Iterates
<1>5. ASSUME NEW i \in 1..n PROVE f[i] = GroupFrom(f[i - 1], i)
  <2>1. i - 1 \in 0..n
    BY <1>1
  <2>2. f[i - 1] \in S
    BY <1>4, <2>1
  <2> QED BY <1>4, <2>2
<1>6. Defining(f)
  <2> DEFINE g == [i \in 0..n |-> IF i = 0 THEN Ungrouped ELSE GroupFrom(f[i - 1], i)]
  <2>1. ASSUME NEW i \in 0..n PROVE f[i] = g[i]
    <3>1. CASE i = 0
      BY <1>4, <3>1
    <3>2. CASE i # 0
      <4>1. i \in 1..n
        BY <1>1, <3>2
      <4> QED BY <1>5, <3>2, <4>1
    <3> QED BY <3>1, <3>2
  <2> HIDE DEF S
  <2>2. DOMAIN f = 0..n /\ f = [i \in 0..n |-> f[i]]
    BY <1>4
  <2> QED BY <2>1, <2>2
<1>7. Grouping = CHOOSE f1 : Defining(f1)
  BY DEF Grouping, Ungrouped
<1>8. Defining(Grouping)
  <2> HIDE DEF Defining
  <2> QED BY <1>6, <1>7
<1>9. Grouping[0] = Ungrouped /\ \A i \in 1..n : Grouping[i] = GroupFrom(Grouping[i - 1], i)
  <2>1. 0 \in 0..n /\ \A i \in 1..n : i \in 0..n /\ i # 0
    BY <1>1
  <2> QED BY <1>8, <2>1
<1>10. \A i \in 0..n : Grouping[i] \in S
  <2> DEFINE G == {i \in 0..n : Grouping[i] \in S}
  <2>1. 0 \in G
    BY <1>1, <1>2, <1>9
  <2>2. ASSUME NEW i \in 1..n, i - 1 \in G PROVE i \in G
    BY <1>1, <1>9, <2>2, GroupFromStays
  <2> HIDE DEF G
  <2>3. \A i \in 0..n : i \in G
    BY <1>1, <2>1, <2>2, NumbersUpTo
  <2> QED BY <2>3 DEF G
<1> QED BY <1>1, <1>9, <1>10

\* Everything that is in a group is taken, and no peak is in two groups.
MembersTaken(st) == \A g \in st.groups : {g.fundamental} \cup g.harmonics \subseteq st.used
GroupsDisjoint(st) ==
  \A g, h \in st.groups :
    g # h => ({g.fundamental} \cup g.harmonics) \cap ({h.fundamental} \cup h.harmonics) = {}

LEMMA GroupFromKeepsDisjoint ==
  ASSUME NEW st, MembersTaken(st), GroupsDisjoint(st), NEW i
  PROVE  MembersTaken(GroupFrom(st, i)) /\ GroupsDisjoint(GroupFrom(st, i))
<1>1. CASE i \in st.used \/ HarmonicsFor(st, i) = {}
  BY <1>1, GroupFromCases
<1>2. CASE ~(i \in st.used \/ HarmonicsFor(st, i) = {})
  <2> DEFINE h == HarmonicsFor(st, i)
             new == [fundamental |-> i, harmonics |-> h]
             next == GroupFrom(st, i)
  <2>1. h \cap st.used = {} /\ i \notin st.used
    BY <1>2 DEF HarmonicsFor
  <2> HIDE DEF h
  <2>2. next = [used |-> st.used \cup h \cup {i}, groups |-> st.groups \cup {new}]
    BY <1>2, GroupFromCases DEF h
  <2>3. next.used = st.used \cup h \cup {i} /\ next.groups = st.groups \cup {new}
    BY <2>2
  <2>4. new.fundamental = i /\ new.harmonics = h
    OBVIOUS
  <2> HIDE DEF next, new
  <2>5. MembersTaken(next)
    BY <2>3, <2>4 DEF MembersTaken
  <2>6. ({new.fundamental} \cup new.harmonics) \cap st.used = {}
    BY <2>1, <2>4
  <2>7. GroupsDisjoint(next)
    BY <2>3, <2>6 DEF GroupsDisjoint, MembersTaken
  <2> QED BY <2>5, <2>7 DEF next
<1> QED BY <1>1, <1>2

\* What holds of the groups after k rounds.
Ascending == \A i, j \in DOMAIN peaks : i < j => peaks[i] < peaks[j]
IsMultiple(j, i) == j # i /\ IsMultipleOf(peaks[j], peaks[i])
IsHarmonic(st, j) == \E g \in st.groups : j \in g.harmonics

Complete(st, k) ==
  /\ \A g \in st.groups : g.fundamental \in DOMAIN peaks /\ g.fundamental <= k
  /\ \A x \in st.used : IsHarmonic(st, x) \/ \E g \in st.groups : x = g.fundamental
  /\ \A i, j \in DOMAIN peaks : i <= k /\ IsMultiple(j, i) /\ ~IsHarmonic(st, i) =>
       j \in st.used /\ (Ascending => IsHarmonic(st, j))

\* A multiple is greater, and so it comes later in an ascending list.
LEMMA MultiplesAreLater ==
  ASSUME peaks \in PeakLists, Ascending, NEW i \in DOMAIN peaks, NEW j \in DOMAIN peaks, IsMultiple(j, i)
  PROVE  i < j
<1>1. PICK a \in Nat \ {0}, b \in Nat \ {0} : a = peaks[i] /\ b = peaks[j]
  BY MasintAssumption
<1>2. PICK d \in Nat \ {0}, e \in Nat : d = 2 * a /\ e = 2 * b + a
  OBVIOUS
<1>3. PICK n \in Int : n = e \div d /\ d * n \in Int /\ n >= 2
  <2>1. e \div d \in Int /\ d * (e \div d) \in Int
    BY Division
  <2>2. e \div d >= 2
    BY <1>1, <1>2 DEF IsMultiple, IsMultipleOf, Nearest
  <2> QED BY <2>1, <2>2
<1>4. d * n <= e
  <2>1. e = d * (e \div d) + (e % d) /\ e % d \in 0..(d - 1)
    BY Division
  <2> QED BY <1>3, <2>1
<1>5. a < b
  <2>1. PICK m \in Nat : m = n - 2
    BY <1>3
  <2>2. d * n = d * 2 + d * m
    BY <2>1
  <2>3. d * m \in Nat
    BY <2>1
  <2> QED BY <1>2, <1>4, <2>2, <2>3
<1>6. i \in Nat /\ j \in Nat /\ i # j
  BY MasintAssumption DEF IsMultiple
<1>7. ~(j < i)
  BY <1>1, <1>5 DEF Ascending
<1> QED BY <1>6, <1>7

LEMMA GroupFromCompletes ==
  ASSUME peaks \in PeakLists, NEW i \in DOMAIN peaks,
         NEW st \in GroupingStates, Complete(st, i - 1)
  PROVE  Complete(GroupFrom(st, i), i)
<1>1. DOMAIN peaks \subseteq Nat
  BY MasintAssumption
<1>2. \A g \in st.groups : g.fundamental \in DOMAIN peaks /\ g.fundamental <= i - 1
  BY DEF Complete
<1>3. \A g \in st.groups : g.fundamental < i /\ g.fundamental <= i
  BY <1>1, <1>2
<1>4. \A k \in DOMAIN peaks : k <= i => k <= i - 1 \/ k = i
  BY <1>1
\* In an ascending list, a multiple of this peak that is taken is a harmonic.
<1>5. ASSUME Ascending, NEW j \in DOMAIN peaks, IsMultiple(j, i), j \in st.used PROVE IsHarmonic(st, j)
  <2>1. i < j
    BY <1>5, MultiplesAreLater
  <2>2. \A g \in st.groups : j # g.fundamental
    BY <1>1, <1>2, <1>3, <2>1
  <2> QED BY <1>5, <2>2 DEF Complete
<1>6. CASE i \in st.used
  <2>1. GroupFrom(st, i) = st
    BY <1>6, GroupFromCases
  <2>2. IsHarmonic(st, i)
    <3>1. \A g \in st.groups : i # g.fundamental
      BY <1>1, <1>3
    <3> QED BY <1>6, <3>1 DEF Complete
  <2>3. \A k, j \in DOMAIN peaks : k <= i /\ IsMultiple(j, k) /\ ~IsHarmonic(st, k) =>
          j \in st.used /\ (Ascending => IsHarmonic(st, j))
    BY <1>4, <2>2 DEF Complete
  <2> QED BY <1>2, <1>3, <2>1, <2>3 DEF Complete
<1>7. CASE i \notin st.used
  <2> DEFINE h == HarmonicsFor(st, i)
  <2>1. ASSUME NEW j \in DOMAIN peaks, IsMultiple(j, i) PROVE j \in st.used \/ j \in h
    BY <2>1 DEF HarmonicsFor, IsMultiple
  <2> HIDE DEF h
  <2>2. CASE h = {}
    <3>1. GroupFrom(st, i) = st
      BY <2>2, GroupFromCases DEF h
    <3>2. \A k, j \in DOMAIN peaks : k <= i /\ IsMultiple(j, k) /\ ~IsHarmonic(st, k) =>
            j \in st.used /\ (Ascending => IsHarmonic(st, j))
      BY <1>4, <1>5, <2>1, <2>2 DEF Complete
    <3> QED BY <1>2, <1>3, <3>1, <3>2 DEF Complete
  <2>3. CASE h # {}
    <3> DEFINE new == [fundamental |-> i, harmonics |-> h]
               next == GroupFrom(st, i)
    <3>1. next = [used |-> st.used \cup h \cup {i}, groups |-> st.groups \cup {new}]
      BY <1>7, <2>3, GroupFromCases DEF h
    <3>2. next.used = st.used \cup h \cup {i} /\ next.groups = st.groups \cup {new}
          /\ new.fundamental = i /\ new.harmonics = h
      BY <3>1
    <3> HIDE DEF next, new
    <3>3. \A j : IsHarmonic(next, j) <=> IsHarmonic(st, j) \/ j \in h
      BY <3>2 DEF IsHarmonic
    <3>4. \A j \in DOMAIN peaks : IsMultiple(j, i) =>
            j \in next.used /\ (Ascending => IsHarmonic(next, j))
      BY <1>5, <2>1, <3>2, <3>3
    <3>5. \A k, j \in DOMAIN peaks : k <= i /\ IsMultiple(j, k) /\ ~IsHarmonic(next, k) =>
            j \in next.used /\ (Ascending => IsHarmonic(next, j))
      <4>1. \A k, j \in DOMAIN peaks : k <= i - 1 /\ IsMultiple(j, k) /\ ~IsHarmonic(st, k) =>
              j \in st.used /\ (Ascending => IsHarmonic(st, j))
        BY DEF Complete
      <4> QED BY <1>4, <3>2, <3>3, <3>4, <4>1
    <3>6. \A g \in next.groups : g.fundamental \in DOMAIN peaks /\ g.fundamental <= i
      <4>1. i <= i
        BY <1>1
      <4> QED BY <1>2, <1>3, <3>2, <4>1
    <3>7. \A x \in next.used : IsHarmonic(next, x) \/ \E g \in next.groups : x = g.fundamental
      <4>1. \A x \in st.used : IsHarmonic(st, x) \/ \E g \in st.groups : x = g.fundamental
        BY DEF Complete
      <4> QED BY <3>2, <3>3, <4>1
    <3> QED BY <3>5, <3>6, <3>7 DEF Complete, next
  <2> QED BY <2>2, <2>3
<1> QED BY <1>6, <1>7

(* Whatever the peaks and the tolerance: no peak is in two groups, and every *)
(* peak that is a multiple of another one is in a group, in an ascending    *)
(* list as a harmonic, unless that other one is a harmonic itself.          *)
THEOREM HarmonicsAreGroupedOnceHolds == MasintSpec => []HarmonicsAreGroupedOnce
<1>1. MasintInit => peaks \in PeakLists
  BY DEF MasintInit
<1>2. peaks \in PeakLists /\ [MasintNext]_masintVars => (peaks \in PeakLists)'
  BY DEF MasintNext, UpdateBaseline, DetectAnomalies, masintVars
<1>3. peaks \in PeakLists => HarmonicsAreGroupedOnce
  <2> SUFFICES ASSUME peaks \in PeakLists PROVE HarmonicsAreGroupedOnce
    OBVIOUS
  <2> DEFINE n == Len(peaks)
  <2>1. /\ n \in Nat /\ DOMAIN peaks = 1..n /\ Grouping[0] = Ungrouped
        /\ \A i \in 1..n : Grouping[i] = GroupFrom(Grouping[i - 1], i)
        /\ \A i \in 0..n : Grouping[i] \in GroupingStates
    BY GroupingRounds
  <2> HIDE DEF n
  <2>2. MembersTaken(Grouping[n]) /\ GroupsDisjoint(Grouping[n])
    <3> DEFINE G == {i \in 0..n : MembersTaken(Grouping[i]) /\ GroupsDisjoint(Grouping[i])}
    <3>1. 0 \in G
      BY <2>1 DEF Ungrouped, MembersTaken, GroupsDisjoint
    <3>2. ASSUME NEW i \in 1..n, i - 1 \in G PROVE i \in G
      BY <2>1, <3>2, GroupFromKeepsDisjoint
    <3> HIDE DEF G
    <3>3. \A i \in 0..n : i \in G
      BY <2>1, <3>1, <3>2, NumbersUpTo
    <3>4. n \in 0..n
      BY <2>1
    <3> QED BY <3>3, <3>4 DEF G
  <2>3. Complete(Grouping[n], n)
    <3> DEFINE G == {i \in 0..n : Complete(Grouping[i], i)}
    <3>1. 0 \in G
      <4>1. \A i \in DOMAIN peaks : ~(i <= 0)
        BY <2>1
      <4>2. Complete(Ungrouped, 0)
        BY <4>1 DEF Complete, Ungrouped
      <4> QED BY <2>1, <4>2
    <3>2. ASSUME NEW i \in 1..n, i - 1 \in G PROVE i \in G
      <4>1. i - 1 \in 0..n /\ i \in 0..n /\ i \in DOMAIN peaks /\ Complete(Grouping[i - 1], i - 1)
        BY <2>1, <3>2
      <4>2. Complete(GroupFrom(Grouping[i - 1], i), i)
        BY <2>1, <4>1, GroupFromCompletes
      <4> QED BY <2>1, <4>1, <4>2
    <3> HIDE DEF G
    <3>3. \A i \in 0..n : i \in G
      BY <2>1, <3>1, <3>2, NumbersUpTo
    <3>4. n \in 0..n
      BY <2>1
    <3> QED BY <3>3, <3>4 DEF G
  <2>4. FindHarmonics = Grouping[n].groups
    BY DEF FindHarmonics, n
  <2>5. ASSUME NEW i \in DOMAIN peaks, NEW j \in DOMAIN peaks, i # j, IsMultipleOf(peaks[j], peaks[i]),
               ~(\E g \in FindHarmonics : i \in g.harmonics)
        PROVE  /\ \E g \in FindHarmonics : j \in {g.fundamental} \cup g.harmonics
               /\ Ascending => \E g \in FindHarmonics : j \in g.harmonics
    <3>1. i <= n /\ IsMultiple(j, i) /\ ~IsHarmonic(Grouping[n], i)
      BY <2>1, <2>4, <2>5 DEF IsMultiple, IsHarmonic
    <3>2. j \in Grouping[n].used /\ (Ascending => IsHarmonic(Grouping[n], j))
      BY <2>3, <3>1 DEF Complete
    <3>3. IsHarmonic(Grouping[n], j) \/ \E g \in Grouping[n].groups : j = g.fundamental
      BY <2>3, <3>2 DEF Complete
    <3> QED BY <2>4, <3>2, <3>3 DEF IsHarmonic
  <2> QED BY <2>2, <2>4, <2>5 DEF HarmonicsAreGroupedOnce, GroupsDisjoint, Ascending
<1> QED BY <1>1, <1>2, <1>3, PTL DEF MasintSpec

----------------------------------------------------------------------------
(* Pulses *)

Detectors == [inPulse : BOOLEAN, pulseStart : Nat, sampleCount : Nat, prevToa : Nat]
Words == [toa : Nat, pw : Int, pri : Int]

\* What the first m samples of s say of pulses.
High(s, i) == s[i] >= Threshold
RisesAt(s, m, i) == i \in 1..m /\ High(s, i) /\ (i = 1 \/ ~High(s, i - 1))
PulseFrom(s, m, i, j) ==
  RisesAt(s, m, i) /\ j \in (i + 1)..m /\ ~High(s, j) /\ \A k \in i..(j - 1) : High(s, k)

\* An open pulse is where the samples are high at the end.
OpenPulse(d, s, m) ==
  /\ d.inPulse = TRUE <=> (m > 0 /\ High(s, m))
  /\ d.inPulse = TRUE => RisesAt(s, m, d.pulseStart) /\ \A k \in d.pulseStart..m : High(s, k)

\* Each word is about a pulse, and its interval is the distance to the one before.
WordsRight(out, s, m) ==
  \A n \in 1..Len(out) :
    /\ PulseFrom(s, m, out[n].toa, out[n].toa + out[n].pw)
    /\ out[n].pri = IF n = 1 THEN NoToa ELSE out[n].toa - out[n - 1].toa
    /\ n > 1 => out[n - 1].toa < out[n].toa

\* Every rise has its word, or is the open pulse's.
NoneMissing(d, out, s, m) ==
  \A i \in 1..m : RisesAt(s, m, i) =>
    (d.inPulse = TRUE /\ i = d.pulseStart) \/ \E n \in 1..Len(out) : out[n].toa = i

FollowsStream(d, out, s, m) ==
  /\ d \in Detectors /\ out \in Seq(Words) /\ d.sampleCount = m
  /\ d.prevToa = IF Len(out) = 0 THEN NoToa ELSE out[Len(out)].toa
  /\ OpenPulse(d, s, m) /\ WordsRight(out, s, m) /\ NoneMissing(d, out, s, m)

\* One sample: the cases of the loop.
Detector(inPulse, pulseStart, sampleCount, prevToa) ==
  [inPulse |-> inPulse, pulseStart |-> pulseStart, sampleCount |-> sampleCount, prevToa |-> prevToa]
Word(toa, pw, pri) == [toa |-> toa, pw |-> pw, pri |-> pri]
Round(d, out) == [d |-> d, out |-> out]

LEMMA DetectorFields ==
  ASSUME NEW d \in Detectors
  PROVE  /\ d.inPulse \in BOOLEAN /\ d.pulseStart \in Nat /\ d.sampleCount \in Nat /\ d.prevToa \in Nat
         /\ [d EXCEPT !.sampleCount = @ + 1] =
              Detector(d.inPulse, d.pulseStart, d.sampleCount + 1, d.prevToa)
BY DEF Detectors, Detector

Risen(r, yes, at) == [r EXCEPT !.inPulse = yes, !.pulseStart = at]
Fallen(r, no, at) == [r EXCEPT !.inPulse = no, !.prevToa = at]

LEMMA DetectorWrites ==
  ASSUME NEW a, NEW b, NEW c, NEW e, NEW v, NEW w
  PROVE  /\ Risen(Detector(a, b, c, e), v, w) = Detector(v, w, c, e)
         /\ Fallen(Detector(a, b, c, e), v, w) = Detector(v, b, c, w)
<1> DEFINE r == Detector(a, b, c, e)
           r1 == [r EXCEPT !.inPulse = v]
           r2 == [r1 EXCEPT !.pulseStart = w]
           r3 == [r1 EXCEPT !.prevToa = w]
<1>1. r1 = Detector(v, b, c, e)
  BY DEF Detector
<1>2. Risen(r, v, w) = r2 /\ Fallen(r, v, w) = r3
  BY DEF Risen, Fallen
<1> HIDE DEF r1
<1>3. r2 = Detector(v, w, c, e)
  BY <1>1 DEF Detector
<1>4. r3 = Detector(v, b, c, w)
  BY <1>1 DEF Detector
<1> QED BY <1>2, <1>3, <1>4

LEMMA SampleIs ==
  ASSUME NEW d \in Detectors, NEW out, NEW p \in Int
  PROVE  Sample(Round(d, out), p) =
           LET m == d.sampleCount + 1
           IN IF d.inPulse = FALSE /\ p >= Threshold THEN Round(Detector(TRUE, m, m, d.prevToa), out)
              ELSE IF d.inPulse = TRUE /\ ~(p >= Threshold)
              THEN Round(Detector(FALSE, d.pulseStart, m, d.pulseStart),
                         Append(out, Word(d.pulseStart, m - d.pulseStart, Pri(d.pulseStart, d.prevToa))))
              ELSE Round(Detector(d.inPulse, d.pulseStart, m, d.prevToa), out)
<1> DEFINE m == d.sampleCount + 1
           next == Detector(d.inPulse, d.pulseStart, m, d.prevToa)
<1>1. d.inPulse \in BOOLEAN /\ [d EXCEPT !.sampleCount = @ + 1] = next
  BY DetectorFields
<1>2. p < Threshold <=> ~(p >= Threshold)
  BY PowersAssumption
<1>3. Round(d, out).d = d /\ Round(d, out).out = out
      /\ \A x : [Round(d, out) EXCEPT !.d = x] = Round(x, out)
  BY DEF Round
<1>4. /\ next.inPulse = d.inPulse /\ next.pulseStart = d.pulseStart
      /\ next.sampleCount = m /\ next.prevToa = d.prevToa
  BY DEF Detector
<1>9. Risen(next, TRUE, m) = Detector(TRUE, m, m, d.prevToa)
  <2>1. \A v : Risen(next, v, m) = Detector(v, m, m, d.prevToa)
    BY DetectorWrites
  <2> HIDE DEF next, m
  <2> QED BY <2>1, Zenon
<1>10. Fallen(next, FALSE, d.pulseStart) = Detector(FALSE, d.pulseStart, m, d.pulseStart)
  <2>1. \A v : Fallen(next, v, d.pulseStart) = Detector(v, d.pulseStart, m, d.pulseStart)
    BY DetectorWrites
  <2> HIDE DEF next, m
  <2> QED BY <2>1, Zenon
<1> HIDE DEF next
<1>5. Sample(Round(d, out), p) =
        IF ~d.inPulse /\ p >= Threshold THEN Round(Risen(next, TRUE, m), out)
        ELSE IF d.inPulse /\ p < Threshold
        THEN Round(Fallen(next, FALSE, d.pulseStart),
                   Append(out, Word(d.pulseStart, m - d.pulseStart, Pri(d.pulseStart, d.prevToa))))
        ELSE Round(next, out)
  <2>1. Sample(Round(d, out), p) =
          IF ~next.inPulse /\ p >= Threshold
          THEN [Round(d, out) EXCEPT !.d = [next EXCEPT !.inPulse = TRUE, !.pulseStart = next.sampleCount]]
          ELSE IF next.inPulse /\ p < Threshold
          THEN [d |-> [next EXCEPT !.inPulse = FALSE, !.prevToa = next.pulseStart],
                out |-> Append(out, [toa |-> next.pulseStart, pw |-> next.sampleCount - next.pulseStart,
                                     pri |-> Pri(next.pulseStart, next.prevToa)])]
          ELSE [Round(d, out) EXCEPT !.d = next]
    BY <1>1, <1>3, Zenon DEF Sample
  <2> QED BY <1>3, <1>4, <2>1, Zenon DEF Word, Round, Risen, Fallen
<1>6. CASE d.inPulse = FALSE /\ p >= Threshold
  BY <1>5, <1>6, <1>9
<1>7. CASE d.inPulse = TRUE /\ ~(p >= Threshold)
  BY <1>2, <1>5, <1>7, <1>10
<1>8. CASE ~(d.inPulse = FALSE /\ p >= Threshold) /\ ~(d.inPulse = TRUE /\ ~(p >= Threshold))
  <2>1. Sample(Round(d, out), p) = Round(next, out)
    BY <1>1, <1>2, <1>5, <1>8
  <2> QED BY <1>8, <2>1 DEF next
<1> QED BY <1>6, <1>7, <1>8

LEMMA RiseIsNew ==
  ASSUME NEW s, NEW m \in Nat, NEW i
  PROVE  /\ RisesAt(s, m, i) => RisesAt(s, m + 1, i)
         /\ RisesAt(s, m + 1, i) => RisesAt(s, m, i) \/ (i = m + 1 /\ High(s, m + 1) /\ (m = 0 \/ ~High(s, m)))
<1>1. RisesAt(s, m, i) => RisesAt(s, m + 1, i)
  BY DEF RisesAt
<1>2. ASSUME RisesAt(s, m + 1, i), i # m + 1 PROVE RisesAt(s, m, i)
  <2>1. i \in 1..m
    BY <1>2 DEF RisesAt
  <2> QED BY <1>2, <2>1 DEF RisesAt
<1>3. ASSUME RisesAt(s, m + 1, i), i = m + 1 PROVE High(s, m + 1) /\ (m = 0 \/ ~High(s, m))
  <2>1. (m + 1) - 1 = m /\ (m + 1 = 1 => m = 0)
    OBVIOUS
  <2> QED BY <1>3, <2>1 DEF RisesAt
<1> QED BY <1>1, <1>2, <1>3

LEMMA PulseStaysWhere ==
  ASSUME NEW s, NEW m \in Nat, NEW i, NEW j, PulseFrom(s, m, i, j)
  PROVE  PulseFrom(s, m + 1, i, j)
<1>1. RisesAt(s, m + 1, i)
  BY RiseIsNew DEF PulseFrom
<1>2. i \in Int /\ j \in (i + 1)..(m + 1)
  BY DEF PulseFrom, RisesAt
<1> QED BY <1>1, <1>2 DEF PulseFrom

LEMMA WordsStayRight ==
  ASSUME NEW s, NEW m \in Nat, NEW out, WordsRight(out, s, m)
  PROVE  WordsRight(out, s, m + 1)
BY PulseStaysWhere DEF WordsRight

\* The sample leaves the level where it was.
LEMMA LevelStays ==
  ASSUME NEW s, NEW m \in Nat, NEW d, NEW all, FollowsStream(d, all, s, m),
         d.inPulse = TRUE <=> High(s, m + 1)
  PROVE  FollowsStream(Detector(d.inPulse, d.pulseStart, m + 1, d.prevToa), all, s, m + 1)
<1> DEFINE e == Detector(d.inPulse, d.pulseStart, m + 1, d.prevToa)
<1>1. /\ e.inPulse = d.inPulse /\ e.pulseStart = d.pulseStart
      /\ e.sampleCount = m + 1 /\ e.prevToa = d.prevToa
  BY DEF Detector
<1>2. e \in Detectors
  BY DEF Detector, Detectors, FollowsStream
<1> HIDE DEF e
<1>3. OpenPulse(e, s, m + 1)
  <2>1. ASSUME d.inPulse = TRUE PROVE RisesAt(s, m + 1, d.pulseStart)
    BY <2>1, RiseIsNew DEF FollowsStream, OpenPulse
  <2>2. ASSUME d.inPulse = TRUE, NEW k \in d.pulseStart..(m + 1) PROVE High(s, k)
    <3>1. d.pulseStart \in Nat
      BY <2>2 DEF FollowsStream, OpenPulse, RisesAt
    <3>2. k = m + 1 \/ k \in d.pulseStart..m
      BY <3>1
    <3> QED BY <2>2, <3>2 DEF FollowsStream, OpenPulse
  <2>3. m + 1 > 0
    OBVIOUS
  <2> QED BY <1>1, <2>1, <2>2, <2>3 DEF OpenPulse
<1>4. NoneMissing(e, all, s, m + 1)
  <2> SUFFICES ASSUME NEW i \in 1..(m + 1), RisesAt(s, m + 1, i)
               PROVE  (d.inPulse = TRUE /\ i = d.pulseStart) \/ \E n \in 1..Len(all) : all[n].toa = i
    BY <1>1 DEF NoneMissing
  <2>1. RisesAt(s, m, i)
    <3>1. High(s, m + 1) => m > 0 /\ High(s, m)
      BY DEF FollowsStream, OpenPulse
    <3> QED BY <3>1, RiseIsNew
  <2>2. i \in 1..m
    BY <2>1 DEF RisesAt
  <2> QED BY <2>1, <2>2 DEF FollowsStream, NoneMissing
<1>5. WordsRight(all, s, m + 1)
  BY WordsStayRight DEF FollowsStream
<1> QED BY <1>1, <1>2, <1>3, <1>4, <1>5 DEF FollowsStream, e

\* A pulse begins.
LEMMA LevelRises ==
  ASSUME NEW s, NEW m \in Nat, NEW d, NEW all, FollowsStream(d, all, s, m),
         d.inPulse = FALSE, High(s, m + 1)
  PROVE  FollowsStream(Detector(TRUE, m + 1, m + 1, d.prevToa), all, s, m + 1)
<1> DEFINE e == Detector(TRUE, m + 1, m + 1, d.prevToa)
<1>1. e.inPulse = TRUE /\ e.pulseStart = m + 1 /\ e.sampleCount = m + 1 /\ e.prevToa = d.prevToa
  BY DEF Detector
<1>2. e \in Detectors
  BY DEF Detector, Detectors, FollowsStream
<1> HIDE DEF e
<1>3. OpenPulse(e, s, m + 1)
  <2>1. m = 0 \/ ~High(s, m)
    BY DEF FollowsStream, OpenPulse
  <2>2. RisesAt(s, m + 1, m + 1)
    <3>1. m + 1 \in 1..(m + 1) /\ (m + 1) - 1 = m
      OBVIOUS
    <3> QED BY <2>1, <3>1 DEF RisesAt
  <2>3. \A k \in (m + 1)..(m + 1) : k = m + 1
    OBVIOUS
  <2>4. m + 1 > 0
    OBVIOUS
  <2> QED BY <1>1, <2>2, <2>3, <2>4 DEF OpenPulse
<1>4. NoneMissing(e, all, s, m + 1)
  <2> SUFFICES ASSUME NEW i \in 1..(m + 1), RisesAt(s, m + 1, i), i # m + 1
               PROVE  \E n \in 1..Len(all) : all[n].toa = i
    BY <1>1 DEF NoneMissing
  <2>1. RisesAt(s, m, i)
    BY RiseIsNew
  <2>2. i \in 1..m
    BY <2>1 DEF RisesAt
  <2> QED BY <2>1, <2>2 DEF FollowsStream, NoneMissing
<1>5. WordsRight(all, s, m + 1)
  BY WordsStayRight DEF FollowsStream
<1> QED BY <1>1, <1>2, <1>3, <1>4, <1>5 DEF FollowsStream, e

\* A pulse ends: its arrival is later than that of the word before, whose pulse
\* ended where the samples of this one cannot have begun.
LEMMA LevelFalls ==
  ASSUME NEW s, NEW m \in Nat, NEW d, NEW all, FollowsStream(d, all, s, m),
         d.inPulse = TRUE, ~High(s, m + 1)
  PROVE  FollowsStream(Detector(FALSE, d.pulseStart, m + 1, d.pulseStart),
                       Append(all, Word(d.pulseStart, (m + 1) - d.pulseStart, Pri(d.pulseStart, d.prevToa))),
                       s, m + 1)
<1> DEFINE ps == d.pulseStart
           e == Detector(FALSE, ps, m + 1, ps)
           w == Word(ps, (m + 1) - ps, Pri(ps, d.prevToa))
           new == Append(all, w)
<1>1. e.inPulse = FALSE /\ e.pulseStart = ps /\ e.sampleCount = m + 1 /\ e.prevToa = ps
  BY DEF Detector
<1>2. /\ ps \in 1..m /\ RisesAt(s, m, ps) /\ \A k \in ps..m : High(s, k)
      /\ d.prevToa \in Nat
  BY DEF FollowsStream, OpenPulse, RisesAt, Detectors
<1>3. e \in Detectors
  BY <1>2 DEF Detector, Detectors
<1>4. w.toa = ps /\ w.pw = (m + 1) - ps /\ w.pri = Pri(ps, d.prevToa)
  BY DEF Word
<1>5. w \in Words
  <2>1. Pri(ps, d.prevToa) \in Int
    BY <1>2 DEF Pri, NoToa
  <2> QED BY <1>2, <2>1 DEF Word, Words
<1> HIDE DEF e, w
<1>6. /\ all \in Seq(Words) /\ Len(all) \in Nat /\ new \in Seq(Words) /\ Len(new) = Len(all) + 1
      /\ new[Len(all) + 1] = w /\ \A n \in 1..Len(all) : new[n] = all[n]
  BY <1>5 DEF FollowsStream
<1> HIDE DEF new, ps
<1>7. PulseFrom(s, m + 1, ps, m + 1)
  <2>1. RisesAt(s, m + 1, ps)
    BY <1>2, RiseIsNew
  <2>2. m + 1 \in (ps + 1)..(m + 1) /\ (m + 1) - 1 = m
    BY <1>2
  <2> QED BY <1>2, <2>1, <2>2 DEF PulseFrom
<1>8. ASSUME NEW n \in 1..Len(all)
      PROVE  /\ all[n].toa \in 1..m /\ all[n].toa < ps
  <2>1. PICK i, j : i = all[n].toa /\ j = all[n].toa + all[n].pw /\ PulseFrom(s, m, i, j)
    BY DEF FollowsStream, WordsRight
  <2>2. i \in 1..m /\ j \in (i + 1)..m /\ ~High(s, j)
    BY <2>1 DEF PulseFrom, RisesAt
  <2>3. j \notin ps..m
    BY <1>2, <2>2
  <2>4. j < ps /\ i < j
    BY <1>2, <2>2, <2>3
  <2> QED BY <1>2, <2>1, <2>2, <2>4
<1>9. w.pri = IF Len(all) = 0 THEN NoToa ELSE ps - all[Len(all)].toa
  <2>1. CASE Len(all) = 0
    <3>1. d.prevToa = NoToa
      BY <2>1 DEF FollowsStream
    <3> QED BY <1>4, <2>1, <3>1 DEF Pri
  <2>2. CASE Len(all) # 0
    <3>1. d.prevToa = all[Len(all)].toa
      BY <2>2 DEF FollowsStream
    <3>2. Len(all) \in 1..Len(all)
      BY <1>6, <2>2
    <3>3. all[Len(all)].toa # NoToa
      BY <1>8, <3>2 DEF NoToa
    <3> QED BY <1>4, <2>2, <3>1, <3>3 DEF Pri
  <2> QED BY <2>1, <2>2
<1>10. WordsRight(new, s, m + 1)
  <2> SUFFICES ASSUME NEW n \in 1..Len(new)
               PROVE  /\ PulseFrom(s, m + 1, new[n].toa, new[n].toa + new[n].pw)
                      /\ new[n].pri = IF n = 1 THEN NoToa ELSE new[n].toa - new[n - 1].toa
                      /\ n > 1 => new[n - 1].toa < new[n].toa
    BY DEF WordsRight
  <2>1. CASE n \in 1..Len(all)
    <3>1. new[n] = all[n] /\ (n # 1 => n - 1 \in 1..Len(all)) /\ (n > 1 => n # 1)
      BY <1>6, <2>1
    <3>2. n # 1 => new[n - 1] = all[n - 1]
      BY <1>6, <3>1
    <3>3. WordsRight(all, s, m + 1)
      BY WordsStayRight DEF FollowsStream
    <3>4. /\ PulseFrom(s, m + 1, all[n].toa, all[n].toa + all[n].pw)
          /\ all[n].pri = IF n = 1 THEN NoToa ELSE all[n].toa - all[n - 1].toa
          /\ n > 1 => all[n - 1].toa < all[n].toa
      BY <2>1, <3>3 DEF WordsRight
    <3> QED BY <3>1, <3>2, <3>4
  <2>2. CASE n = Len(all) + 1
    <3>1. new[n] = w /\ (n = 1 <=> Len(all) = 0) /\ (n > 1 => n # 1) /\ n - 1 = Len(all)
      BY <1>6, <2>2
    <3>2. n # 1 => Len(all) \in 1..Len(all)
      BY <1>6, <3>1
    <3>3. n # 1 => new[n - 1] = all[Len(all)] /\ all[Len(all)].toa < ps
      BY <1>6, <1>8, <3>1, <3>2
    <3>4. ps + ((m + 1) - ps) = m + 1
      BY <1>2
    <3>5. PulseFrom(s, m + 1, w.toa, w.toa + w.pw)
      BY <1>4, <1>7, <3>4
    <3>6. w.pri = IF n = 1 THEN NoToa ELSE w.toa - new[n - 1].toa
      BY <1>4, <1>9, <3>1, <3>3
    <3>7. n > 1 => new[n - 1].toa < w.toa
      BY <1>4, <3>1, <3>3
    <3> QED BY <3>1, <3>5, <3>6, <3>7
  <2> QED BY <1>6, <2>1, <2>2
<1>11. NoneMissing(e, new, s, m + 1)
  <2> SUFFICES ASSUME NEW i \in 1..(m + 1), RisesAt(s, m + 1, i)
               PROVE  \E n \in 1..Len(new) : new[n].toa = i
    BY DEF NoneMissing
  <2>1. RisesAt(s, m, i)
    BY RiseIsNew
  <2>2. i \in 1..m
    BY <2>1 DEF RisesAt
  <2>3. i = ps \/ \E n \in 1..Len(all) : all[n].toa = i
    BY <2>1, <2>2 DEF FollowsStream, NoneMissing, ps
  <2>4. Len(all) + 1 \in 1..Len(new) /\ \A n \in 1..Len(all) : n \in 1..Len(new)
    BY <1>6
  <2>5. CASE i = ps
    BY <1>4, <1>6, <2>4, <2>5
  <2>6. CASE \E n \in 1..Len(all) : all[n].toa = i
    BY <1>6, <2>4, <2>6
  <2> QED BY <2>3, <2>5, <2>6
<1>12. OpenPulse(e, s, m + 1)
  BY <1>1 DEF OpenPulse
<1>13. e.prevToa = IF Len(new) = 0 THEN NoToa ELSE new[Len(new)].toa
  BY <1>1, <1>4, <1>6
<1>14. FollowsStream(e, new, s, m + 1)
  BY <1>1, <1>3, <1>6, <1>10, <1>11, <1>12, <1>13 DEF FollowsStream
<1> QED BY <1>14 DEF e, new, w, ps

Rounds == [d : Detectors, out : Seq(Words)]

LEMMA RoundFields ==
  ASSUME NEW r \in Rounds
  PROVE  r.d \in Detectors /\ r.out \in Seq(Words) /\ r = Round(r.d, r.out)
BY DEF Rounds, Round

LEMMA RoundIs ==
  ASSUME NEW d \in Detectors, NEW out \in Seq(Words)
  PROVE  Round(d, out) \in Rounds /\ Round(d, out).d = d /\ Round(d, out).out = out
BY DEF Rounds, Round

LEMMA SampleStays ==
  ASSUME NEW r \in Rounds, NEW p \in Int
  PROVE  Sample(r, p) \in Rounds
<1>1. PICK d \in Detectors, out \in Seq(Words) : r = Round(d, out)
  BY RoundFields
<1> DEFINE m == d.sampleCount + 1
           w == Word(d.pulseStart, m - d.pulseStart, Pri(d.pulseStart, d.prevToa))
<1>2. /\ d.inPulse \in BOOLEAN /\ d.pulseStart \in Nat /\ m \in Nat /\ d.prevToa \in Nat
  <2>1. d.inPulse \in BOOLEAN /\ d.pulseStart \in Nat /\ d.sampleCount \in Nat /\ d.prevToa \in Nat
    BY DetectorFields
  <2> QED BY <2>1
<1>3. Append(out, w) \in Seq(Words)
  <2>1. Pri(d.pulseStart, d.prevToa) \in Int
    BY <1>2 DEF Pri, NoToa
  <2>2. w \in Words
    BY <1>2, <2>1 DEF Word, Words
  <2> HIDE DEF w
  <2> QED BY <2>2
<1>4. /\ Detector(TRUE, m, m, d.prevToa) \in Detectors
      /\ Detector(FALSE, d.pulseStart, m, d.pulseStart) \in Detectors
      /\ Detector(d.inPulse, d.pulseStart, m, d.prevToa) \in Detectors
  BY <1>2 DEF Detector, Detectors
<1>5. \/ Sample(r, p) = Round(Detector(TRUE, m, m, d.prevToa), out)
      \/ Sample(r, p) = Round(Detector(FALSE, d.pulseStart, m, d.pulseStart), Append(out, w))
      \/ Sample(r, p) = Round(Detector(d.inPulse, d.pulseStart, m, d.prevToa), out)
  BY <1>1, SampleIs
<1> HIDE DEF w, m
<1> QED BY <1>3, <1>4, <1>5, RoundIs

\* One round of the loop, for the words of the earlier calls and of this one.
RoundFollows(r, before, s, m) == r \in Rounds /\ FollowsStream(r.d, before \o r.out, s, m)

LEMMA SampleFollows ==
  ASSUME NEW s, NEW m \in Nat, NEW p \in Int, p = s[m + 1],
         NEW before \in Seq(Words), NEW r, RoundFollows(r, before, s, m)
  PROVE  RoundFollows(Sample(r, p), before, s, m + 1)
<1>1. PICK d \in Detectors, out \in Seq(Words) : r = Round(d, out) /\ d = r.d /\ out = r.out
  BY RoundFields DEF RoundFollows
<1> DEFINE all == before \o out
           w == Word(d.pulseStart, (m + 1) - d.pulseStart, Pri(d.pulseStart, d.prevToa))
<1>2. FollowsStream(d, all, s, m) /\ d.sampleCount = m
  BY <1>1 DEF RoundFollows, FollowsStream
<1>3. d.inPulse \in BOOLEAN /\ (High(s, m + 1) <=> p >= Threshold)
  BY DetectorFields DEF High
<1>4. Sample(r, p) \in Rounds
  BY SampleStays DEF RoundFollows
<1>5. SUFFICES FollowsStream(Sample(r, p).d, before \o Sample(r, p).out, s, m + 1)
  BY <1>4 DEF RoundFollows
<1>6. Sample(r, p) =
        IF d.inPulse = FALSE /\ p >= Threshold THEN Round(Detector(TRUE, m + 1, m + 1, d.prevToa), out)
        ELSE IF d.inPulse = TRUE /\ ~(p >= Threshold)
        THEN Round(Detector(FALSE, d.pulseStart, m + 1, d.pulseStart), Append(out, w))
        ELSE Round(Detector(d.inPulse, d.pulseStart, m + 1, d.prevToa), out)
  <2>1. d.sampleCount + 1 = m + 1
    BY <1>2
  <2>2. Sample(Round(d, out), p) =
          LET k == d.sampleCount + 1
          IN IF d.inPulse = FALSE /\ p >= Threshold THEN Round(Detector(TRUE, k, k, d.prevToa), out)
             ELSE IF d.inPulse = TRUE /\ ~(p >= Threshold)
             THEN Round(Detector(FALSE, d.pulseStart, k, d.pulseStart),
                        Append(out, Word(d.pulseStart, k - d.pulseStart, Pri(d.pulseStart, d.prevToa))))
             ELSE Round(Detector(d.inPulse, d.pulseStart, k, d.prevToa), out)
    BY SampleIs
  <2> QED BY <1>1, <2>1, <2>2, Zenon
<1>7. before \o Append(out, w) = Append(all, w)
  <2>1. \A x : before \o Append(out, x) = Append(before \o out, x)
    OBVIOUS
  <2> HIDE DEF w
  <2> QED BY <2>1
<1>8. \A e, o : Round(e, o).d = e /\ Round(e, o).out = o
  BY DEF Round
<1> HIDE DEF all, w
<1>9. CASE d.inPulse = FALSE /\ p >= Threshold
  <2>1. Sample(r, p) = Round(Detector(TRUE, m + 1, m + 1, d.prevToa), out)
    BY <1>6, <1>9
  <2>2. FollowsStream(Detector(TRUE, m + 1, m + 1, d.prevToa), all, s, m + 1)
    BY <1>2, <1>3, <1>9, LevelRises
  <2> QED BY <1>8, <2>1, <2>2 DEF all
<1>10. CASE d.inPulse = TRUE /\ ~(p >= Threshold)
  <2>1. Sample(r, p) = Round(Detector(FALSE, d.pulseStart, m + 1, d.pulseStart), Append(out, w))
    BY <1>6, <1>10
  <2>2. FollowsStream(Detector(FALSE, d.pulseStart, m + 1, d.pulseStart), Append(all, w), s, m + 1)
    BY <1>2, <1>3, <1>10, LevelFalls DEF w
  <2> QED BY <1>7, <1>8, <2>1, <2>2
<1>11. CASE ~(d.inPulse = FALSE /\ p >= Threshold) /\ ~(d.inPulse = TRUE /\ ~(p >= Threshold))
  <2>1. Sample(r, p) = Round(Detector(d.inPulse, d.pulseStart, m + 1, d.prevToa), out)
    BY <1>6, <1>11
  <2>2. FollowsStream(Detector(d.inPulse, d.pulseStart, m + 1, d.prevToa), all, s, m + 1)
    <3>1. d.inPulse = TRUE <=> High(s, m + 1)
      BY <1>3, <1>11
    <3> QED BY <1>2, <3>1, LevelStays
  <2> QED BY <1>8, <2>1, <2>2 DEF all
<1> QED BY <1>9, <1>10, <1>11

\* The rounds of a call.
LEMMA FedFollows ==
  ASSUME NEW s, NEW m \in Nat, NEW samples \in Seq(Int),
         \A i \in 1..Len(samples) : samples[i] = s[m + i],
         NEW before \in Seq(Words), NEW st, RoundFollows(st, before, s, m)
  PROVE  RoundFollows(Fed(st, samples), before, s, m + Len(samples))
<1> DEFINE n == Len(samples)
           S == Rounds
           step == [i \in 1..n |-> [r \in S |-> Sample(r, samples[i])]]
           Defining(f) == f = [i \in 0..Len(samples) |-> IF i = 0 THEN st ELSE Sample(f[i - 1], samples[i])]
           after == CHOOSE f1 : Defining(f1)
<1>1. n \in Nat /\ \A i \in 1..n : samples[i] \in Int
  OBVIOUS
<1>2. st \in S
  BY DEF RoundFollows
<1>3. step \in [1..n -> [S -> S]]
  BY <1>1, SampleStays
<1>4. PICK f \in [0..n -> S] : f[0] = st /\ \A i \in 1..n : f[i] = step[i][f[i - 1]]
  <2>1. n \in Nat /\ StepsOf(step, S, n)
    BY <1>1, <1>3 DEF StepsOf
  <2> HIDE DEF n, S, step
  <2>2. \E f : Iterates(f, S, st, n, step)
    BY <1>2, <2>1, IterationExists
  <2> QED BY <2>2 DEF Iterates
<1>5. ASSUME NEW i \in 1..n PROVE f[i] = Sample(f[i - 1], samples[i])
  <2>1. i - 1 \in 0..n
    BY <1>1
  <2>2. f[i - 1] \in S
    BY <1>4, <2>1
  <2> QED BY <1>4, <2>2
<1>6. Defining(f)
  <2> DEFINE g == [i \in 0..n |-> IF i = 0 THEN st ELSE Sample(f[i - 1], samples[i])]
  <2>1. ASSUME NEW i \in 0..n PROVE f[i] = g[i]
    <3>1. CASE i = 0
      BY <1>4, <3>1
    <3>2. CASE i # 0
      <4>1. i \in 1..n
        BY <1>1, <3>2
      <4> QED BY <1>5, <3>2, <4>1
    <3> QED BY <3>1, <3>2
  <2> HIDE DEF S
  <2>2. DOMAIN f = 0..n /\ f = [i \in 0..n |-> f[i]]
    BY <1>4
  <2> QED BY <2>1, <2>2
<1>7. Fed(st, samples) = after[n]
  BY DEF Fed
<1>8. Defining(after)
  <2> HIDE DEF Defining
  <2> QED BY <1>6
<1> HIDE DEF after
<1>9. after[0] = st /\ \A i \in 1..n : after[i] = Sample(after[i - 1], samples[i])
  <2>1. 0 \in 0..n /\ \A i \in 1..n : i \in 0..n /\ i # 0
    BY <1>1
  <2> QED BY <1>8, <2>1
<1>10. \A i \in 0..n : RoundFollows(after[i], before, s, m + i)
  <2> DEFINE G == {i \in 0..n : RoundFollows(after[i], before, s, m + i)}
  <2>1. 0 \in G
    BY <1>1, <1>9
  <2>2. ASSUME NEW i \in 1..n, i - 1 \in G PROVE i \in G
    <3>1. /\ m + (i - 1) \in Nat /\ (m + (i - 1)) + 1 = m + i /\ i \in 0..n
          /\ samples[i] \in Int /\ samples[i] = s[m + i]
      BY <1>1
    <3>2. RoundFollows(after[i - 1], before, s, m + (i - 1))
      BY <2>2
    <3> HIDE DEF n, G
    <3>3. RoundFollows(Sample(after[i - 1], samples[i]), before, s, (m + (i - 1)) + 1)
      BY <3>1, <3>2, SampleFollows
    <3>4. after[i] = Sample(after[i - 1], samples[i])
      BY <1>9
    <3> QED BY <3>1, <3>3, <3>4 DEF G
  <2> HIDE DEF G
  <2>3. \A i \in 0..n : i \in G
    BY <1>1, <2>1, <2>2, NumbersUpTo
  <2> QED BY <2>3 DEF G
<1> QED BY <1>1, <1>7, <1>10

\* A longer stream says the same of its first samples.
LEMMA LongerStream ==
  ASSUME NEW s, NEW t, NEW m \in Nat, \A i \in 1..m : t[i] = s[i],
         NEW d, NEW all, FollowsStream(d, all, s, m)
  PROVE  FollowsStream(d, all, t, m)
<1>1. \A i \in 1..m : High(t, i) <=> High(s, i)
  BY DEF High
<1>2. ASSUME NEW i PROVE RisesAt(t, m, i) <=> RisesAt(s, m, i)
  <2>1. \A k \in 1..m : k # 1 => k - 1 \in 1..m
    OBVIOUS
  <2> QED BY <1>1, <2>1 DEF RisesAt
<1>3. ASSUME NEW i, NEW j, PulseFrom(s, m, i, j) PROVE PulseFrom(t, m, i, j)
  <2>1. i \in 1..m /\ j \in 1..m /\ \A k \in i..(j - 1) : k \in 1..m
    BY <1>3 DEF PulseFrom, RisesAt
  <2> QED BY <1>1, <1>2, <1>3, <2>1 DEF PulseFrom
<1>4. OpenPulse(d, t, m)
  <2>1. OpenPulse(d, s, m)
    BY DEF FollowsStream
  <2>2. m > 0 => m \in 1..m
    OBVIOUS
  <2>3. d.inPulse = TRUE => \A k \in d.pulseStart..m : k \in 1..m
    BY <2>1 DEF OpenPulse, RisesAt
  <2> QED BY <1>1, <1>2, <2>1, <2>2, <2>3 DEF OpenPulse
<1>5. WordsRight(all, t, m)
  BY <1>3 DEF FollowsStream, WordsRight
<1>6. NoneMissing(d, all, t, m)
  BY <1>2 DEF FollowsStream, NoneMissing
<1> QED BY <1>4, <1>5, <1>6 DEF FollowsStream

PulseInv == stream \in Seq(Int) /\ FollowsStream(detector, pdws, stream, Len(stream))

LEMMA FeedFollows ==
  ASSUME PulseInv, NEW samples \in Seq(Int), Feed(samples)
  PROVE  PulseInv'
<1> DEFINE st == Round(detector, <<>>)
           end == Fed(st, samples)
           m == Len(stream)
           new == stream \o samples
<1>1. stream \in Seq(Int) /\ pdws \in Seq(Words) /\ detector \in Detectors
  BY DEF PulseInv, FollowsStream
<1>2. /\ m \in Nat /\ new \in Seq(Int) /\ Len(new) = m + Len(samples)
      /\ \A i \in 1..m : new[i] = stream[i]
      /\ \A i \in 1..Len(samples) : samples[i] = new[m + i]
  BY <1>1
<1>3. detector' = end.d /\ pdws' = pdws \o end.out /\ stream' = new
  BY DEF Feed, Round
<1>4. RoundFollows(st, pdws, new, m)
  <2>1. FollowsStream(detector, pdws, stream, m)
    BY DEF PulseInv
  <2> HIDE DEF new, m
  <2>2. FollowsStream(detector, pdws, new, m)
    BY <1>2, <2>1, LongerStream
  <2>3. <<>> \in Seq(Words) /\ pdws \o <<>> = pdws
    BY <1>1
  <2> QED BY <1>1, <2>2, <2>3, RoundIs DEF RoundFollows
<1> HIDE DEF st, new, m
<1>5. RoundFollows(end, pdws, new, m + Len(samples))
  BY <1>1, <1>2, <1>4, FedFollows
<1> HIDE DEF end
<1>6. FollowsStream(detector', pdws', new, Len(new))
  BY <1>2, <1>3, <1>5 DEF RoundFollows
<1> QED BY <1>2, <1>3, <1>6 DEF PulseInv

(* However the stream of samples is cut into slices: each pulse that has risen *)
(* and fallen has its word, once and in order, with its own arrival and width  *)
(* and the distance to the one before.                                         *)
THEOREM PulsesSurviveSlicingHolds == PulseSpec => []PulsesSurviveSlicing
<1>1. PulseInit => PulseInv
  <2> SUFFICES ASSUME PulseInit PROVE PulseInv
    OBVIOUS
  <2>1. /\ detector = Detector(FALSE, 0, 0, NoToa) /\ pdws = <<>> /\ stream = <<>>
    BY DEF PulseInit, Detector
  <2>2. /\ detector \in Detectors /\ detector.inPulse = FALSE
        /\ detector.sampleCount = 0 /\ detector.prevToa = NoToa
    BY <2>1 DEF Detector, Detectors, NoToa
  <2>3. OpenPulse(detector, stream, 0) /\ WordsRight(pdws, stream, 0) /\ NoneMissing(detector, pdws, stream, 0)
    <3>1. OpenPulse(detector, stream, 0)
      BY <2>2 DEF OpenPulse
    <3>2. WordsRight(pdws, stream, 0)
      BY <2>1 DEF WordsRight
    <3>3. NoneMissing(detector, pdws, stream, 0)
      BY DEF NoneMissing
    <3> QED BY <3>1, <3>2, <3>3
  <2>4. stream \in Seq(Int) /\ Len(stream) = 0 /\ pdws \in Seq(Words) /\ Len(pdws) = 0
    BY <2>1
  <2> QED BY <2>2, <2>3, <2>4 DEF PulseInv, FollowsStream
<1>2. PulseInv /\ [PulseNext]_pulseVars => PulseInv'
  <2> SUFFICES ASSUME PulseInv, [PulseNext]_pulseVars PROVE PulseInv'
    OBVIOUS
  <2>1. CASE UNCHANGED pulseVars
    BY <2>1 DEF PulseInv, pulseVars
  <2>2. CASE PulseNext
    <3>1. PICK n \in 1..MaxSlice : \E samples \in [1..n -> Powers] : Feed(samples)
      BY <2>2 DEF PulseNext
    <3>2. PICK samples \in [1..n -> Powers] : Feed(samples)
      BY <3>1
    <3>3. samples \in Seq(Int)
      <4>1. n \in Nat /\ DOMAIN samples = 1..n /\ samples = [i \in 1..n |-> samples[i]]
        OBVIOUS
      <4>2. \A i \in 1..n : samples[i] \in Int
        BY PowersAssumption
      <4>3. samples \in [1..n -> Int]
        BY <4>1, <4>2
      <4> QED BY <4>1, <4>3, SeqDef
    <3> QED BY <3>2, <3>3, FeedFollows
  <2> QED BY <2>1, <2>2
<1>3. PulseInv => PulsesSurviveSlicing
  <2> SUFFICES ASSUME PulseInv PROVE PulsesSurviveSlicing
    OBVIOUS
  <2> DEFINE m == Len(stream)
  <2>1. m \in Nat /\ DOMAIN stream = 1..m /\ pdws \in Seq(Words) /\ DOMAIN pdws = 1..Len(pdws)
    BY DEF PulseInv, FollowsStream
  <2>2. OpenPulse(detector, stream, m) /\ WordsRight(pdws, stream, m) /\ NoneMissing(detector, pdws, stream, m)
    BY DEF PulseInv, FollowsStream
  <2> HIDE DEF m
  <2>3. ASSUME NEW i PROVE i \in Rises <=> RisesAt(stream, m, i)
    <3>1. i \in 1..m => (i - 1 \in 1..m <=> i # 1)
      BY <2>1
    <3> QED BY <2>1, <3>1 DEF Rises, Above, RisesAt, High
  <2>4. ASSUME NEW i, NEW j, i \in Rises PROVE j \in FallAfter(i) <=> PulseFrom(stream, m, i, j)
    <3>1. i \in 1..m /\ RisesAt(stream, m, i)
      BY <2>3, <2>4 DEF RisesAt
    <3>2. j \in 1..m /\ j > i <=> j \in (i + 1)..m
      BY <2>1, <3>1
    <3>3. ASSUME j \in 1..m
          PROVE (\A k \in i..(j - 1) : Above(k)) <=> (\A k \in i..(j - 1) : High(stream, k))
      <4>1. \A k \in i..(j - 1) : k \in 1..m
        BY <2>1, <3>1, <3>3
      <4> QED BY <2>1, <4>1 DEF Above, High
    <3>4. j \in 1..m => (Above(j) <=> High(stream, j))
      BY <2>1 DEF Above, High
    <3>5. j \in FallAfter(i) <=>
            j \in 1..m /\ j > i /\ ~Above(j) /\ \A k \in i..(j - 1) : Above(k)
      BY <2>1 DEF FallAfter
    <3> QED BY <3>1, <3>2, <3>3, <3>4, <3>5 DEF PulseFrom
  <2>5. ASSUME NEW i \in Rises, FallAfter(i) # {} PROVE \E n \in DOMAIN pdws : pdws[n].toa = i
    <3>1. PICK j : PulseFrom(stream, m, i, j)
      BY <2>4, <2>5
    <3>2. i \in 1..m /\ j \in (i + 1)..m /\ ~High(stream, j) /\ RisesAt(stream, m, i)
      BY <3>1 DEF PulseFrom, RisesAt
    <3>3. ~(detector.inPulse = TRUE /\ i = detector.pulseStart)
      BY <2>2, <3>2 DEF OpenPulse
    <3> QED BY <2>1, <2>2, <3>2, <3>3 DEF NoneMissing
  <2>6. ASSUME NEW n \in DOMAIN pdws
        PROVE  /\ pdws[n].toa \in Rises /\ pdws[n].toa + pdws[n].pw \in FallAfter(pdws[n].toa)
               /\ pdws[n].pri = IF n = 1 THEN NoToa ELSE pdws[n].toa - pdws[n - 1].toa
               /\ n > 1 => pdws[n - 1].toa < pdws[n].toa
    <3>1. /\ PulseFrom(stream, m, pdws[n].toa, pdws[n].toa + pdws[n].pw)
          /\ pdws[n].pri = IF n = 1 THEN NoToa ELSE pdws[n].toa - pdws[n - 1].toa
          /\ n > 1 => pdws[n - 1].toa < pdws[n].toa
      BY <2>1, <2>2 DEF WordsRight
    <3>2. pdws[n].toa \in Rises
      BY <2>3, <3>1 DEF PulseFrom
    <3> QED BY <2>4, <3>1, <3>2
  <2> QED BY <2>5, <2>6 DEF PulsesSurviveSlicing
<1> QED BY <1>1, <1>2, <1>3, PTL DEF PulseSpec

----------------------------------------------------------------------------
(* CFAR: the end of a group *)

EndStates == [end : Int, gap : Int]

\* One round of the inner loop.
EndRound(psd, st, j) ==
  IF st.gap > 2 THEN st
  ELSE IF j \in Flagged(psd) THEN [end |-> j, gap |-> 0]
  ELSE [end |-> st.end, gap |-> st.gap + 1]

\* No three bins in a row are free of flags, and none of those that follow.
Dense(F, first, last) == \A k \in first..(last - 2) : F \cap (k..(k + 2)) # {}
Closed(F, last) == \A k \in F : k > last => k > last + 3

\* What the loop knows when it has looked at bin j.
EndSoFar(F, i, j, st) ==
  /\ st.end \in F /\ st.end \in i..j /\ Dense(F, i, st.end)
  /\ st.gap \in 0..3
  /\ st.gap <= 2 => st.gap = j - st.end /\ \A k \in F : k <= j => k <= st.end
  /\ st.gap = 3 => Closed(F, st.end)

LEMMA EndRoundKeeps ==
  ASSUME NEW psd, Flagged(psd) \in SUBSET Int, NEW i \in Int, NEW j \in Int, i < j,
         NEW st, EndSoFar(Flagged(psd), i, j - 1, st)
  PROVE  EndSoFar(Flagged(psd), i, j, EndRound(psd, st, j))
<1> DEFINE F == Flagged(psd)
           next == EndRound(psd, st, j)
<1>1. /\ st.end \in F /\ st.end \in i..(j - 1) /\ Dense(F, i, st.end) /\ st.gap \in 0..3
      /\ st.gap <= 2 => st.gap = (j - 1) - st.end /\ \A k \in F : k <= j - 1 => k <= st.end
      /\ st.gap = 3 => Closed(F, st.end)
  BY DEF EndSoFar
<1>2. F \in SUBSET Int /\ \A e, g : [end |-> e, gap |-> g].end = e /\ [end |-> e, gap |-> g].gap = g
  OBVIOUS
<1>3. CASE st.gap > 2
  <2>1. next = st
    BY <1>3 DEF EndRound
  <2>2. st.gap = 3 /\ ~(st.gap <= 2) /\ st.end \in i..j
    BY <1>1, <1>3
  <2> HIDE DEF F, next
  <2> QED BY <1>1, <2>1, <2>2 DEF EndSoFar, F, next
<1>4. CASE ~(st.gap > 2) /\ j \in F
  <2>1. next = [end |-> j, gap |-> 0]
    BY <1>4 DEF EndRound
  <2>2. next.end = j /\ next.gap = 0
    BY <2>1
  <2> HIDE DEF F, next
  <2>3. Dense(F, i, j)
    <3> SUFFICES ASSUME NEW k \in i..(j - 2) PROVE F \cap (k..(k + 2)) # {}
      BY DEF Dense
    <3>1. j - 1 <= st.end + 2 /\ st.end \in Int
      BY <1>1, <1>4
    <3>2. CASE k <= st.end - 2
      <4>1. k \in i..(st.end - 2)
        BY <1>1, <3>1, <3>2
      <4> QED BY <1>1, <4>1 DEF Dense
    <3>3. CASE k = st.end - 1 \/ k = st.end
      <4>1. st.end \in k..(k + 2)
        BY <3>1, <3>3
      <4> QED BY <1>1, <4>1
    <3>4. CASE k > st.end
      <4>1. j \in k..(k + 2)
        BY <3>1, <3>4
      <4> QED BY <1>4, <4>1
    <3> QED BY <3>1, <3>2, <3>3, <3>4
  <2>4. j \in i..j /\ 0 \in 0..3 /\ 0 <= 2 /\ 0 # 3 /\ 0 = j - j
    OBVIOUS
  <2> QED BY <1>4, <2>2, <2>3, <2>4 DEF EndSoFar, F, next
<1>5. CASE ~(st.gap > 2) /\ j \notin F
  <2>1. next = [end |-> st.end, gap |-> st.gap + 1]
    BY <1>5 DEF EndRound
  <2>2. next.end = st.end /\ next.gap = st.gap + 1
    BY <2>1
  <2> HIDE DEF F, next
  <2>3. /\ st.gap \in 0..2 /\ st.gap + 1 = j - st.end /\ st.end \in i..j
        /\ \A k \in F : k <= j => k <= st.end
    <3>1. st.gap \in 0..2 /\ st.gap + 1 = j - st.end /\ st.end \in i..j
      BY <1>1, <1>5
    <3>2. ASSUME NEW k \in F, k <= j PROVE k <= st.end
      <4>1. k \in Int /\ k # j
        BY <1>2, <1>5
      <4>2. k <= j - 1
        BY <3>2, <4>1
      <4> QED BY <1>1, <3>1, <4>2
    <3> QED BY <3>1, <3>2
  <2>4. st.gap + 1 = 3 => Closed(F, st.end)
    <3> SUFFICES ASSUME st.gap + 1 = 3, NEW k \in F, k > st.end PROVE k > st.end + 3
      BY DEF Closed
    <3>1. j = st.end + 3 /\ st.end \in Int /\ k \in Int
      BY <1>2, <2>3
    <3> QED BY <2>3, <3>1
  <2>5. st.gap + 1 \in 0..3
    BY <2>3
  <2> QED BY <1>1, <2>2, <2>3, <2>4, <2>5 DEF EndSoFar, F, next
<1> QED BY <1>3, <1>4, <1>5

\* What the end of a group is.
EndIs(F, i, e) == e \in F /\ i <= e /\ Dense(F, i, e) /\ Closed(F, e)

LEMMA GroupEndIs ==
  ASSUME NEW psd, Len(psd) \in Nat, Window \in Nat, NEW i \in Flagged(psd)
  PROVE  EndIs(Flagged(psd), i, GroupEnd(psd, i))
<1> DEFINE F == Flagged(psd)
           hi == Len(psd) - Window
           S == EndStates
           start == [end |-> i, gap |-> 0]
           step == [j \in (i + 1)..hi |-> [st \in S |-> EndRound(psd, st, j)]]
           Defining(f) == f = [j \in i..(Len(psd) - Window) |->
                                 IF j = i THEN [end |-> i, gap |-> 0] ELSE EndRound(psd, f[j - 1], j)]
           scan == CHOOSE f1 : Defining(f1)
<1>1. hi \in Int /\ F \in SUBSET Int /\ i \in Int /\ i <= hi /\ \A k \in F : k <= hi
  BY DEF Flagged, Tested
<1>2. start \in S
  BY <1>1 DEF EndStates
<1>3. step \in [(i + 1)..hi -> [S -> S]]
  <2>1. ASSUME NEW j \in (i + 1)..hi, NEW st \in S PROVE EndRound(psd, st, j) \in S
    <3>1. j \in Int
      OBVIOUS
    <3> QED BY <3>1 DEF EndRound, EndStates
  <2> QED BY <2>1
<1>4. PICK f \in [i..hi -> S] : f[i] = start /\ \A j \in (i + 1)..hi : f[j] = step[j][f[j - 1]]
  <2>1. StepsFrom(step, S, i, hi)
    BY <1>3 DEF StepsFrom
  <2> HIDE DEF hi, S, step, start, F
  <2>2. \E f : IteratesFrom(f, S, start, i, hi, step)
    BY <1>1, <1>2, <2>1, IterationFrom
  <2> QED BY <2>2 DEF IteratesFrom
<1>5. ASSUME NEW j \in (i + 1)..hi PROVE f[j] = EndRound(psd, f[j - 1], j)
  <2>1. j - 1 \in i..hi
    BY <1>1
  <2>2. f[j - 1] \in S
    BY <1>4, <2>1
  <2> QED BY <1>4, <2>2
<1>6. Defining(f)
  <2> DEFINE g == [j \in i..hi |-> IF j = i THEN start ELSE EndRound(psd, f[j - 1], j)]
  <2>1. ASSUME NEW j \in i..hi PROVE f[j] = g[j]
    <3>1. CASE j = i
      BY <1>4, <3>1
    <3>2. CASE j # i
      <4>1. j \in (i + 1)..hi
        BY <1>1, <3>2
      <4> QED BY <1>5, <3>2, <4>1
    <3> QED BY <3>1, <3>2
  <2> HIDE DEF S
  <2>2. DOMAIN f = i..hi /\ f = [j \in i..hi |-> f[j]]
    BY <1>4
  <2> QED BY <2>1, <2>2
<1>7. GroupEnd(psd, i) = scan[hi].end
  BY DEF GroupEnd, EndRound
<1>8. Defining(scan)
  <2> HIDE DEF Defining
  <2> QED BY <1>6
<1> HIDE DEF scan
<1>9. scan[i] = start /\ \A j \in (i + 1)..hi : scan[j] = EndRound(psd, scan[j - 1], j)
  <2>1. i \in i..hi /\ \A j \in (i + 1)..hi : j \in i..hi /\ j # i
    BY <1>1
  <2> QED BY <1>8, <2>1
<1>10. \A j \in i..hi : EndSoFar(F, i, j, scan[j])
  <2> DEFINE G == {j \in i..hi : EndSoFar(F, i, j, scan[j])}
  <2>1. i \in G
    <3>1. start.end = i /\ start.gap = 0 /\ i \in i..hi
      BY <1>1
    <3>2. Dense(F, i, i)
      <4>1. \A k \in Int : ~(k \in i..(i - 2))
        BY <1>1
      <4> QED BY <1>1, <4>1 DEF Dense
    <3>3. \A k \in F : k <= i => k <= i
      OBVIOUS
    <3>4. i \in i..i /\ 0 \in 0..3 /\ 0 # 3 /\ 0 = i - i
      BY <1>1
    <3> HIDE DEF start, F
    <3>5. EndSoFar(F, i, i, start)
      BY <3>1, <3>2, <3>3, <3>4 DEF EndSoFar, F
    <3> QED BY <1>9, <3>1, <3>5
  <2>2. ASSUME NEW j \in (i + 1)..hi, j - 1 \in G PROVE j \in G
    <3>1. j \in Int /\ i < j /\ j \in i..hi
      BY <1>1
    <3>2. EndSoFar(F, i, j - 1, scan[j - 1])
      BY <2>2
    <3>3. EndSoFar(F, i, j, EndRound(psd, scan[j - 1], j))
      BY <1>1, <3>1, <3>2, EndRoundKeeps
    <3> QED BY <1>9, <3>1, <3>3
  <2> HIDE DEF G, F, hi
  <2>3. \A j \in i..hi : j \in G
    BY <1>1, <2>1, <2>2, NumbersFrom
  <2> QED BY <2>3 DEF G
<1>11. EndSoFar(F, i, hi, scan[hi])
  <2>1. hi \in i..hi
    BY <1>1
  <2> HIDE DEF hi, F
  <2> QED BY <1>10, <2>1
<1> DEFINE e == scan[hi].end
<1>12. e \in F /\ i <= e /\ Dense(F, i, e) /\ Closed(F, e)
  <2>1. e \in F /\ e \in i..hi /\ Dense(F, i, e)
    BY <1>11 DEF EndSoFar
  <2>2. scan[hi].gap \in 0..3
        /\ (scan[hi].gap <= 2 => \A k \in F : k <= hi => k <= e)
        /\ (scan[hi].gap = 3 => Closed(F, e))
    BY <1>11 DEF EndSoFar
  <2> HIDE DEF e, F, hi
  <2>3. CASE scan[hi].gap <= 2
    <3>1. \A k \in F : k <= e /\ k \in Int /\ e \in Int
      BY <1>1, <2>1, <2>2, <2>3
    <3> QED BY <1>1, <2>1, <3>1 DEF Closed
  <2>4. CASE scan[hi].gap = 3
    BY <1>1, <2>1, <2>2, <2>4
  <2> QED BY <2>2, <2>3, <2>4
<1> QED BY <1>7, <1>12 DEF EndIs

----------------------------------------------------------------------------
(* CFAR: the groups of a spectrum *)

GroupSpans == [start : Int, end : Int]
Span(start, end) == [start |-> start, end |-> end]
Scans == [at : Int, found : Seq(GroupSpans)]

\* The groups found before a bin.
FoundBefore(F, found, at) ==
  /\ found \in Seq(GroupSpans)
  /\ \A n \in 1..Len(found) : EndIs(F, found[n].start, found[n].end) /\ found[n].start \in F /\ found[n].end < at
  /\ \A k \in F : k < at => \E n \in 1..Len(found) : k \in found[n].start..found[n].end
  /\ \A m, n \in 1..Len(found) : m < n => found[n].start > found[m].end + 3

ScanIs(psd, st, n) ==
  /\ st \in Scans /\ st.at >= Window + 1
  /\ FoundBefore(Flagged(psd), st.found, st.at)
  /\ st.at >= Window + 1 + n \/ st.at > Len(psd) - Window

LEMMA FoundGrows ==
  ASSUME NEW F \in SUBSET Int, NEW found, NEW at \in F, FoundBefore(F, found, at),
         NEW e, EndIs(F, at, e)
  PROVE  FoundBefore(F, Append(found, Span(at, e)), e + 1)
<1> DEFINE new == Append(found, Span(at, e))
<1>1. at \in Int /\ e \in Int /\ at <= e /\ e \in F
  BY DEF EndIs
<1>2. Span(at, e) \in GroupSpans /\ Span(at, e).start = at /\ Span(at, e).end = e
  BY <1>1 DEF Span, GroupSpans
<1>3. /\ found \in Seq(GroupSpans) /\ Len(found) \in Nat /\ new \in Seq(GroupSpans) /\ Len(new) = Len(found) + 1
      /\ new[Len(found) + 1] = Span(at, e) /\ \A n \in 1..Len(found) : new[n] = found[n]
  BY <1>2 DEF FoundBefore
<1> HIDE DEF new
<1>4. \A n \in 1..Len(new) : n \in 1..Len(found) \/ n = Len(found) + 1
  BY <1>3
<1>5. \A n \in 1..Len(found) : found[n].start \in Int /\ found[n].end \in Int /\ found[n].end < at
  BY DEF FoundBefore, EndIs
<1>6. ASSUME NEW n \in 1..Len(new)
      PROVE  EndIs(F, new[n].start, new[n].end) /\ new[n].start \in F /\ new[n].end < e + 1
  <2>1. CASE n \in 1..Len(found)
    <3>1. new[n] = found[n] /\ found[n].end < e + 1
      BY <1>1, <1>3, <1>5, <2>1
    <3> QED BY <2>1, <3>1 DEF FoundBefore
  <2>2. CASE n = Len(found) + 1
    <3>1. new[n].start = at /\ new[n].end = e /\ e < e + 1
      BY <1>1, <1>2, <1>3, <2>2
    <3> QED BY <3>1
  <2> QED BY <1>4, <2>1, <2>2
<1>7. ASSUME NEW k \in F, k < e + 1 PROVE \E n \in 1..Len(new) : k \in new[n].start..new[n].end
  <2>1. CASE k < at
    <3>1. PICK n \in 1..Len(found) : k \in found[n].start..found[n].end
      BY <2>1 DEF FoundBefore
    <3>2. n \in 1..Len(new) /\ new[n] = found[n]
      BY <1>3
    <3> QED BY <3>1, <3>2
  <2>2. CASE ~(k < at)
    <3>1. k \in at..e /\ Len(found) + 1 \in 1..Len(new)
      BY <1>1, <1>3, <1>7, <2>2
    <3>2. new[Len(found) + 1].start = at /\ new[Len(found) + 1].end = e
      BY <1>2, <1>3
    <3> QED BY <3>1, <3>2
  <2> QED BY <2>1, <2>2
<1>8. ASSUME NEW m \in 1..Len(new), NEW n \in 1..Len(new), m < n PROVE new[n].start > new[m].end + 3
  <2>1. m \in 1..Len(found) /\ new[m] = found[m]
    BY <1>3, <1>4, <1>8
  <2>2. CASE n \in 1..Len(found)
    BY <1>3, <1>8, <2>1, <2>2 DEF FoundBefore
  <2>3. CASE n = Len(found) + 1
    <3>1. new[n].start = at
      BY <1>2, <1>3, <2>3
    <3>2. Closed(F, found[m].end)
      BY <2>1 DEF FoundBefore, EndIs
    <3>3. at > found[m].end
      BY <1>1, <1>5, <2>1
    <3> QED BY <2>1, <3>1, <3>2, <3>3 DEF Closed
  <2> QED BY <1>4, <2>2, <2>3
<1>9. FoundBefore(F, new, e + 1)
  BY <1>3, <1>6, <1>7, <1>8 DEF FoundBefore
<1> QED BY <1>9 DEF new

LEMMA ScanRoundKeeps ==
  ASSUME NEW psd, Len(psd) \in Nat, Window \in Nat, NEW n \in Nat, NEW st, ScanIs(psd, st, n)
  PROVE  ScanIs(psd, ScanRound(psd, st), n + 1)
<1> DEFINE F == Flagged(psd)
           next == ScanRound(psd, st)
           e == GroupEnd(psd, st.at)
<1>1. /\ st \in Scans /\ st.at \in Int /\ st.at >= Window + 1 /\ FoundBefore(F, st.found, st.at)
      /\ st.at >= Window + 1 + n \/ st.at > Len(psd) - Window
      /\ st.found \in Seq(GroupSpans)
  BY DEF ScanIs, Scans
<1>2. F \in SUBSET Int /\ F \subseteq Tested(psd) /\ Tested(psd) = (Window + 1)..(Len(psd) - Window)
  BY DEF Flagged, Tested
<1> HIDE DEF F
<1>3. CASE st.at \notin Tested(psd)
  <2>1. next = st
    BY <1>3 DEF ScanRound
  <2>2. st.at > Len(psd) - Window
    BY <1>1, <1>2, <1>3
  <2> QED BY <1>1, <2>1, <2>2 DEF ScanIs, F
<1>4. CASE st.at \in Tested(psd) /\ st.at \notin F
  <2>1. next = [at |-> st.at + 1, found |-> st.found]
    BY <1>4 DEF ScanRound, F
  <2>2. next.at = st.at + 1 /\ next.found = st.found /\ next \in Scans
    BY <1>1, <2>1 DEF Scans
  <2>3. FoundBefore(F, st.found, st.at + 1)
    <3>1. \A k \in F : k < st.at + 1 => k < st.at
      BY <1>1, <1>2, <1>4
    <3>2. \A m \in 1..Len(st.found) : st.found[m].end \in Int /\ st.found[m].end < st.at
      BY <1>1, <1>2 DEF FoundBefore, EndIs
    <3>3. \A m \in 1..Len(st.found) : st.found[m].end < st.at + 1
      BY <1>1, <3>2
    <3> QED BY <1>1, <3>1, <3>3 DEF FoundBefore
  <2>4. st.at + 1 >= Window + 1 + (n + 1) /\ st.at + 1 >= Window + 1
    BY <1>1, <1>2, <1>4
  <2> HIDE DEF next
  <2> QED BY <2>2, <2>3, <2>4 DEF ScanIs, F, next
<1>5. CASE st.at \in F
  <2>1. EndIs(F, st.at, e)
    BY <1>5, GroupEndIs DEF F
  <2>2. e \in Int /\ st.at <= e
    BY <1>2, <2>1 DEF EndIs
  <2>3. next = [at |-> e + 1, found |-> Append(st.found, Span(st.at, e))]
    BY <1>2, <1>5 DEF ScanRound, F, Span
  <2> HIDE DEF e
  <2>4. FoundBefore(F, Append(st.found, Span(st.at, e)), e + 1)
    BY <1>1, <1>2, <1>5, <2>1, FoundGrows
  <2>5. next.at = e + 1 /\ next.found = Append(st.found, Span(st.at, e))
    BY <2>3
  <2>6. next \in Scans
    <3>1. Append(st.found, Span(st.at, e)) \in Seq(GroupSpans)
      BY <2>4 DEF FoundBefore
    <3> QED BY <2>2, <2>3, <3>1 DEF Scans
  <2>7. e + 1 >= Window + 1 + (n + 1) /\ e + 1 >= Window + 1
    BY <1>1, <1>2, <1>5, <2>2
  <2> HIDE DEF next
  <2> QED BY <2>4, <2>5, <2>6, <2>7 DEF ScanIs, F, next
<1> QED BY <1>2, <1>3, <1>4, <1>5

ScanStart == [at |-> Window + 1, found |-> <<>>]

\* The rounds cannot leave the scans, whatever the spectrum is.
LEMMA ScanRoundStays ==
  ASSUME NEW psd, Len(psd) \in Nat, Window \in Nat, NEW st \in Scans
  PROVE  ScanRound(psd, st) \in Scans
<1>1. st.at \in Int /\ st.found \in Seq(GroupSpans)
  BY DEF Scans
<1>2. CASE st.at \in Flagged(psd)
  <2>1. GroupEnd(psd, st.at) \in Int
    <3>1. GroupEnd(psd, st.at) \in Flagged(psd) /\ Flagged(psd) \subseteq Int
      <4>1. EndIs(Flagged(psd), st.at, GroupEnd(psd, st.at))
        BY <1>2, GroupEndIs
      <4> QED BY <4>1 DEF EndIs, Flagged, Tested
    <3> QED BY <3>1
  <2>2. Append(st.found, [start |-> st.at, end |-> GroupEnd(psd, st.at)]) \in Seq(GroupSpans)
    <3>1. [start |-> st.at, end |-> GroupEnd(psd, st.at)] \in GroupSpans
      BY <1>1, <2>1 DEF GroupSpans
    <3> QED BY <1>1, <3>1
  <2> QED BY <1>2, <2>1, <2>2 DEF ScanRound, Scans
<1>3. CASE st.at \notin Flagged(psd)
  <2>1. ScanRound(psd, st) = st \/ ScanRound(psd, st) = [at |-> st.at + 1, found |-> st.found]
    BY <1>3 DEF ScanRound
  <2> QED BY <1>1, <2>1 DEF Scans
<1> QED BY <1>2, <1>3

LEMMA GroupsAre ==
  ASSUME NEW psd, Len(psd) \in Nat, Window \in Nat
  PROVE  FoundBefore(Flagged(psd), Groups(psd), Len(psd) - Window + 1)
<1> DEFINE n == Len(psd)
           S == Scans
           step == [i \in 1..n |-> [st \in S |-> ScanRound(psd, st)]]
           Defining(f) == f = [i \in 0..Len(psd) |->
                                 IF i = 0 THEN [at |-> Window + 1, found |-> <<>>] ELSE ScanRound(psd, f[i - 1])]
           scan == CHOOSE f1 : Defining(f1)
<1>1. n \in Nat
  OBVIOUS
<1>2. ScanStart \in S
  BY DEF ScanStart, Scans
<1>3. step \in [1..n -> [S -> S]]
  BY ScanRoundStays
<1>4. PICK f \in [0..n -> S] : f[0] = ScanStart /\ \A i \in 1..n : f[i] = step[i][f[i - 1]]
  <2>1. StepsOf(step, S, n)
    BY <1>3 DEF StepsOf
  <2> HIDE DEF n, S, step
  <2>2. \E f : Iterates(f, S, ScanStart, n, step)
    BY <1>1, <1>2, <2>1, IterationExists
  <2> QED BY <2>2 DEF Iterates
<1>5. ASSUME NEW i \in 1..n PROVE f[i] = ScanRound(psd, f[i - 1])
  <2>1. i - 1 \in 0..n
    BY <1>1
  <2>2. f[i - 1] \in S
    BY <1>4, <2>1
  <2> QED BY <1>4, <2>2
<1>6. Defining(f)
  <2> DEFINE g == [i \in 0..n |-> IF i = 0 THEN ScanStart ELSE ScanRound(psd, f[i - 1])]
  <2>1. ASSUME NEW i \in 0..n PROVE f[i] = g[i]
    <3>1. CASE i = 0
      BY <1>4, <3>1
    <3>2. CASE i # 0
      <4>1. i \in 1..n
        BY <1>1, <3>2
      <4> QED BY <1>5, <3>2, <4>1
    <3> QED BY <3>1, <3>2
  <2> HIDE DEF S
  <2>2. DOMAIN f = 0..n /\ f = [i \in 0..n |-> f[i]]
    BY <1>4
  <2> QED BY <2>1, <2>2 DEF ScanStart
<1>7. Groups(psd) = scan[n].found
  BY DEF Groups
<1>8. Defining(scan)
  <2> HIDE DEF Defining
  <2> QED BY <1>6
<1> HIDE DEF scan
<1>9. scan[0] = ScanStart /\ \A i \in 1..n : scan[i] = ScanRound(psd, scan[i - 1])
  <2>1. 0 \in 0..n /\ \A i \in 1..n : i \in 0..n /\ i # 0
    BY <1>1
  <2> QED BY <1>8, <2>1 DEF ScanStart
<1>10. \A i \in 0..n : ScanIs(psd, scan[i], i)
  <2> DEFINE G == {i \in 0..n : ScanIs(psd, scan[i], i)}
  <2>1. 0 \in G
    <3>1. ScanStart.at = Window + 1 /\ ScanStart.found = <<>> /\ ScanStart \in Scans
      BY DEF ScanStart, Scans
    <3>2. FoundBefore(Flagged(psd), <<>>, Window + 1)
      <4>1. \A k \in Flagged(psd) : ~(k < Window + 1)
        BY DEF Flagged, Tested
      <4> QED BY <4>1 DEF FoundBefore
    <3>3. Window + 1 >= Window + 1 + 0 /\ Window + 1 >= Window + 1
      OBVIOUS
    <3>4. ScanIs(psd, ScanStart, 0)
      BY <3>1, <3>2, <3>3 DEF ScanIs
    <3> QED BY <1>1, <1>9, <3>4
  <2>2. ASSUME NEW i \in 1..n, i - 1 \in G PROVE i \in G
    <3>1. i - 1 \in Nat /\ (i - 1) + 1 = i /\ i \in 0..n
      BY <1>1
    <3>2. ScanIs(psd, scan[i - 1], i - 1)
      BY <2>2
    <3>3. ScanIs(psd, ScanRound(psd, scan[i - 1]), (i - 1) + 1)
      BY <3>1, <3>2, ScanRoundKeeps
    <3> QED BY <1>9, <3>1, <3>3
  <2> HIDE DEF G
  <2>3. \A i \in 0..n : i \in G
    BY <1>1, <2>1, <2>2, NumbersUpTo
  <2> QED BY <2>3 DEF G
<1>11. ScanIs(psd, scan[n], n)
  BY <1>1, <1>10
<1> DEFINE at == scan[n].at
           found == scan[n].found
<1>12. at \in Int /\ at > Len(psd) - Window /\ FoundBefore(Flagged(psd), found, at)
  <2>1. at \in Int
    BY <1>11 DEF ScanIs, Scans
  <2>2. at >= Window + 1 + n \/ at > Len(psd) - Window
    BY <1>11 DEF ScanIs
  <2>3. at > Len(psd) - Window
    BY <2>1, <2>2
  <2> QED BY <1>11, <2>1, <2>3 DEF ScanIs
<1> HIDE DEF at, found
<1>13. FoundBefore(Flagged(psd), found, Len(psd) - Window + 1)
  <2>1. \A k \in Flagged(psd) : k < Len(psd) - Window + 1 => k < at
    BY <1>12 DEF Flagged, Tested
  <2>2. \A m \in 1..Len(found) : found[m].end < Len(psd) - Window + 1
    <3>1. \A m \in 1..Len(found) : found[m].end \in Flagged(psd)
      BY <1>12 DEF FoundBefore, EndIs
    <3>2. \A k \in Flagged(psd) : k < Len(psd) - Window + 1
      BY DEF Flagged, Tested
    <3> QED BY <3>1, <3>2
  <2> QED BY <1>12, <2>1, <2>2 DEF FoundBefore
<1> QED BY <1>7, <1>13 DEF found

LEMMA FramesAreSpectra ==
  ASSUME frame \in Frames
  PROVE  Len(frame) \in Nat /\ Window \in Nat /\ frame \in Seq(Nat \ {0}) /\ DOMAIN frame = 1..Len(frame)
BY CfarAssumption DEF Window

(* For every spectrum, window and threshold: the scan over the bins (the two   *)
(* nested loops of detect in rf-dsp/src/cfar.rs) finds the groups of flagged    *)
(* bins as they are defined.                                                    *)
THEOREM GroupsAreExactHolds == CfarSpec => []GroupsAreExact
<1>1. CfarInit => frame \in Frames
  BY DEF CfarInit
<1>2. frame \in Frames /\ [Detect]_cfarVars => (frame \in Frames)'
  BY DEF Detect, cfarVars
<1>3. frame \in Frames => GroupsAreExact
  <2> SUFFICES ASSUME frame \in Frames PROVE GroupsAreExact
    OBVIOUS
  <2> DEFINE F == Flagged(frame)
             found == Groups(frame)
             hi == Len(frame) - Window
  <2>1. FoundBefore(F, found, hi + 1)
    BY FramesAreSpectra, GroupsAre
  <2>2. F \in SUBSET Int /\ \A k \in F : k < hi + 1
    BY FramesAreSpectra DEF Flagged, Tested
  <2> HIDE DEF F, found, hi
  <2>3. DOMAIN found = 1..Len(found) /\ Len(found) \in Nat
    BY <2>1 DEF FoundBefore
  <2>4. F = UNION {F \cap (found[i].start..found[i].end) : i \in DOMAIN found}
    <3>1. \A k \in F : \E n \in DOMAIN found : k \in found[n].start..found[n].end
      BY <2>1, <2>2, <2>3 DEF FoundBefore
    <3> QED BY <3>1
  <2>5. ASSUME NEW i \in DOMAIN found
        PROVE  /\ {found[i].start, found[i].end} \subseteq F
               /\ \A k \in found[i].start..(found[i].end - 2) : F \cap (k..(k + 2)) # {}
               /\ i > 1 => found[i].start - found[i - 1].end > 3
    <3>1. found[i].start \in F /\ found[i].end \in F /\ Dense(F, found[i].start, found[i].end)
      BY <2>1, <2>3 DEF FoundBefore, EndIs
    <3>2. ASSUME i > 1 PROVE found[i].start - found[i - 1].end > 3
      <4>1. i - 1 \in 1..Len(found) /\ i - 1 < i
        BY <2>3, <3>2
      <4>2. found[i].start > found[i - 1].end + 3 /\ found[i - 1].end \in F
        BY <2>1, <2>3, <4>1 DEF FoundBefore, EndIs
      <4>3. PICK x \in Int, y \in Int : x = found[i].start /\ y = found[i - 1].end
        BY <2>2, <3>1, <4>2
      <4>4. x > y + 3 => x - y > 3
        OBVIOUS
      <4> QED BY <4>2, <4>3, <4>4
    <3> QED BY <3>1, <3>2 DEF Dense
  <2> QED BY <2>4, <2>5 DEF GroupsAreExact, F, found
<1> QED BY <1>1, <1>2, <1>3, PTL DEF CfarSpec

----------------------------------------------------------------------------
(* CFAR: the band of a group *)

Summable(f, g) ==
  /\ g.start \in Nat \ {0} /\ g.end \in Nat /\ g.start <= g.end
  /\ \A k \in g.start..g.end : f[k] \in Int

Adds(f, g, s) ==
  /\ \A k \in (g.start - 1)..g.end : s[k] \in Int
  /\ s[g.start - 1] = 0
  /\ \A k \in g.start..g.end : s[k] = s[k - 1] + f[k]

LEMMA SumsAre ==
  ASSUME NEW f, NEW g, Summable(f, g)
  PROVE  Adds(f, g, Sums(f, g))
<1> DEFINE a == g.start - 1
           b == g.end
           step == [k \in (a + 1)..b |-> [x \in Int |-> x + f[k]]]
           Defining(h) == h = [k \in (g.start - 1)..g.end |-> IF k < g.start THEN 0 ELSE h[k - 1] + f[k]]
           sums == CHOOSE h : Defining(h)
<1>1. a \in Int /\ b \in Int /\ a <= b /\ g.start = a + 1 /\ 0 \in Int
      /\ \A k \in (a + 1)..b : f[k] \in Int
  BY DEF Summable
<1>2. step \in [(a + 1)..b -> [Int -> Int]]
  <2>1. ASSUME NEW k \in (a + 1)..b, NEW x \in Int PROVE x + f[k] \in Int
    BY <1>1
  <2> QED BY <2>1
<1>3. PICK h \in [a..b -> Int] : h[a] = 0 /\ \A k \in (a + 1)..b : h[k] = step[k][h[k - 1]]
  <2>1. StepsFrom(step, Int, a, b)
    BY <1>2 DEF StepsFrom
  <2> HIDE DEF a, b, step
  <2>2. \E h : IteratesFrom(h, Int, 0, a, b, step)
    BY <1>1, <2>1, IterationFrom
  <2> QED BY <2>2 DEF IteratesFrom
<1>4. ASSUME NEW k \in (a + 1)..b PROVE h[k] = h[k - 1] + f[k]
  <2>1. k - 1 \in a..b
    BY <1>1
  <2>2. h[k - 1] \in Int
    BY <1>3, <2>1
  <2> QED BY <1>3, <2>2
<1>5. Defining(h)
  <2> DEFINE r == [k \in a..b |-> IF k < g.start THEN 0 ELSE h[k - 1] + f[k]]
  <2>1. ASSUME NEW k \in a..b PROVE h[k] = r[k]
    <3>1. CASE k = a
      BY <1>1, <1>3, <3>1
    <3>2. CASE k # a
      <4>1. k \in (a + 1)..b /\ ~(k < g.start)
        BY <1>1, <3>2
      <4> QED BY <1>4, <4>1
    <3> QED BY <3>1, <3>2
  <2>2. DOMAIN h = a..b /\ h = [k \in a..b |-> h[k]]
    BY <1>3
  <2> QED BY <2>1, <2>2
<1>6. Defining(sums)
  <2> HIDE DEF Defining
  <2> QED BY <1>5
<1>7. Sums(f, g) = sums
  BY DEF Sums
<1> HIDE DEF sums
<1>8. sums[a] = 0 /\ \A k \in (a + 1)..b : sums[k] = sums[k - 1] + f[k]
  <2>1. a \in a..b /\ a < g.start /\ \A k \in (a + 1)..b : k \in a..b /\ ~(k < g.start)
    BY <1>1
  <2> QED BY <1>6, <2>1
<1>9. \A k \in a..b : sums[k] \in Int
  <2> DEFINE G == {k \in a..b : sums[k] \in Int}
  <2>1. a \in G
    BY <1>1, <1>8
  <2>2. ASSUME NEW k \in (a + 1)..b, k - 1 \in G PROVE k \in G
    BY <1>1, <1>8, <2>2
  <2> HIDE DEF G, a, b
  <2>3. \A k \in a..b : k \in G
    BY <1>1, <2>1, <2>2, NumbersFrom
  <2> QED BY <2>3 DEF G
<1> QED BY <1>1, <1>7, <1>8, <1>9 DEF Adds

\* A group of bins of a spectrum.
GroupOf(psd, g) ==
  /\ g.start \in Nat \ {0} /\ g.end \in Nat /\ g.start <= g.end
  /\ \A k \in g.start..g.end : psd[k] \in Nat \ {0}

\* The energy is positive, and the moment puts the centroid between the middle of
\* the first bin and that of the last.
LEMMA MomentWithin ==
  ASSUME NEW psd, NEW g, GroupOf(psd, g)
  PROVE  /\ Energy(psd, g) \in Nat \ {0} /\ Moment(psd, g) \in Int
         /\ Energy(psd, g) * (2 * g.start - 1) <= Moment(psd, g)
         /\ Moment(psd, g) <= Energy(psd, g) * (2 * g.end - 1)
<1> DEFINE f == [k \in g.start..g.end |-> psd[k] * (2 * k - 1)]
           s == g.start
           e == g.end
           E == Sums(psd, g)
           M == Sums(f, g)
<1>1. /\ s \in Nat \ {0} /\ e \in Nat /\ s <= e
      /\ \A k \in s..e : psd[k] \in Nat \ {0}
  BY DEF GroupOf
<1>2. ASSUME NEW k \in s..e PROVE f[k] = psd[k] * (2 * k - 1) /\ f[k] \in Int
  <2>1. psd[k] \in Int /\ 2 * k - 1 \in Int
    BY <1>1
  <2> QED BY <2>1
<1>3. Adds(psd, g, E)
  <2>1. Summable(psd, g)
    BY <1>1 DEF Summable
  <2> QED BY <2>1, SumsAre
<1>4. Adds(f, g, M)
  <2>1. Summable(f, g)
    BY <1>1, <1>2 DEF Summable
  <2> HIDE DEF f
  <2> QED BY <2>1, SumsAre
<1> DEFINE Good(k) == /\ E[k] \in Nat /\ M[k] \in Int /\ (k >= s => E[k] >= 1)
                      /\ E[k] * (2 * s - 1) <= M[k] /\ M[k] <= E[k] * (2 * k - 1)
           G == {k \in (s - 1)..e : Good(k)}
<1> HIDE DEF f, E, M
<1>5. /\ E[s - 1] = 0 /\ M[s - 1] = 0
      /\ \A k \in s..e : E[k] = E[k - 1] + psd[k] /\ M[k] = M[k - 1] + f[k] /\ M[k] \in Int
  <2>1. \A k \in s..e : k \in (s - 1)..e
    BY <1>1
  <2> QED BY <1>3, <1>4, <2>1 DEF Adds
<1>6. s - 1 \in G
  <2>1. 0 * (2 * s - 1) <= 0 /\ 0 <= 0 * (2 * (s - 1) - 1) /\ ~(s - 1 >= s) /\ s - 1 \in (s - 1)..e
    BY <1>1
  <2> QED BY <1>5, <2>1
<1>7. ASSUME NEW k \in ((s - 1) + 1)..e, k - 1 \in G PROVE k \in G
  <2>1. k \in s..e /\ k \in (s - 1)..e /\ k \in Int /\ s <= k
    BY <1>1
  <2>2. PICK x \in Nat, m \in Int, p \in Nat \ {0} : x = E[k - 1] /\ m = M[k - 1] /\ p = psd[k]
    BY <1>1, <1>7, <2>1
  <2>3. x * (2 * s - 1) <= m /\ m <= x * (2 * (k - 1) - 1)
    BY <1>7, <2>2
  <2>4. E[k] = x + p /\ M[k] = m + p * (2 * k - 1)
    BY <1>2, <1>5, <2>1, <2>2
  <2>5. (x + p) * (2 * s - 1) = x * (2 * s - 1) + p * (2 * s - 1)
        /\ (x + p) * (2 * k - 1) = x * (2 * k - 1) + p * (2 * k - 1)
        /\ x * (2 * k - 1) = x * (2 * (k - 1) - 1) + 2 * x
    BY <1>1, <2>1, <2>2
  <2>6. p * (2 * k - 1) - p * (2 * s - 1) = 2 * (p * (k - s)) /\ p * (k - s) >= 0
    <3>1. k - s \in Nat /\ p \in Nat
      BY <1>1, <2>1, <2>2
    <3>2. p * (2 * k - 1) - p * (2 * s - 1) = 2 * (p * (k - s))
      BY <1>1, <2>1, <2>2
    <3>3. \A y, z \in Nat : y * z \in Nat
      OBVIOUS
    <3> QED BY <3>1, <3>2, <3>3
  <2>7. PICK a1 \in Int, a2 \in Int, a3 \in Int, b1 \in Int, b2 \in Int :
          /\ a1 = x * (2 * s - 1) /\ a2 = x * (2 * k - 1) /\ a3 = x * (2 * (k - 1) - 1)
          /\ b1 = p * (2 * s - 1) /\ b2 = p * (2 * k - 1)
    <3>1. \A y, z \in Int : y * z \in Int
      OBVIOUS
    <3>2. PICK u \in Int, v \in Int, w \in Int : u = 2 * s - 1 /\ v = 2 * k - 1 /\ w = 2 * (k - 1) - 1
      BY <1>1, <2>1
    <3>3. x * u \in Int /\ x * v \in Int /\ x * w \in Int /\ p * u \in Int /\ p * v \in Int
      BY <2>2, <3>1, <3>2
    <3> QED BY <3>2, <3>3, Zenon
  <2>8. b1 <= b2
    <3>1. PICK c \in Int : c = p * (k - s)
      BY <1>1, <2>1, <2>2
    <3> QED BY <2>6, <2>7, <3>1
  <2>9. a1 + b1 <= m + b2 /\ m + b2 <= a2 + b2
    BY <2>2, <2>3, <2>5, <2>7, <2>8
  <2>10. (x + p) * (2 * s - 1) <= m + b2 /\ m + b2 <= (x + p) * (2 * k - 1) /\ M[k] = m + b2
    BY <2>4, <2>5, <2>7, <2>9
  <2>11. x + p \in Nat /\ x + p >= 1 /\ m + b2 \in Int
    BY <2>2, <2>7
  <2> QED BY <2>1, <2>4, <2>10, <2>11
<1>8. s - 1 \in Int /\ e \in Int /\ e \in (s - 1)..e
  BY <1>1
<1>9. e \in G
  <2> HIDE DEF G, s, e
  <2>1. \A k \in (s - 1)..e : k \in G
    BY <1>6, <1>7, <1>8, NumbersFrom
  <2> QED BY <1>8, <2>1
<1>10. Good(e) /\ e >= s
  BY <1>1, <1>9
<1> QED BY <1>10 DEF Energy, Moment, E, M, f

LEMMA MinIsMember ==
  ASSUME NEW T \in SUBSET Nat, T # {}
  PROVE  Min(T) \in T
<1>1. \E n \in T : \A m \in T : n <= m
  BY LeastNatural
<1> QED BY <1>1 DEF Min

LEMMA Obw99Within ==
  ASSUME NEW psd, NEW g, GroupOf(psd, g)
  PROVE  Obw99(psd, g).lo \in g.start..g.end /\ Obw99(psd, g).hi \in g.start..g.end
<1> DEFINE reached(part) == {k \in g.start..g.end : Sums(psd, g)[k] * 1000 >= Energy(psd, g) * part}
<1>1. g.start \in Nat \ {0} /\ g.end \in Nat /\ g.start <= g.end
  BY DEF GroupOf
<1>2. PICK x \in Nat : x = Energy(psd, g) /\ x = Sums(psd, g)[g.end]
  BY MomentWithin DEF Energy
<1>3. x * 1000 >= x * 5 /\ x * 1000 >= x * 995
  OBVIOUS
<1>4. g.end \in reached(5) /\ g.end \in reached(995)
  BY <1>1, <1>2, <1>3
<1>5. reached(5) \in SUBSET Nat /\ reached(995) \in SUBSET Nat
  BY <1>1
<1>6. Min(reached(5)) \in reached(5) /\ Min(reached(995)) \in reached(995)
  <2> HIDE DEF reached
  <2> QED BY <1>4, <1>5, MinIsMember
<1>7. Obw99(psd, g).lo = Min(reached(5)) /\ Obw99(psd, g).hi = Min(reached(995))
  BY DEF Obw99
<1>8. \A part : reached(part) \subseteq g.start..g.end
  OBVIOUS
<1> HIDE DEF reached
<1> QED BY <1>6, <1>7, <1>8

Bands == [lo : Int, hi : Int]

\* The center of a band lies between the lower edge of its group's first bin and
\* the upper edge of its last.
LEMMA BandWithin ==
  ASSUME NEW psd, NEW g, GroupOf(psd, g), Scale \in Nat \ {0}
  PROVE  /\ BandOf(psd, g) \in Bands
         /\ \E c \in Int : /\ Center(BandOf(psd, g)) = 2 * c
                           /\ (g.start - 1) * Scale <= c /\ c < g.end * Scale
<1>1. PICK s \in Nat, e \in Nat : s = g.start /\ e = g.end
  BY DEF GroupOf
<1>2. PICK x \in Nat \ {0}, m \in Int : x = Energy(psd, g) /\ m = Moment(psd, g)
  BY MomentWithin
<1>3. x * (2 * s - 1) <= m /\ m <= x * (2 * e - 1)
  BY <1>1, <1>2, MomentWithin
<1>4. PICK d \in Nat \ {0} : d = 2 * x
  BY <1>2
<1>5. d * (s - 1) <= m /\ m < d * e
  <2>1. x * (2 * s - 1) = d * (s - 1) + x /\ x * (2 * e - 1) = d * e - x
    BY <1>1, <1>2, <1>4
  <2>2. PICK a \in Int, b \in Int : a = d * (s - 1) /\ b = d * e
    BY <1>1, <1>4
  <2> QED BY <1>2, <1>3, <2>1, <2>2
<1>6. d * ((s - 1) * Scale) <= m * Scale /\ m * Scale < d * (e * Scale) /\ m * Scale \in Int
  <2>1. \A a, b \in Int : a <= b => a * Scale <= b * Scale
    OBVIOUS
  <2>2. \A a, b \in Int : a < b => a * Scale < b * Scale
    OBVIOUS
  <2>3. (d * (s - 1)) * Scale = d * ((s - 1) * Scale) /\ (d * e) * Scale = d * (e * Scale)
        /\ d * (s - 1) \in Int /\ d * e \in Int
    BY <1>1, <1>4
  <2> QED BY <1>2, <1>5, <2>1, <2>2, <2>3
<1> DEFINE c == (m * Scale) \div d
<1>7. c \in Int /\ (s - 1) * Scale <= c /\ c < e * Scale
  <2>1. c \in Int
    BY <1>4, <1>6, Division
  <2>2. (s - 1) * Scale \in Int /\ e * Scale \in Int
    BY <1>1
  <2> QED BY <1>4, <1>6, <2>1, <2>2, QuotientIsLargest, QuotientBelow
<1>8. PICK w \in Int : w = ((Obw99(psd, g).hi - Obw99(psd, g).lo + 1) * Scale) \div 2
  <2>1. PICK lo \in Int, hi \in Int : lo = Obw99(psd, g).lo /\ hi = Obw99(psd, g).hi
    BY <1>1, Obw99Within
  <2>2. (hi - lo + 1) * Scale \in Int
    BY <2>1
  <2>3. ((hi - lo + 1) * Scale) \div 2 \in Int
    BY <2>2, Division
  <2> QED BY <2>1, <2>3
<1>9. BandOf(psd, g) = [lo |-> c - w, hi |-> c + w]
  BY <1>2, <1>4, <1>8 DEF BandOf
<1> HIDE DEF c
<1>10. BandOf(psd, g) \in Bands
  BY <1>7, <1>9 DEF Bands
<1>11. Center(BandOf(psd, g)) = 2 * c
  <2>1. Center(BandOf(psd, g)) = (c - w) + (c + w)
    BY <1>9 DEF Center
  <2> QED BY <1>7, <2>1
<1> QED BY <1>1, <1>7, <1>10, <1>11

----------------------------------------------------------------------------
(* CFAR: the bands of a spectrum come in the order of their centers *)

CentersAscending(bands) == \A i, j \in DOMAIN bands : i < j => Center(bands[i]) < Center(bands[j])

LEMMA GroupsAreSpans ==
  ASSUME frame \in Frames, NEW n \in DOMAIN Groups(frame)
  PROVE  GroupOf(frame, Groups(frame)[n])
<1> DEFINE F == Flagged(frame)
           found == Groups(frame)
<1>1. FoundBefore(F, found, Len(frame) - Window + 1)
  BY FramesAreSpectra, GroupsAre
<1>2. found[n].start \in F /\ found[n].end \in F /\ found[n].start <= found[n].end
  BY <1>1 DEF FoundBefore, EndIs
<1>3. F \subseteq 1..Len(frame)
  <2>1. \A k \in Flagged(frame) : k \in (Window + 1)..(Len(frame) - Window)
    BY DEF Flagged, Tested
  <2> QED BY <2>1, FramesAreSpectra
<1>4. found[n].start \in 1..Len(frame) /\ found[n].end \in 1..Len(frame)
  BY <1>2, <1>3
<1> HIDE DEF found
<1>5. ASSUME NEW k \in found[n].start..found[n].end PROVE frame[k] \in Nat \ {0}
  <2>1. k \in 1..Len(frame)
    BY <1>4, FramesAreSpectra
  <2> QED BY <2>1, FramesAreSpectra
<1>6. found[n].start \in Nat \ {0} /\ found[n].end \in Nat
  BY <1>4
<1> QED BY <1>2, <1>5, <1>6 DEF GroupOf, found

\* The centers of two groups: the later group begins beyond the end of the earlier.
LEMMA CentersAscend ==
  ASSUME frame \in Frames,
         NEW m \in DOMAIN Groups(frame), NEW n \in DOMAIN Groups(frame), m < n
  PROVE  Center(BandOf(frame, Groups(frame)[m])) < Center(BandOf(frame, Groups(frame)[n]))
<1> DEFINE g == Groups(frame)[m]
           h == Groups(frame)[n]
<1>1. Scale \in Nat \ {0}
  BY CfarAssumption
<1>2. h.start > g.end + 3
  <2>1. FoundBefore(Flagged(frame), Groups(frame), Len(frame) - Window + 1)
    BY FramesAreSpectra, GroupsAre
  <2>2. DOMAIN Groups(frame) = 1..Len(Groups(frame))
    BY <2>1 DEF FoundBefore
  <2> QED BY <2>1, <2>2 DEF FoundBefore
<1>3. GroupOf(frame, g) /\ GroupOf(frame, h)
  BY GroupsAreSpans
<1> HIDE DEF g, h
<1>4. PICK c \in Int : Center(BandOf(frame, g)) = 2 * c /\ c < g.end * Scale
  BY <1>1, <1>3, BandWithin
<1>5. PICK d \in Int : Center(BandOf(frame, h)) = 2 * d /\ (h.start - 1) * Scale <= d
  BY <1>1, <1>3, BandWithin
<1>6. PICK e \in Nat, s \in Nat : e = g.end /\ s = h.start
  BY <1>3 DEF GroupOf
<1>7. e * Scale <= (s - 1) * Scale
  <2>1. e <= s - 1
    BY <1>2, <1>6
  <2> QED BY <1>1, <1>6, <2>1
<1>8. c < d
  <2>1. PICK x \in Int, y \in Int : x = e * Scale /\ y = (s - 1) * Scale
    BY <1>1, <1>6
  <2> QED BY <1>4, <1>5, <1>6, <1>7, <2>1
<1>9. 2 * c < 2 * d
  BY <1>8
<1> QED BY <1>4, <1>5, <1>9 DEF g, h

KeptIs(kept, n) ==
  /\ kept \in Seq(Bands) /\ CentersAscending(kept)
  /\ \A k \in DOMAIN kept : \E m \in DOMAIN Groups(frame) :
       m <= n /\ kept[k] = BandOf(frame, Groups(frame)[m])

KeepRound(kept, n) ==
  IF StrongEnough(frame, Groups(frame)[n]) THEN Append(kept, BandOf(frame, Groups(frame)[n])) ELSE kept

LEMMA KeepRoundKeeps ==
  ASSUME frame \in Frames, NEW n \in DOMAIN Groups(frame), NEW kept, KeptIs(kept, n - 1)
  PROVE  KeptIs(KeepRound(kept, n), n)
<1> DEFINE b == BandOf(frame, Groups(frame)[n])
           next == Append(kept, b)
<1>1. DOMAIN Groups(frame) \subseteq Int
  <2>1. FoundBefore(Flagged(frame), Groups(frame), Len(frame) - Window + 1)
    BY FramesAreSpectra, GroupsAre
  <2> QED BY <2>1 DEF FoundBefore
<1>2. /\ kept \in Seq(Bands) /\ CentersAscending(kept) /\ Len(kept) \in Nat /\ DOMAIN kept = 1..Len(kept)
      /\ \A k \in DOMAIN kept : \E m \in DOMAIN Groups(frame) :
           m <= n - 1 /\ kept[k] = BandOf(frame, Groups(frame)[m])
  BY DEF KeptIs
<1>3. b \in Bands
  BY CfarAssumption, GroupsAreSpans, BandWithin
<1> HIDE DEF b
<1>4. /\ next \in Seq(Bands) /\ DOMAIN next = 1..(Len(kept) + 1)
      /\ next[Len(kept) + 1] = b /\ \A k \in 1..Len(kept) : next[k] = kept[k]
  BY <1>2, <1>3
<1> HIDE DEF next
<1>5. KeptIs(next, n)
  <2>1. ASSUME NEW k \in DOMAIN next
        PROVE  \E m \in DOMAIN Groups(frame) : m <= n /\ next[k] = BandOf(frame, Groups(frame)[m])
    <3>1. CASE k \in DOMAIN kept
      <4>1. PICK m \in DOMAIN Groups(frame) : m <= n - 1 /\ kept[k] = BandOf(frame, Groups(frame)[m])
        BY <1>2, <3>1
      <4>2. m <= n /\ next[k] = kept[k]
        BY <1>1, <1>2, <1>4, <3>1, <4>1
      <4> QED BY <4>1, <4>2
    <3>2. CASE k = Len(kept) + 1
      <4>1. n <= n
        BY <1>1
      <4> QED BY <1>4, <3>2, <4>1 DEF b
    <3> QED BY <1>2, <1>4, <3>1, <3>2
  <2>2. ASSUME NEW i \in DOMAIN next, NEW j \in DOMAIN next, i < j
        PROVE  Center(next[i]) < Center(next[j])
    <3>1. i \in DOMAIN kept /\ next[i] = kept[i]
      BY <1>2, <1>4, <2>2
    <3>2. CASE j \in DOMAIN kept
      <4>1. next[j] = kept[j]
        BY <1>2, <1>4, <3>2
      <4> QED BY <1>2, <2>2, <3>1, <3>2, <4>1 DEF CentersAscending
    <3>3. CASE j = Len(kept) + 1
      <4>1. PICK m \in DOMAIN Groups(frame) : m <= n - 1 /\ kept[i] = BandOf(frame, Groups(frame)[m])
        BY <1>2, <3>1
      <4>2. m < n
        BY <1>1, <4>1
      <4>3. Center(BandOf(frame, Groups(frame)[m])) < Center(b)
        BY <4>2, CentersAscend DEF b
      <4> QED BY <1>4, <3>1, <3>3, <4>1, <4>3
    <3> QED BY <1>2, <1>4, <3>2, <3>3
  <2> QED BY <1>4, <2>1, <2>2 DEF KeptIs, CentersAscending
<1>6. KeptIs(kept, n)
  <2>1. \A m \in DOMAIN Groups(frame) : m <= n - 1 => m <= n
    BY <1>1
  <2> QED BY <1>2, <2>1 DEF KeptIs
<1> QED BY <1>5, <1>6 DEF KeepRound, next, b

LEMMA GroupBandsAscend ==
  ASSUME frame \in Frames
  PROVE  GroupBands(frame) \in Seq(Bands) /\ CentersAscending(GroupBands(frame))
<1> DEFINE groups == Groups(frame)
           n == Len(groups)
           S == Seq(Bands)
           step == [i \in 1..n |-> [kept \in S |-> KeepRound(kept, i)]]
           Defining(f) == f = [i \in 0..n |-> IF i = 0 THEN <<>> ELSE KeepRound(f[i - 1], i)]
           kept == CHOOSE f : Defining(f)
<1>1. n \in Nat /\ DOMAIN groups = 1..n
  <2>1. FoundBefore(Flagged(frame), groups, Len(frame) - Window + 1)
    BY FramesAreSpectra, GroupsAre
  <2> QED BY <2>1 DEF FoundBefore
<1>2. <<>> \in S
  OBVIOUS
<1>3. step \in [1..n -> [S -> S]]
  <2>1. ASSUME NEW i \in 1..n, NEW s \in S PROVE KeepRound(s, i) \in S
    <3>1. BandOf(frame, groups[i]) \in Bands
      BY <1>1, CfarAssumption, GroupsAreSpans, BandWithin
    <3> QED BY <3>1 DEF KeepRound
  <2> QED BY <2>1
<1>4. PICK f \in [0..n -> S] : f[0] = <<>> /\ \A i \in 1..n : f[i] = step[i][f[i - 1]]
  <2>1. StepsOf(step, S, n)
    BY <1>3 DEF StepsOf
  <2> HIDE DEF n, S, step
  <2>2. \E f : Iterates(f, S, <<>>, n, step)
    BY <1>1, <1>2, <2>1, IterationExists
  <2> QED BY <2>2 DEF Iterates
<1>5. ASSUME NEW i \in 1..n PROVE f[i] = KeepRound(f[i - 1], i)
  <2>1. i - 1 \in 0..n
    BY <1>1
  <2>2. f[i - 1] \in S
    BY <1>4, <2>1
  <2> HIDE DEF S
  <2> QED BY <1>4, <2>2
<1>6. Defining(f)
  <2> DEFINE g == [i \in 0..n |-> IF i = 0 THEN <<>> ELSE KeepRound(f[i - 1], i)]
  <2>1. ASSUME NEW i \in 0..n PROVE f[i] = g[i]
    <3>1. CASE i = 0
      BY <1>4, <3>1
    <3>2. CASE i # 0
      <4>1. i \in 1..n
        BY <1>1, <3>2
      <4> QED BY <1>5, <3>2, <4>1
    <3> QED BY <3>1, <3>2
  <2> HIDE DEF S
  <2>2. DOMAIN f = 0..n /\ f = [i \in 0..n |-> f[i]]
    BY <1>4
  <2> QED BY <2>1, <2>2
<1>7. GroupBands(frame) = kept[n]
  BY DEF GroupBands, KeepRound
<1>8. Defining(kept)
  <2> HIDE DEF Defining
  <2> QED BY <1>6
<1> HIDE DEF kept
<1>9. kept[0] = <<>> /\ \A i \in 1..n : kept[i] = KeepRound(kept[i - 1], i)
  <2>1. 0 \in 0..n /\ \A i \in 1..n : i \in 0..n /\ i # 0
    BY <1>1
  <2> QED BY <1>8, <2>1
<1> DEFINE G == {i \in 0..n : KeptIs(kept[i], i)}
<1>10. 0 \in G
  <2>1. KeptIs(<<>>, 0)
    BY DEF KeptIs, CentersAscending
  <2> QED BY <1>1, <1>9, <2>1
<1>11. ASSUME NEW i \in 1..n, i - 1 \in G PROVE i \in G
  <2>1. KeptIs(kept[i - 1], i - 1) /\ i \in 0..n /\ i \in DOMAIN groups
    BY <1>1, <1>11
  <2>2. KeptIs(KeepRound(kept[i - 1], i), i)
    BY <2>1, KeepRoundKeeps
  <2> QED BY <1>9, <2>1, <2>2
<1>12. n \in G
  <2> HIDE DEF G, n
  <2>1. \A i \in 0..n : i \in G
    BY <1>1, <1>10, <1>11, NumbersUpTo
  <2> QED BY <1>1, <2>1
<1> QED BY <1>7, <1>12 DEF KeptIs

\* The sort of merge_adjacent finds them in order.
LEMMA SortedByCenter ==
  ASSUME NEW bands \in Seq(Bands), CentersAscending(bands)
  PROVE  DOMAIN ByCenter(bands) = DOMAIN bands /\ \A r \in DOMAIN bands : ByCenter(bands)[r] = bands[r]
<1> DEFINE before(i) == {j \in DOMAIN bands :
                          \/ Center(bands[j]) < Center(bands[i])
                          \/ /\ Center(bands[j]) = Center(bands[i])
                             /\ j < i}
           rank(r) == CHOOSE i \in DOMAIN bands : Cardinality(before(i)) = r - 1
<1>1. DOMAIN bands = 1..Len(bands) /\ Len(bands) \in Nat
  OBVIOUS
<1>2. \A i \in DOMAIN bands : Center(bands[i]) \in Int
  <2>1. \A i \in DOMAIN bands : bands[i] \in Bands
    OBVIOUS
  <2> QED BY <2>1 DEF Center, Bands
<1>3. ASSUME NEW i \in DOMAIN bands PROVE before(i) = 1..(i - 1)
  <2>1. ASSUME NEW j \in DOMAIN bands PROVE j \in before(i) <=> j < i
    <3>1. CASE j < i
      BY <3>1 DEF CentersAscending
    <3>2. CASE j = i
      BY <1>1, <1>2, <3>2
    <3>3. CASE i < j
      <4>1. Center(bands[i]) < Center(bands[j])
        BY <3>3 DEF CentersAscending
      <4> QED BY <1>1, <1>2, <3>3, <4>1
    <3> QED BY <1>1, <3>1, <3>2, <3>3
  <2>2. \A j \in before(i) : j \in DOMAIN bands
    OBVIOUS
  <2>3. \A j : j \in 1..(i - 1) <=> j \in DOMAIN bands /\ j < i
    BY <1>1
  <2> HIDE DEF before
  <2>4. \A j : j \in before(i) <=> j \in 1..(i - 1)
    BY <2>1, <2>2, <2>3
  <2> QED BY <2>4
<1>4. ASSUME NEW i \in DOMAIN bands PROVE Cardinality(before(i)) = i - 1
  <2>1. 1 \in Int /\ i - 1 \in Int /\ i - 1 >= 0
    BY <1>1
  <2>2. Cardinality(1..(i - 1)) = i - 1
    BY <2>1, FS_Interval
  <2> QED BY <1>3, <2>2
<1>5. ASSUME NEW r \in DOMAIN bands PROVE rank(r) = r
  <2>1. \A i \in DOMAIN bands : Cardinality(before(i)) = r - 1 <=> i = r
    BY <1>1, <1>4
  <2> HIDE DEF before
  <2> QED BY <2>1
<1> QED BY <1>5 DEF ByCenter

----------------------------------------------------------------------------
(* CFAR: merging *)

Within(b, d) == d.lo <= b.lo /\ b.hi <= d.hi
Apart(out) == \A m, n \in DOMAIN out : m < n => out[n].lo - out[m].hi > MergeGap * Scale
Rising(bands) == \A i, j \in DOMAIN bands : i < j => bands[i].lo <= bands[j].lo

\* What is known when the first n bands have been merged.
MergedIs(out, bands, n) ==
  /\ out \in Seq(Bands)
  /\ \A i \in 1..n : \E k \in DOMAIN out : Within(bands[i], out[k])
  /\ Rising(bands) => /\ Apart(out)
                      /\ \A k \in DOMAIN out : \A j \in (n + 1)..Len(bands) : out[k].lo <= bands[j].lo

LEMMA AppendedIs ==
  ASSUME MergeGap * Scale \in Int,
         NEW bands \in Seq(Bands), NEW n \in 1..Len(bands),
         NEW out, MergedIs(out, bands, n - 1),
         out = <<>> \/ bands[n].lo - out[Len(out)].hi > MergeGap * Scale
  PROVE  MergedIs(Append(out, bands[n]), bands, n)
<1> DEFINE b == bands[n]
           next == Append(out, b)
           gap == MergeGap * Scale
<1>1. /\ out \in Seq(Bands) /\ Len(out) \in Nat /\ DOMAIN out = 1..Len(out)
      /\ \A i \in 1..(n - 1) : \E k \in DOMAIN out : Within(bands[i], out[k])
      /\ Rising(bands) => /\ Apart(out)
                          /\ \A k \in DOMAIN out : \A j \in n..Len(bands) : out[k].lo <= bands[j].lo
  BY DEF MergedIs
<1>2. /\ Len(bands) \in Nat /\ DOMAIN bands = 1..Len(bands) /\ n \in Int
      /\ \A i \in 1..Len(bands) : bands[i] \in Bands
  OBVIOUS
<1>3. \A i \in 1..Len(bands) : bands[i].lo \in Int /\ bands[i].hi \in Int
  BY <1>2 DEF Bands
<1>4. \A k \in DOMAIN out : out[k].lo \in Int /\ out[k].hi \in Int
  <2>1. \A k \in DOMAIN out : out[k] \in Bands
    BY <1>1
  <2> QED BY <2>1 DEF Bands
<1>5. /\ next \in Seq(Bands) /\ DOMAIN next = 1..(Len(out) + 1)
      /\ next[Len(out) + 1] = b /\ \A k \in DOMAIN out : next[k] = out[k]
  BY <1>1, <1>2
<1> HIDE DEF next
<1>6. ASSUME NEW i \in 1..n PROVE \E k \in DOMAIN next : Within(bands[i], next[k])
  <2>1. CASE i \in 1..(n - 1)
    <3>1. PICK k \in DOMAIN out : Within(bands[i], out[k])
      BY <1>1, <2>1
    <3> QED BY <1>1, <1>5, <3>1
  <2>2. CASE i = n
    <3>1. Within(b, b) /\ Len(out) + 1 \in DOMAIN next
      BY <1>1, <1>3, <1>5 DEF Within
    <3> QED BY <1>5, <2>2, <3>1
  <2> QED BY <1>2, <2>1, <2>2
<1>7. ASSUME Rising(bands) PROVE Apart(next)
  <2> SUFFICES ASSUME NEW k \in DOMAIN next, NEW l \in DOMAIN next, k < l
               PROVE  next[l].lo - next[k].hi > gap
    BY DEF Apart
  <2>1. k \in DOMAIN out /\ next[k] = out[k]
    BY <1>1, <1>5
  <2>2. CASE l \in DOMAIN out
    BY <1>1, <1>5, <1>7, <2>1, <2>2 DEF Apart
  <2>3. CASE l = Len(out) + 1
    <3>1. next[l] = b /\ Len(out) \in DOMAIN out /\ out # <<>>
      BY <1>1, <1>5, <2>1, <2>3
    <3>2. PICK x \in Int, y \in Int, lo \in Int, hi \in Int :
            x = out[k].hi /\ y = b.lo /\ lo = out[Len(out)].lo /\ hi = out[Len(out)].hi
      BY <1>2, <1>3, <1>4, <2>1, <3>1
    <3>3. y - hi > gap
      BY <3>1, <3>2
    <3>4. lo <= y
      <4>1. n \in n..Len(bands)
        BY <1>2
      <4> QED BY <1>1, <1>7, <3>1, <3>2, <4>1
    <3>5. k = Len(out) \/ k < Len(out)
      BY <1>1, <2>1
    <3>6. CASE k < Len(out)
      <4>1. lo - x > gap
        BY <1>1, <1>7, <2>1, <3>1, <3>2, <3>6 DEF Apart
      <4> QED BY <2>1, <3>1, <3>2, <3>4, <4>1
    <3> QED BY <2>1, <3>1, <3>2, <3>3, <3>5, <3>6
  <2> QED BY <1>1, <1>5, <2>2, <2>3
<1>8. ASSUME Rising(bands), NEW k \in DOMAIN next, NEW j \in (n + 1)..Len(bands)
      PROVE  next[k].lo <= bands[j].lo
  <2>1. j \in n..Len(bands) /\ j \in DOMAIN bands /\ n < j /\ n \in DOMAIN bands
    BY <1>2
  <2>2. CASE k \in DOMAIN out
    BY <1>1, <1>5, <1>8, <2>1, <2>2
  <2>3. CASE k = Len(out) + 1
    BY <1>5, <1>8, <2>1, <2>3 DEF Rising
  <2> QED BY <1>1, <1>5, <2>2, <2>3
<1>9. MergedIs(next, bands, n)
  BY <1>5, <1>6, <1>7, <1>8 DEF MergedIs
<1> QED BY <1>9 DEF next

\* d reaches from the lower of the lower edges to the higher of the higher ones.
JoinOf(a, b, d) ==
  /\ d.lo = IF a.lo <= b.lo THEN a.lo ELSE b.lo
  /\ d.hi = IF a.hi >= b.hi THEN a.hi ELSE b.hi

LEMMA JoinedIs ==
  ASSUME MergeGap * Scale \in Int,
         NEW bands \in Seq(Bands), NEW n \in 1..Len(bands),
         NEW out, MergedIs(out, bands, n - 1), out # <<>>,
         NEW d \in Bands, JoinOf(out[Len(out)], bands[n], d)
  PROVE  MergedIs([out EXCEPT ![Len(out)] = d], bands, n)
<1> DEFINE b == bands[n]
           last == Len(out)
           next == [out EXCEPT ![last] = d]
           gap == MergeGap * Scale
<1>1. /\ out \in Seq(Bands) /\ last \in Nat /\ DOMAIN out = 1..last
      /\ \A i \in 1..(n - 1) : \E k \in DOMAIN out : Within(bands[i], out[k])
      /\ Rising(bands) => /\ Apart(out)
                          /\ \A k \in DOMAIN out : \A j \in n..Len(bands) : out[k].lo <= bands[j].lo
  BY DEF MergedIs
<1>2. /\ Len(bands) \in Nat /\ n \in Int /\ n \in n..Len(bands) /\ last \in DOMAIN out
      /\ \A i \in 1..Len(bands) : bands[i] \in Bands
  BY <1>1
<1>3. \A i \in 1..Len(bands) : bands[i].lo \in Int /\ bands[i].hi \in Int
  BY <1>2 DEF Bands
<1>4. \A k \in DOMAIN out : out[k].lo \in Int /\ out[k].hi \in Int
  <2>1. \A k \in DOMAIN out : out[k] \in Bands
    BY <1>1
  <2> QED BY <2>1 DEF Bands
<1>5. /\ next \in Seq(Bands) /\ DOMAIN next = DOMAIN out
      /\ next[last] = d /\ \A k \in DOMAIN out : k # last => next[k] = out[k]
  BY <1>1, <1>2
<1>6. PICK lo \in Int, hi \in Int, blo \in Int, bhi \in Int :
        lo = out[last].lo /\ hi = out[last].hi /\ blo = b.lo /\ bhi = b.hi
  BY <1>2, <1>3, <1>4
<1>7. /\ d.lo = IF lo <= blo THEN lo ELSE blo
      /\ d.hi = IF hi >= bhi THEN hi ELSE bhi
  BY <1>6 DEF JoinOf
<1> HIDE DEF next, last, b
<1>8. Within(b, d) /\ Within(out[last], d)
  BY <1>6, <1>7 DEF Within
<1>9. ASSUME NEW i \in 1..n PROVE \E k \in DOMAIN next : Within(bands[i], next[k])
  <2>1. CASE i \in 1..(n - 1)
    <3>1. PICK k \in DOMAIN out : Within(bands[i], out[k])
      BY <1>1, <2>1
    <3>2. CASE k = last
      <4>1. PICK x \in Int, y \in Int : x = bands[i].lo /\ y = bands[i].hi
        <5>1. i \in 1..Len(bands)
          BY <1>2
        <5> QED BY <1>3, <5>1
      <4>2. lo <= x /\ y <= hi
        BY <1>6, <3>1, <3>2, <4>1 DEF Within
      <4>3. d.lo <= x /\ y <= d.hi
        <5>1. (IF lo <= blo THEN lo ELSE blo) <= x
          <6>1. lo <= blo \/ blo <= x
            <7>1. \A p, q, r \in Int : p <= r => p <= q \/ q <= r
              OBVIOUS
            <7> QED BY <1>6, <4>1, <4>2, <7>1
          <6> QED BY <4>2, <6>1
        <5>2. y <= (IF hi >= bhi THEN hi ELSE bhi)
          <6>1. hi >= bhi \/ y <= bhi
            <7>1. \A p, q, r \in Int : r <= p => p >= q \/ r <= q
              OBVIOUS
            <7> QED BY <1>6, <4>1, <4>2, <7>1
          <6> QED BY <4>2, <6>1
        <5> QED BY <1>7, <5>1, <5>2
      <4>4. Within(bands[i], d)
        BY <4>1, <4>3 DEF Within
      <4> QED BY <1>2, <1>5, <4>4
    <3>3. CASE k # last
      BY <1>5, <3>1, <3>3
    <3> QED BY <3>2, <3>3
  <2>2. CASE i = n
    BY <1>2, <1>5, <1>8, <2>2 DEF b
  <2> QED BY <1>2, <2>1, <2>2
\* When the bands' lower edges rise, the detection keeps its own.
<1>10. ASSUME Rising(bands) PROVE \A k \in DOMAIN out : next[k].lo = out[k].lo
  <2>1. lo <= blo
    BY <1>1, <1>2, <1>6, <1>10 DEF b
  <2>2. d.lo = lo
    BY <1>7, <2>1
  <2> QED BY <1>5, <1>6, <2>2
<1>11. ASSUME Rising(bands) PROVE Apart(next)
  <2> SUFFICES ASSUME NEW k \in DOMAIN next, NEW l \in DOMAIN next, k < l
               PROVE  next[l].lo - next[k].hi > gap
    BY DEF Apart
  <2>1. k \in DOMAIN out /\ l \in DOMAIN out /\ k # last
    BY <1>1, <1>5
  <2>2. next[k] = out[k] /\ next[l].lo = out[l].lo
    BY <1>5, <1>10, <1>11, <2>1
  <2>3. out[l].lo - out[k].hi > gap
    BY <1>1, <1>11, <2>1 DEF Apart
  <2> QED BY <2>2, <2>3
<1>12. ASSUME Rising(bands), NEW k \in DOMAIN next, NEW j \in (n + 1)..Len(bands)
       PROVE  next[k].lo <= bands[j].lo
  <2>1. j \in n..Len(bands)
    BY <1>2
  <2> QED BY <1>1, <1>5, <1>10, <1>12, <2>1
<1>13. MergedIs(next, bands, n)
  BY <1>5, <1>9, <1>11, <1>12 DEF MergedIs
<1> QED BY <1>13 DEF next, last

\* What MergeInto puts in the place of the newest detection.
LEMMA JoinExists ==
  ASSUME NEW a \in Bands, NEW b \in Bands
  PROVE  \E d \in Bands : /\ JoinOf(a, b, d)
                          /\ d = [lo |-> Min({a.lo, b.lo}), hi |-> Max({a.hi, b.hi})]
<1>1. PICK alo \in Int, ahi \in Int, blo \in Int, bhi \in Int :
        alo = a.lo /\ ahi = a.hi /\ blo = b.lo /\ bhi = b.hi
  BY DEF Bands
<1>2. PICK lo \in Int : lo = Min({alo, blo}) /\ lo = IF alo <= blo THEN alo ELSE blo
  BY MinOfTwo
<1>3. PICK hi \in Int : hi = Max({ahi, bhi}) /\ hi = IF ahi >= bhi THEN ahi ELSE bhi
  BY MaxOfTwo
<1> DEFINE d == [lo |-> lo, hi |-> hi]
<1>4. d \in Bands /\ JoinOf(a, b, d)
  BY <1>1, <1>2, <1>3 DEF Bands, JoinOf
<1>5. d = [lo |-> Min({a.lo, b.lo}), hi |-> Max({a.hi, b.hi})]
  BY <1>1, <1>2, <1>3
<1> QED BY <1>4, <1>5

LEMMA MergeIntoCases ==
  ASSUME MergeGap * Scale \in Int, NEW out \in Seq(Bands), NEW b \in Bands
  PROVE  \/ /\ out = <<>> \/ b.lo - out[Len(out)].hi > MergeGap * Scale
            /\ MergeInto(out, b) = Append(out, b)
         \/ /\ out # <<>>
            /\ \E d \in Bands : /\ JoinOf(out[Len(out)], b, d)
                               /\ MergeInto(out, b) = [out EXCEPT ![Len(out)] = d]
<1>1. CASE out = <<>>
  BY <1>1 DEF MergeInto
<1>2. CASE out # <<>>
  <2>1. out[Len(out)] \in Bands
    <3>1. Len(out) \in DOMAIN out
      BY <1>2
    <3> QED BY <3>1
  <2>2. out[Len(out)].hi \in Int /\ b.lo \in Int
    BY <2>1 DEF Bands
  <2>3. CASE b.lo - out[Len(out)].hi <= MergeGap * Scale
    <3>1. PICK d \in Bands :
            /\ JoinOf(out[Len(out)], b, d)
            /\ d = [lo |-> Min({out[Len(out)].lo, b.lo}), hi |-> Max({out[Len(out)].hi, b.hi})]
      BY <2>1, JoinExists
    <3>2. MergeInto(out, b) = [out EXCEPT ![Len(out)] = d]
      BY <1>2, <2>3, <3>1 DEF MergeInto
    <3> QED BY <1>2, <3>1, <3>2
  <2>4. CASE ~(b.lo - out[Len(out)].hi <= MergeGap * Scale)
    <3>1. b.lo - out[Len(out)].hi > MergeGap * Scale
      BY <2>2, <2>4
    <3>2. MergeInto(out, b) = Append(out, b)
      BY <2>4 DEF MergeInto
    <3> QED BY <3>1, <3>2
  <2> QED BY <2>3, <2>4
<1> QED BY <1>1, <1>2

LEMMA MergeIntoKeeps ==
  ASSUME MergeGap * Scale \in Int,
         NEW bands \in Seq(Bands), NEW n \in 1..Len(bands),
         NEW out, MergedIs(out, bands, n - 1)
  PROVE  MergedIs(MergeInto(out, bands[n]), bands, n)
<1>1. out \in Seq(Bands) /\ bands[n] \in Bands
  BY DEF MergedIs
<1>2. CASE /\ out = <<>> \/ bands[n].lo - out[Len(out)].hi > MergeGap * Scale
           /\ MergeInto(out, bands[n]) = Append(out, bands[n])
  BY <1>2, AppendedIs
<1>3. ASSUME out # <<>>, NEW d \in Bands, JoinOf(out[Len(out)], bands[n], d),
             MergeInto(out, bands[n]) = [out EXCEPT ![Len(out)] = d]
      PROVE  MergedIs(MergeInto(out, bands[n]), bands, n)
  BY <1>3, JoinedIs
<1> QED BY <1>1, <1>2, <1>3, MergeIntoCases

LEMMA MergeIntoStays ==
  ASSUME MergeGap * Scale \in Int, NEW out \in Seq(Bands), NEW b \in Bands
  PROVE  MergeInto(out, b) \in Seq(Bands)
<1>1. Append(out, b) \in Seq(Bands)
  BY AppendProperties
<1>2. ASSUME out # <<>>, NEW d \in Bands PROVE [out EXCEPT ![Len(out)] = d] \in Seq(Bands)
  <2>1. Len(out) \in Nat /\ DOMAIN out = 1..Len(out) /\ out \in [1..Len(out) -> Bands]
    OBVIOUS
  <2>2. [out EXCEPT ![Len(out)] = d] \in [1..Len(out) -> Bands]
    BY <2>1
  <2> QED BY <2>1, <2>2
<1>3. \/ MergeInto(out, b) = Append(out, b)
      \/ out # <<>> /\ \E d \in Bands : MergeInto(out, b) = [out EXCEPT ![Len(out)] = d]
  BY MergeIntoCases
<1>4. CASE MergeInto(out, b) = Append(out, b)
  BY <1>1, <1>4, Zenon
<1>5. CASE out # <<>> /\ \E d \in Bands : MergeInto(out, b) = [out EXCEPT ![Len(out)] = d]
  BY <1>2, <1>5, Zenon
<1> QED BY <1>3, <1>4, <1>5

LEMMA MergeAdjacentIs ==
  ASSUME MergeGap \in Int, MergeGap > 0, Scale \in Nat, NEW bands \in Seq(Bands), CentersAscending(bands)
  PROVE  MergedIs(MergeAdjacent(bands), bands, Len(bands))
<1> DEFINE n == Len(bands)
           S == Seq(Bands)
           sorted == ByCenter(bands)
           step == [i \in 1..n |-> [out \in S |-> MergeInto(out, sorted[i])]]
           Defining(f) == f = [i \in 0..n |-> IF i = 0 THEN <<>> ELSE MergeInto(f[i - 1], ByCenter(bands)[i])]
           merged == CHOOSE f : Defining(f)
<1>1. n \in Nat /\ DOMAIN bands = 1..n /\ MergeGap * Scale \in Int /\ <<>> \in S
  OBVIOUS
<1>2. \A i \in 1..n : sorted[i] = bands[i] /\ bands[i] \in Bands
  BY <1>1, SortedByCenter
<1> HIDE DEF sorted
<1>3. step \in [1..n -> [S -> S]]
  <2>1. ASSUME NEW i \in 1..n, NEW out \in S PROVE MergeInto(out, sorted[i]) \in S
    BY <1>1, <1>2, MergeIntoStays
  <2> QED BY <2>1
<1>4. PICK f \in [0..n -> S] : f[0] = <<>> /\ \A i \in 1..n : f[i] = step[i][f[i - 1]]
  <2>1. StepsOf(step, S, n)
    BY <1>3 DEF StepsOf
  <2> HIDE DEF n, S, step
  <2>2. \E f : Iterates(f, S, <<>>, n, step)
    BY <1>1, <2>1, IterationExists
  <2> QED BY <2>2 DEF Iterates
<1>5. ASSUME NEW i \in 1..n PROVE f[i] = MergeInto(f[i - 1], sorted[i])
  <2>1. i - 1 \in 0..n
    BY <1>1
  <2>2. f[i - 1] \in S
    BY <1>4, <2>1
  <2> HIDE DEF S
  <2> QED BY <1>4, <2>2
<1>6. Defining(f)
  <2> DEFINE g == [i \in 0..n |-> IF i = 0 THEN <<>> ELSE MergeInto(f[i - 1], sorted[i])]
  <2>1. ASSUME NEW i \in 0..n PROVE f[i] = g[i]
    <3>1. CASE i = 0
      BY <1>4, <3>1
    <3>2. CASE i # 0
      <4>1. i \in 1..n
        BY <1>1, <3>2
      <4> QED BY <1>5, <3>2, <4>1
    <3> QED BY <3>1, <3>2
  <2> HIDE DEF S
  <2>2. DOMAIN f = 0..n /\ f = [i \in 0..n |-> f[i]]
    BY <1>4
  <2> QED BY <2>1, <2>2 DEF sorted
<1>7. MergeAdjacent(bands) = merged[n]
  <2>1. ~(MergeGap <= 0)
    OBVIOUS
  <2> QED BY <2>1 DEF MergeAdjacent
<1>8. Defining(merged)
  <2> HIDE DEF Defining
  <2> QED BY <1>6
<1> HIDE DEF merged
<1>9. merged[0] = <<>> /\ \A i \in 1..n : merged[i] = MergeInto(merged[i - 1], bands[i])
  <2>1. 0 \in 0..n /\ \A i \in 1..n : i \in 0..n /\ i # 0
    BY <1>1
  <2> QED BY <1>2, <1>8, <2>1 DEF sorted
<1> DEFINE G == {i \in 0..n : MergedIs(merged[i], bands, i)}
<1>10. 0 \in G
  <2>1. MergedIs(<<>>, bands, 0)
    BY <1>1 DEF MergedIs, Apart
  <2> QED BY <1>1, <1>9, <2>1
<1>11. ASSUME NEW i \in 1..n, i - 1 \in G PROVE i \in G
  <2>1. MergedIs(merged[i - 1], bands, i - 1) /\ i \in 0..n /\ i \in 1..Len(bands)
    BY <1>1, <1>11
  <2>2. MergedIs(MergeInto(merged[i - 1], bands[i]), bands, i)
    BY <1>1, <2>1, MergeIntoKeeps
  <2> QED BY <1>9, <2>1, <2>2
<1>12. n \in G
  <2> HIDE DEF G, n
  <2>1. \A i \in 0..n : i \in G
    BY <1>1, <1>10, <1>11, NumbersUpTo
  <2> QED BY <1>1, <2>1
<1> QED BY <1>7, <1>12

\* What Detect leaves in detections.
Reported(psd) == IF Len(psd) < 2 * Window + 1 THEN <<>> ELSE MergeAdjacent(GroupBands(psd))
DetectedIs == frame \in Frames /\ (detected => detections = Reported(frame))

\* A spectrum shorter than the window has no group.
LEMMA ShortSpectrumIsEmpty ==
  ASSUME frame \in Frames, Len(frame) < 2 * Window + 1
  PROVE  GroupBands(frame) = <<>>
<1>1. Len(frame) \in Nat /\ Window \in Nat
  BY FramesAreSpectra
<1>2. Flagged(frame) = {}
  <2>1. (Window + 1)..(Len(frame) - Window) = {}
    BY <1>1
  <2> QED BY <2>1 DEF Flagged, Tested
<1>3. FoundBefore({}, Groups(frame), Len(frame) - Window + 1)
  BY <1>1, <1>2, GroupsAre
<1>4. Len(Groups(frame)) = 0
  <2>1. Groups(frame) \in Seq(GroupSpans) /\ \A n \in 1..Len(Groups(frame)) : FALSE
    BY <1>3 DEF FoundBefore
  <2>2. Len(Groups(frame)) \in Nat /\ (Len(Groups(frame)) # 0 => 1 \in 1..Len(Groups(frame)))
    BY <2>1
  <2> QED BY <2>1, <2>2
<1> DEFINE groups == Groups(frame)
           Defining(f) == f = [n \in 0..Len(groups) |-> IF n = 0 THEN <<>> ELSE KeepRound(f[n - 1], n)]
           kept == CHOOSE f : Defining(f)
<1>5. GroupBands(frame) = kept[Len(groups)]
  BY DEF GroupBands, KeepRound
<1>6. Defining([n \in 0..0 |-> <<>>])
  <2>1. \A n \in 0..0 : n = 0
    OBVIOUS
  <2> HIDE DEF groups
  <2> QED BY <1>4, <2>1 DEF groups
<1>7. Defining(kept)
  <2> HIDE DEF Defining
  <2> QED BY <1>6
<1> HIDE DEF kept
<1>8. kept[0] = <<>>
  BY <1>4, <1>7
<1> QED BY <1>4, <1>5, <1>8

(* For every spectrum and gap: each band of a group lies within one detection,  *)
(* and detections are further apart than the gap when no band begins below one  *)
(* with a lower center (merge_adjacent in rf-dsp/src/cfar.rs).                  *)
THEOREM MergingIsSoundHolds == CfarSpec => []MergingIsSound
<1>1. CfarInit => DetectedIs
  BY DEF CfarInit, NotDetected, DetectedIs
<1>2. DetectedIs /\ [Detect]_cfarVars => DetectedIs'
  <2> SUFFICES ASSUME DetectedIs, [Detect]_cfarVars PROVE DetectedIs'
    OBVIOUS
  <2>1. CASE Detect
    <3>1. frame' = frame /\ detections' = Reported(frame)
      BY <2>1 DEF Detect, Reported
    <3> QED BY <3>1 DEF DetectedIs
  <2>2. CASE UNCHANGED cfarVars
    BY <2>2 DEF DetectedIs, cfarVars
  <2> QED BY <2>1, <2>2
<1>3. DetectedIs => MergingIsSound
  <2> SUFFICES ASSUME DetectedIs, detected PROVE MergingIsSound
    BY DEF MergingIsSound
  <2> DEFINE bands == GroupBands(frame)
             n == Len(bands)
  <2>1. frame \in Frames /\ detections = Reported(frame)
    BY DEF DetectedIs
  <2>2. bands \in Seq(Bands) /\ CentersAscending(bands) /\ n \in Nat /\ DOMAIN bands = 1..n
    BY <2>1, GroupBandsAscend
  <2>3. MergeGap \in Int /\ Scale \in Nat
    BY CfarAssumption
  <2>4. /\ \A i \in DOMAIN bands : \E k \in DOMAIN detections : Within(bands[i], detections[k])
        /\ MergeGap > 0 /\ Rising(bands) => Apart(detections)
    <3>1. CASE Len(frame) < 2 * Window + 1
      <4>1. detections = <<>> /\ bands = <<>>
        BY <2>1, <3>1, ShortSpectrumIsEmpty DEF Reported
      <4> QED BY <4>1 DEF Apart
    <3>2. CASE ~(Len(frame) < 2 * Window + 1) /\ MergeGap > 0
      <4>1. detections = MergeAdjacent(bands)
        BY <2>1, <3>2 DEF Reported
      <4> HIDE DEF bands
      <4>2. MergedIs(detections, bands, n)
        BY <2>2, <2>3, <3>2, <4>1, MergeAdjacentIs
      <4> QED BY <2>2, <4>2 DEF MergedIs
    <3>3. CASE ~(Len(frame) < 2 * Window + 1) /\ ~(MergeGap > 0)
      <4>1. detections = bands
        BY <2>1, <2>3, <3>3 DEF Reported, MergeAdjacent
      <4> HIDE DEF bands
      <4>2. \A i \in DOMAIN bands : Within(bands[i], bands[i])
        <5>1. \A i \in DOMAIN bands : bands[i] \in Bands
          BY <2>2
        <5> QED BY <5>1 DEF Within, Bands
      <4> QED BY <3>3, <4>1, <4>2
    <3> QED BY <3>1, <3>2, <3>3
  <2> HIDE DEF bands
  <2>5. ASSUME \A i, j \in DOMAIN bands : Center(bands[i]) < Center(bands[j]) => bands[i].lo <= bands[j].lo
        PROVE  Rising(bands)
    BY <2>2, <2>5 DEF Rising, CentersAscending
  <2> QED BY <2>4, <2>5 DEF MergingIsSound, Within, Apart, bands
<1> QED BY <1>1, <1>2, <1>3, PTL DEF CfarSpec

----------------------------------------------------------------------------
(* The occupancy map: what a tile writes *)

\* A tile has the center of one of its bins in every stretch that it covers and
\* that is no narrower than they.
LEMMA TileReaches ==
  ASSUME NEW tile, tile.center \in Int, tile.binWidth \in Nat \ {0}, Len(tile.psd) \in Nat,
         NEW reach \in Nat \ {0}, tile.binWidth <= reach, NEW z \in Int,
         tile.center - (Len(tile.psd) * tile.binWidth) \div 2 <= z,
         z + reach <= tile.center - (Len(tile.psd) * tile.binWidth) \div 2 + Len(tile.psd) * tile.binWidth
  PROVE  \E i \in 1..Len(tile.psd) : z <= Freq(tile, i) /\ Freq(tile, i) < z + reach
<1> DEFINE n == Len(tile.psd)
           w == tile.binWidth
           low == tile.center - (n * w) \div 2
           Reach == {i \in 1..n : z <= Freq(tile, i)}
<1>1. n \in Nat /\ w \in Nat \ {0} /\ low \in Int /\ n * w \in Int /\ reach \in Int /\ w <= reach
      /\ low <= z /\ z + reach <= low + n * w
  <2>1. PICK m \in Nat, u \in Nat \ {0}, c \in Int : m = Len(tile.psd) /\ u = tile.binWidth /\ c = tile.center
    OBVIOUS
  <2>2. PICK a \in Int : a = m * u
    BY <2>1
  <2>3. PICK h \in Int : h = a \div 2
    BY <2>2, Division
  <2>4. low = c - h /\ c - h \in Int /\ n * w = a /\ n = m /\ w = u
    BY <2>1, <2>2, <2>3
  <2>5. c - h <= z /\ z + reach <= c - h + a /\ u <= reach
    BY <2>1, <2>2, <2>3
  <2>6. reach \in Int
    OBVIOUS
  <2> HIDE DEF low, n, w
  <2> QED BY <2>1, <2>2, <2>4, <2>5, <2>6
<1>2. PICK v \in Nat : v = w \div 2 /\ v < w
  <2>1. ASSUME NEW x \in Nat \ {0} PROVE x \div 2 \in Nat /\ x \div 2 < x
    OBVIOUS
  <2>2. w \div 2 \in Nat /\ w \div 2 < w
    BY <1>1, <2>1
  <2> QED BY <2>2
<1>3. \A i : Freq(tile, i) = low + (i - 1) * w + v
  BY <1>2 DEF Freq
<1> HIDE DEF n, w, low
<1>4. n \in Reach
  <2>1. n # 0
    <3>1. n = 0 => n * w = 0
      BY <1>1
    <3> QED BY <1>1, <3>1
  <2>2. PICK a \in Int : a = n * w /\ (n - 1) * w = a - w
    <3>1. (n - 1) * w = n * w - w
      BY <1>1
    <3> QED BY <1>1, <3>1
  <2>3. Freq(tile, n) = low + (a - w) + v
    BY <1>3, <2>2
  <2>4. z <= Freq(tile, n)
    BY <1>1, <1>2, <2>2, <2>3
  <2> QED BY <1>1, <2>1, <2>4 DEF n
<1>5. PICK i \in Reach : \A j \in Reach : i <= j
  <2>1. Reach \in SUBSET Nat /\ Reach # {}
    BY <1>4
  <2> HIDE DEF Reach
  <2> QED BY <2>1, LeastNatural
<1>6. i \in 1..n /\ z <= Freq(tile, i)
  OBVIOUS
<1>7. CASE i = 1
  <2>1. Freq(tile, 1) = low + v
    <3>1. (1 - 1) * w = 0
      BY <1>1
    <3> QED BY <1>1, <1>2, <1>3, <3>1
  <2> QED BY <1>1, <1>2, <1>6, <1>7, <2>1 DEF n
<1>8. CASE i # 1
  <2>1. i - 1 \in 1..n /\ ~(i <= i - 1)
    BY <1>1, <1>6, <1>8
  <2>2. ~(z <= Freq(tile, i - 1))
    BY <1>5, <2>1
  <2>3. PICK a \in Int, b \in Int : a = (i - 1) * w /\ b = ((i - 1) - 1) * w /\ a = b + w
    <3>1. (i - 1) * w = ((i - 1) - 1) * w + w /\ (i - 1) * w \in Int /\ ((i - 1) - 1) * w \in Int
      BY <1>1, <1>6
    <3> QED BY <3>1
  <2>4. Freq(tile, i) = low + a + v /\ Freq(tile, i - 1) = low + b + v
    BY <1>3, <2>3
  <2> QED BY <1>1, <1>2, <1>6, <2>2, <2>3, <2>4 DEF n
<1> QED BY <1>7, <1>8

\* The bin of the grid for a frequency.
LEMMA GridBinIs ==
  ASSUME NEW g \in Int, NEW f \in Int
  PROVE  GridBin(f) = g <=> (g * BinWidth <= f /\ f < (g + 1) * BinWidth)
<1>1. BinWidth \in Nat \ {0}
  BY OccupancyAssumption
<1>2. PICK q \in Int, e \in 0..(BinWidth - 1) : q = f \div BinWidth /\ f = BinWidth * q + e
  BY <1>1, Division
<1>3. ASSUME NEW h \in Int PROVE h * BinWidth \in Int /\ (h + 1) * BinWidth = h * BinWidth + BinWidth
  BY <1>1
<1>4. ASSUME GridBin(f) = g PROVE g * BinWidth <= f /\ f < (g + 1) * BinWidth
  <2>1. g = q
    BY <1>2, <1>4 DEF GridBin
  <2>2. q * BinWidth = BinWidth * q /\ BinWidth * q \in Int
    BY <1>1
  <2> QED BY <1>1, <1>2, <1>3, <2>1, <2>2
<1>5. ASSUME g * BinWidth <= f, f < (g + 1) * BinWidth PROVE GridBin(f) = g
  <2>1. PICK e2 \in 0..(BinWidth - 1) : f = BinWidth * g + e2
    <3>1. f - g * BinWidth \in 0..(BinWidth - 1) /\ g * BinWidth = BinWidth * g /\ BinWidth * g \in Int
      BY <1>1, <1>3, <1>5
    <3>2. f = BinWidth * g + (f - g * BinWidth)
      BY <3>1
    <3> QED BY <3>1, <3>2
  <2>2. (BinWidth * g + e2) \div BinWidth = g
    BY <1>1, DivisionIsUnique
  <2> QED BY <2>1, <2>2 DEF GridBin
<1> QED BY <1>4, <1>5

GridTyped == grid \in [0..(Bins - 1) -> Int]

\* The values that a tile has for a bin of the grid.
Hits(tile, g) == {i \in DOMAIN tile.psd : OnGrid(Freq(tile, i)) /\ GridBin(Freq(tile, i)) = g}

LEMMA AcceptWrites ==
  ASSUME GridTyped, NEW tile \in Tiles, Accept(tile)
  PROVE  /\ grid' \in [0..(Bins - 1) -> Int]
         /\ \A g \in 0..(Bins - 1) : Hits(tile, g) # {} =>
              \E i \in Hits(tile, g) : grid'[g] = tile.psd[i]
<1>1. DOMAIN grid = 0..(Bins - 1) /\ \A g \in 0..(Bins - 1) : grid[g] \in Int
  BY DEF GridTyped
<1>2. /\ DOMAIN tile.psd = 1..Len(tile.psd) /\ Len(tile.psd) \in Nat
      /\ \A i \in DOMAIN tile.psd : tile.psd[i] \in Int
  BY OccupancyAssumption
<1>3. grid' = [g \in 0..(Bins - 1) |->
                 IF Hits(tile, g) = {} THEN grid[g] ELSE tile.psd[Max(Hits(tile, g))]]
  BY <1>1 DEF Accept, Hits
<1>4. ASSUME NEW g, Hits(tile, g) # {} PROVE Max(Hits(tile, g)) \in Hits(tile, g)
  <2> DEFINE H == Hits(tile, g)
  <2>1. H \in SUBSET (1..Len(tile.psd)) /\ IsFiniteSet(1..Len(tile.psd))
    <3>1. IsFiniteSet(1..Len(tile.psd))
      BY <1>2, FS_Interval
    <3> QED BY <1>2, <3>1 DEF Hits
  <2>2. H \in SUBSET Int /\ H # {}
    BY <1>4, <2>1
  <2> HIDE DEF H
  <2>3. IsFiniteSet(H)
    BY <2>1, FS_Subset
  <2>4. Max(H) \in H
    BY <2>2, <2>3, MaxOfFinite
  <2> QED BY <2>4 DEF H
<1>5. \A g, i : i \in Hits(tile, g) => i \in DOMAIN tile.psd
  BY DEF Hits
<1>6. ASSUME NEW g \in 0..(Bins - 1)
      PROVE  grid'[g] = IF Hits(tile, g) = {} THEN grid[g] ELSE tile.psd[Max(Hits(tile, g))]
  BY <1>3
<1>7. ASSUME NEW g \in 0..(Bins - 1) PROVE grid'[g] \in Int
  BY <1>1, <1>2, <1>4, <1>5, <1>6
<1>8. grid' \in [0..(Bins - 1) -> Int]
  <2>1. DOMAIN grid' = 0..(Bins - 1) /\ grid' = [g \in 0..(Bins - 1) |-> grid'[g]]
    BY <1>3
  <2> QED BY <1>7, <2>1
<1> QED BY <1>4, <1>6, <1>8

LEMMA AcceptLeavesNoHole ==
  ASSUME GridTyped, NEW tile \in Tiles, Accept(tile)
  PROVE  LeavesNoHole(tile)'
<1> DEFINE w == tile.binWidth
           low == tile.center - (Len(tile.psd) * w) \div 2
           high == low + Len(tile.psd) * w
<1>1. /\ Bins \in Nat \ {0} /\ BinWidth \in Nat \ {0} /\ tile.center \in Int /\ w \in Nat \ {0}
      /\ Len(tile.psd) \in Nat /\ DOMAIN tile.psd = 1..Len(tile.psd)
  BY OccupancyAssumption
<1>2. /\ grid' \in [0..(Bins - 1) -> Int]
      /\ \A g \in 0..(Bins - 1) : Hits(tile, g) # {} => \E i \in Hits(tile, g) : grid'[g] = tile.psd[i]
  BY AcceptWrites
<1>3. ASSUME NEW g \in 0..(Bins - 1), NEW k \in 1..Bins, w <= k * BinWidth, low <= g * BinWidth,
             (g + k) * BinWidth <= high, g + k <= Bins
      PROVE  \E h \in g..(g + k - 1), i \in DOMAIN tile.psd :
               /\ grid'[h] = tile.psd[i]
               /\ h * BinWidth <= Freq(tile, i) /\ Freq(tile, i) < (h + 1) * BinWidth
  <2>1. PICK z \in Int, reach \in Nat \ {0} :
          z = g * BinWidth /\ reach = k * BinWidth /\ (g + k) * BinWidth = z + reach
    <3>1. g * BinWidth \in Int /\ (g + k) * BinWidth = g * BinWidth + k * BinWidth
      BY <1>1
    <3>2. k * BinWidth \in Nat \ {0}
      BY <1>1
    <3> QED BY <3>1, <3>2
  <2>2. PICK i \in 1..Len(tile.psd) : z <= Freq(tile, i) /\ Freq(tile, i) < z + reach
    <3>1. w <= reach /\ low <= z /\ z + reach <= high
      BY <1>3, <2>1
    <3> QED BY <1>1, <3>1, TileReaches
  <2>3. \A j \in 1..Len(tile.psd) : Freq(tile, j) \in Int
    <3>1. \A x \in Int : x \div 2 \in Int
      OBVIOUS
    <3>2. \A x, y \in Int : x * y \in Int /\ x + y \in Int /\ x - y \in Int
      OBVIOUS
    <3>3. tile.center - (Len(tile.psd) * w) \div 2 \in Int /\ w \div 2 \in Int
      BY <1>1, <3>1, <3>2
    <3>4. ASSUME NEW j \in 1..Len(tile.psd)
          PROVE  tile.center - (Len(tile.psd) * w) \div 2 + (j - 1) * w + w \div 2 \in Int
      <4>1. (j - 1) * w \in Int
        BY <1>1
      <4> QED BY <3>2, <3>3, <4>1
    <3> QED BY <3>4 DEF Freq
  <2>4. PICK h \in Int, e \in 0..(BinWidth - 1) : Freq(tile, i) = BinWidth * h + e
    <3>1. PICK f \in Int : f = Freq(tile, i)
      BY <2>3
    <3>2. \E h \in Int, e \in 0..(BinWidth - 1) : f = BinWidth * h + e
      <4>1. PICK h \in Int, e \in 0..(BinWidth - 1) : h = f \div BinWidth /\ f = BinWidth * h + e
        BY <1>1, Division
      <4> QED BY <4>1
    <3> QED BY <3>1, <3>2
  <2>5. PICK y \in Int : y = h * BinWidth /\ y = BinWidth * h /\ (h + 1) * BinWidth = y + BinWidth
    <3>1. h * BinWidth = BinWidth * h /\ h * BinWidth \in Int /\ (h + 1) * BinWidth = h * BinWidth + BinWidth
      BY <1>1
    <3> QED BY <3>1
  <2>6. y <= Freq(tile, i) /\ Freq(tile, i) < y + BinWidth
    BY <1>1, <2>3, <2>4, <2>5
  <2>7. h \in g..(g + k - 1)
    <3>1. g <= h
      <4>1. CASE h + 1 <= g
        <5>1. PICK x \in Nat : x = (g - (h + 1)) * BinWidth
          BY <1>1, <4>1
        <5>2. g * BinWidth = (h + 1) * BinWidth + x
          BY <1>1, <5>1
        <5>3. z = y + BinWidth + x
          BY <2>1, <2>5, <5>2, Zenon
        <5>4. ~(z <= Freq(tile, i))
          BY <1>1, <2>3, <2>6, <5>3
        <5> QED BY <2>2, <5>4
      <4> QED BY <4>1
    <3>2. h <= g + k - 1
      <4>1. CASE g + k <= h
        <5>1. PICK x \in Nat : x = (h - (g + k)) * BinWidth
          BY <1>1, <4>1
        <5>2. h * BinWidth = (g + k) * BinWidth + x
          BY <1>1, <5>1
        <5>3. y = z + reach + x
          BY <2>1, <2>5, <5>2, Zenon
        <5>4. ~(Freq(tile, i) < z + reach)
          BY <1>1, <2>1, <2>3, <2>6, <5>1, <5>3
        <5> QED BY <2>2, <5>4
      <4> QED BY <4>1
    <3> QED BY <3>1, <3>2
  <2>8. h \in 0..(Bins - 1)
    BY <1>1, <1>3, <2>7
  <2>9. OnGrid(Freq(tile, i))
    <3>1. 0 <= y /\ y + BinWidth <= Bins * BinWidth
      <4>1. Bins * BinWidth = (h + 1) * BinWidth + (Bins - (h + 1)) * BinWidth
        BY <1>1
      <4>2. (Bins - (h + 1)) * BinWidth >= 0 /\ h * BinWidth >= 0
        BY <1>1, <2>8
      <4>3. (Bins - (h + 1)) * BinWidth \in Int
        BY <1>1
      <4> QED BY <1>1, <2>5, <4>1, <4>2, <4>3
    <3>2. Bins * BinWidth \in Int
      BY <1>1
    <3> QED BY <1>1, <2>3, <2>6, <3>1, <3>2 DEF OnGrid
  <2>10. GridBin(Freq(tile, i)) = h
    BY <2>3, <2>5, <2>6, GridBinIs
  <2>11. Hits(tile, h) # {}
    BY <1>1, <2>9, <2>10 DEF Hits
  <2>12. PICK j \in Hits(tile, h) : grid'[h] = tile.psd[j]
    BY <1>2, <2>8, <2>11
  <2>13. j \in DOMAIN tile.psd /\ GridBin(Freq(tile, j)) = h
    BY DEF Hits
  <2>14. h * BinWidth <= Freq(tile, j) /\ Freq(tile, j) < (h + 1) * BinWidth
    BY <1>1, <2>3, <2>13, GridBinIs
  <2> QED BY <2>7, <2>12, <2>13, <2>14
<1>4. DOMAIN grid' = 0..(Bins - 1)
  BY <1>2
<1> QED BY <1>3, <1>4 DEF LeavesNoHole

----------------------------------------------------------------------------
(* The occupancy map: what a row shows *)

\* A slot pools bins of the grid that it overlaps, and every bin that ends in it.
LEMMA SlotPools ==
  ASSUME NEW width \in Nat \ {0}, width < Bins, NEW i \in 0..(width - 1)
  PROVE  /\ PooledBins(i, width) # {} /\ PooledBins(i, width) \in SUBSET (0..(Bins - 1))
         /\ \A g \in 0..(Bins - 1) :
              i * Bins < (g + 1) * width /\ (g + 1) * width <= (i + 1) * Bins => g \in PooledBins(i, width)
         /\ \A g \in PooledBins(i, width) : i * Bins < (g + 1) * width /\ g * width < (i + 1) * Bins
<1>1. Bins \in Nat \ {0}
  BY OccupancyAssumption
<1>2. i * Bins \in Nat /\ (i + 1) * Bins \in Nat
  BY <1>1
<1>3. PICK lo \in Nat, next \in Int : lo = (i * Bins) \div width /\ next = ((i + 1) * Bins) \div width
  <2>1. ASSUME NEW a \in Nat PROVE a \div width \in Nat
    OBVIOUS
  <2>2. (i * Bins) \div width \in Nat /\ ((i + 1) * Bins) \div width \in Int
    BY <1>2, <2>1
  <2> QED BY <2>2
<1>4. lo < Bins
  <2>1. i * Bins < width * Bins
    <3>1. width * Bins = i * Bins + (width - i) * Bins /\ (width - i) * Bins > 0 /\ (width - i) * Bins \in Int
      BY <1>1
    <3> QED BY <1>2, <3>1
  <2> QED BY <1>1, <1>2, <1>3, <2>1, QuotientBelow
<1>5. PICK over \in Int : /\ over = Max({next, lo + 1}) /\ over >= next /\ over >= lo + 1
                          /\ (over = next \/ over = lo + 1)
  <2>1. Max({next, lo + 1}) = IF next >= lo + 1 THEN next ELSE lo + 1
    BY <1>3, MaxOfTwo
  <2> QED BY <1>3, <2>1
<1>6. PICK hi \in Int : /\ hi = Min({over, Bins})
                        /\ hi <= Bins /\ hi <= over /\ (hi = over \/ hi = Bins)
  <2>1. over \in Int /\ Bins \in Int
    BY <1>1
  <2> DEFINE least == IF over <= Bins THEN over ELSE Bins
  <2>2. Min({over, Bins}) = least
    BY <2>1, MinOfTwo
  <2>3. least \in Int /\ least <= Bins /\ least <= over /\ (least = over \/ least = Bins)
    BY <2>1
  <2> HIDE DEF least
  <2> QED BY <2>2, <2>3, Zenon
<1>7. PooledBins(i, width) = lo..(hi - 1)
  BY <1>3, <1>5, <1>6 DEF PooledBins
<1>8. ASSUME NEW g \in 0..(Bins - 1), i * Bins < (g + 1) * width, (g + 1) * width <= (i + 1) * Bins
      PROVE  g \in lo..(hi - 1)
  <2>1. g + 1 \in Int /\ (g + 1) * width = width * (g + 1)
    BY <1>1
  <2>2. lo < g + 1
    BY <1>2, <1>3, <1>8, <2>1, QuotientBelow
  <2>3. g + 1 <= next
    BY <1>2, <1>3, <1>8, <2>1, QuotientIsLargest
  <2>4. g < hi
    <3>1. g < next
      BY <1>3, <2>3
    <3>2. g < over
      BY <1>3, <1>5, <3>1
    <3>3. g < Bins
      BY <1>1
    <3> QED BY <1>6, <3>2, <3>3
  <2> QED BY <1>1, <1>3, <1>6, <2>2, <2>4
<1>9. lo \in lo..(hi - 1) /\ lo..(hi - 1) \in SUBSET (0..(Bins - 1))
  <2>1. lo < hi /\ hi <= Bins /\ 0 <= lo /\ lo \in Int /\ hi \in Int
    BY <1>1, <1>3, <1>4, <1>5, <1>6
  <2> HIDE DEF PooledBins
  <2> QED BY <1>1, <2>1
<1>10. ASSUME NEW g \in lo..(hi - 1) PROVE i * Bins < (g + 1) * width /\ g * width < (i + 1) * Bins
  <2>1. PICK a \in Nat, b \in Nat : a = i * Bins /\ b = (i + 1) * Bins /\ a < b
    <3>1. (i + 1) * Bins = i * Bins + Bins
      BY <1>1
    <3> QED BY <1>1, <1>2, <3>1
  <2>2. width * lo <= a /\ a < width * lo + width
    <3>1. width * (a \div width) <= a /\ a < width * (a \div width) + width
      BY QuotientBrackets
    <3>2. lo = a \div width
      BY <1>3, <2>1
    <3> QED BY <3>1, <3>2, Zenon
  <2>3. width * next <= b /\ b < width * next + width
    <3>1. width * (b \div width) <= b /\ b < width * (b \div width) + width
      BY QuotientBrackets
    <3>2. next = b \div width
      BY <1>3, <2>1
    <3> QED BY <3>1, <3>2, Zenon
  <2>4. g \in Int /\ lo <= g /\ (g < next \/ g = lo)
    <3>1. hi <= over /\ (over = next \/ over = lo + 1)
      BY <1>5, <1>6
    <3>2. g \in Int /\ lo <= g /\ g < hi
      BY <1>3, <1>6
    <3> QED BY <1>3, <1>5, <1>6, <3>1, <3>2
  <2>5. PICK m \in Int, l \in Int, n \in Int : m = g * width /\ l = width * lo /\ n = width * next
    BY <1>3, <2>4
  <2>6. (g + 1) * width = m + width
    BY <2>4, <2>5
  <2>7. l <= m
    <3>1. m = l + width * (g - lo)
      BY <1>3, <2>4, <2>5
    <3>2. width * (g - lo) \in Nat
      BY <1>3, <2>4
    <3> QED BY <2>5, <3>1, <3>2
  <2>8. m < n \/ m = l
    <3>1. CASE g < next
      <4>1. n = m + width * (next - g)
        BY <1>3, <2>4, <2>5
      <4>2. width * (next - g) \in Nat \ {0}
        BY <1>3, <2>4, <3>1
      <4> QED BY <2>5, <4>1, <4>2
    <3>2. CASE g = lo
      BY <1>3, <2>5, <3>2
    <3> QED BY <2>4, <3>1, <3>2
  <2>9. a < m + width /\ m < b
    BY <2>1, <2>2, <2>3, <2>5, <2>7, <2>8
  <2> QED BY <2>1, <2>5, <2>6, <2>9
<1> QED BY <1>3, <1>7, <1>8, <1>9, <1>10

\* Every bin of the grid has its slot.
LEMMA BinHasSlot ==
  ASSUME NEW width \in Nat \ {0}, NEW g \in 0..(Bins - 1)
  PROVE  \E i \in 0..(width - 1) : i * Bins < (g + 1) * width /\ (g + 1) * width <= (i + 1) * Bins
<1>1. Bins \in Nat \ {0}
  BY OccupancyAssumption
<1>2. PICK a \in Nat : a = (g + 1) * width /\ a >= 1 /\ a <= Bins * width
  <2>1. (g + 1) * width \in Nat /\ (g + 1) * width >= 1
    BY <1>1
  <2>2. Bins * width = (g + 1) * width + (Bins - (g + 1)) * width
    BY <1>1
  <2>3. (Bins - (g + 1)) * width >= 0 /\ (Bins - (g + 1)) * width \in Int
    BY <1>1
  <2> QED BY <2>1, <2>2, <2>3
<1>3. PICK i \in Nat, e \in 0..(Bins - 1) : a - 1 = Bins * i + e
  <2>1. a - 1 \in Nat
    BY <1>2
  <2> QED BY <1>1, <2>1, DivisionOfNat
<1>4. PICK z \in Int : z = Bins * i /\ z = i * Bins /\ (i + 1) * Bins = z + Bins
  <2>1. Bins * i = i * Bins /\ Bins * i \in Int /\ (i + 1) * Bins = i * Bins + Bins
    BY <1>1
  <2> QED BY <2>1
<1>5. z < a /\ a <= z + Bins
  BY <1>1, <1>2, <1>3, <1>4
<1>6. i < width
  <2>1. CASE i >= width
    <3>1. Bins * i = Bins * width + Bins * (i - width)
      BY <1>1
    <3>2. Bins * (i - width) >= 0 /\ Bins * (i - width) \in Int /\ Bins * width \in Int /\ Bins * width = width * Bins
      BY <1>1, <2>1
    <3> QED BY <1>2, <1>4, <1>5, <3>1, <3>2
  <2> QED BY <2>1
<1> QED BY <1>2, <1>4, <1>5, <1>6

LEMMA NarrowRowKeepsPeaks ==
  ASSUME GridTyped, NEW width \in Nat \ {0}, width < Bins
  PROVE  RowKeepsPeaks(width)
<1> DEFINE all == 0..(Bins - 1)
           slots == 0..(width - 1)
           row == Row(width)
           Pool(i) == PooledBins(i, width)
<1>1. Bins \in Nat \ {0} /\ IsFiniteSet(all) /\ all # {} /\ slots # {}
  <2>1. Bins \in Nat \ {0}
    BY OccupancyAssumption
  <2>2. IsFiniteSet(0..(Bins - 1))
    BY <2>1, FS_Interval
  <2>3. 0 \in all /\ 0 \in slots
    BY <2>1
  <2> QED BY <2>1, <2>2, <2>3
<1>2. DOMAIN grid = all /\ \A g \in all : grid[g] \in Int
  BY DEF GridTyped
<1>3. row = [i \in slots |-> Max(Values(grid, Pool(i)))]
  <2>1. ~(width >= Bins)
    BY <1>1
  <2> QED BY <2>1 DEF Row, Values
<1>4. ASSUME NEW i \in slots
      PROVE  /\ Pool(i) \subseteq all
             /\ \A g \in all : i * Bins < (g + 1) * width /\ (g + 1) * width <= (i + 1) * Bins => g \in Pool(i)
             /\ Pool(i) \subseteq Under(i, width)
             /\ \E g \in Pool(i) : row[i] = grid[g]
             /\ \A g \in Pool(i) : grid[g] <= row[i]
  <2>1. Pool(i) # {} /\ Pool(i) \in SUBSET all
    BY SlotPools
  <2>2. \A g \in all : i * Bins < (g + 1) * width /\ (g + 1) * width <= (i + 1) * Bins => g \in Pool(i)
    BY SlotPools
  <2>3. Pool(i) \subseteq Under(i, width)
    <3>1. \A g \in Pool(i) : i * Bins < (g + 1) * width /\ g * width < (i + 1) * Bins
      BY SlotPools
    <3>2. \A g \in Pool(i) : g \in DOMAIN grid
      BY <1>2, <2>1
    <3> HIDE DEF Pool
    <3> QED BY <3>1, <3>2 DEF Under
  <2>4. row[i] = Max(Values(grid, Pool(i)))
    BY <1>3
  <2> HIDE DEF Pool, all, row
  <2>5. IsFiniteSet(Pool(i)) /\ \A g \in Pool(i) : grid[g] \in Int
    BY <1>1, <1>2, <2>1, FS_Subset
  <2>6. /\ \E g \in Pool(i) : Max(Values(grid, Pool(i))) = grid[g]
        /\ \A g \in Pool(i) : grid[g] <= Max(Values(grid, Pool(i)))
    BY <2>1, <2>5, MaxOfValues
  <2> QED BY <2>1, <2>2, <2>3, <2>4, <2>6
<1>5. DOMAIN row = slots
  BY <1>3
<1> HIDE DEF row, Pool
<1>6. ASSUME NEW g \in all
      PROVE  \E i \in slots : g \in Under(i, width) /\ row[i] >= grid[g]
  <2>1. PICK i \in slots : i * Bins < (g + 1) * width /\ (g + 1) * width <= (i + 1) * Bins
    BY BinHasSlot
  <2>2. g \in Pool(i) /\ g \in Under(i, width)
    BY <1>4, <2>1
  <2>3. PICK h \in Pool(i) : row[i] = grid[h]
    BY <1>4
  <2>4. grid[g] <= row[i] /\ row[i] \in Int /\ grid[g] \in Int
    BY <1>2, <1>4, <2>2, <2>3
  <2>5. row[i] >= grid[g]
    BY <2>4
  <2> QED BY <2>2, <2>5
<1>7. ASSUME NEW i \in slots PROVE \E g \in Under(i, width) : row[i] = grid[g]
  BY <1>4
<1> QED BY <1>2, <1>5, <1>6, <1>7 DEF RowKeepsPeaks, row

LEMMA WideRowKeepsPeaks ==
  ASSUME GridTyped, NEW width \in {Bins, Bins + 1}
  PROVE  RowKeepsPeaks(width)
<1>1. Bins \in Nat \ {0} /\ width \in Nat \ {0} /\ width >= Bins /\ width <= Bins + 1
  BY OccupancyAssumption
<1>2. DOMAIN grid = 0..(Bins - 1) /\ \A g \in DOMAIN grid : grid[g] \in Int
  BY DEF GridTyped
<1>3. Row(width) = grid
  BY <1>1 DEF Row
<1>4. ASSUME NEW g \in DOMAIN grid PROVE g \in Under(g, width)
  <2>1. g \in Nat /\ g < Bins
    BY <1>1, <1>2
  <2>2. PICK a \in Nat, c \in Nat : a = g * Bins /\ c = g * (width - Bins) /\ c <= g
    <3>1. width - Bins = 0 \/ width - Bins = 1
      BY <1>1
    <3>2. g * 0 = 0 /\ g * 1 = g /\ g * Bins \in Nat
      BY <1>1, <2>1
    <3> QED BY <2>1, <3>1, <3>2
  <2>3. g * width = a + c /\ (g + 1) * width = a + c + width /\ (g + 1) * Bins = a + Bins
    <3>1. width \in Int /\ Bins \in Int /\ g \in Int
      BY <1>1, <2>1
    <3>2. g * width = g * Bins + g * (width - Bins) /\ (g + 1) * width = g * width + width
          /\ (g + 1) * Bins = g * Bins + Bins
      BY <3>1
    <3> QED BY <2>2, <3>1, <3>2
  <2>4. g * Bins < (g + 1) * width /\ g * width < (g + 1) * Bins
    BY <1>1, <2>1, <2>2, <2>3
  <2> QED BY <2>4 DEF Under
<1>5. ASSUME NEW g \in DOMAIN grid PROVE grid[g] >= grid[g] /\ grid[g] = grid[g]
  BY <1>2
<1> QED BY <1>3, <1>4, <1>5 DEF RowKeepsPeaks

\* Whatever tiles have come: the last one has left no old values over a stretch of
\* the grid that it covers and that is as wide as one of its own bins, and rows of
\* every width show every peak, each slot no higher than some bin under it
\* (OccupancyMap in rf-dsp/src/occupancy.rs).
THEOREM ShowsWhatWasMeasuredHolds == OccupancySpec => []ShowsWhatWasMeasured
<1> DEFINE OccInv == /\ GridTyped /\ accepted \in Seq(Tiles)
                     /\ accepted # <<>> => LeavesNoHole(Last(accepted))
<1>1. OccupancyInit => OccInv
  <2>1. Floor \in Int
    BY DEF Floor
  <2> QED BY <2>1 DEF OccupancyInit, GridTyped
<1>2. OccInv /\ [OccupancyNext]_occupancyVars => OccInv'
  <2> SUFFICES ASSUME OccInv, [OccupancyNext]_occupancyVars PROVE OccInv'
    OBVIOUS
  <2>1. CASE UNCHANGED occupancyVars
    BY <2>1 DEF occupancyVars, GridTyped, LeavesNoHole
  <2>2. CASE OccupancyNext
    <3>1. PICK tile \in Tiles : Accept(tile)
      BY <2>2 DEF OccupancyNext
    <3>2. accepted' \in Seq(Tiles) /\ Last(accepted') = tile
      <4>1. accepted' = Append(accepted, tile)
        BY <3>1 DEF Accept
      <4> QED BY <4>1 DEF Last
    <3>3. GridTyped'
      BY <3>1, AcceptWrites DEF GridTyped
    <3>4. LeavesNoHole(tile)'
      BY <3>1, AcceptLeavesNoHole
    <3>5. LeavesNoHole(Last(accepted))'
      BY <3>2, <3>4 DEF LeavesNoHole
    <3> QED BY <3>2, <3>3, <3>5
  <2> QED BY <2>1, <2>2
<1>3. OccInv => ShowsWhatWasMeasured
  <2> SUFFICES ASSUME OccInv, NEW width \in 1..(Bins + 1) PROVE RowKeepsPeaks(width)
    BY DEF ShowsWhatWasMeasured
  <2>1. Bins \in Nat \ {0}
    BY OccupancyAssumption
  <2>2. (width \in Nat \ {0} /\ width < Bins) \/ width \in {Bins, Bins + 1}
    BY <2>1
  <2> QED BY <2>2, NarrowRowKeepsPeaks, WideRowKeepsPeaks
<1> QED BY <1>1, <1>2, <1>3, PTL DEF OccupancySpec
=============================================================================
