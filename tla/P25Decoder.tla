----------------------------- MODULE P25Decoder -----------------------------
(* P25Decoder (rf-p25/src/lib.rs): the metadata of the call on the channel  *)
(* and the queue of trunking blocks, built up from the receiver's events    *)
(* and taken by the caller.  The metadata fields arrive in different data   *)
(* units, any of which the receiver may miss, and nothing clears them when  *)
(* a call ends.  The key travels with the algorithm; the access code, the   *)
(* data unit's name, the vocoder and the counters are left out.             *)
EXTENDS Integers, SequencesExt

CONSTANTS Calls,       \* [group, talkgroup, unit, algorithm]: what may be on the air
          OnAirBlocks, \* [raw, mfg]: trunking blocks that may be received
          MaxBlocks    \* bound of the model: standard blocks received

NoInfo == "none"
NoCall == [group |-> FALSE, talkgroup |-> NoInfo, unit |-> NoInfo, algorithm |-> NoInfo]
Reserved == -1

VARIABLES onAir,       \* the call being transmitted
          heard,       \* history: what of it has been received
          metadata, metadataUpdated,
          told,        \* the metadata the caller took last
          tsbkEvents,  \* queued blocks
          taken,       \* history: the blocks the caller has taken
          blocks       \* history: the standard blocks received

p25Vars == <<onAir, heard, metadata, metadataUpdated, told, tsbkEvents, taken, blocks>>

DefaultMetadata ==
  [talkgroup |-> NoInfo, sourceUnit |-> NoInfo, encrypted |-> FALSE, algorithm |-> NoInfo]

P25Init ==
  /\ onAir = NoCall /\ heard = {}
  /\ metadata = DefaultMetadata /\ metadataUpdated = FALSE /\ told = DefaultMetadata
  /\ tsbkEvents = <<>> /\ taken = <<>> /\ blocks = <<>>

-----------------------------------------------------------------------------
(* Trunking blocks *)

AssignedOpcodes ==
  {0} \cup 2..6 \cup {8, 10} \cup 16..19 \cup {24, 26, 28, 29} \cup 31..33 \cup {36}
    \cup {39, 40} \cup 42..47 \cup 54..63

\* TsbkOpcode::from_bits: an assigned opcode stands for itself, every other one
\* is the one value Reserved; all six-bit values have one.
FromBits(raw) == IF raw \in AssignedOpcodes THEN raw ELSE Reserved

\* tsbk_opcode_to_raw: the way back.
ToRaw(opcode) == IF opcode = Reserved THEN 1 ELSE opcode

\* Which payload parse_tsbk reads out of a block.
Family(opcode) ==
  CASE opcode = 0         -> "GroupVoiceGrant"
    [] opcode \in {2, 18} -> "GroupVoiceUpdate"
    [] opcode \in {4, 6, 16} -> "UnitVoiceGrant"
    [] opcode = 39 -> "DenyResponse"          [] opcode = 40 -> "GroupAffiliation"
    [] opcode = 44 -> "UnitRegistration"      [] opcode = 47 -> "UnitDeregistration"
    [] opcode = 57 -> "AltControlChannel"     [] opcode = 58 -> "RfssStatusBroadcast"
    [] opcode = 59 -> "NetworkStatusBroadcast" [] opcode = 60 -> "AdjacentSite"
    [] opcode = 61 -> "ChannelParamsUpdate"
    [] OTHER -> "Other"

Payload(b) == [raw |-> ToRaw(FromBits(b.raw)), payload |-> Family(FromBits(b.raw))]

\* parse_tsbk: a manufacturer's own block is logged and skipped, also if its
\* opcode is a standard one; a block with an invalid CRC is not.
ParseTsbk(b) ==
  tsbkEvents' = IF b.mfg THEN tsbkEvents ELSE Append(tsbkEvents, Payload(b))

-----------------------------------------------------------------------------
(* The channel: calls come and go, announced or not, on a traffic channel; *)
(* on a control channel there are blocks instead.                          *)

CallBegins(c) ==
  /\ onAir # c /\ blocks = <<>>
  /\ onAir' = c /\ heard' = {}
  /\ UNCHANGED <<metadata, metadataUpdated, told, tsbkEvents, taken, blocks>>

CallEnds ==
  /\ onAir # NoCall
  /\ onAir' = NoCall /\ heard' = {}
  /\ UNCHANGED <<metadata, metadataUpdated, told, tsbkEvents, taken, blocks>>

-----------------------------------------------------------------------------
(* process_event *)

Encrypted == onAir.algorithm # "Unencrypted"

Update(m, parts) ==
  /\ metadata' = m /\ metadataUpdated' = TRUE
  /\ heard' = heard \cup parts
  /\ UNCHANGED <<onAir, told, taken>>

PacketNid ==
  /\ Update(metadata, {})
  /\ UNCHANGED <<tsbkEvents, blocks>>

VoiceHeader ==
  /\ onAir # NoCall
  /\ Update([metadata EXCEPT !.talkgroup = onAir.talkgroup, !.encrypted = Encrypted,
                             !.algorithm = onAir.algorithm],
            IF onAir.group THEN {"talkgroup", "crypto"} ELSE {"crypto"})
  /\ UNCHANGED <<tsbkEvents, blocks>>

\* extract_link_control: a group call's or a unit-to-unit call's.
WithLinkControlNoFlag ==
  IF onAir.group
  THEN [metadata EXCEPT !.talkgroup = onAir.talkgroup, !.sourceUnit = onAir.unit,
                        !.encrypted = Encrypted]
  ELSE [metadata EXCEPT !.sourceUnit = onAir.unit]
WithLinkControl ==
  IF onAir.group
  THEN [metadata EXCEPT !.talkgroup = onAir.talkgroup, !.sourceUnit = onAir.unit,
                        !.encrypted = Encrypted]
  ELSE [metadata EXCEPT !.sourceUnit = onAir.unit, !.encrypted = Encrypted]

LinkControl ==
  /\ onAir # NoCall
  /\ Update(WithLinkControl, IF onAir.group THEN {"talkgroup", "source"} ELSE {"source"})
  /\ UNCHANGED <<tsbkEvents, blocks>>

CryptoControl ==
  /\ onAir # NoCall
  /\ Update([metadata EXCEPT !.encrypted = Encrypted, !.algorithm = onAir.algorithm], {"crypto"})
  /\ UNCHANGED <<tsbkEvents, blocks>>

VoiceTerm ==
  /\ onAir # NoCall
  /\ Update(metadata, {})
  /\ UNCHANGED <<tsbkEvents, blocks>>

TrunkingControl(b) ==
  /\ onAir = NoCall /\ Len(blocks) < MaxBlocks
  /\ Update(metadata, {})
  /\ ParseTsbk(b)
  /\ blocks' = IF b.mfg THEN blocks ELSE Append(blocks, b)

-----------------------------------------------------------------------------
(* The caller *)

TakeMetadata ==
  /\ metadataUpdated
  /\ metadataUpdated' = FALSE /\ told' = metadata
  /\ UNCHANGED <<onAir, heard, metadata, tsbkEvents, taken, blocks>>

TakeTsbkEventsNewestFirst ==
  /\ tsbkEvents # <<>>
  /\ taken' = taken \o Reverse(tsbkEvents)
  /\ tsbkEvents' = <<>>
  /\ UNCHANGED <<onAir, heard, metadata, metadataUpdated, told, blocks>>
TakeTsbkEvents ==
  /\ tsbkEvents # <<>>
  /\ taken' = taken \o tsbkEvents
  /\ tsbkEvents' = <<>>
  /\ UNCHANGED <<onAir, heard, metadata, metadataUpdated, told, blocks>>

\* On a change of channel, by the caller, who forgets what it knew of the old one.
ResetDecoder ==
  /\ metadata' = DefaultMetadata /\ metadataUpdated' = FALSE /\ told' = DefaultMetadata
  /\ tsbkEvents' = <<>> /\ taken' = <<>> /\ blocks' = <<>>
  /\ onAir' = NoCall /\ heard' = {}

P25Next ==
  \/ \E c \in Calls : CallBegins(c)
  \/ CallEnds
  \/ PacketNid
  \/ VoiceHeader \/ LinkControl \/ CryptoControl \/ VoiceTerm
  \/ \E b \in OnAirBlocks : TrunkingControl(b)
  \/ TakeMetadata \/ TakeTsbkEvents \/ ResetDecoder

P25Spec == P25Init /\ [][P25Next]_p25Vars

-----------------------------------------------------------------------------
(* Properties *)

\* What the caller gets by asking, or has got.
Known == IF metadataUpdated THEN metadata ELSE told

\* Whatever was missed of this call and left over from earlier ones: a part that
\* was received of this call is what the caller who asks is told, and from the
\* first part on it is told rightly whether the call is encrypted.
MetadataFollowsCall ==
  heard # {} =>
    /\ Known.encrypted = Encrypted
    /\ "talkgroup" \in heard => Known.talkgroup = onAir.talkgroup
    /\ "source" \in heard => Known.sourceUnit = onAir.unit
    /\ "crypto" \in heard => Known.algorithm = onAir.algorithm

\* Each standard block is handed out once, in order, with the opcode it was sent
\* with ("Raw 6-bit opcode value"), reserved ones excepted, and a manufacturer's
\* block is not handed out at all.  The comment in parse_tsbk promises otherwise ("Log
\* non-standard manufacturer TSBKs but still process standard opcode"); the code logs
\* the block as skipped and returns.
TsbksArriveInOrder ==
  LET out == taken \o tsbkEvents
  IN /\ Len(out) = Len(blocks)
     /\ \A i \in DOMAIN out : blocks[i].raw \in AssignedOpcodes => out[i].raw = blocks[i].raw
=============================================================================
