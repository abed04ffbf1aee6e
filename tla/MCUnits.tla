------------------------------ MODULE MCUnits ------------------------------
(* The units that share no state with the rest of the running system, each  *)
(* checked on its own: a behaviour picks one unit and takes the steps of its *)
(* specification, while the other units rest in an initial state.           *)
EXTENDS MCSweepPlan, LosslessRing, LossyRing, CatalogSchema, P25Decoder,
        PulseTrain, Cfar, Occupancy, Masint

VARIABLE unit   \* the unit this behaviour is about

-----------------------------------------------------------------------------
(* Inputs *)

\* Every pattern of strong and weak bins, and two with wide lopsided signals.
SomeFrames ==
  [1..10 -> {1, 9}] \cup
  {<<1, 300, 9, 9, 1, 1, 1, 1, 60, 60, 1, 1>>,
   <<300, 1, 300, 9, 1, 60, 9, 1, 300, 1, 1, 1, 9, 300, 60, 1, 9, 300,
     9, 1, 300, 1, 1, 60, 1, 9, 1, 9, 1, 1, 9, 1, 1>>}

SomeTiles ==
  [center : {4, 13, 30}, binWidth : {2, 4, 8}, psd : {<<-90, -20, -80, -70>>, <<-30, -100>>}]

\* Two group calls, one of them encrypted, and a call from unit to unit.
SomeCalls ==
  {[group |-> TRUE, talkgroup |-> "tg1", unit |-> "u1", algorithm |-> "Unencrypted"],
   [group |-> TRUE, talkgroup |-> "tg2", unit |-> "u2", algorithm |-> "AES-256"],
   [group |-> FALSE, talkgroup |-> NoInfo, unit |-> "u2", algorithm |-> "Unencrypted"]}

\* An assigned opcode, a reserved one and a manufacturer's own block.
SomeBlocks ==
  {[raw |-> 39, mfg |-> FALSE], [raw |-> 7, mfg |-> FALSE], [raw |-> 0, mfg |-> TRUE]}

\* Frames of two bins, and one that ends early.
SomeSpectra == {<<-90, -50>>, <<-84, -52>>, <<-60>>, <<-89, -90>>}

\* All ascending lists of some peaks, a few of which are near a multiple of one and
\* off the others', and some lists in other orders.
SomePeaks ==
  {SetToSortSeq(s, <) : s \in SUBSET {1000, 1500, 2015, 2980, 4060, 6000}}
    \cup {<<4060, 2015, 1000>>, <<6000, 2980, 1000, 2015>>, <<2015, 1000, 4060, 6000, 1500>>}

-----------------------------------------------------------------------------

\* The inputs a unit is started with vary in its own behaviours only.
UnitsInit ==
  /\ unit \in {"lossless ring", "lossy ring", "schema", "tile plan", "P25",
           "pulses", "detection", "occupancy", "MASINT"}
  /\ RingInit /\ LossyInit /\ SchemaInit /\ P25Init /\ PulseInit /\ OccupancyInit
  /\ NotStarted /\ survey \in IF unit = "tile plan" THEN Surveys ELSE {[bands |-> {}, pool |-> <<>>]}
  /\ NotDetected /\ frame \in IF unit = "detection" THEN Frames ELSE {<<>>}
  /\ NoBaseline /\ peaks \in IF unit = "MASINT" THEN PeakLists ELSE {<<>>}

UnitsNext ==
  \/ /\ unit = "lossless ring" /\ RingNext
     /\ UNCHANGED <<unit, lossyVars, schemaVars, sweepVars, p25Vars, pulseVars, cfarVars, occupancyVars, masintVars>>
  \/ /\ unit = "lossy ring" /\ LossyNext
     /\ UNCHANGED <<unit, ringVars, schemaVars, sweepVars, p25Vars, pulseVars, cfarVars, occupancyVars, masintVars>>
  \/ /\ unit = "schema" /\ SchemaNext
     /\ UNCHANGED <<unit, ringVars, lossyVars, sweepVars, p25Vars, pulseVars, cfarVars, occupancyVars, masintVars>>
  \/ /\ unit = "tile plan" /\ SweepNext
     /\ UNCHANGED <<unit, ringVars, lossyVars, schemaVars, p25Vars, pulseVars, cfarVars, occupancyVars, masintVars>>
  \/ /\ unit = "P25" /\ P25Next
     /\ UNCHANGED <<unit, ringVars, lossyVars, schemaVars, sweepVars, pulseVars, cfarVars, occupancyVars, masintVars>>
  \/ /\ unit = "pulses" /\ PulseNext
     /\ UNCHANGED <<unit, ringVars, lossyVars, schemaVars, sweepVars, p25Vars, cfarVars, occupancyVars, masintVars>>
  \/ /\ unit = "detection" /\ Detect
     /\ UNCHANGED <<unit, ringVars, lossyVars, schemaVars, sweepVars, p25Vars, pulseVars, occupancyVars, masintVars>>
  \/ /\ unit = "occupancy" /\ OccupancyNext
     /\ UNCHANGED <<unit, ringVars, lossyVars, schemaVars, sweepVars, p25Vars, pulseVars, cfarVars, masintVars>>
  \/ /\ unit = "MASINT" /\ MasintNext
     /\ UNCHANGED <<unit, ringVars, lossyVars, schemaVars, sweepVars, p25Vars, pulseVars, cfarVars, occupancyVars>>

UnitsSpec ==
  /\ UnitsInit
  /\ [][UnitsNext]_<<unit, ringVars, lossyVars, schemaVars, sweepVars, p25Vars, pulseVars, cfarVars, occupancyVars, masintVars>>
  /\ SchemaFairness
=============================================================================
