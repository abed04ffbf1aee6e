---------------------------- MODULE MCSweepPlan ----------------------------
(* SweepPlan on a few surveys. *)
EXTENDS SweepPlan

Band(low, high) == [low |-> low, high |-> high]
Sensor(rate, min, max) == [rate |-> rate, min |-> min, max |-> max]

\* Bands wider and narrower than a tile, one tile wide, overlapping, and upside down.
SomeBands ==
  {{Band(0, 50)}, {Band(10, 24)}, {Band(10, 30)}, {Band(0, 44), Band(40, 70)},
   {Band(0, 38), Band(38, 46)}, {Band(20, 62), Band(50, 46)}}

\* One to three sensors of one kind; the second kind reaches only part of the bands.
EqualPools == {[k \in 1..n |-> s] : n \in 1..3, s \in {Sensor(20, 0, 70), Sensor(20, 16, 60)}}

EqualSurveys == [bands : SomeBands, pool : EqualPools]

\* Sensors of two rates: what a per-device sample rate gives.
MixedSurveys ==
  [bands : {{Band(0, 100)}}, pool : {<<Sensor(20, 0, 100), Sensor(40, 0, 100)>>}]
=============================================================================
