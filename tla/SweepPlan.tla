----------------------------- MODULE SweepPlan -----------------------------
(* Which frequencies a pool of sweep sensors really visits: the tile plan   *)
(* (plan_tiles in rf-sensor/src/lib.rs), its split over the sensors         *)
(* (SensorPool::start in pool.rs) and the laps of the workers over their    *)
(* share (sweep_worker).  Frequencies are whole Hz, rates multiples of 20   *)
(* and band edges even, so that half a tile and 0.9 tiles are whole, too.   *)
EXTENDS Integers, SequencesExt

CONSTANT Surveys  \* what may be started: the bands, and the sensors in pool order

ASSUME SurveysAssumption ==
  \A s \in Surveys :
    /\ IsFiniteSet(s.bands) /\ \A b \in s.bands : b.low \in Int /\ b.high \in Int
    /\ s.pool \in Seq([rate : Nat \ {0}, min : Int, max : Int])
    /\ \A k \in DOMAIN s.pool : s.pool[k].rate % 20 = 0

VARIABLES survey,  \* [bands: set of [low, high], pool: sequence of [rate, min, max]]
          share,   \* each sensor's tiles, in the order it sweeps them
          place,   \* the tile each worker is at
          lapped,  \* the workers that have finished a lap
          visited  \* history: the <<sensor, tile>> a worker has been at

sweepVars == <<survey, share, place, lapped, visited>>

Sensors == DOMAIN survey.pool

-----------------------------------------------------------------------------
(* The plan *)

\* Centers of the tiles of one band: a tile width apart less 10 %, the last one
\* flush with the upper edge; one in the middle of a band narrower than a tile.
BandTilesShort(b, width) ==
  LET first == b.low + width \div 2
      last  == b.high - width \div 2
      step  == (9 * width) \div 10
      steps == {i \in 0..((b.high - b.low) \div step + 1) : first + i * step < last}
  IN IF b.high <= b.low THEN {}
     ELSE IF last <= first THEN {(b.low + b.high) \div 2}
     ELSE {first + i * step : i \in steps}
BandTiles(b, width) ==
  LET first == b.low + width \div 2
      last  == b.high - width \div 2
      step  == (9 * width) \div 10
      steps == {i \in 0..((b.high - b.low) \div step + 1) : first + i * step < last + step}
  IN IF b.high <= b.low THEN {}
     ELSE IF last <= first THEN {(b.low + b.high) \div 2}
     ELSE {Min({first + i * step, last}) : i \in steps}

\* The members of a set of numbers in ascending order, each at its rank.
Below(S, t) == {u \in S : u < t}
Sorted(S) == [i \in 1..Cardinality(S) |-> CHOOSE t \in S : Cardinality(Below(S, t)) = i - 1]

\* Sorted, and tiles less than 1 Hz apart made one.
TilesOf(bands, width) == UNION {BandTiles(b, width) : b \in bands}
PlanTiles(bands, width) == Sorted(TilesOf(bands, width))

\* The sensor's bandwidth is its sample rate, in the hardware and the simulation.
Covers(sensor, tile) ==
  /\ tile - sensor.rate \div 2 >= sensor.min
  /\ tile + sensor.rate \div 2 <= sensor.max

\* Filtering keeps the order of the plan.
CoveredTiles(k) ==
  Sorted({tile \in TilesOf(survey.bands, survey.pool[k].rate) : Covers(survey.pool[k], tile)})

\* enumerate().filter(i % n == k), counted from 0 in the code: each sensor
\* numbers the tiles that it covers itself.
KeepChunk(tiles, n, k) ==
  SubSeq(tiles, (k - 1) * (Len(tiles) \div n) + 1, k * (Len(tiles) \div n))
KeepEvery(tiles, n, k) ==
  [j \in 1..Cardinality({i \in 1..Len(tiles) : i % n = k % n}) |-> tiles[(j - 1) * n + k]]

-----------------------------------------------------------------------------

NotStarted == share = <<>> /\ place = <<>> /\ lapped = {} /\ visited = {}

SweepInit == survey \in Surveys /\ NotStarted

PoolStart ==
  /\ share = <<>>
  /\ share' = [k \in Sensors |-> KeepEvery(CoveredTiles(k), Len(survey.pool), k)]
  /\ place' = [k \in Sensors |-> 1]
  /\ UNCHANGED <<survey, lapped, visited>>

\* The worker's `for tile in tiles`: one round of it, whether the dwell succeeds or
\* the device fails to tune or to fill it (SurveyMission has these cases).
SweepTile(k) ==
  /\ k \in DOMAIN share /\ share[k] # <<>>
  /\ visited' = visited \cup {<<k, share[k][place[k]]>>}
  /\ IF place[k] < Len(share[k])
     THEN place' = [place EXCEPT ![k] = @ + 1] /\ UNCHANGED lapped
     ELSE /\ place' = [place EXCEPT ![k] = 1]
          /\ lapped' = lapped \cup {k}
  /\ UNCHANGED <<survey, share>>

SweepNext == PoolStart \/ \E k \in Sensors : SweepTile(k)

SweepSpec == SweepInit /\ [][SweepNext]_sweepVars

-----------------------------------------------------------------------------
(* Properties *)

\* The frequencies seen by a sensor tuned to a tile.
Seen(k, tile) ==
  (tile - survey.pool[k].rate \div 2)..(tile + survey.pool[k].rate \div 2)

\* Whatever the width of a band, next to which others and at which rate, its tiles
\* leave no frequency out.
TilesCoverBands ==
  \A k \in Sensors, b \in survey.bands : \A f \in b.low..b.high :
    b.low < b.high =>
      \E tile \in Range(PlanTiles(survey.bands, survey.pool[k].rate)) : f \in Seen(k, tile)

\* The split leaves out nothing that some sensor could sweep: when every worker
\* has finished a lap, each such frequency has been visited.
EveryFrequencyIsSwept ==
  (\A k \in Sensors : k \in lapped \/ (share # <<>> /\ share[k] = <<>>)) =>
    \A k \in Sensors : \A tile \in Range(CoveredTiles(k)) : \A f \in Seen(k, tile) :
      \E v \in visited : f \in Seen(v[1], v[2])
=============================================================================
