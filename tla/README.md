# RF-LOG: models, checks and proofs

TLA+ modules for RF-LOG v2, the survey application built from the workspace
crates `rf-types`, `rf-dsp`, `rf-sensor`, `rf-bus`, `rf-catalog`, `rf-mission`
and the Tauri application `app/`.  Every definition is translated from the
Rust (and, for the UI, the JSX) source; `PROJECT.json` maps each of them to
the lines it stands for.

## The system

A *mission* surveys some frequency bands.  The user creates, starts and stops
missions in the UI; one runs at a time.

| Component | State it keeps | Operations | Talks to |
|---|---|---|---|
| `rf-mission` MissionManager | `running: Mutex<Option<RunningMission>>`, the shared `active` id | `create_mission`, `start`, `stop`; the dsp and status threads of a run; the long-lived detection writer | calls the registry, the pool and the catalog; publishes on the bus |
| `rf-sensor` pool | a stop flag and one sweep worker per sensor | `start`, `stop` (joins the workers) | sends dwells and sensor states over two channels |
| `rf-sensor` DeviceManager | the registry: each device's state, configuration and idle handle | detect loop, `refresh`, `set_config`, `allocate`, `release`, all ending in `open_detected` or `emit` | SoapySDR; the bus, through a callback |
| `rf-sensor` rings | a buffer and two cursors | `push`, `pop` of the lossy and the lossless ring | one producer and one consumer thread (not used by the survey path yet) |
| `rf-sensor` `plan_tiles` | none | tile plan of a set of bands | called by the pool's start, which splits it over the workers |
| `rf-dsp` | the occupancy grid | Welch PSD, CFAR, occupancy map | called by the dsp thread |
| `rf-p25` | metadata of the call on the channel, a queue of trunking blocks | receiver events in; `take_metadata`, `take_tsbk_events`, `reset` | a receiver (third-party) and a polling caller |
| `rf-elint` | the open pulse and the previous arrival of a pulse train | `feed` | slices of a sample stream |
| `rf-masint` | per-bin statistics of a baseline | `update_baseline`, `detect`, `find_harmonics` | spectra |
| `rf-bus` | a broadcast ring (lossy) and an unbounded channel (detections) | `publish`, `subscribe` | every producer thread; the event bridge; the writer |
| `rf-catalog` | SQLite behind a mutex | schema creation, insert and update statements, lists | called by start, stop, the status thread, the writer, the UI's commands |
| `app/src-tauri` | handles to the above | nine commands, the event bridge | the webview |
| `app/ui` | `activeId`, `starting`, the lists it shows | buttons, event handlers | commands and events |

`rf-p25`, `rf-masint` and `rf-elint` are excluded from the workspace until later
phases, but are kept and tested beside it; their state machines are modelled.
Left aside: `crates/_archive` and `sentinel-ui` (the scrapped v1, not built),
`vendor` (third-party decoders), `rf-liquid*` (bindings of a C library).

What is hard in this code, and what must hold:

* **start and stop against six kinds of thread.**  A run has sweep workers, a
  dsp and a status thread, connected by channels that end when their senders
  do; the detection writer and the registry's threads outlive it.  stop must
  return, must leave nothing running, and what it announces must be the last
  word on the run.
* **errors half-way.**  start spawns threads and stores `active` before its
  last fallible call; stop may fail before it announces.
* **restart.**  Only the catalog survives the process.
* **one registry, many openers.**  Enumeration and opening are slow and run
  without the lock; their results are applied to whatever the registry has
  become.  Devices go to a mission and come back.
* **snapshots published after the lock is dropped**, and events that the lossy
  broadcast may drop, against a UI that keeps its own copy of the state.
* **launches that race or die half-way** through the creation of the catalog.
* **two threads, one buffer, no lock**: the IQ rings.
* **state carried from call to call**: a pulse cut by the end of a slice, call
  metadata that arrive in parts and are never cleared.
* **cursors that wrap**, tiles at the edge of a band, clusters at the edge of a
  frame, pooled bins that fall between two slots.

The full list, line by line, with the properties that cover it, is under
`hazards` in `PROJECT.json`.

## Modules

### DeviceLease: what the survey and the registry promise each other

Devices are leased to one run at a time (`Grant`), only the holder streams from
a device, streams end one by one (`EndStream`), and a lease ends for all its
devices at once, when none of them streams any more (`Return`).  It has no
threads, errors or states of devices.  `SurveyMission` and `DeviceRegistry`
look at the same exchange from its two sides, and each is checked to implement
it (`ImplementsLease`).

### SurveyMission: the life of a run

| Variables | In the code |
|---|---|
| `phase`, `hasBands`, `rows`, `sensorRows` | the `missions` (phase and `bands_json`), `detections` and `sensors` tables |
| `command` | the start or stop that holds the `running` mutex, and its program counter; `"idle"`: the mutex is free; `"poisoned"`: it was dropped in a panic |
| `running`, `active` | the mutex's content; the shared `AtomicI64` |
| `runs`, `missionOf`, `announced` | history: how many runs were opened, for which mission, and the last `MissionState` published for each |
| `device` | the registry as start and stop see it |
| `worker`, `stopFlag` | the step of each sweep worker; the pool's `AtomicBool` |
| `dwells`, `statuses`, `dsp`, `reporter`, `lastStatus` | the two channels of a run, the two threads that read them, and the last `SensorStatus` published |
| `detections`, `writer` | the bus's lossless channel; the detection writer with the detection in hand and the id it loaded |

`start` and `stop` are sequences of actions, one for every statement another
thread can see between: `StartEnter`, `StartLookup`, `StartAllocate` (allocate
and the pool's start), `StartSpawnDsp`, `StartSpawnStatus`, `StartActivate`,
`StartSetRunning`, `StartInstall`; `StopTake`, `StopSignal`, `StopJoinPool`,
`StopJoinPipeline`, `StopRelease`, `StopReopen`, `StopSetStopped`,
`StopAnnounce`.  Each `?` of the code is a disjunct that ends in `Return` and
undoes nothing, as in the code.  A worker that cannot be spawned panics with
the guard held (`expect`), which poisons the mutex for good.

Abstractions: an IQ block is a token, a detection is the number of its run; the
tiles of a worker are abstracted to "some" or "none" (the worker then parks).
The registry is reduced to the state of each device; which thread opens one is
left open.  The `Faults` constant selects what the environment may do.

A detection that is still in the channel when its run stops may be filed under
the next mission that starts: the writer knows only `active`.  What does hold,
and is checked, is `AttributionNeverBackwards`: never under a mission that ran
only before.

### DeviceRegistry: the device manager

Every thread that enters the manager has a record: its step, the sources it
enumerated, whether the snapshot it holds still equals the registry, and the
device it has claimed with the configuration it read then.  `Enumerate`, `Diff`,
`Claim`, `Open`, `Snapshot`, `Publish` are the sections between two lock
operations of `detect`, `open_detected` and `emit`; `SetConfig`, `Allocate` and
`ReleaseAll` the ones of `set_config`, `allocate` and `release`, each followed
by the same `emit` and `open_detected` steps.  The build modelled is the one
for hardware (feature `soapy`); the simulated build is the special case with no
handle, no failure and no hot-plugging.  Gain and rate have two values each; a
snapshot is reduced to "fresh or not", which is all that the status bar's
property distinguishes.

Not modelled: the driver's refusal of a gain setting (the code ignores it),
labels, frequency limits, and `ready_count` (a read).

### EventBridge: what the page knows

A click on Start spawns a thread that waits for the mutex (`starts`); a click on
Stop waits for its reply (`stops`).  The holder of the mutex is `command`, with
the steps that matter here: before and after threads stream, and the
announcement.  Everything published goes into `backlog`, the broadcast as its
one subscriber sees it, where a full buffer overwrites the oldest event;
`BridgeReceive` moves an event to `inbox`, where command replies and
`mission_error` arrive too.  `activeId` and `starting` are the page's state, and
`CanStart` the Start button's condition, without the number of ready devices
and the selection.

Tauri delivers events in order, but a command's reply takes another way: it may
pass events and be passed by them (`PageHandle`).  The history variable
`mishaps` records that this happened, that a phase was overwritten, and that
stop failed before its announcement.  Each property says which of these it
needs not to have happened.  The ones that are needed are real: without
"reordered", TLC finds a late reply to Stop that makes the page show IDLE while
the next mission runs.

Not modelled: a reload of the page, the poisoned mutex (see `SurveyMission`), and
what telemetry draws.

### RingShared, LosslessRing, BoundedFifo, LossyRing: the IQ rings

`RingShared` has the buffer, the slots (`pos & mask`) and the wrapping
arithmetic (`Word` is 2^64 in the code).  In both rings `push` and `pop` are
split at every access to something the other side may write or read: each load
of a cursor that the other side stores, each sample copied, each store of a cursor.  Loads and stores are
sequentially consistent; a cursor is stored with release and loaded with
acquire order, so that a side which sees a cursor sees the samples before it.

`LosslessRing`'s producer takes what fits in the space free when it loaded the
consumer's cursor and counts the rest in `dropped`.  `BoundedFifo` is what it
promises, a queue of at most `Capacity` samples without cursors or threads,
and `ImplementsFifo` the refinement: `queue` is what lies between the two
shared cursors.

`LossyRing`'s producer overwrites, and when it has lapped the consumer it stores
the consumer's cursor itself (`LossyPushCheck`, `LossyPushClamp`), so that
cursor has two writers.  A slot read while the producer is about to write it
may yield the old sample, the new one or `Torn`, a mixture: the race is
undefined behaviour.  `pop` loads two cursors that the producer stores, `write_pos` (`LossyPopBegin`)
and then `read_pos` (`LossyPopCount`).  The history variables `behind`,
`overlapped`, `undone` and `crossed` say what has happened, and the properties
which of it they exclude.  A pop during an overflowing push may repeat or skip
samples, and may put back the cursor the push had moved (`undone`).  And the push
may store its clamp between the two loads: then the pop takes cursors that have
crossed for a huge count, copies as many samples as its caller has room for, and
may leave its cursor past the producer's (`crossed`), until a later push ends
while no pop copies and so clamps it.  `LagFits` says that the cursor does not
pass the producer's at any other time.  With capacity 2: a pop loads 0, a push
of three moves `read_pos` to 1, the pop loads 1, copies three samples and stores 4.

### CatalogSchema: opening the catalog

`Catalog::init`: read `user_version`, create three tables and an index if it
is below 1, stamp the version.  `execute_batch` commits each statement on its
own, so each is a step (`CreateNext`), and other launches and a `Kill` come
between them.  After a kill half-way the next launch meets "table already
exists" and panics, on this file for ever: the model has that (`cut`), and
`LaunchOutcome` says nothing else makes a launch fail but a race of creators.
Left out are statements that fail for want of a readable and writable file
(`rf-catalog/src/lib.rs` lines 51-53 and 81-82): they fail the launch, too, and
one that fails in the middle of the creation leaves what a kill there leaves.

### SweepPlan: which frequencies are visited

`plan_tiles`, `covers`, the split `enumerate().filter(i % n == k)` and the laps
of the workers, on whole frequencies with rates such that half a tile and 0.9
tiles are whole.  `TilesCoverBands` is about one sensor's tiles,
`EveryFrequencyIsSwept` about what is left of them after the split.  Each
sensor numbers the tiles that it covers itself, so for sensors of one kind the
split is a partition, and for different ones it is not: `tiles_unswept`.
The rounding of `f64` is not modelled.  `plan_tiles` sorts and deduplicates the
centers; `Sorted` does so by rank, a definition that can be reasoned about.

### P25Decoder, PulseTrain, Cfar, Occupancy, Masint

* `P25Decoder`: each event handler writes the fields it carries into `metadata`
  and flags them; nothing clears them when a call ends.  The history variables
  `onAir` and `heard` say which call is transmitted and which parts of it were
  received; any part may be missed.  Opcodes keep their numbers: assigned ones
  survive the way through the enumeration and back, reserved ones do not.  The
  history variable `blocks` holds the standard blocks received.  A manufacturer's
  own block leaves the queue as it is, also if its opcode is a standard one:
  `TsbksArriveInOrder` says so, after the code and against its comment.
* `PulseTrain`: `feed` is a loop over a slice (`Fed`, a recursive function of the
  samples looked at), with the detector's state carried to the next call.  A sample is its power; amplitude and phase are left out.
* `Cfar`: `detect` on whole powers: flags, groups across gaps of two bins,
  occupied bandwidth, centroid, the SNR test and `merge_adjacent`.  Each
  loop of the code is a recursive function of the rounds it has made, and
  `GroupsAreExact` compares the two nested scans with the definition of a group.
  A spectrum's powers are positive: the code raises 10 to what it gets in dB.
* `Occupancy`: `accept` (tile bins onto the grid, by truncation) and `row`
  (pooling).  A tile coarser than the grid hits only some of the bins it covers, and
  old values stay between them: `LeavesNoHole` says that no stretch as wide as a
  bin of the tile stays old, hence no bin under a tile no coarser than the grid.
  `RowKeepsPeaks` compares a row with the bins that each of its slots overlaps.
* `Masint`: `update_baseline`, `detect` (the chain of tests that names an
  anomaly) and `find_harmonics` (`Grouping`, by rounds over the peaks), on whole dB
  and frequencies.  A peak is a multiple of another one within `TolerancePct` of the
  nearest whole ratio (`IsMultipleOf`).  That relation is not transitive: with 1 %
  of 1000, 2015 and 4060 the code groups the first two and leaves 4060 alone, so
  `HarmonicsAreGroupedOnce` promises nothing of the multiples of a harmonic.

### MCUnits

These units share no state with each other or with the survey's control.
`MCUnits` runs them in one state space as a disjoint sum, not a product: a
behaviour picks one unit and takes only its steps, from that unit's `Init`.

## Runs

Bounds: `MaxRuns` (device allocations), `MaxQueue` (length of the unbounded
channels; a sender waits, which only restricts how far ahead it runs),
`MaxDets` (detections per dwell), `MaxPlugs`, `MaxLeases`, `MaxClicks`.  Two runs are what
the interaction of a run with the next one needs (the hazards are about a
previous run's threads, rows, devices or `active` met by the next one); two
devices let one worker run ahead of the other and one device fail while the
other works; a queue of one already separates "sent" from "received".  Four clicks are start,
stop, start, stop; a broadcast of two (512 in the code) separates being full
from losing the event just sent.

| Run | What it shows |
|---|---|
| `survey_devices` | two missions, two devices, devices that fail to open, tune or read and are re-configured: `QuietAfterStopped`, `StoppedSensorsReportDisconnected`, `OneRunAtATime`, `IdleCoherence`, `AttributionNeverBackwards`, and the refinement of `DeviceLease` |
| `survey_faults` | two missions, one device, every fault, restarts included: a stopped run is quiet, and what was announced is in the catalog |
| `survey_liveness` | under fairness, start and stop return, and a stop's devices become Ready |
| `survey_failed_start` (violation) | an error after the threads were spawned leaves them running, and the next start runs beside them; `src/crates/rf-mission/src/lib.rs:78` says one runs at a time |
| `survey_stop_tail` (violation) | the writer discards detections taken from the lossless channel while `active` is -1; `src/crates/rf-types/src/lib.rs:234` says they must reach the catalog |
| `registry_calls` | two devices, the loop, a call, two missions, no hot-plugging: `StateTellsOwner` and the refinement of `DeviceLease` |
| `registry_hotplug` | one device that comes and goes, a loop, a call and a mission: no device stuck in Opening, a Ready device is held open; under fairness a device comes up and the status bar catches up |
| `registry_rate` (violation) | a sample rate changed while another thread opens the device is lost; `src/crates/rf-sensor/src/manager.rs:302` says a change re-opens it |
| `bridge` | two missions, four clicks, a backlog of two: a start is asked for only when it can be granted, the page comes to show the mission that runs, "starting" ends, and the page settles on the backend's state |
| `bridge_lag` (violation) | the Running event is overwritten by telemetry, and the page stays at STARTING with both buttons disabled; `src/crates/rf-types/src/lib.rs:233` says state changes are lossless |
| `units` | the units that share no state, each on its own: both rings, with a clamp between any two steps of a pop, and the refinement of `BoundedFifo`; launches that race and are killed, and under fairness one completes the schema; the tiles of one to three equal sensors; P25 metadata and trunking blocks; pulses, detections, occupancy, baselines and harmonics |
| `tiles_unswept` (violation) | two sensors of different sample rates: frequencies that both of them cover are swept by neither; `src/crates/rf-sensor/src/pool.rs:64` says the tiles are split round-robin across the sensors that can cover them |

**Bounds of `units`.**  Rings: two slots, cursors modulo 8 and nine samples
offered, so that cursors wrap past `Word` and slots are reused several times;
blocks of up to three, more than the ring holds.  The lossy ring stops at five
samples pushed, below `Word`, so that an order of cursors is not mistaken; two
laps of its buffer are enough for a clamp that meets a pop on either side or
between its loads, and for a second push that puts crossed cursors right.  A pop
whose cursors crossed copies what was never pushed, so the copies are bounded, too
(`MaxPopped`: no pop begins after six).  Schema:
two launches and two kills (one to cut a creation, one to end a clean run).
Tiles: bands narrower than, as wide as, wider than a tile, overlapping,
adjacent and upside down, for sensors that reach all or part of them.  P25:
two calls of groups, one encrypted, and one between units (a talkgroup left
over from a call is what the next one could inherit); two trunking blocks with
an assigned, a reserved and a manufacturer's opcode.  Pulses: slices of up to
three of nine samples, so that a pulse spans three slices.  CFAR: all patterns
of strong and weak bins over ten bins (a gap of three and a group on each side
of it fit) and two wide lopsided signals.  Occupancy: five bins and two tiles
that overlap, with bins of a third, two thirds and four thirds of the grid's width.
Baselines of four frames of two bins, one of them short.  All ascending lists of
six peaks, of which 2980, 2015 and 4060 are within 1 % (`TolerancePct`) of multiples
of some and not of others, and three lists in other orders.

Deadlock is not checked in the survey's runs: an idle application waits for the
user, and the bound on runs stops it.  It is checked in the registry's, where
the loop never ends, and in the bridge's, where telemetry never does.  It is
not checked in `units` and `tiles_unswept`: samples, frames and kills are
bounded, and a detector that has seen its frame is done.

Symmetry is used for missions, devices and callers in runs without temporal
properties (`ImplementsLease` is a safety property of permutable devices).

**Fairness.**  `SurveyMission`: weak fairness of every thread (the operating
system schedules them; SoapySDR reads time out, the simulation never blocks)
and of the openers.  None for the user or the environment.  `survey_liveness`
leaves re-configuration out: a user who re-configures a device again and again
keeps `release` opening it again and again.  `DeviceRegistry`: weak fairness of
every thread inside a call, and of the loop, whose sleep ends.
`EventBridge`: weak fairness of the commands' threads, the bridge task and the
page; none for the user or telemetry.  `CatalogSchema`: weak fairness of the
steps of a launched process; none for launching or killing one.

## Proofs

For every value of the constants: every invariant that a passing run checks,
and all three refinements (of `DeviceLease` from both sides, and of
`BoundedFifo`).  No theorem assumes more than its module's named constant
assumptions, except where a fault is excluded or the sensors of a pool are
equal: then the theorem says so.  Seven modules hold the theorems and the
lemmas of their components; the eighth, `DataLemmas`, holds facts about numbers.

**`SurveyMissionProofs`** (every fault):

* `TypeCorrect`.  `TypeOK` is not inductive: `command.run` must be an opened run
  from the pool's start on, a command in progress must have a mission, the
  writer's target is a mission while it inserts, and the status thread receives
  only for an opened run.  `TypeInv` adds these; one lemma per group of
  variables shows that a step preserves it.
* `AnnouncedIsPersistedHolds`.  `PhaseInv`: what a command is about to announce
  is in the catalog already, and stays there, since the next command on that
  mission opens a newer run first; `RunInv`: a start in progress works on the
  newest run, of its own mission.
* `QuietAfterStoppedHolds`.  `StopInv` says that a run that is not open has no
  thread and no message; that a stop past `joinPool` is for a run without live
  workers, and past `joinPipeline` for a run that is over; that a run announced
  as Stopped is over.  "Over" is stable because a channel's receiver ends only
  when the channel is empty and no sender is alive, and workers never start
  again.
* `LastStatusHolds` (`StoppedSensorsReportDisconnected`).  `FarewellInv` follows a
  worker's farewell from the worker through the channel to the status thread:
  for a finished worker the last status in the channel, or the last one
  published if none is left there, is Disconnected.  `AwaitInv` and `WordsInv`
  carry it from the joins of stop to the announcement.

**`SurveyRunProofs`** (each theorem names the faults it excludes; the run
`survey_failed_start` shows what a failing statement does, and a failing spawn
leaves the same threads behind):

| Theorem | Excluded | Argument |
|---|---|---|
| `AttributionNeverBackwardsHolds` | catalog | `ActiveInv`: `active` is the mission of the newest run; `PathInv`: a detection in the channel is of a run opened before |
| `OneRunAtATimeHolds` | catalog, spawn | `ThreadsInv`: a run with a thread is owned, by the command that starts or stops it or by the mutex |
| `IdleCoherenceHolds` | and crash | `StoryInv`, `WorkInv`: step by step, what start and stop have done and undone |
| `SurveyImplementsLease` | and hotplug | `UseInv`, `LeaseInv`: a device InUse is leased to the run that is owned, and only workers of it stream; every other step is a stutter |

**`DeviceRegistryProofs`**: `RegistryTypeCorrect`, `OpeningHasOpenerHolds`,
`ReadyIsHeldOpenHolds` for any hot-plugging.  `RegistryInv` says that a thread
holds a claim only on its way to set the result, so a device in Opening that
loses its opener would need a thread to drop its claim.  With `MaxPlugs = 0`,
`StateTellsOwnerHolds` and `RegistryImplementsLease`: `OwnerInv` adds that a
device has one opener and that a device InUse has its handle with the mission.
With hot-plugging both are false: a device that was unplugged and comes back
may be opened while its old opener, or the mission that had it, still goes on.

**`EventBridgeProofs`**: `BridgeTypeCorrect`, and `StartsAreGrantedHolds`, whose
`BridgeInv` accounts for the answer to a start wherever it is: with a waiting
start, the command, the broadcast, the page's inbox, or, if overwritten, nowhere;
and for the order of a run's end and the next Running among them.

**`LosslessRingProofs`**: `RoomForThePushHolds`, `LossIsVisibleHolds` and
`RingImplementsFifo`.  `RingInv`: the four cursors (each side's own and the two
shared ones) lie in the order readPos, consumer.read, writePos,
producer.write, at most `Capacity` apart although they wrap, and each sample
offered is handed out, on its way, in the ring, or refused.  `ContentInv` adds
what the slots hold, counted from readPos: what the pop in progress has copied
is the front of the ring, and what is copied but not published is a block of
consecutive samples younger than all others.  It is preserved because slots
less than `Capacity` apart differ (`SlotsDiffer`, which needs `Word` to be a
multiple of `Capacity`), so a push touches none that holds a sample.  Then a
push's publish is `Enter`, a pop's is `Leave`, and every other step a stutter.

The same module proves `LagFitsHolds` about `LossyRing`, whose consumer's cursor
has two writers.  `LossyInv` says in `Uncrossed` that, unless `crossed`, what either
side is about to store there is not past the producer's cursor and, stored by a
pop, not before what the pop loaded; and in `LagIsBounded` that only a pop whose
load is older than a clamp can make more than `Capacity` samples available again,
which `undone` records.  `FirstLap` is what makes a push repair crossed cursors: they
cross only once the buffer has been full, and from then on a cursor past the
producer's is taken for one far behind and clamped (`CloseIsBehind`).

`PopsInOrderHolds` is about what the lossy ring hands out, although a pop may
read a slot while it is written.  `HistoryInv`: the last `Capacity` samples
written are in their slots; while the consumer keeps up (`KeepsUp`), what a
push still has to write fits behind what is unread, so it touches no slot that
a pop will read, and what was popped is 1, 2, 3, ... up to the cursor; while
pops and pushes take turns (`TakesTurns`), nothing older than what was copied
last can be copied any more, and a clamp moves the cursor forward only.  In both
cases no clamp comes between a pop's two loads (`NeverCrosses`).

**`CatalogSchemaProofs`**: `LaunchOutcomeHolds`.  `SchemaInv`: the version is
stamped last, and a creator that was alone and never cut finds its own next
statement missing.

**`UnitProofs`** (the specification of each unit, as `MCUnits` runs it):

| Theorem | Inductive invariant, argument |
|---|---|
| `MetadataFollowsCallHolds` | `P25Inv`: what has been received of the call is in the metadata, and the caller has them unless they are flagged |
| `TsbksArriveInOrderHolds` | `QueueFollows`: what was taken and what is queued are together, one for one, what the standard blocks received stand for, and nothing of a manufacturer's block |
| `TilesCoverBandsHolds` | the survey never changes; the rest is arithmetic: consecutive centers are at most a tile apart, the first and the last tile touch the band's edges, and sorting and deduplicating by rank keeps the set of the centers |
| `EqualSensorsSweepEverything` | `SweepInv`: a worker's share is every n-th of the tiles it covers, it has visited those before its place, and after a lap all of them. Each tile's number has a remainder, hence a worker, and equal sensors number the same tiles. That they are equal is a hypothesis: the run `tiles_unswept` shows it is needed |
| `KindFollowsBaselineHolds` | `BinsSound`: a bin's sum lies between count times its least and count times its greatest power, and these bound all powers measured; `AnomaliesSound`: an anomaly is of the baseline as it is |
| `HarmonicsAreGroupedOnceHolds` | over the rounds of `find_harmonics`: members of groups are used and groups are disjoint; and after round k every multiple, within the tolerance, of one of the first k peaks that is no harmonic is in a group (`Complete`), in an ascending list as a harmonic (there a multiple comes after its peak, so its own round has not made it a fundamental before) |
| `PulsesSurviveSlicingHolds` | `PulseInv`: the detector and its words follow the stream seen so far (`FollowsStream`: a pulse is open exactly where the samples are high at the end, each word is about a pulse, each rise has its word or is the open pulse's). One sample preserves it, so the samples of a call do, so calls do, however the stream is cut |
| `GroupsAreExactHolds` | `EndSoFar`, round by round of the inner loop: no three unflagged bins in a row up to the end, and the gap counts the bins since; `FoundBefore`, round by round of the outer loop: every flagged bin before the scan is in one of the groups found, and those are closed |
| `MergingIsSoundHolds` | `MergedIs`, band by band: each band merged lies within a detection; and, if lower edges rise, detections are apart and begin before the bands to come, so merging never lowers one. `CentersAscend`: a centroid lies between its group's first and last bin and groups are apart, so the bands' centers strictly ascend and the sort of `merge_adjacent` moves nothing (`SortedByCenter`) |
| `ShowsWhatWasMeasuredHolds` | `GridTyped`; a tile has the center of one of its bins in every stretch it covers that is as wide as they are (`TileReaches`), so it writes into one of any bins that make up such a stretch; a row's slots cover the grid and pool only bins that they overlap (`SlotPools`, `BinHasSlot`), whether the row is narrower or wider than the grid |

Assumptions on constants: powers, spectra and tiles are whole numbers, widths,
rates and counts positive, and sample rates such that half a tile and 0.9 tiles
are whole (`SurveysAssumption`, multiples of 20: a scale of the model; the code
has floats).  The lossy ring's theorems count cursors below `Word`, which the
code's 2^64 samples never reach.

**Induction over data.**  The library's induction theorems take an operator,
which the provers cannot instantiate.  `DataLemmas` states induction for sets
of numbers instead (`NumbersUpTo`, `NumbersFrom`, from `LeastNatural`): the
numbers for which a claim holds are a set, which needs no operator.
`IterationExists` shows in the same way that a recursive function exists, so
that its `CHOOSE` has the equations it was written with.  This is why the
models of loops are recursive functions of the round and not folds or
RECURSIVE operators.

Model-checked only: liveness (`CommandsReturn`, `DevicesReturn`,
`DevicesComeUp`, `StatusBarCatchesUp`, `PageFollows`, `StartingEnds`,
`PageSettles`, `SchemaGetsDone`), since TLAPS does not do `ENABLED`; and the five
violations, which are traces of the model.

## Findings

`PROJECT.json` lists them with the lines that disagree.  Five are violation runs:
a failed start leaves its threads (`survey_failed_start`), the tail of a run's
detections is dropped (`survey_stop_tail`), a sample rate changed during an open
is lost (`registry_rate`), Running may be overwritten on the broadcast
(`bridge_lag`), sensors of different rates leave frequencies out
(`tiles_unswept`).

Two are stated by properties of `units`, which hold because they say what the
code does and not what its comment says.  The lossy ring's SAFETY comment
(`src/crates/rf-sensor/src/ring.rs:35`) has each side touch only its own cursor,
and a push stores the other side's, even between the two loads of a pop: `LagFits`
needs its exception `crossed`, without which TLC finds a consumer's cursor past the
producer's.  And `src/crates/rf-p25/src/lib.rs:344` promises to process the
standard opcode of a manufacturer's block, where the code returns:
`TsbksArriveInOrder` has the block skipped.

## Not modelled

* `crates/_archive` and `sentinel-ui`, nine tenths of the repository's lines: the
  scrapped v1, in no workspace, not built, and with nothing in the present
  program to compose it with.  The crates in use have about five thousand lines.
* `rf-liquid`, `rf-liquid-sys`, `vendor`: bindings and third-party code.
* Arithmetic on floats: windows, FFT, the Welch average, demodulators, the
  simulated sensor's signals, the rounding in `plan_tiles`; in `rf-elint` and
  `rf-masint` the statistics without state (PRI classes, emitter signatures
  and their scores, fingerprints) and a pulse's amplitude.
* `rf-types`' serialisation and frame arithmetic; the UI's lists, dialogs and
  drawing; the list commands, which read.
* Weak memory: the rings' cursors are sequentially consistent here.

## What is left

1. A reload of the page: the answer of `get_status` against events that are
   published before the page listens again.
2. A fault model of the event bridge together with the catalog: which phase the
   page shows after a stop that failed half-way and a restart.
3. Proofs of the action properties behind liveness: which steps of a stop, once
   taken, bring it nearer to its return, whatever else happens.
