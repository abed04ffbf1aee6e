--------------------------- MODULE SurveyMission ---------------------------
(***************************************************************************)
(* The survey lifecycle of rf-mission: MissionManager's start and stop, the *)
(* sweep workers of the sensor pool, the DSP and status threads a start     *)
(* spawns, and the long-lived detection writer with the catalog rows it     *)
(* produces.                                                               *)
(*                                                                         *)
(* start and stop hold the `running` mutex from their first line to their   *)
(* last, so at most one of them is in progress: `command` is its program    *)
(* counter, and "idle" means that the mutex is free.  Every successful      *)
(* device allocation opens a new run; the threads and channels of a run are *)
(* never shared with another run.  IQ, PSD frames and tiles are abstracted: *)
(* a dwell is a token, a detection is the number of the run it came from.   *)
(***************************************************************************)
EXTENDS Integers, Sequences, FiniteSets

CONSTANTS
  Missions,   \* MissionIds that create_mission may hand out
  Devices,    \* SensorIds in the device registry
  None,       \* the -1 of `active`
  MaxRuns,    \* bound: device allocations
  MaxQueue,   \* bound: length of each unbounded channel
  MaxDets,    \* bound: detections CFAR finds in one dwell
  Faults      \* which faults of the environment may happen

(* catalog: a statement fails; spawn: a thread cannot be created; open: a   *)
(* device cannot be activated or re-opened; tune: a retune or a read fails; *)
(* hotplug: a device is unplugged or plugged in; reconfigure: its sample    *)
(* rate is changed; crash: the process dies.                                *)
FaultKinds == {"catalog", "spawn", "open", "tune", "hotplug", "reconfigure", "crash"}

ASSUME ConstantsAssumption ==
  /\ None \notin Missions
  /\ MaxRuns \in Nat
  /\ MaxQueue \in Nat \ {0}
  /\ MaxDets \in Nat
  /\ Faults \subseteq FaultKinds

Runs == 1..MaxRuns

CommandSteps == {"idle", "lookup", "allocate", "spawnDsp", "spawnStatus",
                 "activate", "setRunning", "install", "signal",
                 "joinPool", "joinPipeline", "release", "reopen",
                 "setStopped", "announceStopped", "poisoned"}
Phases == {"absent", "Created", "Running", "Stopped"}
DeviceStates == {"Detected", "Opening", "Ready", "InUse", "Error", "Disconnected"}
SensorStates == {"Connected", "Sweeping", "Error", "Disconnected"}
AliveSteps == {"connect", "park", "sweep", "fill", "exit"}
WorkerSteps == AliveSteps \cup {"none", "done"}
ReceiverSteps == {"none", "recv", "done", "gone"}

VARIABLES
  \* catalog (SQLite behind a mutex: every statement is atomic)
  phase,       \* phase column of the missions table, "absent" without a row
  hasBands,    \* missions whose bands_json is not empty
  rows,        \* detections table: <<mission_id, run the detection came from>>
  sensorRows,  \* sensors table: <<mission_id, sensor_id>>
  \* MissionManager
  command,     \* the start or stop that holds the mutex, and its next step
  running,     \* the mutex's content: 0, or the run that is installed
  active,      \* the shared AtomicI64
  runs,        \* number of runs opened so far
  missionOf,   \* mission each run was started for
  announced,   \* last MissionState published for each run
  \* device registry, as allocate and release see it
  device,
  \* threads and channels of each run
  worker,      \* step of each device's sweep worker
  stopFlag,    \* the pool's AtomicBool
  dwells,      \* length of the dwell channel
  statuses,    \* content of the status channel
  dsp,         \* DSP thread: its step and the detections left to publish
  reporter,    \* status thread
  lastStatus,  \* last SensorStatus published for each device
  \* lossless detection path
  detections,  \* the unbounded channel of the bus
  writer       \* det-writer: its step, the detection in hand, the id it loaded

catalog == <<phase, hasBands, rows, sensorRows>>
history == <<runs, missionOf, announced>>
manager == <<command, running, active, history>>
pool == <<worker, stopFlag>>
pipeline == <<dwells, statuses, dsp, reporter, lastStatus>>
path == <<detections, writer>>
survey == <<pool, pipeline, path>>
vars == <<catalog, manager, device, survey>>

Idle == [step |-> "idle", mission |-> None, run |-> 0]
WriterIdle == [step |-> "recv", det |-> 0, target |-> None]

May(fault) == fault \in Faults

Init ==
  /\ phase = [m \in Missions |-> "absent"]
  /\ hasBands = {}
  /\ rows = {}
  /\ sensorRows = {}
  /\ command = Idle
  /\ running = 0
  /\ active = None
  /\ runs = 0
  /\ missionOf = [r \in Runs |-> None]
  /\ announced = [r \in Runs |-> "none"]
  /\ device = [d \in Devices |-> "Detected"]
  /\ worker = [r \in Runs |-> [d \in Devices |-> "none"]]
  /\ stopFlag = [r \in Runs |-> FALSE]
  /\ dwells = [r \in Runs |-> 0]
  /\ statuses = [r \in Runs |-> <<>>]
  /\ dsp = [r \in Runs |-> [step |-> "none", dets |-> 0]]
  /\ reporter = [r \in Runs |-> "none"]
  /\ lastStatus = [r \in Runs |-> [d \in Devices |-> "none"]]
  /\ detections = <<>>
  /\ writer = WriterIdle

At(step) == command.step = step
Goto(step) == command' = [command EXCEPT !.step = step]

(* The command returns, with Ok or with Err, and drops the mutex guard. *)
Return == command' = Idle

DevicesOf(r) == {d \in Devices : worker[r][d] # "none"}
WorkersFinished(r) == \A d \in Devices : worker[r][d] \notin AliveSteps

----------------------------------------------------------------------------
(* MissionManager::create_mission: a new row in phase Created. *)
CreateMission(m) ==
  /\ phase[m] = "absent"
  /\ phase' = [phase EXCEPT ![m] = "Created"]
  /\ hasBands' \in {hasBands, hasBands \cup {m}}
  /\ UNCHANGED <<rows, sensorRows, manager, device, survey>>

(* Mutant: the check of the mutex's content is missing. *)
NothingRunningUnchecked == TRUE
NothingRunning == running = 0

(* MissionManager::start.  With a mission running it returns Err at once,   *)
(* which changes nothing: only the other case is a step.                    *)
StartEnter(m) ==
  /\ At("idle")
  /\ NothingRunning
  /\ runs < MaxRuns
  /\ command' = [step |-> "lookup", mission |-> m, run |-> 0]
  /\ UNCHANGED <<catalog, running, active, history, device, survey>>

(* get_mission and the check of its bands: "mission not found" and "mission *)
(* has no bands" return Err, and so does a failing query.                   *)
StartLookup ==
  /\ At("lookup")
  /\ \/ /\ phase[command.mission] # "absent"
        /\ command.mission \in hasBands
        /\ Goto("allocate")
     \/ /\ \/ phase[command.mission] = "absent"
           \/ command.mission \notin hasBands
           \/ May("catalog")
        /\ Return
  /\ UNCHANGED <<catalog, running, active, history, device, survey>>

(* DeviceManager::allocate(usize::MAX) under the registry lock: every device *)
(* that is Ready and enabled (the user may have disabled any) is activated, *)
(* and one that does not activate goes to Error.                            *)
Allocation(got, failed) ==
  /\ got \cup failed \subseteq {d \in Devices : device[d] = "Ready"}
  /\ got \cap failed = {}
  /\ failed = {} \/ May("open")
  /\ device' = [d \in Devices |->
                  IF d \in got THEN "InUse"
                  ELSE IF d \in failed THEN "Error" ELSE device[d]]

(* A run opens: SensorPool::start spawns one sweep worker per sensor. *)
OpenRun(spawned) ==
  /\ runs' = runs + 1
  /\ missionOf' = [missionOf EXCEPT ![runs + 1] = command.mission]
  /\ worker' = [worker EXCEPT ![runs + 1] =
                  [d \in Devices |-> IF d \in spawned THEN "connect" ELSE "none"]]

(* No sensor at all is Err.  A sweep worker that cannot be spawned panics   *)
(* (`expect`) with the guard held: the mutex is poisoned, the receivers go  *)
(* with start's frame, and the workers spawned before it keep running.      *)
StartAllocate ==
  /\ At("allocate")
  /\ \E got, failed \in SUBSET Devices :
       /\ Allocation(got, failed)
       /\ \/ /\ got = {}
             /\ Return
             /\ UNCHANGED <<runs, missionOf, worker, dsp, reporter>>
          \/ /\ got # {}
             /\ OpenRun(got)
             /\ command' = [step |-> "spawnDsp", mission |-> command.mission, run |-> runs + 1]
             /\ UNCHANGED <<dsp, reporter>>
          \/ /\ May("spawn")
             /\ \E spawned \in SUBSET got : spawned # got /\ OpenRun(spawned)
             /\ dsp' = [dsp EXCEPT ![runs + 1].step = "gone"]
             /\ reporter' = [reporter EXCEPT ![runs + 1] = "gone"]
             /\ Goto("poisoned")
  /\ UNCHANGED <<catalog, running, active, announced, stopFlag, dwells,
                 statuses, lastStatus, path>>

(* The DSP thread takes the dwell receiver.  When it cannot be spawned both *)
(* receivers are dropped with start's frame; the pool is left running.      *)
StartSpawnDsp ==
  /\ At("spawnDsp")
  /\ \/ /\ dsp' = [dsp EXCEPT ![command.run].step = "recv"]
        /\ Goto("spawnStatus")
        /\ UNCHANGED <<dwells, statuses, reporter>>
     \/ /\ May("spawn")
        /\ dsp' = [dsp EXCEPT ![command.run].step = "gone"]
        /\ dwells' = [dwells EXCEPT ![command.run] = 0]
        /\ reporter' = [reporter EXCEPT ![command.run] = "gone"]
        /\ statuses' = [statuses EXCEPT ![command.run] = <<>>]
        /\ Return
  /\ UNCHANGED <<catalog, running, active, history, device, pool, lastStatus,
                 path>>

(* The status thread takes the status receiver; a failure drops that one.   *)
StartSpawnStatus ==
  /\ At("spawnStatus")
  /\ \/ /\ reporter' = [reporter EXCEPT ![command.run] = "recv"]
        /\ Goto("activate")
        /\ UNCHANGED statuses
     \/ /\ May("spawn")
        /\ reporter' = [reporter EXCEPT ![command.run] = "gone"]
        /\ statuses' = [statuses EXCEPT ![command.run] = <<>>]
        /\ Return
  /\ UNCHANGED <<catalog, running, active, history, device, pool, dwells,
                 dsp, lastStatus, path>>

(* `active.store(id)`.  Mutants: 0 stands for "none"; "none" is not stored. *)
StoreZeroForNone(id) == active' = IF id = None THEN 0 ELSE id
StoreOnlyMissions(id) == active' = IF id = None THEN active ELSE id
Store(id) == active' = id

StartActivate ==
  /\ At("activate")
  /\ Store(command.mission)
  /\ Goto("setRunning")
  /\ UNCHANGED <<catalog, running, history, device, survey>>

(* set_mission_phase(..)?: an error makes start or stop return at once.     *)
(* Mutant: the error is ignored.                                            *)
SetPhaseUnchecked(new, step) ==
  /\ \/ phase' = [phase EXCEPT ![command.mission] = new]
     \/ May("catalog") /\ UNCHANGED phase
  /\ Goto(step)
SetPhase(new, step) ==
  \/ phase' = [phase EXCEPT ![command.mission] = new] /\ Goto(step)
  \/ May("catalog") /\ Return /\ UNCHANGED phase

StartSetRunning ==
  /\ At("setRunning")
  /\ SetPhase("Running", "install")
  /\ UNCHANGED <<hasBands, rows, sensorRows, running, active, history,
                 device, survey>>

(* publish(Running); *guard = Some(RunningMission { .. }); Ok(()).  Nobody   *)
(* but the next start or stop reads the guard's content.                    *)
StartInstall ==
  /\ At("install")
  /\ announced' = [announced EXCEPT ![command.run] = "Running"]
  /\ running' = command.run
  /\ Return
  /\ UNCHANGED <<catalog, active, runs, missionOf, device, survey>>

----------------------------------------------------------------------------
(* MissionManager::stop takes the guard's content and clears `active`; with *)
(* no running mission it returns Err at once.                               *)
StopTake ==
  /\ At("idle")
  /\ running # 0
  /\ running' = 0
  /\ Store(None)
  /\ command' = [step |-> "signal", mission |-> missionOf[running], run |-> running]
  /\ UNCHANGED <<catalog, history, device, survey>>

(* Mutant: the flag is not stored. *)
RaiseNoFlag(r) == UNCHANGED stopFlag
RaiseStopFlag(r) == stopFlag' = [stopFlag EXCEPT ![r] = TRUE]

(* PoolHandle::stop stores the flag, then joins every sweep worker. *)
StopSignal ==
  /\ At("signal")
  /\ RaiseStopFlag(command.run)
  /\ Goto("joinPool")
  /\ UNCHANGED <<catalog, running, active, history, device, worker, pipeline,
                 path>>

StopJoinPool ==
  /\ At("joinPool")
  /\ WorkersFinished(command.run)
  /\ Goto("joinPipeline")
  /\ UNCHANGED <<catalog, running, active, history, device, survey>>

(* Mutant: only the first of the two threads is joined. *)
DspFinished(r) == dsp[r].step = "done"
PipelineFinished(r) == dsp[r].step = "done" /\ reporter[r] = "done"

(* The DSP and the status thread are joined in turn; neither waits for the  *)
(* other, so joining one and then the other is waiting for both.            *)
StopJoinPipeline ==
  /\ At("joinPipeline")
  /\ PipelineFinished(command.run)
  /\ Goto("release")
  /\ UNCHANGED <<catalog, running, active, history, device, survey>>

(* DeviceManager::release: back to Detected, to be opened again.  Mutant:   *)
(* it looks for devices in the wrong state.                                 *)
ReleaseReady(r) ==
  device' = [d \in Devices |-> IF d \in DevicesOf(r) /\ device[d] = "Ready"
                               THEN "Detected" ELSE device[d]]
Release(r) ==
  device' = [d \in Devices |-> IF d \in DevicesOf(r) /\ device[d] = "InUse"
                               THEN "Detected" ELSE device[d]]

StopRelease ==
  /\ At("release")
  /\ Release(command.run)
  /\ Goto("reopen")
  /\ UNCHANGED <<catalog, running, active, history, survey>>

(* release ends in open_detected, which opens devices until none is left to *)
(* claim; another thread may still be opening one it has claimed.  Which    *)
(* thread takes DeviceClaim and DeviceOpened is left open.                  *)
StopReopen ==
  /\ At("reopen")
  /\ \A d \in Devices : device[d] # "Detected"
  /\ Goto("setStopped")
  /\ UNCHANGED <<catalog, running, active, history, device, survey>>

StopSetStopped ==
  /\ At("setStopped")
  /\ SetPhase("Stopped", "announceStopped")
  /\ UNCHANGED <<hasBands, rows, sensorRows, running, active, history,
                 device, survey>>

StopAnnounce ==
  /\ At("announceStopped")
  /\ announced' = [announced EXCEPT ![command.run] = "Stopped"]
  /\ Return
  /\ UNCHANGED <<catalog, running, active, runs, missionOf, device, survey>>

----------------------------------------------------------------------------
(* status_tx.send: once the receiver is dropped the message is too. *)
Send(r, d, state) ==
  IF reporter[r] = "gone" THEN UNCHANGED statuses
  ELSE /\ Len(statuses[r]) < MaxQueue
       /\ statuses' = [statuses EXCEPT ![r] = Append(@, <<d, state>>)]

MoveWorker(r, d, step) == worker' = [worker EXCEPT ![r][d] = step]

(* sweep_worker: Connected, then the sweep, or a wait for the stop flag     *)
(* when the round-robin split left this sensor no tile.                     *)
WorkerConnect(r, d) ==
  /\ worker[r][d] = "connect"
  /\ Send(r, d, "Connected")
  /\ MoveWorker(r, d, "sweep") \/ MoveWorker(r, d, "park")
  /\ UNCHANGED <<catalog, manager, device, stopFlag, dwells, dsp, reporter,
                 lastStatus, path>>

WorkerPark(r, d) ==
  /\ worker[r][d] = "park"
  /\ stopFlag[r]
  /\ MoveWorker(r, d, "exit")
  /\ UNCHANGED <<catalog, manager, device, stopFlag, pipeline, path>>

(* The head of the tile loop: leave on stop, else retune. *)
WorkerSweep(r, d) ==
  /\ worker[r][d] = "sweep"
  /\ \/ /\ stopFlag[r]
        /\ MoveWorker(r, d, "exit")
        /\ UNCHANGED statuses
     \/ /\ ~stopFlag[r]
        /\ Send(r, d, "Sweeping")
        /\ MoveWorker(r, d, "fill")
     \/ /\ ~stopFlag[r]
        /\ May("tune")
        /\ Send(r, d, "Error")
        /\ UNCHANGED worker
  /\ UNCHANGED <<catalog, manager, device, stopFlag, dwells, dsp, reporter,
                 lastStatus, path>>

(* Both calls of fill and the dwell they make; `fill` returns early on the  *)
(* stop flag or on a failing read, and then there is no dwell.              *)
WorkerFill(r, d) ==
  /\ worker[r][d] = "fill"
  /\ \/ /\ dsp[r].step # "gone"
        /\ dwells[r] < MaxQueue
        /\ dwells' = [dwells EXCEPT ![r] = @ + 1]
     \/ /\ dsp[r].step = "gone" \/ stopFlag[r] \/ May("tune")
        /\ UNCHANGED dwells
  /\ MoveWorker(r, d, "sweep")
  /\ UNCHANGED <<catalog, manager, device, stopFlag, statuses, dsp, reporter,
                 lastStatus, path>>

(* Mutant: the thread ends without its last message. *)
NoFarewell(r, d) == UNCHANGED statuses
Farewell(r, d) == Send(r, d, "Disconnected")

(* Disconnected is the worker's last message; the thread then drops its     *)
(* senders and its sensor.                                                  *)
WorkerExit(r, d) ==
  /\ worker[r][d] = "exit"
  /\ Farewell(r, d)
  /\ MoveWorker(r, d, "done")
  /\ UNCHANGED <<catalog, manager, device, stopFlag, dwells, dsp, reporter,
                 lastStatus, path>>

----------------------------------------------------------------------------
(* The DSP thread: one dwell in, any number of detections out, each         *)
(* published before the next dwell is received.                             *)
DspReceive(r) ==
  /\ dsp[r] = [step |-> "recv", dets |-> 0]
  /\ dwells[r] > 0
  /\ dwells' = [dwells EXCEPT ![r] = @ - 1]
  /\ \E n \in 0..MaxDets : dsp' = [dsp EXCEPT ![r].dets = n]
  /\ UNCHANGED <<catalog, manager, device, pool, statuses, reporter,
                 lastStatus, path>>

DspPublish(r) ==
  /\ dsp[r].step = "recv"
  /\ dsp[r].dets > 0
  /\ Len(detections) < MaxQueue
  /\ detections' = Append(detections, r)
  /\ dsp' = [dsp EXCEPT ![r].dets = @ - 1]
  /\ UNCHANGED <<catalog, manager, device, pool, dwells, statuses, reporter,
                 lastStatus, writer>>

(* recv fails only when the channel is empty and every sender is dropped. *)
DspExit(r) ==
  /\ dsp[r] = [step |-> "recv", dets |-> 0]
  /\ dwells[r] = 0
  /\ WorkersFinished(r)
  /\ dsp' = [dsp EXCEPT ![r].step = "done"]
  /\ UNCHANGED <<catalog, manager, device, pool, dwells, statuses, reporter,
                 lastStatus, path>>

(* The status thread: upsert_sensor, whose error is ignored, then publish. *)
ReporterReceive(r) ==
  /\ reporter[r] = "recv"
  /\ statuses[r] # <<>>
  /\ LET d == Head(statuses[r])[1]
         state == Head(statuses[r])[2]
     IN /\ \/ sensorRows' = sensorRows \cup {<<missionOf[r], d>>}
           \/ May("catalog") /\ UNCHANGED sensorRows
        /\ lastStatus' = [lastStatus EXCEPT ![r][d] = state]
  /\ statuses' = [statuses EXCEPT ![r] = Tail(@)]
  /\ UNCHANGED <<phase, hasBands, rows, manager, device, pool, dwells, dsp,
                 reporter, path>>

ReporterExit(r) ==
  /\ reporter[r] = "recv"
  /\ statuses[r] = <<>>
  /\ WorkersFinished(r)
  /\ reporter' = [reporter EXCEPT ![r] = "done"]
  /\ UNCHANGED <<catalog, manager, device, pool, dwells, statuses, dsp,
                 lastStatus, path>>

(* The detection writer takes a detection and loads `active`: nobody else   *)
(* reads the channel, so the two are one step.  Without an active mission   *)
(* the detection is discarded.                                              *)
WriterReceive ==
  /\ writer.step = "recv"
  /\ detections # <<>>
  /\ detections' = Tail(detections)
  /\ writer' = IF active = None THEN WriterIdle
               ELSE [step |-> "insert", det |-> Head(detections), target |-> active]
  /\ UNCHANGED <<catalog, manager, device, pool, pipeline>>

(* Mutant: a backlog is filed under the id loaded for its first detection. *)
ReceiveBatch ==
  IF detections = <<>> THEN writer' = WriterIdle /\ UNCHANGED detections
  ELSE /\ writer' = [writer EXCEPT !.det = Head(detections)]
       /\ detections' = Tail(detections)
BackToReceive == writer' = WriterIdle /\ UNCHANGED detections

(* insert_detection under the id loaded before; an error is only logged. *)
WriterInsert ==
  /\ writer.step = "insert"
  /\ \/ rows' = rows \cup {<<writer.target, writer.det>>}
     \/ May("catalog") /\ UNCHANGED rows
  /\ BackToReceive
  /\ UNCHANGED <<phase, hasBands, sensorRows, manager, device, pool, pipeline>>

----------------------------------------------------------------------------
(* open_detected: a thread claims a Detected device, opens it without the   *)
(* lock, and then sets the result, whatever state the device is in by then  *)
(* (only unplugging moves a device that is being opened).                   *)
DeviceClaim(d) ==
  /\ device[d] = "Detected"
  /\ device' = [device EXCEPT ![d] = "Opening"]
  /\ UNCHANGED <<catalog, manager, survey>>

DeviceOpened(d) ==
  /\ device[d] = "Opening" \/ May("hotplug")
  /\ \/ device' = [device EXCEPT ![d] = "Ready"]
     \/ May("open") /\ device' = [device EXCEPT ![d] = "Error"]
  /\ UNCHANGED <<catalog, manager, survey>>

(* set_config with a new sample rate closes a Ready device to re-open it. *)
DeviceReconfigure(d) ==
  /\ May("reconfigure")
  /\ device[d] = "Ready"
  /\ device' = [device EXCEPT ![d] = "Detected"]
  /\ UNCHANGED <<catalog, manager, survey>>

(* detect() finds the device gone, or back.  A worker keeps its sensor. *)
DeviceUnplug(d) ==
  /\ May("hotplug")
  /\ device[d] # "Disconnected"
  /\ device' = [device EXCEPT ![d] = "Disconnected"]
  /\ UNCHANGED <<catalog, manager, survey>>

DevicePlug(d) ==
  /\ device[d] = "Disconnected"
  /\ device' = [device EXCEPT ![d] = "Detected"]
  /\ UNCHANGED <<catalog, manager, survey>>

(* The process dies and is started again: only the catalog survives.  The   *)
(* variables that record the past of a run (missionOf, announced, lastStatus *)
(* and stopFlag) keep their values.                                         *)
Crash ==
  /\ May("crash")
  /\ command' = Idle
  /\ running' = 0
  /\ active' = None
  /\ device' = [d \in Devices |-> "Detected"]
  /\ worker' = [r \in Runs |-> [d \in Devices |->
                  IF worker[r][d] = "none" THEN "none" ELSE "done"]]
  /\ dwells' = [r \in Runs |-> 0]
  /\ statuses' = [r \in Runs |-> <<>>]
  /\ dsp' = [r \in Runs |-> IF r > runs THEN dsp[r]
                              ELSE [step |-> "gone", dets |-> 0]]
  /\ reporter' = [r \in Runs |-> IF r > runs THEN reporter[r] ELSE "gone"]
  /\ detections' = <<>>
  /\ writer' = WriterIdle
  /\ UNCHANGED <<catalog, history, stopFlag, lastStatus>>

----------------------------------------------------------------------------
StartStep == StartLookup \/ StartAllocate \/ StartSpawnDsp \/ StartSpawnStatus
             \/ StartActivate \/ StartSetRunning \/ StartInstall
StopStep == StopSignal \/ StopJoinPool \/ StopJoinPipeline
            \/ StopRelease \/ StopReopen \/ StopSetStopped \/ StopAnnounce
User == StopTake \/ \E m \in Missions : CreateMission(m) \/ StartEnter(m)
Worker(r, d) == WorkerConnect(r, d) \/ WorkerPark(r, d) \/ WorkerSweep(r, d)
                \/ WorkerFill(r, d) \/ WorkerExit(r, d)
Dsp(r) == DspReceive(r) \/ DspPublish(r) \/ DspExit(r)
Reporter(r) == ReporterReceive(r) \/ ReporterExit(r)
Writer == WriterReceive \/ WriterInsert
Opener(d) == DeviceClaim(d) \/ DeviceOpened(d)
Environment ==
  \/ Crash
  \/ \E d \in Devices : DeviceUnplug(d) \/ DevicePlug(d) \/ DeviceReconfigure(d)

Next ==
  \/ User
  \/ StartStep
  \/ StopStep
  \/ \E r \in Runs, d \in Devices : Worker(r, d)
  \/ \E r \in Runs : Dsp(r) \/ Reporter(r)
  \/ Writer
  \/ \E d \in Devices : Opener(d)
  \/ Environment

Spec == Init /\ [][Next]_vars

(* Every thread is scheduled, and a read of a sensor returns (SoapySDR      *)
(* reads have a timeout, the simulation never blocks).  Nothing obliges the *)
(* user to start or to stop a mission, or the environment to do anything.   *)
Fairness ==
  /\ WF_vars(StartStep)
  /\ WF_vars(StopStep)
  /\ \A r \in Runs, d \in Devices : WF_vars(Worker(r, d))
  /\ \A r \in Runs : WF_vars(Dsp(r)) /\ WF_vars(Reporter(r))
  /\ WF_vars(Writer)
  /\ \A d \in Devices : WF_vars(Opener(d))

FairSpec == Spec /\ Fairness

----------------------------------------------------------------------------
CatalogTypeOK ==
  /\ phase \in [Missions -> Phases]
  /\ hasBands \subseteq Missions
  /\ rows \subseteq Missions \X Runs
  /\ sensorRows \subseteq Missions \X Devices

ManagerTypeOK ==
  /\ command \in [step : CommandSteps, mission : Missions \cup {None}, run : 0..MaxRuns]
  /\ running \in 0..MaxRuns
  /\ active \in Missions \cup {None}
  /\ runs \in 0..MaxRuns
  /\ missionOf \in [Runs -> Missions \cup {None}]
  /\ announced \in [Runs -> {"none", "Running", "Stopped"}]

PoolTypeOK ==
  /\ worker \in [Runs -> [Devices -> WorkerSteps]]
  /\ stopFlag \in [Runs -> BOOLEAN]

StatusChannels == [Runs -> Seq(Devices \X SensorStates)]

PipelineTypeOK ==
  /\ dwells \in [Runs -> 0..MaxQueue]
  /\ statuses \in StatusChannels
  /\ dsp \in [Runs -> [step : ReceiverSteps, dets : 0..MaxDets]]
  /\ reporter \in [Runs -> ReceiverSteps]
  /\ lastStatus \in [Runs -> [Devices -> SensorStates \cup {"none"}]]

PathTypeOK ==
  /\ detections \in Seq(Runs)
  /\ writer \in [step : {"recv", "insert"}, det : 0..MaxRuns,
                 target : Missions \cup {None}]

(* Every variable stays within the values the code can give it. *)
TypeOK ==
  /\ CatalogTypeOK
  /\ ManagerTypeOK
  /\ device \in [Devices -> DeviceStates]
  /\ PoolTypeOK
  /\ PipelineTypeOK
  /\ PathTypeOK

ThreadsAlive(r) ==
  \/ ~WorkersFinished(r)
  \/ dsp[r].step = "recv"
  \/ reporter[r] = "recv"

(* Once MissionState(Stopped) is out, the run is over: no thread of it is   *)
(* left, and nothing of it is waiting in a channel to be published later    *)
(* (stop joins the pool before the pipeline, and both before it announces). *)
QuietAfterStopped ==
  \A r \in Runs : announced[r] = "Stopped" =>
    /\ ~ThreadsAlive(r)
    /\ dwells[r] = 0
    /\ statuses[r] = <<>>

(* The last status the UI got for each sensor of a stopped run is the       *)
(* worker's last message, Disconnected: the status channel is drained       *)
(* before the thread that drains it is joined.                              *)
StoppedSensorsReportDisconnected ==
  \A r \in Runs : announced[r] = "Stopped" =>
    \A d \in DevicesOf(r) : lastStatus[r][d] = "Disconnected"

(* rf-mission: "one runs at a time": the threads of two runs never coexist, *)
(* whatever start and stop are in progress.                                 *)
OneRunAtATime ==
  \A r, s \in Runs : ThreadsAlive(r) /\ ThreadsAlive(s) => r = s

(* `active` holds the active MissionId, or -1 for none: outside start and   *)
(* stop it agrees with the mutex's content.                                 *)
ActiveMatchesRunning ==
  At("idle") => active = IF running = 0 THEN None ELSE missionOf[running]

(* Outside start and stop the mutex's content, `active`, the phases in the  *)
(* catalog and the threads tell the same story.                             *)
IdleCoherence ==
  At("idle") =>
    /\ ActiveMatchesRunning
    /\ \A m \in Missions : phase[m] = "Running" <=> m = active
    /\ \A r \in Runs : ThreadsAlive(r) <=> r = running

(* A phase the UI was told of is in the catalog when it re-reads the list:  *)
(* for the last run of each mission, what was announced was persisted       *)
(* before, through failing statements and a restart of the process.         *)
AnnouncedIsPersisted ==
  \A r \in Runs :
    (announced[r] # "none" /\ \A s \in r+1..runs : missionOf[s] # missionOf[r])
      => phase[missionOf[r]] \in {"Stopped", announced[r]}

(* A row never predates its signal: a detection may outlive its run in the  *)
(* channel and be filed under a later run's mission, but never under a      *)
(* mission that only ran before (the writer loads `active` for each one).   *)
AttributionNeverBackwards ==
  \A row \in rows : \E r \in row[2]..runs : missionOf[r] = row[1]

(* rf-types: detections are lossless, "they must reach the catalog".  What  *)
(* the writer takes off the channel it goes on to insert.                   *)
DetectionsReachCatalog ==
  [][Len(detections') < Len(detections) => writer'.step = "insert"]_vars

(* start and stop always return, and release the mutex: stop cannot wait    *)
(* for ever on a worker or on the DSP and status threads.                   *)
CommandsReturn == (command.step \notin {"idle", "poisoned"}) ~> At("idle")

(* Once a stop is under way, the devices it leased become Ready again.      *)
DevicesReturn ==
  \A d \in Devices : (device[d] = "InUse" /\ At("signal")) ~> device[d] = "Ready"

----------------------------------------------------------------------------
(* A device is held by the newest run while it is InUse. *)
Lease == INSTANCE DeviceLease WITH
  MaxLeases <- MaxRuns,
  holder <- [d \in Devices |-> IF device[d] = "InUse" THEN runs ELSE 0],
  streaming <- {s \in Devices \X Runs : worker[s[2]][s[1]] \in AliveSteps},
  granted <- runs

(* Without faults, start and stop implement exclusive leases of devices. *)
ImplementsLease == Lease!Spec
=============================================================================
