------------------------ MODULE SurveyMissionProofs ------------------------
(***************************************************************************)
(* Theorems about SurveyMission, for every set of missions and devices,     *)
(* every bound and every set of faults: the variables keep their types      *)
(* (TypeCorrect), a detection is announced once it is in the catalog        *)
(* (AnnouncedIsPersistedHolds), a stopped mission is silent                 *)
(* (QuietAfterStoppedHolds), and the last word on each of its sensors is    *)
(* Disconnected (LastStatusHolds).                                          *)
(***************************************************************************)
EXTENDS SurveyMission, SequenceTheorems, TLAPS

(* Steps of a command that has opened a run, or taken the one installed. *)
RunSteps == {"spawnDsp", "spawnStatus", "activate", "setRunning", "install",
             "signal", "joinPool", "joinPipeline", "release", "reopen", "setStopped",
             "announceStopped"}

(* TypeOK is not inductive.  A command in progress has a mission and, in    *)
(* the steps above, a run that exists; a run that exists has a mission; the *)
(* writer inserts a detection of a run under the id of a mission; and only  *)
(* an existing run has a status thread.                                     *)
CommandInv ==
  /\ command.step # "idle" => command.mission \in Missions
  /\ command.step \in {"lookup", "allocate"} => runs < MaxRuns
  /\ command.step \in RunSteps => command.run \in 1..runs
  /\ running <= runs
  /\ \A r \in 1..runs : missionOf[r] \in Missions

WriterInv ==
  writer.step = "insert" => writer.det \in Runs /\ writer.target \in Missions

ReporterInv == \A r \in Runs : reporter[r] = "recv" => r <= runs

TypeInv == TypeOK /\ CommandInv /\ WriterInv /\ ReporterInv

LEMMA InitTypeInv == Init => TypeInv
  BY ConstantsAssumption
  DEF Init, TypeInv, TypeOK, CatalogTypeOK, ManagerTypeOK, PoolTypeOK,
      PipelineTypeOK, StatusChannels, PathTypeOK, CommandInv, WriterInv,
      ReporterInv, Runs, Idle,
      WriterIdle, Phases, CommandSteps, DeviceStates, WorkerSteps, AliveSteps,
      ReceiverSteps, SensorStates, RunSteps

----------------------------------------------------------------------------
(* start and stop keep the manager's variables typed, and themselves tied   *)
(* to an existing mission and run.                                          *)
LEMMA ManagerStep ==
  ASSUME ManagerTypeOK, CommandInv, [Next]_vars
  PROVE  ManagerTypeOK' /\ CommandInv'
<1> USE ConstantsAssumption
    DEF ManagerTypeOK, CommandInv, CommandSteps, RunSteps, Runs, At, history
<1>1. CASE UNCHANGED manager
  BY <1>1 DEF manager
<1>2. CASE StopTake
  BY <1>2 DEF StopTake, Store
<1>3. ASSUME NEW m \in Missions, StartEnter(m) PROVE ManagerTypeOK' /\ CommandInv'
  BY <1>3 DEF StartEnter
<1>4. CASE StartLookup
  BY <1>4 DEF StartLookup, Goto, Return, Idle
<1>5. CASE StartAllocate
  <2>1. UNCHANGED <<running, active, announced>> /\ At("allocate")
    BY <1>5 DEF StartAllocate
  <2>2. CASE Return /\ UNCHANGED <<runs, missionOf>>
    BY <2>1, <2>2 DEF Return, Idle
  <2>3. CASE \E spawned \in SUBSET Devices : OpenRun(spawned)
    <3>1. runs' = runs + 1 /\ missionOf' = [missionOf EXCEPT ![runs + 1] = command.mission]
      BY <2>3 DEF OpenRun
    <3>2. \/ command' = [step |-> "spawnDsp", mission |-> command.mission, run |-> runs + 1]
          \/ command' = [command EXCEPT !.step = "poisoned"]
      BY <1>5, <3>1 DEF StartAllocate, Goto
    <3>3. /\ command.mission \in Missions
          /\ runs + 1 \in 1..MaxRuns
      BY <2>1
    <3>4. /\ missionOf' \in [Runs -> Missions \cup {None}]
          /\ \A r \in 1..runs' : missionOf'[r] \in Missions
      BY <3>1, <3>3
    <3>5. /\ command' \in [step : CommandSteps, mission : Missions \cup {None}, run : 0..MaxRuns]
          /\ command'.mission \in Missions
          /\ command'.step \in {"spawnDsp", "poisoned"}
          /\ command'.step = "spawnDsp" => command'.run = runs + 1
      BY <3>2, <3>3
    <3> QED
      BY <2>1, <3>1, <3>3, <3>4, <3>5
  <2> QED
    BY <1>5, <2>2, <2>3 DEF StartAllocate
<1>6. CASE StartSpawnDsp
  BY <1>6 DEF StartSpawnDsp, Goto, Return, Idle
<1>7. CASE StartSpawnStatus
  BY <1>7 DEF StartSpawnStatus, Goto, Return, Idle
<1>8. CASE StartActivate
  BY <1>8 DEF StartActivate, Goto, Store
<1>9. CASE StartSetRunning
  BY <1>9 DEF StartSetRunning, SetPhase, Goto, Return, Idle
<1>10. CASE StartInstall
  BY <1>10 DEF StartInstall, Return, Idle
<1>11. CASE StopSignal
  BY <1>11 DEF StopSignal, Goto
<1>12. CASE StopJoinPool
  BY <1>12 DEF StopJoinPool, Goto
<1>13. CASE StopJoinPipeline
  BY <1>13 DEF StopJoinPipeline, Goto
<1>14. CASE StopRelease
  BY <1>14 DEF StopRelease, Goto
<1>15. CASE StopSetStopped
  BY <1>15 DEF StopSetStopped, SetPhase, Goto, Return, Idle
<1>16. CASE StopAnnounce
  BY <1>16 DEF StopAnnounce, Return, Idle
<1>17. CASE Crash
  <2>1. command' = Idle /\ running' = 0 /\ active' = None /\ UNCHANGED history
    BY <1>17 DEF Crash, history
  <2> QED
    BY <2>1 DEF Idle
<1>18. CASE StopReopen
  BY <1>18 DEF StopReopen, Goto
<1> QED
  BY <1>1, <1>2, <1>3, <1>4, <1>5, <1>6, <1>7, <1>8, <1>9, <1>10, <1>11, <1>12,
     <1>13, <1>14, <1>15, <1>16, <1>17, <1>18
  DEF Next, vars, User, StartStep, StopStep, Worker, Dsp, Reporter, Writer,
      Environment, Opener, CreateMission, WorkerConnect, WorkerPark,
      WorkerSweep, WorkerFill, WorkerExit, DspReceive, DspPublish, DspExit,
      ReporterReceive, ReporterExit, WriterReceive, WriterInsert, DeviceClaim,
      DeviceOpened, DeviceUnplug, DevicePlug, DeviceReconfigure

(* The catalog's tables only hold missions, and sensors of the registry. *)
LEMMA CatalogStep ==
  ASSUME TypeInv, [Next]_vars
  PROVE  CatalogTypeOK'
<1> USE ConstantsAssumption DEF TypeInv, TypeOK, CatalogTypeOK, Phases
<1>1. CASE UNCHANGED catalog
  BY <1>1 DEF catalog
<1>2. ASSUME NEW m \in Missions, CreateMission(m) PROVE CatalogTypeOK'
  BY <1>2 DEF CreateMission
<1>3. CASE StartSetRunning \/ StopSetStopped
  <2>1. command.mission \in Missions
    BY <1>3 DEF StartSetRunning, StopSetStopped, At, CommandInv
  <2> QED
    BY <1>3, <2>1 DEF StartSetRunning, StopSetStopped, SetPhase
<1>4. ASSUME NEW r \in Runs, ReporterReceive(r) PROVE CatalogTypeOK'
  <2>1. missionOf[r] \in Missions
    BY <1>4 DEF ReporterReceive, ReporterInv, CommandInv, ManagerTypeOK, Runs
  <2>2. Head(statuses[r]) \in Devices \X SensorStates
    BY <1>4 DEF ReporterReceive, PipelineTypeOK, StatusChannels
  <2>3. UNCHANGED <<phase, hasBands, rows>>
    BY <1>4 DEF ReporterReceive
  <2>4. sensorRows' \in {sensorRows, sensorRows \cup {<<missionOf[r], Head(statuses[r])[1]>>}}
    BY <1>4 DEF ReporterReceive
  <2> QED
    BY <2>1, <2>2, <2>3, <2>4
<1>5. CASE WriterInsert
  BY <1>5 DEF WriterInsert, WriterInv
<1> QED
  BY <1>1, <1>2, <1>3, <1>4, <1>5
  DEF Next, vars, User, StartStep, StopStep, Worker, Dsp, Reporter, Writer,
      Environment, Opener, StopTake, StartEnter, StartLookup, StartAllocate,
      StartSpawnDsp, StartSpawnStatus, StartActivate, StartInstall, StopSignal,
      StopJoinPool, StopJoinPipeline, StopRelease, StopReopen, StopAnnounce,
      WorkerConnect, WorkerPark, WorkerSweep, WorkerFill, WorkerExit,
      DspReceive, DspPublish, DspExit, ReporterExit, WriterReceive,
      DeviceClaim, DeviceOpened, DeviceUnplug, DevicePlug, DeviceReconfigure,
      Crash, catalog

(* The registry stays a function to device states. *)
LEMMA DeviceStep ==
  ASSUME TypeInv, [Next]_vars
  PROVE  device' \in [Devices -> DeviceStates]
<1> USE DEF TypeInv, TypeOK, DeviceStates
<1>1. CASE UNCHANGED device
  BY <1>1
<1>2. CASE StartAllocate
  BY <1>2 DEF StartAllocate, Allocation
<1>3. CASE StopRelease
  BY <1>3 DEF StopRelease, Release
<1>4. ASSUME NEW d \in Devices, DeviceClaim(d) \/ DeviceOpened(d) \/ DeviceUnplug(d)
                                   \/ DevicePlug(d) \/ DeviceReconfigure(d)
      PROVE  device' \in [Devices -> DeviceStates]
  BY <1>4 DEF DeviceClaim, DeviceOpened, DeviceUnplug, DevicePlug,
      DeviceReconfigure
<1>5. CASE Crash
  BY <1>5 DEF Crash
<1> QED
  BY <1>1, <1>2, <1>3, <1>4, <1>5
  DEF Next, vars, User, StartStep, StopStep, Worker, Dsp, Reporter, Writer,
      Environment, Opener, StopTake, CreateMission, StartEnter, StartLookup,
      StartSpawnDsp, StartSpawnStatus, StartActivate, StartSetRunning,
      StartInstall, StopSignal, StopJoinPool, StopJoinPipeline, StopReopen,
      StopSetStopped, StopAnnounce, WorkerConnect, WorkerPark, WorkerSweep,
      WorkerFill, WorkerExit, DspReceive, DspPublish, DspExit, ReporterReceive,
      ReporterExit, WriterReceive, WriterInsert

(* One worker's move, and one message sent, keep their variables typed. *)
LEMMA MoveWorkerType ==
  ASSUME PoolTypeOK, NEW r \in Runs, NEW d \in Devices, NEW step \in WorkerSteps,
         MoveWorker(r, d, step)
  PROVE  worker' \in [Runs -> [Devices -> WorkerSteps]]
  BY DEF MoveWorker, PoolTypeOK

LEMMA SendType ==
  ASSUME statuses \in StatusChannels, NEW r \in Runs, NEW d \in Devices,
         NEW state \in SensorStates, Send(r, d, state)
  PROVE  statuses' \in StatusChannels
<1> DEFINE T == Devices \X SensorStates
<1>1. statuses \in [Runs -> Seq(T)] /\ <<d, state>> \in T
  BY DEF StatusChannels
<1> HIDE DEF T
<1>2. Append(statuses[r], <<d, state>>) \in Seq(T)
  BY <1>1
<1>3. statuses' \in [Runs -> Seq(T)]
  BY <1>1, <1>2 DEF Send
<1> QED
  BY <1>3 DEF T, StatusChannels

LEMMA DrainType ==
  ASSUME statuses \in StatusChannels, NEW r,
         statuses' = [statuses EXCEPT ![r] = <<>>]
  PROVE  statuses' \in StatusChannels
<1> DEFINE T == Devices \X SensorStates
<1>1. statuses \in [Runs -> Seq(T)] /\ <<>> \in Seq(T)
  BY DEF StatusChannels
<1> HIDE DEF T
<1>2. statuses' \in [Runs -> Seq(T)]
  BY <1>1
<1> QED
  BY <1>2 DEF T, StatusChannels

LEMMA ReceiveType ==
  ASSUME statuses \in StatusChannels, NEW r \in Runs, statuses[r] # <<>>,
         statuses' = [statuses EXCEPT ![r] = Tail(@)]
  PROVE  /\ statuses' \in StatusChannels
         /\ Head(statuses[r]) \in Devices \X SensorStates
<1> DEFINE T == Devices \X SensorStates
<1>1. statuses \in [Runs -> Seq(T)]
  BY DEF StatusChannels
<1> HIDE DEF T
<1>2. Tail(statuses[r]) \in Seq(T) /\ Head(statuses[r]) \in T
  BY <1>1
<1>3. statuses' \in [Runs -> Seq(T)]
  BY <1>1, <1>2
<1> QED
  BY <1>2, <1>3 DEF T, StatusChannels

LEMMA PoolStep ==
  ASSUME TypeInv, [Next]_vars
  PROVE  PoolTypeOK'
<1> USE DEF TypeInv, TypeOK, PoolTypeOK, WorkerSteps, AliveSteps
<1>1. CASE UNCHANGED pool
  BY <1>1 DEF pool
<1>2. CASE StartAllocate
  <2>1. UNCHANGED stopFlag
    BY <1>2 DEF StartAllocate
  <2>2. \/ UNCHANGED worker
        \/ \E D \in SUBSET Devices : OpenRun(D)
    BY <1>2 DEF StartAllocate
  <2>3. ASSUME NEW D \in SUBSET Devices, OpenRun(D)
        PROVE  worker' \in [Runs -> [Devices -> WorkerSteps]]
    <3> DEFINE new == [d \in Devices |-> IF d \in D THEN "connect" ELSE "none"]
    <3>1. new \in [Devices -> WorkerSteps]
      OBVIOUS
    <3>2. worker' = [worker EXCEPT ![runs + 1] = new]
      BY <2>3 DEF OpenRun
    <3> HIDE DEF new
    <3> QED
      BY <3>1, <3>2
  <2> QED
    BY <2>1, <2>2, <2>3
<1>3. CASE StopSignal
  BY <1>3 DEF StopSignal, RaiseStopFlag
<1>4. ASSUME NEW r \in Runs, NEW d \in Devices, Worker(r, d) PROVE PoolTypeOK'
  BY <1>4, MoveWorkerType
  DEF Worker, WorkerConnect, WorkerPark, WorkerSweep, WorkerFill, WorkerExit
<1>5. CASE Crash
  BY <1>5 DEF Crash
<1> QED
  BY <1>1, <1>2, <1>3, <1>4, <1>5
  DEF Next, vars, survey, User, StartStep, StopStep, Dsp, Reporter, Writer,
      Environment, Opener, StopTake, CreateMission, StartEnter, StartLookup,
      StartSpawnDsp, StartSpawnStatus, StartActivate, StartSetRunning,
      StartInstall, StopJoinPool, StopJoinPipeline, StopRelease, StopReopen,
      StopSetStopped, StopAnnounce, DspReceive, DspPublish, DspExit,
      ReporterReceive, ReporterExit, WriterReceive, WriterInsert, DeviceClaim,
      DeviceOpened, DeviceUnplug, DevicePlug, DeviceReconfigure

LEMMA PipelineStep ==
  ASSUME TypeInv, [Next]_vars
  PROVE  PipelineTypeOK'
<1> USE ConstantsAssumption DEF TypeInv, TypeOK, PipelineTypeOK, ReceiverSteps
<1>1. CASE UNCHANGED pipeline
  BY <1>1 DEF pipeline
<1>2. CASE StartAllocate
  <2>1. UNCHANGED <<dwells, statuses, lastStatus>>
    BY <1>2 DEF StartAllocate
  <2>2. CASE UNCHANGED <<dsp, reporter>>
    BY <2>1, <2>2
  <2>3. CASE /\ dsp' = [dsp EXCEPT ![runs + 1].step = "gone"]
             /\ reporter' = [reporter EXCEPT ![runs + 1] = "gone"]
    <3>1. dsp' \in [Runs -> [step : ReceiverSteps, dets : 0..MaxDets]]
      BY <2>3
    <3>2. reporter' \in [Runs -> ReceiverSteps]
      BY <2>3
    <3> QED
      BY <2>1, <3>1, <3>2
  <2> QED
    BY <1>2, <2>2, <2>3 DEF StartAllocate
<1>3. CASE StartSpawnDsp
  <2>1. dsp' \in [Runs -> [step : ReceiverSteps, dets : 0..MaxDets]]
    <3>1. CASE dsp' = [dsp EXCEPT ![command.run].step = "recv"]
      BY <3>1
    <3>2. CASE dsp' = [dsp EXCEPT ![command.run].step = "gone"]
      BY <3>2
    <3> QED
      BY <1>3, <3>1, <3>2 DEF StartSpawnDsp
  <2>2. reporter' \in [Runs -> ReceiverSteps] /\ UNCHANGED lastStatus
    BY <1>3 DEF StartSpawnDsp
  <2>3. statuses' \in StatusChannels
    BY <1>3, DrainType DEF StartSpawnDsp
  <2>4. dwells' \in [Runs -> 0..MaxQueue]
    <3>1. CASE UNCHANGED dwells
      BY <3>1
    <3>2. CASE dwells' = [dwells EXCEPT ![command.run] = 0]
      <4>1. dwells \in [Runs -> 0..MaxQueue] /\ 0 \in 0..MaxQueue
        OBVIOUS
      <4> HIDE DEF TypeInv
      <4> QED
        BY <3>2, <4>1
    <3> QED
      BY <1>3, <3>1, <3>2 DEF StartSpawnDsp
  <2> QED
    BY <2>1, <2>2, <2>3, <2>4
<1>4. CASE StartSpawnStatus
  BY <1>4, DrainType DEF StartSpawnStatus
<1>5. ASSUME NEW r \in Runs, NEW d \in Devices, Worker(r, d) PROVE PipelineTypeOK'
  <2>1. CASE WorkerFill(r, d)
    <3>1. dwells' \in [Runs -> 0..MaxQueue]
      <4>1. CASE UNCHANGED dwells
        BY <4>1
      <4>2. CASE dwells[r] < MaxQueue /\ dwells' = [dwells EXCEPT ![r] = dwells[r] + 1]
        BY <4>2
      <4> QED
        BY <2>1, <4>1, <4>2 DEF WorkerFill
    <3> QED
      BY <2>1, <3>1 DEF WorkerFill
  <2>2. CASE /\ \E state \in SensorStates : Send(r, d, state)
             /\ UNCHANGED <<dwells, dsp, reporter, lastStatus>>
    BY <2>2, SendType
  <2>3. CASE UNCHANGED pipeline
    BY <2>3 DEF pipeline
  <2> QED
    BY <1>5, <2>1, <2>2, <2>3
    DEF Worker, WorkerConnect, WorkerPark, WorkerSweep, WorkerExit, Farewell,
        SensorStates, pipeline
<1>6. ASSUME NEW r \in Runs, Dsp(r) PROVE PipelineTypeOK'
  <2>1. dwells' \in [Runs -> 0..MaxQueue]
    <3>1. CASE UNCHANGED dwells
      BY <3>1
    <3>2. CASE dwells[r] > 0 /\ dwells' = [dwells EXCEPT ![r] = dwells[r] - 1]
      BY <3>2
    <3> QED
      BY <1>6, <3>1, <3>2 DEF Dsp, DspReceive, DspPublish, DspExit
  <2>2. \/ \E n \in 0..MaxDets : dsp' = [dsp EXCEPT ![r].dets = n]
        \/ dsp' = [dsp EXCEPT ![r].step = "done"]
    <3>1. CASE DspReceive(r)
      BY <3>1 DEF DspReceive
    <3>2. CASE DspPublish(r)
      <4>1. dsp[r].dets - 1 \in 0..MaxDets
        BY <3>2 DEF DspPublish
      <4>2. dsp' = [dsp EXCEPT ![r].dets = dsp[r].dets - 1]
        BY <3>2 DEF DspPublish
      <4> QED
        BY <4>1, <4>2
    <3>3. CASE DspExit(r)
      BY <3>3 DEF DspExit
    <3> QED
      BY <1>6, <3>1, <3>2, <3>3 DEF Dsp
  <2>3. dsp' \in [Runs -> [step : ReceiverSteps, dets : 0..MaxDets]]
    <3>1. CASE dsp' = [dsp EXCEPT ![r].step = "done"]
      BY <3>1
    <3>2. ASSUME NEW n \in 0..MaxDets, dsp' = [dsp EXCEPT ![r].dets = n]
          PROVE  dsp' \in [Runs -> [step : ReceiverSteps, dets : 0..MaxDets]]
      BY <3>2
    <3> QED
      BY <2>2, <3>1, <3>2
  <2>4. UNCHANGED <<statuses, reporter, lastStatus>>
    BY <1>6 DEF Dsp, DspReceive, DspPublish, DspExit
  <2> QED
    BY <2>1, <2>3, <2>4
<1>7. ASSUME NEW r \in Runs, Reporter(r) PROVE PipelineTypeOK'
  <2>1. CASE ReporterReceive(r)
    <3>1. statuses' \in StatusChannels /\ Head(statuses[r]) \in Devices \X SensorStates
      BY <2>1, ReceiveType DEF ReporterReceive
    <3>2. lastStatus' = [lastStatus EXCEPT ![r][Head(statuses[r])[1]] = Head(statuses[r])[2]]
      BY <2>1 DEF ReporterReceive
    <3>3. lastStatus' \in [Runs -> [Devices -> SensorStates \cup {"none"}]]
      BY <3>1, <3>2
    <3> QED
      BY <2>1, <3>1, <3>3 DEF ReporterReceive
  <2>2. CASE ReporterExit(r)
    BY <2>2 DEF ReporterExit
  <2> QED
    BY <1>7, <2>1, <2>2 DEF Reporter
<1>8. CASE Crash
  <2>1. statuses' \in StatusChannels
    BY <1>8 DEF Crash, StatusChannels
  <2> QED
    BY <1>8, <2>1 DEF Crash
<1> QED
  BY <1>1, <1>2, <1>3, <1>4, <1>5, <1>6, <1>7, <1>8
  DEF Next, vars, survey, User, StartStep, StopStep, Writer, Environment,
      Opener, StopTake, CreateMission, StartEnter, StartLookup, StartActivate,
      StartSetRunning, StartInstall, StopSignal, StopJoinPool,
      StopJoinPipeline, StopRelease, StopReopen, StopSetStopped, StopAnnounce,
      WriterReceive, WriterInsert, DeviceClaim, DeviceOpened, DeviceUnplug,
      DevicePlug, DeviceReconfigure

(* Only detections of existing runs are in the lossless path, and the       *)
(* writer holds one only together with the id of a mission.                 *)
LEMMA PathStep ==
  ASSUME TypeInv, [Next]_vars
  PROVE  PathTypeOK' /\ WriterInv'
<1> USE ConstantsAssumption DEF TypeInv, TypeOK, PathTypeOK, WriterInv, Runs
<1>1. CASE UNCHANGED path
  BY <1>1 DEF path
<1>2. ASSUME NEW r \in Runs, DspPublish(r) PROVE PathTypeOK' /\ WriterInv'
  BY <1>2 DEF DspPublish
<1>3. CASE WriterReceive
  <2>1. Head(detections) \in Runs /\ detections' \in Seq(Runs)
    BY <1>3 DEF WriterReceive
  <2>2. CASE active = None
    BY <1>3, <2>1, <2>2 DEF WriterReceive, WriterIdle
  <2>3. CASE active # None
    <3>1. active \in Missions
      BY <2>3 DEF ManagerTypeOK
    <3>2. writer' = [step |-> "insert", det |-> Head(detections), target |-> active]
      BY <1>3, <2>3 DEF WriterReceive
    <3> QED
      BY <2>1, <3>1, <3>2
  <2> QED
    BY <2>2, <2>3
<1>4. CASE WriterInsert
  BY <1>4 DEF WriterInsert, BackToReceive, WriterIdle
<1>5. CASE Crash
  <2>1. detections' = <<>> /\ writer' = WriterIdle
    BY <1>5 DEF Crash
  <2> QED
    BY <2>1 DEF WriterIdle
<1> QED
  BY <1>1, <1>2, <1>3, <1>4, <1>5
  DEF Next, vars, survey, User, StartStep, StopStep, Worker, Dsp, Reporter,
      Writer, Environment, Opener, StopTake, CreateMission, StartEnter,
      StartLookup, StartAllocate, StartSpawnDsp, StartSpawnStatus,
      StartActivate, StartSetRunning, StartInstall, StopSignal, StopJoinPool,
      StopJoinPipeline, StopRelease, StopReopen, StopSetStopped, StopAnnounce,
      WorkerConnect, WorkerPark, WorkerSweep, WorkerFill, WorkerExit,
      DspReceive, DspExit, ReporterReceive, ReporterExit, DeviceClaim,
      DeviceOpened, DeviceUnplug, DevicePlug, DeviceReconfigure

(* Runs are only ever opened, one at a time. *)
LEMMA RunsGrow ==
  ASSUME TypeInv, [Next]_vars
  PROVE  runs' \in Nat /\ runs' >= runs
<1> USE DEF TypeInv, TypeOK, ManagerTypeOK
<1>1. runs' \in {runs, runs + 1}
  BY DEF Next, vars, manager, history, User, StartStep, StopStep, Worker, Dsp,
         Reporter, Writer, Environment, Opener, StopTake, CreateMission,
         StartEnter, StartLookup, StartAllocate, OpenRun, StartSpawnDsp,
         StartSpawnStatus, StartActivate, StartSetRunning, StartInstall,
         StopSignal, StopJoinPool, StopJoinPipeline, StopRelease, StopReopen,
         StopSetStopped, StopAnnounce, WorkerConnect, WorkerPark, WorkerSweep,
         WorkerFill, WorkerExit, DspReceive, DspPublish, DspExit,
         ReporterReceive, ReporterExit, WriterReceive, WriterInsert,
         DeviceClaim, DeviceOpened, DeviceUnplug, DevicePlug,
         DeviceReconfigure, Crash
<1> QED
  BY <1>1

LEMMA ReporterStep ==
  ASSUME TypeInv, [Next]_vars
  PROVE  ReporterInv'
<1> USE DEF TypeInv, TypeOK, ManagerTypeOK, PipelineTypeOK, ReporterInv, Runs
<1>1. runs' \in Nat /\ runs' >= runs
  BY RunsGrow
<1>2. ASSUME NEW r \in Runs, reporter'[r] = "recv" PROVE reporter[r] = "recv" \/ r <= runs
  <2>1. CASE UNCHANGED reporter
    BY <1>2, <2>1
  <2>2. CASE StartAllocate
    BY <1>2, <2>2 DEF StartAllocate
  <2>3. CASE StartSpawnDsp
    BY <1>2, <2>3 DEF StartSpawnDsp
  <2>4. CASE StartSpawnStatus
    <3>1. command.run \in 1..runs
      BY <2>4 DEF StartSpawnStatus, CommandInv, At, RunSteps
    <3>2. r # command.run => reporter'[r] = reporter[r]
      BY <2>4 DEF StartSpawnStatus
    <3> QED
      BY <1>2, <3>1, <3>2
  <2>5. ASSUME NEW q \in Runs, ReporterExit(q) PROVE reporter[r] = "recv"
    BY <1>2, <2>5 DEF ReporterExit
  <2>6. CASE Crash
    BY <1>2, <2>6 DEF Crash
  <2> QED
    BY <2>1, <2>2, <2>3, <2>4, <2>5, <2>6
    DEF Next, vars, survey, pipeline, User, StartStep, StopStep, Worker, Dsp,
        Reporter, Writer, Environment, Opener, StopTake, CreateMission,
        StartEnter, StartLookup, StartActivate, StartSetRunning, StartInstall,
        StopSignal, StopJoinPool, StopJoinPipeline, StopRelease, StopReopen,
        StopSetStopped, StopAnnounce, WorkerConnect, WorkerPark, WorkerSweep,
        WorkerFill, WorkerExit, DspReceive, DspPublish, DspExit,
        ReporterReceive, WriterReceive, WriterInsert, DeviceClaim,
        DeviceOpened, DeviceUnplug, DevicePlug, DeviceReconfigure
<1> QED
  BY <1>1, <1>2

LEMMA TypeInvStep == TypeInv /\ [Next]_vars => TypeInv'
  BY ManagerStep, CatalogStep, DeviceStep, PoolStep, PipelineStep, PathStep,
     ReporterStep
  DEF TypeInv, TypeOK

(* Every reachable state is well typed, whatever faults may happen. *)
THEOREM TypeCorrect == Spec => []TypeOK
<1>1. Spec => []TypeInv
  BY InitTypeInv, TypeInvStep, PTL DEF Spec
<1>2. TypeInv => TypeOK
  BY DEF TypeInv
<1> QED
  BY <1>1, <1>2, PTL
----------------------------------------------------------------------------
(* The steps of a start that has opened its run. *)
SpawnSteps == {"spawnDsp", "spawnStatus", "activate", "setRunning", "install"}

(* The actions that change a phase or one of the manager's variables. *)
LEMMA ManagerActions ==
  ASSUME [Next]_vars
  PROVE  \/ UNCHANGED <<phase, manager>>
         \/ \E m \in Missions : CreateMission(m) \/ StartEnter(m)
         \/ StopTake
         \/ StartStep
         \/ StopStep
         \/ Crash
  BY DEF Next, vars, catalog, User, Worker, Dsp,
         Reporter, Writer, Environment, Opener, WorkerConnect, WorkerPark, WorkerSweep,
         WorkerFill, WorkerExit, DspReceive, DspPublish, DspExit,
         ReporterReceive, ReporterExit, WriterReceive, WriterInsert,
         DeviceClaim, DeviceOpened, DeviceUnplug, DevicePlug,
         DeviceReconfigure

(* The run a command works on is its mission's, a start's is the newest,    *)
(* and a run is announced only when it has been opened.                     *)
RunInv ==
  /\ command.step \in SpawnSteps => command.run = runs /\ announced[runs] = "none"
  /\ command.step \in RunSteps => missionOf[command.run] = command.mission
  /\ \A r \in Runs : r > runs => announced[r] = "none"

(* What a command is about to announce is in the catalog. *)
PhaseInv ==
  /\ command.step = "install" => phase[command.mission] = "Running"
  /\ command.step = "announceStopped" => phase[command.mission] = "Stopped"

LEMMA InitRunInv == Init => RunInv /\ PhaseInv /\ AnnouncedIsPersisted
  BY DEF Init, RunInv, PhaseInv, AnnouncedIsPersisted, Idle, SpawnSteps, RunSteps

(* No command changes its run or its mission, and a start opens the next run. *)
LEMMA RunInvStep ==
  ASSUME TypeInv, RunInv, [Next]_vars
  PROVE  RunInv'
<1> USE DEF TypeInv, TypeOK, ManagerTypeOK, CommandInv, RunInv, RunSteps,
            SpawnSteps, Runs, At, history
<1>1. CASE UNCHANGED <<phase, manager>>
  BY <1>1 DEF manager
<1>2. ASSUME NEW m \in Missions, CreateMission(m) \/ StartEnter(m) PROVE RunInv'
  <2>1. CASE CreateMission(m)
    BY <2>1 DEF CreateMission, manager
  <2>2. CASE StartEnter(m)
    BY <2>2 DEF StartEnter
  <2> QED
    BY <1>2, <2>1, <2>2
<1>3. CASE StopTake
  BY <1>3 DEF StopTake
<1>4. CASE StartAllocate
  <2>1. UNCHANGED announced /\ At("allocate") /\ runs < MaxRuns
    BY <1>4 DEF StartAllocate
  <2>2. CASE Return /\ UNCHANGED <<runs, missionOf>>
    BY <2>1, <2>2 DEF Return, Idle
  <2>3. CASE \E spawned \in SUBSET Devices : OpenRun(spawned)
    <3>1. runs' = runs + 1 /\ missionOf' = [missionOf EXCEPT ![runs + 1] = command.mission]
      BY <2>3 DEF OpenRun
    <3>2. \/ command' = [step |-> "spawnDsp", mission |-> command.mission, run |-> runs + 1]
          \/ command' = [command EXCEPT !.step = "poisoned"]
      BY <1>4, <3>1 DEF StartAllocate, Goto
    <3>3. runs + 1 \in Runs /\ announced[runs + 1] = "none"
      BY <2>1, ConstantsAssumption
    <3>4. missionOf'[runs + 1] = command.mission
      BY <3>1, <3>3
    <3> QED
      BY <2>1, <3>1, <3>2, <3>3, <3>4
  <2> QED
    BY <1>4, <2>2, <2>3 DEF StartAllocate
<1>5. CASE StartInstall
  BY <1>5 DEF StartInstall, Return, Idle
<1>6. CASE StopAnnounce
  BY <1>6 DEF StopAnnounce, Return, Idle
<1>7. CASE Crash
  BY <1>7 DEF Crash, Idle
<1>8. CASE /\ UNCHANGED history
           /\ \/ Return
              \/ /\ command'.run = command.run /\ command'.mission = command.mission
                 /\ command'.step \in SpawnSteps => command.step \in SpawnSteps
                 /\ command'.step \in RunSteps => command.step \in RunSteps
  BY <1>8 DEF Return, Idle
<1>9. CASE StartStep
  BY <1>4, <1>5, <1>8, <1>9
  DEF StartStep, StartLookup, StartSpawnDsp, StartSpawnStatus, StartActivate,
      StartSetRunning, SetPhase, Goto
<1>10. CASE StopStep
  BY <1>6, <1>8, <1>10
  DEF StopStep, StopSignal, StopJoinPool, StopJoinPipeline, StopRelease,
      StopReopen, StopSetStopped, SetPhase, Goto
<1> QED
  BY <1>1, <1>2, <1>3, <1>7, <1>9, <1>10, ManagerActions

(* AnnouncedIsPersisted of one run. *)
Newest(r) == \A s \in r+1..runs : missionOf[s] # missionOf[r]
Persisted(r) ==
  announced[r] # "none" /\ Newest(r) => phase[missionOf[r]] \in {"Stopped", announced[r]}

(* A phase changes only for the mission of the newest run of its mission, or *)
(* to Stopped; an announcement only once the phase is in the catalog.       *)
LEMMA PersistedStep ==
  ASSUME TypeInv, RunInv, PhaseInv, [Next]_vars,
         AnnouncedIsPersisted
  PROVE  PhaseInv' /\ AnnouncedIsPersisted'
<1> USE DEF TypeInv, TypeOK, ManagerTypeOK, CatalogTypeOK, CommandInv, RunSteps,
            SpawnSteps, Runs, At, history
<1>1. \A r \in Runs : Persisted(r)
  BY DEF AnnouncedIsPersisted, Persisted, Newest
<1>2. SUFFICES PhaseInv' /\ \A r \in Runs : Persisted(r)'
  BY DEF AnnouncedIsPersisted, Persisted, Newest
<1>3. CASE UNCHANGED <<phase, manager>>
  BY <1>1, <1>3 DEF manager, PhaseInv, Persisted, Newest
<1>4. CASE UNCHANGED <<phase, history>> /\ command'.step \notin {"install", "announceStopped"}
  BY <1>1, <1>4 DEF PhaseInv, Persisted, Newest
<1>5. ASSUME NEW m \in Missions, CreateMission(m)
      PROVE  PhaseInv' /\ \A r \in Runs : Persisted(r)'
  <2>1. \A n \in Missions : phase[n] # "absent" => phase'[n] = phase[n]
    BY <1>5 DEF CreateMission
  <2>2. UNCHANGED manager
    BY <1>5 DEF CreateMission
  <2>3. PhaseInv'
    BY <2>1, <2>2 DEF PhaseInv, manager
  <2>4. ASSUME NEW r \in Runs, announced[r] # "none", Newest(r)
        PROVE  phase'[missionOf[r]] \in {"Stopped", announced[r]}
    <3>1. missionOf[r] \in Missions
      BY <2>4 DEF RunInv
    <3>2. phase[missionOf[r]] \in {"Stopped", announced[r]}
      BY <1>1, <2>4 DEF Persisted
    <3>3. phase[missionOf[r]] # "absent"
      BY <3>2
    <3> QED
      BY <2>1, <3>1, <3>2, <3>3
  <2> QED
    BY <2>2, <2>3, <2>4 DEF Persisted, Newest, manager
<1>6. CASE StartAllocate
  <2>1. UNCHANGED <<announced, phase>> /\ command'.step \notin {"install", "announceStopped"}
    BY <1>6 DEF StartAllocate, Return, Idle, Goto, catalog
  <2>2. CASE UNCHANGED <<runs, missionOf>>
    BY <1>4, <2>1, <2>2
  <2>3. CASE \E spawned \in SUBSET Devices : OpenRun(spawned)
    <3>1. runs' = runs + 1 /\ missionOf' = [missionOf EXCEPT ![runs + 1] = command.mission]
      BY <2>3 DEF OpenRun
    <3>2. ASSUME NEW r \in Runs, announced[r] # "none", Newest(r)'
          PROVE  phase[missionOf'[r]] \in {"Stopped", announced[r]}
      <4>1. r <= runs
        BY <3>2 DEF RunInv
      <4>2. missionOf'[r] = missionOf[r]
        BY <3>1, <4>1
      <4>3. \A s \in r+1..runs : s \in r+1..runs' /\ missionOf'[s] = missionOf[s]
        BY <3>1
      <4>4. Newest(r)
        BY <3>2, <4>2, <4>3 DEF Newest
      <4> QED
        BY <1>1, <3>2, <4>2, <4>4 DEF Persisted
    <3> QED
      BY <2>1, <3>2 DEF PhaseInv, Persisted
  <2> QED
    BY <1>6, <2>2, <2>3 DEF StartAllocate
<1>7. CASE StartSetRunning
  <2>0. UNCHANGED history /\ At("setRunning")
    BY <1>7 DEF StartSetRunning
  <2>1. CASE UNCHANGED phase /\ Return
    BY <1>4, <2>0, <2>1 DEF Return, Idle
  <2>2. CASE phase' = [phase EXCEPT ![command.mission] = "Running"] /\ Goto("install")
    <3>1. PhaseInv'
      BY <2>0, <2>2 DEF Goto, PhaseInv
    <3>2. ASSUME NEW r \in Runs, announced[r] # "none", Newest(r)
          PROVE  missionOf[r] # command.mission /\ missionOf[r] \in Missions
      <4>1. r < runs /\ missionOf[runs] = command.mission
        BY <2>0, <3>2 DEF RunInv
      <4> QED
        BY <3>2, <4>1 DEF Newest
    <3>3. ASSUME NEW r \in Runs, announced[r] # "none", Newest(r)
          PROVE  phase'[missionOf[r]] \in {"Stopped", announced[r]}
      BY <1>1, <2>2, <3>2, <3>3 DEF Persisted
    <3> QED
      BY <2>0, <3>1, <3>3 DEF Persisted, Newest
  <2> QED
    BY <1>7, <2>1, <2>2 DEF StartSetRunning, SetPhase
<1>8. CASE StopSetStopped
  <2>0. UNCHANGED history /\ At("setStopped")
    BY <1>8 DEF StopSetStopped
  <2>1. CASE UNCHANGED phase /\ Return
    BY <1>4, <2>0, <2>1 DEF Return, Idle
  <2>2. CASE phase' = [phase EXCEPT ![command.mission] = "Stopped"] /\ Goto("announceStopped")
    <3>1. PhaseInv'
      BY <2>0, <2>2 DEF Goto, PhaseInv
    <3>2. ASSUME NEW r \in Runs, announced[r] # "none", Newest(r)
          PROVE  phase'[missionOf[r]] \in {"Stopped", announced[r]}
      <4>1. missionOf[r] \in Missions
        BY <3>2 DEF RunInv
      <4> QED
        BY <1>1, <2>2, <3>2, <4>1 DEF Persisted
    <3> QED
      BY <2>0, <3>1, <3>2 DEF Persisted, Newest
  <2> QED
    BY <1>8, <2>1, <2>2 DEF StopSetStopped, SetPhase
<1>9. CASE StartInstall \/ StopAnnounce
  <2>1. UNCHANGED <<phase, runs, missionOf>> /\ Return
    BY <1>9 DEF StartInstall, StopAnnounce, catalog
  <2>2. /\ command.run \in Runs /\ missionOf[command.run] = command.mission
        /\ announced'[command.run] = phase[command.mission]
    <3>1. command.run \in 1..runs /\ missionOf[command.run] = command.mission
      BY <1>9 DEF StartInstall, StopAnnounce, RunInv
    <3>2. command.run \in Runs
      BY <3>1
    <3>3. CASE StartInstall
      BY <3>1, <3>2, <3>3 DEF StartInstall, PhaseInv
    <3>4. CASE StopAnnounce
      BY <3>1, <3>2, <3>4 DEF StopAnnounce, PhaseInv
    <3> QED
      BY <1>9, <3>1, <3>2, <3>3, <3>4
  <2>3. \A r \in Runs : r # command.run => announced'[r] = announced[r]
    BY <1>9 DEF StartInstall, StopAnnounce
  <2> QED
    BY <1>1, <2>1, <2>2, <2>3 DEF Persisted, Newest, PhaseInv, Return, Idle
<1>10. ASSUME NEW m \in Missions, StartEnter(m)
      PROVE  PhaseInv' /\ \A r \in Runs : Persisted(r)'
  BY <1>4, <1>10 DEF StartEnter, catalog
<1>11. CASE StopTake \/ Crash
  BY <1>4, <1>11 DEF StopTake, Crash, catalog, Idle
<1>12. CASE StartStep
  BY <1>4, <1>6, <1>7, <1>9, <1>12
  DEF StartStep, StartLookup, StartSpawnDsp, StartSpawnStatus, StartActivate,
      Goto, Return, Idle, catalog
<1>13. CASE StopStep
  BY <1>4, <1>8, <1>9, <1>13
  DEF StopStep, StopSignal, StopJoinPool, StopJoinPipeline, StopRelease,
      StopReopen, Goto, catalog
<1> QED
  BY <1>3, <1>5, <1>10, <1>11, <1>12, <1>13, ManagerActions

(* Whatever was announced of the last run of a mission was persisted before, *)
(* whatever statements fail and whenever the process is restarted.          *)
THEOREM AnnouncedIsPersistedHolds == Spec => []AnnouncedIsPersisted
<1>1. Init => TypeInv /\ RunInv /\ PhaseInv /\ AnnouncedIsPersisted
  BY InitTypeInv, InitRunInv
<1>2. TypeInv /\ RunInv /\ PhaseInv /\ AnnouncedIsPersisted /\ [Next]_vars
        => (TypeInv /\ RunInv /\ PhaseInv /\ AnnouncedIsPersisted)'
  BY TypeInvStep, RunInvStep, PersistedStep
<1> QED
  BY <1>1, <1>2, PTL DEF Spec

----------------------------------------------------------------------------
(* A stopped mission is silent.  It is the order of stop (signal, join the  *)
(* pool, join the pipeline, announce) that makes it so, and the invariants  *)
(* follow the joined threads from the command's step to the announcement.   *)

(* What QuietAfterStopped says of one run. *)
Over(r) ==
  /\ ~ThreadsAlive(r)
  /\ dwells[r] = 0
  /\ statuses[r] = <<>>

(* A run that has not been opened has no thread and no message. *)
Unopened(r) ==
  /\ \A d \in Devices : worker[r][d] = "none"
  /\ dsp[r].step = "none"
  /\ reporter[r] = "none"
  /\ dwells[r] = 0
  /\ statuses[r] = <<>>
  /\ announced[r] = "none"

JoinedSteps == {"release", "reopen", "setStopped", "announceStopped"}

(* QuietAfterStopped is not inductive: a finished thread must also have     *)
(* left its channel empty and its senders gone, and neither a start in      *)
(* progress nor the next run may bring back to life a run announced Stopped. *)
JoinInv(r) ==
  /\ dsp[r].step = "done" => WorkersFinished(r) /\ dwells[r] = 0
  /\ reporter[r] = "done" => WorkersFinished(r) /\ statuses[r] = <<>>

StopInv ==
  /\ \A r \in Runs : r > runs => Unopened(r)
  /\ command.step \in SpawnSteps => announced[command.run] = "none"
  /\ \A r \in Runs : JoinInv(r)
  /\ command.step \in JoinedSteps => Over(command.run)
  /\ \A r \in Runs : announced[r] = "Stopped" => Over(r)

LEMMA InitStopInv == Init => StopInv
  BY DEF Init, StopInv, JoinInv, Unopened, Idle, SpawnSteps, JoinedSteps

(* Each run is left alone by all but its own threads, the command that      *)
(* works on it and a crash.                                                 *)
Untouched(r) ==
  /\ worker'[r] = worker[r]
  /\ dwells'[r] = dwells[r]
  /\ statuses'[r] = statuses[r]
  /\ dsp'[r] = dsp[r]
  /\ reporter'[r] = reporter[r]

OwnStep(r) ==
  \/ \E d \in Devices : Worker(r, d)
  \/ Dsp(r)
  \/ Reporter(r)

SpawnStep(r) ==
  \/ StartAllocate /\ r = runs + 1
  \/ (StartSpawnDsp \/ StartSpawnStatus) /\ r = command.run

LEMMA WhoTouchesARun ==
  ASSUME TypeInv, [Next]_vars, NEW r \in Runs
  PROVE  Untouched(r) \/ OwnStep(r) \/ SpawnStep(r) \/ Crash
<1> USE DEF TypeInv, TypeOK, ManagerTypeOK, PoolTypeOK, PipelineTypeOK,
            StatusChannels, Untouched
<1>1. CASE UNCHANGED <<pool, pipeline>>
  BY <1>1 DEF pool, pipeline
<1>2. CASE StartAllocate
  <2>1. ASSUME r # runs + 1 PROVE Untouched(r)
    <3>1. UNCHANGED <<dwells, statuses>>
      BY <1>2 DEF StartAllocate
    <3>2. worker'[r] = worker[r]
      BY <1>2, <2>1 DEF StartAllocate, OpenRun
    <3>3. dsp'[r] = dsp[r] /\ reporter'[r] = reporter[r]
      BY <1>2, <2>1 DEF StartAllocate
    <3> QED
      BY <3>1, <3>2, <3>3
  <2> QED
    BY <1>2, <2>1 DEF SpawnStep
<1>3. CASE StartSpawnDsp \/ StartSpawnStatus
  BY <1>3 DEF StartSpawnDsp, StartSpawnStatus, SpawnStep, pool
<1>4. CASE StopSignal
  BY <1>4 DEF StopSignal, pipeline
<1>5. ASSUME NEW q \in Runs, NEW d \in Devices, Worker(q, d), q # r
      PROVE  Untouched(r)
  BY <1>5 DEF Worker, WorkerConnect, WorkerPark, WorkerSweep, WorkerFill,
              WorkerExit, Farewell, Send, MoveWorker, pipeline
<1>6. ASSUME NEW q \in Runs, Dsp(q) \/ Reporter(q), q # r PROVE Untouched(r)
  BY <1>6 DEF Dsp, DspReceive, DspPublish, DspExit, Reporter, ReporterReceive,
              ReporterExit, pool
<1> QED
  BY <1>1, <1>2, <1>3, <1>4, <1>5, <1>6
  DEF Next, vars, survey, OwnStep, User, StartStep, StopStep, Writer,
      Environment, Opener, StopTake, CreateMission, StartEnter, StartLookup,
      StartActivate, StartSetRunning, StartInstall, StopJoinPool,
      StopJoinPipeline, StopRelease, StopReopen, StopSetStopped, StopAnnounce,
      WriterReceive, WriterInsert, DeviceClaim, DeviceOpened, DeviceUnplug,
      DevicePlug, DeviceReconfigure

(* A run that is over, or not yet opened, has no thread that could take a   *)
(* step.                                                                    *)
LEMMA QuietRunHasNoStep ==
  ASSUME NEW r \in Runs, Over(r) \/ Unopened(r)
  PROVE  ~OwnStep(r)
  BY DEF Over, Unopened, ThreadsAlive, WorkersFinished, AliveSteps, OwnStep,
         Worker, WorkerConnect, WorkerPark, WorkerSweep, WorkerFill, WorkerExit,
         Dsp, DspReceive, DspPublish, DspExit, Reporter, ReporterReceive,
         ReporterExit

LEMMA OverStays ==
  ASSUME TypeInv, StopInv, [Next]_vars, NEW r \in Runs, Over(r),
         announced[r] # "none" \/ command.step \in JoinedSteps
  PROVE  Over(r)'
<1>1. CASE Untouched(r)
  BY <1>1 DEF Untouched, Over, ThreadsAlive, WorkersFinished
<1>2. CASE SpawnStep(r)
  BY <1>2 DEF SpawnStep, StopInv, Unopened, StartAllocate, StartSpawnDsp,
              StartSpawnStatus, At, SpawnSteps, JoinedSteps, TypeInv, TypeOK,
              ManagerTypeOK
<1>3. CASE Crash
  <2>1. WorkersFinished(r)'
    BY <1>3 DEF Crash, WorkersFinished, AliveSteps
  <2>2. dwells'[r] = 0 /\ statuses'[r] = <<>>
    BY <1>3 DEF Crash
  <2>3. dsp'[r].step # "recv" /\ reporter'[r] # "recv"
    BY <1>3 DEF Crash, Over, ThreadsAlive
  <2> QED
    BY <2>1, <2>2, <2>3 DEF Over, ThreadsAlive
<1> QED
  BY <1>1, <1>2, <1>3, WhoTouchesARun, QuietRunHasNoStep

(* A thread ends only when its channel is empty and its senders are gone,   *)
(* and a channel stays empty once its senders are gone.                     *)
LEMMA JoinInvStep ==
  ASSUME TypeInv, StopInv, [Next]_vars, NEW r \in Runs
  PROVE  JoinInv(r)'
<1> USE DEF JoinInv, TypeInv, TypeOK, PoolTypeOK, PipelineTypeOK
<1>0. JoinInv(r)
  BY DEF StopInv
<1>1. CASE Untouched(r)
  BY <1>0, <1>1 DEF Untouched, WorkersFinished
<1>2. CASE \E d \in Devices : Worker(r, d)
  <2>1. ~WorkersFinished(r)
    BY <1>2 DEF WorkersFinished, AliveSteps, Worker, WorkerConnect, WorkerPark,
                WorkerSweep, WorkerFill, WorkerExit
  <2>2. UNCHANGED <<dsp, reporter>>
    BY <1>2 DEF Worker, WorkerConnect, WorkerPark, WorkerSweep, WorkerFill,
                WorkerExit, pipeline
  <2> QED
    BY <1>0, <2>1, <2>2
<1>3. CASE Dsp(r)
  <2>1. UNCHANGED <<worker, reporter, statuses>>
    BY <1>3 DEF Dsp, DspReceive, DspPublish, DspExit, pool
  <2>2. dsp[r].step = "recv"
    BY <1>3 DEF Dsp, DspReceive, DspPublish, DspExit
  <2>3. dsp'[r].step = "done" => WorkersFinished(r) /\ dwells'[r] = 0
    BY <1>3, <2>2 DEF Dsp, DspReceive, DspPublish, DspExit
  <2> QED
    BY <1>0, <2>1, <2>3 DEF WorkersFinished
<1>4. CASE Reporter(r)
  BY <1>0, <1>4 DEF Reporter, ReporterReceive, ReporterExit, pool,
      WorkersFinished
<1>5. CASE SpawnStep(r) /\ StartAllocate
  <2>1. dsp[r].step = "none" /\ reporter[r] = "none"
    BY <1>5 DEF SpawnStep, StopInv, Unopened, ManagerTypeOK, StartAllocate, At,
                StartSpawnDsp, StartSpawnStatus, Runs
  <2>2. dsp'[r].step # "done" /\ reporter'[r] # "done"
    BY <1>5, <2>1 DEF StartAllocate
  <2> QED
    BY <2>2
<1>6. CASE StartSpawnDsp \/ StartSpawnStatus
  <2>1. UNCHANGED worker
    BY <1>6 DEF StartSpawnDsp, StartSpawnStatus, pool
  <2>2. /\ dsp'[r].step = "done" => dsp[r].step = "done"
        /\ reporter'[r] = "done" => reporter[r] = "done"
    <3>1. CASE StartSpawnDsp
      <4>0. \/ dsp' = [dsp EXCEPT ![command.run].step = "recv"]
            \/ dsp' = [dsp EXCEPT ![command.run].step = "gone"]
        BY <3>1 DEF StartSpawnDsp
      <4>1. dsp'[r].step \in {"recv", "gone", dsp[r].step}
        <5>1. dsp \in [Runs -> [step : ReceiverSteps, dets : 0..MaxDets]]
          OBVIOUS
        <5>2. CASE r = command.run
          BY <4>0, <5>1, <5>2
        <5>3. CASE r # command.run
          BY <4>0, <5>1, <5>3
        <5> QED
          BY <5>2, <5>3
      <4>2. reporter'[r] \in {"gone", reporter[r]}
        BY <3>1 DEF StartSpawnDsp
      <4> QED
        BY <4>1, <4>2
    <3>2. CASE StartSpawnStatus
      <4>1. UNCHANGED dsp /\ reporter'[r] \in {"recv", "gone", reporter[r]}
        BY <3>2 DEF StartSpawnStatus
      <4> QED
        BY <4>1
    <3> QED
      BY <1>6, <3>1, <3>2
  <2>3. /\ dwells[r] = 0 => dwells'[r] = 0
        /\ statuses[r] = <<>> => statuses'[r] = <<>>
    BY <1>6 DEF StartSpawnDsp, StartSpawnStatus, StatusChannels
  <2> QED
    BY <1>0, <2>1, <2>2, <2>3 DEF WorkersFinished
<1>7. CASE Crash
  <2>1. dsp'[r].step # "done"
    BY <1>7 DEF Crash, StopInv, Unopened, ManagerTypeOK, Runs
  <2>2. reporter'[r] # "done"
    BY <1>7 DEF Crash, StopInv, Unopened, ManagerTypeOK, Runs
  <2> QED
    BY <2>1, <2>2
<1> QED
  BY <1>1, <1>2, <1>3, <1>4, <1>5, <1>6, <1>7, WhoTouchesARun
  DEF OwnStep, SpawnStep

LEMMA UnopenedStays ==
  ASSUME TypeInv, StopInv, [Next]_vars, NEW r \in Runs, r > runs'
  PROVE  /\ Untouched(r) \/ Crash
         /\ Unopened(r)
<1> USE DEF TypeInv, TypeOK, ManagerTypeOK
<1>1. r > runs /\ Unopened(r)
  BY RunsGrow DEF StopInv, Runs
<1>2. CASE SpawnStep(r)
  <2>1. CASE StartAllocate
    <3>1. UNCHANGED <<dwells, statuses>>
      BY <2>1 DEF StartAllocate
    <3>2. CASE UNCHANGED <<worker, dsp, reporter>>
      BY <1>1, <3>1, <3>2 DEF Untouched
    <3>3. CASE runs' = runs + 1
      <4>1. r # runs + 1 /\ ~StartSpawnDsp /\ ~StartSpawnStatus
        BY <2>1, <3>3 DEF Runs, StartAllocate, StartSpawnDsp, StartSpawnStatus,
      At
      <4> QED
        BY <1>2, <4>1 DEF SpawnStep
    <3> QED
      BY <2>1, <3>2, <3>3 DEF StartAllocate, OpenRun
  <2>2. CASE StartSpawnDsp \/ StartSpawnStatus
    BY <1>1, <1>2, <2>2
    DEF StartSpawnDsp, StartSpawnStatus, SpawnStep, CommandInv, RunSteps, At,
        StartAllocate, Runs
  <2> QED
    BY <1>2, <2>1, <2>2 DEF SpawnStep
<1> QED
  BY <1>1, <1>2, WhoTouchesARun, QuietRunHasNoStep

(* What a step does to an announcement, and to the command's program point. *)
LEMMA AnnouncedStep ==
  ASSUME [Next]_vars
  PROVE  \/ UNCHANGED announced
         \/ StartInstall
         \/ StopAnnounce
  BY DEF Next, vars, manager, history, User, StartStep, StopStep, Worker, Dsp,
         Reporter, Writer, Environment, Opener, StopTake, CreateMission,
         StartEnter, StartLookup, StartAllocate, StartSpawnDsp,
         StartSpawnStatus, StartActivate, StartSetRunning, StopSignal,
         StopJoinPool, StopJoinPipeline, StopRelease, StopReopen,
         StopSetStopped, WorkerConnect, WorkerPark, WorkerSweep, WorkerFill,
         WorkerExit, DspReceive, DspPublish, DspExit, ReporterReceive,
         ReporterExit, WriterReceive, WriterInsert, DeviceClaim, DeviceOpened,
         DeviceUnplug, DevicePlug, DeviceReconfigure, Crash

LEMMA CommandStep ==
  ASSUME TypeInv, [Next]_vars
  PROVE  \/ UNCHANGED command
         \/ /\ command'.step \in SpawnSteps
            /\ command.step \in SpawnSteps /\ command'.run = command.run
         \/ StartAllocate
         \/ StopJoinPipeline
         \/ /\ command'.step \in JoinedSteps
            /\ command.step \in JoinedSteps /\ command'.run = command.run
         \/ command'.step \notin SpawnSteps \cup JoinedSteps
<1> USE DEF TypeInv, TypeOK, ManagerTypeOK, SpawnSteps, JoinedSteps, At, Goto,
            Return, Idle
<1>1. CASE UNCHANGED command
  BY <1>1
<1>2. CASE StopTake \/ \E m \in Missions : StartEnter(m)
  BY <1>2 DEF StopTake, StartEnter
<1>3. CASE StartStep
  BY <1>3 DEF StartStep, StartLookup, StartSpawnDsp, StartSpawnStatus,
              StartActivate, StartSetRunning, SetPhase, StartInstall
<1>4. CASE StopStep
  BY <1>4 DEF StopStep, StopSignal, StopJoinPool, StopRelease, StopReopen,
      StopSetStopped, SetPhase, StopAnnounce
<1>5. CASE Crash
  BY <1>5 DEF Crash
<1> QED
  BY <1>1, <1>2, <1>3, <1>4, <1>5
  DEF Next, vars, manager, User, Worker, Dsp, Reporter, Writer, Environment,
      Opener, CreateMission, WorkerConnect, WorkerPark, WorkerSweep,
      WorkerFill, WorkerExit, DspReceive, DspPublish, DspExit, ReporterReceive,
      ReporterExit, WriterReceive, WriterInsert, DeviceClaim, DeviceOpened,
      DeviceUnplug, DevicePlug, DeviceReconfigure

LEMMA StopInvStep ==
  ASSUME TypeInv, StopInv, [Next]_vars
  PROVE  StopInv'
<1> USE DEF TypeInv, TypeOK, ManagerTypeOK, Runs
<1>1. ASSUME NEW r \in Runs, r > runs' PROVE Unopened(r)'
  <2>1. Unopened(r) /\ (Untouched(r) \/ Crash)
    BY <1>1, UnopenedStays
  <2>2. announced'[r] = "none"
    <3>1. runs' >= runs /\ r > runs
      BY <1>1, RunsGrow
    <3>2. CASE StartInstall \/ StopAnnounce
      <4>1. command.run \in 1..runs
        BY <3>2 DEF StartInstall, StopAnnounce, CommandInv, RunSteps, At
      <4>2. r # command.run
        BY <3>1, <4>1
      <4>3. announced'[r] = announced[r]
        BY <3>2, <4>2 DEF StartInstall, StopAnnounce
      <4> QED
        BY <2>1, <4>3 DEF Unopened
    <3> QED
      BY <2>1, <3>2, AnnouncedStep DEF Unopened
  <2>3. CASE Crash
    BY <1>1, <2>1, <2>2, <2>3, RunsGrow DEF Crash, Unopened, PoolTypeOK
  <2> QED
    BY <2>1, <2>2, <2>3 DEF Untouched, Unopened
<1>2. ASSUME command'.step \in SpawnSteps PROVE announced'[command'.run] = "none"
  <2>1. CASE StartAllocate
    <3>1. UNCHANGED announced /\ command'.run = runs + 1 /\ runs + 1 \in Runs
      <4>1. UNCHANGED announced /\ runs < MaxRuns
        BY <2>1 DEF StartAllocate, At, CommandInv
      <4>2. command'.step # "idle" /\ command'.step # "poisoned"
        BY <1>2 DEF SpawnSteps
      <4>3. command' = [step |-> "spawnDsp", mission |-> command.mission, run |-> runs + 1]
        BY <2>1, <4>2 DEF StartAllocate, Return, Idle, Goto
      <4> QED
        BY <4>1, <4>3, ConstantsAssumption
    <3> QED
      BY <3>1 DEF StopInv, Unopened
  <2>2. CASE StartInstall \/ StopAnnounce
    BY <1>2, <2>2 DEF StartInstall, StopAnnounce, Return, Idle, SpawnSteps
  <2>3. CASE StopJoinPipeline
    BY <1>2, <2>3 DEF StopJoinPipeline, Goto, SpawnSteps
  <2> QED
    BY <1>2, <2>1, <2>2, <2>3, AnnouncedStep, CommandStep
    DEF StopInv, SpawnSteps, JoinedSteps
<1>3. \A r \in Runs : JoinInv(r)'
  BY JoinInvStep
<1>4. ASSUME command'.step \in JoinedSteps PROVE Over(command.run)'
  <2>1. CASE StopJoinPipeline
    <3>1. command'.run = command.run /\ command.run \in Runs
      BY <2>1 DEF StopJoinPipeline, Goto, At, CommandInv, RunSteps
    <3>2. Over(command.run)
      BY <2>1, <3>1
      DEF StopJoinPipeline, PipelineFinished, StopInv, JoinInv, Over,
          ThreadsAlive
    <3>3. UNCHANGED <<pool, pipeline>>
      BY <2>1 DEF StopJoinPipeline, survey
    <3> QED
      BY <3>1, <3>2, <3>3 DEF Over, ThreadsAlive, WorkersFinished, pool,
      pipeline
  <2>2. CASE command.step \in JoinedSteps /\ command'.run = command.run
    <3>1. command.run \in Runs
      BY <2>2 DEF CommandInv, RunSteps, JoinedSteps
    <3>2. Over(command.run)'
      BY <2>2, <3>1, OverStays DEF StopInv
    <3> QED
      BY <2>2, <3>2 DEF Over, ThreadsAlive, WorkersFinished
  <2>3. CASE StartAllocate
    BY <1>4, <2>3 DEF StartAllocate, JoinedSteps, Return, Idle, Goto
  <2> QED
    BY <1>4, <2>1, <2>2, <2>3, CommandStep DEF SpawnSteps, JoinedSteps
<1>5. ASSUME NEW r \in Runs, announced'[r] = "Stopped" PROVE Over(r)'
  <2>1. CASE announced[r] = "Stopped"
    BY <2>1, OverStays DEF StopInv
  <2>2. CASE announced[r] # "Stopped"
    <3>1. StopAnnounce /\ r = command.run
      BY <1>5, <2>2, AnnouncedStep DEF StartInstall, StopAnnounce
    <3> QED
      BY <3>1, OverStays DEF StopAnnounce, At, StopInv, JoinedSteps
  <2> QED
    BY <2>1, <2>2
<1> QED
  BY <1>1, <1>2, <1>3, <1>4, <1>5 DEF StopInv

(* Once MissionState(Stopped) is published for a run, no thread of it is    *)
(* alive and nothing of it is left in a channel, whatever faults happen.    *)
THEOREM QuietAfterStoppedHolds == Spec => []QuietAfterStopped
<1>1. Init => TypeInv /\ StopInv
  BY InitTypeInv, InitStopInv
<1>2. TypeInv /\ StopInv /\ [Next]_vars => (TypeInv /\ StopInv)'
  BY TypeInvStep, StopInvStep
<1>3. TypeInv /\ StopInv => QuietAfterStopped
  BY DEF StopInv, QuietAfterStopped, Over
<1> QED
  BY <1>1, <1>2, <1>3, PTL DEF Spec
----------------------------------------------------------------------------
(* The last word on every sensor of a stopped run: theorem LastStatusHolds. *)

(* Of sensor d the channel q holds nothing; its last message is the farewell. *)
Silent(q, d) == \A i \in 1..Len(q) : q[i][1] # d
EndsFor(q, d) ==
  \E i \in 1..Len(q) : /\ q[i] = <<d, "Disconnected">>
                       /\ \A j \in i+1..Len(q) : q[j][1] # d

(* How reading and sending change what a channel holds of a sensor. *)
LEMMA SilentTail ==
  ASSUME NEW T, NEW q \in Seq(T), q # <<>>, NEW d, Silent(q, d)
  PROVE  Silent(Tail(q), d) /\ Head(q)[1] # d
  BY DEF Silent

LEMMA EndsForTail ==
  ASSUME NEW T, NEW q \in Seq(T), q # <<>>, NEW d, EndsFor(q, d)
  PROVE  EndsFor(Tail(q), d) \/ (Head(q) = <<d, "Disconnected">> /\ Silent(Tail(q), d))
<1>1. PICK i \in 1..Len(q) : /\ q[i] = <<d, "Disconnected">>
                             /\ \A j \in i+1..Len(q) : q[j][1] # d
  BY DEF EndsFor
<1>2. Len(Tail(q)) = Len(q) - 1 /\ \A j \in 1..Len(q)-1 : Tail(q)[j] = q[j + 1]
  OBVIOUS
<1>3. CASE i = 1
  BY <1>1, <1>2, <1>3 DEF Silent
<1>4. CASE i # 1
  <2>1. i - 1 \in 1..Len(Tail(q)) /\ Tail(q)[i - 1] = <<d, "Disconnected">>
    BY <1>1, <1>2, <1>4
  <2>2. \A j \in (i-1)+1..Len(Tail(q)) : Tail(q)[j][1] # d
    BY <1>1, <1>2, <1>4
  <2> QED
    BY <2>1, <2>2 DEF EndsFor
<1> QED
  BY <1>3, <1>4

LEMMA AppendOther ==
  ASSUME NEW T, NEW q \in Seq(T), NEW x \in T, NEW d, x[1] # d
  PROVE  /\ Silent(q, d) => Silent(Append(q, x), d)
         /\ EndsFor(q, d) => EndsFor(Append(q, x), d)
<1>1. /\ Len(Append(q, x)) = Len(q) + 1
      /\ Append(q, x)[Len(q) + 1] = x
      /\ \A i \in 1..Len(q) : Append(q, x)[i] = q[i]
  OBVIOUS
<1>2. \A i \in 1..Len(q)+1 : i \in 1..Len(q) \/ i = Len(q) + 1
  OBVIOUS
<1>3. Silent(q, d) => Silent(Append(q, x), d)
  BY <1>1, <1>2 DEF Silent
<1>4. ASSUME EndsFor(q, d) PROVE EndsFor(Append(q, x), d)
  <2>1. PICK i \in 1..Len(q) : /\ q[i] = <<d, "Disconnected">>
                               /\ \A j \in i+1..Len(q) : q[j][1] # d
    BY <1>4 DEF EndsFor
  <2>2. i \in 1..Len(Append(q, x)) /\ Append(q, x)[i] = <<d, "Disconnected">>
    BY <1>1, <2>1
  <2>3. \A j \in i+1..Len(Append(q, x)) : Append(q, x)[j][1] # d
    <3> SUFFICES ASSUME NEW j \in i+1..Len(q)+1 PROVE Append(q, x)[j][1] # d
      BY <1>1
    <3>1. j \in i+1..Len(q) \/ j = Len(q) + 1
      OBVIOUS
    <3>2. j \in i+1..Len(q) => j \in 1..Len(q)
      OBVIOUS
    <3> QED
      BY <1>1, <2>1, <3>1, <3>2
  <2> QED
    BY <2>2, <2>3 DEF EndsFor
<1> QED
  BY <1>3, <1>4

LEMMA AppendFarewell ==
  ASSUME NEW T, NEW q \in Seq(T), NEW d, <<d, "Disconnected">> \in T
  PROVE  EndsFor(Append(q, <<d, "Disconnected">>), d)
<1> DEFINE p == Append(q, <<d, "Disconnected">>)
<1>1. Len(p) = Len(q) + 1 /\ p[Len(q) + 1] = <<d, "Disconnected">>
  OBVIOUS
<1>2. Len(q) + 1 \in 1..Len(p) /\ \A j \in Len(q)+1+1..Len(p) : FALSE
  BY <1>1
<1> HIDE DEF p
<1>3. EndsFor(p, d)
  BY <1>1, <1>2 DEF EndsFor
<1> QED
  BY <1>3 DEF p

(* What the page will have heard last of sensor d, once the status thread   *)
(* has drained its channel, is that the sensor is disconnected.             *)
Farewelled(r, d) ==
  \/ lastStatus[r][d] = "Disconnected" /\ Silent(statuses[r], d)
  \/ EndsFor(statuses[r], d)

FarewellInv ==
  \A r \in Runs, d \in Devices :
    worker[r][d] = "done" /\ reporter[r] # "gone" => Farewelled(r, d)

LastWords(r) == \A d \in DevicesOf(r) : lastStatus[r][d] = "Disconnected"

WordsInv ==
  /\ command.step \in JoinedSteps => LastWords(command.run)
  /\ StoppedSensorsReportDisconnected

(* Only a run's own status thread publishes for it. *)
LEMMA LastStatusStep ==
  ASSUME TypeInv, [Next]_vars, NEW r \in Runs
  PROVE  lastStatus'[r] = lastStatus[r] \/ ReporterReceive(r)
<1>1. CASE UNCHANGED lastStatus
  BY <1>1
<1>2. ASSUME NEW q \in Runs, ReporterReceive(q), q # r PROVE lastStatus'[r] = lastStatus[r]
  BY <1>2 DEF ReporterReceive, TypeInv, TypeOK, PipelineTypeOK
<1> QED
  BY <1>1, <1>2
  DEF Next, vars, survey, pipeline, User, StartStep, StopStep, Worker, Dsp, Reporter,
      Writer, Environment, Opener, StopTake, CreateMission, StartEnter,
      StartLookup, StartAllocate, StartSpawnDsp, StartSpawnStatus,
      StartActivate, StartSetRunning, StartInstall, StopSignal, StopJoinPool,
      StopJoinPipeline, StopRelease, StopReopen, StopSetStopped, StopAnnounce,
      WorkerConnect, WorkerPark, WorkerSweep, WorkerFill, WorkerExit,
      DspReceive, DspPublish, DspExit, ReporterExit, WriterReceive, WriterInsert,
      DeviceClaim, DeviceOpened, DeviceUnplug, DevicePlug, DeviceReconfigure,
         Crash

(* Until it is spawned a run's status thread is not there. *)
AwaitInv ==
  command.step \in {"spawnDsp", "spawnStatus"} =>
    command.run \in Runs /\ reporter[command.run] = "none"

LEMMA AwaitInvStep ==
  ASSUME TypeInv, StopInv, AwaitInv, [Next]_vars
  PROVE  AwaitInv'
<1> USE DEF AwaitInv, At
<1>1. CASE command'.step \notin {"spawnDsp", "spawnStatus"}
  BY <1>1
<1>2. CASE UNCHANGED <<command, reporter>>
  BY <1>2
<1>3. ASSUME UNCHANGED command, NEW r \in Runs, Reporter(r) PROVE AwaitInv'
  BY <1>3
  DEF Reporter, ReporterReceive, ReporterExit, TypeInv, TypeOK, PipelineTypeOK
<1>4. CASE StartAllocate
  <2>1. CASE command'.step = "spawnDsp"
    <3>1. command'.run = runs + 1 /\ UNCHANGED reporter
      BY <1>4, <2>1
      DEF StartAllocate, Return, Idle, Goto, TypeInv, TypeOK, ManagerTypeOK
    <3>2. runs + 1 \in Runs /\ Unopened(runs + 1)
      BY <1>4, ConstantsAssumption DEF StartAllocate, StopInv, Runs, TypeInv,
         TypeOK, ManagerTypeOK, CommandInv
    <3> QED
      BY <3>1, <3>2 DEF Unopened
  <2> QED
    BY <1>1, <1>4, <2>1
    DEF StartAllocate, Return, Idle, Goto, TypeInv, TypeOK, ManagerTypeOK
<1>5. CASE StartSpawnDsp
  BY <1>5 DEF StartSpawnDsp, Return, Idle, Goto, TypeInv, TypeOK, ManagerTypeOK
<1>6. CASE StartStep
  BY <1>1, <1>4, <1>5, <1>6
  DEF StartStep, StartLookup, StartSpawnStatus, StartActivate, StartSetRunning,
      SetPhase, StartInstall, Return, Idle, Goto, TypeInv, TypeOK, ManagerTypeOK
<1>7. CASE StopStep
  BY <1>1, <1>7
  DEF StopStep, StopSignal, StopJoinPool, StopJoinPipeline, StopRelease,
      StopReopen, StopSetStopped, SetPhase, StopAnnounce, Return, Idle, Goto,
      TypeInv, TypeOK, ManagerTypeOK
<1>8. CASE StopTake \/ Crash \/ \E m \in Missions : StartEnter(m)
  BY <1>1, <1>8 DEF StopTake, Crash, StartEnter, Idle
<1> QED
  BY <1>2, <1>3, <1>6, <1>7, <1>8
  DEF Next, vars, manager, survey, pipeline, User, Worker, Dsp, Writer,
      Environment, Opener, CreateMission, WorkerConnect, WorkerPark, WorkerSweep,
      WorkerFill, WorkerExit, DspReceive, DspPublish, DspExit, ReporterReceive,
      ReporterExit, Reporter, WriterReceive, WriterInsert, DeviceClaim,
         DeviceOpened,
      DeviceUnplug, DevicePlug, DeviceReconfigure

(* A worker's farewell stays the last message of its sensor on the way from *)
(* the worker through the channel to the page.                              *)
LEMMA FarewellInvStep ==
  ASSUME TypeInv, StopInv, AwaitInv, FarewellInv, [Next]_vars
  PROVE  FarewellInv'
<1> SUFFICES ASSUME NEW r \in Runs, NEW d \in Devices,
                    worker'[r][d] = "done", reporter'[r] # "gone"
             PROVE  Farewelled(r, d)'
  BY DEF FarewellInv
<1> DEFINE T == Devices \X SensorStates
<1>0. /\ worker \in [Runs -> [Devices -> WorkerSteps]]
      /\ statuses \in [Runs -> Seq(T)]
      /\ lastStatus \in [Runs -> [Devices -> SensorStates \cup {"none"}]]
      /\ reporter \in [Runs -> ReceiverSteps]
  BY DEF TypeInv, TypeOK, PoolTypeOK, PipelineTypeOK, StatusChannels
<1> HIDE DEF T
<1>1. worker[r][d] = "done" /\ reporter[r] # "gone" => Farewelled(r, d)
  BY DEF FarewellInv
<1>2. CASE Untouched(r) /\ lastStatus'[r] = lastStatus[r]
  BY <1>1, <1>2 DEF Untouched, Farewelled
<1>3. ASSUME NEW e \in Devices, Worker(r, e) PROVE Farewelled(r, d)'
  <2>0. UNCHANGED <<lastStatus, reporter>>
    BY <1>3
    DEF Worker, WorkerConnect, WorkerPark, WorkerSweep, WorkerFill, WorkerExit,
        pipeline
  <2>1. CASE e = d
    <3>1. WorkerExit(r, d)
      BY <1>0, <1>3, <2>1
      DEF Worker, WorkerConnect, WorkerPark, WorkerSweep, WorkerFill, MoveWorker
    <3>2. statuses' = [statuses EXCEPT ![r] = Append(@, <<d, "Disconnected">>)]
      BY <2>0, <3>1 DEF WorkerExit, Farewell, Send
    <3>3. statuses'[r] = Append(statuses[r], <<d, "Disconnected">>) /\ statuses[r] \in Seq(T)
      BY <1>0, <3>2
    <3>4. <<d, "Disconnected">> \in T
      BY DEF T, SensorStates
    <3>5. EndsFor(statuses'[r], d)
      BY <3>3, <3>4, AppendFarewell
    <3> QED
      BY <3>5 DEF Farewelled
  <2>2. CASE e # d
    <3>1. worker'[r][d] = worker[r][d]
      BY <1>0, <1>3, <2>2
      DEF Worker, WorkerConnect, WorkerPark, WorkerSweep, WorkerFill,
          WorkerExit, MoveWorker
    <3>2. \/ statuses'[r] = statuses[r]
          \/ \E state \in SensorStates : Send(r, e, state)
      BY <1>3
      DEF Worker, WorkerConnect, WorkerPark, WorkerSweep, WorkerFill, WorkerExit,
         Farewell, pipeline, SensorStates
    <3>3. \/ statuses'[r] = statuses[r]
          \/ \E state \in SensorStates : statuses'[r] = Append(statuses[r], <<e, state>>)
      BY <1>0, <3>2 DEF Send
    <3>4. ASSUME NEW state \in SensorStates, statuses'[r] = Append(statuses[r], <<e, state>>)
          PROVE  Farewelled(r, d)'
      <4>1. <<e, state>> \in T /\ statuses[r] \in Seq(T) /\ <<e, state>>[1] # d
        BY <1>0, <2>2 DEF T
      <4>2. /\ Silent(statuses[r], d) => Silent(statuses'[r], d)
            /\ EndsFor(statuses[r], d) => EndsFor(statuses'[r], d)
        BY <3>4, <4>1, AppendOther
      <4> QED
        BY <1>1, <2>0, <3>1, <4>2 DEF Farewelled
    <3> QED
      BY <1>1, <2>0, <3>1, <3>3, <3>4 DEF Farewelled
  <2> QED
    BY <2>1, <2>2
<1>4. CASE Dsp(r)
  BY <1>1, <1>4 DEF Dsp, DspReceive, DspPublish, DspExit, pool, Farewelled
<1>5. CASE ReporterExit(r)
  BY <1>0, <1>1, <1>5 DEF ReporterExit, pool, Farewelled
<1>6. CASE ReporterReceive(r)
  <2>1. UNCHANGED <<worker, reporter>> /\ statuses[r] # <<>>
    BY <1>6 DEF ReporterReceive, pool
  <2>2. statuses'[r] = Tail(statuses[r]) /\ statuses[r] \in Seq(T)
    BY <1>0, <1>6 DEF ReporterReceive
  <2>3. Head(statuses[r]) \in Devices \X SensorStates
    BY <2>1, <2>2 DEF T
  <2>4. /\ lastStatus'[r][Head(statuses[r])[1]] = Head(statuses[r])[2]
        /\ Head(statuses[r])[1] # d => lastStatus'[r][d] = lastStatus[r][d]
    BY <1>0, <1>6, <2>3 DEF ReporterReceive
  <2>5. CASE lastStatus[r][d] = "Disconnected" /\ Silent(statuses[r], d)
    BY <2>1, <2>2, <2>4, <2>5, SilentTail DEF Farewelled
  <2>6. CASE EndsFor(statuses[r], d)
    <3>1. EndsFor(statuses'[r], d)
             \/ (Head(statuses[r]) = <<d, "Disconnected">> /\ Silent(statuses'[r], d))
      BY <2>1, <2>2, <2>6, EndsForTail
    <3> QED
      BY <2>4, <3>1 DEF Farewelled
  <2> QED
    BY <1>1, <2>1, <2>5, <2>6 DEF Farewelled
<1>7. CASE SpawnStep(r) /\ StartAllocate
  <2>1. worker'[r][d] # "done"
    <3>1. CASE UNCHANGED worker
      BY <1>7, <3>1 DEF SpawnStep, StopInv, Unopened, StartAllocate, At,
          StartSpawnDsp, StartSpawnStatus, TypeInv, TypeOK, ManagerTypeOK
    <3>2. ASSUME NEW D \in SUBSET Devices, OpenRun(D) PROVE worker'[r][d] # "done"
      <4>1. r = runs + 1
        BY <1>7 DEF SpawnStep, StartAllocate, StartSpawnDsp, StartSpawnStatus, At
      <4>2. worker'[r] = [x \in Devices |-> IF x \in D THEN "connect" ELSE "none"]
        BY <1>0, <3>2, <4>1 DEF OpenRun
      <4> QED
        BY <4>2
    <3> QED
      BY <1>7, <3>1, <3>2 DEF StartAllocate
  <2> QED
    BY <2>1
<1>8. CASE SpawnStep(r) /\ (StartSpawnDsp \/ StartSpawnStatus)
  <2>1. UNCHANGED <<worker, lastStatus>> /\ r = command.run
    BY <1>8
    DEF SpawnStep, StartSpawnDsp, StartSpawnStatus, StartAllocate, At, pool
  <2>2. statuses'[r] = statuses[r] \/ reporter'[r] = "gone"
    BY <1>0, <1>8, <2>1 DEF StartSpawnDsp, StartSpawnStatus
  <2>3. reporter[r] # "gone"
    BY <1>8, <2>1 DEF StartSpawnDsp, StartSpawnStatus, At, AwaitInv
  <2> QED
    BY <1>1, <2>1, <2>2, <2>3 DEF Farewelled
<1>9. CASE Crash
  BY <1>9 DEF Crash, StopInv, Unopened, TypeInv, TypeOK, ManagerTypeOK, Runs
<1> QED
  BY <1>2, <1>3, <1>4, <1>5, <1>6, <1>7, <1>8, <1>9, WhoTouchesARun,
     LastStatusStep
  DEF OwnStep, SpawnStep, Reporter

(* The last words on a run that is over do not change. *)
LEMMA LastWordsStay ==
  ASSUME TypeInv, StopInv, [Next]_vars, NEW r \in Runs, Over(r), LastWords(r),
         announced[r] # "none" \/ command.step \in JoinedSteps
  PROVE  LastWords(r)'
<1>1. lastStatus'[r] = lastStatus[r]
  BY LastStatusStep, QuietRunHasNoStep DEF OwnStep, Reporter
<1>2. \A d \in Devices : worker'[r][d] # "none" => worker[r][d] # "none"
  <2>1. CASE Untouched(r)
    BY <2>1 DEF Untouched
  <2>2. CASE SpawnStep(r)
    BY <2>2 DEF SpawnStep, StopInv, Unopened, StartAllocate, StartSpawnDsp,
                StartSpawnStatus, At, SpawnSteps, JoinedSteps, TypeInv, TypeOK,
                ManagerTypeOK
  <2>3. CASE Crash
    BY <2>3 DEF Crash
  <2> QED
    BY <2>1, <2>2, <2>3, WhoTouchesARun, QuietRunHasNoStep
<1> QED
  BY <1>1, <1>2 DEF LastWords, DevicesOf

(* stop announces only after it has joined a status thread that has drained *)
(* its channel.                                                             *)
LEMMA WordsInvStep ==
  ASSUME TypeInv, StopInv, FarewellInv, WordsInv, [Next]_vars
  PROVE  WordsInv'
<1> USE DEF WordsInv
<1>1. ASSUME NEW r \in Runs, command'.step \in JoinedSteps, command'.run = r
      PROVE  LastWords(r)'
  <2>1. CASE StopJoinPipeline
    <3>1. command.run = r
      BY <1>1, <2>1 DEF StopJoinPipeline, Goto, TypeInv, TypeOK, ManagerTypeOK
    <3>2. reporter[r] = "done" /\ WorkersFinished(r) /\ statuses[r] = <<>>
      BY <2>1, <3>1 DEF StopJoinPipeline, PipelineFinished, StopInv, JoinInv
    <3>3. ASSUME NEW d \in Devices, worker[r][d] # "none"
          PROVE  lastStatus[r][d] = "Disconnected"
      <4>1. worker[r][d] = "done"
        BY <3>2, <3>3
        DEF WorkersFinished, TypeInv, TypeOK, PoolTypeOK, WorkerSteps
      <4>2. Farewelled(r, d)
        BY <3>2, <4>1 DEF FarewellInv
      <4> QED
        BY <3>2, <4>2 DEF Farewelled, EndsFor
    <3>4. UNCHANGED <<worker, lastStatus>>
      BY <2>1 DEF StopJoinPipeline, survey, pool, pipeline
    <3> QED
      BY <3>3, <3>4 DEF LastWords, DevicesOf
  <2>2. CASE command.step \in JoinedSteps /\ command'.run = command.run
    BY <1>1, <2>2, LastWordsStay DEF StopInv
  <2>3. CASE StartAllocate
    BY <1>1, <2>3
    DEF StartAllocate, JoinedSteps, Return, Idle, Goto, TypeInv, TypeOK,
        ManagerTypeOK
  <2> QED
    BY <1>1, <2>1, <2>2, <2>3, CommandStep DEF SpawnSteps, JoinedSteps
<1>2. ASSUME NEW r \in Runs, announced'[r] = "Stopped" PROVE LastWords(r)'
  <2>1. CASE announced[r] = "Stopped"
    BY <2>1, LastWordsStay
    DEF StopInv, StoppedSensorsReportDisconnected, LastWords
  <2>2. CASE announced[r] # "Stopped"
    <3>1. StopAnnounce /\ r = command.run
      BY <1>2, <2>2, AnnouncedStep
      DEF StartInstall, StopAnnounce, TypeInv, TypeOK, ManagerTypeOK
    <3> QED
      BY <3>1, LastWordsStay DEF StopAnnounce, At, StopInv, JoinedSteps
  <2> QED
    BY <2>1, <2>2
<1>3. command'.step \in JoinedSteps => command'.run \in Runs
  BY TypeInvStep, ConstantsAssumption
  DEF TypeInv, TypeOK, ManagerTypeOK, CommandInv, JoinedSteps, RunSteps, Runs
<1> QED
  BY <1>1, <1>2, <1>3 DEF StoppedSensorsReportDisconnected, LastWords, DevicesOf

(* The last status published for each sensor of a stopped run is            *)
(* Disconnected, whatever faults happen.                                    *)
THEOREM LastStatusHolds == Spec => []StoppedSensorsReportDisconnected
<1> DEFINE Inv == TypeInv /\ StopInv /\ AwaitInv /\ FarewellInv /\ WordsInv
<1>1. Init => Inv
  <2>1. Init => AwaitInv /\ FarewellInv /\ WordsInv
    BY DEF Init, AwaitInv, FarewellInv, WordsInv, Idle, JoinedSteps,
           StoppedSensorsReportDisconnected
  <2> QED
    BY <2>1, InitTypeInv, InitStopInv
<1>2. Inv /\ [Next]_vars => Inv'
  BY TypeInvStep, StopInvStep, AwaitInvStep, FarewellInvStep, WordsInvStep
<1>3. Inv => StoppedSensorsReportDisconnected
  BY DEF WordsInv
<1> QED
  BY <1>1, <1>2, <1>3, PTL DEF Spec
=============================================================================
