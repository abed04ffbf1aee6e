-------------------------- MODULE SurveyRunProofs --------------------------
(***************************************************************************)
(* How the runs of a survey follow one another: what a detection may be     *)
(* filed under, that one run is under way at a time and that everyone       *)
(* agrees which, and that start, stop and the workers implement exclusive   *)
(* leases of devices.  Unlike those of SurveyMissionProofs these do not     *)
(* hold under every fault: each names those it excludes, and for "catalog"  *)
(* and "spawn" the run survey_failed_start shows why.                       *)
(***************************************************************************)
EXTENDS SurveyMissionProofs

(* Runs keep their missions. *)
LEMMA MissionsStay ==
  ASSUME TypeInv, [Next]_vars, NEW r \in Runs, r <= runs
  PROVE  missionOf'[r] = missionOf[r]
<1> USE ConstantsAssumption DEF TypeInv, TypeOK, ManagerTypeOK, Runs
<1>1. CASE UNCHANGED missionOf
  BY <1>1
<1>2. CASE StartAllocate
  <2>1. \/ UNCHANGED missionOf
        \/ missionOf' = [missionOf EXCEPT ![runs + 1] = command.mission]
    BY <1>2 DEF StartAllocate, OpenRun
  <2>2. r # runs + 1
    OBVIOUS
  <2> QED
    BY <2>1, <2>2
<1> QED
  BY <1>1, <1>2, ManagerActions
  DEF manager, history, CreateMission, StartEnter, StopTake, StartStep, StopStep,
      StartLookup, StartSpawnDsp, StartSpawnStatus, StartActivate,
      StartSetRunning, StartInstall, StopSignal, StopJoinPool,
      StopJoinPipeline, StopRelease, StopReopen, StopSetStopped,
      StopAnnounce, Crash

(* A mission that the detections of a run may be filed under. *)
Backed(mission, run) == \E r \in run..runs : missionOf[r] = mission

(* More runs only add missions to choose from. *)
LEMMA BackedStays ==
  ASSUME TypeInv, [Next]_vars, NEW m, NEW q \in Runs, Backed(m, q)
  PROVE  Backed(m, q)'
<1>1. PICK r \in q..runs : missionOf[r] = m
  BY DEF Backed
<1>2. r \in Runs /\ r <= runs /\ r \in q..runs'
  BY <1>1, RunsGrow, ConstantsAssumption DEF TypeInv, TypeOK, ManagerTypeOK, Runs
<1>3. missionOf'[r] = m
  BY <1>1, <1>2, MissionsStay
<1> QED
  BY <1>2, <1>3 DEF Backed

(* `active` is set only by a start past `activate` or while a mission is    *)
(* installed, and is then the mission of the newest run: no run is opened   *)
(* in between.                                                              *)
ActiveInv ==
  active # None =>
    /\ \/ command.step \in {"setRunning", "install"}
       \/ command.step = "idle" /\ running # 0
    /\ runs \in Runs
    /\ active = missionOf[runs]

(* Only start's last two steps and the installed run keep an `active`.      *)
LEMMA ActiveInvStep ==
  ASSUME "catalog" \notin Faults, TypeInv, RunInv, ActiveInv, [Next]_vars
  PROVE  ActiveInv'
<1> USE DEF TypeInv, TypeOK, ManagerTypeOK, ActiveInv, At, history
<1>1. CASE UNCHANGED <<phase, manager>>
  BY <1>1 DEF manager
<1>2. ASSUME NEW m \in Missions, CreateMission(m) PROVE ActiveInv'
  BY <1>2 DEF CreateMission, manager
<1>3. CASE UNCHANGED <<active, running, history>> /\ active = None
  BY <1>3
<1>4. ASSUME NEW m \in Missions, StartEnter(m) PROVE ActiveInv'
  BY <1>3, <1>4 DEF StartEnter, NothingRunning
<1>5. CASE StopTake \/ Crash
  BY <1>5 DEF StopTake, Store, Crash
<1>6. CASE StartAllocate
  BY <1>6 DEF StartAllocate
<1>7. CASE StartActivate
  <2>1. command.run = runs /\ missionOf[runs] = command.mission /\ runs \in Runs
    BY <1>7 DEF StartActivate, RunInv, SpawnSteps, RunSteps, CommandInv, Runs
  <2> QED
    BY <1>7, <2>1 DEF StartActivate, Store, Goto
<1>8. CASE StartSetRunning
  BY <1>8 DEF StartSetRunning, SetPhase, Goto, May
<1>9. CASE StartInstall
  <2>1. command.run = runs /\ runs \in Runs
    BY <1>9 DEF StartInstall, RunInv, SpawnSteps, CommandInv, RunSteps, Runs
  <2> QED
    BY <1>9, <2>1 DEF StartInstall, Return, Idle, Runs
<1>10. CASE StartLookup \/ StartSpawnDsp \/ StartSpawnStatus
  BY <1>3, <1>10 DEF StartLookup, StartSpawnDsp, StartSpawnStatus
<1>11. CASE StopStep
  BY <1>3, <1>11
  DEF StopStep, StopSignal, StopJoinPool, StopJoinPipeline, StopRelease,
      StopReopen, StopSetStopped, StopAnnounce
<1> QED
  BY <1>1, <1>2, <1>4, <1>5, <1>6, <1>7, <1>8, <1>9, <1>10, <1>11, ManagerActions
  DEF StartStep

(* On the way from the dsp thread to the table no detection is ahead of the *)
(* mission it is filed under.                                               *)
PathInv ==
  /\ \A i \in 1..Len(detections) : detections[i] <= runs
  /\ writer.step = "insert" => Backed(writer.target, writer.det)
  /\ \A row \in rows : Backed(row[1], row[2])

(* The dsp thread of an open run publishes, the writer files under `active`. *)
LEMMA PathInvStep ==
  ASSUME TypeInv, StopInv, ActiveInv, PathInv, [Next]_vars
  PROVE  PathInv'
<1> USE DEF PathInv
<1> DEFINE BackedNext(m, q) == \E r \in q..runs' : missionOf'[r] = m
<1>1. runs \in Nat /\ runs' \in Nat /\ runs' >= runs
  BY RunsGrow DEF TypeInv, TypeOK, ManagerTypeOK
<1>2. \A i \in 1..Len(detections) : detections[i] <= runs'
  <2>1. \A i \in 1..Len(detections) : detections[i] \in Runs
    BY DEF TypeInv, TypeOK, PathTypeOK
  <2> QED
    BY <1>1, <2>1, ConstantsAssumption DEF Runs
<1>3. writer.step = "insert" => BackedNext(writer.target, writer.det)
  BY BackedStays DEF TypeInv, WriterInv, Backed
<1>4. \A row \in rows : Backed(row[1], row[2])'
  <2> SUFFICES ASSUME NEW row \in rows PROVE Backed(row[1], row[2])'
    OBVIOUS
  <2>1. row[2] \in Runs
    BY DEF TypeInv, TypeOK, CatalogTypeOK
  <2> QED
    BY <2>1, BackedStays
<1>5. CASE UNCHANGED <<rows, path>>
  BY <1>2, <1>3, <1>4, <1>5 DEF path, Backed
<1>6. ASSUME NEW r \in Runs, DspPublish(r) PROVE PathInv'
  <2>1. r <= runs
    BY <1>1, <1>6 DEF DspPublish, StopInv, Unopened, Runs
  <2>2. UNCHANGED <<rows, writer, runs>> /\ detections' = Append(detections, r)
    BY <1>6 DEF DspPublish, catalog, manager, history
  <2>3. \A i \in 1..Len(detections') : detections'[i] <= runs
    BY <2>1, <2>2 DEF TypeInv, TypeOK, PathTypeOK
  <2> QED
    BY <1>3, <1>4, <2>2, <2>3 DEF Backed
<1>7. CASE WriterReceive
  <2>1. UNCHANGED <<rows, runs, missionOf>> /\ detections # <<>> /\ detections' = Tail(detections)
    BY <1>7 DEF WriterReceive, catalog, manager, history
  <2>2. \A i \in 1..Len(detections') : detections'[i] <= runs
    BY <2>1 DEF TypeInv, TypeOK, PathTypeOK
  <2>3. writer'.step = "insert" => Backed(writer'.target, writer'.det)
    <3>1. CASE active = None
      BY <1>7, <3>1 DEF WriterReceive, WriterIdle
    <3>2. CASE active # None
      <4>1. writer' = [step |-> "insert", det |-> Head(detections), target |-> active]
        BY <1>7, <3>2 DEF WriterReceive
      <4>2. Head(detections) \in Runs /\ Head(detections) <= runs
        BY <2>1 DEF TypeInv, TypeOK, PathTypeOK
      <4>3. Backed(active, Head(detections))
        BY <1>1, <3>2, <4>2 DEF ActiveInv, Backed, Runs
      <4> QED
        BY <4>1, <4>3
    <3> QED
      BY <3>1, <3>2
  <2> QED
    BY <1>4, <2>1, <2>2, <2>3 DEF Backed
<1>8. CASE WriterInsert
  <2>1. /\ writer' = WriterIdle /\ UNCHANGED <<detections, runs>>
        /\ rows' \in {rows, rows \cup {<<writer.target, writer.det>>}}
    BY <1>8 DEF WriterInsert, BackToReceive, manager, history
  <2>2. BackedNext(writer.target, writer.det)
    BY <1>3, <1>8 DEF WriterInsert
  <2>3. \A row \in rows' : BackedNext(row[1], row[2])
    BY <1>4, <2>1, <2>2 DEF Backed
  <2> QED
    BY <1>2, <2>1, <2>3 DEF WriterIdle, Backed
<1>9. CASE Crash
  BY <1>4, <1>9 DEF Crash, WriterIdle, catalog
<1> QED
  BY <1>5, <1>6, <1>7, <1>8, <1>9
  DEF Next, vars, survey, catalog, User, StartStep, StopStep, Worker, Dsp, Reporter,
      Writer, Environment, Opener, StopTake, CreateMission, StartEnter,
      StartLookup, StartAllocate, StartSpawnDsp, StartSpawnStatus,
      StartActivate, StartSetRunning, StartInstall, StopSignal, StopJoinPool,
      StopJoinPipeline, StopRelease, StopReopen, StopSetStopped, StopAnnounce,
      WorkerConnect, WorkerPark, WorkerSweep, WorkerFill, WorkerExit,
      DspReceive, DspExit, ReporterReceive, ReporterExit, DeviceClaim,
      DeviceOpened, DeviceUnplug, DevicePlug, DeviceReconfigure

(* While the catalog answers, no detection is filed under a mission that    *)
(* only ran before the detection's run, whatever else fails.                *)
THEOREM AttributionNeverBackwardsHolds ==
  ASSUME "catalog" \notin Faults
  PROVE  Spec => []AttributionNeverBackwards
<1> DEFINE Inv == TypeInv /\ RunInv /\ StopInv /\ ActiveInv /\ PathInv
<1>1. Init => Inv
  <2>1. Init => ActiveInv /\ PathInv
    BY DEF Init, ActiveInv, PathInv, WriterIdle
  <2> QED
    BY <2>1, InitTypeInv, InitRunInv, InitStopInv
<1>2. Inv /\ [Next]_vars => Inv'
  BY TypeInvStep, RunInvStep, StopInvStep, ActiveInvStep, PathInvStep
<1>3. Inv => AttributionNeverBackwards
  BY DEF PathInv, Backed, AttributionNeverBackwards
<1> QED
  BY <1>1, <1>2, <1>3, PTL DEF Spec

----------------------------------------------------------------------------
(* Only the installed run, or the one a start or a stop in progress works   *)
(* on, has threads: an error after the pool was started would break this.   *)
BusySteps == SpawnSteps \cup {"signal", "joinPool", "joinPipeline"}
Owned(r) ==
  \/ command.step = "idle" /\ running = r
  \/ command.step \in BusySteps /\ command.run = r

ThreadsInv == \A r \in Runs : ThreadsAlive(r) => Owned(r)

(* Only a spawn brings a thread to life. *)
LEMMA ThreadsAliveStep ==
  ASSUME TypeInv, StopInv, [Next]_vars, NEW r \in Runs, ThreadsAlive(r)'
  PROVE  ThreadsAlive(r) \/ SpawnStep(r)
<1>1. CASE Untouched(r)
  BY <1>1 DEF Untouched, ThreadsAlive, WorkersFinished
<1>2. CASE OwnStep(r)
  BY <1>2
  DEF ThreadsAlive, WorkersFinished, AliveSteps, OwnStep, Worker, WorkerConnect,
      WorkerPark, WorkerSweep, WorkerFill, WorkerExit, Dsp, DspReceive,
      DspPublish, DspExit, Reporter, ReporterReceive, ReporterExit
<1>3. CASE Crash
  <2>1. WorkersFinished(r)'
    BY <1>3 DEF Crash, WorkersFinished, AliveSteps
  <2>2. dsp'[r].step # "recv" /\ reporter'[r] # "recv"
    BY <1>3 DEF Crash, StopInv, Unopened, TypeInv, TypeOK, ManagerTypeOK, Runs
  <2> QED
    BY <2>1, <2>2 DEF ThreadsAlive
<1> QED
  BY <1>1, <1>2, <1>3, WhoTouchesARun

(* A command lets go of a run only by installing it or by joining it.       *)
LEMMA ThreadsInvStep ==
  ASSUME "catalog" \notin Faults, "spawn" \notin Faults,
         TypeInv, StopInv, ThreadsInv, [Next]_vars
  PROVE  ThreadsInv'
<1> SUFFICES ASSUME NEW r \in Runs, ThreadsAlive(r)' PROVE Owned(r)'
  BY DEF ThreadsInv
<1> USE DEF TypeInv, TypeOK, ManagerTypeOK, BusySteps, SpawnSteps, At, Owned
<1>0. Owned(r) \/ SpawnStep(r)
  BY ThreadsAliveStep DEF ThreadsInv
<1>1. CASE SpawnStep(r)
  <2>1. CASE StartAllocate
    <3>1. r = runs + 1
      BY <1>1, <2>1 DEF SpawnStep, StartSpawnDsp, StartSpawnStatus, StartAllocate
    <3>2. CASE command' = [step |-> "spawnDsp", mission |-> command.mission, run |-> runs + 1]
      BY <3>1, <3>2
    <3>3. CASE UNCHANGED <<worker, dsp, reporter>>
      BY <2>1, <3>3 DEF ThreadsAlive, WorkersFinished, ThreadsInv, StartAllocate
    <3> QED
      BY <2>1, <3>2, <3>3 DEF StartAllocate, May
  <2>2. CASE StartSpawnDsp
    BY <1>1, <2>2 DEF SpawnStep, StartSpawnDsp, StartAllocate, May, Goto
  <2>3. CASE StartSpawnStatus
    BY <1>1, <2>3 DEF SpawnStep, StartSpawnStatus, StartAllocate, May, Goto
  <2> QED
    BY <1>1, <2>1, <2>2, <2>3 DEF SpawnStep
<1>2. CASE UNCHANGED manager
  BY <1>0, <1>1, <1>2 DEF manager
<1>3. CASE StopTake
  BY <1>0, <1>1, <1>3 DEF StopTake
<1>4. ASSUME NEW m \in Missions, CreateMission(m) \/ StartEnter(m) PROVE Owned(r)'
  BY <1>0, <1>1, <1>4 DEF CreateMission, StartEnter, NothingRunning, manager, Runs
<1>5. CASE StartStep
  <2>1. CASE StartLookup \/ StartAllocate \/ StartSpawnDsp \/ StartSpawnStatus
    BY <1>0, <1>1, <2>1
    DEF StartLookup, StartAllocate, StartSpawnDsp, StartSpawnStatus, SpawnStep
  <2>2. CASE StartActivate \/ StartSetRunning
    BY <1>0, <1>1, <2>2 DEF StartActivate, StartSetRunning, SetPhase, May, Goto
  <2>3. CASE StartInstall
    BY <1>0, <1>1, <2>3 DEF StartInstall, Return, Idle
  <2> QED
    BY <1>5, <2>1, <2>2, <2>3 DEF StartStep
<1>6. CASE StopStep
  <2>1. CASE StopSignal \/ StopJoinPool
    BY <1>0, <1>1, <2>1 DEF StopSignal, StopJoinPool, Goto
  <2>2. CASE StopJoinPipeline
    <3>1. UNCHANGED survey
      BY <2>2 DEF StopJoinPipeline
    <3>2. ~ThreadsAlive(command.run)
      BY <2>2 DEF StopJoinPipeline, PipelineFinished, StopInv, JoinInv,
         ThreadsAlive, CommandInv, RunSteps, Runs
    <3>3. ThreadsAlive(r)
      BY <3>1 DEF survey, pool, pipeline, ThreadsAlive, WorkersFinished
    <3> QED
      BY <1>0, <1>1, <2>2, <3>2, <3>3 DEF StopJoinPipeline
  <2>3. CASE StopRelease \/ StopReopen \/ StopSetStopped \/ StopAnnounce
    BY <1>0, <1>1, <2>3 DEF StopRelease, StopReopen, StopSetStopped, StopAnnounce
  <2> QED
    BY <1>6, <2>1, <2>2, <2>3 DEF StopStep
<1>7. CASE Crash
  <2>1. WorkersFinished(r)'
    BY <1>7 DEF Crash, WorkersFinished, AliveSteps
  <2>2. dsp'[r].step # "recv" /\ reporter'[r] # "recv"
    BY <1>7 DEF Crash, StopInv, Unopened, Runs
  <2> QED
    BY <2>1, <2>2 DEF ThreadsAlive
<1> QED
  BY <1>2, <1>3, <1>4, <1>5, <1>6, <1>7, ManagerActions

(* "One runs at a time", as long as neither a statement of the catalog nor  *)
(* the creation of a thread fails.                                          *)
THEOREM OneRunAtATimeHolds ==
  ASSUME "catalog" \notin Faults, "spawn" \notin Faults
  PROVE  Spec => []OneRunAtATime
<1> DEFINE Inv == TypeInv /\ StopInv /\ ThreadsInv
<1>1. Init => Inv
  <2>1. Init => ThreadsInv
    BY DEF Init, ThreadsInv, ThreadsAlive, WorkersFinished, AliveSteps
  <2> QED
    BY <2>1, InitTypeInv, InitStopInv
<1>2. Inv /\ [Next]_vars => Inv'
  BY TypeInvStep, StopInvStep, ThreadsInvStep
<1>3. Inv => OneRunAtATime
  BY DEF ThreadsInv, Owned, OneRunAtATime, BusySteps, SpawnSteps
<1> QED
  BY <1>1, <1>2, <1>3, PTL DEF Spec

----------------------------------------------------------------------------
(* Which mission is in `active`, and which is Running in the catalog, at     *)
(* each point of a start or a stop.                                         *)
Installed == IF running = 0 THEN None ELSE missionOf[running]
ActiveMission ==
  CASE command.step = "idle" -> Installed
    [] command.step \in {"setRunning", "install"} -> command.mission
    [] OTHER -> None
RunningMission ==
  CASE command.step = "idle" -> Installed
    [] command.step \in {"install", "signal", "joinPool", "joinPipeline",
                         "release", "reopen", "setStopped"} -> command.mission
    [] OTHER -> None

StoryInv ==
  /\ command.step # "idle" => running = 0
  /\ active = ActiveMission
  /\ \A m \in Missions : phase[m] = "Running" <=> m = RunningMission

(* start and stop change `active` and the phase at their own points only.    *)
LEMMA StoryInvStep ==
  ASSUME Faults \cap {"catalog", "spawn", "crash"} = {},
         TypeInv, RunInv, StoryInv, [Next]_vars
  PROVE  StoryInv'
<1> USE ConstantsAssumption
    DEF TypeInv, TypeOK, ManagerTypeOK, CatalogTypeOK, CommandInv, RunSteps,
        StoryInv, ActiveMission, RunningMission, Installed, At, history, Runs
<1>1. CASE UNCHANGED <<phase, manager>>
  BY <1>1 DEF manager
<1>2. ASSUME NEW m \in Missions, CreateMission(m) PROVE StoryInv'
  BY <1>2 DEF CreateMission, manager
<1>3. ASSUME NEW m \in Missions, StartEnter(m) PROVE StoryInv'
  BY <1>3 DEF StartEnter, NothingRunning, catalog
<1>4. CASE StopTake
  BY <1>4 DEF StopTake, Store, catalog
<1>5. CASE StartLookup
  BY <1>5 DEF StartLookup, Goto, Return, Idle, catalog
<1>6. CASE StartAllocate
  <2>1. UNCHANGED <<active, running, phase>> /\ At("allocate")
    BY <1>6 DEF StartAllocate, catalog
  <2>2. command'.step \in {"idle", "spawnDsp"}
    BY <1>6 DEF StartAllocate, Return, Idle, May
  <2> QED
    BY <2>1, <2>2
<1>7. CASE StartSpawnDsp \/ StartSpawnStatus
  BY <1>7 DEF StartSpawnDsp, StartSpawnStatus, Goto, May, catalog
<1>8. CASE StartActivate
  BY <1>8 DEF StartActivate, Store, Goto, catalog
<1>9. CASE StartSetRunning
  BY <1>9 DEF StartSetRunning, SetPhase, Goto, May
<1>10. CASE StartInstall
  <2>1. missionOf[command.run] = command.mission /\ command.run # 0
    BY <1>10 DEF StartInstall, RunInv
  <2> QED
    BY <1>10, <2>1 DEF StartInstall, Return, Idle, catalog
<1>11. CASE StopSignal \/ StopJoinPool \/ StopJoinPipeline \/ StopRelease \/ StopReopen
  BY <1>11
  DEF StopSignal, StopJoinPool, StopJoinPipeline, StopRelease, StopReopen,
     Goto, catalog
<1>12. CASE StopSetStopped
  BY <1>12 DEF StopSetStopped, SetPhase, Goto, May
<1>13. CASE StopAnnounce
  BY <1>13 DEF StopAnnounce, Return, Idle, catalog
<1>14. ~Crash
  BY DEF Crash, May
<1> QED
  BY <1>1, <1>2, <1>3, <1>4, <1>5, <1>6, <1>7, <1>8, <1>9, <1>10, <1>11, <1>12,
     <1>13, <1>14, ManagerActions
  DEF StartStep, StopStep

(* A run that nobody stopped has workers that work.                         *)
WorkInv ==
  /\ \A r \in Runs : r <= runs => \E d \in Devices : worker[r][d] # "none"
  /\ \A r \in Runs, d \in Devices : worker[r][d] \in {"exit", "done"} => stopFlag[r]
  /\ \A r \in Runs : stopFlag[r] =>
       r <= runs /\ running # r /\ ~(command.step \in SpawnSteps /\ command.run = r)

(* Only stop's signal makes workers end, and only of the run it has taken.  *)
LEMMA WorkInvStep ==
  ASSUME Faults \cap {"catalog", "spawn", "crash"} = {},
         TypeInv, RunInv, StopInv, StoryInv, WorkInv, [Next]_vars
  PROVE  WorkInv'
<1> USE ConstantsAssumption DEF TypeInv, TypeOK, ManagerTypeOK, PoolTypeOK, Runs, At
<1>0. runs' \in Nat /\ runs' >= runs
  BY RunsGrow
<1>1. ~Crash
  BY DEF Crash, May
<1>2. CASE StartAllocate
  <2>1. UNCHANGED <<stopFlag, running>> /\ At("allocate")
    BY <1>2 DEF StartAllocate
  <2>2. CASE Return /\ UNCHANGED <<runs, worker>>
    BY <2>1, <2>2 DEF WorkInv, Return, Idle, SpawnSteps
  <2>3. ASSUME NEW D \in SUBSET Devices, D # {}, OpenRun(D),
               command' = [step |-> "spawnDsp", mission |-> command.mission, run |-> runs + 1]
        PROVE  WorkInv'
    <3>1. /\ runs' = runs + 1 /\ runs + 1 \in Runs
          /\ worker'[runs + 1] = [d \in Devices |-> IF d \in D THEN "connect" ELSE "none"]
          /\ \A r \in Runs : r # runs + 1 => worker'[r] = worker[r]
      BY <2>1, <2>3 DEF OpenRun, CommandInv
    <3>2. \A r \in Runs : r <= runs' => \E d \in Devices : worker'[r][d] # "none"
      BY <3>1, <2>3 DEF WorkInv
    <3>3. \A r \in Runs, d \in Devices : worker'[r][d] \in {"exit", "done"} => stopFlag[r]
      BY <3>1 DEF WorkInv
    <3>4. \A r \in Runs : stopFlag[r] => r <= runs
      BY DEF WorkInv
    <3> QED
      BY <2>1, <2>3, <3>1, <3>2, <3>3, <3>4 DEF WorkInv
  <2> QED
    BY <1>2, <2>2, <2>3 DEF StartAllocate, May
<1>3. ASSUME NEW r \in Runs, NEW d \in Devices, Worker(r, d) PROVE WorkInv'
  <2>1. UNCHANGED <<command, running, runs, stopFlag>>
    BY <1>3
    DEF Worker, WorkerConnect, WorkerPark, WorkerSweep, WorkerFill, WorkerExit,
        manager, history
  <2>2. worker[r][d] # "none"
    BY <1>3
    DEF Worker, WorkerConnect, WorkerPark, WorkerSweep, WorkerFill, WorkerExit
  <2>3. UNCHANGED worker \/ \E step \in WorkerSteps \ {"none"} :
           MoveWorker(r, d, step) /\ (step \in {"exit", "done"} => stopFlag[r])
    BY <1>3
    DEF Worker, WorkerConnect, WorkerPark, WorkerSweep, WorkerFill, WorkerExit,
       WorkerSteps, AliveSteps, WorkInv
  <2>4. CASE UNCHANGED worker
    BY <2>1, <2>4 DEF WorkInv
  <2>5. ASSUME NEW step \in WorkerSteps \ {"none"}, MoveWorker(r, d, step),
               step \in {"exit", "done"} => stopFlag[r]
        PROVE  WorkInv'
    <3>1. /\ worker'[r][d] = step
          /\ \A q \in Runs, e \in Devices : <<q, e>> # <<r, d>> => worker'[q][e] = worker[q][e]
      BY <2>5 DEF MoveWorker
    <3>2. \A q \in Runs : q <= runs => \E e \in Devices : worker'[q][e] # "none"
      <4> SUFFICES ASSUME NEW q \in Runs, q <= runs PROVE \E e \in Devices : worker'[q][e] # "none"
        OBVIOUS
      <4>1. PICK e \in Devices : worker[q][e] # "none"
        BY DEF WorkInv
      <4> QED
        BY <3>1, <4>1
    <3>3. \A q \in Runs, e \in Devices : worker'[q][e] \in {"exit", "done"} => stopFlag[q]
      BY <2>5, <3>1 DEF WorkInv
    <3> QED
      BY <2>1, <3>2, <3>3 DEF WorkInv
  <2> QED
    BY <2>3, <2>4, <2>5
<1>4. CASE StopSignal
  <2>1. /\ UNCHANGED <<worker, runs, running>> /\ running = 0
        /\ command'.step = "joinPool" /\ command.run \in 1..runs
        /\ stopFlag' = [stopFlag EXCEPT ![command.run] = TRUE]
    BY <1>4
    DEF StopSignal, RaiseStopFlag, Goto, StoryInv, CommandInv, RunSteps, history
  <2>2. \A r \in Runs : stopFlag'[r] => stopFlag[r] \/ r = command.run
    BY <2>1
  <2>3. \A r \in Runs : stopFlag[r] => stopFlag'[r]
    BY <2>1
  <2> QED
    BY <2>1, <2>2, <2>3 DEF WorkInv, SpawnSteps
<1>5. CASE UNCHANGED <<pool, manager>>
  BY <1>5 DEF pool, manager, history, WorkInv
<1>6. CASE /\ UNCHANGED <<pool, runs>>
           /\ running' = 0 \/ UNCHANGED running
           /\ \/ command'.step \notin SpawnSteps
              \/ command'.run = command.run /\ command.step \in SpawnSteps
  BY <1>6 DEF pool, WorkInv
<1>7. CASE StartInstall
  <2>1. UNCHANGED <<pool, runs>> /\ running' = command.run /\ command'.step = "idle"
    BY <1>7 DEF StartInstall, survey, Return, Idle
  <2>2. ~stopFlag[command.run]
    BY <1>7 DEF StartInstall, WorkInv, SpawnSteps, CommandInv, RunSteps
  <2> QED
    BY <2>1, <2>2 DEF pool, WorkInv, SpawnSteps
<1>8. CASE StartStep
  BY <1>2, <1>6, <1>7, <1>8
  DEF StartStep, StartLookup, StartSpawnDsp, StartSpawnStatus, StartActivate,
      StartSetRunning, SetPhase, Goto, Return, Idle, SpawnSteps, survey, history
<1>9. CASE StopStep
  BY <1>4, <1>6, <1>9
  DEF StopStep, StopJoinPool, StopJoinPipeline, StopRelease, StopReopen,
      StopSetStopped, SetPhase, StopAnnounce, Goto, Return, Idle, SpawnSteps,
      survey, history
<1>10. CASE StopTake \/ \E m \in Missions : CreateMission(m) \/ StartEnter(m)
  BY <1>5, <1>6, <1>10
  DEF StopTake, CreateMission, StartEnter, SpawnSteps, survey, history
<1> QED
  BY <1>1, <1>3, <1>5, <1>8, <1>9, <1>10
  DEF Next, vars, survey, User, Dsp, Reporter, Writer, Environment, Opener,
      DspReceive, DspPublish, DspExit, ReporterReceive, ReporterExit,
      WriterReceive, WriterInsert, DeviceClaim, DeviceOpened, DeviceUnplug,
      DevicePlug, DeviceReconfigure

(* Outside start and stop, the mutex, `active`, the catalog and the threads *)
(* agree on what is running, while no statement and no spawn fails and the  *)
(* process lives.                                                           *)
THEOREM IdleCoherenceHolds ==
  ASSUME Faults \cap {"catalog", "spawn", "crash"} = {}
  PROVE  Spec => []IdleCoherence
<1> DEFINE Inv == /\ TypeInv /\ RunInv /\ StopInv
                  /\ ThreadsInv /\ StoryInv /\ WorkInv
<1>1. Init => Inv
  <2>1. Init => ThreadsInv
    BY DEF Init, ThreadsInv, ThreadsAlive, WorkersFinished, AliveSteps
  <2>2. Init => StoryInv /\ WorkInv
    BY ConstantsAssumption
    DEF Init, StoryInv, WorkInv, ActiveMission, RunningMission, Installed, Idle, Runs
  <2> QED
    BY <2>1, <2>2, InitTypeInv, InitRunInv, InitStopInv
<1>2. Inv /\ [Next]_vars => Inv'
  <2>1. "catalog" \notin Faults /\ "spawn" \notin Faults
    OBVIOUS
  <2> QED
    BY <2>1, TypeInvStep, RunInvStep, StopInvStep, ThreadsInvStep, StoryInvStep,
       WorkInvStep
<1>3. Inv => IdleCoherence
  <2> SUFFICES ASSUME Inv, At("idle") PROVE IdleCoherence
    BY DEF IdleCoherence
  <2>1. ActiveMatchesRunning /\ \A m \in Missions : phase[m] = "Running" <=> m = active
    BY
    DEF StoryInv, ActiveMission, RunningMission, Installed, At,
        ActiveMatchesRunning
  <2>2. ASSUME NEW r \in Runs, ThreadsAlive(r) PROVE r = running
    BY <2>2 DEF ThreadsInv, Owned, BusySteps, SpawnSteps, At
  <2>3. ASSUME NEW r \in Runs, r = running PROVE ThreadsAlive(r)
    <3>1. r <= runs /\ ~stopFlag[r]
      BY <2>3 DEF WorkInv, TypeInv, CommandInv
    <3>2. PICK d \in Devices : worker[r][d] # "none"
      BY <3>1 DEF WorkInv
    <3>3. worker[r][d] \in AliveSteps
      BY <3>1, <3>2 DEF WorkInv, TypeInv, TypeOK, PoolTypeOK, WorkerSteps
    <3> QED
      BY <3>3 DEF ThreadsAlive, WorkersFinished
  <2> QED
    BY <2>1, <2>2, <2>3 DEF IdleCoherence
<1> QED
  BY <1>1, <1>2, <1>3, PTL DEF Spec

----------------------------------------------------------------------------
(* A run holds its devices from the allocation to the release, and it is    *)
(* the newest run: the devices InUse are those its workers were given.      *)
HoldingSteps == BusySteps \cup {"release"}
Holding ==
  \/ command.step = "idle" /\ running # 0
  \/ command.step \in HoldingSteps

UseInv ==
  /\ command.step = "idle" /\ running # 0 => running = runs
  /\ command.step \in HoldingSteps => command.run = runs
  /\ Holding => \A d \in Devices : device[d] = "InUse" <=> worker[runs][d] # "none"
  /\ ~Holding => \A d \in Devices : device[d] # "InUse"

(* Openers and users leave a device that is in use alone, and none becomes  *)
(* so but by an allocation.                                                 *)
LEMMA InUseStep ==
  ASSUME Faults \cap {"hotplug", "crash"} = {}, TypeInv, [Next]_vars
  PROVE  \/ \A d \in Devices : device'[d] = "InUse" <=> device[d] = "InUse"
         \/ StartAllocate
         \/ StopRelease
<1> USE DEF TypeInv, TypeOK, DeviceStates, May
<1>1. CASE UNCHANGED device
  BY <1>1
<1>2. ASSUME NEW x \in Devices, Opener(x) \/ DevicePlug(x) \/ DeviceReconfigure(x)
      PROVE  \A d \in Devices : device'[d] = "InUse" <=> device[d] = "InUse"
  BY <1>2 DEF Opener, DeviceClaim, DeviceOpened, DevicePlug, DeviceReconfigure
<1> QED
  BY <1>1, <1>2
  DEF Next, vars, User, StartStep, StopStep, Worker, Dsp, Reporter, Writer,
      Environment, StopTake, CreateMission, StartEnter, StartLookup,
      StartSpawnDsp, StartSpawnStatus, StartActivate, StartSetRunning,
      StartInstall, StopSignal, StopJoinPool, StopJoinPipeline, StopReopen,
      StopSetStopped, StopAnnounce, WorkerConnect, WorkerPark, WorkerSweep,
      WorkerFill, WorkerExit, DspReceive, DspPublish, DspExit, ReporterReceive,
      ReporterExit, WriterReceive, WriterInsert, DeviceUnplug, Crash

(* Which workers a run was given never changes once it is open. *)
LEMMA CrewStays ==
  ASSUME TypeInv, StopInv, [Next]_vars, NEW r \in Runs, r <= runs, NEW d \in Devices
  PROVE  worker'[r][d] # "none" <=> worker[r][d] # "none"
<1> USE DEF TypeInv, TypeOK, PoolTypeOK, ManagerTypeOK
<1>1. CASE Untouched(r)
  BY <1>1 DEF Untouched
<1>2. ASSUME NEW e \in Devices, Worker(r, e) PROVE worker'[r][d] # "none" <=> worker[r][d] # "none"
  BY <1>2
  DEF Worker, WorkerConnect, WorkerPark, WorkerSweep, WorkerFill, WorkerExit,
      MoveWorker
<1>3. CASE Dsp(r) \/ Reporter(r)
  BY <1>3 DEF Dsp, DspReceive, DspPublish, DspExit, Reporter, ReporterReceive,
     ReporterExit, pool
<1>4. CASE SpawnStep(r)
  <2>1. ~(StartAllocate /\ r = runs + 1)
    BY ConstantsAssumption DEF Runs
  <2> QED
    BY <1>4, <2>1 DEF SpawnStep, StartSpawnDsp, StartSpawnStatus, pool
<1>5. CASE Crash
  BY <1>5 DEF Crash
<1> QED
  BY <1>1, <1>2, <1>3, <1>4, <1>5, WhoTouchesARun DEF OwnStep

(* Devices are taken by StartAllocate and given back by StopRelease only.   *)
LEMMA UseInvStep ==
  ASSUME Faults \cap {"catalog", "spawn", "hotplug", "crash"} = {},
         TypeInv, StopInv, StoryInv, UseInv, [Next]_vars
  PROVE  UseInv'
<1> USE DEF TypeInv, TypeOK, ManagerTypeOK, At
<1> DEFINE OthersKeep == /\ \A d \in Devices : device'[d] = "InUse" <=> device[d] = "InUse"
                         /\ UNCHANGED runs
                         /\ Holding => \A d \in Devices :
                              worker'[runs][d] # "none" <=> worker[runs][d] # "none"
<1>0. ~Crash
  BY DEF Crash, May
<1>1. CASE StartAllocate
  <2>1. /\ ~Holding /\ command.step = "allocate" /\ running = 0 /\ running' = 0
        /\ runs + 1 \in Runs
    BY <1>1, ConstantsAssumption
    DEF StartAllocate, Holding, HoldingSteps, BusySteps, SpawnSteps, StoryInv,
       CommandInv, Runs
  <2>2. \A d \in Devices : device[d] # "InUse"
    BY <2>1 DEF UseInv
  <2>3. PICK got \in SUBSET Devices, failed \in SUBSET Devices :
          /\ Allocation(got, failed)
          /\ \/ got = {} /\ Return /\ UNCHANGED <<runs, worker>>
             \/ /\ got # {} /\ OpenRun(got)
                /\ command' = [step |-> "spawnDsp", mission |-> command.mission, run |-> runs + 1]
    BY <1>1 DEF StartAllocate, May
  <2>4. \A d \in Devices : device'[d] = "InUse" <=> d \in got
    BY <2>2, <2>3 DEF Allocation
  <2>5. CASE got = {} /\ Return /\ UNCHANGED <<runs, worker>>
    BY <2>1, <2>4, <2>5
    DEF UseInv, Holding, Return, Idle, HoldingSteps, BusySteps, SpawnSteps
  <2>6. CASE /\ OpenRun(got)
             /\ command' = [step |-> "spawnDsp", mission |-> command.mission, run |-> runs + 1]
    <3>1. /\ runs' = runs + 1
          /\ worker'[runs + 1] = [d \in Devices |-> IF d \in got THEN "connect" ELSE "none"]
      BY <2>1, <2>6 DEF OpenRun, PoolTypeOK
    <3>2. Holding' /\ command'.step = "spawnDsp" /\ command'.run = runs'
      BY <2>6, <3>1 DEF Holding, HoldingSteps, BusySteps, SpawnSteps
    <3>3. \A d \in Devices : device'[d] = "InUse" <=> worker'[runs'][d] # "none"
      BY <2>4, <3>1
    <3> QED
      BY <3>2, <3>3 DEF UseInv
  <2> QED
    BY <2>3, <2>5, <2>6
<1>2. CASE StopRelease
  <2>1. /\ command.step = "release" /\ command.run = runs /\ Holding
        /\ UNCHANGED <<runs, running>> /\ running = 0 /\ command'.step = "reopen"
    BY <1>2
    DEF StopRelease, UseInv, HoldingSteps, Holding, StoryInv, Goto, history
  <2>2. \A d \in Devices : device'[d] # "InUse"
    BY <1>2, <2>1 DEF StopRelease, Release, DevicesOf, UseInv
  <2> QED
    BY <2>1, <2>2 DEF UseInv, Holding, HoldingSteps, BusySteps, SpawnSteps
<1>3. ASSUME ~StartAllocate, ~StopRelease PROVE OthersKeep
  <2>1. UNCHANGED runs
    BY <1>0, <1>3, ManagerActions
    DEF manager, history, CreateMission, StartEnter, StopTake, StartStep, StopStep,
      StartLookup, StartSpawnDsp, StartSpawnStatus, StartActivate,
      StartSetRunning, StartInstall, StopSignal, StopJoinPool,
      StopJoinPipeline, StopReopen, StopSetStopped, StopAnnounce
  <2>2. Holding => runs \in Runs
    BY ConstantsAssumption
    DEF Holding, UseInv, HoldingSteps, BusySteps, SpawnSteps, CommandInv,
        RunSteps, Runs
  <2>3. \A d \in Devices : device'[d] = "InUse" <=> device[d] = "InUse"
    <3>1. Faults \cap {"hotplug", "crash"} = {}
      OBVIOUS
    <3> QED
      BY <1>3, <3>1, InUseStep
  <2> QED
    BY <2>1, <2>2, <2>3, CrewStays
<1>4. ASSUME OthersKeep, Holding' <=> Holding,
             command'.step = "idle" /\ running' # 0 => running' = runs,
             command'.step \in HoldingSteps => command'.run = runs
      PROVE  UseInv'
  BY <1>4 DEF UseInv
<1> HIDE DEF OthersKeep
<1>5. CASE UNCHANGED manager
  <2>1. ~StartAllocate /\ ~StopRelease
    BY <1>5 DEF manager, StartAllocate, StopRelease, Return, Idle, Goto
  <2> QED
    BY <1>3, <1>4, <1>5, <2>1 DEF manager, Holding, UseInv
<1>6. CASE StopTake
  <2>1. ~StartAllocate /\ ~StopRelease
    BY <1>6 DEF StopTake, StartAllocate, StopRelease
  <2>2. command.step = "idle" /\ running # 0 /\ command'.step = "signal" /\ command'.run = running
    BY <1>6 DEF StopTake
  <2> QED
    BY <1>3, <1>4, <2>1, <2>2 DEF Holding, UseInv, HoldingSteps, BusySteps
<1>7. ASSUME NEW m \in Missions, StartEnter(m) PROVE UseInv'
  <2>1. ~StartAllocate /\ ~StopRelease
    BY <1>7 DEF StartEnter, StartAllocate, StopRelease
  <2>2. /\ command.step = "idle" /\ running = 0 /\ running' = 0
        /\ command'.step = "lookup"
    BY <1>7 DEF StartEnter, NothingRunning
  <2> QED
    BY <1>3, <1>4, <2>1, <2>2 DEF Holding, HoldingSteps, BusySteps, SpawnSteps
<1>8. CASE StartLookup \/ StartSpawnDsp \/ StartSpawnStatus \/ StartActivate \/ StartSetRunning
  <2>1. ~StartAllocate /\ ~StopRelease
    BY <1>8 DEF StartLookup, StartSpawnDsp, StartSpawnStatus, StartActivate,
       StartSetRunning, StartAllocate, StopRelease
  <2>2. /\ running' = 0 /\ running = 0
        /\ command.step # "idle"
        /\ \/ command.step = "lookup" /\ command'.step \in {"idle", "allocate"}
           \/ command.step \in SpawnSteps /\ command'.step \in SpawnSteps
              /\ command'.run = command.run
    BY <1>8 DEF StartLookup, StartSpawnDsp, StartSpawnStatus, StartActivate,
       StartSetRunning, SetPhase, Goto, May, Return, Idle, SpawnSteps, StoryInv
  <2> QED
    BY <1>3, <1>4, <2>1, <2>2
    DEF Holding, UseInv, HoldingSteps, BusySteps, SpawnSteps
<1>9. CASE StartInstall
  <2>1. ~StartAllocate /\ ~StopRelease
    BY <1>9 DEF StartInstall, StartAllocate, StopRelease
  <2>2. /\ command.step = "install" /\ running' = command.run /\ command'.step = "idle"
        /\ command.run # 0
    BY <1>9 DEF StartInstall, Return, Idle, CommandInv, RunSteps
  <2> QED
    BY <1>3, <1>4, <2>1, <2>2
    DEF Holding, UseInv, HoldingSteps, BusySteps, SpawnSteps
<1>10. CASE StopSignal \/ StopJoinPool \/ StopJoinPipeline
  <2>1. ~StartAllocate /\ ~StopRelease
    BY <1>10
    DEF StopSignal, StopJoinPool, StopJoinPipeline, StartAllocate, StopRelease
  <2>2. /\ command.step \in {"signal", "joinPool", "joinPipeline"}
        /\ command'.step \in {"joinPool", "joinPipeline", "release"}
        /\ command'.run = command.run
    BY <1>10 DEF StopSignal, StopJoinPool, StopJoinPipeline, Goto
  <2> QED
    BY <1>3, <1>4, <2>1, <2>2 DEF Holding, UseInv, HoldingSteps, BusySteps
<1>11. CASE StopReopen \/ StopSetStopped \/ StopAnnounce
  <2>1. ~StartAllocate /\ ~StopRelease
    BY <1>11
    DEF StopReopen, StopSetStopped, StopAnnounce, StartAllocate, StopRelease
  <2>2. /\ command.step \in {"reopen", "setStopped", "announceStopped"}
        /\ command'.step \in {"setStopped", "announceStopped", "idle"}
        /\ running = 0 /\ running' = 0
    BY <1>11 DEF StopReopen, StopSetStopped, SetPhase, StopAnnounce, Goto, May,
       Return, Idle, StoryInv
  <2> QED
    BY <1>3, <1>4, <2>1, <2>2 DEF Holding, HoldingSteps, BusySteps, SpawnSteps
<1>12. ASSUME NEW m \in Missions, CreateMission(m) PROVE UNCHANGED manager
  BY <1>12 DEF CreateMission
<1> QED
  BY <1>0, <1>1, <1>2, <1>5, <1>6, <1>7, <1>8, <1>9, <1>10, <1>11, <1>12,
     ManagerActions
  DEF StartStep, StopStep

(* The lease that each device is under, and the workers that stream.        *)
HolderOf == [d \in Devices |-> IF device[d] = "InUse" THEN runs ELSE 0]
StreamingUnder == {s \in Devices \X Runs : worker[s[2]][s[1]] \in AliveSteps}

LeaseInv ==
  /\ TypeInv /\ RunInv /\ StopInv
  /\ ThreadsInv /\ StoryInv /\ WorkInv /\ UseInv

(* The allocation is a grant, or finds no device and is no step of the lease. *)
LEMMA GrantImplements ==
  ASSUME Faults \cap {"catalog", "spawn", "hotplug", "crash"} = {},
         LeaseInv, StartAllocate
  PROVE  [Lease!Next]_Lease!vars
<1> USE DEF LeaseInv, TypeInv, TypeOK, ManagerTypeOK, PoolTypeOK, At
<1>1. command.step = "allocate" /\ ~Holding /\ runs \in Nat /\ runs + 1 \in Runs /\ runs < MaxRuns
  BY ConstantsAssumption
  DEF StartAllocate, Holding, HoldingSteps, BusySteps, SpawnSteps, CommandInv,
      Runs
<1>2. \A d \in Devices : device[d] # "InUse"
  BY <1>1 DEF UseInv
<1>3. PICK got \in SUBSET Devices, failed \in SUBSET Devices :
        /\ Allocation(got, failed)
        /\ \/ got = {} /\ UNCHANGED <<runs, worker>>
           \/ got # {} /\ OpenRun(got)
  BY DEF StartAllocate, May
<1>4. \A d \in Devices : device'[d] = "InUse" <=> d \in got
  BY <1>2, <1>3 DEF Allocation
<1>5. HolderOf = [d \in Devices |-> 0]
  BY <1>2 DEF HolderOf
<1>6. CASE got = {} /\ UNCHANGED <<runs, worker>>
  <2>1. HolderOf' = [d \in Devices |-> 0] /\ StreamingUnder' = StreamingUnder
    BY <1>4, <1>6 DEF HolderOf, StreamingUnder
  <2> QED
    BY <1>5, <1>6, <2>1 DEF Lease!vars, HolderOf, StreamingUnder
<1>7. CASE got # {} /\ OpenRun(got)
  <2>1. /\ runs' = runs + 1
        /\ worker'[runs + 1] = [d \in Devices |-> IF d \in got THEN "connect" ELSE "none"]
        /\ \A r \in Runs : r # runs + 1 => worker'[r] = worker[r]
    BY <1>1, <1>7 DEF OpenRun
  <2>2. HolderOf' = [d \in Devices |-> IF d \in got THEN runs + 1 ELSE 0]
    BY <1>4, <2>1 DEF HolderOf
  <2>3. \A d \in Devices : worker[runs + 1][d] = "none"
    BY <1>1 DEF StopInv, Unopened
  <2>4. StreamingUnder' = StreamingUnder \cup (got \X {runs + 1})
    <3>1. ASSUME NEW d \in Devices, NEW r \in Runs
          PROVE  worker'[r][d] \in AliveSteps <=>
                   worker[r][d] \in AliveSteps \/ (d \in got /\ r = runs + 1)
      BY <2>1, <2>3 DEF AliveSteps
    <3>2. \A s \in Devices \X Runs :
            s \in StreamingUnder' <=> s \in StreamingUnder \cup (got \X {runs + 1})
      BY <3>1 DEF StreamingUnder
    <3>3. StreamingUnder' \subseteq Devices \X Runs
      BY DEF StreamingUnder
    <3>4. StreamingUnder \cup (got \X {runs + 1}) \subseteq Devices \X Runs
      BY <1>1 DEF StreamingUnder
    <3> QED
      BY <3>2, <3>3, <3>4
  <2>5. \A d \in Devices : HolderOf[d] = 0
    BY <1>5
  <2>6. Lease!Grant(got)
    BY <1>1, <1>7, <2>1, <2>2, <2>4, <2>5
    DEF Lease!Grant, HolderOf, StreamingUnder
  <2> QED
    BY <2>6 DEF Lease!Next
<1> QED
  BY <1>3, <1>6, <1>7

(* The release returns the whole lease, when nothing streams any more.      *)
LEMMA ReturnImplements ==
  ASSUME LeaseInv, StopRelease
  PROVE  [Lease!Next]_Lease!vars
<1> USE DEF LeaseInv, TypeInv, TypeOK, ManagerTypeOK, PoolTypeOK, At
<1>1. /\ command.step = "release" /\ command.run = runs /\ runs \in Runs
      /\ UNCHANGED <<runs, worker>> /\ Holding
  BY ConstantsAssumption
  DEF StopRelease, UseInv, HoldingSteps, Holding, CommandInv, RunSteps, Runs,
      history,
     survey, pool
<1>2. \A d \in Devices : device[d] = "InUse" <=> worker[runs][d] # "none"
  BY <1>1 DEF UseInv
<1>3. \A d \in Devices : device'[d] # "InUse"
  BY <1>1, <1>2 DEF StopRelease, Release, DevicesOf
<1>4. PICK x \in Devices : worker[runs][x] # "none"
  BY <1>1 DEF WorkInv
<1>5. HolderOf[x] = runs
  BY <1>2, <1>4 DEF HolderOf
<1>6. \A d \in Devices : <<d, runs>> \notin StreamingUnder
  BY <1>1
  DEF StreamingUnder, StopInv, JoinedSteps, Over, ThreadsAlive, WorkersFinished
<1>7. HolderOf' = [d \in Devices |-> IF HolderOf[d] = runs THEN 0 ELSE HolderOf[d]]
  BY <1>3 DEF HolderOf
<1>8. StreamingUnder' = StreamingUnder
  BY <1>1 DEF StreamingUnder
<1>9. \E n \in 1..MaxRuns : Lease!Return(n)
  <2>0. PICK n \in 1..MaxRuns : n = runs
    BY <1>1 DEF Runs
  <2>1. Lease!Return(n)
    <3>1. \E d \in Devices : HolderOf[d] = n
      BY <1>5, <2>0
    <3>2. HolderOf' = [d \in Devices |-> IF HolderOf[d] = n THEN 0 ELSE HolderOf[d]]
      BY <1>7, <2>0
    <3>3. \A d \in Devices : <<d, n>> \notin StreamingUnder
      BY <1>6, <2>0
    <3> QED
      BY <1>1, <1>8, <3>1, <3>2, <3>3 DEF Lease!Return, HolderOf, StreamingUnder
  <2> QED
    BY <2>1
<1> QED
  BY <1>9 DEF Lease!Next

(* What the lease does not see. *)
LEMMA LeaseStutters ==
  ASSUME runs' = runs,
         \A d \in Devices : device'[d] = "InUse" <=> device[d] = "InUse",
         \A r \in Runs, d \in Devices :
           worker'[r][d] \in AliveSteps <=> worker[r][d] \in AliveSteps
  PROVE  UNCHANGED Lease!vars
<1>1. HolderOf' = HolderOf
  BY DEF HolderOf
<1>2. StreamingUnder' = StreamingUnder
  BY DEF StreamingUnder
<1> QED
  BY <1>1, <1>2 DEF Lease!vars, HolderOf, StreamingUnder

(* A worker's last step ends its stream; all others are no steps of the lease. *)
LEMMA WorkerImplements ==
  ASSUME Faults \cap {"catalog", "spawn", "hotplug", "crash"} = {},
         LeaseInv, NEW r \in Runs, NEW d \in Devices, Worker(r, d)
  PROVE  [Lease!Next]_Lease!vars
<1> USE DEF LeaseInv, TypeInv, TypeOK, ManagerTypeOK, PoolTypeOK, At
<1>1. UNCHANGED <<runs, device>> /\ worker[r][d] \in AliveSteps
  BY DEF Worker, WorkerConnect, WorkerPark, WorkerSweep, WorkerFill, WorkerExit,
     manager, history, AliveSteps
<1>2. CASE WorkerExit(r, d)
  <2>1. worker' = [worker EXCEPT ![r][d] = "done"]
    BY <1>2 DEF WorkerExit, MoveWorker
  <2>2. Owned(r)
    BY <1>1 DEF ThreadsInv, ThreadsAlive, WorkersFinished
  <2>3. r = runs /\ Holding
    BY <2>2 DEF Owned, UseInv, Holding, HoldingSteps, Runs
  <2>4. device[d] = "InUse"
    BY <1>1, <2>3 DEF UseInv, AliveSteps
  <2>5. HolderOf[d] = r /\ <<d, r>> \in StreamingUnder
    BY <1>1, <2>3, <2>4 DEF HolderOf, StreamingUnder
  <2>6. StreamingUnder' = StreamingUnder \ {<<d, r>>}
    <3>1. ASSUME NEW e \in Devices, NEW q \in Runs
          PROVE  worker'[q][e] \in AliveSteps <=>
                   worker[q][e] \in AliveSteps /\ ~(e = d /\ q = r)
      BY <2>1 DEF AliveSteps
    <3> QED
      BY <3>1 DEF StreamingUnder
  <2>7. Lease!EndStream(d)
    BY <1>1, <2>5, <2>6 DEF Lease!EndStream, HolderOf, StreamingUnder
  <2> QED
    BY <2>7 DEF Lease!Next
<1>3. CASE ~WorkerExit(r, d)
  <2>1. UNCHANGED worker \/ \E step \in AliveSteps : MoveWorker(r, d, step)
    BY <1>3
    DEF Worker, WorkerConnect, WorkerPark, WorkerSweep, WorkerFill, AliveSteps
  <2>2. \A q \in Runs, e \in Devices :
          worker'[q][e] \in AliveSteps <=> worker[q][e] \in AliveSteps
    BY <1>1, <2>1 DEF MoveWorker
  <2> QED
    BY <1>1, <2>2, LeaseStutters
<1> QED
  BY <1>2, <1>3

(* While nothing is unplugged, no statement and no spawn fails and the      *)
(* process lives, start, stop and the workers implement the abstract lease. *)
THEOREM SurveyImplementsLease ==
  ASSUME Faults \cap {"catalog", "spawn", "hotplug", "crash"} = {}
  PROVE  Spec => ImplementsLease
<1>1. Init => LeaseInv /\ Lease!Init
  <2> SUFFICES ASSUME Init PROVE LeaseInv /\ Lease!Init
    OBVIOUS
  <2>1. ThreadsInv
    BY DEF Init, ThreadsInv, ThreadsAlive, WorkersFinished, AliveSteps
  <2>2. StoryInv /\ WorkInv
    BY ConstantsAssumption
    DEF Init, StoryInv, WorkInv, ActiveMission, RunningMission, Installed, Idle, Runs
  <2>3. UseInv
    BY DEF Init, UseInv, Idle, Holding, HoldingSteps, BusySteps, SpawnSteps
  <2>4. HolderOf = [d \in Devices |-> 0] /\ StreamingUnder = {} /\ runs = 0
    BY DEF Init, HolderOf, StreamingUnder, AliveSteps
  <2> QED
    BY <2>1, <2>2, <2>3, <2>4, InitTypeInv, InitRunInv, InitStopInv
    DEF LeaseInv, Lease!Init, HolderOf, StreamingUnder
<1>2. LeaseInv /\ [Next]_vars => LeaseInv'
  <2>1. /\ "catalog" \notin Faults /\ "spawn" \notin Faults
        /\ Faults \cap {"catalog", "spawn", "crash"} = {}
    OBVIOUS
  <2> QED
    BY <2>1, TypeInvStep, RunInvStep, StopInvStep, ThreadsInvStep, StoryInvStep,
       WorkInvStep, UseInvStep DEF LeaseInv
<1>3. LeaseInv /\ [Next]_vars => [Lease!Next]_Lease!vars
  <2> SUFFICES ASSUME LeaseInv, [Next]_vars PROVE [Lease!Next]_Lease!vars
    OBVIOUS
  <2>1. CASE StartAllocate
    BY <2>1, GrantImplements
  <2>2. CASE StopRelease
    BY <2>2, ReturnImplements
  <2>3. ASSUME NEW r \in Runs, NEW d \in Devices, Worker(r, d)
        PROVE  [Lease!Next]_Lease!vars
    BY <2>3, WorkerImplements
  <2>4. CASE ~StartAllocate /\ ~StopRelease /\ ~\E r \in Runs, d \in Devices : Worker(r, d)
    <3>1. ~Crash
      BY DEF Crash, May
    <3>2. UNCHANGED <<runs, worker>>
      BY <2>4, <3>1
      DEF Next, vars, survey, manager, history, pool, User, StartStep, StopStep, Dsp, Reporter,
          Writer, Environment, Opener, StopTake, CreateMission, StartEnter,
          StartLookup, StartSpawnDsp, StartSpawnStatus,
          StartActivate, StartSetRunning, StartInstall, StopSignal, StopJoinPool,
          StopJoinPipeline, StopReopen, StopSetStopped, StopAnnounce,
          DspReceive, DspPublish, DspExit, ReporterReceive, ReporterExit,
          WriterReceive, WriterInsert, DeviceClaim, DeviceOpened, DeviceUnplug,
          DevicePlug, DeviceReconfigure
    <3>3. \A d \in Devices : device'[d] = "InUse" <=> device[d] = "InUse"
      BY <2>4, InUseStep DEF LeaseInv
    <3> QED
      BY <3>2, <3>3, LeaseStutters
  <2> QED
    BY <2>1, <2>2, <2>3, <2>4
<1> QED
  BY <1>1, <1>2, <1>3, PTL DEF Spec, ImplementsLease, Lease!Spec
=============================================================================
