--------------------------- MODULE DeviceRegistry ---------------------------
(***************************************************************************)
(* DeviceManager of rf-sensor, built for hardware (feature `soapy`): the     *)
(* registry behind its mutex and every thread that works on it.  The loop    *)
(* detects for ever, the app spawns a thread for each refresh and each       *)
(* set_config, and a mission allocates and releases.  All of them run        *)
(* open_detected, which opens devices without the lock, and emit, which      *)
(* takes a snapshot under the lock and publishes it after.                  *)
(*                                                                         *)
(* A device stands for its serial, its SensorId and its source; the settings *)
(* of an open device are those it was last given.  A snapshot is abstracted  *)
(* to whether it still equals the registry.                                 *)
(***************************************************************************)
EXTENDS Integers, FiniteSets

CONSTANTS
  Devices,    \* serials of the SDRs that may ever be attached
  Callers,    \* threads the app spawns for refresh_devices, set_device_config
  Loop,       \* the device-manager thread
  Mission,    \* the thread that is in MissionManager::start or ::stop
  Gains,      \* values of auto_gain and gain_db
  Rates,      \* values of sample_rate_hz, further than 1 Hz apart
  Closed,     \* no open device
  MaxPlugs,   \* bound: times a device is attached or detached
  MaxLeases,  \* bound: missions that get a device
  Faults      \* subset of {"open", "activate"}: what the driver may refuse

ASSUME ConstantsAssumption ==
  /\ Loop # Mission /\ {Loop, Mission} \cap Callers = {}
  /\ Gains # {} /\ Rates # {}
  /\ Closed \notin [gain : Gains, rate : Rates]
  /\ MaxPlugs \in Nat
  /\ MaxLeases \in Nat
  /\ Faults \subseteq {"open", "activate"}

Threads == Callers \cup {Loop, Mission}
Tuning == [gain : Gains, rate : Rates]
States == {"Detected", "Opening", "Ready", "InUse", "Error", "Disconnected"}
Steps == {"new", "idle", "diff", "emit", "publish", "claim", "open", "done"}

VARIABLES
  plugged,   \* external: SDRs attached to the machine
  plugs,     \* how often one was attached or detached
  state,     \* DeviceInfo.state, "unknown" before the device was ever seen
  enabled,   \* DeviceInfo.enabled
  tuning,    \* DeviceInfo.auto_gain, gain_db and sample_rate_hz
  handle,    \* Managed.handle: the tuning of the idle device, or Closed
  stream,    \* tuning of the device a mission's sweep worker streams from
  lease,     \* device_ids of the mission that runs
  leases,    \* leases granted so far
  thread,    \* each thread: its step, what follows an emit, and what it holds
  shown      \* the last published snapshot equals the registry

registry == <<state, enabled, tuning>>
world == <<plugged, plugs>>
streams == <<stream, lease, leases>>
vars == <<world, registry, handle, streams, thread, shown>>

Beginning(t) == IF t \in Callers THEN "new" ELSE "idle"
Ending(t) == IF t \in Callers THEN "done" ELSE "idle"

(* seen: enumerated sources; fresh: its snapshot equals the registry;       *)
(* claim: devices it has claimed (one at most), with the tuning it read.    *)
Holding(step) == [step |-> step, then |-> "claim", seen |-> {}, fresh |-> FALSE, claim |-> {}]

Init ==
  /\ plugged \in SUBSET Devices
  /\ plugs = 0
  /\ state = [d \in Devices |-> "unknown"]
  /\ enabled = [d \in Devices |-> TRUE]
  /\ tuning \in [Devices -> {CHOOSE x \in Tuning : TRUE}]
  /\ handle = [d \in Devices |-> Closed]
  /\ stream = [d \in Devices |-> Closed]
  /\ lease = {}
  /\ leases = 0
  /\ thread = [t \in Threads |-> Holding(Beginning(t))]
  /\ shown = FALSE

At(t, step) == thread[t].step = step

(* Thread t goes on as `next`. *)
Goto(t, next) == thread' = [thread EXCEPT ![t] = next] /\ UNCHANGED shown

(* The same after a change of the registry: no snapshot that was taken or   *)
(* published before equals it any more.                                     *)
GotoAfterChange(t, next) ==
  LET same == registry' = registry
  IN /\ thread' = [u \in Threads |->
                     IF u = t THEN next
                     ELSE [thread[u] EXCEPT !.fresh = @ /\ same]]
     /\ shown' = (shown /\ same)

Emit(then, claim) == [Holding("emit") EXCEPT !.then = then, !.claim = claim]

----------------------------------------------------------------------------
(* detect: enumerate_sources runs before the lock is taken. *)
Enumerate(t) ==
  /\ t # Mission
  /\ At(t, Beginning(t))
  /\ Goto(t, [Holding("diff") EXCEPT !.seen = plugged])
  /\ UNCHANGED <<world, registry, handle, streams>>

Diffed(seen, d) ==
  IF d \notin seen THEN IF state[d] = "unknown" THEN "unknown" ELSE "Disconnected"
  ELSE IF state[d] \in {"unknown", "Disconnected"} THEN "Detected" ELSE state[d]

(* The emit after a diff.  Mutant: only when the diff found a change. *)
AnnounceChange == IF state' = state THEN Holding("claim") ELSE Emit("claim", {})
Announce == Emit("claim", {})

(* The first half of detect under the lock: devices that are gone are       *)
(* closed, new and revived ones are Detected.                               *)
Diff(t) ==
  /\ At(t, "diff")
  /\ state' = [d \in Devices |-> Diffed(thread[t].seen, d)]
  /\ handle' = [d \in Devices |-> IF d \in thread[t].seen \/ state[d] = "Disconnected"
                               THEN handle[d] ELSE Closed]
  /\ UNCHANGED <<enabled, tuning>>
  /\ GotoAfterChange(t, Announce)
  /\ UNCHANGED <<world, streams>>

(* emit, under the lock: the snapshot; and after it: the callback. *)
Snapshot(t) ==
  /\ At(t, "emit")
  /\ Goto(t, [thread[t] EXCEPT !.step = "publish", !.fresh = TRUE])
  /\ UNCHANGED <<world, registry, handle, streams>>

Publish(t) ==
  /\ At(t, "publish")
  /\ thread' = [thread EXCEPT ![t] =
                  IF thread[t].then = "return" THEN Holding(Ending(t))
                  ELSE [Holding(thread[t].then) EXCEPT !.claim = thread[t].claim]]
  /\ shown' = thread[t].fresh
  /\ UNCHANGED <<world, registry, handle, streams>>

(* open_detected claims a Detected device (the code: the first one in the   *)
(* order of detection), or is done.                                         *)
Claim(t) ==
  /\ At(t, "claim")
  /\ \/ /\ \A d \in Devices : state[d] # "Detected"
        /\ Goto(t, Holding(Ending(t)))
        /\ UNCHANGED registry
     \/ \E d \in Devices :
          /\ state[d] = "Detected"
          /\ state' = [state EXCEPT ![d] = "Opening"]
          /\ UNCHANGED <<enabled, tuning>>
          /\ GotoAfterChange(t, Emit("open", {[dev |-> d, tuning |-> tuning[d]]}))
  /\ UNCHANGED <<world, handle, streams>>

(* Mutant: an error leaves the device in Opening. *)
OpenedDropsError(c, ok) ==
  /\ state' = IF ok THEN [state EXCEPT ![c.dev] = "Ready"] ELSE state
  /\ handle' = IF ok THEN [handle EXCEPT ![c.dev] = c.tuning] ELSE handle
Opened(c, ok) ==
  /\ state' = [state EXCEPT ![c.dev] = IF ok THEN "Ready" ELSE "Error"]
  /\ handle' = IF ok THEN [handle EXCEPT ![c.dev] = c.tuning] ELSE handle

(* The device was opened without the lock, with what the claim had read;    *)
(* the result is set under the lock, whatever the registry holds by then.   *)
(* Once SDRs come and go, opening one may fail.                             *)
Open(t) ==
  /\ At(t, "open")
  /\ \E c \in thread[t].claim :
       \/ Opened(c, TRUE)
       \/ ("open" \in Faults \/ plugs > 0) /\ Opened(c, FALSE)
  /\ UNCHANGED <<enabled, tuning>>
  /\ GotoAfterChange(t, Emit("claim", {}))
  /\ UNCHANGED <<world, streams>>

----------------------------------------------------------------------------
(* set_config of device d, in a thread of its own: a device that is Ready   *)
(* is closed to be re-opened at a new rate; the gain of an idle open device *)
(* is set at once.  Mutant: the device is closed but stays Ready.           *)
ReconfigureReady(d, new) ==
  LET reopen == new.rate # tuning[d].rate /\ state[d] = "Ready"
  IN /\ handle' = IF reopen THEN [handle EXCEPT ![d] = Closed] ELSE handle
     /\ UNCHANGED state
Reconfigure(d, new) ==
  LET reopen == new.rate # tuning[d].rate /\ state[d] = "Ready"
  IN /\ state' = [state EXCEPT ![d] = IF reopen THEN "Detected" ELSE @]
     /\ handle' = [handle EXCEPT ![d] =
                     IF reopen \/ @ = Closed THEN Closed
                     ELSE [gain |-> new.gain, rate |-> @.rate]]

SetConfig(t) ==
  /\ t \in Callers
  /\ At(t, "new")
  /\ \E d \in Devices, on \in BOOLEAN, new \in Tuning :
       /\ state[d] # "unknown"
       /\ enabled' = [enabled EXCEPT ![d] = on]
       /\ tuning' = [tuning EXCEPT ![d] = new]
       /\ Reconfigure(d, new)
  /\ GotoAfterChange(t, Emit("claim", {}))
  /\ UNCHANGED <<world, streams>>

----------------------------------------------------------------------------
(* Mutants: the device stays Ready; it gets a SensorState. *)
GrantedReady(d) == "Ready"
GrantedSweeping(d) == "Sweeping"
Granted(d) == "InUse"

(* allocate(usize::MAX), from MissionManager::start: every enabled Ready    *)
(* device gives up its handle, which becomes a stream; one whose stream     *)
(* does not activate is in Error.                                           *)
Allocate ==
  /\ At(Mission, "idle")
  /\ lease = {}
  /\ leases < MaxLeases
  /\ LET ready == {d \in Devices : enabled[d] /\ state[d] = "Ready" /\ handle[d] # Closed}
     IN \E failed \in SUBSET ready :
          /\ failed = {} \/ "activate" \in Faults
          /\ state' = [d \in Devices |->
                         IF d \in failed THEN "Error"
                         ELSE IF d \in ready THEN Granted(d) ELSE state[d]]
          /\ handle' = [d \in Devices |-> IF d \in ready THEN Closed ELSE handle[d]]
          /\ lease' = ready \ failed
          /\ stream' = [d \in Devices |-> IF d \in lease' THEN handle[d] ELSE stream[d]]
          /\ leases' = IF lease' = {} THEN leases ELSE leases + 1
  /\ UNCHANGED <<enabled, tuning>>
  /\ GotoAfterChange(Mission, Emit("return", {}))
  /\ UNCHANGED world

(* A sweep worker ends and drops its sensor. *)
EndStream(d) ==
  /\ At(Mission, "idle")
  /\ stream[d] # Closed
  /\ stream' = [stream EXCEPT ![d] = Closed]
  /\ UNCHANGED <<world, registry, handle, lease, leases, thread, shown>>

(* Mutant: the workers are not waited for. *)
Undrained == TRUE
Drained == \A d \in Devices : stream[d] = Closed

(* release, from MissionManager::stop, once every worker has been joined. *)
ReleaseAll ==
  /\ At(Mission, "idle")
  /\ lease # {}
  /\ Drained
  /\ state' = [d \in Devices |-> IF d \in lease /\ state[d] = "InUse" THEN "Detected" ELSE state[d]]
  /\ lease' = {}
  /\ UNCHANGED <<enabled, tuning>>
  /\ GotoAfterChange(Mission, Emit("claim", {}))
  /\ UNCHANGED <<world, handle, stream, leases>>

(* Somebody attaches or detaches an SDR. *)
Replug(d) ==
  /\ plugs < MaxPlugs
  /\ plugs' = plugs + 1
  /\ plugged' = IF d \in plugged THEN plugged \ {d} ELSE plugged \cup {d}
  /\ UNCHANGED <<registry, handle, streams, thread, shown>>

----------------------------------------------------------------------------
Step(t) == Enumerate(t) \/ Diff(t) \/ Snapshot(t) \/ Publish(t) \/ Claim(t) \/ Open(t)

Next ==
  \/ \E t \in Threads : Step(t) \/ SetConfig(t)
  \/ Allocate \/ ReleaseAll
  \/ \E d \in Devices : EndStream(d) \/ Replug(d)

Spec == Init /\ [][Next]_vars

(* Every thread is scheduled, the driver's calls return, and the loop sleeps *)
(* for two seconds at most.  Whether a mission starts or stops is the user's *)
(* choice, and so is a call.                                                *)
Fairness == \A t \in {Loop, Mission} \cup Callers : WF_vars(Step(t) /\ ~At(t, "new"))

FairSpec == Spec /\ Fairness

----------------------------------------------------------------------------
Claims == [dev : Devices, tuning : Tuning]

(* Every variable stays within the values the code can give it. *)
TypeOK ==
  /\ plugged \subseteq Devices
  /\ plugs \in 0..MaxPlugs
  /\ state \in [Devices -> States \cup {"unknown"}]
  /\ enabled \in [Devices -> BOOLEAN]
  /\ tuning \in [Devices -> Tuning]
  /\ handle \in [Devices -> Tuning \cup {Closed}]
  /\ stream \in [Devices -> Tuning \cup {Closed}]
  /\ lease \subseteq Devices
  /\ leases \in 0..MaxLeases
  /\ thread \in [Threads -> [step : Steps, then : {"claim", "open", "return"},
                             seen : SUBSET Devices, fresh : BOOLEAN,
                             claim : SUBSET Claims]]
  /\ shown \in BOOLEAN

OpenersOf(d) == {t \in Threads : \E c \in thread[t].claim : c.dev = d}

(* No device is stuck in Opening: while it says so, some thread is on its   *)
(* way to set the result, through any unplugging and re-claiming.           *)
OpeningHasOpener == \A d \in Devices : state[d] = "Opening" => OpenersOf(d) # {}

(* A device is "held open but idle in Ready": whatever closes the handle or *)
(* takes it away also moves the device on, so allocate never skips one.     *)
ReadyIsHeldOpen == \A d \in Devices : state[d] = "Ready" => handle[d] # Closed

(* While no SDR comes or goes, the states tell who has the device: one      *)
(* thread opens it, the manager holds it, or the mission's lease does; in   *)
(* every other state nobody has it.                                         *)
StateTellsOwner ==
  \A d \in Devices :
    /\ Cardinality(OpenersOf(d)) = IF state[d] = "Opening" THEN 1 ELSE 0
    /\ state[d] = "Ready" <=> handle[d] # Closed
    /\ state[d] = "InUse" <=> d \in lease
    /\ stream[d] # Closed => d \in lease

(* set_config: "a sample-rate change re-opens it": a Ready device runs at   *)
(* the rate of its DeviceInfo.                                              *)
RateIsApplied ==
  \A d \in Devices : state[d] = "Ready" => handle[d].rate = tuning[d].rate

(* A device that stays attached comes up, or is known to have failed. *)
DevicesComeUp ==
  \A d \in Devices :
    <>[](d \in plugged) => []<>(state[d] \in {"Ready", "InUse", "Error"})

(* Two emits may publish in the wrong order, but the detect loop publishes  *)
(* again: the status bar does not stay out of date.                         *)
StatusBarCatchesUp == <>[]shown

----------------------------------------------------------------------------
(* A device is held by the newest lease while it is InUse. *)
Lease == INSTANCE DeviceLease WITH
  holder <- [d \in Devices |-> IF state[d] = "InUse" THEN leases ELSE 0],
  streaming <- {d \in Devices : stream[d] # Closed} \X {leases},
  granted <- leases

(* While no SDR comes or goes, the registry implements exclusive leases,    *)
(* whatever refresh and set_config do beside allocate and release.          *)
ImplementsLease == Lease!Spec
=============================================================================
