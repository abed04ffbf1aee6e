----------------------------- MODULE EventBridge -----------------------------
(***************************************************************************)
(* From MissionManager to the screen and back: the commands' threads, the    *)
(* lossy broadcast of rf-bus, the bridge task of the application, and the     *)
(* UI's `activeId` and `starting`.                                           *)
(*                                                                         *)
(* start and stop are reduced to what they publish and answer; while the     *)
(* threads of a run are alive they publish telemetry.  Mission errors go to  *)
(* the webview directly, MissionState goes over the broadcast.               *)
(***************************************************************************)
EXTENDS Integers, SequencesExt

CONSTANTS
  Missions,   \* missions the user may select
  None,       \* no mission
  Cap,        \* broadcast_cap: backlog of the one subscriber
  MaxClicks   \* bound: clicks on Start and Stop

ASSUME ConstantsAssumption ==
  /\ None \notin Missions
  /\ Cap \in Nat \ {0}
  /\ MaxClicks \in Nat

VARIABLES
  \* backend
  starts,     \* missions of the start_mission threads that wait for the mutex
  stops,      \* stop_mission calls that wait for the mutex
  command,    \* the start or stop that holds the mutex
  running,    \* the mission installed in the mutex
  \* bus and bridge
  backlog,    \* what the broadcast keeps for the bridge
  \* webview
  inbox,      \* events and replies on their way to the page, oldest first
  activeId,   \* App's state
  starting,   \* App's state
  clicks,
  \* history
  mishaps     \* what has gone wrong so far

backend == <<starts, stops, command, running>>
page == <<activeId, starting, clicks>>
vars == <<backend, backlog, inbox, page, mishaps>>

Free == [step |-> "free", mission |-> None]
Psd == [kind |-> "psd", mission |-> None]
State(phase, m) == [kind |-> phase, mission |-> m]
Error == [kind |-> "mission_error", mission |-> None]
Reply(ok) == [kind |-> IF ok THEN "stopped" ELSE "refused", mission |-> None]
Replies == {Reply(TRUE), Reply(FALSE)}

Init ==
  /\ starts = <<>>
  /\ stops = 0
  /\ command = Free
  /\ running = None
  /\ backlog = <<>>
  /\ mishaps = {}
  /\ inbox = <<>>
  /\ activeId = None
  /\ starting = FALSE
  /\ clicks = 0

----------------------------------------------------------------------------
(* Bus::publish: a full broadcast overwrites its oldest event, and the       *)
(* bridge, told that it lags, goes on with the oldest one that is left.      *)
(* Mutants: the newest event is not taken up; nothing is overwritten.       *)
PublishNewestLost(ev) ==
  /\ backlog' = IF Len(backlog) = Cap THEN backlog ELSE Append(backlog, ev)
  /\ UNCHANGED mishaps
PublishUnbounded(ev) == backlog' = Append(backlog, ev) /\ UNCHANGED mishaps
Publish(ev) ==
  LET full == Len(backlog) = Cap
      stateLost == full /\ Head(backlog) # Psd
  IN /\ backlog' = Append(IF full THEN Tail(backlog) ELSE backlog, ev)
     /\ mishaps' = mishaps \cup (IF stateLost THEN {"overwritten"} ELSE {})

(* What goes to the webview, without the bus. *)
Emit(ev) == inbox' = Append(inbox, ev)

(* A start that fails is reported.  Mutant: it is not. *)
RefuseSilently == UNCHANGED inbox
Refuse == Emit(Error)

(* One of start_mission's threads gets the mutex. *)
StartBegin ==
  /\ command = Free
  /\ \E i \in DOMAIN starts :
       /\ starts' = RemoveAt(starts, i)
       /\ \/ /\ running # None
             /\ Refuse
             /\ UNCHANGED command
          \/ /\ running = None
             /\ command' = [step |-> "start", mission |-> starts[i]]
             /\ UNCHANGED inbox
  /\ UNCHANGED <<stops, running, backlog, page, mishaps>>

(* The pool and the dsp thread are up. *)
StartStream ==
  /\ command.step = "start"
  /\ command' = [command EXCEPT !.step = "startStreaming"]
  /\ UNCHANGED <<starts, stops, running, backlog, inbox, page, mishaps>>

(* An error, before or after. *)
StartFail ==
  /\ command.step \in {"start", "startStreaming"}
  /\ command' = Free
  /\ Refuse
  /\ UNCHANGED <<starts, stops, running, backlog, page, mishaps>>

StartPublish ==
  /\ command.step = "startStreaming"
  /\ Publish(State("Running", command.mission))
  /\ running' = command.mission
  /\ command' = Free
  /\ UNCHANGED <<starts, stops, inbox, page>>

(* stop_mission gets the mutex. *)
StopBegin ==
  /\ command = Free
  /\ stops > 0
  /\ stops' = stops - 1
  /\ \/ /\ running = None
        /\ Emit(Reply(FALSE))
        /\ UNCHANGED <<command, running>>
     \/ /\ running # None
        /\ command' = [step |-> "stopStreaming", mission |-> running]
        /\ running' = None
        /\ UNCHANGED inbox
  /\ UNCHANGED <<starts, backlog, page, mishaps>>

(* The threads have been joined and the devices are released. *)
StopDrain ==
  /\ command.step = "stopStreaming"
  /\ command' = [command EXCEPT !.step = "stop"]
  /\ UNCHANGED <<starts, stops, running, backlog, inbox, page, mishaps>>

(* The catalog refuses the phase: nothing is announced. *)
StopFail ==
  /\ command.step = "stop"
  /\ Emit(Reply(FALSE))
  /\ command' = Free
  /\ mishaps' = mishaps \cup {"stopFailed"}
  /\ UNCHANGED <<starts, stops, running, backlog, page>>

StopPublish ==
  /\ command.step = "stop"
  /\ Publish(State("Stopped", command.mission))
  /\ Emit(Reply(TRUE))
  /\ command' = Free
  /\ UNCHANGED <<starts, stops, running, page>>

(* PSD frames, detections and sensor states of a run, device snapshots at    *)
(* any time.                                                                *)
Telemetry == Publish(Psd) /\ UNCHANGED <<backend, inbox, page>>

(* spawn_event_bridge: one event at a time.  What telemetry does to the page *)
(* is left out.                                                             *)
BridgeReceive ==
  /\ backlog # <<>>
  /\ backlog' = Tail(backlog)
  /\ IF Head(backlog) = Psd THEN UNCHANGED inbox ELSE Emit(Head(backlog))
  /\ UNCHANGED <<backend, page, mishaps>>

----------------------------------------------------------------------------
(* The page's handlers.  Mutant: Running leaves `starting` set. *)
HandleKeepsStarting(ev) ==
  /\ activeId' = IF ev.kind = "Running" THEN ev.mission
                 ELSE IF ev.kind \in {"Stopped", "stopped"} THEN None ELSE activeId
  /\ starting' = (starting /\ ev.kind # "mission_error")
Handle(ev) ==
  /\ activeId' = IF ev.kind = "Running" THEN ev.mission
                 ELSE IF ev.kind \in {"Stopped", "stopped"} THEN None ELSE activeId
  /\ starting' = (starting /\ ev.kind \notin {"Running", "mission_error"})

(* Events come in the order of sending.  A reply goes another way: it may    *)
(* overtake events, and events may overtake it.                             *)
PageHandle(i) ==
  /\ inbox[i] \in Replies \/ \A j \in 1..(i - 1) : inbox[j] \in Replies
  /\ Handle(inbox[i])
  /\ inbox' = RemoveAt(inbox, i)
  /\ mishaps' = mishaps \cup (IF i = 1 THEN {} ELSE {"reordered"})
  /\ UNCHANGED <<backend, backlog, clicks>>

(* The Start button is enabled.  Mutant: while a start is under way, too. *)
CanStartAgain == activeId = None
CanStart == activeId = None /\ ~starting

ClickStart(m) ==
  /\ clicks < MaxClicks
  /\ CanStart
  /\ starting' = TRUE
  /\ starts' = Append(starts, m)
  /\ clicks' = clicks + 1
  /\ UNCHANGED <<stops, command, running, backlog, inbox, activeId, mishaps>>

ClickStop ==
  /\ clicks < MaxClicks
  /\ activeId # None
  /\ stops' = stops + 1
  /\ clicks' = clicks + 1
  /\ UNCHANGED <<starts, command, running, backlog, inbox, activeId, starting, mishaps>>

----------------------------------------------------------------------------
Command == StartBegin \/ StartFail \/ StartStream \/ StartPublish
           \/ StopBegin \/ StopDrain \/ StopPublish \/ StopFail
Page == \E i \in DOMAIN inbox : PageHandle(i)

Next ==
  \/ Command
  \/ Telemetry
  \/ BridgeReceive
  \/ Page
  \/ ClickStop
  \/ \E m \in Missions : ClickStart(m)

Spec == Init /\ [][Next]_vars

(* The commands' threads, the bridge task and the page are scheduled. *)
Fairness == WF_vars(Command) /\ WF_vars(BridgeReceive) /\ WF_vars(Page)
FairSpec == Spec /\ Fairness

----------------------------------------------------------------------------
PhaseEvents == [kind : {"Running", "Stopped"}, mission : Missions]

(* Every variable stays within the values the code can give it; the bus      *)
(* keeps no more than its capacity.                                         *)
TypeOK ==
  /\ starts \in Seq(Missions)
  /\ stops \in 0..MaxClicks
  /\ command \in [step : {"free", "start", "startStreaming", "stopStreaming", "stop"},
                  mission : Missions \cup {None}]
  /\ running \in Missions \cup {None}
  /\ backlog \in Seq(PhaseEvents \cup {Psd}) /\ Len(backlog) <= Cap
  /\ inbox \in Seq(PhaseEvents \cup Replies \cup {Error})
  /\ activeId \in Missions \cup {None}
  /\ starting \in BOOLEAN
  /\ clicks \in 0..MaxClicks
  /\ mishaps \subseteq {"overwritten", "reordered", "stopFailed"}

(* The page never asks for a start that must be refused because another is   *)
(* under way or a mission runs, though it goes by events that are older than *)
(* the backend's state, whatever the broadcast loses and stop fails to do.   *)
(* It may if a reply to an earlier stop_mission comes after a new Running;   *)
(* the condition excludes more, every reply that passes an event or is       *)
(* passed by one.                                                            *)
StartsAreGranted ==
  "reordered" \notin mishaps =>
    /\ Len(starts) <= 1
    /\ starts # <<>> => running = None /\ command.step \notin {"start", "startStreaming"}

Never(mishap) == [](mishap \notin mishaps)

(* rf-types: "state changes are lossless (they must reach .. the UI)": the  *)
(* page comes to show, and lets the user stop, the mission that runs.       *)
RunningReachesPage == \A m \in Missions : running = m ~> activeId = m

(* As long as no MissionState was overwritten, and no reply has passed an    *)
(* event, the page does show it,                                            *)
PageFollows == Never("overwritten") /\ Never("reordered") => RunningReachesPage

(* "starting" ends, with Running or with an error, so that the user can go  *)
(* on,                                                                      *)
StartingEnds == Never("overwritten") => (starting ~> ~starting)

(* and when the user stops clicking, the page settles on what is the case.  *)
PageSettles ==
  (\A mishap \in {"overwritten", "reordered", "stopFailed"} : Never(mishap))
    => <>[](activeId = running /\ ~starting)
=============================================================================
