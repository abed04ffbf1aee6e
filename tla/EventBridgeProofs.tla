------------------------- MODULE EventBridgeProofs -------------------------
(* The page's starts are granted: for any number of missions, any capacity  *)
(* of the broadcast and any number of clicks.                               *)
EXTENDS EventBridge, TLAPS, SequenceTheorems

ToPage == PhaseEvents \cup Replies \cup {Error}
ToBridge == PhaseEvents \cup {Psd}
StartSteps == {"start", "startStreaming"}
CommandType ==
  [step : {"free", "start", "startStreaming", "stopStreaming", "stop"},
   mission : Missions \cup {None}]

\* Types, with a bound on the stops that wait.
Types ==
  /\ starts \in Seq(Missions)
  /\ stops \in Nat /\ clicks \in Nat /\ stops <= clicks /\ clicks <= MaxClicks
  /\ command \in CommandType
  /\ command.step # "free" => command.mission \in Missions
  /\ running \in Missions \cup {None}
  /\ inbox \in Seq(ToPage)
  /\ activeId \in Missions \cup {None}
  /\ starting \in BOOLEAN

BusTypes ==
  /\ backlog \in Seq(ToBridge) /\ Len(backlog) <= Cap
  /\ mishaps \subseteq {"overwritten", "reordered", "stopFailed"}
----------------------------------------------------------------------------
(* Sequences of events *)

EndsAStart == {"Running", "mission_error"}
EndsARun == {"Stopped", "stopped"}

NoAnswer(s) == \A i \in 1..Len(s) : s[i].kind \notin EndsAStart
OneAnswer(s) ==
  \A i, j \in 1..Len(s) : s[i].kind \in EndsAStart /\ s[j].kind \in EndsAStart => i = j
NoError(s) == \A i \in 1..Len(s) : s[i].kind # "mission_error"
NoEnd(s) == \A i \in 1..Len(s) : s[i].kind \notin EndsARun
EndsComeFirst(s) ==
  \A i, j \in 1..Len(s) : s[i].kind = "Running" /\ s[j].kind \in EndsARun => j < i

LEMMA AppendEvent ==
  ASSUME NEW S, NEW s \in Seq(S), NEW e \in S
  PROVE  /\ NoAnswer(s) /\ e.kind \notin EndsAStart => NoAnswer(Append(s, e))
         /\ NoAnswer(s) => OneAnswer(Append(s, e))
         /\ OneAnswer(s) /\ e.kind \notin EndsAStart => OneAnswer(Append(s, e))
         /\ NoError(s) /\ e.kind # "mission_error" => NoError(Append(s, e))
         /\ NoEnd(s) /\ e.kind \notin EndsARun => NoEnd(Append(s, e))
         /\ EndsComeFirst(s) /\ e.kind \notin EndsARun => EndsComeFirst(Append(s, e))
         /\ NoAnswer(s) /\ e.kind # "Running" => EndsComeFirst(Append(s, e))
<1>1. /\ Len(Append(s, e)) = Len(s) + 1 /\ Len(s) \in Nat
      /\ \A i \in 1..Len(s) : Append(s, e)[i] = s[i]
      /\ Append(s, e)[Len(s) + 1] = e
  OBVIOUS
<1>2. \A i \in 1..Len(Append(s, e)) : i \in 1..Len(s) \/ i = Len(s) + 1
  BY <1>1
<1>3. NoAnswer(s) /\ e.kind \notin EndsAStart => NoAnswer(Append(s, e))
  BY <1>1, <1>2 DEF NoAnswer
<1>4. NoAnswer(s) => OneAnswer(Append(s, e))
  BY <1>1, <1>2 DEF NoAnswer, OneAnswer
<1>5. OneAnswer(s) /\ e.kind \notin EndsAStart => OneAnswer(Append(s, e))
  BY <1>1, <1>2 DEF OneAnswer
<1>6. NoError(s) /\ e.kind # "mission_error" => NoError(Append(s, e))
  BY <1>1, <1>2 DEF NoError
<1>7. NoEnd(s) /\ e.kind \notin EndsARun => NoEnd(Append(s, e))
  BY <1>1, <1>2 DEF NoEnd
<1>8. EndsComeFirst(s) /\ e.kind \notin EndsARun => EndsComeFirst(Append(s, e))
  BY <1>1, <1>2 DEF EndsComeFirst
<1>9. NoAnswer(s) /\ e.kind # "Running" => EndsComeFirst(Append(s, e))
  BY <1>1, <1>2 DEF NoAnswer, EndsComeFirst, EndsAStart
<1> QED BY <1>3, <1>4, <1>5, <1>6, <1>7, <1>8, <1>9

LEMMA TailEvents ==
  ASSUME NEW S, NEW s \in Seq(S), s # <<>>
  PROVE  /\ Tail(s) \in Seq(S) /\ Len(Tail(s)) = Len(s) - 1
         /\ Head(s) \in S /\ Head(s) = s[1]
         /\ NoAnswer(s) => NoAnswer(Tail(s)) /\ Head(s).kind \notin EndsAStart
         /\ OneAnswer(s) => OneAnswer(Tail(s))
         /\ OneAnswer(s) /\ Head(s).kind \in EndsAStart => NoAnswer(Tail(s))
         /\ NoAnswer(Tail(s)) /\ Head(s).kind \notin EndsAStart => NoAnswer(s)
         /\ NoError(s) => NoError(Tail(s)) /\ Head(s).kind # "mission_error"
         /\ NoEnd(s) => NoEnd(Tail(s)) /\ Head(s).kind \notin EndsARun
         /\ EndsComeFirst(s) => EndsComeFirst(Tail(s))
         /\ EndsComeFirst(s) /\ Head(s).kind = "Running" => NoEnd(Tail(s))
<1>1. /\ Len(s) \in Nat \ {0} /\ Len(Tail(s)) = Len(s) - 1
      /\ \A i \in 1..(Len(s) - 1) : Tail(s)[i] = s[i + 1] /\ i + 1 \in 1..Len(s)
      /\ Head(s) = s[1] /\ 1 \in 1..Len(s)
  OBVIOUS
<1>2. Tail(s) \in Seq(S) /\ Head(s) \in S
  OBVIOUS
<1>3. NoAnswer(s) => NoAnswer(Tail(s)) /\ Head(s).kind \notin EndsAStart
  BY <1>1 DEF NoAnswer
<1>4. OneAnswer(s) => OneAnswer(Tail(s))
  BY <1>1 DEF OneAnswer
<1>5. OneAnswer(s) /\ Head(s).kind \in EndsAStart => NoAnswer(Tail(s))
  BY <1>1 DEF OneAnswer, NoAnswer
<1>6. NoAnswer(Tail(s)) /\ Head(s).kind \notin EndsAStart => NoAnswer(s)
  <2> SUFFICES ASSUME NoAnswer(Tail(s)), Head(s).kind \notin EndsAStart, NEW i \in 1..Len(s)
               PROVE  s[i].kind \notin EndsAStart
    BY DEF NoAnswer
  <2>1. CASE i = 1
    BY <1>1, <2>1
  <2>2. CASE i # 1
    <3>1. i - 1 \in 1..(Len(s) - 1) /\ Tail(s)[i - 1] = s[i]
      BY <1>1, <2>2
    <3> QED BY <1>1, <3>1 DEF NoAnswer
  <2> QED BY <2>1, <2>2
<1>7. NoError(s) => NoError(Tail(s)) /\ Head(s).kind # "mission_error"
  BY <1>1 DEF NoError
<1>8. NoEnd(s) => NoEnd(Tail(s)) /\ Head(s).kind \notin EndsARun
  BY <1>1 DEF NoEnd
<1>9. EndsComeFirst(s) => EndsComeFirst(Tail(s))
  BY <1>1 DEF EndsComeFirst
<1>10. EndsComeFirst(s) /\ Head(s).kind = "Running" => NoEnd(Tail(s))
  BY <1>1 DEF EndsComeFirst, NoEnd
<1> QED BY <1>1, <1>2, <1>3, <1>4, <1>5, <1>6, <1>7, <1>8, <1>9, <1>10

LEMMA RemoveType ==
  ASSUME NEW S, NEW s \in Seq(S), NEW i \in 1..Len(s)
  PROVE  /\ RemoveAt(s, i) \in Seq(S) /\ Len(RemoveAt(s, i)) = Len(s) - 1
         /\ i = 1 => RemoveAt(s, i) = Tail(s)
<1> DEFINE a == SubSeq(s, 1, i - 1)
           b == SubSeq(s, i + 1, Len(s))
<1>1. Len(s) \in Nat /\ i \in Nat /\ \A j \in 1..Len(s) : s[j] \in S
  OBVIOUS
<1>2. /\ a \in Seq(S) /\ Len(a) = i - 1
  BY <1>1, SubSeqProperties
<1>3. /\ b \in Seq(S) /\ Len(b) = Len(s) - i
      /\ \A j \in 1..(Len(s) - i) : b[j] = s[i + j]
  <2>1. \A j \in (i + 1)..Len(s) : s[j] \in S
    BY <1>1
  <2>2. /\ b \in Seq(S) /\ Len(b) = IF i + 1 <= Len(s) THEN Len(s) - (i + 1) + 1 ELSE 0
        /\ \A j \in 1..(Len(s) - (i + 1) + 1) : b[j] = s[(i + 1) + j - 1]
    BY <1>1, <2>1, SubSeqProperties
  <2>3. Len(b) = Len(s) - i /\ Len(s) - (i + 1) + 1 = Len(s) - i
    BY <1>1, <2>2
  <2>4. \A j \in 1..(Len(s) - i) : (i + 1) + j - 1 = i + j
    BY <1>1
  <2> QED BY <2>2, <2>3, <2>4
<1>4. RemoveAt(s, i) = a \o b
  BY DEF RemoveAt
<1> HIDE DEF a, b
<1>5. RemoveAt(s, i) \in Seq(S) /\ Len(RemoveAt(s, i)) = Len(s) - 1
  BY <1>1, <1>2, <1>3, <1>4, ConcatProperties
<1>6. ASSUME i = 1 PROVE RemoveAt(s, i) = Tail(s)
  <2>1. a = <<>>
    BY <1>2, <1>6
  <2>2. RemoveAt(s, i) = b
    BY <1>3, <1>4, <2>1, ConcatEmptySeq
  <2>3. /\ Tail(s) \in Seq(S) /\ Len(Tail(s)) = Len(s) - 1
        /\ \A j \in 1..(Len(s) - 1) : Tail(s)[j] = s[j + 1]
    BY <1>1, HeadTailProperties
  <2>4. \A j \in 1..Len(b) : b[j] = Tail(s)[j]
    BY <1>1, <1>3, <1>6, <2>3
  <2> QED BY <1>3, <1>6, <2>2, <2>3, <2>4, SeqEqual
<1> QED BY <1>5, <1>6
----------------------------------------------------------------------------
(* The invariant *)

\* A start has been asked for and not been answered, and nothing runs.
Waiting == starting = TRUE /\ running = None /\ NoAnswer(inbox) /\ NoAnswer(backlog)

\* At most one start is under way: it waits, holds the mutex, or is answered.
OneStart ==
  /\ Len(starts) <= 1
  /\ starts # <<>> => Waiting /\ command.step \notin StartSteps
  /\ command.step \in StartSteps => Waiting
  /\ command.step # "free" => running = None
  /\ ~NoAnswer(inbox) => starting = TRUE /\ NoAnswer(backlog)
  /\ ~NoAnswer(backlog) => starting = TRUE
  /\ OneAnswer(inbox) /\ OneAnswer(backlog)

\* What the page shows of a mission that runs, now and after the events on their
\* way: it will be neither idle nor be told that an earlier one has ended.
RunIsShown ==
  /\ starting = TRUE => activeId = None
  /\ running # None =>
       /\ starting = TRUE \/ activeId # None
       /\ NoError(inbox)
       /\ activeId # None => NoEnd(inbox) /\ NoEnd(backlog)
       /\ ~NoAnswer(inbox) => NoEnd(backlog)
       /\ EndsComeFirst(inbox) /\ EndsComeFirst(backlog)

InOrder == "reordered" \notin mishaps => OneStart /\ RunIsShown

BridgeInv == Types /\ BusTypes /\ InOrder
----------------------------------------------------------------------------

LEMMA InitBridgeInv == Init => BridgeInv
<1> SUFFICES ASSUME Init PROVE BridgeInv
  OBVIOUS
<1>1. Types
  <2>1. /\ starts \in Seq(Missions) /\ inbox \in Seq(ToPage)
        /\ stops \in Nat /\ clicks \in Nat /\ stops <= clicks /\ clicks <= MaxClicks
        /\ running \in Missions \cup {None} /\ activeId \in Missions \cup {None}
    BY ConstantsAssumption DEF Init
  <2>2. command \in CommandType /\ command.step = "free"
    BY DEF Init, CommandType, Free
  <2>3. starting \in BOOLEAN
    BY DEF Init
  <2> QED BY <2>1, <2>2, <2>3 DEF Types
<1>2. BusTypes
  BY ConstantsAssumption DEF Init, BusTypes
<1>3. OneStart /\ RunIsShown
  BY DEF Init, OneStart, RunIsShown, Free, StartSteps, NoAnswer, OneAnswer, NoError, NoEnd,
         EndsComeFirst
<1> QED BY <1>1, <1>2, <1>3 DEF BridgeInv, InOrder

\* What a publication does to the backlog: the oldest event may go.
LEMMA PublishBacklog ==
  ASSUME BusTypes, NEW ev \in ToBridge, Publish(ev)
  PROVE  /\ BusTypes' /\ ("reordered" \in mishaps' <=> "reordered" \in mishaps)
         /\ \/ backlog' = Append(backlog, ev)
            \/ backlog # <<>> /\ backlog' = Append(Tail(backlog), ev)
<1>1. /\ backlog' = Append(IF Len(backlog) = Cap THEN Tail(backlog) ELSE backlog, ev)
      /\ mishaps' = mishaps \/ mishaps' = mishaps \cup {"overwritten"}
  BY DEF Publish
<1>2. Len(backlog) = Cap => backlog # <<>>
  BY ConstantsAssumption DEF BusTypes
<1>3. backlog' \in Seq(ToBridge) /\ Len(backlog') <= Cap
  <2>1. CASE Len(backlog) = Cap
    <3>1. Tail(backlog) \in Seq(ToBridge) /\ Len(Tail(backlog)) = Cap - 1
      BY <1>2, <2>1 DEF BusTypes
    <3> QED BY <1>1, <2>1, <3>1, ConstantsAssumption
  <2>2. CASE Len(backlog) # Cap
    BY <1>1, <2>2, ConstantsAssumption DEF BusTypes
  <2> QED BY <2>1, <2>2
<1>4. mishaps' \subseteq {"overwritten", "reordered", "stopFailed"}
  BY <1>1 DEF BusTypes
<1>5. "reordered" \in mishaps' <=> "reordered" \in mishaps
  BY <1>1
<1> QED BY <1>1, <1>2, <1>3, <1>4, <1>5 DEF BusTypes

\* An event that answers no start and ends no run, or comes when nothing runs.
LEMMA PublishHarmless ==
  ASSUME BusTypes, NEW ev \in ToBridge, Publish(ev), ev.kind \notin EndsAStart
  PROVE  /\ NoAnswer(backlog) => NoAnswer(backlog)'
         /\ OneAnswer(backlog) => OneAnswer(backlog)'
         /\ NoEnd(backlog) /\ ev.kind \notin EndsARun => NoEnd(backlog)'
         /\ EndsComeFirst(backlog) /\ ev.kind \notin EndsARun => EndsComeFirst(backlog)'
<1>1. \/ backlog' = Append(backlog, ev)
      \/ backlog # <<>> /\ backlog' = Append(Tail(backlog), ev)
  BY PublishBacklog
<1>2. backlog \in Seq(ToBridge)
  BY DEF BusTypes
<1>3. CASE backlog' = Append(backlog, ev)
  <2>1. /\ NoAnswer(backlog)' = NoAnswer(Append(backlog, ev))
        /\ OneAnswer(backlog)' = OneAnswer(Append(backlog, ev))
        /\ NoEnd(backlog)' = NoEnd(Append(backlog, ev))
        /\ EndsComeFirst(backlog)' = EndsComeFirst(Append(backlog, ev))
    BY <1>3 DEF NoAnswer, OneAnswer, NoEnd, EndsComeFirst
  <2> QED BY <1>2, <2>1, AppendEvent
<1>4. CASE backlog # <<>> /\ backlog' = Append(Tail(backlog), ev)
  <2>1. /\ NoAnswer(backlog)' = NoAnswer(Append(Tail(backlog), ev))
        /\ OneAnswer(backlog)' = OneAnswer(Append(Tail(backlog), ev))
        /\ NoEnd(backlog)' = NoEnd(Append(Tail(backlog), ev))
        /\ EndsComeFirst(backlog)' = EndsComeFirst(Append(Tail(backlog), ev))
    BY <1>4 DEF NoAnswer, OneAnswer, NoEnd, EndsComeFirst
  <2>2. Tail(backlog) \in Seq(ToBridge)
    BY <1>2, <1>4, TailEvents
  <2>3. /\ NoAnswer(backlog) => NoAnswer(Tail(backlog))
        /\ OneAnswer(backlog) => OneAnswer(Tail(backlog))
        /\ NoEnd(backlog) => NoEnd(Tail(backlog))
        /\ EndsComeFirst(backlog) => EndsComeFirst(Tail(backlog))
    BY <1>2, <1>4, TailEvents
  <2> QED BY <2>1, <2>2, <2>3, AppendEvent
<1> QED BY <1>1, <1>3, <1>4

----------------------------------------------------------------------------
(* The commands *)

LEMMA StartBeginStep ==
  ASSUME BridgeInv, StartBegin
  PROVE  BridgeInv'
<1> USE DEF BridgeInv
<1>1. /\ command = Free
      /\ UNCHANGED <<stops, running, backlog, activeId, starting, clicks, mishaps>>
  BY DEF StartBegin, page
<1>2. PICK i \in DOMAIN starts :
        /\ starts' = RemoveAt(starts, i)
        /\ \/ running # None /\ inbox' = Append(inbox, Error) /\ command' = command
           \/ /\ running = None /\ inbox' = inbox
              /\ command' = [step |-> "start", mission |-> starts[i]]
  BY DEF StartBegin, Refuse, Emit
<1>3. /\ i \in 1..Len(starts) /\ starts[i] \in Missions
      /\ starts' \in Seq(Missions) /\ Len(starts') = Len(starts) - 1
  BY <1>2, RemoveType DEF Types
<1>4. BusTypes'
  BY <1>1 DEF BusTypes
<1>5. Types'
  <2>1. inbox' \in Seq(ToPage)
    BY <1>2 DEF Types, ToPage
  <2>2. command' \in CommandType /\ (command'.step # "free" => command'.mission \in Missions)
    BY <1>2, <1>3 DEF Types, CommandType
  <2> QED BY <1>1, <1>3, <2>1, <2>2 DEF Types
<1>6. InOrder'
  <2> SUFFICES ASSUME OneStart, RunIsShown PROVE OneStart' /\ RunIsShown'
    BY <1>1 DEF InOrder
  <2>1. Len(starts) = 1 /\ Waiting
    BY <1>3 DEF OneStart, Types
  <2>2. starts' = <<>>
    BY <1>3, <2>1
  <2>3. inbox' = inbox /\ command'.step = "start"
    BY <1>2, <2>1 DEF Waiting
  <2>4. Waiting'
    BY <1>1, <2>1, <2>3 DEF Waiting, NoAnswer
  <2>5. OneStart'
    BY <1>1, <2>2, <2>3, <2>4 DEF OneStart, Waiting, NoAnswer, OneAnswer, StartSteps
  <2>6. RunIsShown'
    BY <1>1, <2>1, <2>3 DEF RunIsShown, Waiting
  <2> QED BY <2>5, <2>6
<1> QED BY <1>4, <1>5, <1>6

LEMMA StartStreamStep ==
  ASSUME BridgeInv, StartStream
  PROVE  BridgeInv'
<1> USE DEF BridgeInv
<1>1. /\ command.step = "start" /\ command' = [command EXCEPT !.step = "startStreaming"]
      /\ UNCHANGED <<starts, stops, running, backlog, inbox, activeId, starting, clicks, mishaps>>
  BY DEF StartStream, page
<1>2. /\ command' \in CommandType /\ command'.step = "startStreaming"
      /\ command'.mission = command.mission
  BY <1>1 DEF Types, CommandType
<1>3. Types' /\ BusTypes'
  BY <1>1, <1>2 DEF Types, BusTypes
<1>4. InOrder'
  BY <1>1, <1>2 DEF InOrder, OneStart, RunIsShown, Waiting, StartSteps, NoAnswer, OneAnswer,
     NoError, NoEnd, EndsComeFirst
<1> QED BY <1>3, <1>4

LEMMA StartFailStep ==
  ASSUME BridgeInv, StartFail
  PROVE  BridgeInv'
<1> USE DEF BridgeInv
<1>1. /\ command.step \in StartSteps /\ command' = Free /\ inbox' = Append(inbox, Error)
      /\ UNCHANGED <<starts, stops, running, backlog, activeId, starting, clicks, mishaps>>
  BY DEF StartFail, StartSteps, Refuse, Emit, page
<1>2. inbox \in Seq(ToPage) /\ Error \in ToPage /\ Error.kind = "mission_error"
  BY DEF Types, ToPage, Error
<1>3. command' \in CommandType /\ command'.step = "free"
  BY <1>1 DEF CommandType, Free
<1>4. inbox' \in Seq(ToPage)
  BY <1>1, <1>2
<1>5. Types' /\ BusTypes'
  BY <1>1, <1>3, <1>4 DEF Types, BusTypes
<1>6. InOrder'
  <2> SUFFICES ASSUME OneStart, RunIsShown PROVE OneStart' /\ RunIsShown'
    BY <1>1 DEF InOrder
  <2>1. Waiting /\ starts = <<>>
    BY <1>1 DEF OneStart
  <2>2. OneAnswer(Append(inbox, Error))
    BY <1>2, <2>1, AppendEvent DEF Waiting
  <2>3. OneAnswer(inbox)' /\ NoAnswer(backlog)' /\ OneAnswer(backlog)'
    BY <1>1, <2>1, <2>2 DEF Waiting, OneStart, OneAnswer, NoAnswer
  <2>4. OneStart'
    BY <1>1, <1>3, <2>1, <2>3 DEF OneStart, Waiting, StartSteps
  <2>5. RunIsShown'
    BY <1>1, <2>1 DEF RunIsShown, Waiting
  <2> QED BY <2>4, <2>5
<1> QED BY <1>5, <1>6

LEMMA StartPublishStep ==
  ASSUME BridgeInv, StartPublish
  PROVE  BridgeInv'
<1> USE DEF BridgeInv
<1> DEFINE ev == State("Running", command.mission)
<1>1. /\ command.step = "startStreaming" /\ Publish(ev)
      /\ running' = command.mission /\ command' = Free
      /\ UNCHANGED <<starts, stops, inbox, activeId, starting, clicks>>
  BY DEF StartPublish, page
<1>2. command.mission \in Missions
  BY <1>1 DEF Types
<1>3. ev \in ToBridge /\ ev.kind = "Running"
  BY <1>2 DEF State, ToBridge, PhaseEvents
<1> HIDE DEF ev
<1>4. /\ BusTypes' /\ ("reordered" \in mishaps' <=> "reordered" \in mishaps)
      /\ \/ backlog' = Append(backlog, ev)
         \/ backlog # <<>> /\ backlog' = Append(Tail(backlog), ev)
  BY <1>1, <1>3, PublishBacklog
<1>5. command' \in CommandType /\ command'.step = "free"
  BY <1>1 DEF CommandType, Free
<1>6. Types'
  BY <1>1, <1>2, <1>5 DEF Types
<1>7. InOrder'
  <2> SUFFICES ASSUME OneStart, RunIsShown PROVE OneStart' /\ RunIsShown'
    BY <1>4 DEF InOrder
  <2>1. Waiting /\ starts = <<>> /\ activeId = None
    BY <1>1 DEF OneStart, RunIsShown, StartSteps, Waiting
  <2>2. OneAnswer(backlog)' /\ EndsComeFirst(backlog)'
    <3>1. PICK q \in Seq(ToBridge) : backlog' = Append(q, ev) /\ NoAnswer(q)
      <4>1. backlog \in Seq(ToBridge) /\ NoAnswer(backlog)
        BY <2>1 DEF BusTypes, Waiting
      <4>2. backlog # <<>> => Tail(backlog) \in Seq(ToBridge) /\ NoAnswer(Tail(backlog))
        BY <4>1, TailEvents
      <4> QED BY <1>4, <4>1, <4>2
    <3>2. EndsComeFirst(q)
      BY <3>1 DEF NoAnswer, EndsAStart, EndsComeFirst
    <3>3. OneAnswer(Append(q, ev)) /\ EndsComeFirst(Append(q, ev))
      BY <1>3, <3>1, <3>2, AppendEvent DEF EndsARun
    <3> QED BY <3>1, <3>3 DEF OneAnswer, EndsComeFirst
  <2>3. NoAnswer(inbox)' /\ OneAnswer(inbox)'
    BY <1>1, <2>1 DEF Waiting, NoAnswer, OneStart, OneAnswer
  <2>4. OneStart'
    BY <1>1, <1>5, <2>1, <2>2, <2>3 DEF OneStart, Waiting, StartSteps
  <2>5. NoError(inbox)' /\ EndsComeFirst(inbox)'
    BY <1>1, <2>1 DEF Waiting, NoAnswer, EndsAStart, NoError, EndsComeFirst
  <2>6. RunIsShown'
    BY <1>1, <2>1, <2>2, <2>3, <2>5 DEF RunIsShown, Waiting
  <2> QED BY <2>4, <2>6
<1> QED BY <1>4, <1>6, <1>7

\* A reply to stop_mission: it answers no start.
LEMMA EmitReply ==
  ASSUME Types, NEW ok \in BOOLEAN, inbox' = Append(inbox, Reply(ok))
  PROVE  /\ inbox' \in Seq(ToPage)
         /\ NoAnswer(inbox) => NoAnswer(inbox)'
         /\ OneAnswer(inbox) => OneAnswer(inbox)'
<1>1. inbox \in Seq(ToPage) /\ Reply(ok) \in ToPage /\ Reply(ok).kind \notin EndsAStart
  BY DEF Types, ToPage, Replies, Reply, EndsAStart
<1>2. /\ NoAnswer(inbox) => NoAnswer(Append(inbox, Reply(ok)))
      /\ OneAnswer(inbox) => OneAnswer(Append(inbox, Reply(ok)))
  BY <1>1, AppendEvent
<1>3. inbox' \in Seq(ToPage)
  BY <1>1
<1> QED BY <1>2, <1>3 DEF NoAnswer, OneAnswer

\* Nothing runs, no start is under way, and the buses carry no new answer.
LEMMA NothingRuns ==
  ASSUME OneStart, RunIsShown, running' = None, command'.step \notin StartSteps,
         UNCHANGED <<starts, activeId, starting>>,
         NoAnswer(inbox) => NoAnswer(inbox)', OneAnswer(inbox) => OneAnswer(inbox)',
         NoAnswer(backlog) => NoAnswer(backlog)', OneAnswer(backlog) => OneAnswer(backlog)'
  PROVE  OneStart' /\ RunIsShown'
<1>1. OneStart'
  BY DEF OneStart, Waiting
<1>2. RunIsShown'
  BY DEF RunIsShown
<1> QED BY <1>1, <1>2

LEMMA StopBeginStep ==
  ASSUME BridgeInv, StopBegin
  PROVE  BridgeInv'
<1> USE DEF BridgeInv
<1>1. /\ command = Free /\ stops > 0 /\ stops' = stops - 1
      /\ UNCHANGED <<starts, backlog, activeId, starting, clicks, mishaps>>
  BY DEF StopBegin, page
<1>2. /\ running' = None
      /\ \/ inbox' = Append(inbox, Reply(FALSE)) /\ command' = command
         \/ /\ running # None /\ inbox' = inbox
            /\ command' = [step |-> "stopStreaming", mission |-> running]
  BY DEF StopBegin, Emit
<1>3. /\ inbox' \in Seq(ToPage)
      /\ NoAnswer(inbox) => NoAnswer(inbox)'
      /\ OneAnswer(inbox) => OneAnswer(inbox)'
  <2>1. CASE inbox' = Append(inbox, Reply(FALSE))
    BY <2>1, EmitReply
  <2>2. CASE inbox' = inbox
    BY <2>2 DEF Types, NoAnswer, OneAnswer
  <2> QED BY <1>2, <2>1, <2>2
<1>4. /\ command' \in CommandType /\ command'.step \notin StartSteps
      /\ command'.step # "free" => command'.mission \in Missions
  <2>1. CASE command' = command
    BY <1>1, <2>1 DEF CommandType, Free, StartSteps
  <2>2. CASE running # None /\ command' = [step |-> "stopStreaming", mission |-> running]
    <3>1. running \in Missions
      BY <2>2 DEF Types
    <3> QED BY <2>2, <3>1 DEF CommandType, StartSteps
  <2> QED BY <1>2, <2>1, <2>2
<1>5. Types'
  BY <1>1, <1>2, <1>3, <1>4 DEF Types
<1>6. BusTypes'
  BY <1>1 DEF BusTypes
<1>7. InOrder'
  <2> SUFFICES ASSUME OneStart, RunIsShown PROVE OneStart' /\ RunIsShown'
    BY <1>1 DEF InOrder
  <2>1. /\ NoAnswer(backlog) => NoAnswer(backlog)'
        /\ OneAnswer(backlog) => OneAnswer(backlog)'
    BY <1>1 DEF NoAnswer, OneAnswer
  <2> QED BY <1>1, <1>2, <1>3, <1>4, <2>1, NothingRuns
<1> QED BY <1>5, <1>6, <1>7

LEMMA StopDrainStep ==
  ASSUME BridgeInv, StopDrain
  PROVE  BridgeInv'
<1> USE DEF BridgeInv
<1>1. /\ command.step = "stopStreaming" /\ command' = [command EXCEPT !.step = "stop"]
      /\ UNCHANGED <<starts, stops, running, backlog, inbox, activeId, starting, clicks, mishaps>>
  BY DEF StopDrain, page
<1>2. /\ command' \in CommandType /\ command'.step = "stop"
      /\ command'.mission = command.mission
  BY <1>1 DEF Types, CommandType
<1>3. Types' /\ BusTypes'
  BY <1>1, <1>2 DEF Types, BusTypes
<1>4. InOrder'
  BY <1>1, <1>2 DEF InOrder, OneStart, RunIsShown, Waiting, StartSteps, NoAnswer, OneAnswer,
     NoError, NoEnd, EndsComeFirst
<1> QED BY <1>3, <1>4

LEMMA StopFailStep ==
  ASSUME BridgeInv, StopFail
  PROVE  BridgeInv'
<1> USE DEF BridgeInv
<1>1. /\ command.step = "stop" /\ inbox' = Append(inbox, Reply(FALSE)) /\ command' = Free
      /\ UNCHANGED <<starts, stops, running, backlog, activeId, starting, clicks>>
  BY DEF StopFail, Emit, page
<1>2. mishaps' = mishaps \cup {"stopFailed"}
  BY DEF StopFail
<1>3. /\ inbox' \in Seq(ToPage)
      /\ NoAnswer(inbox) => NoAnswer(inbox)'
      /\ OneAnswer(inbox) => OneAnswer(inbox)'
  BY <1>1, EmitReply
<1>4. command' \in CommandType /\ command'.step = "free"
  BY <1>1 DEF CommandType, Free
<1>5. Types' /\ BusTypes'
  BY <1>1, <1>2, <1>3, <1>4 DEF Types, BusTypes
<1>6. InOrder'
  <2> SUFFICES ASSUME OneStart, RunIsShown PROVE OneStart' /\ RunIsShown'
    BY <1>2 DEF InOrder
  <2>1. running' = None
    BY <1>1 DEF OneStart
  <2>2. /\ NoAnswer(backlog) => NoAnswer(backlog)'
        /\ OneAnswer(backlog) => OneAnswer(backlog)'
    BY <1>1 DEF NoAnswer, OneAnswer
  <2> QED BY <1>1, <1>3, <1>4, <2>1, <2>2, NothingRuns DEF StartSteps
<1> QED BY <1>5, <1>6

LEMMA StopPublishStep ==
  ASSUME BridgeInv, StopPublish
  PROVE  BridgeInv'
<1> USE DEF BridgeInv
<1> DEFINE ev == State("Stopped", command.mission)
<1>1. /\ command.step = "stop" /\ Publish(ev)
      /\ inbox' = Append(inbox, Reply(TRUE)) /\ command' = Free
      /\ UNCHANGED <<starts, stops, running, activeId, starting, clicks>>
  BY DEF StopPublish, Emit, page
<1>2. ev \in ToBridge /\ ev.kind \notin EndsAStart
  BY <1>1 DEF Types, State, ToBridge, PhaseEvents, EndsAStart
<1> HIDE DEF ev
<1>3. BusTypes' /\ ("reordered" \in mishaps' <=> "reordered" \in mishaps)
  BY <1>1, <1>2, PublishBacklog
<1>4. /\ NoAnswer(backlog) => NoAnswer(backlog)'
      /\ OneAnswer(backlog) => OneAnswer(backlog)'
  BY <1>1, <1>2, PublishHarmless
<1>5. /\ inbox' \in Seq(ToPage)
      /\ NoAnswer(inbox) => NoAnswer(inbox)'
      /\ OneAnswer(inbox) => OneAnswer(inbox)'
  BY <1>1, EmitReply
<1>6. command' \in CommandType /\ command'.step = "free"
  BY <1>1 DEF CommandType, Free
<1>7. Types'
  BY <1>1, <1>5, <1>6 DEF Types
<1>8. InOrder'
  <2> SUFFICES ASSUME OneStart, RunIsShown PROVE OneStart' /\ RunIsShown'
    BY <1>3 DEF InOrder
  <2>1. running' = None
    BY <1>1 DEF OneStart
  <2> QED BY <1>1, <1>4, <1>5, <1>6, <2>1, NothingRuns DEF StartSteps
<1> QED BY <1>3, <1>7, <1>8

----------------------------------------------------------------------------
(* The bus, the bridge and the page *)

LEMMA TelemetryStep ==
  ASSUME BridgeInv, Telemetry
  PROVE  BridgeInv'
<1> USE DEF BridgeInv
<1>1. /\ Publish(Psd)
      /\ UNCHANGED <<starts, stops, command, running, inbox, activeId, starting, clicks>>
  BY DEF Telemetry, backend, page
<1>2. Psd \in ToBridge /\ Psd.kind \notin EndsAStart /\ Psd.kind \notin EndsARun
  BY DEF Psd, ToBridge, EndsAStart, EndsARun
<1>3. BusTypes' /\ ("reordered" \in mishaps' <=> "reordered" \in mishaps)
  BY <1>1, <1>2, PublishBacklog
<1>4. /\ NoAnswer(backlog) => NoAnswer(backlog)'
      /\ OneAnswer(backlog) => OneAnswer(backlog)'
      /\ NoEnd(backlog) => NoEnd(backlog)'
      /\ EndsComeFirst(backlog) => EndsComeFirst(backlog)'
  BY <1>1, <1>2, PublishHarmless
<1>5. Types'
  BY <1>1 DEF Types
<1>6. InOrder'
  <2> SUFFICES ASSUME OneStart, RunIsShown PROVE OneStart' /\ RunIsShown'
    BY <1>3 DEF InOrder
  <2>1. /\ NoAnswer(inbox)' = NoAnswer(inbox) /\ OneAnswer(inbox)' = OneAnswer(inbox)
        /\ NoError(inbox)' = NoError(inbox) /\ NoEnd(inbox)' = NoEnd(inbox)
        /\ EndsComeFirst(inbox)' = EndsComeFirst(inbox)
    BY <1>1 DEF NoAnswer, OneAnswer, NoError, NoEnd, EndsComeFirst
  <2>2. OneStart'
    BY <1>1, <1>4, <2>1 DEF OneStart, Waiting
  <2>3. RunIsShown'
    BY <1>1, <1>4, <2>1 DEF RunIsShown
  <2> QED BY <2>2, <2>3
<1> QED BY <1>3, <1>5, <1>6

LEMMA BridgeReceiveStep ==
  ASSUME BridgeInv, BridgeReceive
  PROVE  BridgeInv'
<1> USE DEF BridgeInv
<1> DEFINE e == Head(backlog)
<1>1. /\ backlog # <<>> /\ backlog' = Tail(backlog)
      /\ inbox' = IF e = Psd THEN inbox ELSE Append(inbox, e)
      /\ UNCHANGED <<starts, stops, command, running, activeId, starting, clicks, mishaps>>
  BY DEF BridgeReceive, Emit, backend, page
<1>2. backlog \in Seq(ToBridge) /\ inbox \in Seq(ToPage)
  BY DEF Types, BusTypes
<1>3. /\ backlog' \in Seq(ToBridge) /\ Len(backlog') = Len(backlog) - 1 /\ e \in ToBridge
  BY <1>1, <1>2, TailEvents
<1>4. /\ e # Psd => e \in ToPage /\ e.kind # "mission_error"
      /\ Psd.kind \notin EndsAStart
  BY <1>3 DEF ToBridge, ToPage, PhaseEvents, Psd, EndsAStart
<1>5. /\ NoAnswer(backlog) => NoAnswer(backlog)' /\ e.kind \notin EndsAStart
      /\ OneAnswer(backlog) => OneAnswer(backlog)'
      /\ OneAnswer(backlog) /\ e.kind \in EndsAStart => NoAnswer(backlog)'
      /\ NoAnswer(backlog)' /\ e.kind \notin EndsAStart => NoAnswer(backlog)
      /\ NoEnd(backlog) => NoEnd(backlog)' /\ e.kind \notin EndsARun
      /\ EndsComeFirst(backlog) => EndsComeFirst(backlog)'
      /\ EndsComeFirst(backlog) /\ e.kind = "Running" => NoEnd(backlog)'
  <2>1. /\ NoAnswer(backlog)' = NoAnswer(Tail(backlog)) /\ OneAnswer(backlog)' = OneAnswer(Tail(backlog))
        /\ NoEnd(backlog)' = NoEnd(Tail(backlog))
        /\ EndsComeFirst(backlog)' = EndsComeFirst(Tail(backlog))
    BY <1>1 DEF NoAnswer, OneAnswer, NoEnd, EndsComeFirst
  <2> HIDE DEF e
  <2>2. e = Head(backlog)
    BY DEF e
  <2> QED BY <1>1, <1>2, <2>1, <2>2, TailEvents
<1> HIDE DEF e
<1>6. BusTypes'
  <2>1. Len(backlog) \in Nat
    BY <1>2
  <2> QED BY <1>1, <1>3, <2>1, ConstantsAssumption DEF BusTypes
<1>7. Types'
  <2>1. inbox' \in Seq(ToPage)
    BY <1>1, <1>2, <1>4
  <2> QED BY <1>1, <2>1 DEF Types
<1>8. InOrder'
  <2> SUFFICES ASSUME OneStart, RunIsShown PROVE OneStart' /\ RunIsShown'
    BY <1>1 DEF InOrder
  <2>1. CASE e = Psd
    <3>1. /\ NoAnswer(inbox)' = NoAnswer(inbox) /\ OneAnswer(inbox)' = OneAnswer(inbox)
          /\ NoError(inbox)' = NoError(inbox) /\ NoEnd(inbox)' = NoEnd(inbox)
          /\ EndsComeFirst(inbox)' = EndsComeFirst(inbox)
      BY <1>1, <2>1 DEF NoAnswer, OneAnswer, NoError, NoEnd, EndsComeFirst
    <3>2. e.kind \notin EndsAStart
      BY <1>4, <2>1
    <3>3. OneStart'
      BY <1>1, <1>5, <3>1, <3>2 DEF OneStart, Waiting
    <3>4. RunIsShown'
      BY <1>1, <1>5, <3>1, <3>2 DEF RunIsShown
    <3> QED BY <3>3, <3>4
  <2>2. CASE e # Psd
    <3>1. /\ NoAnswer(inbox) /\ e.kind \notin EndsAStart => NoAnswer(inbox)'
          /\ NoAnswer(inbox) => OneAnswer(inbox)'
          /\ OneAnswer(inbox) /\ e.kind \notin EndsAStart => OneAnswer(inbox)'
          /\ NoError(inbox) => NoError(inbox)'
          /\ NoEnd(inbox) /\ e.kind \notin EndsARun => NoEnd(inbox)'
          /\ EndsComeFirst(inbox) /\ e.kind \notin EndsARun => EndsComeFirst(inbox)'
          /\ NoAnswer(inbox) /\ e.kind # "Running" => EndsComeFirst(inbox)'
      <4>1. inbox' = Append(inbox, e) /\ e \in ToPage /\ e.kind # "mission_error"
        BY <1>1, <1>4, <2>2
      <4>2. /\ NoAnswer(inbox)' = NoAnswer(Append(inbox, e))
            /\ OneAnswer(inbox)' = OneAnswer(Append(inbox, e))
            /\ NoError(inbox)' = NoError(Append(inbox, e))
            /\ NoEnd(inbox)' = NoEnd(Append(inbox, e))
            /\ EndsComeFirst(inbox)' = EndsComeFirst(Append(inbox, e))
        BY <4>1 DEF NoAnswer, OneAnswer, NoError, NoEnd, EndsComeFirst
      <4> QED BY <1>2, <4>1, <4>2, AppendEvent
    <3>2. e.kind \in EndsAStart => e.kind = "Running"
      BY <1>4, <2>2 DEF EndsAStart
    <3>3. OneStart'
      BY <1>1, <1>5, <3>1 DEF OneStart, Waiting
    <3>4. e.kind = "Running" => e.kind \in EndsAStart /\ e.kind \notin EndsARun
      BY DEF EndsAStart, EndsARun
    <3>5. CASE running = None
      BY <1>1, <3>3, <3>5 DEF RunIsShown
    <3>6. CASE running # None /\ e.kind = "Running"
      <4>1. NoEnd(backlog)' /\ EndsComeFirst(inbox)' /\ EndsComeFirst(backlog)' /\ NoError(inbox)'
        BY <1>5, <3>1, <3>4, <3>6 DEF RunIsShown
      <4>2. activeId = None
        BY <1>5, <3>4, <3>6 DEF OneStart, RunIsShown
      <4> QED BY <1>1, <3>3, <4>1, <4>2 DEF RunIsShown
    <3>7. CASE running # None /\ e.kind # "Running"
      <4>1. NoError(inbox)' /\ EndsComeFirst(backlog)'
        BY <1>5, <3>1, <3>7 DEF RunIsShown
      <4>2. activeId # None => NoEnd(inbox)' /\ NoEnd(backlog)'
        BY <1>5, <3>1, <3>7 DEF RunIsShown
      <4>3. ~NoAnswer(inbox)' => NoEnd(backlog)'
        BY <1>5, <3>1, <3>2, <3>7 DEF RunIsShown
      <4>4. EndsComeFirst(inbox)'
        BY <1>5, <3>1, <3>7 DEF RunIsShown
      <4> QED BY <1>1, <3>3, <3>7, <4>1, <4>2, <4>3, <4>4 DEF RunIsShown
    <3> QED BY <3>3, <3>5, <3>6, <3>7
  <2> QED BY <2>1, <2>2
<1> QED BY <1>6, <1>7, <1>8

\* The page handles the oldest event or reply.
LEMMA PageHandleOldest ==
  ASSUME Types, OneStart, RunIsShown, inbox # <<>>, inbox' = Tail(inbox), Handle(Head(inbox)),
         Head(inbox).kind = "Running" => Head(inbox).mission # None,
         UNCHANGED <<starts, command, running, backlog>>
  PROVE  OneStart' /\ RunIsShown'
<1> DEFINE e == Head(inbox)
<1>1. /\ activeId' = IF e.kind = "Running" THEN e.mission
                     ELSE IF e.kind \in EndsARun THEN None ELSE activeId
      /\ starting' = TRUE <=> starting = TRUE /\ e.kind \notin EndsAStart
  BY DEF Handle, EndsARun, EndsAStart, Types
<1>2. /\ NoAnswer(inbox) => NoAnswer(inbox)' /\ e.kind \notin EndsAStart
      /\ OneAnswer(inbox) => OneAnswer(inbox)'
      /\ OneAnswer(inbox) /\ e.kind \in EndsAStart => NoAnswer(inbox)'
      /\ NoError(inbox) => NoError(inbox)' /\ e.kind # "mission_error"
      /\ NoEnd(inbox) => NoEnd(inbox)' /\ e.kind \notin EndsARun
      /\ EndsComeFirst(inbox) => EndsComeFirst(inbox)'
      /\ EndsComeFirst(inbox) /\ e.kind = "Running" => NoEnd(inbox)'
  <2>1. /\ NoAnswer(inbox)' = NoAnswer(Tail(inbox)) /\ OneAnswer(inbox)' = OneAnswer(Tail(inbox))
        /\ NoError(inbox)' = NoError(Tail(inbox)) /\ NoEnd(inbox)' = NoEnd(Tail(inbox))
        /\ EndsComeFirst(inbox)' = EndsComeFirst(Tail(inbox))
    BY DEF NoAnswer, OneAnswer, NoError, NoEnd, EndsComeFirst
  <2>2. inbox \in Seq(ToPage)
    BY DEF Types
  <2> HIDE DEF e
  <2>3. e = Head(inbox)
    BY DEF e
  <2> QED BY <2>1, <2>2, <2>3, TailEvents
<1>3. e.kind = "Running" => e.mission # None
  OBVIOUS
<1> HIDE DEF e
<1>4. /\ NoAnswer(backlog)' = NoAnswer(backlog) /\ OneAnswer(backlog)' = OneAnswer(backlog)
      /\ NoEnd(backlog)' = NoEnd(backlog) /\ EndsComeFirst(backlog)' = EndsComeFirst(backlog)
  BY DEF NoAnswer, OneAnswer, NoEnd, EndsComeFirst
<1>5. CASE e.kind \in EndsAStart
  <2>1. ~NoAnswer(inbox) /\ NoAnswer(inbox)'
    BY <1>2, <1>5 DEF OneStart
  <2>2. /\ starts = <<>> /\ command.step \notin StartSteps
        /\ NoAnswer(backlog) /\ starting = TRUE /\ activeId = None
    BY <2>1 DEF OneStart, RunIsShown, Waiting
  <2>3. OneStart'
    BY <1>2, <1>4, <2>1, <2>2 DEF OneStart
  <2>4. starting' # TRUE
    BY <1>1, <1>5
  <2>5. CASE running = None
    BY <2>3, <2>4, <2>5 DEF RunIsShown
  <2>6. CASE running # None
    <3>1. e.kind = "Running"
      BY <1>2, <1>5, <2>6 DEF RunIsShown, EndsAStart
    <3>2. activeId' # None
      BY <1>1, <1>3, <3>1
    <3>3. NoEnd(inbox)' /\ NoEnd(backlog)'
      BY <1>2, <1>4, <2>1, <2>6, <3>1 DEF RunIsShown
    <3>4. NoError(inbox)' /\ EndsComeFirst(inbox)' /\ EndsComeFirst(backlog)'
      BY <1>2, <1>4, <2>6 DEF RunIsShown
    <3> QED BY <2>3, <2>4, <3>2, <3>3, <3>4 DEF RunIsShown
  <2> QED BY <2>5, <2>6
<1>6. CASE e.kind \notin EndsAStart
  <2>1. e.kind # "Running" /\ (starting' = TRUE <=> starting = TRUE)
    BY <1>1, <1>6 DEF EndsAStart
  <2>2. ~NoAnswer(inbox)' => ~NoAnswer(inbox)
    BY <1>2
  <2>3. OneStart'
    BY <1>2, <1>4, <2>1, <2>2 DEF OneStart, Waiting
  <2>4. CASE e.kind \in EndsARun
    <3>1. activeId' = None
      BY <1>1, <2>1, <2>4
    <3>2. running # None => starting = TRUE
      BY <1>2, <2>4 DEF RunIsShown
    <3> QED BY <1>2, <1>4, <2>1, <2>2, <2>3, <3>1, <3>2 DEF RunIsShown
  <2>5. CASE e.kind \notin EndsARun
    <3>1. activeId' = activeId
      BY <1>1, <2>1, <2>5
    <3> QED BY <1>2, <1>4, <2>1, <2>2, <2>3, <3>1 DEF RunIsShown
  <2> QED BY <2>4, <2>5
<1> QED BY <1>5, <1>6

LEMMA PageHandleStep ==
  ASSUME BridgeInv, NEW i \in DOMAIN inbox, PageHandle(i)
  PROVE  BridgeInv'
<1> USE DEF BridgeInv
<1>1. /\ Handle(inbox[i]) /\ inbox' = RemoveAt(inbox, i)
      /\ UNCHANGED <<starts, stops, command, running, backlog, clicks>>
  BY DEF PageHandle, backend
<1>2. mishaps' = mishaps \cup (IF i = 1 THEN {} ELSE {"reordered"})
  BY DEF PageHandle
<1>3. /\ inbox \in Seq(ToPage) /\ i \in 1..Len(inbox) /\ inbox[i] \in ToPage
      /\ inbox' \in Seq(ToPage) /\ (i = 1 => inbox' = Tail(inbox))
  BY <1>1, RemoveType DEF Types
<1>4. inbox[i].kind = "Running" => inbox[i].mission \in Missions
  BY <1>3 DEF ToPage, PhaseEvents, Replies, Reply, Error
<1>5. Types'
  <2>1. activeId' \in Missions \cup {None}
    BY <1>1, <1>4 DEF Handle, Types
  <2>2. starting' \in BOOLEAN
    BY <1>1 DEF Handle
  <2> QED BY <1>1, <1>3, <2>1, <2>2 DEF Types
<1>6. BusTypes'
  BY <1>1, <1>2 DEF BusTypes
<1>7. InOrder'
  <2> SUFFICES ASSUME "reordered" \notin mishaps' PROVE OneStart' /\ RunIsShown'
    BY DEF InOrder
  <2>1. i = 1 /\ "reordered" \notin mishaps
    BY <1>2
  <2>2. /\ OneStart /\ RunIsShown /\ inbox # <<>> /\ inbox' = Tail(inbox)
        /\ Handle(Head(inbox))
    BY <1>1, <1>3, <2>1 DEF InOrder
  <2>3. Head(inbox).kind = "Running" => Head(inbox).mission # None
    BY <1>3, <1>4, <2>1, ConstantsAssumption
  <2> QED BY <1>1, <2>2, <2>3, PageHandleOldest
<1> QED BY <1>5, <1>6, <1>7

LEMMA ClickStartStep ==
  ASSUME BridgeInv, NEW m \in Missions, ClickStart(m)
  PROVE  BridgeInv'
<1> USE DEF BridgeInv
<1>1. /\ clicks < MaxClicks /\ activeId = None /\ starting = FALSE
      /\ starting' = TRUE /\ starts' = Append(starts, m) /\ clicks' = clicks + 1
      /\ UNCHANGED <<stops, command, running, backlog, inbox, activeId, mishaps>>
  BY DEF ClickStart, CanStart, Types
<1>2. starting # TRUE
  BY <1>1
<1>3. starts' \in Seq(Missions) /\ Len(starts') = Len(starts) + 1 /\ starts' # <<>>
  BY <1>1 DEF Types
<1>4. Types'
  BY <1>1, <1>3, ConstantsAssumption DEF Types
<1>5. BusTypes'
  BY <1>1 DEF BusTypes
<1>6. InOrder'
  <2> SUFFICES ASSUME OneStart, RunIsShown PROVE OneStart' /\ RunIsShown'
    BY <1>1 DEF InOrder
  <2>1. /\ starts = <<>> /\ command.step \notin StartSteps /\ running = None
        /\ NoAnswer(inbox) /\ NoAnswer(backlog)
    BY <1>1, <1>2 DEF OneStart, RunIsShown, Waiting
  <2>2. /\ NoAnswer(inbox)' /\ NoAnswer(backlog)' /\ OneAnswer(inbox)' /\ OneAnswer(backlog)'
    BY <1>1, <2>1 DEF OneStart, NoAnswer, OneAnswer
  <2>3. Waiting'
    BY <1>1, <2>1, <2>2 DEF Waiting
  <2>4. OneStart'
    BY <1>1, <1>3, <2>1, <2>2, <2>3 DEF OneStart
  <2>5. RunIsShown'
    BY <1>1, <2>1 DEF RunIsShown
  <2> QED BY <2>4, <2>5
<1> QED BY <1>4, <1>5, <1>6

LEMMA ClickStopStep ==
  ASSUME BridgeInv, ClickStop
  PROVE  BridgeInv'
<1> USE DEF BridgeInv
<1>1. /\ clicks < MaxClicks /\ stops' = stops + 1 /\ clicks' = clicks + 1
      /\ UNCHANGED <<starts, command, running, backlog, inbox, activeId, starting, mishaps>>
  BY DEF ClickStop
<1>2. Types' /\ BusTypes'
  BY <1>1, ConstantsAssumption DEF Types, BusTypes
<1>3. InOrder'
  BY <1>1 DEF InOrder, OneStart, RunIsShown, Waiting, NoAnswer, OneAnswer, NoError, NoEnd,
     EndsComeFirst
<1> QED BY <1>2, <1>3

LEMMA BridgeInvHolds == Spec => []BridgeInv
<1>1. BridgeInv /\ [Next]_vars => BridgeInv'
  <2> SUFFICES ASSUME BridgeInv, [Next]_vars PROVE BridgeInv'
    OBVIOUS
  <2>1. CASE Command
    BY <2>1, StartBeginStep, StartFailStep, StartStreamStep, StartPublishStep,
       StopBeginStep, StopDrainStep, StopPublishStep, StopFailStep DEF Command
  <2>2. CASE Page
    BY <2>2, PageHandleStep DEF Page
  <2>3. ASSUME NEW m \in Missions, ClickStart(m) PROVE BridgeInv'
    BY <2>3, ClickStartStep
  <2>4. CASE UNCHANGED vars
    BY <2>4 DEF vars, backend, page, BridgeInv, Types, BusTypes, InOrder, OneStart, RunIsShown,
       Waiting, NoAnswer, OneAnswer, NoError, NoEnd, EndsComeFirst
  <2> QED BY <2>1, <2>2, <2>3, <2>4, TelemetryStep, BridgeReceiveStep, ClickStopStep DEF Next
<1> QED BY <1>1, InitBridgeInv, PTL DEF Spec

----------------------------------------------------------------------------

(* Every variable stays within its type, and the bus within its capacity.   *)
THEOREM BridgeTypeCorrect == Spec => []TypeOK
<1>1. BridgeInv => TypeOK
  <2> SUFFICES ASSUME BridgeInv PROVE TypeOK
    OBVIOUS
  <2>1. stops \in 0..MaxClicks /\ clicks \in 0..MaxClicks
    BY ConstantsAssumption DEF BridgeInv, Types
  <2> QED BY <2>1 DEF BridgeInv, Types, BusTypes, TypeOK, CommandType, ToPage, ToBridge
<1> QED BY <1>1, BridgeInvHolds, PTL

(* However old the events are that the page goes by, whatever the broadcast *)
(* overwrites and whichever stop fails: it never asks for a start while     *)
(* another one is under way or a mission runs, as long as no reply passes   *)
(* an event or is passed by one.                                            *)
THEOREM StartsAreGrantedHolds == Spec => []StartsAreGranted
<1>1. BridgeInv => StartsAreGranted
  BY DEF BridgeInv, InOrder, OneStart, Waiting, StartSteps, StartsAreGranted
<1> QED BY <1>1, BridgeInvHolds, PTL
=============================================================================
