------------------------ MODULE DeviceRegistryProofs ------------------------
(* The registry's invariants for any number of SDRs, callers and missions,  *)
(* however often SDRs come and go and whatever the driver refuses.          *)
EXTENDS DeviceRegistry, FiniteSetTheorems, TLAPS

ThreadType ==
  [step : Steps, then : {"claim", "open", "return"}, seen : SUBSET Devices,
   fresh : BOOLEAN, claim : SUBSET Claims]

RegistryTypes ==
  /\ plugged \subseteq Devices /\ plugs \in 0..MaxPlugs
  /\ state \in [Devices -> States \cup {"unknown"}]
  /\ enabled \in [Devices -> BOOLEAN]
  /\ tuning \in [Devices -> Tuning]
  /\ handle \in [Devices -> Tuning \cup {Closed}]

StreamTypes ==
  /\ stream \in [Devices -> Tuning \cup {Closed}]
  /\ lease \subseteq Devices /\ leases \in 0..MaxLeases

ThreadTypes == thread \in [Threads -> ThreadType] /\ shown \in BOOLEAN

\* A thread holds a claim only on its way to set the result, and one at most.
WorksOnClaim(r) ==
  r.claim # {} =>
    \/ r.step = "open"
    \/ r.step \in {"emit", "publish"} /\ r.then = "open"

ClaimsAreWorkedOn ==
  \A t \in Threads :
    /\ WorksOnClaim(thread[t])
    /\ \A c, e \in thread[t].claim : c = e

RegistryInv ==
  /\ RegistryTypes /\ StreamTypes /\ ThreadTypes
  /\ ClaimsAreWorkedOn
  /\ OpeningHasOpener /\ ReadyIsHeldOpen
----------------------------------------------------------------------------
(* What a thread goes on with *)

LEMMA TuningIsNotClosed ==
  ASSUME NEW g \in Gains, NEW r \in Rates
  PROVE  [gain |-> g, rate |-> r] \in Tuning /\ [gain |-> g, rate |-> r] # Closed
BY ConstantsAssumption DEF Tuning

LEMMA HoldingType ==
  ASSUME NEW step \in Steps
  PROVE  /\ Holding(step) \in ThreadType
         /\ Holding(step).step = step /\ Holding(step).claim = {}
BY DEF Holding, ThreadType

LEMMA EmitType ==
  ASSUME NEW then \in {"claim", "open", "return"}, NEW claim \in SUBSET Claims
  PROVE  /\ Emit(then, claim) \in ThreadType
         /\ Emit(then, claim).step = "emit" /\ Emit(then, claim).then = then
         /\ Emit(then, claim).claim = claim
<1> DEFINE a == [Holding("emit") EXCEPT !.then = then]
           b == [a EXCEPT !.claim = claim]
<1>1. "emit" \in Steps
  BY DEF Steps
<1>2. /\ a \in ThreadType /\ a.step = "emit" /\ a.then = then
  BY <1>1, HoldingType DEF ThreadType
<1>3. Emit(then, claim) = b
  BY DEF Emit
<1> HIDE DEF a
<1>4. b \in ThreadType /\ b.step = "emit" /\ b.then = then /\ b.claim = claim
  BY <1>2 DEF ThreadType
<1> QED BY <1>3, <1>4

\* Goto and GotoAfterChange move thread t; the others keep what they hold.
LEMMA ThreadMoves ==
  ASSUME ThreadTypes, NEW t \in Threads, NEW next \in ThreadType,
         Goto(t, next) \/ GotoAfterChange(t, next)
  PROVE  /\ ThreadTypes'
         /\ thread'[t] = next
         /\ \A u \in Threads \ {t} :
              /\ thread'[u].step = thread[u].step /\ thread'[u].then = thread[u].then
              /\ thread'[u].claim = thread[u].claim /\ thread'[u].seen = thread[u].seen
<1>1. CASE Goto(t, next)
  <2>1. thread' = [thread EXCEPT ![t] = next] /\ shown' = shown
    BY <1>1 DEF Goto
  <2> QED BY <2>1 DEF ThreadTypes
<1>2. CASE GotoAfterChange(t, next)
  <2> DEFINE same == registry' = registry
             other(u) == [thread[u] EXCEPT !.fresh = @ /\ same]
  <2>1. /\ thread' = [u \in Threads |-> IF u = t THEN next ELSE other(u)]
        /\ shown' = (shown /\ same)
    BY <1>2 DEF GotoAfterChange
  <2>2. ASSUME NEW u \in Threads
        PROVE  /\ other(u) \in ThreadType
               /\ other(u).step = thread[u].step /\ other(u).then = thread[u].then
               /\ other(u).claim = thread[u].claim /\ other(u).seen = thread[u].seen
    <3>1. thread[u] \in ThreadType
      BY DEF ThreadTypes
    <3>2. (thread[u].fresh /\ same) \in BOOLEAN
      OBVIOUS
    <3> HIDE DEF same
    <3> QED BY <3>1, <3>2 DEF ThreadType
  <2>3. (shown /\ same) \in BOOLEAN
    OBVIOUS
  <2> HIDE DEF same, other
  <2> QED BY <2>1, <2>2, <2>3 DEF ThreadTypes
<1> QED BY <1>1, <1>2

\* A thread that holds no claim and goes on without one, while no device comes
\* to Opening, leaves the claims in order.
LEMMA ClaimsUndisturbed ==
  ASSUME ThreadTypes, ClaimsAreWorkedOn, OpeningHasOpener,
         NEW t \in Threads, NEW next \in ThreadType,
         Goto(t, next) \/ GotoAfterChange(t, next),
         thread[t].claim = {}, next.claim = {},
         \A d \in Devices : state'[d] = "Opening" => state[d] = "Opening"
  PROVE  ThreadTypes' /\ ClaimsAreWorkedOn' /\ OpeningHasOpener'
<1>1. /\ ThreadTypes' /\ thread'[t] = next
      /\ \A u \in Threads \ {t} :
           /\ thread'[u].step = thread[u].step /\ thread'[u].then = thread[u].then
           /\ thread'[u].claim = thread[u].claim
  BY ThreadMoves
<1>2. ClaimsAreWorkedOn'
  BY <1>1 DEF ClaimsAreWorkedOn, WorksOnClaim
<1>3. OpeningHasOpener'
  <2> SUFFICES ASSUME NEW d \in Devices, state'[d] = "Opening" PROVE OpenersOf(d)' # {}
    BY DEF OpeningHasOpener
  <2>1. PICK u \in Threads : \E c \in thread[u].claim : c.dev = d
    BY DEF OpeningHasOpener, OpenersOf
  <2>2. \E c \in thread'[u].claim : c.dev = d
    BY <1>1, <2>1
  <2> QED BY <2>2 DEF OpenersOf
<1> QED BY <1>1, <1>2, <1>3

----------------------------------------------------------------------------

LEMMA InitRegistryInv == Init => RegistryInv
<1> SUFFICES ASSUME Init PROVE RegistryInv
  OBVIOUS
<1>1. (CHOOSE x \in Tuning : TRUE) \in Tuning
  <2>1. \E x \in Tuning : TRUE
    <3>1. PICK g \in Gains, r \in Rates : TRUE
      BY ConstantsAssumption
    <3> QED BY TuningIsNotClosed
  <2> QED BY <2>1
<1>2. RegistryTypes
  BY <1>1, ConstantsAssumption DEF Init, RegistryTypes, States
<1>3. StreamTypes
  BY ConstantsAssumption DEF Init, StreamTypes
<1>4. \A t \in Threads : Beginning(t) \in Steps
  BY DEF Beginning, Steps
<1>5. \A t \in Threads : thread[t] = Holding(Beginning(t))
  BY DEF Init
<1>6. \A t \in Threads : thread[t] \in ThreadType /\ thread[t].claim = {}
  BY <1>4, <1>5, HoldingType
<1>7. ThreadTypes
  <2>1. thread \in [Threads -> ThreadType]
    BY <1>4, HoldingType DEF Init
  <2>2. shown \in BOOLEAN
    BY DEF Init
  <2> QED BY <2>1, <2>2 DEF ThreadTypes
<1>8. ClaimsAreWorkedOn
  BY <1>6 DEF ClaimsAreWorkedOn, WorksOnClaim
<1>9. OpeningHasOpener /\ ReadyIsHeldOpen
  BY DEF Init, OpeningHasOpener, ReadyIsHeldOpen
<1> QED BY <1>2, <1>3, <1>7, <1>8, <1>9 DEF RegistryInv

LEMMA EnumerateStep ==
  ASSUME RegistryInv, NEW t \in Threads, Enumerate(t)
  PROVE  RegistryInv'
<1> USE DEF RegistryInv
<1> DEFINE next == [Holding("diff") EXCEPT !.seen = plugged]
<1>1. /\ Goto(t, next) /\ thread[t].step = Beginning(t)
      /\ UNCHANGED <<plugged, plugs, state, enabled, tuning, handle, stream, lease, leases>>
  BY DEF Enumerate, At, world, registry, streams
<1>2. thread[t].claim = {}
  BY <1>1 DEF ClaimsAreWorkedOn, WorksOnClaim, Beginning
<1>3. next \in ThreadType /\ next.claim = {}
  BY DEF RegistryTypes, Holding, ThreadType, Steps
<1> HIDE DEF next
<1>4. ThreadTypes' /\ ClaimsAreWorkedOn' /\ OpeningHasOpener'
  BY <1>1, <1>2, <1>3, ClaimsUndisturbed
<1>5. RegistryTypes' /\ StreamTypes' /\ ReadyIsHeldOpen'
  BY <1>1 DEF RegistryTypes, StreamTypes, ReadyIsHeldOpen
<1> QED BY <1>4, <1>5

LEMMA DiffStep ==
  ASSUME RegistryInv, NEW t \in Threads, Diff(t)
  PROVE  RegistryInv'
<1> USE DEF RegistryInv
<1> DEFINE seen == thread[t].seen
<1>1. /\ thread[t].step = "diff"
      /\ state' = [d \in Devices |-> Diffed(seen, d)]
      /\ handle' = [d \in Devices |-> IF d \in seen \/ state[d] = "Disconnected"
                                    THEN handle[d] ELSE Closed]
      /\ UNCHANGED <<plugged, plugs, enabled, tuning, stream, lease, leases>>
      /\ GotoAfterChange(t, Emit("claim", {}))
  BY DEF Diff, At, Announce, world, streams
<1>2. thread[t].claim = {}
  BY <1>1 DEF ClaimsAreWorkedOn, WorksOnClaim
<1>3. Emit("claim", {}) \in ThreadType /\ Emit("claim", {}).claim = {}
  BY EmitType
<1>4. ASSUME NEW d \in Devices
      PROVE  /\ state'[d] = Diffed(seen, d) /\ Diffed(seen, d) \in States \cup {"unknown"}
             /\ state'[d] = "Opening" => state[d] = "Opening"
             /\ state'[d] = "Ready" => state[d] = "Ready" /\ d \in seen
  BY <1>1 DEF Diffed, RegistryTypes, States
<1>5. ThreadTypes' /\ ClaimsAreWorkedOn' /\ OpeningHasOpener'
  BY <1>1, <1>2, <1>3, <1>4, ClaimsUndisturbed
<1>6. RegistryTypes'
  BY <1>1, <1>4 DEF RegistryTypes
<1>7. StreamTypes'
  BY <1>1 DEF StreamTypes
<1>8. ReadyIsHeldOpen'
  BY <1>1, <1>4 DEF ReadyIsHeldOpen
<1> QED BY <1>5, <1>6, <1>7, <1>8

\* A thread that keeps its claim, at a step where one may be held.
LEMMA ClaimKept ==
  ASSUME ThreadTypes, ClaimsAreWorkedOn, OpeningHasOpener, state' = state,
         NEW t \in Threads, NEW next \in ThreadType, thread' = [thread EXCEPT ![t] = next],
         shown' \in BOOLEAN, next.claim = thread[t].claim, WorksOnClaim(next)
  PROVE  ThreadTypes' /\ ClaimsAreWorkedOn' /\ OpeningHasOpener'
<1>1. thread'[t] = next /\ \A u \in Threads \ {t} : thread'[u] = thread[u]
  BY DEF ThreadTypes
<1>2. ThreadTypes'
  BY DEF ThreadTypes
<1>3. ClaimsAreWorkedOn'
  BY <1>1 DEF ClaimsAreWorkedOn, WorksOnClaim
<1>4. \A u \in Threads : thread'[u].claim = thread[u].claim
  BY <1>1
<1>5. OpeningHasOpener'
  BY <1>4 DEF OpeningHasOpener, OpenersOf
<1> QED BY <1>2, <1>3, <1>5

LEMMA SnapshotStep ==
  ASSUME RegistryInv, NEW t \in Threads, Snapshot(t)
  PROVE  RegistryInv'
<1> USE DEF RegistryInv
<1> DEFINE next == [thread[t] EXCEPT !.step = "publish", !.fresh = TRUE]
<1>1. /\ thread[t].step = "emit" /\ thread' = [thread EXCEPT ![t] = next] /\ shown' = shown
      /\ UNCHANGED <<plugged, plugs, state, enabled, tuning, handle, stream, lease, leases>>
  BY DEF Snapshot, At, Goto, world, registry, streams
<1>2. thread[t] \in ThreadType
  BY DEF ThreadTypes
<1>3. /\ next \in ThreadType /\ next.claim = thread[t].claim
      /\ next.step = "publish" /\ next.then = thread[t].then
  BY <1>2 DEF ThreadType, Steps
<1> HIDE DEF next
<1>4. thread[t].claim # {} => thread[t].then = "open"
  BY <1>1 DEF ClaimsAreWorkedOn, WorksOnClaim
<1>5. shown' \in BOOLEAN
  BY <1>1 DEF ThreadTypes
<1>6. ThreadTypes' /\ ClaimsAreWorkedOn' /\ OpeningHasOpener'
  BY <1>1, <1>3, <1>4, <1>5, ClaimKept DEF WorksOnClaim
<1>7. RegistryTypes' /\ StreamTypes' /\ ReadyIsHeldOpen'
  BY <1>1 DEF RegistryTypes, StreamTypes, ReadyIsHeldOpen
<1> QED BY <1>6, <1>7

LEMMA PublishStep ==
  ASSUME RegistryInv, NEW t \in Threads, Publish(t)
  PROVE  RegistryInv'
<1> USE DEF RegistryInv
<1> DEFINE next == IF thread[t].then = "return" THEN Holding(Ending(t))
                   ELSE [Holding(thread[t].then) EXCEPT !.claim = thread[t].claim]
<1>0. shown' = thread[t].fresh
  BY DEF Publish
<1>1. /\ thread[t].step = "publish" /\ thread' = [thread EXCEPT ![t] = next]
      /\ UNCHANGED <<plugged, plugs, state, enabled, tuning, handle, stream, lease, leases>>
  BY DEF Publish, At, world, registry, streams
<1>2. thread[t] \in ThreadType
  BY DEF ThreadTypes
<1>3. shown' \in BOOLEAN
  BY <1>0, <1>2 DEF ThreadType
<1>4. thread[t].claim # {} => thread[t].then = "open"
  BY <1>1 DEF ClaimsAreWorkedOn, WorksOnClaim
<1>5. /\ next \in ThreadType /\ next.claim = thread[t].claim
      /\ next.claim # {} => next.step = "open"
  <2>1. CASE thread[t].then = "return"
    <3>1. Ending(t) \in Steps
      BY DEF Ending, Steps
    <3> QED BY <1>4, <2>1, <3>1, HoldingType
  <2>2. CASE thread[t].then # "return"
    <3>1. thread[t].then \in {"claim", "open"} /\ thread[t].claim \in SUBSET Claims
      BY <1>2, <2>2 DEF ThreadType
    <3>2. Holding(thread[t].then) \in ThreadType /\ Holding(thread[t].then).step = thread[t].then
      BY <3>1, HoldingType DEF Steps
    <3>3. next = [Holding(thread[t].then) EXCEPT !.claim = thread[t].claim]
      BY <2>2
    <3> HIDE DEF next
    <3>4. /\ next \in ThreadType /\ next.claim = thread[t].claim
          /\ next.step = thread[t].then
      BY <3>1, <3>2, <3>3 DEF ThreadType
    <3> QED BY <1>4, <3>4
  <2> QED BY <2>1, <2>2
<1> HIDE DEF next
<1>6. ThreadTypes' /\ ClaimsAreWorkedOn' /\ OpeningHasOpener'
  <2>1. state' = state /\ thread' = [thread EXCEPT ![t] = next]
    BY <1>1
  <2>2. next \in ThreadType /\ next.claim = thread[t].claim
    BY <1>5
  <2>3. WorksOnClaim(next)
    BY <1>5 DEF WorksOnClaim
  <2> QED BY <1>3, <2>1, <2>2, <2>3, ClaimKept
<1>7. RegistryTypes' /\ StreamTypes' /\ ReadyIsHeldOpen'
  BY <1>1 DEF RegistryTypes, StreamTypes, ReadyIsHeldOpen
<1> QED BY <1>6, <1>7

\* The claim of thread t is new, or is given up with its device past Opening.
LEMMA ClaimChanges ==
  ASSUME ThreadTypes, ClaimsAreWorkedOn, OpeningHasOpener,
         NEW t \in Threads, NEW claim \in SUBSET Claims,
         NEW then \in {"claim", "open", "return"},
         GotoAfterChange(t, Emit(then, claim)),
         claim # {} => then = "open",
         \A c, e \in claim : c = e,
         \A d \in Devices : state'[d] = "Opening" =>
           \/ \E c \in claim : c.dev = d
           \/ state[d] = "Opening" /\ \A c \in thread[t].claim : c.dev # d
  PROVE  ThreadTypes' /\ ClaimsAreWorkedOn' /\ OpeningHasOpener'
<1> DEFINE next == Emit(then, claim)
<1>1. /\ next \in ThreadType /\ next.step = "emit" /\ next.then = then
      /\ next.claim = claim
  BY EmitType
<1> HIDE DEF next
<1>2. /\ ThreadTypes' /\ thread'[t] = next
      /\ \A u \in Threads \ {t} :
           /\ thread'[u].step = thread[u].step /\ thread'[u].then = thread[u].then
           /\ thread'[u].claim = thread[u].claim
  BY <1>1, ThreadMoves DEF next
<1>3. ClaimsAreWorkedOn'
  BY <1>1, <1>2 DEF ClaimsAreWorkedOn, WorksOnClaim
<1>4. OpeningHasOpener'
  <2> SUFFICES ASSUME NEW d \in Devices, state'[d] = "Opening" PROVE OpenersOf(d)' # {}
    BY DEF OpeningHasOpener
  <2>1. CASE \E c \in claim : c.dev = d
    BY <1>1, <1>2, <2>1 DEF OpenersOf
  <2>2. CASE state[d] = "Opening" /\ \A c \in thread[t].claim : c.dev # d
    <3>1. PICK u \in Threads : \E c \in thread[u].claim : c.dev = d
      BY <2>2 DEF OpeningHasOpener, OpenersOf
    <3>2. \E c \in thread'[u].claim : c.dev = d
      BY <1>2, <2>2, <3>1
    <3> QED BY <3>2 DEF OpenersOf
  <2> QED BY <2>1, <2>2
<1> QED BY <1>2, <1>3, <1>4

LEMMA ClaimStep ==
  ASSUME RegistryInv, NEW t \in Threads, Claim(t)
  PROVE  RegistryInv'
<1> USE DEF RegistryInv
<1>1. /\ thread[t].step = "claim"
      /\ UNCHANGED <<plugged, plugs, handle, stream, lease, leases>>
  BY DEF Claim, At, world, streams
<1>2. thread[t].claim = {}
  BY <1>1 DEF ClaimsAreWorkedOn, WorksOnClaim
<1>3. CASE Goto(t, Holding(Ending(t))) /\ UNCHANGED registry
  <2>1. Holding(Ending(t)) \in ThreadType /\ Holding(Ending(t)).claim = {}
    BY HoldingType DEF Ending, Steps
  <2>2. UNCHANGED <<state, enabled, tuning>>
    BY <1>3 DEF registry
  <2>3. ThreadTypes' /\ ClaimsAreWorkedOn' /\ OpeningHasOpener'
    BY <1>2, <1>3, <2>1, <2>2, ClaimsUndisturbed
  <2>4. RegistryTypes' /\ StreamTypes' /\ ReadyIsHeldOpen'
    BY <1>1, <2>2 DEF RegistryTypes, StreamTypes, ReadyIsHeldOpen
  <2> QED BY <2>3, <2>4
<1>4. ASSUME NEW d \in Devices, state' = [state EXCEPT ![d] = "Opening"],
             UNCHANGED <<enabled, tuning>>,
             GotoAfterChange(t, Emit("open", {[dev |-> d, tuning |-> tuning[d]]}))
      PROVE  RegistryInv'
  <2> DEFINE c == [dev |-> d, tuning |-> tuning[d]]
  <2>1. c \in Claims /\ c.dev = d
    BY DEF RegistryTypes, Claims
  <2> HIDE DEF c
  <2>2. GotoAfterChange(t, Emit("open", {c}))
    BY <1>4 DEF c
  <2>3. \A x \in Devices : state'[x] = "Opening" =>
          \/ \E e \in {c} : e.dev = x
          \/ state[x] = "Opening" /\ \A e \in thread[t].claim : e.dev # x
    BY <1>2, <1>4, <2>1 DEF RegistryTypes
  <2>4. ThreadTypes' /\ ClaimsAreWorkedOn' /\ OpeningHasOpener'
    BY <2>1, <2>2, <2>3, ClaimChanges
  <2>5. RegistryTypes' /\ ReadyIsHeldOpen'
    BY <1>1, <1>4 DEF RegistryTypes, ReadyIsHeldOpen, States
  <2>6. StreamTypes'
    BY <1>1 DEF StreamTypes
  <2> QED BY <2>4, <2>5, <2>6
<1> QED BY <1>3, <1>4 DEF Claim

LEMMA OpenStep ==
  ASSUME RegistryInv, NEW t \in Threads, Open(t)
  PROVE  RegistryInv'
<1> USE DEF RegistryInv
<1>1. PICK c \in thread[t].claim, ok \in BOOLEAN : Opened(c, ok)
  BY DEF Open
<1>2. /\ UNCHANGED <<plugged, plugs, enabled, tuning, stream, lease, leases>>
      /\ GotoAfterChange(t, Emit("claim", {}))
  BY DEF Open, world, streams
<1>3. thread[t].claim \subseteq Claims
  BY DEF ThreadTypes, ThreadType
<1>4. c.dev \in Devices /\ c.tuning \in Tuning /\ c.tuning # Closed
  BY <1>3, ConstantsAssumption DEF Claims, Tuning
<1>5. \A e \in thread[t].claim : e = c
  BY <1>1 DEF ClaimsAreWorkedOn, WorksOnClaim
<1>6. /\ state' = [state EXCEPT ![c.dev] = IF ok THEN "Ready" ELSE "Error"]
      /\ handle' = IF ok THEN [handle EXCEPT ![c.dev] = c.tuning] ELSE handle
  BY <1>1 DEF Opened
<1>7. \A d \in Devices : state'[d] = "Opening" =>
        state[d] = "Opening" /\ \A e \in thread[t].claim : e.dev # d
  BY <1>4, <1>5, <1>6 DEF RegistryTypes
<1>8. ThreadTypes' /\ ClaimsAreWorkedOn' /\ OpeningHasOpener'
  BY <1>2, <1>7, ClaimChanges
<1>9. RegistryTypes' /\ ReadyIsHeldOpen'
  BY <1>2, <1>4, <1>6 DEF RegistryTypes, ReadyIsHeldOpen, States
<1>10. StreamTypes'
  BY <1>2 DEF StreamTypes
<1> QED BY <1>8, <1>9, <1>10

LEMMA SetConfigStep ==
  ASSUME RegistryInv, NEW t \in Threads, SetConfig(t)
  PROVE  RegistryInv'
<1> USE DEF RegistryInv
<1>1. PICK d \in Devices, on \in BOOLEAN, new \in Tuning :
        /\ enabled' = [enabled EXCEPT ![d] = on]
        /\ tuning' = [tuning EXCEPT ![d] = new]
        /\ Reconfigure(d, new)
  BY DEF SetConfig
<1>2. /\ thread[t].step = "new"
      /\ UNCHANGED <<plugged, plugs, stream, lease, leases>>
      /\ GotoAfterChange(t, Emit("claim", {}))
  BY DEF SetConfig, At, world, streams
<1>3. thread[t].claim = {}
  BY <1>2 DEF ClaimsAreWorkedOn, WorksOnClaim
<1> DEFINE reopen == new.rate # tuning[d].rate /\ state[d] = "Ready"
<1>4. /\ state' = [state EXCEPT ![d] = IF reopen THEN "Detected" ELSE state[d]]
      /\ handle' = [handle EXCEPT ![d] = IF reopen \/ handle[d] = Closed THEN Closed
                                       ELSE [gain |-> new.gain, rate |-> handle[d].rate]]
  BY <1>1 DEF Reconfigure
<1>5. handle[d] # Closed => /\ [gain |-> new.gain, rate |-> handle[d].rate] \in Tuning
                            /\ [gain |-> new.gain, rate |-> handle[d].rate] # Closed
  <2> SUFFICES ASSUME handle[d] # Closed
               PROVE  new.gain \in Gains /\ handle[d].rate \in Rates
    BY TuningIsNotClosed
  <2>1. handle[d] \in Tuning
    BY DEF RegistryTypes
  <2> QED BY <2>1 DEF Tuning
<1> HIDE DEF reopen
<1>6. RegistryTypes'
  <2>1. state' \in [Devices -> States \cup {"unknown"}]
    BY <1>4 DEF RegistryTypes, States
  <2>2. handle' \in [Devices -> Tuning \cup {Closed}]
    BY <1>4, <1>5 DEF RegistryTypes
  <2> QED BY <1>1, <1>2, <2>1, <2>2 DEF RegistryTypes
<1>7. StreamTypes'
  BY <1>2 DEF StreamTypes
<1>8. ThreadTypes' /\ ClaimsAreWorkedOn' /\ OpeningHasOpener'
  <2>1. \A x \in Devices : state'[x] = "Opening" => state[x] = "Opening"
    BY <1>4 DEF RegistryTypes
  <2>2. Emit("claim", {}) \in ThreadType /\ Emit("claim", {}).claim = {}
    BY EmitType
  <2> QED BY <1>2, <1>3, <2>1, <2>2, ClaimsUndisturbed
<1>9. ReadyIsHeldOpen'
  <2> SUFFICES ASSUME NEW x \in Devices, state'[x] = "Ready" PROVE handle'[x] # Closed
    BY DEF ReadyIsHeldOpen
  <2>1. state[x] = "Ready" /\ (x = d => ~reopen)
    BY <1>4 DEF RegistryTypes
  <2> QED BY <1>4, <1>5, <2>1 DEF RegistryTypes, ReadyIsHeldOpen
<1> QED BY <1>6, <1>7, <1>8, <1>9

LEMMA AllocateStep ==
  ASSUME RegistryInv, Allocate
  PROVE  RegistryInv'
<1> USE DEF RegistryInv
<1> DEFINE ready == {d \in Devices : enabled[d] /\ state[d] = "Ready" /\ handle[d] # Closed}
<1>1. PICK failed \in SUBSET ready :
        /\ state' = [d \in Devices |-> IF d \in failed THEN "Error"
                                      ELSE IF d \in ready THEN Granted(d) ELSE state[d]]
        /\ handle' = [d \in Devices |-> IF d \in ready THEN Closed ELSE handle[d]]
        /\ lease' = ready \ failed
        /\ stream' = [d \in Devices |-> IF d \in lease' THEN handle[d] ELSE stream[d]]
        /\ leases' = IF lease' = {} THEN leases ELSE leases + 1
  BY DEF Allocate
<1>2. /\ thread[Mission].step = "idle" /\ leases < MaxLeases
      /\ UNCHANGED <<plugged, plugs, enabled, tuning>>
      /\ GotoAfterChange(Mission, Emit("return", {}))
  BY DEF Allocate, At, world
<1>3. Mission \in Threads /\ thread[Mission].claim = {}
  BY <1>2 DEF Threads, ClaimsAreWorkedOn, WorksOnClaim
<1>4. ready \subseteq Devices
  OBVIOUS
<1> HIDE DEF ready
<1>5. RegistryTypes'
  BY <1>1, <1>2, <1>4 DEF RegistryTypes, States, Granted
<1>6. StreamTypes'
  <2>1. stream' \in [Devices -> Tuning \cup {Closed}]
    BY <1>1 DEF StreamTypes, RegistryTypes
  <2>2. leases' \in 0..MaxLeases
    BY <1>1, <1>2, ConstantsAssumption DEF StreamTypes
  <2>3. lease' \subseteq Devices
    BY <1>1, <1>4
  <2> QED BY <2>1, <2>2, <2>3 DEF StreamTypes
<1>7. ThreadTypes' /\ ClaimsAreWorkedOn' /\ OpeningHasOpener'
  <2>1. \A d \in Devices : state'[d] = "Opening" => state[d] = "Opening"
    BY <1>1 DEF Granted
  <2>2. Emit("return", {}) \in ThreadType /\ Emit("return", {}).claim = {}
    BY EmitType
  <2> QED BY <1>2, <1>3, <2>1, <2>2, ClaimsUndisturbed
<1>8. ReadyIsHeldOpen'
  BY <1>1 DEF ReadyIsHeldOpen, Granted
<1> QED BY <1>5, <1>6, <1>7, <1>8

LEMMA EndStreamStep ==
  ASSUME RegistryInv, NEW d \in Devices, EndStream(d)
  PROVE  RegistryInv'
<1> USE DEF RegistryInv
<1>1. /\ stream' = [stream EXCEPT ![d] = Closed]
      /\ UNCHANGED <<plugged, plugs, state, enabled, tuning, handle, lease, leases, thread, shown>>
  BY DEF EndStream, world, registry
<1>2. RegistryTypes' /\ ThreadTypes'
  BY <1>1 DEF RegistryTypes, ThreadTypes
<1>3. StreamTypes'
  BY <1>1 DEF StreamTypes
<1>4. ClaimsAreWorkedOn' /\ OpeningHasOpener' /\ ReadyIsHeldOpen'
  BY <1>1 DEF ClaimsAreWorkedOn, WorksOnClaim, OpeningHasOpener, OpenersOf, ReadyIsHeldOpen
<1> QED BY <1>2, <1>3, <1>4

LEMMA ReleaseAllStep ==
  ASSUME RegistryInv, ReleaseAll
  PROVE  RegistryInv'
<1> USE DEF RegistryInv
<1>1. /\ thread[Mission].step = "idle" /\ lease' = {}
      /\ state' = [d \in Devices |->
                     IF d \in lease /\ state[d] = "InUse" THEN "Detected" ELSE state[d]]
      /\ UNCHANGED <<plugged, plugs, enabled, tuning, handle, stream, leases>>
      /\ GotoAfterChange(Mission, Emit("claim", {}))
  BY DEF ReleaseAll, At, world
<1>2. Mission \in Threads /\ thread[Mission].claim = {}
  BY <1>1 DEF Threads, ClaimsAreWorkedOn, WorksOnClaim
<1>3. RegistryTypes' /\ StreamTypes'
  BY <1>1 DEF RegistryTypes, StreamTypes, States
<1>4. ThreadTypes' /\ ClaimsAreWorkedOn' /\ OpeningHasOpener'
  <2>1. \A d \in Devices : state'[d] = "Opening" => state[d] = "Opening"
    BY <1>1
  <2>2. Emit("claim", {}) \in ThreadType /\ Emit("claim", {}).claim = {}
    BY EmitType
  <2> QED BY <1>1, <1>2, <2>1, <2>2, ClaimsUndisturbed
<1>5. ReadyIsHeldOpen'
  BY <1>1 DEF ReadyIsHeldOpen
<1> QED BY <1>3, <1>4, <1>5

LEMMA ReplugStep ==
  ASSUME RegistryInv, NEW d \in Devices, Replug(d)
  PROVE  RegistryInv'
<1> USE DEF RegistryInv
<1>1. /\ plugs < MaxPlugs /\ plugs' = plugs + 1
      /\ plugged' = IF d \in plugged THEN plugged \ {d} ELSE plugged \cup {d}
      /\ UNCHANGED <<state, enabled, tuning, handle, stream, lease, leases, thread, shown>>
  BY DEF Replug, registry, streams
<1>2. plugs' \in 0..MaxPlugs /\ plugged' \subseteq Devices
  BY <1>1, ConstantsAssumption DEF RegistryTypes
<1>3. RegistryTypes' /\ ThreadTypes' /\ StreamTypes'
  BY <1>1, <1>2 DEF RegistryTypes, ThreadTypes, StreamTypes
<1>4. ClaimsAreWorkedOn' /\ OpeningHasOpener' /\ ReadyIsHeldOpen'
  BY <1>1 DEF ClaimsAreWorkedOn, WorksOnClaim, OpeningHasOpener, OpenersOf, ReadyIsHeldOpen
<1> QED BY <1>3, <1>4

LEMMA RegistryInvHolds == Spec => []RegistryInv
<1>1. RegistryInv /\ [Next]_vars => RegistryInv'
  <2> SUFFICES ASSUME RegistryInv, [Next]_vars PROVE RegistryInv'
    OBVIOUS
  <2>1. ASSUME NEW t \in Threads, Step(t) \/ SetConfig(t) PROVE RegistryInv'
    BY <2>1, EnumerateStep, DiffStep, SnapshotStep, PublishStep, ClaimStep, OpenStep,
       SetConfigStep DEF Step
  <2>2. ASSUME NEW d \in Devices, EndStream(d) \/ Replug(d) PROVE RegistryInv'
    BY <2>2, EndStreamStep, ReplugStep
  <2>3. CASE UNCHANGED vars
    BY <2>3 DEF vars, world, registry, streams, RegistryInv, RegistryTypes, StreamTypes,
       ThreadTypes, ClaimsAreWorkedOn, OpeningHasOpener, OpenersOf, ReadyIsHeldOpen
  <2> QED BY <2>1, <2>2, <2>3, AllocateStep, ReleaseAllStep DEF Next
<1> QED BY <1>1, InitRegistryInv, PTL DEF Spec

----------------------------------------------------------------------------

(* Every variable of the registry stays within its type.                    *)
THEOREM RegistryTypeCorrect == Spec => []TypeOK
<1>1. RegistryInv => TypeOK
  BY DEF RegistryInv, RegistryTypes, StreamTypes, ThreadTypes, ThreadType, TypeOK
<1> QED BY <1>1, RegistryInvHolds, PTL

(* However many threads claim and open devices while SDRs come and go, no   *)
(* device stays in Opening with nobody left to set its result.              *)
THEOREM OpeningHasOpenerHolds == Spec => []OpeningHasOpener
<1>1. RegistryInv => OpeningHasOpener
  BY DEF RegistryInv
<1> QED BY <1>1, RegistryInvHolds, PTL

(* Whatever set_config, detect, allocate and release do to a device from    *)
(* their threads: while it says Ready, the manager has it open.             *)
THEOREM ReadyIsHeldOpenHolds == Spec => []ReadyIsHeldOpen
<1>1. RegistryInv => ReadyIsHeldOpen
  BY DEF RegistryInv
<1> QED BY <1>1, RegistryInvHolds, PTL
----------------------------------------------------------------------------
(* While no SDR comes or goes, the registry's states tell who has each      *)
(* device, and the registry implements exclusive leases: for any number of  *)
(* SDRs, callers and leases, whatever the driver refuses.                   *)

\* What a thread is about to diff is what is attached.
SeenIsPlugged == \A t \in Threads : thread[t].step = "diff" => thread[t].seen = plugged

Attached ==
  \A d \in Devices : state[d] # "Disconnected" /\ (state[d] # "unknown" => d \in plugged)

\* Only one thread has claimed a device, and only one that is Opening.
OneOpener ==
  \A d \in Devices : \A t, u \in OpenersOf(d) : t = u /\ state[d] = "Opening"

Holders ==
  /\ \A d \in Devices :
       /\ state[d] = "Ready" <=> handle[d] # Closed
       /\ state[d] = "InUse" <=> d \in lease
       /\ stream[d] # Closed => d \in lease
  /\ lease # {} => leases > 0

OwnerInv == RegistryInv /\ plugs = 0 /\ SeenIsPlugged /\ Attached /\ OneOpener /\ Holders
----------------------------------------------------------------------------

LEMMA InitOwnerInv == Init => OwnerInv
<1> SUFFICES ASSUME Init PROVE OwnerInv
  OBVIOUS
<1>1. RegistryInv
  BY InitRegistryInv
<1>2. \A t \in Threads : thread[t] = Holding(Beginning(t))
  BY DEF Init
<1>3. \A t \in Threads : Beginning(t) \in Steps \ {"diff"}
  BY DEF Beginning, Steps
<1>4. \A t \in Threads : thread[t].claim = {} /\ thread[t].step # "diff"
  BY <1>2, <1>3, HoldingType
<1>5. SeenIsPlugged /\ OneOpener
  BY <1>4 DEF SeenIsPlugged, OneOpener, OpenersOf
<1>6. plugs = 0 /\ Attached /\ Holders
  BY DEF Init, Attached, Holders
<1> QED BY <1>1, <1>5, <1>6 DEF OwnerInv

\* No new claim is made, and no claimed device leaves Opening.
LEMMA NoNewClaim ==
  ASSUME OneOpener,
         \A u \in Threads : thread'[u].claim \subseteq thread[u].claim,
         \A d \in Devices : state[d] = "Opening" /\ OpenersOf(d)' # {} => state'[d] = "Opening"
  PROVE  OneOpener'
<1> SUFFICES ASSUME NEW d \in Devices, NEW t \in OpenersOf(d)', NEW u \in OpenersOf(d)'
             PROVE  t = u /\ state'[d] = "Opening"
  BY DEF OneOpener
<1>1. t \in OpenersOf(d) /\ u \in OpenersOf(d)
  BY DEF OpenersOf
<1> QED BY <1>1 DEF OneOpener

\* Thread t goes on without a claim and with nothing to diff but what is attached.
LEMMA ThreadGoesOn ==
  ASSUME ThreadTypes, SeenIsPlugged, OneOpener, NEW t \in Threads, NEW next \in ThreadType,
         Goto(t, next) \/ GotoAfterChange(t, next), plugged' = plugged,
         next.step = "diff" => next.seen = plugged, next.claim = {},
         \A d \in Devices : state[d] = "Opening" /\ OpenersOf(d)' # {} => state'[d] = "Opening"
  PROVE  SeenIsPlugged' /\ OneOpener'
<1>1. /\ thread'[t] = next
      /\ \A u \in Threads \ {t} :
           /\ thread'[u].step = thread[u].step /\ thread'[u].seen = thread[u].seen
           /\ thread'[u].claim = thread[u].claim
  BY ThreadMoves
<1>2. SeenIsPlugged'
  BY <1>1 DEF SeenIsPlugged
<1>3. \A u \in Threads : thread'[u].claim \subseteq thread[u].claim
  BY <1>1
<1> QED BY <1>2, <1>3, NoNewClaim

\* Nothing of the devices changes.
LEMMA DevicesUnchanged ==
  ASSUME Attached, Holders, UNCHANGED <<plugged, state, handle, stream, lease, leases>>
  PROVE  Attached' /\ Holders'
BY DEF Attached, Holders

LEMMA EnumerateOwner ==
  ASSUME OwnerInv, NEW t \in Threads, Enumerate(t)
  PROVE  OwnerInv'
<1> USE DEF OwnerInv, RegistryInv
<1> DEFINE next == [Holding("diff") EXCEPT !.seen = plugged]
<1>1. /\ Goto(t, next)
      /\ UNCHANGED <<plugged, plugs, state, handle, stream, lease, leases>>
  BY DEF Enumerate, world, registry, streams
<1>2. next \in ThreadType /\ next.claim = {} /\ next.seen = plugged
  BY DEF RegistryTypes, Holding, ThreadType, Steps
<1> HIDE DEF next
<1>3. SeenIsPlugged' /\ OneOpener'
  BY <1>1, <1>2, ThreadGoesOn
<1>4. Attached' /\ Holders'
  BY <1>1, DevicesUnchanged
<1> QED BY <1>1, <1>3, <1>4, EnumerateStep

LEMMA DiffOwner ==
  ASSUME OwnerInv, NEW t \in Threads, Diff(t)
  PROVE  OwnerInv'
<1> USE DEF OwnerInv, RegistryInv
<1>1. /\ thread[t].seen = plugged
      /\ state' = [d \in Devices |-> Diffed(plugged, d)]
      /\ handle' = [d \in Devices |-> IF d \in plugged \/ state[d] = "Disconnected"
                                    THEN handle[d] ELSE Closed]
      /\ UNCHANGED <<plugged, plugs, stream, lease, leases>>
      /\ GotoAfterChange(t, Emit("claim", {}))
  BY DEF Diff, At, Announce, world, streams, SeenIsPlugged
<1>2. Emit("claim", {}) \in ThreadType /\ Emit("claim", {}).claim = {}
      /\ Emit("claim", {}).step = "emit"
  BY EmitType
<1>3. \A d \in Devices :
        \/ state'[d] = state[d]
        \/ state[d] = "unknown" /\ d \in plugged /\ state'[d] = "Detected"
  BY <1>1 DEF Diffed, Attached
<1>4. SeenIsPlugged' /\ OneOpener'
  BY <1>1, <1>2, <1>3, ThreadGoesOn
<1>5. Attached'
  BY <1>1, <1>3 DEF Attached
<1>6. \A d \in Devices : handle'[d] = handle[d]
  BY <1>1 DEF Attached, Holders
<1>7. Holders'
  BY <1>1, <1>3, <1>6 DEF Holders
<1> QED BY <1>1, <1>4, <1>5, <1>7, DiffStep

\* A thread goes on with the claim it has.
LEMMA SameClaimOwner ==
  ASSUME OwnerInv, NEW t \in Threads, NEW next, thread' = [thread EXCEPT ![t] = next],
         next.claim = thread[t].claim, next.step # "diff",
         UNCHANGED <<plugged, plugs, state, handle, stream, lease, leases>>, RegistryInv'
  PROVE  OwnerInv'
<1> USE DEF OwnerInv, RegistryInv
<1>1. thread'[t] = next /\ \A u \in Threads \ {t} : thread'[u] = thread[u]
  BY DEF ThreadTypes
<1>2. SeenIsPlugged'
  BY <1>1 DEF SeenIsPlugged
<1>3. \A u \in Threads : thread'[u].claim \subseteq thread[u].claim
  BY <1>1
<1>4. OneOpener'
  BY <1>3, NoNewClaim
<1>5. Attached' /\ Holders'
  BY DevicesUnchanged
<1> QED BY <1>2, <1>4, <1>5

LEMMA SnapshotOwner ==
  ASSUME OwnerInv, NEW t \in Threads, Snapshot(t)
  PROVE  OwnerInv'
<1> DEFINE next == [thread[t] EXCEPT !.step = "publish", !.fresh = TRUE]
<1>1. /\ thread' = [thread EXCEPT ![t] = next]
      /\ UNCHANGED <<plugged, plugs, state, handle, stream, lease, leases>>
  BY DEF Snapshot, Goto, world, registry, streams
<1>2. thread[t] \in ThreadType
  BY DEF OwnerInv, RegistryInv, ThreadTypes
<1>3. next.claim = thread[t].claim /\ next.step = "publish"
  BY <1>2 DEF ThreadType
<1> HIDE DEF next
<1>4. RegistryInv'
  BY SnapshotStep DEF OwnerInv
<1> QED BY <1>1, <1>3, <1>4, SameClaimOwner

LEMMA PublishOwner ==
  ASSUME OwnerInv, NEW t \in Threads, Publish(t)
  PROVE  OwnerInv'
<1> DEFINE next == IF thread[t].then = "return" THEN Holding(Ending(t))
                   ELSE [Holding(thread[t].then) EXCEPT !.claim = thread[t].claim]
<1>1. /\ thread[t].step = "publish" /\ thread' = [thread EXCEPT ![t] = next]
      /\ UNCHANGED <<plugged, plugs, state, handle, stream, lease, leases>>
  BY DEF Publish, At, world, registry, streams
<1>2. thread[t] \in ThreadType
  BY DEF OwnerInv, RegistryInv, ThreadTypes
<1>3. next.claim = thread[t].claim /\ next.step # "diff"
  <2>1. CASE thread[t].then = "return"
    <3>1. thread[t].claim = {}
      BY <1>1, <2>1 DEF OwnerInv, RegistryInv, ClaimsAreWorkedOn, WorksOnClaim
    <3>2. Ending(t) \in Steps \ {"diff"}
      BY DEF Ending, Steps
    <3> QED BY <2>1, <3>1, <3>2, HoldingType
  <2>2. CASE thread[t].then # "return"
    <3>1. thread[t].then \in {"claim", "open"} /\ thread[t].claim \in SUBSET Claims
      BY <1>2, <2>2 DEF ThreadType
    <3>2. Holding(thread[t].then) \in ThreadType /\ Holding(thread[t].then).step = thread[t].then
      BY <3>1, HoldingType DEF Steps
    <3>3. next = [Holding(thread[t].then) EXCEPT !.claim = thread[t].claim]
      BY <2>2
    <3> HIDE DEF next
    <3>4. next.claim = thread[t].claim /\ next.step = thread[t].then
      BY <3>1, <3>2, <3>3 DEF ThreadType
    <3> QED BY <3>1, <3>4
  <2> QED BY <2>1, <2>2
<1> HIDE DEF next
<1>4. RegistryInv'
  BY PublishStep DEF OwnerInv
<1> QED BY <1>1, <1>3, <1>4, SameClaimOwner

LEMMA ClaimOwner ==
  ASSUME OwnerInv, NEW t \in Threads, Claim(t)
  PROVE  OwnerInv'
<1> USE DEF OwnerInv, RegistryInv
<1>1. UNCHANGED <<plugged, plugs, handle, stream, lease, leases>>
  BY DEF Claim, world, streams
<1>2. RegistryInv'
  BY ClaimStep
<1>3. CASE Goto(t, Holding(Ending(t))) /\ UNCHANGED registry
  <2>1. /\ Holding(Ending(t)) \in ThreadType /\ Holding(Ending(t)).claim = {}
        /\ Holding(Ending(t)).step # "diff"
    BY HoldingType DEF Ending, Steps
  <2>2. state' = state
    BY <1>3 DEF registry
  <2>3. SeenIsPlugged' /\ OneOpener'
    BY <1>1, <1>3, <2>1, <2>2, ThreadGoesOn
  <2>4. Attached' /\ Holders'
    BY <1>1, <2>2, DevicesUnchanged
  <2> QED BY <1>1, <1>2, <2>3, <2>4
<1>4. ASSUME NEW d \in Devices, state[d] = "Detected", state' = [state EXCEPT ![d] = "Opening"],
             GotoAfterChange(t, Emit("open", {[dev |-> d, tuning |-> tuning[d]]}))
      PROVE  OwnerInv'
  <2> DEFINE c == [dev |-> d, tuning |-> tuning[d]]
             next == Emit("open", {c})
  <2>1. c \in Claims /\ c.dev = d
    BY DEF RegistryTypes, Claims
  <2>2. GotoAfterChange(t, next)
    BY <1>4
  <2> HIDE DEF c
  <2>3. next \in ThreadType /\ next.step = "emit" /\ next.claim = {c}
    BY <2>1, EmitType
  <2> HIDE DEF next
  <2>4. /\ thread'[t] = next
        /\ \A u \in Threads \ {t} :
             /\ thread'[u].step = thread[u].step /\ thread'[u].seen = thread[u].seen
             /\ thread'[u].claim = thread[u].claim
    BY <2>2, <2>3, ThreadMoves
  <2>5. SeenIsPlugged'
    BY <1>1, <2>3, <2>4 DEF SeenIsPlugged
  <2>6. /\ state'[d] = "Opening" /\ \A x \in Devices \ {d} : state'[x] = state[x]
    BY <1>4 DEF RegistryTypes
  <2>7. OpenersOf(d) = {}
    BY <1>4 DEF OneOpener
  <2>8. OneOpener'
    <3> SUFFICES ASSUME NEW x \in Devices, NEW u \in OpenersOf(x)', NEW v \in OpenersOf(x)'
                 PROVE  u = v /\ state'[x] = "Opening"
      BY DEF OneOpener
    <3>1. CASE x = d
      <4>1. u = t /\ v = t
        BY <2>4, <2>7, <3>1 DEF OpenersOf
      <4> QED BY <2>6, <3>1, <4>1
    <3>2. CASE x # d
      <4>1. u \in OpenersOf(x) /\ v \in OpenersOf(x)
        BY <2>1, <2>3, <2>4, <3>2 DEF OpenersOf
      <4> QED BY <2>6, <3>2, <4>1 DEF OneOpener
    <3> QED BY <3>1, <3>2
  <2>9. Attached'
    BY <1>1, <1>4, <2>6 DEF Attached
  <2>10. Holders'
    BY <1>1, <1>4, <2>6 DEF Holders
  <2> QED BY <1>1, <1>2, <2>5, <2>8, <2>9, <2>10
<1> QED BY <1>3, <1>4 DEF Claim

LEMMA OpenOwner ==
  ASSUME OwnerInv, NEW t \in Threads, Open(t)
  PROVE  OwnerInv'
<1> USE DEF OwnerInv, RegistryInv
<1>1. PICK c \in thread[t].claim, ok \in BOOLEAN : Opened(c, ok)
  BY DEF Open
<1>2. /\ UNCHANGED <<plugged, plugs, stream, lease, leases>>
      /\ GotoAfterChange(t, Emit("claim", {}))
  BY DEF Open, world, streams
<1>3. thread[t].claim \subseteq Claims
  BY DEF ThreadTypes, ThreadType
<1>4. c.dev \in Devices /\ c.tuning \in Tuning /\ c.tuning # Closed
  BY <1>3, ConstantsAssumption DEF Claims, Tuning
<1>5. /\ state' = [state EXCEPT ![c.dev] = IF ok THEN "Ready" ELSE "Error"]
      /\ handle' = IF ok THEN [handle EXCEPT ![c.dev] = c.tuning] ELSE handle
  BY <1>1 DEF Opened
<1>6. t \in OpenersOf(c.dev) /\ state[c.dev] = "Opening"
  BY <1>1, <1>4 DEF OpenersOf, OneOpener
<1>7. /\ Emit("claim", {}) \in ThreadType /\ Emit("claim", {}).claim = {}
      /\ Emit("claim", {}).step = "emit"
  BY EmitType
<1>8. /\ thread'[t].claim = {}
      /\ \A u \in Threads \ {t} : thread'[u].claim = thread[u].claim
  BY <1>2, <1>7, ThreadMoves
<1>9. OpenersOf(c.dev)' = {}
  <2> SUFFICES ASSUME NEW u \in OpenersOf(c.dev)' PROVE FALSE
    OBVIOUS
  <2>1. u \in Threads \ {t} /\ u \in OpenersOf(c.dev)
    BY <1>8 DEF OpenersOf
  <2> QED BY <1>4, <1>6, <2>1 DEF OneOpener
<1>10. \A d \in Devices \ {c.dev} : state'[d] = state[d] /\ handle'[d] = handle[d]
  BY <1>4, <1>5 DEF RegistryTypes
<1>11. SeenIsPlugged' /\ OneOpener'
  <2>1. \A d \in Devices : state[d] = "Opening" /\ OpenersOf(d)' # {} => state'[d] = "Opening"
    BY <1>9, <1>10
  <2> QED BY <1>2, <1>7, <2>1, ThreadGoesOn
<1>12. /\ state'[c.dev] = IF ok THEN "Ready" ELSE "Error"
       /\ handle'[c.dev] = IF ok THEN c.tuning ELSE handle[c.dev]
  BY <1>4, <1>5 DEF RegistryTypes
<1>13. Attached'
  BY <1>2, <1>6, <1>10, <1>12 DEF Attached
<1>14. Holders'
  <2>1. handle[c.dev] = Closed /\ c.dev \notin lease
    BY <1>4, <1>6 DEF Holders
  <2> QED BY <1>2, <1>4, <1>10, <1>12, <2>1 DEF Holders
<1> QED BY <1>2, <1>11, <1>13, <1>14, OpenStep

LEMMA SetConfigOwner ==
  ASSUME OwnerInv, NEW t \in Threads, SetConfig(t)
  PROVE  OwnerInv'
<1> USE DEF OwnerInv, RegistryInv
<1>1. PICK d \in Devices, new \in Tuning : Reconfigure(d, new)
  BY DEF SetConfig
<1>2. /\ UNCHANGED <<plugged, plugs, stream, lease, leases>>
      /\ GotoAfterChange(t, Emit("claim", {}))
  BY DEF SetConfig, world, streams
<1> DEFINE reopen == new.rate # tuning[d].rate /\ state[d] = "Ready"
<1>3. /\ state' = [state EXCEPT ![d] = IF reopen THEN "Detected" ELSE state[d]]
      /\ handle' = [handle EXCEPT ![d] = IF reopen \/ handle[d] = Closed THEN Closed
                                       ELSE [gain |-> new.gain, rate |-> handle[d].rate]]
  BY <1>1 DEF Reconfigure
<1>4. handle[d] # Closed => [gain |-> new.gain, rate |-> handle[d].rate] # Closed
  <2> SUFFICES ASSUME handle[d] # Closed
               PROVE  new.gain \in Gains /\ handle[d].rate \in Rates
    BY TuningIsNotClosed
  <2>1. handle[d] \in Tuning
    BY DEF RegistryTypes
  <2> QED BY <2>1 DEF Tuning
<1>5. reopen => state[d] = "Ready"
  OBVIOUS
<1> HIDE DEF reopen
<1>6. /\ state'[d] = IF reopen THEN "Detected" ELSE state[d]
      /\ handle'[d] = Closed <=> reopen \/ handle[d] = Closed
      /\ \A x \in Devices \ {d} : state'[x] = state[x] /\ handle'[x] = handle[x]
  BY <1>3, <1>4 DEF RegistryTypes
<1>7. /\ Emit("claim", {}) \in ThreadType /\ Emit("claim", {}).claim = {}
      /\ Emit("claim", {}).step = "emit"
  BY EmitType
<1>8. SeenIsPlugged' /\ OneOpener'
  <2>1. \A x \in Devices : state[x] = "Opening" /\ OpenersOf(x)' # {} => state'[x] = "Opening"
    BY <1>5, <1>6
  <2> QED BY <1>2, <1>7, <2>1, ThreadGoesOn
<1>9. Attached'
  BY <1>2, <1>5, <1>6 DEF Attached
<1>10. Holders'
  BY <1>2, <1>5, <1>6 DEF Holders
<1> QED BY <1>2, <1>8, <1>9, <1>10, SetConfigStep

LEMMA AllocateOwner ==
  ASSUME OwnerInv, Allocate
  PROVE  OwnerInv'
<1> USE DEF OwnerInv, RegistryInv
<1> DEFINE ready == {d \in Devices : enabled[d] /\ state[d] = "Ready" /\ handle[d] # Closed}
<1>1. PICK failed \in SUBSET ready :
        /\ state' = [d \in Devices |-> IF d \in failed THEN "Error"
                                      ELSE IF d \in ready THEN Granted(d) ELSE state[d]]
        /\ handle' = [d \in Devices |-> IF d \in ready THEN Closed ELSE handle[d]]
        /\ lease' = ready \ failed
        /\ stream' = [d \in Devices |-> IF d \in lease' THEN handle[d] ELSE stream[d]]
        /\ leases' = IF lease' = {} THEN leases ELSE leases + 1
  BY DEF Allocate
<1>2. /\ lease = {} /\ UNCHANGED <<plugged, plugs>>
      /\ GotoAfterChange(Mission, Emit("return", {}))
  BY DEF Allocate, world
<1>3. Mission \in Threads
  BY DEF Threads
<1>4. ready \subseteq Devices /\ \A d \in ready : state[d] = "Ready" /\ handle[d] # Closed
  OBVIOUS
<1> HIDE DEF ready
<1>5. /\ Emit("return", {}) \in ThreadType /\ Emit("return", {}).claim = {}
      /\ Emit("return", {}).step = "emit"
  BY EmitType
<1>6. SeenIsPlugged' /\ OneOpener'
  <2>1. \A d \in Devices : state[d] = "Opening" /\ OpenersOf(d)' # {} => state'[d] = "Opening"
    BY <1>1, <1>4
  <2> QED BY <1>2, <1>3, <1>5, <2>1, ThreadGoesOn
<1>7. Attached'
  BY <1>1, <1>2, <1>4 DEF Attached, Granted
<1>8. Holders'
  <2>1. \A d \in Devices : state'[d] = "Ready" <=> handle'[d] # Closed
    BY <1>1, <1>4 DEF Holders, Granted
  <2>2. \A d \in Devices : state'[d] = "InUse" <=> d \in lease'
    BY <1>1, <1>2, <1>4 DEF Holders, Granted
  <2>3. \A d \in Devices : stream'[d] # Closed => d \in lease'
    BY <1>1, <1>2 DEF Holders
  <2>4. lease' # {} => leases' > 0
    BY <1>1, ConstantsAssumption DEF StreamTypes
  <2> QED BY <2>1, <2>2, <2>3, <2>4 DEF Holders
<1> QED BY <1>2, <1>6, <1>7, <1>8, AllocateStep

LEMMA EndStreamOwner ==
  ASSUME OwnerInv, NEW d \in Devices, EndStream(d)
  PROVE  OwnerInv'
<1> USE DEF OwnerInv, RegistryInv
<1>1. /\ stream' = [stream EXCEPT ![d] = Closed]
      /\ UNCHANGED <<plugged, plugs, state, handle, lease, leases, thread>>
  BY DEF EndStream, world, registry
<1>2. SeenIsPlugged' /\ Attached' /\ OneOpener'
  BY <1>1 DEF SeenIsPlugged, Attached, OneOpener, OpenersOf
<1>3. Holders'
  BY <1>1 DEF Holders, StreamTypes
<1> QED BY <1>1, <1>2, <1>3, EndStreamStep

LEMMA ReleaseAllOwner ==
  ASSUME OwnerInv, ReleaseAll
  PROVE  OwnerInv'
<1> USE DEF OwnerInv, RegistryInv
<1>1. /\ lease' = {} /\ Drained
      /\ state' = [d \in Devices |->
                     IF d \in lease /\ state[d] = "InUse" THEN "Detected" ELSE state[d]]
      /\ UNCHANGED <<plugged, plugs, handle, stream, leases>>
      /\ GotoAfterChange(Mission, Emit("claim", {}))
  BY DEF ReleaseAll, world
<1>2. Mission \in Threads
  BY DEF Threads
<1>3. /\ Emit("claim", {}) \in ThreadType /\ Emit("claim", {}).claim = {}
      /\ Emit("claim", {}).step = "emit"
  BY EmitType
<1>4. SeenIsPlugged' /\ OneOpener'
  <2>1. \A d \in Devices : state[d] = "Opening" /\ OpenersOf(d)' # {} => state'[d] = "Opening"
    BY <1>1
  <2> QED BY <1>1, <1>2, <1>3, <2>1, ThreadGoesOn
<1>5. Attached'
  BY <1>1 DEF Attached
<1>6. Holders'
  BY <1>1 DEF Holders, Drained
<1> QED BY <1>1, <1>4, <1>5, <1>6, ReleaseAllStep

LEMMA OwnerInvPreserved ==
  ASSUME MaxPlugs = 0, OwnerInv, [Next]_vars
  PROVE  OwnerInv'
<1>1. ASSUME NEW t \in Threads, Step(t) \/ SetConfig(t) PROVE OwnerInv'
  BY <1>1, EnumerateOwner, DiffOwner, SnapshotOwner, PublishOwner, ClaimOwner, OpenOwner,
     SetConfigOwner DEF Step
<1>2. ASSUME NEW d \in Devices, EndStream(d) PROVE OwnerInv'
  BY <1>2, EndStreamOwner
<1>3. ASSUME NEW d \in Devices, Replug(d) PROVE FALSE
  BY <1>3 DEF Replug, OwnerInv
<1>4. CASE UNCHANGED vars
  BY <1>4 DEF vars, world, registry, streams, OwnerInv, RegistryInv, RegistryTypes, StreamTypes,
     ThreadTypes, ClaimsAreWorkedOn, OpeningHasOpener, OpenersOf, ReadyIsHeldOpen,
     SeenIsPlugged, Attached, OneOpener, Holders
<1> QED BY <1>1, <1>2, <1>3, <1>4, AllocateOwner, ReleaseAllOwner DEF Next

LEMMA OwnerInvHolds == ASSUME MaxPlugs = 0 PROVE Spec => []OwnerInv
<1>1. OwnerInv /\ [Next]_vars => OwnerInv'
  BY OwnerInvPreserved
<1> QED BY <1>1, InitOwnerInv, PTL DEF Spec
----------------------------------------------------------------------------

(* While no SDR comes or goes, whatever threads refresh, reconfigure,       *)
(* allocate and release: a device that is Opening has exactly one thread    *)
(* that opens it, the manager holds exactly the Ready ones open, and those  *)
(* InUse are the mission's, which alone stream.                             *)
THEOREM StateTellsOwnerHolds == ASSUME MaxPlugs = 0 PROVE Spec => []StateTellsOwner
<1>1. OwnerInv => StateTellsOwner
  <2> SUFFICES ASSUME OwnerInv, NEW d \in Devices
               PROVE  Cardinality(OpenersOf(d)) = IF state[d] = "Opening" THEN 1 ELSE 0
    BY DEF StateTellsOwner, OwnerInv, Holders
  <2>1. CASE state[d] = "Opening"
    <3>1. PICK t \in Threads : t \in OpenersOf(d)
      BY <2>1 DEF OwnerInv, RegistryInv, OpeningHasOpener, OpenersOf
    <3>2. OpenersOf(d) = {t}
      BY <3>1 DEF OwnerInv, OneOpener
    <3> QED BY <2>1, <3>2, FS_Singleton
  <2>2. CASE state[d] # "Opening"
    <3>1. OpenersOf(d) = {}
      BY <2>2 DEF OwnerInv, OneOpener
    <3> QED BY <2>2, <3>1, FS_EmptySet
  <2> QED BY <2>1, <2>2
<1> QED BY <1>1, OwnerInvHolds, PTL

----------------------------------------------------------------------------
(* The refinement *)

HolderOf == [d \in Devices |-> IF state[d] = "InUse" THEN leases ELSE 0]
StreamingUnder == {d \in Devices : stream[d] # Closed} \X {leases}

\* What a lease is made of does not change.
LEMMA LeaseStutters ==
  ASSUME \A d \in Devices : state'[d] = "InUse" <=> state[d] = "InUse",
         stream' = stream, leases' = leases
  PROVE  UNCHANGED Lease!vars
<1>1. HolderOf' = HolderOf
  BY DEF HolderOf
<1>2. StreamingUnder' = StreamingUnder
  BY DEF StreamingUnder
<1> QED BY <1>1, <1>2 DEF Lease!vars, HolderOf, StreamingUnder

LEMMA AllocateImplements ==
  ASSUME OwnerInv, Allocate
  PROVE  [Lease!Next]_Lease!vars
<1> USE DEF OwnerInv, RegistryInv
<1> DEFINE ready == {d \in Devices : enabled[d] /\ state[d] = "Ready" /\ handle[d] # Closed}
<1>1. PICK failed \in SUBSET ready :
        /\ state' = [d \in Devices |-> IF d \in failed THEN "Error"
                                      ELSE IF d \in ready THEN Granted(d) ELSE state[d]]
        /\ lease' = ready \ failed
        /\ stream' = [d \in Devices |-> IF d \in lease' THEN handle[d] ELSE stream[d]]
        /\ leases' = IF lease' = {} THEN leases ELSE leases + 1
  BY DEF Allocate
<1>2. lease = {} /\ leases < MaxLeases /\ leases \in Nat
  BY DEF Allocate, StreamTypes
<1>3. \A d \in ready : d \in Devices /\ state[d] = "Ready" /\ handle[d] # Closed
  OBVIOUS
<1> HIDE DEF ready
<1>4. /\ \A d \in Devices : state[d] # "InUse" /\ stream[d] = Closed
  BY <1>2 DEF Holders
<1>5. \A d \in Devices : state'[d] = "InUse" <=> d \in lease'
  BY <1>1, <1>3, <1>4 DEF Granted
<1>6. \A d \in Devices : stream'[d] # Closed <=> d \in lease'
  BY <1>1, <1>3, <1>4
<1>7. CASE lease' = {}
  <2>1. stream' = stream
    BY <1>1, <1>7 DEF StreamTypes
  <2> QED BY <1>1, <1>4, <1>5, <1>7, <2>1, LeaseStutters
<1>8. CASE lease' # {}
  <2>1. leases' = leases + 1
    BY <1>1, <1>8
  <2>2. HolderOf' = [d \in Devices |-> IF d \in lease' THEN leases + 1 ELSE 0]
    BY <1>5, <2>1 DEF HolderOf
  <2>3. StreamingUnder = {} /\ StreamingUnder' = lease' \X {leases + 1}
    <3>1. lease' \subseteq Devices
      BY <1>1, <1>3
    <3> QED BY <1>4, <1>6, <2>1, <3>1 DEF StreamingUnder
  <2>4. \A d \in Devices : HolderOf[d] = 0
    BY <1>4 DEF HolderOf
  <2>5. PICK D \in SUBSET Devices : D = lease'
    BY <1>1, <1>3
  <2>6. Lease!Grant(D)
    BY <1>2, <1>8, <2>1, <2>2, <2>3, <2>4, <2>5 DEF Lease!Grant, HolderOf, StreamingUnder
  <2> QED BY <2>6 DEF Lease!Next
<1> QED BY <1>7, <1>8

LEMMA EndStreamImplements ==
  ASSUME OwnerInv, NEW d \in Devices, EndStream(d)
  PROVE  [Lease!Next]_Lease!vars
<1> USE DEF OwnerInv, RegistryInv
<1>1. /\ stream[d] # Closed /\ stream' = [stream EXCEPT ![d] = Closed]
      /\ state' = state /\ leases' = leases
  BY DEF EndStream, registry
<1>2. HolderOf[d] = leases /\ HolderOf' = HolderOf
  BY <1>1 DEF Holders, HolderOf
<1>3. <<d, leases>> \in StreamingUnder
  BY <1>1 DEF StreamingUnder
<1>4. StreamingUnder' = StreamingUnder \ {<<d, leases>>}
  <2>1. {x \in Devices : stream'[x] # Closed} = {x \in Devices : stream[x] # Closed} \ {d}
    BY <1>1 DEF StreamTypes
  <2> QED BY <1>1, <2>1 DEF StreamingUnder
<1>5. Lease!EndStream(d)
  BY <1>1, <1>2, <1>3, <1>4 DEF Lease!EndStream, HolderOf, StreamingUnder
<1> QED BY <1>5 DEF Lease!Next

LEMMA ReleaseAllImplements ==
  ASSUME OwnerInv, ReleaseAll
  PROVE  [Lease!Next]_Lease!vars
<1> USE DEF OwnerInv, RegistryInv
<1>1. /\ lease # {} /\ \A d \in Devices : stream[d] = Closed
      /\ state' = [d \in Devices |->
                     IF d \in lease /\ state[d] = "InUse" THEN "Detected" ELSE state[d]]
      /\ stream' = stream /\ leases' = leases
  BY DEF ReleaseAll, Drained
<1>2. leases \in 1..MaxLeases
  BY <1>1, ConstantsAssumption DEF Holders, StreamTypes
<1>3. \A d \in Devices : state[d] = "InUse" <=> d \in lease
  BY DEF Holders
<1>4. \E d \in Devices : HolderOf[d] = leases
  BY <1>1, <1>3 DEF HolderOf, StreamTypes
<1>5. HolderOf' = [d \in Devices |-> IF HolderOf[d] = leases THEN 0 ELSE HolderOf[d]]
  BY <1>1, <1>2, <1>3 DEF HolderOf
<1>6. StreamingUnder = {} /\ StreamingUnder' = {}
  BY <1>1 DEF StreamingUnder
<1>7. PICK n \in 1..MaxLeases : n = leases
  BY <1>2
<1>8. Lease!Return(n)
  BY <1>1, <1>4, <1>5, <1>6, <1>7 DEF Lease!Return, HolderOf, StreamingUnder
<1> QED BY <1>8 DEF Lease!Next

\* All that the other threads do.
LEMMA OthersStutter ==
  ASSUME OwnerInv, NEW t \in Threads, Step(t) \/ SetConfig(t)
  PROVE  UNCHANGED Lease!vars
<1> USE DEF OwnerInv, RegistryInv
<1>1. stream' = stream /\ leases' = leases
  BY DEF Step, Enumerate, Diff, Snapshot, Publish, Claim, Open, SetConfig, streams
<1>2. CASE Enumerate(t) \/ Snapshot(t) \/ Publish(t)
  <2>1. state' = state
    BY <1>2 DEF Enumerate, Snapshot, Publish, registry
  <2> QED BY <1>1, <2>1, LeaseStutters
<1>3. CASE Diff(t)
  <2>1. /\ thread[t].seen = plugged
        /\ state' = [d \in Devices |-> Diffed(thread[t].seen, d)]
    BY <1>3 DEF Diff, At, SeenIsPlugged
  <2>2. \A d \in Devices : state'[d] = "InUse" <=> state[d] = "InUse"
    BY <2>1 DEF Diffed, Attached
  <2> QED BY <1>1, <2>2, LeaseStutters
<1>4. CASE Claim(t)
  <2>1. \/ state' = state
        \/ \E d \in Devices : state[d] = "Detected" /\ state' = [state EXCEPT ![d] = "Opening"]
    BY <1>4 DEF Claim, registry
  <2>2. \A d \in Devices : state'[d] = "InUse" <=> state[d] = "InUse"
    BY <2>1 DEF RegistryTypes
  <2> QED BY <1>1, <2>2, LeaseStutters
<1>5. CASE Open(t)
  <2>1. PICK c \in thread[t].claim, ok \in BOOLEAN : Opened(c, ok)
    BY <1>5 DEF Open
  <2>2. c.dev \in Devices
    BY DEF ThreadTypes, ThreadType, Claims
  <2>3. state[c.dev] = "Opening"
    BY <2>1, <2>2 DEF OneOpener, OpenersOf
  <2>4. state' = [state EXCEPT ![c.dev] = IF ok THEN "Ready" ELSE "Error"]
    BY <2>1 DEF Opened
  <2>5. \A d \in Devices : state'[d] = "InUse" <=> state[d] = "InUse"
    BY <2>3, <2>4 DEF RegistryTypes
  <2> QED BY <1>1, <2>5, LeaseStutters
<1>6. CASE SetConfig(t)
  <2>1. PICK d \in Devices, new \in Tuning : Reconfigure(d, new)
    BY <1>6 DEF SetConfig
  <2> DEFINE reopen == new.rate # tuning[d].rate /\ state[d] = "Ready"
  <2>2. state' = [state EXCEPT ![d] = IF reopen THEN "Detected" ELSE state[d]]
    BY <2>1 DEF Reconfigure
  <2>3. reopen => state[d] = "Ready"
    OBVIOUS
  <2> HIDE DEF reopen
  <2>4. \A x \in Devices : state'[x] = "InUse" <=> state[x] = "InUse"
    BY <2>2, <2>3 DEF RegistryTypes
  <2> QED BY <1>1, <2>4, LeaseStutters
<1> QED BY <1>2, <1>3, <1>4, <1>5, <1>6 DEF Step

(* While no SDR comes or goes, every step of the registry is a step of the  *)
(* abstract lease or none: a device is leased to one run at a time, only    *)
(* its holder streams from it, and a lease ends, for all of its devices at  *)
(* once, only when none of them is streaming.                               *)
THEOREM RegistryImplementsLease == ASSUME MaxPlugs = 0 PROVE Spec => ImplementsLease
<1>1. Init => Lease!Init
  <2> SUFFICES ASSUME Init PROVE Lease!Init
    OBVIOUS
  <2>1. HolderOf = [d \in Devices |-> 0] /\ StreamingUnder = {} /\ leases = 0
    BY DEF Init, HolderOf, StreamingUnder
  <2> QED BY <2>1 DEF Lease!Init, HolderOf, StreamingUnder
<1>2. OwnerInv /\ [Next]_vars => [Lease!Next]_Lease!vars
  <2> SUFFICES ASSUME OwnerInv, [Next]_vars PROVE [Lease!Next]_Lease!vars
    OBVIOUS
  <2>1. ASSUME NEW t \in Threads, Step(t) \/ SetConfig(t) PROVE UNCHANGED Lease!vars
    BY <2>1, OthersStutter
  <2>2. ASSUME NEW d \in Devices, EndStream(d) PROVE [Lease!Next]_Lease!vars
    BY <2>2, EndStreamImplements
  <2>3. ASSUME NEW d \in Devices, Replug(d) PROVE FALSE
    BY <2>3 DEF Replug, OwnerInv
  <2>4. CASE UNCHANGED vars
    BY <2>4, LeaseStutters DEF vars, registry, streams
  <2> QED BY <2>1, <2>2, <2>3, <2>4, AllocateImplements, ReleaseAllImplements DEF Next
<1> QED BY <1>1, <1>2, OwnerInvHolds, PTL DEF Spec, ImplementsLease, Lease!Spec
=============================================================================
