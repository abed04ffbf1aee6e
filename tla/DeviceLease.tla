---------------------------- MODULE DeviceLease ----------------------------
(***************************************************************************)
(* What the rest of the system may assume of the survey: SDRs are leased to *)
(* one run at a time, only the run that holds the lease streams from a      *)
(* device, and a lease ends, for all its devices at once, only when no      *)
(* device of it is streaming any more.  Numbers count leases; 0 is none.    *)
(***************************************************************************)
EXTENDS Integers

CONSTANTS
  Devices,    \* SensorIds in the registry
  MaxLeases   \* bound: leases ever granted

VARIABLES
  holder,     \* lease under which each device is InUse, or 0
  streaming,  \* devices with a live sweep worker, paired with its lease
  granted     \* leases granted so far

vars == <<holder, streaming, granted>>

Init ==
  /\ holder = [d \in Devices |-> 0]
  /\ streaming = {}
  /\ granted = 0

(* DeviceManager::allocate and the pool's start: every device of the new    *)
(* lease was free, no other lease is open, and all of them stream.          *)
Grant(D) ==
  /\ D # {}
  /\ granted < MaxLeases
  /\ \A d \in Devices : holder[d] = 0
  /\ granted' = granted + 1
  /\ holder' = [d \in Devices |-> IF d \in D THEN granted + 1 ELSE 0]
  /\ streaming' = streaming \cup (D \X {granted + 1})

(* One sweep worker ends and drops its sensor. *)
EndStream(d) ==
  /\ <<d, holder[d]>> \in streaming
  /\ streaming' = streaming \ {<<d, holder[d]>>}
  /\ UNCHANGED <<holder, granted>>

(* DeviceManager::release of everything the lease holds. *)
Return(n) ==
  /\ \E d \in Devices : holder[d] = n
  /\ \A d \in Devices : <<d, n>> \notin streaming
  /\ holder' = [d \in Devices |-> IF holder[d] = n THEN 0 ELSE holder[d]]
  /\ UNCHANGED <<streaming, granted>>

Next ==
  \/ \E D \in SUBSET Devices : Grant(D)
  \/ \E d \in Devices : EndStream(d)
  \/ \E n \in 1..MaxLeases : Return(n)

Spec == Init /\ [][Next]_vars
=============================================================================
