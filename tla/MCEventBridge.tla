---------------------------- MODULE MCEventBridge ----------------------------
(* EventBridge on small instances. *)
EXTENDS EventBridge

CONSTANTS m1, m2
=============================================================================
