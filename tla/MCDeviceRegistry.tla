-------------------------- MODULE MCDeviceRegistry --------------------------
(* DeviceRegistry on small instances. *)
EXTENDS DeviceRegistry, TLC

CONSTANTS d1, d2, c1, c2

DeviceSymmetry == Permutations(Devices)
CallerSymmetry == Permutations(Callers)
DeviceAndCallerSymmetry == DeviceSymmetry \cup CallerSymmetry
=============================================================================
