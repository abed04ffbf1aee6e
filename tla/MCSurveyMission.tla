-------------------------- MODULE MCSurveyMission --------------------------
(* SurveyMission on small instances. *)
EXTENDS SurveyMission, TLC

CONSTANTS m1, m2, d1, d2

MissionSymmetry == Permutations(Missions)
MissionAndDeviceSymmetry == Permutations(Missions) \cup Permutations(Devices)
=============================================================================
