CONSTANTS
  m1 = m1
  m2 = m2
  d1 = d1
  d2 = d2
  None = None
  Missions = {m1, m2}
  Devices = {d1}
  MaxRuns = 2
  MaxQueue = 1
  MaxDets = 0
  Faults = {"catalog", "spawn", "open", "tune", "hotplug", "reconfigure", "crash"}
SPECIFICATION Spec
INVARIANTS
  QuietAfterStopped
  AnnouncedIsPersisted
SYMMETRY MissionSymmetry
CHECK_DEADLOCK FALSE
