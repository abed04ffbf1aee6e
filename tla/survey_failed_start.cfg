CONSTANTS
  m1 = m1
  m2 = m2
  d1 = d1
  d2 = d2
  None = None
  Missions = {m1}
  Devices = {d1, d2}
  MaxRuns = 2
  MaxQueue = 1
  MaxDets = 0
  Faults = {"catalog"}
SPECIFICATION Spec
INVARIANT OneRunAtATime
CHECK_DEADLOCK FALSE
