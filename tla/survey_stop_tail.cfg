CONSTANTS
  m1 = m1
  m2 = m2
  d1 = d1
  d2 = d2
  None = None
  Missions = {m1}
  Devices = {d1}
  MaxRuns = 1
  MaxQueue = 1
  MaxDets = 1
  Faults = {}
SPECIFICATION Spec
PROPERTY DetectionsReachCatalog
CHECK_DEADLOCK FALSE
