CONSTANTS
  m1 = m1
  m2 = m2
  d1 = d1
  d2 = d2
  None = None
  Missions = {m1, m2}
  Devices = {d1, d2}
  MaxRuns = 2
  MaxQueue = 1
  MaxDets = 1
  Faults = {"open", "tune", "reconfigure"}
SPECIFICATION Spec
INVARIANTS
  TypeOK
  QuietAfterStopped
  StoppedSensorsReportDisconnected
  OneRunAtATime
  IdleCoherence
  AttributionNeverBackwards
PROPERTY ImplementsLease
SYMMETRY MissionAndDeviceSymmetry
CHECK_DEADLOCK FALSE
