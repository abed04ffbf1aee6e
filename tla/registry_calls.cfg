CONSTANTS
  d1 = d1
  d2 = d2
  c1 = c1
  c2 = c2
  Loop = Loop
  Mission = Mission
  Closed = Closed
  Devices = {d1, d2}
  Callers = {c1}
  Gains = {0, 1}
  Rates = {0}
  MaxPlugs = 0
  MaxLeases = 2
  Faults = {"open", "activate"}
SPECIFICATION Spec
INVARIANTS
  TypeOK
  StateTellsOwner
PROPERTY ImplementsLease
SYMMETRY DeviceSymmetry
