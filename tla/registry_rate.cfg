CONSTANTS
  d1 = d1
  d2 = d2
  c1 = c1
  c2 = c2
  Loop = Loop
  Mission = Mission
  Closed = Closed
  Devices = {d1}
  Callers = {c1, c2}
  Gains = {0}
  Rates = {0, 1}
  MaxPlugs = 0
  MaxLeases = 0
  Faults = {}
SPECIFICATION Spec
INVARIANT RateIsApplied
