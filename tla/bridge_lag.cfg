CONSTANTS
  m1 = m1
  m2 = m2
  None = None
  Missions = {m1}
  Cap = 2
  MaxClicks = 1
SPECIFICATION FairSpec
PROPERTY RunningReachesPage
