CONSTANTS
  m1 = m1
  m2 = m2
  None = None
  Missions = {m1, m2}
  Cap = 2
  MaxClicks = 4
SPECIFICATION FairSpec
INVARIANTS
  TypeOK
  StartsAreGranted
PROPERTIES
  PageFollows
  StartingEnds
  PageSettles
