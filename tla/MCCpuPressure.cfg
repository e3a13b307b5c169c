CONSTANTS
  Count = 2
  MaxTicks = 2
SPECIFICATION FairSpec
INVARIANTS
  PressureInv
  ContentionIsWitnessed
PROPERTIES
  ManagerEnds
CHECK_DEADLOCK FALSE
