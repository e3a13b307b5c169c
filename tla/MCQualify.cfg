CONSTANTS
  MaxSignals = 2
  MaxRefusals = 1
SPECIFICATION FairSpec
INVARIANTS
  PassIsEarned
  CleanupInv
PROPERTIES
  ScriptEnds
CHECK_DEADLOCK FALSE
