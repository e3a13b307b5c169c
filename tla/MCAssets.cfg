CONSTANTS
  Count = 3
  Runs = {a, w}
  Workloads = {w}
  PageOf <- MCPageOf
SPECIFICATION FairSpec
INVARIANTS
  PreparationInv
PROPERTIES
  RetrySettles
CHECK_DEADLOCK FALSE
