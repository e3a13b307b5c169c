CONSTANTS
  Nil = Nil
  MaxCount = 1
SPECIFICATION Spec
INVARIANTS
  TraceInv
  AcceptsExactlyCompleteRuns
CHECK_DEADLOCK FALSE
