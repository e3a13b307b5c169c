CONSTANT Steps = 31
SPECIFICATION Spec
INVARIANT ChurnInv
CHECK_DEADLOCK FALSE
