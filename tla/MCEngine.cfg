CONSTANTS
  Nil = Nil
  Slots = {s1,s2}
  HonestSlot = s1
  Reconciles = {t1, t2}
  Cancellable = {t1, t2}
  Models <- MCModels
  Faults <- MCFaults
SPECIFICATION FairSpec
INVARIANTS
  LockSpansTransaction
  NoFalseAlarm
PROPERTIES
  SuccessIsTrue
  ReconcileEnds
  ImplementsSlotService
CHECK_DEADLOCK FALSE
