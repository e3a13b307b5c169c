CONSTANTS
  Nil = Nil
  Slots = {s1, s2}
  HungSlot = s1
  Reconciles = {t1, t2}
  Direct = {d1}
  Requests = {r1}
  Cancellable = {t1, d1, r1}
  Contexts = {0}
  Resources = {1, 2}
  MaxWorkers = 3
  Models <- MCModels
  Inventory <- MCRetaggedInventory
  Activations <- MCActivations
  Calls <- MCCalls
  SelectedModel <- MCSelect
SPECIFICATION HangingSpec
INVARIANTS
  ContractIsKept
  OnlyReturnedActivationsServe
  PinnedInference
PROPERTIES
  CapturedForLife
  OtherSlotsProgress
  InferenceEnds
