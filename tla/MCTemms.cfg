CONSTANTS
  Nil = Nil
  Slots = {s1}
  Reconciles = {t1, t2, t3}
  Direct = {}
  Requests = {r1, r2}
  Cancellable = {t1, t2, t3, r1, r2}
  Contexts = {0, 1}
  Resources = {1, 2}
  MaxWorkers = 2
  Models <- MCModels
  Inventory <- MCPartialInventory
  Activations <- MCActivations
  Calls <- MCCalls
  SelectedModel <- MCForeignSelect
SPECIFICATION Spec
SYMMETRY Symmetry
INVARIANTS
  LockSpansTransaction
  DecisionStaysFresh
  ActivationIsAChange
PROPERTIES
  ImplementsSlotService
