CONSTANTS
  Nil = Nil
  Slots <- MCSlots
  Requests = {r1, r2}
  Offered <- MCOffered
  Handlers = {1, 2}
  Foreign <- MCForeign
SPECIFICATION Spec
INVARIANTS
  RuntimeInv
  AnswersAreAttributed
