CONSTANTS
  Nil = Nil
  Strategies <- MCStrategies
  Repetitions = 3
  Files = 2
SPECIFICATION Spec
INVARIANTS
  FeasibleServing
  NoNeedlessAbstention
  RepetitionsAgree
  PhaseInv
CHECK_DEADLOCK FALSE
