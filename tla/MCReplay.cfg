CONSTANTS
  Nil = Nil
  Frames = 3
  Inputs = 5
SPECIFICATION Spec
INVARIANTS
  NoFalseMiss
  StageInv
PROPERTIES
  EvidenceIsTrue
CHECK_DEADLOCK FALSE
