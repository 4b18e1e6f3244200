SPECIFICATION Spec
CONSTANTS
  LeaseUntil = 2
  MaxTime = 3
  MaxBlocks = 4
  Reshaped = TRUE
  Apart = FALSE
  NoEvidence = NoEvidence
INVARIANTS
  EndedIsOver
CHECK_DEADLOCK FALSE
