SPECIFICATION Spec
CONSTANTS
  Nodes = {n1, n2}
  MaxBlocks = 4
SYMMETRY NodeSymmetry
INVARIANTS
  AbsentKeyWasSilent
CHECK_DEADLOCK FALSE
