SPECIFICATION Spec
CONSTANTS
  Nodes = {n1, n2}
  MaxBlocks = 4
SYMMETRY NodeSymmetry
INVARIANTS
  TypeOK
  HeardKeySpoke
  OnlyTheRaceMisleads
  VerdictOfThePinnedBlock
CHECK_DEADLOCK FALSE
