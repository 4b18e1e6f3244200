SPECIFICATION Spec
CONSTANTS
  LeaseUntil = 2
  MaxTime = 3
  MaxBlocks = 3
  Reshaped = TRUE
  Apart = TRUE
  NoEvidence = NoEvidence
INVARIANTS
  TypeOK
  AdmittedWhileLive
  OnlyPartialLooksMislead
  LiveIsAdmitted
CHECK_DEADLOCK FALSE
