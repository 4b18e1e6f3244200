SPECIFICATION FairSpec
CONSTANTS
  k1 = k1
  k2 = k2
  Keys = {k1, k2}
  Scheme <- MCScheme
  Tokens = {"ed25519", "secp256k1"}
  Handshakes = {h1, h2}
  Legacy = {h2}
  Nodes = {n1, n2}
  MaxBlocks = 2
  NoClaim = NoClaim
INVARIANTS
  TypeOK
  SessionIsEarned
  RefusedAfterEveryAttempt
PROPERTIES
  AttemptsRunOut
  AskingEnds
CHECK_DEADLOCK FALSE
