SPECIFICATION FairSpec
CONSTANTS
  Nodes = {n1, n2}
  Wallets <- MCWallets
  MaxBlocks = 2
INVARIANTS
  TypeOK
  CountedAtOneBlock
  OneLagNeverFails
PROPERTIES
  ImplementsPromise
  QueriesRunOut
  Resolves
CHECK_DEADLOCK FALSE
