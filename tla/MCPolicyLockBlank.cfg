SPECIFICATION Spec
CONSTANTS
  w1 = w1
  w2 = w2
  alice = alice
  bob = bob
  carol = carol
  blank_alice = blank_alice
  ka1 = ka1
  ka2 = ka2
  kb = kb
  a1 = a1
  a2 = a2
  owner = owner
  other = other
  NoAccount = NoAccount
  Absent = Absent
  Unreadable = Unreadable
  Native = Native
  Wnear = Wnear
  AnyToken = AnyToken
  MaxU128 = 1
  DepositMax = 1
  IntentsContracts = {}
  Evm <- MCEvm
  Wallets = {w1, w2}
  Documents <- MCBlankDocuments
  First <- Open
  Callers = {owner}
  Approvals = {a1, a2}
  Accounts = {alice, bob, carol}
  KeysOf <- MCKeysOf
  Trimmed <- MCTrimmed
  MaxVotes = 3
  MaxSigned = 3
  MaxVersion = 2
SYMMETRY LockSymmetry
INVARIANTS
  LockCanBeLifted
CHECK_DEADLOCK FALSE
