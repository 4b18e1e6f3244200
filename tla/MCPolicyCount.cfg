SPECIFICATION SpecRemembering
CONSTANTS
  f1 = f1
  f2 = f2
  bob = bob
  Bob = Bob
  stranger = stranger
  self = self
  usdc = usdc
  intents = intents
  i1 = i1
  NoAccount = NoAccount
  Absent = Absent
  Unreadable = Unreadable
  Native = Native
  Wnear = Wnear
  AnyToken = AnyToken
  MaxU128 = 12
  DepositMax = 1
  IntentsContracts = {intents}
  Evm <- MCEvm
  Unstated = Unstated
  Builds = {{1}, {2}}
  Tokens <- MCTokens
  Flights = {f1, f2}
  Asks <- MCAsks
  Policies <- MCPolicies
  Failures = {"count"}
  Gaps = {{"hourly", "monthly", "hourly_tx_count"}}
  FirstHour = 23
  LastHour = 24
INVARIANTS
  RateHolds
CHECK_DEADLOCK FALSE
