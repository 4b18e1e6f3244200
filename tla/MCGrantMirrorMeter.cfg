SPECIFICATION Spec
CONSTANTS
  carol = carol
  attacker = attacker
  stranger = stranger
  usdc = usdc
  usdt = usdt
  art = art
  other = other
  own = own
  i1 = i1
  i2 = i2
  item_1041 = item_1041
  item_1055 = item_1055
  item_9000 = item_9000
  a_name = a_name
  NoAccount = NoAccount
  NoGrant = NoGrant
  Collection = own
  MaxU128 = 2000000
  Now = 1
  Levels = {}
  Cases <- MCCases
INVARIANTS
  ToldEveryPanic
CHECK_DEADLOCK FALSE
