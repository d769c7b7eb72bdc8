SPECIFICATION Spec
CONSTANTS
  u1 = u1
  u2 = u2
  u3 = u3
  protocol = protocol
  o1 = o1
  m1 = m1
  m2 = m2
  Users = {u1, u2}
  Markets = {m1}
  Orders = {}
  FeeRecipient = protocol
  FeeBps = 0
  Fills <- MCWholeFills
  Amounts = {}
  Unit = 1
  InitialCredit = 3
  MaxOps = 4
  MaxOthers = 0
  BatchSizes = {1}
  MarginRequirementBps = 10000
  Expiring = {}
  SettlementPrices = {1, 3}
  Ray = 10
INVARIANT TradingIsZeroSum
CHECK_DEADLOCK FALSE
