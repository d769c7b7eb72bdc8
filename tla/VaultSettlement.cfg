SPECIFICATION Spec
CONSTANTS
  u1 = u1
  u2 = u2
  u3 = u3
  protocol = protocol
  o1 = o1
  m1 = m1
  m2 = m2
  Users = {u1, u2, u3}
  Markets = {m1, m2}
  Orders = {o1}
  FeeRecipient = protocol
  FeeBps = 5000
  Fills <- MCFills
  Amounts = {2}
  Unit = 2
  InitialCredit = 3
  MaxOps = 3
  MaxOthers = 1
  BatchSizes = {2}
  MarginRequirementBps = 10000
  Expiring = {m1}
  SettlementPrices = {3}
  Ray = 10
INVARIANTS TypeOK IndexIsExact MarginCachesAreExact TradersAreListed SettlementIsCovered
CHECK_DEADLOCK FALSE
SYMMETRY Symmetry
