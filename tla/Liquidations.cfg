SPECIFICATION LiqSpec
CONSTANTS
  u1 = u1
  u2 = u2
  u3 = u3
  protocol = protocol
  o1 = o1
  m1 = m1
  m2 = m2
  Users = {u1, u2, u3}
  Markets = {m1}
  Orders = {}
  FeeRecipient = protocol
  FeeBps = 0
  Fills <- MCFills
  Amounts = {}
  Unit = 2
  InitialCredit = 30
  MaxOps = 2
  MaxOthers = 0
  BatchSizes = {}
  MarginRequirementBps = 10000
  Expiring = {m1}
  SettlementPrices = {20}
  Ray = 10
  Known <- MCKnown
  Marks = {1, 30}
  Forced <- MCForced
  MaintenanceBps = 2000
  MaxCandidates = 2
  MaxLiquidations = 2
INVARIANTS LiqTypeOK IndexIsExact HoldersAreListed PenaltiesArePaidOut
PROPERTIES UncoveredLossIsShared 
CHECK_DEADLOCK FALSE
