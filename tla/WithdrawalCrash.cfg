SPECIFICATION FairSpec
CONSTANTS
  NULL = NULL
  u1 = u1
  j1 = j1
  j2 = j2
  Users = {u1}
  Jobs = {j1}
  Amounts = {1, 2}
  Deposits = {}
  MaxBlock = 1
  InitialCredit <- MCCredit
  UserOf <- MCUserOf
  AmountOf <- MCTwinAmounts
  Workers = {r1}
  LargeAmounts = {}
  VaultKnown = TRUE
  Batch = 2
  MaxAttempts = 3
  MaxResends = 0
  MaxFaults = 1
  MaxRetries = 0
  MaxResolves = 0
PROPERTIES DebitedEventuallySettles
CHECK_DEADLOCK FALSE
