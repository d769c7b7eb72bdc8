SPECIFICATION FairSpec
CONSTANTS
  NULL = NULL
  u1 = u1
  j1 = j1
  j2 = j2
  Users = {u1}
  Jobs = {j1, j2}
  Amounts = {1, 2}
  Deposits = {}
  MaxBlock = 2
  InitialCredit <- MCCredit
  UserOf <- MCUserOf
  AmountOf <- MCDistinctAmounts
  Workers = {r1}
  LargeAmounts = {2}
  VaultKnown = TRUE
  Batch = 2
  MaxAttempts = 3
  MaxResends = 0
  MaxFaults = 0
  MaxRetries = 0
  MaxResolves = 0
PROPERTIES EndsWithoutFaults
CHECK_DEADLOCK FALSE
