SPECIFICATION Spec
CONSTANTS
  NULL = NULL
  u1 = u1
  j1 = j1
  j2 = j2
  Users = {u1}
  Jobs = {j1}
  Amounts = {1, 2}
  Deposits = {d1}
  MaxBlock = 1
  InitialCredit <- MCCredit
  UserOf <- MCUserOf
  AmountOf <- MCTwinAmounts
  Workers = {r1, r2}
  LargeAmounts = {1}
  VaultKnown = FALSE
  Batch = 2
  MaxAttempts = 2
  MaxResends = 0
  MaxFaults = 1
  MaxRetries = 1
  MaxResolves = 1
INVARIANTS ClaimedRowsHaveIds PaidAtMostOnce
PROPERTIES ImplementsTransfer
CHECK_DEADLOCK FALSE
