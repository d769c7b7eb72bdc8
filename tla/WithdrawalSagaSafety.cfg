SPECIFICATION Spec
CONSTANTS
  NULL = NULL
  u1 = u1
  j1 = j1
  j2 = j2
  Users = {u1}
  Jobs = {j1, j2}
  Amounts = {1, 2}
  Deposits = {}
  MaxBlock = 2
  InitialCredit <- MCCredit
  UserOf <- MCUserOf
  AmountOf <- MCTwinAmounts
  Workers = {r1}
  LargeAmounts = {2}
  VaultKnown = TRUE
  Batch = 2
  MaxAttempts = 2
  MaxResends = 1
  MaxFaults = 1
  MaxRetries = 0
  MaxResolves = 0
INVARIANTS TypeOK ReleaseBackedByDebit CompletedIsAccepted ClaimedRowsHaveIds
PROPERTIES WithdrawIdIsStable ImplementsTransfer
CHECK_DEADLOCK FALSE
