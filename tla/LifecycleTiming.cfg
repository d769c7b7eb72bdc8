SPECIFICATION FairSpec
CONSTANTS
  Accounts = {a1}
  NULL = NULL
  InitialBalance <- MCBalance
  BondAmounts = {1}
  Year = 5
  DaysPerYear = 3
  MinChallengeDuration = 1
  DefaultChallengeLead = 2
  Leads = {0, 2}
  Windows = {0, 2}
  DevModes = {FALSE}
  Controls = {}
  MaxTime = 7
INVARIANT SyncIsIdempotent
PROPERTY LifecycleMovesForward
PROPERTY SettledIsRecorded
CHECK_DEADLOCK FALSE
