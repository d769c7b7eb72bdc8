SPECIFICATION Spec
CONSTANTS
  Accounts = {a1, a2}
  NULL = NULL
  InitialBalance <- MCBalance
  BondAmounts = {1, 2}
  Year = 5
  DaysPerYear = 3
  MinChallengeDuration = 1
  DefaultChallengeLead = 2
  Leads = {0}
  Windows = {1}
  DevModes = {FALSE}
  Controls = {"dev", "testing"}
  MaxTime = 2
SYMMETRY Symmetry
INVARIANT TypeOK
 
INVARIANT BondsAreAccountedFor
CHECK_DEADLOCK FALSE
