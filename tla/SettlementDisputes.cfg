SPECIFICATION FairSpec
CONSTANTS
  c1 = c1
  c2 = c2
  t1 = t1
  w1 = w1
  e1 = e1
  a1 = a1
  a2 = a2
  None = None
  Gasless = {c1}
  Direct = {c2}
  Ticks = {t1}
  Webhooks = {w1}
  Engines = {e1}
  Answers = {a1}
  Fractions = {}
  MaxChallenges = 1
  MaxAssertions = 3
  MaxFaults = 1
INVARIANTS TypeOK  BondFollowsVote  RowFollowsHub
CHECK_DEADLOCK FALSE
 
