SPECIFICATION FairSpec
CONSTANTS
  r1 = r1  r2 = r2  r3 = r3
  Size <- MCSize
  MonthLen = 2
  BudgetKind = "monthly"
  Limit = 2
  Price = 1
  NoCap = NoCap
  MaxClock = 2
  Reqs = {r1, r2, r3}
  Streams = {r2}
  Caps <- Mixed
  MaxRepairs = 2
  MaxUse = 2
  Scenarios <- BothWays
INVARIANTS
  CountersSound
  NeverOvercounted
  TurnKept
PROPERTIES
  TurnsSettle
CHECK_DEADLOCK FALSE
