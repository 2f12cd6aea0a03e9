SPECIFICATION FairSpec
CONSTANTS
  Procs = {p1, p2, p3}
  Detached = {p1, p2}
  NoProc = NoProc
  MaxFaults = 1
INVARIANTS
  CommandsTruthful
  DatabaseSpared
PROPERTIES
  StartReturns
CHECK_DEADLOCK FALSE
