SPECIFICATION Spec
CONSTANTS
  f1 = f1
  f2 = f2
  f3 = f3
  f4 = f4
  f5 = f5
  f6 = f6
  Files = {f1, f2, f3, f4, f5, f6}
  NoFile = NoFile
  Sha <- MCSha
  Size <- MCSize
  MaxFile = 4
  MaxTotal = 3
  MaxTime = 2
  MaxFaults = 1
SYMMETRY Symmetry
INVARIANTS
  IndexSound
  QuotaRespected
PROPERTIES
  EvictsOldestFirst
CHECK_DEADLOCK FALSE
