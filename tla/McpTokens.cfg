SPECIFICATION MCSpec
CONSTANTS
  Reqs = {r1, r2}
  Flows = {f1, f2}
  Rotating = TRUE
  Discover = TRUE
  MaxTokens = 4
  MaxLapses = 3
  MaxFaults = 1
  Chars = {" ", ":", "a", "b", "l", "p", "q"}
  Absent = Absent  Secrets = {s1, s2}
  Documents <- MCDocuments
  Requests <- MCRequests
  Forms <- MCForms
  MaxMonth = 1  MaxSpent = 1
SYMMETRY Symmetry
INVARIANTS
  VaultIsLatest
  RefreshBudget
  AccessHolds
PROPERTIES
  DeletesOnlyDead
CHECK_DEADLOCK FALSE
