CONSTANTS
  a1 = a1  a2 = a2  p1 = p1  p2 = p2  v1 = v1  v2 = v2
  None = None  Tombstone = Tombstone  Broken = Broken  Watcher = Watcher
  Names = {a1, a2}  Edited = {a1}  Kinds = {p1, p2}  Values = {v1, v2}
  Reqs = {r1, r2}
  HandEdits <- MCLiveEdits
  Bodies <- MCLiveBodies
  Boot <- MCBoot
  Keys = {"ref", "unset"}
  MaxEdits = 1  MaxFaults = 1
SPECIFICATION FairSpec
INVARIANTS
  ServedAsConfigured
PROPERTIES
  SectionsKept
  Settles
