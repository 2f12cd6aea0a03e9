CONSTANTS
  todo = todo  jira = jira  None = None
  Names = {todo, jira}  Users = {ann, bob}  Tabs = {t1, t2}
  First <- MCFirst
  Configs <- MCConfigs
  Publishes <- MCPublishes
  TTL = 0  MaxClock = 1  MaxMishaps = 1  MaxBoots = 1  MaxLinks = 1
SPECIFICATION MCSpec
SYMMETRY ConnectSymmetry
INVARIANTS
  GrantsBelong
  ClientSound
  DocumentsSound
  ToolsUsable
  StreamFaithful
PROPERTY CodesHonoured
CHECK_DEADLOCK FALSE
