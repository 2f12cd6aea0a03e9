SPECIFICATION MCSpec
CONSTANTS
  Tasks = {t1, t2, t3}
  Workers = {w1, w2}
  NoTask = NoTask
  NoWorker = NoWorker
  MaxTime = 2
  MaxFaults = 2
  Servers = {s1, s2}
  Features = 2
  Settings <- MCSettings
  Sidecars = {c1}
  Absent = Absent  Torn = Torn  EnvKey = EnvKey  NoServer = NoServer
  MaxBoots = 3  MaxMishaps = 2
INVARIANTS
  ClaimsSound
  KeysSound
  SchemaSound
  SidecarsSound
PROPERTIES
  OldestFirst
  ImplementsBoard
  NoStarvation
