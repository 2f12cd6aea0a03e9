SPECIFICATION FairEvaluation
CONSTANTS
  a1 = a1
  a2 = a2
  j1 = j1
  j2 = j2
  j3 = j3
  j4 = j4
  c1 = c1
  u1 = u1
  r1 = r1
  Agents = {a1, a2}
  Judges = {j1, j2, j3, j4}
  Criteria = {c1}
  ExperimentName = E
  Unset = Unset
  Scale = 3
  DefaultEpsilon = 1
  DefaultMinSamples = 1
  Users = {u1}
  Runs = {r1}
  Hash <- MCHash
  Rubrics <- MCRubrics
  Rates <- MCRates
  BootAgents <- MCBootAgents
  JudgeLists <- MCJudgeLists
  Gone = Gone
  Configs <- MCConfigs
  Tests <- MCTests
  RawScores <- MCRawScores
  NaN = NaN
  MaxScore = 1
  MaxReplies = 2
  MaxUpsets = 1
INVARIANTS
  ScoresSound
  RoutingSound
  RunsTruthful
PROPERTIES
  BackgroundEnds
CHECK_DEADLOCK FALSE
