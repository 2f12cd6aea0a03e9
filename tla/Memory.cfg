SPECIFICATION MCSpec
CONSTANTS
  t1 = t1  t2 = t2  paris = paris  lives = lives  dark = dark  tea = tea
  Turns = {t1, t2}
  Streams = {t2}
  Question <- MCQuestion
  ReplySizes = {2}
  Facts = {paris, lives, dark, tea}
  Tokens <- MCTokens
  Similar <- MCSimilar
  Closeness <- MCCloseness
  FactLists <- MCFactLists
  Configs <- MCConfigs
  Unset = Unset
  ContextBudget = 4
  MemoryBudget = 2
  RecallK = 2
  MaxFacts = 3
  MaxMishaps = 2
  helper = helper  rater = rater  split = split  probe = probe
  plain = plain  judged = judged  rubric = rubric  empty = empty  trial = trial  script = script
  None = None  Tombstone = Tombstone  e1 = e1  e2 = e2
  Names = {helper, rater, split, probe}
  Kinds = {plain, judged, rubric, empty, trial, script}
  Editors = {e1, e2}
  Files <- MCFiles
  Puts <- MCPuts
  Asked <- MCAsked
  Refers <- MCRefers
  Unbuildable = {empty}
  MaxOps = 3
  MaxUpsets = 1
SYMMETRY EditorSymmetry
INVARIANTS
  ContextFaithful
  FactsSound
  StudioSound
CHECK_DEADLOCK FALSE
