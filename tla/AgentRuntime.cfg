SPECIFICATION FairSpec
CONSTANTS
  front = front  back = back  side = side  plain = plain  either = either
  chat = chat  replay = replay  job = job  NoAgent = NoAgent
  Acts = {chat, replay, job}
  Recorded = {chat, replay}
  Turn <- MCTurn
  Agents = {front, back, side, plain}
  Names = {either}
  Variants <- MCVariants
  Lists <- MCLists
  Start <- MCStart
  Chats = {chat}
  ShadowOf <- MCShadowOf
  Tasks = {job}
  Tools = {"mcp", "dispatch_task", "skill_file"}
  Quiet = {"dispatch_task"}
  Parsers = {"skill_file"}
  MaxDepth = 1
  MaxRounds = 2
  MaxRepairs = 0
  MaxBatch = 1
  MaxMishaps = 1
INVARIANTS
  WorkBounded
  SpansFaithful
PROPERTIES
  ActsEnd
CHECK_DEADLOCK FALSE
