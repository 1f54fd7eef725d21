SPECIFICATION MCSpec
CONSTANTS
  d1 = d1
  d2 = d2
  s1 = s1
  s2 = s2
  c1 = c1
  c2 = c2
  p1 = p1
  p2 = p2
  p3 = p3
  Shards = {s1, s2}
  Docs = {d1, d2}
  ShardOf <- OnShards
  Attrs = {a}
  Gone = Gone
  NoClick = NoClick
  Capacity = 3
  MaxSeq = 4
  Consumers = {c1, c2}
  Processes = {p1, p2, p3}
  ConsumerOf <- TheirConsumers
  NoManifest = NoManifest
  PageSize = 2
  MaxDepth = 1
  MaxEpoch = 2
  NoProcess = NoProcess
  Scenes <- SearchScenes
CHECK_DEADLOCK FALSE
INVARIANTS AnswersCoverReceipts
