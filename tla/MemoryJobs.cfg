SPECIFICATION FairMemorySpec
CONSTANTS
  s1 = s1  a = a  b = b
  NRuns = 2
  Sessions = {s1}
  SessionOf <- OneSessionOf
  Values = {a, b}
  Says <- ChangesMind
  NoValue = NoValue
  Workers = {w1, w2}
  Editors = {e1}
  MaxAttempts = 2
  MaxActs = 1
CHECK_DEADLOCK FALSE
INVARIANTS CoveredInOrder ErasedLeavesNothing
PROPERTIES UsersHaveTheLastWord EffectOnce EveryJobSettles
