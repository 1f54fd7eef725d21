SPECIFICATION FairMemorySpec
CONSTANTS
  s1 = s1  a = a  b = b
  NRuns = 2
  Sessions = {s1}
  SessionOf <- OneSessionOf
  Values = {a, b}
  Says <- ChangesMind
  NoValue = NoValue
  Workers = {w1}
  Editors = {e1}
  MaxAttempts = 2
  MaxActs = 1
PROPERTY MixedIsRebuilt
CHECK_DEADLOCK FALSE
