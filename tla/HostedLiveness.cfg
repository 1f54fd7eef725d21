SPECIFICATION FairSandboxSpec
CONSTANTS
  u1 = u1  s1 = s1  r1 = r1
  NoRun = NoRun
  Users = {u1}
  Sessions = {s1}
  Runs = {r1}
  OwnerOf <- SingleOwnerOf
  SessionOf <- SingleSessionOf
  MaxRunning = 1
  UserRunning = 1
  MaxWaiting = 1
  UserWaiting = 1
  Workers = {w1}
  Sweepers = {m1}
  MaxClaims = 2
  MaxFence = 3
  Requests = {q1, q2}
INVARIANT OneCleanSandbox
PROPERTIES EveryRunEnds SlotsComeBack SandboxesVanish
CHECK_DEADLOCK FALSE
