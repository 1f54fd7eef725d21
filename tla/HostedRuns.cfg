SPECIFICATION Spec
CONSTANTS
  u1 = u1  s1 = s1  r1 = r1  r2 = r2
  NoRun = NoRun
  Users = {u1}
  Sessions = {s1}
  Runs = {r1, r2}
  OwnerOf <- OneOwnerOf
  SessionOf <- OneSessionOf
  MaxRunning = 1
  UserRunning = 1
  MaxWaiting = 2
  UserWaiting = 1
  Workers = {w1, w2}
  Sweepers = {m1}
  MaxClaims = 2
  MaxFence = 3
SYMMETRY HostedSymmetry
CHECK_DEADLOCK FALSE
INVARIANTS FinishedIsReleased Ownership
PROPERTIES EndsOnce ImplementsLifecycle
