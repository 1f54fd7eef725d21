SPECIFICATION DispatchSpec
CONSTANTS
  u1 = u1  u2 = u2  s1 = s1  s2 = s2  s3 = s3  r1 = r1  r2 = r2  r3 = r3
  NoRun = NoRun
  Users = {u1, u2}
  Sessions = {s1, s2, s3}
  Runs = {r1, r2, r3}
  OwnerOf <- TrioOwnerOf
  SessionOf <- TrioSessionOf
  MaxRunning = 1
  UserRunning = 1
  MaxWaiting = 3
  UserWaiting = 2
  Asking = {r1, r2, r3}
INVARIANT NobodyHoldsTheHead
CHECK_DEADLOCK FALSE
