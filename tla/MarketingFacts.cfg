SPECIFICATION MCSpec
CONSTANTS
  A = A
  B = B
  o1 = o1
  Creatives = {A, B}
  Orders = {o1}
  Impressions = {1, 2}
  CreativeOf <- TwoCreatives
  Requests <- AllRequests
  Markers <- AllMarkers
  Rebuilds = {0}
  RangeOf <- FirstDay
  Ids = {1, 2, 3, 4, 5, 6, 7, 8, 9, 10, 11, 12, 13}
  NoId = NoId
  NoRequest = NoRequest
  NoOrder = NoOrder
  NoPartition = NoPartition
  NoSnapshot = NoSnapshot
  Scenes <- SmallScenes
  Workers = {w1, w2}
  LastDay = 4
  LateDays = 1
  ClickDays = 1
  AutoDays = 0
  Deadline = 1
  MaxEpoch = 6
  BacklogLimit = 5
  BatchLimit = 2
  MaxAttempts = 2
SYMMETRY WorkerSymmetry
CHECK_DEADLOCK FALSE
INVARIANTS LedgerIsSound CoverageIsExact PublishedIsRight
PROPERTIES PublicationsGoForward CompleteReportsAreFinal
