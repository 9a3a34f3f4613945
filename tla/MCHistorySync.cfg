CONSTANTS
  a = a
  b = b
  None = None
  Syncs <- MCSyncs
  Requests <- MCRequests
  VenueBars <- MCVenueBars
  FirstNow = 7
  LastNow = 8
  FlushAt = 3
  MaxGapRepairs = 2
  MaxCalls = 3
  MaxCrashes = 1
SPECIFICATION Spec
INVARIANTS TypeOK GapsFilled
PROPERTIES StampSticks OnlyGrows SyncEnds
CHECK_DEADLOCK FALSE
