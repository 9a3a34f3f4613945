SPECIFICATION FairSpec
CONSTANTS
  None = None
  Deploys = {d1, d2, d3}
  Stops = {s1, s2}
INVARIANTS
  TypeOK
  OneLoop
  FinalizedStaysFlat
  RunningMeansLive
PROPERTIES
  ErrorSticks
  StopReturns
CHECK_DEADLOCK FALSE
