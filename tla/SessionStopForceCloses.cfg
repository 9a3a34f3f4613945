SPECIFICATION Spec
CONSTANTS
  None = None
  Deploys = {d1, d2}
  Stops = {s1}
INVARIANTS
  StopForceCloses
CHECK_DEADLOCK FALSE
