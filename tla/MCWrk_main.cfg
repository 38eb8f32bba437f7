SPECIFICATION FairSpec
CONSTANTS
  Interval = 2
  Chunks = 2
  Ring = 2
  MaxTime = 10
  MaxResets = 2
  ConnectMayFail = TRUE
CHECK_DEADLOCK FALSE
INVARIANTS
  NeverAhead
PROPERTIES
  LatencyIsOwnUntilLoss
  OpenLoop
