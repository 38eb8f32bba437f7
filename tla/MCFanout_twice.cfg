SPECIFICATION FairSpec
CONSTANTS
  Block = {1, 2}
  Req = {1, 2, 3}
  N = 2
  Reuse = TRUE
  MaxFaults = 0
  None = none
CONSTRAINT InOrder
CHECK_DEADLOCK FALSE
INVARIANTS
  NeverAborted
