SPECIFICATION FairSpec
CONSTANTS
  Block = {1, 2, 3, 4}
  Req = {1, 2}
  N = 2
  Reuse = FALSE
  MaxFaults = 2
  None = none
CONSTRAINT InOrder
CHECK_DEADLOCK FALSE
INVARIANTS
  IInv
  MutexExclusion
  FreedIsQuiet
PROPERTIES
  ForwardsOnce
  RefinesContract
  Answered
