SPECIFICATION FairSpec
CONSTANTS
  Block = {1, 2, 3, 4, 5}
  Req = {1, 2, 3}
  None = none
CONSTRAINT InOrder
CHECK_DEADLOCK FALSE
INVARIANTS
  ListenersMatch
  FreedIsQuiet
  AbortIsEarlyTag
PROPERTIES
  AnsweredOrAborted
