SPECIFICATION FairSpec
CONSTANTS
  Req = {q1}
  MaxCrashes = 2
CHECK_DEADLOCK FALSE
INVARIANTS
  AssertsSpreadDown
  SuccessIsSettled
  ErrorsStopAtS0
PROPERTIES
  EverythingEnds
  KeepsContracts
