SPECIFICATION FairSpec
CONSTANTS
  Second = 3
  Epoch = 9
  Duration = 3
  TimeoutInterval = 3
  CalibrateDelay = 3
  SampleInterval = 2
  MaxWait = 2
  Jumps <- ClockSet
  MaxBusy = 2
  MaxIds = 4
CHECK_DEADLOCK FALSE
INVARIANTS StopsInTime
PROPERTIES OnTime Ends
