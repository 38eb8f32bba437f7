SPECIFICATION Spec
CONSTANTS
  Apis = {"epoll", "select", "kqueue", "evport"}
  Conn = {c1, c2}
  Fd = {0, 1, 2}
  None = none
  Other = other
  MaxConnects = 4
  MaxOthers = 1
SYMMETRY Symmetry
CHECK_DEADLOCK FALSE
INVARIANTS
  RecordsAgree
  ActsOnOwnSocket
PROPERTIES
  StaleIsSkipped
