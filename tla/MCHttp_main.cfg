SPECIFICATION Spec
CONSTANTS
  Arguments <- MCArguments
  Streams <- MCStreams
  Later <- MCLater
  Segments = {1, 2, 7, 30, 200}
  RECVBUF = 200
  BUFGROW = 16
  ULLONG_MAX = 255
  HTTP_MAX_HEADER_SIZE = 110
  MaxConnections = 2
CHECK_DEADLOCK FALSE
INVARIANTS
  AssertsHold
  ScriptGetsWhatWasSent
  CompleteAtTheLastByte
  UrlIsUnderstood
  EveryMethodIsKnown
PROPERTIES
  NoSilentLoss
  NoNeedlessReconnect
