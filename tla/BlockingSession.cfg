CONSTANTS
  Modulus = 16
  Request <- MCRequest
  MaxReq = 2
  BufSize = 8
SPECIFICATION Spec
INVARIANTS
  TypeOK
  FramingKept
  NothingLost
  ParserReady
PROPERTIES
  CommandFinished
  StopCloses
CHECK_DEADLOCK FALSE
