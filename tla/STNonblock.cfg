SPECIFICATION Spec
CONSTANTS
  Client = {c1, c2}
  Sender = {c1}
  MaxSend = 3
  RespLen = 2
  RespBuf = 2
  ClientBuf = 2
  EpollFails = TRUE
INVARIANTS TypeOK NoUseAfterFree WriteHasData
PROPERTIES JoinReturns
CHECK_DEADLOCK FALSE
