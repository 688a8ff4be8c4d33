SPECIFICATION Spec
CONSTANTS
  Client = {c1, c2}
  Sender = {c1, c2}
  MaxSend = 1
  RespLen = 1
  RespBuf = 1
  ClientBuf = 1
  EpollFails = FALSE
PROPERTIES Answered
CHECK_DEADLOCK FALSE
