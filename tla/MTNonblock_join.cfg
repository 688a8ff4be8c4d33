CONSTANTS
  Acceptor = {a1}
  Worker = {w1}
  Client = {c1}
  Addr = {x1}
  None = None
  MaxReq = 0
  RespLen = 1
  BufSize = 1
  BadInput = FALSE
  EpollFails = FALSE
  MaxEvents = 2
SPECIFICATION Spec
PROPERTY JoinReturns
CHECK_DEADLOCK FALSE
