CONSTANTS
  Acceptor = {a1}
  Worker = {w1, w2}
  Client = {c1}
  Addr = {x1}
  None = None
  MaxReq = 2
  RespLen = 2
  BufSize = 2
  BadInput = TRUE
  EpollFails = FALSE
  MaxEvents = 1
SPECIFICATION SpecServing
INVARIANTS
  OneHandler
  NoUseAfterFree
  CursorExact
PROPERTY Served
CHECK_DEADLOCK FALSE
