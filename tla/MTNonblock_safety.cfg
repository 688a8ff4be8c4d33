CONSTANTS
  Acceptor = {a1, a2}
  Worker = {w1}
  Client = {c1}
  Addr = {x1}
  None = None
  MaxReq = 2
  RespLen = 2
  BufSize = 1
  BadInput = TRUE
  EpollFails = TRUE
  MaxEvents = 2
SPECIFICATION Spec
SYMMETRY ServerSymmetry
INVARIANTS
  TypeOK
  WriteHasData
  RepeatsBounded
CHECK_DEADLOCK FALSE
