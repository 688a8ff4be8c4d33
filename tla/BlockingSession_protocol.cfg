CONSTANTS
  Modulus = 16
  Request <- MCRequest
  MaxReq = 1
  BufSize = 8
SPECIFICATION Spec
INVARIANT ProtocolKept
CHECK_DEADLOCK FALSE
