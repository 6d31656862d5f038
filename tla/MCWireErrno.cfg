CONSTANTS
  Request <- SentRequest
  MaxReq = 1
  MaxMemory = 1
  MaxKeepAliveRequests = 0
  bEnableKeepAlive = TRUE
  bPut = TRUE
  Byte = {1, 2}
  CR = 1
  LF = 2
  Chunk = 1
  Want = {1}
  MaxCalls = 1
  MaxBytes = 1
SPECIFICATION WireSpec
PROPERTY ReadReturns
CHECK_DEADLOCK FALSE
