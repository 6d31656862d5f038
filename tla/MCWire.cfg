CONSTANTS
  Request <- SentRequest
  MaxReq = 2
  MaxMemory = 1
  MaxKeepAliveRequests = 0
  bEnableKeepAlive = TRUE
  bPut = TRUE
  Byte = {0, 1, 2}
  CR = 1
  LF = 2
  Chunk = 2
  Want = {1, 3}
  MaxCalls = 2
  MaxBytes = 3
SPECIFICATION WireSpec
INVARIANTS
  InStep
  SaysWhatItDid
PROPERTIES
  ClosesAsTold
  Served
  Returns
CHECK_DEADLOCK FALSE
