CONSTANTS
  Pid = {p1, p2, p3}
  NoPid = nopid
  Daemon = daemon
  MaxChild = 2
  MaxRequestsPerChild = 1
  MaxKeepAliveRequests = 0
  StartServers = 1
  MinSpareServers = 0
  MayOverrun = TRUE
  MaxLaunched = 3
  MaxConnected = 1
  MaxRequests = 1
  MaxFaults = 1
SPECIFICATION Spec
CONSTRAINT Unforced
SYMMETRY Symm
INVARIANTS
  SlotOwned
  CountersExact
PROPERTIES
  ExitRequestKept
  RefinesRegistry
CHECK_DEADLOCK FALSE
