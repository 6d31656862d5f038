CONSTANTS
  Pid = {p1, p2}
  NoPid = nopid
  Daemon = daemon
  MaxChild = 2
  MaxRequestsPerChild = 1
  MaxKeepAliveRequests = 1
  StartServers = 1
  MinSpareServers = 0
  MayOverrun = FALSE
  MaxLaunched = 2
  MaxConnected = 1
  MaxRequests = 1
  MaxFaults = 1
SPECIFICATION MCSpec
INVARIANTS
  OneSlot
  NoGhost
PROPERTIES
  ExitHonoured
  CountersRepaired
  SlotFreed
CHECK_DEADLOCK FALSE
