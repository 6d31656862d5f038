CONSTANTS
  StartServers = 2
  MinSpareServers = 2
  MaxSpareServers = 2
  MaxClients = 3
  MaxChilds = 4
  KillIdleInterval = 2
  MaxPreforkAtOnce = 2
  MaxBorn = 2
  MaxFailures = 2
  MaxRetired = 2
SPECIFICATION FairSpec
INVARIANT SlotForEach
PROPERTIES
  EnoughServers
  SparesTrimmed
