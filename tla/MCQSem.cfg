CONSTANTS
  Daemon = d
  Proc = {d, c1, c2}
  NoProc = none
  MaxWait = 2
  MaxLocked = 1
  MayEnd = TRUE
SPECIFICATION FairSpec
INVARIANTS
  MutualExclusion
  PermitsKept
PROPERTIES
  RefinesMutex
  EntersEventually
CHECK_DEADLOCK FALSE
