CONSTANTS
  Child = {c1, c2}
  Slots = 2
  Versions = 2
  Servers <- Two
  SoftRounds = 1
  HardRounds = 2
  MaxFaults = 1
  MaxReloads = 1
SPECIFICATION MCSpec
INVARIANT NoneServes
PROPERTIES
  TermEnds
  Reaped
  ReloadReaches
CHECK_DEADLOCK FALSE
