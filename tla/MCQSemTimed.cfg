CONSTANTS
  Daemon = d
  Proc = {d, c1, c2}
  NoProc = none
  MaxWait = 5
  MaxLocked = 1
  MayEnd = FALSE
  MaxHold = 1
  MaxStuck = 13
  MinPeriod = 2
  Period = 3
SPECIFICATION TSpec
INVARIANTS
  ForcedByCrowd
  OverrunBounded
CONSTRAINT Unforced
SYMMETRY Symm
