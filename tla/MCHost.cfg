CONSTANTS
  Child = {c1, c2}
  Name = {1, 2}
  Request <- Asked
  Index = 1
  FirstTree <- Tree1
  MaxIno = 5
  MaxTime = 2
  MaxReq = 3
  Inst = {1, 2, 3}
  Inode = {1, 2}
  Proc = {1, 2}
  Daemon = 1
  rotateinterval = 2
  Interval = 2
  Zone = 1
  Shift = 0
  MaxClock = 3
  MaxLines = 2
SPECIFICATION Spec
INVARIANTS
  SendsWhatIsThere
  DidWhatItSays
  StartsAndEnds
  LogKept
PROPERTY CopyIsGood
CHECK_DEADLOCK FALSE
