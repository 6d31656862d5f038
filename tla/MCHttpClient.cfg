CONSTANTS
  Size = {0, 2}
  Piece = 1
  MaxCalls = 2
SPECIFICATION ClientSpec
INVARIANTS
  AnswerIsOwn
  ResultTrue
PROPERTY CallEnds
CHECK_DEADLOCK FALSE
