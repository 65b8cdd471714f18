\* Counts that wrap; the loop runs twice between two of them.
CONSTANTS
  Wide = 64
  BLINK = 5
  Loops = 2
SPECIFICATION BlinkSpec
INVARIANT OffIsShort
PROPERTY BlinkEnds
CHECK_DEADLOCK FALSE
