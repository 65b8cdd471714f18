SPECIFICATION FairSpec
CONSTANTS
  B = 3
  Slack = 1
INVARIANTS
  ReturnsSample
  CountxIsExact
PROPERTIES
  ReaderReturns
