SPECIFICATION FairSpec
CONSTANTS
  Signals = {"DTR", "RTS", "other"}
  OneWire = {TRUE, FALSE}
  Noise = 1
INVARIANTS
  ResetIsOver
  OkIsAnswer
PROPERTIES
  Ends
