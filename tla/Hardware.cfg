SPECIFICATION DrawnSpec
CONSTANTS
  tiny44 = tiny44
  tiny84 = tiny84
  Undefined = Undefined
  Keys <- MCKeys
  Chips <- MCChips
  Object <- MCObject
  Names <- MCNames
  Pins <- MCPins
  Sizes = {0, 2, 4, 6, 8, 10, 12, 14, 16, 18, 20, 22, 24, 26, 28, 30, 32, 34, 36, 38, 40}
  Languages = {"fr", "en"}
INVARIANTS
  DrawingIsRight
  PinsAreApart
PROPERTIES
  ImplementsPins
CHECK_DEADLOCK FALSE
