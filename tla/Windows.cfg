\* One window: the windows share the mouse and the page, and nothing else.
SPECIFICATION Spec
CONSTANTS
  Nil = Nil
  Wins = {w1}
  Points <- FewPoints
  Bodies <- MCBodies
  InitPlace <- MCInitPlace
  InitSize <- MCInitSize
  BarHeight = 10
  MaxSize = 250
  Lossy = TRUE
INVARIANTS
  PlaceIsSaved
PROPERTIES
  MovedIsVisible
