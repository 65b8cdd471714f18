SPECIFICATION FairSpec
CONSTANTS
  b1 = b1
  b2 = b2
  b3 = b3
  b4 = b4
  x = "x"
  odd = "odd"
  Nil = Nil
  Start = Start
  Trapped = Trapped
  Done = Done
  Blocks <- MCBlocks
  Vars <- MCVars
  NameOf <- MCNameOf
  Speeds <- MCSpeeds
  TimerIds <- MCTimerIds
  Programs <- MCPrograms
INVARIANTS
  SingleTimer
  ButtonsMatchMode
  HighlightIsNext
  SourceIsCurrent
  PlayingIsAlive
PROPERTIES
  ImplementsProcessor
  Responsive
  KeepsRunning
  PauseIsWaited
