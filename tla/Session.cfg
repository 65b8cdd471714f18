SPECIFICATION FairSpec
CONSTANTS
  T44 = T44
  T84 = T84
  Nil = Nil
  Unreadable = Unreadable
  Foreign = Foreign
  Documents = {d0, d1, d2}
  NoBlocks = d0
  Places <- MCPlaces
  Shapes <- MCShapes
  Speeds = {0, 8}
  Targets <- MCTargets
  DefaultView <- MCDefaultView
  Languages = {"en", "fr"}
  FormerEntries <- MCFormerEntries
  Faults = {}
  MaxScripts = 2
INVARIANTS
  ShownInLanguage
PROPERTIES
  ImplementsStore
  ChangesAreSaved
