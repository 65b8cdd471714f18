SPECIFICATION Spec
CONSTANTS
  T44 = T44
  T84 = T84
  Nil = Nil
  Unreadable = Unreadable
  Foreign = Foreign
  Documents = {d0, d1}
  NoBlocks = d0
  Places <- MCPlaces
  Shapes <- MCShapes
  Speeds = {8}
  Targets = {T44}
  DefaultView <- MCDefaultView
  Languages = {"en", "fr"}
  FormerEntries <- MCFormerEntries
  Faults = {"kill", "quota", "slow", "former", "hasty"}
  MaxScripts = 2
INVARIANTS
  CleanIsSaved
  StoredInOrder
  BuiltInLanguage
