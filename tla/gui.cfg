SPECIFICATION FairSpec
CONSTANTS
  p = p
  q = q
  g = g
  m = m
  NoId = NoId
  GadTools = {g}
  Muis = {m}
  Ids <- MCIds
  Foreign = {q}
  Runs <- MCIds
  Catalogs <- MCCatalogs
  FirstDb <- MCFirstDb
  FirstCat = 1
  Filters <- MCFilters
  MaxTicks = 1
  MaxWindows = 1
  MaxChanges = 1
CHECK_DEADLOCK FALSE
INVARIANTS
  TypeOK
  OwnResult
  ButtonsTruthful
PROPERTIES
  ActsOnPicked
  WaitEnds
