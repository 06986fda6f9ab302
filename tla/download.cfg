SPECIFICATION FairSpec
CONSTANTS
  p1 = p1
  p2 = p2
  small = small
  large = large
  lha = lha
  None = None
  Junk = Junk
  Pkgs = {p1, p2}
  Archives = {small, large}
  Size <- MCSize
  Names = {lha}
  Name <- MCName
  Mirrors <- MCMirrors
  MaxHops = 4
  Faithful = FALSE
  MaxPublishes = 1
  MaxFaults = 1
INVARIANTS
  TypeOK
  FetchedIsPinned
  CacheWhole
PROPERTIES
  GivenUpForVerified
  FetchEnds
