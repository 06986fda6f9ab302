SPECIFICATION FairSpec
CONSTANTS
  official = official
  mine = mine
  home = home
  host = host
  keyH = keyH
  keyM = keyM
  catH = catH
  catM = catM
  p = p
  q = q
  Junk = Junk
  NoFile = NoFile
  Down = Down
  Unset = Unset
  Unsigned = Unsigned
  Ids <- MCIds
  Official = official
  Urls <- MCUrls
  Home = home
  Keys <- MCKeys
  HomeKey = keyH
  Catalogs <- MCCatalogs
  SignedBy <- MCSignedBy
  Offers <- MCOffers
  Addable <- MCAddable
  Overrides = {Unset, host}
  MaxRepos = 2
  MaxEdits = 2
  MaxPublishes = 1
  MaxUpdates = 1
  MaxCrashes = 1
CHECK_DEADLOCK FALSE
INVARIANTS
  TypeOK
  IdsUnique
  FirstMatchWins
  CatalogsUsable
  KeyVouches
PROPERTIES
  LiveReposUpdated
  UpdateEnds
