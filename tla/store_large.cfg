SPECIFICATION Spec
CONSTANTS
  self = self
  app = app
  lib = lib
  bin = bin
  tool = tool
  mui = mui
  hBin = hBin
  hTool = hTool
  aBin = aBin
  aTool = aTool
  aLib = aLib
  sLib = sLib
  None = None
  Edited = Edited
  Cut = Cut
  Pkgs <- MCPkgs
  Self = self
  Recipes <- MCRecipes
  MaxVersion = 2
  Entries <- MCEntries
  Paths <- MCPaths
  Ships <- MCShips
  Match <- MCMatch
  Dest <- MCDest
  LibOf <- MCLibOf
  Hooks <- MCHooks
  SelfBin = hBin
  SelfFiles <- MCHome
  Home <- MCHome
  Runtime = {}
  Drawers <- MCDrawers
  InUse = {}
  MaxFiles = 2
  MaxRecord = 2
  DiskFull = FALSE
  MaxCrashes = 0
  MaxCommands = 3
  MaxEdits = 1
CHECK_DEADLOCK FALSE
INVARIANTS
  TypeOK
  ReceiptCovers
  InstallRepairs
PROPERTIES
  ModifiedSurvives
  NeverForgetsFiles
  LedgerSpec
