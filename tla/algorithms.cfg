SPECIFICATION Spec
CONSTANTS
  Generic <- MCGeneric
  M68k <- MCM68k
  Emulating <- MCEmulating
  MaxToken = 2
  MaxOps = 2
  MaxEntries = 3
  MaxPaths = 1
  JunkNames <- MCJunkNames
  JunkPrefixes <- MCJunkPrefixes
  JunkPatterns <- MCJunkPatterns
  MaxDepth = 2
  MaxChain = 3
  MaxBlocks = 3
  TableSize = 2
  BlockBytes = 2
  Floppies = {0, 4}
  Wide = 3
INVARIANTS
  VersionsOrdered
  RecipesRunAsMeant
  FloppiesExtracted
