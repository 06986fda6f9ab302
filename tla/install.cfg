SPECIFICATION FairSpec
CONSTANTS
  a = a
  b = b
  c = c
  self = self
  host = host
  virt = virt
  gone = gone
  Targets <- MCTargets
  Catalogs <- MCCatalogs
  Cpus <- MCCpus
  MaxPlan = 5
  Self = self
  x = x
  y = y
  Blocks = {x, y}
  Unfit = {c}
  BuildOnly = {host}
  MaxFaulty = 1
  MaxCommands = 1
CHECK_DEADLOCK FALSE
PROPERTIES
  DependenciesFirst
  OthersUntouched
  ReportTruthful
  InstallEnds
