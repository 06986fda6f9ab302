SPECIFICATION InstallerSpec
CONSTANTS
  a = a
  b = b
  c = c
  self = self
  host = host
  virt = virt
  gone = gone
  Targets <- MCTargets
  Catalogs <- MCCatalogs
  Cpus <- MCCpus
  MaxPlan = 9
  Self = self
  x = x
  y = y
  Blocks = {x}
  Unfit = {c}
  BuildOnly = {host}
  MaxFaulty = 1
  MaxCommands = 1
CHECK_DEADLOCK FALSE
PROPERTY UpgradesEverything
