SPECIFICATION Spec
CONSTANTS
  a = a
  b = b
  plain = plain
  turbo = turbo
  virt = virt
  gone = gone
  lost = lost
  Targets <- MCTargets
  Catalogs <- MCCatalogs
  Cpus <- MCCpus
  MaxPlan = 3
CHECK_DEADLOCK FALSE
INVARIANTS
  TypeOK
  PlanCorrect
  BestVariant
