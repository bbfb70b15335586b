SPECIFICATION PlanSpec
CONSTANTS
  w1 = w1
  s0 = s0
  s1 = s1
  s2 = s2
  ghost = ghost
  None = None
  Tiles <- ThreeTiles
  Workers <- OneWorker
  Entities <- NoEntities
  InitTile <- GrassRuinsWater
  InitResources <- Stock
  UsedTools = {}
  WorkSteps = {6}
  Paths <- NoPaths
  RebuildPeriod = 1
  Plans <- SmallPlans
PROPERTIES
  DependenciesBuilt
  ReadyStepTried
CHECK_DEADLOCK FALSE
