SPECIFICATION DriftSpec
CONSTANTS
  w1 = w1
  w2 = w2
  None = None
  Tiles <- TwoTiles
  Workers <- OneWorker
  Entities <- OneEntity
  InitTile <- GrassAndBridge
  InitResources <- MicroStock
  UsedTools = {"wall", "bridge", "erase"}
  WorkSteps = {6}
  Paths <- AcrossBridge
  RebuildPeriod = 2
INVARIANTS
  NoRouteIntoObstacle
PROPERTIES
  DeadBuilderFreed
  FinishedJobCloses
  OrphanDropped
  NoFreeResources
CHECK_DEADLOCK FALSE
