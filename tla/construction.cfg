SPECIFICATION Spec
CONSTANTS
  w1 = w1
  w2 = w2
  None = None
  Tiles <- TwoTiles
  Workers <- TwoWorkers
  Entities <- NoEntities
  InitTile <- GrassAndBridge
  InitResources <- TinyStock
  UsedTools = {"wall", "bridge", "erase"}
  WorkSteps = {6}
  Paths <- NoPaths
  RebuildPeriod = 1
SYMMETRY WorkerSymmetry
INVARIANTS
  TypeOK
  MirrorExact
  OneJobPerBuilder
PROPERTIES
  BoardSpec
CHECK_DEADLOCK FALSE
