SPECIFICATION LifeSpec
CONSTANTS
  Capacity = 1
  AgeWeight = 1
  Goods = {"food", "wood"}
  InitialKinds <- WorkerAndVisitor
  Hold <- ShortHolds
  GraceTime = 2
  BaseCap = 1
  WarehouseCap = 1
  Targets = {3}
  RecruitCost = 1
  RecruitBuffer = 2
  RecruitCooldown = 2
  RecruitQueueMax = 2
  RecruitHeadroom = 1
  EatRate = 1
  CheckEvery = 1
  Consumption = 1
  SpoilEvery <- FoodSpoils
  Emergency <- Thresholds
  Replenished = 2
  Critical = 2
  WindowLen = 3
  MaxEvents = 2
  Weathers = {"clear", "rain"}
  InitialStock <- FirstStock
  Load = 4
  MaxStock = 8
  MaxTicks = 5
  MaxObjectives = 1
  MaxWarehouses = 2
  MaxRecoveries = 2
INVARIANTS HeadsCounted StarvationFair StockAccounted
PROPERTIES AnchorsSurvive
