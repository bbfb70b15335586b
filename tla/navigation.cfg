SPECIFICATION Spec
CONSTANTS
  None = None
  Width = 3
  Height = 2
  Kinds <- MCKinds
  Passable <- MCPassable
  BaseCost <- MCBaseCost
  Estimate = 20
  MaxNodes = 100
  Roads <- MCRoads
  Warehouse = "warehouse"
  Producing = {"farm", "warehouse"}
  Tracks = {"road"}
  DepotReach = 3
  MaxEntries = 1
  MaxRequests = 1
  ProbeBudget = 1
  Layouts <- MCLayouts
  Changes <- MCChanges
  Start <- MCStart
  Goals <- MCGoals
  Spots <- MCSpots
  Asked <- MCAsked
  MaxVersion = 3
INVARIANTS
  PathsFresh
  ViewsFresh
  ActivePathsClear
PROPERTIES
  SearchesEnd
