---------------------------- MODULE BuildCatalog ----------------------------
(***************************************************************************)
(* The static tables of simulation/construction: which tool produces which *)
(* tile, on which terrain, at which cost and for how much builder work.    *)
(*                                                                         *)
(* Amounts of resources and seconds of work are counted in halves: salvage *)
(* is half of a cost and the shortest jobs take 1.5 s, so every number the *)
(* code computes is an integer here.                                       *)
(***************************************************************************)
EXTENDS Integers

TileTypes == {"GRASS", "ROAD", "FARM", "LUMBER", "WAREHOUSE", "WALL",
              "RUINS", "WATER", "QUARRY", "BRIDGE"}

\* Tiles no unit may stand on: TILE_INFO[...]["passable"] is False.
Impassable == {"WALL", "WATER"}

\* Fault: an erased bridge is forgotten.
BlockingLandTiles == {"RUINS", "WALL"}

\* Tiles whose appearance invalidates the paths that cross them.
BlockingTiles == {"RUINS", "WALL", "WATER"}

BuiltStructureTiles == {"FARM", "LUMBER", "WAREHOUSE", "WALL", "QUARRY",
                        "BRIDGE", "ROAD"}

BuildTools == {"road", "farm", "lumber", "warehouse", "wall", "quarry",
               "bridge"}

Tools == BuildTools \union {"erase"}

ResourceKeys == {"wood", "stone"}    \* no tool costs food

ToolToTile ==
  [road |-> "ROAD", farm |-> "FARM", lumber |-> "LUMBER",
   warehouse |-> "WAREHOUSE", wall |-> "WALL", quarry |-> "QUARRY",
   bridge |-> "BRIDGE"]

AllowedOldTiles(tool) ==
  CASE tool = "road"   -> {"GRASS", "RUINS"}
    [] tool = "bridge" -> {"WATER"}
    [] OTHER           -> {"GRASS", "ROAD", "RUINS"}

Amount(wood, stone) == [wood |-> 2 * wood, stone |-> 2 * stone]

Nothing == Amount(0, 0)

BuildCost ==
  [road |-> Amount(1, 0), farm |-> Amount(3, 0), lumber |-> Amount(2, 0),
   warehouse |-> Amount(6, 2), wall |-> Amount(2, 1),
   quarry |-> Amount(3, 1), bridge |-> Amount(4, 2)]

DemolishCost == Amount(1, 0)

\* What erasing a tile gives back: half of what building it costs.
Salvage(type) ==
  IF type \in BuiltStructureTiles
  THEN LET tool == CHOOSE u \in BuildTools : ToolToTile[u] = type
       IN  [k \in ResourceKeys |-> BuildCost[tool][k] \div 2]
  ELSE Nothing

\* The tile an erase leaves behind.
ErasedTile(type) == IF type = "BRIDGE" THEN "WATER" ELSE "GRASS"

GetBuildWork ==
  [road |-> 3, farm |-> 8, lumber |-> 8, warehouse |-> 12, wall |-> 10,
   quarry |-> 10, bridge |-> 10]

GetDemolishWork(type) ==
  CASE type = "RUINS" -> 3
    [] type = "WALL"  -> 5
    [] OTHER          -> 6

CanAfford(have, cost) == \A k \in ResourceKeys : have[k] >= cost[k]

Spend(have, cost) ==
  [k \in ResourceKeys |-> IF have[k] > cost[k] THEN have[k] - cost[k] ELSE 0]

Refund(have, amount) == [k \in ResourceKeys |-> have[k] + amount[k]]

=============================================================================
