----------------------------- MODULE Logistics ------------------------------
(***************************************************************************)
(* How well a place that produces is served by roads and depots, worked    *)
(* out once for each version of the map                                    *)
(* (simulation/economy/logistics_system.py).  A tier stands for its        *)
(* factor; the tiles in each tier, which the code counts, can be read off. *)
(***************************************************************************)
EXTENDS RoadNetwork

CONSTANTS
  Producing,  \* the kinds of _PRODUCTION_TILES, warehouses among them
  Tracks,     \* roads and bridges; a warehouse is none here
  DepotReach  \* how far a depot serves

ASSUME LogisticsAssumption ==
  /\ Warehouse \in Producing
  /\ Producing \subseteq Kinds
  /\ Tracks \subseteq Roads \ {Warehouse}
  /\ DepotReach \in Nat

VARIABLES
  efficiency,       \* _efficiency_map
  logisticsVersion  \* LogisticsSystem._grid_version

logisticsVars == <<efficiency, logisticsVersion>>

LogisticsInit ==
  /\ efficiency = <<>>
  /\ logisticsVersion = -1

HasRoadNeighbour(tiles, t) ==
  \E n \in Range(Neighbours(t)) \intersect Tiles : tiles[n] \in Tracks

\* As the crow flies, whatever the roads.
NearDepot(tiles, t) ==
  \E w \in Tiles : tiles[w] = Warehouse /\ Distance(t, w) <= DepotReach

Tier(tiles, t) ==
  CASE HasRoadNeighbour(tiles, t) /\ NearDepot(tiles, t)  -> "connected"
    [] HasRoadNeighbour(tiles, t) /\ ~NearDepot(tiles, t) -> "adjacent"
    [] ~HasRoadNeighbour(tiles, t)                        -> "isolated"

\* update
UpdateLogistics(tiles, version) ==
  /\ logisticsVersion # version
  /\ logisticsVersion' = version
  /\ efficiency' = [t \in {u \in Tiles : tiles[u] \in Producing} |-> Tier(tiles, t)]

GetEfficiency(t) == IF t \in DOMAIN efficiency THEN efficiency[t] ELSE "adjacent"

=============================================================================
