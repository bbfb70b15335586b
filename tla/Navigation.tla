----------------------------- MODULE Navigation -----------------------------
(***************************************************************************)
(* A map that changes, and what is remembered about it: paths in a cache   *)
(* and in the hands of a walker, searches in the threads of a pool, the    *)
(* road network, the nearest tile of a kind, the efficiency of the places  *)
(* that produce.  Everything that is remembered carries the version of the *)
(* map it was computed for, and nothing is told when the map changes: the  *)
(* version is all that keeps it from being used too late                   *)
(* (simulation/navigation/, world/grid.py).                                *)
(***************************************************************************)
EXTENDS PathCache, PathWorkerPool, ReachabilityCache, Logistics

CONSTANTS
  Layouts,    \* the maps to begin with
  Changes,    \* what may be built: [tile, kind]
  Start,      \* where the walker is at first
  Goals,      \* where it may be sent
  Spots,      \* where others ask the pool and the views from
  Asked,      \* sets of kinds whose nearest tile is asked for
  MaxVersion  \* bound: of the version of the map

ASSUME NavigationAssumption ==
  /\ Layouts \subseteq Maps
  /\ Changes \subseteq [tile : Tiles, kind : Kinds]
  /\ Start \in Tiles
  /\ Goals \subseteq Tiles
  /\ Spots \subseteq Tiles
  /\ Asked \subseteq SUBSET Kinds
  /\ MaxVersion \in Nat \ {0}

VARIABLES
  tiles,          \* grid.tiles
  version,        \* grid.version
  walker,         \* an entity: where it is, path, path_index, path_grid_version,
                  \* target_tile
  network,        \* RoadNetwork: the union-find of the last rebuild
  networkVersion  \* RoadNetwork._grid_version

gridVars == <<tiles, version>>
networkVars == <<network, networkVersion>>
viewVars == <<reachVars, networkVars, logisticsVars>>
vars == <<gridVars, walker, cache, poolVars, viewVars>>

Jobs == [version : 1 .. MaxVersion, start : Spots, goal : Goals]
Questions == [tile : Spots, kinds : Asked]

Here(goal) == Key(version, walker.at, goal)

\* clear_path
Idle(at) == [at |-> at, path |-> None, index |-> 1, version |-> -1, target |-> None]

Bound(path, goal) ==
  [at |-> walker.at, path |-> path, index |-> 1, version |-> version, target |-> goal]

Init ==
  /\ tiles \in Layouts
  /\ version = 1
  /\ walker = Idle(Start)
  /\ cache = <<>>
  /\ PoolInit
  /\ ReachInit
  /\ network = Rebuilt([t \in Tiles |-> CHOOSE k \in Kinds : k \notin Roads])
  /\ networkVersion = -1
  /\ LogisticsInit

-----------------------------------------------------------------------------
(* The map *)

\* set_tile; nobody registers a callback for it.
SetTile(change) ==
  /\ tiles[change.tile] # change.kind
  /\ version < MaxVersion
  /\ tiles' = [tiles EXCEPT ![change.tile] = change.kind]
  /\ version' = version + 1
  /\ UNCHANGED <<walker, cache, poolVars, viewVars>>

-----------------------------------------------------------------------------
(* set_target_and_path *)

StayThere(goal) ==
  /\ walker.at = goal
  /\ walker' = Bound(<<goal>>, goal)
  /\ UNCHANGED <<gridVars, cache, poolVars, viewVars>>

TakeCached(goal) ==
  /\ walker.at # goal
  /\ Hits(Here(goal))
  /\ walker' = Bound(CachedPath(Here(goal)), goal)
  /\ cache' = Touched(Here(goal))
  /\ UNCHANGED <<gridVars, poolVars, viewVars>>

SearchPath(goal) ==
  LET path == Searched(tiles, walker.at, goal)
  IN  /\ walker.at # goal
      /\ ~ Hits(Here(goal))
      /\ IF path = NoPath
         THEN /\ walker' = Idle(walker.at)
              /\ UNCHANGED cache
         ELSE /\ walker' = Bound(path, goal)
              /\ cache' = Recorded(Here(goal), path)
      /\ UNCHANGED <<gridVars, poolVars, viewVars>>

SetTargetAndPath(goal) == StayThere(goal) \/ TakeCached(goal) \/ SearchPath(goal)

-----------------------------------------------------------------------------
(* Following a path *)

\* Fault: the version a path was found for is not looked at.
HasAnyPath == walker.path # None /\ walker.index <= Len(walker.path)

HasActivePath ==
  /\ walker.path # None
  /\ walker.index <= Len(walker.path)
  /\ walker.version = version

\* follow_path: the mover, who asks has_active_path first, has brought the
\* walker to the tile it was on its way to.
FollowPath ==
  /\ HasActivePath
  /\ walker' = [walker EXCEPT !.at = walker.path[walker.index], !.index = @ + 1]
  /\ UNCHANGED <<gridVars, cache, poolVars, viewVars>>

ClearPath ==
  /\ walker.path # None
  /\ walker' = Idle(walker.at)
  /\ UNCHANGED <<gridVars, cache, poolVars, viewVars>>

-----------------------------------------------------------------------------
(* The pool *)

RequestPath(start, goal) ==
  /\ Request(tiles, Key(version, start, goal))
  /\ UNCHANGED <<gridVars, walker, cache, viewVars>>

SearchOn(key) ==
  /\ UNCHANGED <<gridVars, walker, cache, viewVars>>
  /\ Work(tiles, key)

\* Who takes a path puts it into the cache, under the version it was asked
\* for.  A search that found none is not remembered.
HandedOver(key, path) ==
  cache' = IF path = NoPath THEN cache ELSE Recorded(key, path)

Take(key) ==
  /\ \/ TakeResult(key) /\ HandedOver(key, results[key])
     \/ TakeDone(key) /\ HandedOver(key, pending[key].path)
  /\ UNCHANGED <<gridVars, walker, viewVars>>

ShutDownPool ==
  /\ Shutdown
  /\ UNCHANGED <<gridVars, walker, cache, viewVars>>

-----------------------------------------------------------------------------
(* The other things that are remembered *)

AskNearest(question) ==
  /\ GetOrProbe(tiles, version, question)
  /\ UNCHANGED <<gridVars, walker, cache, poolVars, networkVars, logisticsVars>>

\* A question to the road network builds it again when the map has changed.
AskNetwork ==
  /\ networkVersion # version
  /\ network' = Rebuilt(tiles)
  /\ networkVersion' = version
  /\ UNCHANGED <<gridVars, walker, cache, poolVars, reachVars, logisticsVars>>

TickLogistics ==
  /\ UpdateLogistics(tiles, version)
  /\ UNCHANGED <<gridVars, walker, cache, poolVars, reachVars, networkVars>>

Invalidate ==
  /\ cache' = Newer(version)
  /\ UNCHANGED <<gridVars, walker, poolVars, viewVars>>

ClearCache ==
  /\ cache' = <<>>
  /\ UNCHANGED <<gridVars, walker, poolVars, viewVars>>

-----------------------------------------------------------------------------
Next ==
  \/ \E change \in Changes : SetTile(change)
  \/ \E goal \in Goals : SetTargetAndPath(goal)
  \/ \E start \in Spots, goal \in Goals : RequestPath(start, goal)
  \/ FollowPath
  \/ ClearPath
  \/ \E key \in DOMAIN pending : SearchOn(key)
  \/ \E key \in DOMAIN pending \union DOMAIN results : Take(key)
  \/ ShutDownPool
  \/ \E question \in Questions : AskNearest(question)
  \/ AskNetwork
  \/ TickLogistics
  \/ Invalidate
  \/ ClearCache

\* A thread of the pool goes on.
Fairness == WF_vars(\E key \in DOMAIN pending : SearchOn(key))

Spec == Init /\ [][Next]_vars /\ Fairness

-----------------------------------------------------------------------------
(* Properties *)

\* What the cache or the pool holds under the current version of the map is
\* true of the current map, although a search ran in steps while the map was
\* changing: a path is a way from one end to the other, and a search that
\* ended without one ended because there is none (a_star, PathCache.get,
\* PathWorkerPool.take).
PathsFresh ==
  LET True(key, path) ==
        key.version = version => Truthful(tiles, path, key.start, key.goal)
  IN  /\ \A i \in DOMAIN cache : True(cache[i].key, cache[i].path)
      /\ \A key \in DOMAIN results : True(key, results[key])
      /\ \A key \in DOMAIN pending :
           pending[key].done => True(key, pending[key].path)

\* The nearest tile that was told is the one the map shows now.
NearestFresh ==
  reachVersion = version => \A q \in DOMAIN reach : reach[q] = Probed(tiles, q)

\* The union-find joins two road tiles exactly when a way of road tiles does,
\* counts them, and finds a warehouse among them.
NetworkFresh ==
  networkVersion = version =>
    LET roads == {t \in Tiles : tiles[t] \in Roads}
        linked == [s \in roads |-> {Last(way) : way \in Ways(roads, s)}]
        stores == [s \in roads |-> {t \in linked[s] : tiles[t] = Warehouse}]
    IN  /\ network.roads = roads
        /\ \A t \in Tiles :
             IsAdjacentToConnectedRoad(network, t) =
               \E s \in roads : Distance(s, t) = 1 /\ stores[s] # {}
        /\ \A s \in roads :
             /\ linked[s] = {t \in roads : AreConnected(network, s, t)}
             /\ ComponentSize(network, s) = Cardinality(linked[s])
             /\ IF stores[s] = {} THEN ConnectedWarehouse(network, s) = None
                ELSE ConnectedWarehouse(network, s) \in stores[s]

\* The efficiency of a place tells whether a road passes it and whether there
\* is a depot at all, and other places have none.
EfficiencyFresh ==
  logisticsVersion = version =>
    /\ \A t \in Tiles : GetEfficiency(t) # "adjacent" => tiles[t] \in Producing
    /\ \A t \in DOMAIN efficiency :
         LET tracks == {n \in Tiles : Distance(t, n) = 1 /\ tiles[n] \in Tracks}
         IN  /\ efficiency[t] = "isolated" <=> tracks = {}
             /\ efficiency[t] = "connected" =>
                  \E w \in Tiles : tiles[w] = Warehouse

\* What is remembered of the nearest tiles, of the road network and of the
\* places that produce for the current version is what the map shows now
\* (ReachabilityCache.is_reachable, RoadNetwork, LogisticsSystem).
ViewsFresh == NearestFresh /\ NetworkFresh /\ EfficiencyFresh

\* A path that has_active_path calls active leads to the target, and nothing
\* that was built since it was found stands in the rest of it
\* (set_target_and_path, has_active_path).
ActivePathsClear ==
  HasActivePath =>
    /\ Last(walker.path) = walker.target
    /\ \A i \in walker.index .. Len(walker.path) :
         i > 1 => /\ Distance(walker.path[i - 1], walker.path[i]) = 1
                  /\ tiles[walker.path[i]] \in Passable

\* Searches handed to threads come to an end, whatever happens to the map
\* meanwhile: the pool, which is asked MaxRequests times, is again and again
\* without one that runs (PathWorkerPool.request, a_star).
SearchesEnd ==
  []<>(\A key \in Jobs : ~ Running(key))

=============================================================================
