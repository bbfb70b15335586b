---------------------------- MODULE Construction ----------------------------
(***************************************************************************)
(* Tile placement and the life of a blueprint: BuildSystem, the            *)
(* construction-site index, ConstructionSystem, and the tile mutations     *)
(* that reach under them (completion, instant placement, raids).           *)
(*                                                                         *)
(* A job exists twice.  Its overlay on the tile is authoritative; the      *)
(* entry in state["constructionSites"] is the index builders search.       *)
(* Everything runs on the simulation thread, but the operations of         *)
(* planners, builders, raids and deaths reach the two in any order.  The   *)
(* loop of ConstructionSystem.update is modelled one site at a time.       *)
(***************************************************************************)
EXTENDS BuildCatalog, Sequences, FiniteSets, SequencesExt, FiniteSetsExt

CONSTANTS
  Tiles,           \* row-major indices of the tiles of the grid
  Workers,         \* ids of the agents that may build: dicts in state["agents"]
  Entities,        \* agents that are objects: those navigation moves
  None,            \* Python's None
  InitTile,        \* the scenario's map
  InitResources,   \* the colony's stock
  UsedTools,       \* the tools callers place with
  WorkSteps,       \* builder work of one call, in half seconds
  Paths,           \* sets of tiles a planned path may cross
  RebuildPeriod    \* ticks between two defensive rebuilds (300 in the code)

Overlays ==
  [kind : {"build", "demolish"}, tool : Tools, target : TileTypes,
   original : TileTypes, total : Nat, applied : Nat,
   builder : Workers \union {None},
   cost : [ResourceKeys -> Nat], refund : [ResourceKeys -> Nat]]

\* What the index shows of a job.
ShownJobs == [builder : Workers \union {None}, applied : Nat]

ASSUME ConstantsAssumption ==
  /\ Tiles \subseteq Nat /\ IsFiniteSet(Tiles)
  /\ None \notin Tiles \union Workers \union Overlays \union ShownJobs
  /\ Workers \intersect Entities = {}
  /\ InitTile \in [Tiles -> TileTypes]
  /\ InitResources \in [ResourceKeys -> Nat]
  /\ UsedTools \subseteq Tools
  /\ WorkSteps \subseteq Nat
  /\ Paths \subseteq SUBSET Tiles
  /\ RebuildPeriod \in Nat \ {0}

VARIABLES
  tile,        \* grid.tiles
  overlay,     \* grid.tile_state[idx]["construction"]
  sites,       \* state["constructionSites"]
  resources,   \* state["resources"]
  alive,       \* the agents whose "alive" is true
  route,       \* each agent's target and path, and whether the path's grid
               \* version is the grid's (read of entities only)
  cursor,      \* index the loop of update() examines, -1 outside update()
  tick         \* metrics["tick"] modulo RebuildPeriod

vars == <<tile, overlay, sites, resources, alive, route, cursor, tick>>

SiteEntries == [at : Tiles, builder : Workers \union {None}, applied : Nat]

Agents == Workers \union Entities

Routes ==
  [target : Tiles \union {None}, path : SUBSET Tiles, current : BOOLEAN]

NoRoute == [target |-> None, path |-> {}, current |-> FALSE]

Running == cursor # -1

Init ==
  /\ tile = InitTile
  /\ overlay = [t \in Tiles |-> None]
  /\ sites = << >>
  /\ resources = InitResources
  /\ alive = Workers
  /\ route = [a \in Agents |-> NoRoute]
  /\ cursor = -1
  /\ tick = 0

-----------------------------------------------------------------------------
(* mutate_tile and its cascade.  Building counts, wall HP and the dirty    *)
(* keys are functions of the map and are left out.                         *)

\* The hook reaches living agents that are dicts: one that targets the tile
\* loses target and path, one whose path crosses a tile that now blocks loses
\* the path and keeps the target.  Entities it passes over; but the grid has a
\* new version, and no path of an older one is current.
InvalidatedRoute(a, t, new) ==
  LET targets == route[a].target = t
      blocked == new \in BlockingTiles /\ t \in route[a].path
  IN  IF a \in alive /\ (targets \/ blocked)
      THEN [target |-> IF targets THEN None ELSE route[a].target,
            path |-> {}, current |-> FALSE]
      ELSE [route[a] EXCEPT !.current = FALSE]

MutateTile(t, new) ==
  /\ tile' = [tile EXCEPT ![t] = new]
  /\ route' = IF tile[t] = new
              THEN route
              ELSE [a \in Agents |-> InvalidatedRoute(a, t, new)]

-----------------------------------------------------------------------------
(* BuildSystem *)

PreviewOk(tool, t) ==
  tool # "erase" =>
    /\ tile[t] \in AllowedOldTiles(tool)
    /\ CanAfford(resources, BuildCost[tool])

BuildOverlay(tool, t) ==
  [kind |-> "build", tool |-> tool, target |-> ToolToTile[tool],
   original |-> tile[t], total |-> GetBuildWork[tool], applied |-> 0,
   builder |-> None, cost |-> BuildCost[tool], refund |-> Nothing]

DemolishOverlay(t) ==
  [kind |-> "demolish", tool |-> "erase", target |-> ErasedTile(tile[t]),
   original |-> tile[t], total |-> GetDemolishWork(tile[t]), applied |-> 0,
   builder |-> None, cost |-> DemolishCost, refund |-> Salvage(tile[t])]

NewSite(t) == [at |-> t, builder |-> None, applied |-> 0]

\* Fault: the job is free.
OpenJobUncharged(t, job) ==
  /\ overlay' = [overlay EXCEPT ![t] = job]
  /\ sites' = Append(sites, NewSite(t))
  /\ UNCHANGED <<tile, resources, alive, route, cursor, tick>>

\* The common end of both branches: charge, set the overlay, index it.
OpenJob(t, job) ==
  /\ resources' = Spend(resources, job.cost)
  /\ overlay' = [overlay EXCEPT ![t] = job]
  /\ sites' = Append(sites, NewSite(t))
  /\ UNCHANGED <<tile, alive, route, cursor, tick>>

Placeable(tool, t) ==
  /\ overlay[t] = None                    \* else already_under_construction
  /\ PreviewOk(tool, t)
  /\ tool = "erase" =>
       /\ tile[t] \in BuiltStructureTiles \union {"RUINS"}
       /\ CanAfford(resources, DemolishCost)

PlaceBlueprint(tool, t) ==
  /\ ~Running
  /\ Placeable(tool, t)
  /\ OpenJob(t, IF tool = "erase"
                THEN DemolishOverlay(t)
                ELSE BuildOverlay(tool, t))

\* splice_construction_site drops the first entry of the tile.
SiteIndex(t) == {i \in DOMAIN sites : sites[i].at = t}

FirstSite(t) == CHOOSE i \in SiteIndex(t) : \A j \in SiteIndex(t) : i <= j

\* Fault: the entry stays in the index.
SpliceNothing(t) == sites

SpliceSite(t) ==
  IF SiteIndex(t) = {} THEN sites ELSE RemoveAt(sites, FirstSite(t))

\* cancel_blueprint; an erase aimed at a tile with an overlay ends here too.
\* "cancelable" is never false in the overlays the code creates.
CancelBlueprint(t) ==
  /\ ~Running
  /\ overlay[t] # None
  /\ resources' = Refund(resources, overlay[t].cost)
  /\ overlay' = [overlay EXCEPT ![t] = None]
  /\ sites' = SpliceSite(t)
  /\ UNCHANGED <<tile, alive, route, cursor, tick>>

\* place_tool_at with {"instant": True}: it never looks at the overlay, an
\* erase costs nothing, and the salvage is paid before "unchanged" is seen.
InstantPlace(tool, t) ==
  /\ ~Running
  /\ PreviewOk(tool, t)
  /\ IF tool = "erase"
     THEN /\ resources' = Refund(resources, Salvage(tile[t]))
          /\ MutateTile(t, ErasedTile(tile[t]))
     ELSE /\ resources' = Spend(resources, BuildCost[tool])
          /\ MutateTile(t, ToolToTile[tool])
  /\ UNCHANGED <<overlay, sites, alive, cursor, tick>>

-----------------------------------------------------------------------------
(* Builders.  No system of the package calls these; the worker layer does. *)

\* A builder's entry and its overlay are updated together.
SetBuilder(i, b) ==
  LET t == sites[i].at IN
  /\ sites' = [sites EXCEPT ![i].builder = b]
  /\ overlay' = IF overlay[t] = None
                THEN overlay
                ELSE [overlay EXCEPT ![t].builder = b]
  /\ UNCHANGED <<tile, resources, alive, route, cursor, tick>>

\* Fault: the search for the site the worker has is skipped.
ReserveAnother(w) ==
  /\ ~Running
  /\ w \in alive
  /\ \E i \in DOMAIN sites : sites[i].builder = None /\ SetBuilder(i, w)

\* Fault: the nearest site is taken, assigned or not.
ReserveAnyones(w) ==
  /\ ~Running
  /\ w \in alive
  /\ \A i \in DOMAIN sites : sites[i].builder # w
  /\ \E i \in DOMAIN sites : SetBuilder(i, w)

\* find_or_reserve_builder_site returns the site w already has, else the
\* nearest unassigned one: any of them, positions being arbitrary.
ReserveSite(w) ==
  /\ ~Running
  /\ w \in alive
  /\ \A i \in DOMAIN sites : sites[i].builder # w
  /\ \E i \in DOMAIN sites : sites[i].builder = None /\ SetBuilder(i, w)

\* release_builder_site visits every entry; a worker has one at most, so one
\* is released.  (Under drift a stale second entry is left to SyncSite.)
ReleaseSite(w) ==
  /\ ~Running
  /\ w \in alive
  /\ \E i \in DOMAIN sites : sites[i].builder = w /\ SetBuilder(i, None)

\* apply_construction_work.  Bound: builders stop at the total.
ApplyWork(w, d) ==
  /\ ~Running
  /\ w \in alive
  /\ \E t \in Tiles :
       /\ overlay[t] # None
       /\ overlay[t].builder = w
       /\ overlay[t].applied < overlay[t].total
       /\ overlay' = [overlay EXCEPT ![t].applied = @ + d]
       /\ sites' = IF SiteIndex(t) = {}
                   THEN sites
                   ELSE [sites EXCEPT ![FirstSite(t)].applied =
                                        overlay[t].applied + d]
  /\ UNCHANGED <<tile, resources, alive, route, cursor, tick>>

-----------------------------------------------------------------------------
(* The rest of the world: deaths, raids, path planning *)

Death(w) ==
  /\ ~Running
  /\ w \in alive
  /\ alive' = alive \ {w}
  /\ UNCHANGED <<tile, overlay, sites, resources, route, cursor, tick>>

\* apply_world_event_impact: the overlay, if any, is left where it is.
RaidImpact(t) ==
  /\ ~Running
  /\ tile[t] # "RUINS"
  /\ MutateTile(t, "RUINS")
  /\ UNCHANGED <<overlay, sites, resources, alive, cursor, tick>>

\* External: somebody gives a dict agent a targetTile and a path of {ix, iz}
\* steps over passable tiles, the form the hook reads.  Nothing in the package
\* does so.
PlanRoute(w, t, p) ==
  /\ ~Running
  /\ w \in alive
  /\ \A u \in p : tile[u] \notin Impassable
  /\ route' = [route EXCEPT ![w] =
                 [target |-> t, path |-> p, current |-> FALSE]]
  /\ UNCHANGED <<tile, overlay, sites, resources, alive, cursor, tick>>

\* set_target_and_path binds an entity to a path that a search of this very
\* grid found, now or when the cache stored it.  The tile the entity stands on
\* is left out of the path: there is none left where it is the target.
SetTargetAndPath(e, t, p) ==
  /\ ~Running
  /\ p # {} => t \in p
  /\ \A u \in p : tile[u] \notin Impassable
  /\ route' = [route EXCEPT ![e] =
                 [target |-> t, path |-> p, current |-> TRUE]]
  /\ UNCHANGED <<tile, overlay, sites, resources, alive, cursor, tick>>

\* clear_path: no path was found.
ClearPath(e) ==
  /\ ~Running
  /\ route' = [route EXCEPT ![e] = NoRoute]
  /\ UNCHANGED <<tile, overlay, sites, resources, alive, cursor, tick>>

Routing ==
  \/ \E w \in Workers, t \in Tiles, p \in Paths : PlanRoute(w, t, p)
  \/ \E e \in Entities, t \in Tiles, p \in Paths : SetTargetAndPath(e, t, p)
  \/ \E e \in Entities : ClearPath(e)

-----------------------------------------------------------------------------
(* ConstructionSystem.update *)

\* With an empty index the call returns at once; only the clock moved on.
BeginAt(n) ==
  /\ ~Running
  /\ tick' = (tick + 1) % RebuildPeriod
  /\ cursor' = IF sites = << >> THEN -1 ELSE n
  /\ UNCHANGED <<tile, overlay, sites, resources, alive, route>>

\* Faults: the reverse loop starts one too late, or one too early.
BeginBeyond == BeginAt(Len(sites) + 1)

BeginShort == BeginAt(Len(sites) - 1)

BeginUpdate == BeginAt(Len(sites))

\* Fault: the loop passes over an orphan.
SkipOrphan ==
  /\ cursor > 0
  /\ overlay[sites[cursor].at] = None
  /\ cursor' = cursor - 1
  /\ UNCHANGED <<tile, overlay, sites, resources, alive, route, tick>>

\* An index entry whose overlay is gone is dropped.
DropSite ==
  /\ cursor > 0
  /\ overlay[sites[cursor].at] = None
  /\ sites' = RemoveAt(sites, cursor)
  /\ cursor' = cursor - 1
  /\ UNCHANGED <<tile, overlay, resources, alive, route, tick>>

WorkDone(o) == o.total > 0 /\ o.applied >= o.total

\* Fault: the builder is not looked for among the living.
SyncWithDead ==
  LET t == sites[cursor].at
      o == overlay[t]
  IN
  /\ cursor > 0
  /\ o # None
  /\ ~WorkDone(o)
  /\ sites' = [sites EXCEPT ![cursor] =
                 [at |-> t, builder |-> o.builder, applied |-> o.applied]]
  /\ cursor' = cursor - 1
  /\ UNCHANGED <<tile, overlay, resources, alive, route, tick>>

\* The entry is synchronised from the overlay, and a dead builder is freed.
SyncSite ==
  LET t == sites[cursor].at
      o == overlay[t]
      b == IF o.builder \in alive THEN o.builder ELSE None
  IN
  /\ cursor > 0
  /\ o # None
  /\ ~WorkDone(o)
  /\ overlay' = [overlay EXCEPT ![t].builder = b]
  /\ sites' = [sites EXCEPT ![cursor] =
                 [at |-> t, builder |-> b, applied |-> o.applied]]
  /\ cursor' = cursor - 1
  /\ UNCHANGED <<tile, resources, alive, route, tick>>

\* The overlay goes before the tile changes; a demolition pays its salvage.
CompleteSite ==
  LET t == sites[cursor].at
      o == overlay[t]
  IN
  /\ cursor > 0
  /\ o # None
  /\ WorkDone(o)
  /\ overlay' = [overlay EXCEPT ![t] = None]
  /\ sites' = RemoveAt(sites, cursor)
  /\ MutateTile(t, o.target)
  /\ resources' = IF o.kind = "demolish"
                  THEN Refund(resources, o.refund)
                  ELSE resources
  /\ cursor' = cursor - 1
  /\ UNCHANGED <<alive, tick>>

\* rebuild_construction_sites: one entry per overlay, in index order.
RebuiltSites ==
  LET open == {t \in Tiles : overlay[t] # None}
      Nth(i) == CHOOSE t \in open : Cardinality({u \in open : u <= t}) = i
      Entry(t) == [at |-> t, builder |-> overlay[t].builder,
                   applied |-> overlay[t].applied]
  IN  [i \in 1 .. Cardinality(open) |-> Entry(Nth(i))]

\* The defensive rebuild: only when due and the loop left the index empty.
EndUpdate ==
  /\ cursor = 0
  /\ sites' = IF /\ tick = 0
                 /\ sites = << >>
                 /\ \E t \in Tiles : overlay[t] # None
              THEN RebuiltSites
              ELSE sites
  /\ cursor' = -1
  /\ UNCHANGED <<tile, overlay, resources, alive, route, tick>>

Update == BeginUpdate \/ DropSite \/ SyncSite \/ CompleteSite \/ EndUpdate

-----------------------------------------------------------------------------

BlueprintNext ==
  \/ \E tool \in UsedTools, t \in Tiles : PlaceBlueprint(tool, t)
  \/ \E t \in Tiles : CancelBlueprint(t)
  \/ \E w \in Workers : ReserveSite(w)
  \/ \E w \in Workers : ReleaseSite(w)
  \/ \E w \in Workers, d \in WorkSteps : ApplyWork(w, d)
  \/ \E w \in Workers : Death(w)
  \/ \E t \in Tiles : RaidImpact(t)
  \/ Routing
  \/ Update

Next ==
  \/ BlueprintNext
  \/ \E tool \in UsedTools, t \in Tiles : InstantPlace(tool, t)

Spec == Init /\ [][Next]_vars

-----------------------------------------------------------------------------
(* Drift: something outside the package edits one of the two copies, as    *)
(* the tests and a restored snapshot do.  ConstructionSystem has code for  *)
(* both cases.                                                             *)

LoseOverlay(t) ==
  /\ ~Running
  /\ overlay[t] # None
  /\ overlay' = [overlay EXCEPT ![t] = None]
  /\ UNCHANGED <<tile, sites, resources, alive, route, cursor, tick>>

LoseSite(t) ==
  /\ ~Running
  /\ SiteIndex(t) # {}
  /\ sites' = SpliceSite(t)
  /\ UNCHANGED <<tile, overlay, resources, alive, route, cursor, tick>>

DriftNext ==
  \/ BlueprintNext
  \/ \E t \in Tiles : LoseOverlay(t) \/ LoseSite(t)

\* Callers place blueprints only: planners, as opposed to editor tools.
\* SYSTEM_ORDER has update() called on every tick of the simulation.
DriftSpec == Init /\ [][DriftNext]_vars /\ WF_vars(Update)

-----------------------------------------------------------------------------
(* Properties *)

TypeOK ==
  /\ tile \in [Tiles -> TileTypes]
  /\ overlay \in [Tiles -> Overlays \union {None}]
  /\ sites \in Seq(SiteEntries)
  /\ resources \in [ResourceKeys -> Nat]
  /\ alive \subseteq Workers
  /\ route \in [Agents -> Routes]
  /\ cursor \in -1 .. Len(sites)
  /\ tick \in 0 .. RebuildPeriod - 1

\* The index mirrors the overlays exactly, also between two iterations of the
\* reverse loop that pops from it: every overlay has one entry, every entry
\* has an overlay, and they agree on builder and progress.
Mirror(jobs, index) ==
  /\ \A i \in DOMAIN index :
       /\ jobs[index[i].at] # None
       /\ index[i].builder = jobs[index[i].at].builder
       /\ index[i].applied = jobs[index[i].at].applied
  /\ \A i, j \in DOMAIN index : index[i].at = index[j].at => i = j
  /\ \A t \in Tiles :
       jobs[t] # None => \E i \in DOMAIN index : index[i].at = t

MirrorExact == Mirror(overlay, sites)

\* No agent holds two jobs, though find_or_reserve_builder_site searches the
\* index while work and completion look at the overlays.
OneJobPerBuilder ==
  \A t, u \in Tiles :
    /\ overlay[t] # None
    /\ overlay[u] # None
    /\ overlay[t].builder # None
    /\ overlay[t].builder = overlay[u].builder
    => t = u

\* has_active_path: an entity's path is followed while its version is the
\* grid's.
HasActivePath(e) == route[e].current

\* No path in use leads over a wall or into water, whatever was built,
\* demolished, erased or raided since it was planned.  Two mechanisms see to
\* it: the hook drops the path of a living dict agent; an entity keeps path
\* and target, but has_active_path refuses a path of an older grid.
NoRouteIntoObstacle ==
  \A a \in alive \union {e \in Entities : HasActivePath(e)} :
    \A t \in route[a].path : tile[t] \notin Impassable

Indexed(t) == overlay[t] # None /\ SiteIndex(t) # {}

\* The builder of a job that no agent is alive to finish is let go, so that
\* another can take it, though entries and overlays get lost meanwhile.
DeadBuilderFreed ==
  \A t \in Tiles, w \in Workers :
    (Indexed(t) /\ overlay[t].builder = w /\ w \notin alive)
      ~> ~(Indexed(t) /\ overlay[t].builder = w /\ w \notin alive)

\* Once its work is all applied, a job does not stay on the tile.
FinishedJobCloses ==
  \A t \in Tiles :
    (Indexed(t) /\ WorkDone(overlay[t]))
      ~> ~(Indexed(t) /\ WorkDone(overlay[t]))

\* What the colony could get back for a tile: by demolishing what stands on
\* it, or through the job on it, by cancelling it or by completing it.
Larger(a, b) == IF a >= b THEN a ELSE b

Claim(t, k) ==
  LET o == overlay[t]
      standing == Salvage(tile[t])[k]
  IN  CASE o = None        -> standing
        [] o # None /\ o.kind = "build" ->
             Larger(o.cost[k] + standing, Salvage(o.target)[k])
        [] OTHER           -> Larger(o.cost[k] + standing, o.refund[k])

Recoverable(k) ==
  resources[k] + SumFunction([t \in Tiles |-> Claim(t, k)])

\* Planning, cancelling, completing, demolishing and raids, in any order and
\* with entries lost meanwhile, never leave the colony with more than it had:
\* no refund is paid twice.  (The editor's instant placements are excepted:
\* they may exchange one structure for a dearer one.)
NoFreeResources ==
  [][\A k \in ResourceKeys : Recoverable(k)' <= Recoverable(k)]_vars

\* An entry whose overlay is gone leaves the index, and no builder is sent
\* to a tile without a job for ever.
OrphanDropped ==
  \A t \in Tiles :
    (overlay[t] = None /\ SiteIndex(t) # {})
      ~> (overlay[t] # None \/ SiteIndex(t) = {})

-----------------------------------------------------------------------------
(* The promise to builders: the index is a job board (see JobBoard).       *)

BoardedJob(t) ==
  IF SiteIndex(t) = {}
  THEN None
  ELSE [builder |-> sites[FirstSite(t)].builder,
        applied |-> sites[FirstSite(t)].applied]

Board == INSTANCE JobBoard WITH board <- [t \in Tiles |-> BoardedJob(t)]

BoardSpec == Board!Spec

=============================================================================
