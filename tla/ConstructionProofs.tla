------------------------- MODULE ConstructionProofs -------------------------
(***************************************************************************)
(* For every map, colony, stock and set of tools: the state of the         *)
(* construction subsystem is well typed, the index of construction sites   *)
(* mirrors the overlays exactly, builders are exclusive, the index         *)
(* implements the abstract job board, no refund is paid twice, and a step  *)
(* of a plan is submitted when what it depends on stands on the map.       *)
(***************************************************************************)
EXTENDS PlanExecutor, SequenceTheorems, FiniteSetTheorems,
        WellFoundedInduction, TLAPS

(***************************************************************************)
(* Sequences                                                               *)
(***************************************************************************)

\* Popping position i keeps the other entries, in order.
LEMMA RemoveAtProperties ==
  ASSUME NEW S, NEW s \in Seq(S), NEW i \in 1 .. Len(s)
  PROVE  /\ RemoveAt(s, i) \in Seq(S)
         /\ Len(RemoveAt(s, i)) = Len(s) - 1
         /\ \A j \in 1 .. Len(s) - 1 :
              RemoveAt(s, i)[j] = IF j < i THEN s[j] ELSE s[j + 1]
<1> DEFINE front == SubSeq(s, 1, i - 1)
           back  == SubSeq(s, i + 1, Len(s))
<1>1. /\ Len(s) \in Nat /\ i \in Nat /\ i >= 1 /\ i <= Len(s)
      /\ \A j \in 1 .. Len(s) : s[j] \in S
  BY LenProperties, ElementOfSeq
<1>2. /\ front \in Seq(S)
      /\ Len(front) = i - 1
      /\ \A j \in 1 .. i - 1 : front[j] = s[j]
  BY <1>1, SubSeqProperties
<1>3. /\ back \in Seq(S)
      /\ Len(back) = Len(s) - i
      /\ \A j \in 1 .. Len(s) - i : back[j] = s[i + j]
  BY <1>1, SubSeqProperties
<1>4. RemoveAt(s, i) = front \o back
  BY DEF RemoveAt
<1> HIDE DEF front, back
<1>5. /\ front \o back \in Seq(S)
      /\ Len(front \o back) = Len(front) + Len(back)
      /\ \A j \in 1 .. Len(front) + Len(back) :
           (front \o back)[j] = IF j <= Len(front)
                                THEN front[j]
                                ELSE back[j - Len(front)]
  BY <1>2, <1>3, ConcatProperties
<1>6. QED
  BY <1>1, <1>2, <1>3, <1>4, <1>5

(***************************************************************************)
(* The three ways the two copies of a job change together                  *)
(***************************************************************************)

OverlayMaps == [Tiles -> Overlays \union {None}]

\* Opening a job keeps the mirror exact.
LEMMA MirrorOpens ==
  ASSUME NEW jobs \in OverlayMaps, NEW index \in Seq(SiteEntries),
         Mirror(jobs, index),
         NEW t \in Tiles, jobs[t] = None,
         NEW job \in Overlays, job.builder = None, job.applied = 0
  PROVE  Mirror([jobs EXCEPT ![t] = job], Append(index, NewSite(t)))
<1> DEFINE n      == Len(index)
           index2 == Append(index, NewSite(t))
           jobs2  == [jobs EXCEPT ![t] = job]
<1>1. NewSite(t) \in SiteEntries /\ NewSite(t).at = t
      /\ NewSite(t).builder = None /\ NewSite(t).applied = 0
  BY DEF NewSite, SiteEntries
<1>2. /\ n \in Nat
      /\ DOMAIN index = 1 .. n
      /\ \A i \in 1 .. n : index[i] \in SiteEntries
  BY LenProperties, ElementOfSeq
<1>3. /\ index2 \in Seq(SiteEntries)
      /\ Len(index2) = n + 1
      /\ \A i \in 1 .. n : index2[i] = index[i]
      /\ index2[n + 1] = NewSite(t)
  BY <1>1, AppendProperties
<1>4. DOMAIN index2 = 1 .. n + 1
  BY <1>3, LenProperties
<1>5. /\ job # None
      /\ jobs2 = [u \in Tiles |-> IF u = t THEN job ELSE jobs[u]]
  BY ConstantsAssumption DEF OverlayMaps
<1>6. \A i \in 1 .. n : index[i].at \in Tiles /\ index[i].at # t
  BY <1>2 DEF Mirror, SiteEntries
<1> HIDE DEF index2, jobs2, n
<1>7. ASSUME NEW i \in 1 .. n + 1
      PROVE  /\ jobs2[index2[i].at] # None
             /\ index2[i].builder = jobs2[index2[i].at].builder
             /\ index2[i].applied = jobs2[index2[i].at].applied
  <2>1. CASE i = n + 1
    BY <2>1, <1>1, <1>3, <1>5
  <2>2. CASE i \in 1 .. n
    BY <2>2, <1>2, <1>3, <1>5, <1>6 DEF Mirror
  <2>3. QED
    BY <2>1, <2>2, <1>2
<1>8. ASSUME NEW i \in 1 .. n + 1, NEW j \in 1 .. n + 1,
             index2[i].at = index2[j].at
      PROVE  i = j
  BY <1>1, <1>2, <1>3, <1>6, <1>8 DEF Mirror
<1>9. ASSUME NEW u \in Tiles, jobs2[u] # None
      PROVE  \E i \in 1 .. n + 1 : index2[i].at = u
  <2>1. CASE u = t
    BY <2>1, <1>1, <1>2, <1>3
  <2>2. CASE u # t
    <3>1. PICK i \in 1 .. n : index[i].at = u
      BY <2>2, <1>2, <1>5, <1>9 DEF Mirror
    <3>2. QED
      BY <3>1, <1>2, <1>3
  <2>3. QED
    BY <2>1, <2>2
<1>10. Mirror(jobs2, index2)
  BY <1>4, <1>7, <1>8, <1>9 DEF Mirror
<1>11. QED
  BY <1>10 DEF jobs2, index2

\* Closing a job and popping its entry keeps the mirror exact.
LEMMA MirrorCloses ==
  ASSUME NEW jobs \in OverlayMaps, NEW index \in Seq(SiteEntries),
         Mirror(jobs, index),
         NEW i \in 1 .. Len(index)
  PROVE  Mirror([jobs EXCEPT ![index[i].at] = None], RemoveAt(index, i))
<1> DEFINE n      == Len(index)
           t      == index[i].at
           index2 == RemoveAt(index, i)
           jobs2  == [jobs EXCEPT ![t] = None]
           From(j) == IF j < i THEN j ELSE j + 1
<1>1. /\ n \in Nat
      /\ DOMAIN index = 1 .. n
      /\ \A j \in 1 .. n : index[j] \in SiteEntries
      /\ t \in Tiles
  <2>1. /\ n \in Nat
        /\ DOMAIN index = 1 .. n
        /\ \A j \in 1 .. n : index[j] \in SiteEntries
    BY LenProperties, ElementOfSeq
  <2>2. QED
    BY <2>1 DEF SiteEntries
<1>2. /\ index2 \in Seq(SiteEntries)
      /\ Len(index2) = n - 1
      /\ \A j \in 1 .. n - 1 : index2[j] = index[From(j)]
  BY RemoveAtProperties
<1>3. DOMAIN index2 = 1 .. n - 1
  BY <1>2, LenProperties
<1>4. jobs2 = [u \in Tiles |-> IF u = t THEN None ELSE jobs[u]]
  BY DEF OverlayMaps
<1>5. \A j \in 1 .. n - 1 : From(j) \in 1 .. n /\ From(j) # i
  BY <1>1
<1>6. \A j \in 1 .. n : j # i => index[j].at # t /\ index[j].at \in Tiles
  BY <1>1 DEF Mirror, SiteEntries
<1>7. \A j, k \in 1 .. n - 1 : From(j) = From(k) => j = k
  BY <1>1
<1>8. \A j \in 1 .. n : j # i => \E k \in 1 .. n - 1 : From(k) = j
  <2>1. SUFFICES ASSUME NEW j \in 1 .. n, j # i
                 PROVE  \E k \in 1 .. n - 1 : From(k) = j
    OBVIOUS
  <2>2. CASE j < i
    <3>1. j \in 1 .. n - 1 /\ From(j) = j
      BY <2>2, <1>1
    <3>2. QED
      BY <3>1
  <2>3. CASE j > i
    <3>1. j - 1 \in 1 .. n - 1 /\ From(j - 1) = j
      BY <2>3, <1>1
    <3>2. QED
      BY <3>1
  <2>4. QED
    BY <2>1, <2>2, <2>3, <1>1
<1> HIDE DEF index2, jobs2, n, t, From
<1>9. ASSUME NEW j \in 1 .. n - 1
      PROVE  /\ jobs2[index2[j].at] # None
             /\ index2[j].builder = jobs2[index2[j].at].builder
             /\ index2[j].applied = jobs2[index2[j].at].applied
  BY <1>1, <1>2, <1>4, <1>5, <1>6 DEF Mirror
<1>10. ASSUME NEW j \in 1 .. n - 1, NEW k \in 1 .. n - 1,
              index2[j].at = index2[k].at
       PROVE  j = k
  BY <1>1, <1>2, <1>5, <1>7, <1>10 DEF Mirror
<1>11. ASSUME NEW u \in Tiles, jobs2[u] # None
       PROVE  \E k \in 1 .. n - 1 : index2[k].at = u
  <2>1. u # t /\ jobs[u] # None
    BY <1>4, <1>11
  <2>2. PICK j \in 1 .. n : index[j].at = u
    BY <2>1, <1>1 DEF Mirror
  <2>3. PICK k \in 1 .. n - 1 : From(k) = j
    BY <2>1, <2>2, <1>8 DEF t
  <2>4. QED
    BY <2>2, <2>3, <1>2
<1>12. Mirror(jobs2, index2)
  BY <1>3, <1>9, <1>10, <1>11 DEF Mirror
<1>13. QED
  BY <1>12 DEF jobs2, index2, t

\* Rewriting both copies of one job alike keeps the mirror exact.
LEMMA MirrorRewrites ==
  ASSUME NEW jobs \in OverlayMaps, NEW index \in Seq(SiteEntries),
         Mirror(jobs, index),
         NEW i \in 1 .. Len(index),
         NEW job \in Overlays,
         NEW entry \in SiteEntries, entry.at = index[i].at,
         entry.builder = job.builder, entry.applied = job.applied
  PROVE  Mirror([jobs EXCEPT ![index[i].at] = job],
                [index EXCEPT ![i] = entry])
<1> DEFINE n      == Len(index)
           t      == index[i].at
           index2 == [index EXCEPT ![i] = entry]
           jobs2  == [jobs EXCEPT ![t] = job]
<1>1. /\ n \in Nat
      /\ DOMAIN index = 1 .. n
      /\ \A j \in 1 .. n : index[j] \in SiteEntries
      /\ t \in Tiles
  <2>1. /\ n \in Nat
        /\ DOMAIN index = 1 .. n
        /\ \A j \in 1 .. n : index[j] \in SiteEntries
    BY LenProperties, ElementOfSeq
  <2>2. QED
    BY <2>1 DEF SiteEntries
<1>2. /\ DOMAIN index2 = 1 .. n
      /\ \A j \in 1 .. n : index2[j] = IF j = i THEN entry ELSE index[j]
  BY <1>1
<1>3. /\ job # None
      /\ jobs2 = [u \in Tiles |-> IF u = t THEN job ELSE jobs[u]]
  BY ConstantsAssumption DEF OverlayMaps
<1>4. \A j \in 1 .. n : index2[j].at = index[j].at
  BY <1>1, <1>2
<1>5. \A j \in 1 .. n : j # i => index[j].at # t /\ index[j].at \in Tiles
  BY <1>1 DEF Mirror, SiteEntries
<1> HIDE DEF index2, jobs2, n
<1>6. ASSUME NEW j \in 1 .. n
      PROVE  /\ jobs2[index2[j].at] # None
             /\ index2[j].builder = jobs2[index2[j].at].builder
             /\ index2[j].applied = jobs2[index2[j].at].applied
  <2>1. CASE j = i
    BY <2>1, <1>1, <1>2, <1>3
  <2>2. CASE j # i
    <3>1. /\ jobs[index[j].at] # None
          /\ index[j].builder = jobs[index[j].at].builder
          /\ index[j].applied = jobs[index[j].at].applied
      BY <1>1 DEF Mirror
    <3>2. index2[j] = index[j] /\ jobs2[index[j].at] = jobs[index[j].at]
      BY <2>2, <1>2, <1>3, <1>5
    <3>3. QED
      BY <3>1, <3>2
  <2>3. QED
    BY <2>1, <2>2
<1>7. ASSUME NEW j \in 1 .. n, NEW k \in 1 .. n,
             index2[j].at = index2[k].at
      PROVE  j = k
  BY <1>1, <1>4, <1>7 DEF Mirror
<1>8. ASSUME NEW u \in Tiles, jobs2[u] # None
      PROVE  \E k \in 1 .. n : index2[k].at = u
  BY <1>1, <1>3, <1>4, <1>8 DEF Mirror, n
<1>9. Mirror(jobs2, index2)
  BY <1>2, <1>6, <1>7, <1>8 DEF Mirror
<1>10. QED
  BY <1>9 DEF jobs2, index2

(***************************************************************************)
(* The tables and what the operations make of them are well typed          *)
(***************************************************************************)

LEMMA AmountTyped ==
  ASSUME NEW wood \in Nat, NEW stone \in Nat
  PROVE  Amount(wood, stone) \in [ResourceKeys -> Nat]
BY DEF Amount, ResourceKeys

LEMMA CostsTyped ==
  /\ \A tool \in BuildTools : BuildCost[tool] \in [ResourceKeys -> Nat]
  /\ DemolishCost \in [ResourceKeys -> Nat]
  /\ Nothing \in [ResourceKeys -> Nat]
<1>1. ASSUME NEW tool \in BuildTools
      PROVE  \E wood, stone \in Nat : BuildCost[tool] = Amount(wood, stone)
  BY DEF BuildTools, BuildCost
<1>2. QED
  BY <1>1, AmountTyped DEF DemolishCost, Nothing

LEMMA SalvageTyped ==
  ASSUME NEW type \in TileTypes
  PROVE  Salvage(type) \in [ResourceKeys -> Nat]
<1>1. CASE type \in BuiltStructureTiles
  <2> DEFINE tool == CHOOSE u \in BuildTools : ToolToTile[u] = type
  <2>1. \E u \in BuildTools : ToolToTile[u] = type
    BY <1>1 DEF BuiltStructureTiles, BuildTools, ToolToTile
  <2>2. tool \in BuildTools
    BY <2>1
  <2> HIDE DEF tool
  <2>3. \A k \in ResourceKeys : BuildCost[tool][k] \div 2 \in Nat
    BY <2>2, CostsTyped
  <2>4. [k \in ResourceKeys |-> BuildCost[tool][k] \div 2]
          \in [ResourceKeys -> Nat]
    BY <2>3
  <2>5. QED
    BY <1>1, <2>4 DEF Salvage, tool
<1>2. CASE type \notin BuiltStructureTiles
  BY <1>2, CostsTyped DEF Salvage
<1>3. QED
  BY <1>1, <1>2

LEMMA SpendRefundTyped ==
  ASSUME NEW have \in [ResourceKeys -> Nat],
         NEW amount \in [ResourceKeys -> Nat]
  PROVE  /\ Spend(have, amount) \in [ResourceKeys -> Nat]
         /\ Refund(have, amount) \in [ResourceKeys -> Nat]
BY DEF Spend, Refund

LEMMA TilesTyped ==
  /\ \A tool \in BuildTools : ToolToTile[tool] \in TileTypes
  /\ \A type \in TileTypes : ErasedTile(type) \in TileTypes
BY DEF BuildTools, ToolToTile, TileTypes, ErasedTile

\* A fresh overlay is well typed, unclaimed, and no work is applied to it.
LEMMA FreshOverlays ==
  ASSUME TypeOK, NEW t \in Tiles, NEW tool \in Tools
  PROVE  /\ tool # "erase" =>
              /\ BuildOverlay(tool, t) \in Overlays
              /\ BuildOverlay(tool, t).builder = None
              /\ BuildOverlay(tool, t).applied = 0
         /\ DemolishOverlay(t) \in Overlays
         /\ DemolishOverlay(t).builder = None
         /\ DemolishOverlay(t).applied = 0
<1>1. tile[t] \in TileTypes
  BY DEF TypeOK
<1>2. tool # "erase" =>
        /\ tool \in BuildTools
        /\ GetBuildWork[tool] \in Nat
  BY DEF Tools, BuildTools, GetBuildWork
<1>3. GetDemolishWork(tile[t]) \in Nat
  BY DEF GetDemolishWork
<1>4. tool # "erase" => BuildOverlay(tool, t) \in Overlays
  BY <1>1, <1>2, CostsTyped, TilesTyped DEF BuildOverlay, Overlays, Tools
<1>5. DemolishOverlay(t) \in Overlays
  BY <1>1, <1>3, CostsTyped, TilesTyped, SalvageTyped
     DEF DemolishOverlay, Overlays, Tools
<1>6. QED
  BY <1>4, <1>5 DEF BuildOverlay, DemolishOverlay

(***************************************************************************)
(* The inductive invariant                                                 *)
(***************************************************************************)

IInv == TypeOK /\ MirrorExact /\ OneJobPerBuilder /\ NoRouteIntoObstacle

\* With an exact mirror the entry of a tile is the only one it has.
LEMMA FirstSiteIsTheSite ==
  ASSUME TypeOK, MirrorExact, NEW t \in Tiles, overlay[t] # None
  PROVE  /\ SiteIndex(t) # {}
         /\ FirstSite(t) \in 1 .. Len(sites)
         /\ sites[FirstSite(t)].at = t
<1>1. DOMAIN sites = 1 .. Len(sites) /\ Len(sites) \in Nat
  BY LenProperties DEF TypeOK
<1>2. PICK i \in DOMAIN sites : sites[i].at = t
  BY DEF MirrorExact, Mirror
<1>3. \A j \in SiteIndex(t) : j = i
  BY <1>2 DEF SiteIndex, MirrorExact, Mirror
<1>4. i \in SiteIndex(t)
  BY <1>2 DEF SiteIndex
<1>5. \E f \in SiteIndex(t) : \A j \in SiteIndex(t) : f <= j
  BY <1>1, <1>2, <1>3, <1>4
<1>6. FirstSite(t) \in SiteIndex(t)
  BY <1>5 DEF FirstSite
<1>7. QED
  BY <1>1, <1>6 DEF SiteIndex

\* Mutating a tile keeps map and routes typed, and clears every path of a
\* living agent that crosses a tile that becomes impassable.
LEMMA MutateTileKeepsRoutes ==
  ASSUME TypeOK, NoRouteIntoObstacle,
         NEW t \in Tiles, NEW new \in TileTypes,
         MutateTile(t, new), alive' = alive
  PROVE  /\ tile' \in [Tiles -> TileTypes]
         /\ route' \in [Agents -> Routes]
         /\ NoRouteIntoObstacle'
<1>1. tile' \in [Tiles -> TileTypes]
  BY DEF TypeOK, MutateTile
<1>2. \A a \in Agents :
        /\ InvalidatedRoute(a, t, new) \in Routes
        /\ InvalidatedRoute(a, t, new).path \subseteq route[a].path
        /\ ~InvalidatedRoute(a, t, new).current
  BY DEF InvalidatedRoute, TypeOK, Routes
<1>3. route' \in [Agents -> Routes]
  BY <1>2 DEF TypeOK, MutateTile
<1>4. CASE tile[t] = new
  BY <1>4 DEF MutateTile, TypeOK, NoRouteIntoObstacle, HasActivePath
<1>5. CASE tile[t] # new
  <2>1. \A a \in Agents : route'[a] = InvalidatedRoute(a, t, new)
    BY <1>5 DEF MutateTile
  <2>2. \A e \in Entities : ~HasActivePath(e)'
    BY <1>2, <2>1 DEF Agents, HasActivePath
  <2>3. ASSUME NEW w \in alive, NEW u \in route'[w].path
        PROVE  tile'[u] \notin Impassable
    <3>1. w \in Agents /\ route[w] \in Routes
      BY DEF TypeOK, Agents
    <3>2. u \in route[w].path /\ u \in Tiles
      BY <1>2, <2>1, <2>3, <3>1 DEF Routes
    <3>3. CASE u # t
      <4>1. tile'[u] = tile[u]
        BY <3>2, <3>3 DEF MutateTile, TypeOK
      <4>2. QED
        BY <3>2, <4>1 DEF NoRouteIntoObstacle
    <3>4. CASE u = t
      <4>1. t \in InvalidatedRoute(w, t, new).path
        BY <2>1, <2>3, <3>1, <3>4
      <4>2. new \notin BlockingTiles
        BY <3>2, <3>4, <4>1 DEF InvalidatedRoute
      <4>3. QED
        BY <3>2, <3>4, <4>2 DEF MutateTile, TypeOK, BlockingTiles, Impassable
    <3>5. QED
      BY <3>3, <3>4
  <2>4. QED
    BY <1>1, <1>3, <2>2, <2>3 DEF NoRouteIntoObstacle, HasActivePath
<1>6. QED
  BY <1>1, <1>3, <1>4, <1>5

\* Planning and giving up routes touches nothing but routes, and keeps them
\* clear.
LEMMA RoutingKeepsRoutes ==
  ASSUME TypeOK, NoRouteIntoObstacle, Routing
  PROVE  /\ route' \in [Agents -> Routes]
         /\ NoRouteIntoObstacle'
         /\ UNCHANGED <<tile, overlay, sites, resources, alive, cursor, tick>>
<1> Workers \subseteq Agents /\ Entities \subseteq Agents /\ alive \subseteq Workers
  BY DEF Agents, TypeOK
<1>1. PICK a \in Agents, r \in Routes :
        /\ route' = [route EXCEPT ![a] = r]
        /\ \A u \in r.path : tile[u] \notin Impassable
        /\ UNCHANGED <<tile, overlay, sites, resources, alive, cursor, tick>>
  <2>1. ASSUME NEW w \in Workers, NEW t \in Tiles, NEW p \in Paths,
               PlanRoute(w, t, p)
        PROVE  \E a \in Agents, r \in Routes :
                 /\ route' = [route EXCEPT ![a] = r]
                 /\ \A u \in r.path : tile[u] \notin Impassable
                 /\ UNCHANGED <<tile, overlay, sites, resources, alive, cursor, tick>>
    <3>1. [target |-> t, path |-> p, current |-> FALSE] \in Routes
      BY ConstantsAssumption DEF Routes
    <3>2. QED
      BY <2>1, <3>1 DEF PlanRoute
  <2>2. ASSUME NEW e \in Entities, NEW t \in Tiles, NEW p \in Paths,
               SetTargetAndPath(e, t, p)
        PROVE  \E a \in Agents, r \in Routes :
                 /\ route' = [route EXCEPT ![a] = r]
                 /\ \A u \in r.path : tile[u] \notin Impassable
                 /\ UNCHANGED <<tile, overlay, sites, resources, alive, cursor, tick>>
    <3>1. [target |-> t, path |-> p, current |-> TRUE] \in Routes
      BY ConstantsAssumption DEF Routes
    <3>2. QED
      BY <2>2, <3>1 DEF SetTargetAndPath
  <2>3. ASSUME NEW e \in Entities, ClearPath(e)
        PROVE  \E a \in Agents, r \in Routes :
                 /\ route' = [route EXCEPT ![a] = r]
                 /\ \A u \in r.path : tile[u] \notin Impassable
                 /\ UNCHANGED <<tile, overlay, sites, resources, alive, cursor, tick>>
    <3>1. NoRoute \in Routes /\ NoRoute.path = {}
      BY DEF Routes, NoRoute
    <3>2. QED
      BY <2>3, <3>1 DEF ClearPath
  <2>4. QED
    BY <2>1, <2>2, <2>3 DEF Routing
<1>2. route' \in [Agents -> Routes]
  BY <1>1 DEF TypeOK
<1>3. \A b \in Agents : b # a => route'[b] = route[b]
  BY <1>1 DEF TypeOK
<1>4. route'[a] = r
  BY <1>1 DEF TypeOK
<1>5. NoRouteIntoObstacle'
  BY <1>1, <1>3, <1>4 DEF NoRouteIntoObstacle, HasActivePath
<1>6. QED
  BY <1>1, <1>2, <1>5


\* Posting a job.
LEMMA OpenJobKeepsInvariant ==
  ASSUME IInv, NEW t \in Tiles, overlay[t] = None,
         NEW job \in Overlays, job.builder = None, job.applied = 0,
         ~Running, OpenJob(t, job)
  PROVE  IInv'
<1>1. NewSite(t) \in SiteEntries
  BY DEF NewSite, SiteEntries
<1>2. TypeOK'
  <2>1. resources' \in [ResourceKeys -> Nat]
    BY SpendRefundTyped DEF OpenJob, IInv, TypeOK, Overlays
  <2>2. overlay' \in [Tiles -> Overlays \union {None}]
    BY DEF OpenJob, IInv, TypeOK
  <2>3. sites' \in Seq(SiteEntries) /\ Len(sites') = Len(sites) + 1
    BY <1>1, AppendProperties DEF OpenJob, IInv, TypeOK
  <2>4. Len(sites) \in Nat
    BY LenProperties DEF IInv, TypeOK
  <2>5. QED
    BY <2>1, <2>2, <2>3, <2>4 DEF OpenJob, IInv, TypeOK
<1>3. MirrorExact'
  <2>1. overlay \in OverlayMaps /\ sites \in Seq(SiteEntries)
        /\ Mirror(overlay, sites)
    BY DEF IInv, TypeOK, MirrorExact, OverlayMaps
  <2>2. Mirror([overlay EXCEPT ![t] = job], Append(sites, NewSite(t)))
    BY <2>1, MirrorOpens
  <2>3. QED
    BY <2>2 DEF OpenJob, MirrorExact
<1>4. OneJobPerBuilder'
  BY DEF OpenJob, IInv, TypeOK, OneJobPerBuilder
<1>5. NoRouteIntoObstacle'
  BY DEF OpenJob, IInv, NoRouteIntoObstacle, HasActivePath
<1>6. QED
  BY <1>2, <1>3, <1>4, <1>5 DEF IInv

\* Closing the job of entry i: by cancelling it or by completing it.
LEMMA CloseJobKeepsMirror ==
  ASSUME IInv, NEW i \in 1 .. Len(sites),
         overlay' = [overlay EXCEPT ![sites[i].at] = None],
         sites' = RemoveAt(sites, i)
  PROVE  /\ overlay' \in [Tiles -> Overlays \union {None}]
         /\ sites' \in Seq(SiteEntries)
         /\ Len(sites') = Len(sites) - 1
         /\ MirrorExact'
         /\ OneJobPerBuilder'
<1>1. overlay \in OverlayMaps /\ sites \in Seq(SiteEntries)
      /\ Mirror(overlay, sites)
  BY DEF IInv, TypeOK, MirrorExact, OverlayMaps
<1>2. overlay' \in [Tiles -> Overlays \union {None}]
  BY <1>1 DEF OverlayMaps
<1>3. sites' \in Seq(SiteEntries) /\ Len(sites') = Len(sites) - 1
  BY <1>1, RemoveAtProperties
<1>4. MirrorExact'
  BY <1>1, MirrorCloses DEF MirrorExact
<1>5. OneJobPerBuilder'
  BY <1>1 DEF IInv, OneJobPerBuilder, OverlayMaps
<1>6. QED
  BY <1>2, <1>3, <1>4, <1>5

\* Rewriting both copies of the job of entry i alike.
LEMMA RewriteJobKeepsMirror ==
  ASSUME IInv, NEW i \in 1 .. Len(sites),
         NEW job \in Overlays, NEW entry \in SiteEntries,
         entry.at = sites[i].at, entry.builder = job.builder,
         entry.applied = job.applied,
         overlay' = [overlay EXCEPT ![sites[i].at] = job],
         sites' = [sites EXCEPT ![i] = entry]
  PROVE  /\ overlay' \in [Tiles -> Overlays \union {None}]
         /\ sites' \in Seq(SiteEntries)
         /\ Len(sites') = Len(sites)
         /\ MirrorExact'
<1>1. overlay \in OverlayMaps /\ sites \in Seq(SiteEntries)
      /\ Mirror(overlay, sites)
  BY DEF IInv, TypeOK, MirrorExact, OverlayMaps
<1>2. overlay' \in [Tiles -> Overlays \union {None}]
  BY <1>1 DEF OverlayMaps
<1>3. sites' \in Seq(SiteEntries) /\ Len(sites') = Len(sites)
  BY <1>1, ExceptSeq
<1>4. MirrorExact'
  BY <1>1, MirrorRewrites DEF MirrorExact
<1>5. QED
  BY <1>2, <1>3, <1>4

\* Setting the builder of entry i to b, who is nobody or without a job.
LEMMA SetBuilderKeepsInvariant ==
  ASSUME IInv, NEW i \in 1 .. Len(sites), NEW b \in Workers \union {None},
         b = None \/ \A j \in DOMAIN sites : sites[j].builder # b,
         SetBuilder(i, b)
  PROVE  IInv'
<1> DEFINE t     == sites[i].at
           job   == [overlay[t] EXCEPT !.builder = b]
           entry == [sites[i] EXCEPT !.builder = b]
<1>1. /\ sites \in Seq(SiteEntries)
      /\ DOMAIN sites = 1 .. Len(sites)
      /\ sites[i] \in SiteEntries
  BY LenProperties, ElementOfSeq DEF IInv, TypeOK
<1>2. /\ t \in Tiles
      /\ overlay[t] # None
      /\ overlay[t] \in Overlays
      /\ sites[i].applied = overlay[t].applied
  BY <1>1 DEF IInv, TypeOK, MirrorExact, Mirror, SiteEntries
<1>3. /\ job \in Overlays
      /\ job.builder = b
      /\ job.applied = overlay[t].applied
  BY <1>2 DEF Overlays
<1>4. /\ entry \in SiteEntries
      /\ entry.at = t
      /\ entry.builder = b
      /\ entry.applied = sites[i].applied
  BY <1>1 DEF SiteEntries
<1>5. /\ sites' = [sites EXCEPT ![i] = entry]
      /\ overlay' = [overlay EXCEPT ![t] = job]
  BY <1>1, <1>2 DEF SetBuilder, IInv, TypeOK
<1> HIDE DEF job, entry
<1>6. /\ overlay' \in [Tiles -> Overlays \union {None}]
      /\ sites' \in Seq(SiteEntries)
      /\ Len(sites') = Len(sites)
      /\ MirrorExact'
  BY <1>2, <1>3, <1>4, <1>5, RewriteJobKeepsMirror
<1>7. TypeOK'
  BY <1>6 DEF IInv, TypeOK, SetBuilder
<1>8. OneJobPerBuilder'
  <2>1. CASE b = None
    BY <1>2, <1>3, <1>5, <2>1 DEF IInv, TypeOK, OneJobPerBuilder
  <2>2. CASE b # None
    <3>1. \A u \in Tiles : overlay[u] # None => overlay[u].builder # b
      BY <1>1, <2>2 DEF IInv, MirrorExact, Mirror
    <3>2. QED
      BY <1>2, <1>3, <1>5, <3>1 DEF IInv, TypeOK, OneJobPerBuilder
  <2>3. QED
    BY <2>1, <2>2
<1>9. NoRouteIntoObstacle'
  BY DEF SetBuilder, IInv, NoRouteIntoObstacle, HasActivePath
<1>10. QED
  BY <1>6, <1>7, <1>8, <1>9 DEF IInv

LEMMA InitEstablishesInvariant == Init => IInv
<1> SUFFICES ASSUME Init PROVE IInv
  OBVIOUS
<1>1. sites \in Seq(SiteEntries) /\ Len(sites) = 0 /\ DOMAIN sites = {}
  BY EmptySeq, LenProperties DEF Init
<1>2. TypeOK
  BY <1>1, ConstantsAssumption DEF Init, TypeOK, Routes, NoRoute
<1>3. MirrorExact /\ OneJobPerBuilder
  BY <1>1 DEF Init, MirrorExact, Mirror, OneJobPerBuilder
<1>4. NoRouteIntoObstacle
  <2>1. \A a \in alive \union Entities : route[a] = NoRoute
    BY DEF Init, Agents
  <2>2. QED
    BY <2>1 DEF NoRouteIntoObstacle, HasActivePath, NoRoute
<1>5. QED
  BY <1>2, <1>3, <1>4 DEF IInv

LEMMA CancelKeepsInvariant ==
  ASSUME IInv, NEW t \in Tiles, CancelBlueprint(t)
  PROVE  IInv'
<1>1. /\ overlay[t] # None
      /\ overlay[t] \in Overlays
      /\ SiteIndex(t) # {}
      /\ FirstSite(t) \in 1 .. Len(sites)
      /\ sites[FirstSite(t)].at = t
  BY FirstSiteIsTheSite DEF CancelBlueprint, IInv, TypeOK
<1>2. /\ overlay' \in [Tiles -> Overlays \union {None}]
      /\ sites' \in Seq(SiteEntries)
      /\ Len(sites') = Len(sites) - 1
      /\ MirrorExact'
      /\ OneJobPerBuilder'
  BY <1>1, CloseJobKeepsMirror DEF CancelBlueprint, SpliceSite
<1>3. resources' \in [ResourceKeys -> Nat]
  BY <1>1, SpendRefundTyped DEF CancelBlueprint, IInv, TypeOK, Overlays
<1>4. TypeOK'
  <2>1. cursor' = -1 /\ Len(sites') \in Nat
    BY <1>2, LenProperties DEF CancelBlueprint, Running
  <2>2. QED
    BY <1>2, <1>3, <2>1 DEF CancelBlueprint, IInv, TypeOK
<1>5. NoRouteIntoObstacle'
  BY DEF CancelBlueprint, IInv, NoRouteIntoObstacle, HasActivePath
<1>6. QED
  BY <1>2, <1>4, <1>5 DEF IInv

LEMMA ApplyWorkKeepsInvariant ==
  ASSUME IInv, NEW w \in Workers, NEW d \in WorkSteps, ApplyWork(w, d)
  PROVE  IInv'
<1>1. PICK t \in Tiles :
        /\ overlay[t] # None
        /\ overlay' = [overlay EXCEPT ![t].applied = @ + d]
        /\ sites' = IF SiteIndex(t) = {}
                    THEN sites
                    ELSE [sites EXCEPT ![FirstSite(t)].applied =
                                         overlay[t].applied + d]
  BY DEF ApplyWork
<1> DEFINE i     == FirstSite(t)
           job   == [overlay[t] EXCEPT !.applied = @ + d]
           entry == [sites[i] EXCEPT !.applied = overlay[t].applied + d]
<1>2. /\ SiteIndex(t) # {}
      /\ i \in 1 .. Len(sites)
      /\ sites[i].at = t
  BY <1>1, FirstSiteIsTheSite DEF IInv
<1>3. /\ sites \in Seq(SiteEntries)
      /\ DOMAIN sites = 1 .. Len(sites)
      /\ sites[i] \in SiteEntries
  BY <1>2, LenProperties, ElementOfSeq DEF IInv, TypeOK
<1>4. /\ overlay[t] \in Overlays
      /\ sites[i].builder = overlay[t].builder
  BY <1>1, <1>2, <1>3 DEF IInv, TypeOK, MirrorExact, Mirror
<1>5. d \in Nat
  BY ConstantsAssumption
<1>6. /\ job \in Overlays
      /\ job.builder = overlay[t].builder
      /\ job.applied = overlay[t].applied + d
  BY <1>4, <1>5 DEF Overlays
<1>7. /\ entry \in SiteEntries
      /\ entry.at = t
      /\ entry.builder = sites[i].builder
      /\ entry.applied = overlay[t].applied + d
  <2>1. overlay[t].applied + d \in Nat
    BY <1>4, <1>5 DEF Overlays
  <2>2. QED
    BY <1>2, <1>3, <2>1 DEF SiteEntries
<1>8. /\ sites' = [sites EXCEPT ![i] = entry]
      /\ overlay' = [overlay EXCEPT ![t] = job]
  BY <1>1, <1>2, <1>3 DEF IInv, TypeOK
<1> HIDE DEF job, entry, i
<1>9. /\ overlay' \in [Tiles -> Overlays \union {None}]
      /\ sites' \in Seq(SiteEntries)
      /\ Len(sites') = Len(sites)
      /\ MirrorExact'
  BY <1>2, <1>4, <1>6, <1>7, <1>8, RewriteJobKeepsMirror
<1>10. TypeOK'
  BY <1>9 DEF IInv, TypeOK, ApplyWork
<1>11. OneJobPerBuilder'
  BY <1>1, <1>6, <1>8 DEF IInv, TypeOK, OneJobPerBuilder
<1>12. NoRouteIntoObstacle'
  BY DEF ApplyWork, IInv, NoRouteIntoObstacle, HasActivePath
<1>13. QED
  BY <1>9, <1>10, <1>11, <1>12 DEF IInv

(***************************************************************************)
(* The loop of ConstructionSystem.update                                   *)
(***************************************************************************)

\* What the loop knows of the entry it examines.
LEMMA EntryUnderCursor ==
  ASSUME IInv, cursor > 0
  PROVE  /\ cursor \in 1 .. Len(sites)
         /\ sites[cursor].at \in Tiles
         /\ overlay[sites[cursor].at] \in Overlays
         /\ overlay[sites[cursor].at] # None
<1>1. Len(sites) \in Nat /\ DOMAIN sites = 1 .. Len(sites)
  BY LenProperties DEF IInv, TypeOK
<1>2. cursor \in 1 .. Len(sites)
  BY <1>1 DEF IInv, TypeOK
<1>3. sites[cursor] \in SiteEntries
  BY <1>2, ElementOfSeq DEF IInv, TypeOK
<1>4. QED
  BY <1>1, <1>2, <1>3 DEF IInv, TypeOK, MirrorExact, Mirror, SiteEntries

LEMMA SyncSiteKeepsInvariant ==
  ASSUME IInv, SyncSite
  PROVE  IInv'
<1> DEFINE t     == sites[cursor].at
           b     == IF overlay[t].builder \in alive
                    THEN overlay[t].builder ELSE None
           job   == [overlay[t] EXCEPT !.builder = b]
           entry == [at |-> t, builder |-> b, applied |-> overlay[t].applied]
<1>1. /\ cursor \in 1 .. Len(sites)
      /\ t \in Tiles
      /\ overlay[t] \in Overlays
      /\ overlay[t] # None
  BY EntryUnderCursor DEF SyncSite
<1>2. b \in Workers \union {None}
  BY DEF IInv, TypeOK
<1>3. /\ job \in Overlays
      /\ job.builder = b
      /\ job.applied = overlay[t].applied
  BY <1>1, <1>2 DEF Overlays
<1>4. overlay[t].applied \in Nat
  BY <1>1 DEF Overlays
<1>5. /\ entry \in SiteEntries
      /\ entry.at = t
      /\ entry.builder = b
      /\ entry.applied = overlay[t].applied
  BY <1>1, <1>2, <1>4 DEF SiteEntries
<1>6. /\ sites' = [sites EXCEPT ![cursor] = entry]
      /\ overlay' = [overlay EXCEPT ![t] = job]
  BY <1>1 DEF SyncSite, IInv, TypeOK
<1> HIDE DEF job, entry
<1>7. /\ overlay' \in [Tiles -> Overlays \union {None}]
      /\ sites' \in Seq(SiteEntries)
      /\ Len(sites') = Len(sites)
      /\ MirrorExact'
  BY <1>1, <1>3, <1>5, <1>6, RewriteJobKeepsMirror
<1>8. TypeOK'
  BY <1>1, <1>7 DEF IInv, TypeOK, SyncSite
<1>9. OneJobPerBuilder'
  BY <1>1, <1>3, <1>6 DEF IInv, TypeOK, OneJobPerBuilder
<1>10. NoRouteIntoObstacle'
  BY DEF SyncSite, IInv, NoRouteIntoObstacle, HasActivePath
<1>11. QED
  BY <1>7, <1>8, <1>9, <1>10 DEF IInv

LEMMA CompleteSiteKeepsInvariant ==
  ASSUME IInv, CompleteSite
  PROVE  IInv'
<1> DEFINE t == sites[cursor].at
<1>1. /\ cursor \in 1 .. Len(sites)
      /\ t \in Tiles
      /\ overlay[t] \in Overlays
      /\ overlay[t] # None
  BY EntryUnderCursor DEF CompleteSite
<1>2. /\ overlay' \in [Tiles -> Overlays \union {None}]
      /\ sites' \in Seq(SiteEntries)
      /\ Len(sites') = Len(sites) - 1
      /\ MirrorExact'
      /\ OneJobPerBuilder'
  BY <1>1, CloseJobKeepsMirror DEF CompleteSite
<1>3. overlay[t].target \in TileTypes
      /\ overlay[t].refund \in [ResourceKeys -> Nat]
  BY <1>1 DEF Overlays
<1>4. /\ tile' \in [Tiles -> TileTypes]
      /\ route' \in [Agents -> Routes]
      /\ NoRouteIntoObstacle'
  BY <1>1, <1>3, MutateTileKeepsRoutes DEF CompleteSite, IInv
<1>5. resources' \in [ResourceKeys -> Nat]
  BY <1>3, SpendRefundTyped DEF CompleteSite, IInv, TypeOK
<1>6. cursor' \in -1 .. Len(sites')
  BY <1>1, <1>2, LenProperties DEF CompleteSite
<1>7. TypeOK'
  BY <1>2, <1>4, <1>5, <1>6 DEF CompleteSite, IInv, TypeOK
<1>8. QED
  BY <1>2, <1>4, <1>7 DEF IInv

\* An exact mirror leaves nothing to drop and nothing to rebuild.
LEMMA UpdateKeepsInvariant ==
  ASSUME IInv, Update
  PROVE  IInv'
<1>1. CASE BeginUpdate
  <2>1. tick' \in 0 .. RebuildPeriod - 1
    BY <1>1, ConstantsAssumption DEF BeginUpdate, BeginAt, IInv, TypeOK
  <2>2. cursor' \in -1 .. Len(sites)
    BY <1>1, LenProperties DEF BeginUpdate, BeginAt, IInv, TypeOK
  <2>3. QED
    BY <1>1, <2>1, <2>2 DEF BeginUpdate, BeginAt, IInv, TypeOK, MirrorExact,
                            OneJobPerBuilder, NoRouteIntoObstacle, HasActivePath
<1>2. CASE DropSite
  BY <1>2, EntryUnderCursor DEF DropSite
<1>3. CASE SyncSite
  BY <1>3, SyncSiteKeepsInvariant
<1>4. CASE CompleteSite
  BY <1>4, CompleteSiteKeepsInvariant
<1>5. CASE EndUpdate
  <2>1. sites' = sites
    <3>1. DOMAIN sites = 1 .. Len(sites)
      BY LenProperties DEF IInv, TypeOK
    <3>2. sites = << >> => \A t \in Tiles : overlay[t] = None
      BY <3>1, EmptySeq DEF IInv, MirrorExact, Mirror
    <3>3. QED
      BY <1>5, <3>2 DEF EndUpdate
  <2>2. cursor' \in -1 .. Len(sites)
    BY <1>5, LenProperties DEF EndUpdate, IInv, TypeOK
  <2>3. QED
    BY <1>5, <2>1, <2>2 DEF EndUpdate, IInv, TypeOK, MirrorExact,
                            OneJobPerBuilder, NoRouteIntoObstacle, HasActivePath
<1>6. QED
  BY <1>1, <1>2, <1>3, <1>4, <1>5 DEF Update

(***************************************************************************)
(* Every step keeps the invariant                                          *)
(***************************************************************************)

LEMMA PlaceBlueprintKeepsInvariant ==
  ASSUME IInv, NEW tool \in Tools, NEW t \in Tiles,
         PlaceBlueprint(tool, t)
  PROVE  IInv'
<1>1. TypeOK
  BY DEF IInv
<1>2. CASE tool # "erase"
  <2>1. /\ BuildOverlay(tool, t) \in Overlays
        /\ BuildOverlay(tool, t).builder = None
        /\ BuildOverlay(tool, t).applied = 0
    BY <1>1, <1>2, FreshOverlays
  <2>2. QED
    BY <1>2, <2>1, OpenJobKeepsInvariant DEF PlaceBlueprint, Placeable
<1>3. CASE tool = "erase"
  <2>1. /\ DemolishOverlay(t) \in Overlays
        /\ DemolishOverlay(t).builder = None
        /\ DemolishOverlay(t).applied = 0
    BY <1>1, FreshOverlays
  <2>2. QED
    BY <1>3, <2>1, OpenJobKeepsInvariant DEF PlaceBlueprint, Placeable
<1>4. QED
  BY <1>2, <1>3

LEMMA InstantPlaceKeepsInvariant ==
  ASSUME IInv, NEW tool \in UsedTools, NEW t \in Tiles,
         InstantPlace(tool, t)
  PROVE  IInv'
<1>1. tool # "erase" => tool \in BuildTools
  BY ConstantsAssumption DEF Tools
<1>2. tile[t] \in TileTypes
  BY DEF IInv, TypeOK
<1>3. resources' \in [ResourceKeys -> Nat]
  <2>1. resources \in [ResourceKeys -> Nat]
    BY DEF IInv, TypeOK
  <2>2. CASE tool # "erase"
    <3>1. BuildCost[tool] \in [ResourceKeys -> Nat]
      BY <1>1, <2>2, CostsTyped
    <3>2. resources' = Spend(resources, BuildCost[tool])
      BY <2>2 DEF InstantPlace
    <3>3. QED
      BY <2>1, <3>1, <3>2, SpendRefundTyped
  <2>3. CASE tool = "erase"
    <3>1. Salvage(tile[t]) \in [ResourceKeys -> Nat]
      BY <1>2, SalvageTyped
    <3>2. resources' = Refund(resources, Salvage(tile[t]))
      BY <2>3 DEF InstantPlace
    <3>3. QED
      BY <2>1, <3>1, <3>2, SpendRefundTyped
  <2>4. QED
    BY <2>2, <2>3
<1>4. PICK new \in TileTypes : MutateTile(t, new)
  BY <1>1, <1>2, TilesTyped DEF InstantPlace
<1>5. /\ tile' \in [Tiles -> TileTypes]
      /\ route' \in [Agents -> Routes]
      /\ NoRouteIntoObstacle'
  BY <1>4, MutateTileKeepsRoutes DEF InstantPlace, IInv
<1>6. TypeOK'
  BY <1>3, <1>5 DEF InstantPlace, IInv, TypeOK
<1>7. QED
  BY <1>5, <1>6 DEF InstantPlace, IInv, MirrorExact, OneJobPerBuilder

LEMMA RaidKeepsInvariant ==
  ASSUME IInv, NEW t \in Tiles, RaidImpact(t)
  PROVE  IInv'
<1>1. "RUINS" \in TileTypes
  BY DEF TileTypes
<1>2. /\ tile' \in [Tiles -> TileTypes]
      /\ route' \in [Agents -> Routes]
      /\ NoRouteIntoObstacle'
  BY <1>1, MutateTileKeepsRoutes DEF RaidImpact, IInv
<1>3. QED
  BY <1>2 DEF RaidImpact, IInv, TypeOK, MirrorExact, OneJobPerBuilder

LEMMA NextKeepsInvariant == IInv /\ [Next]_vars => IInv'
<1> SUFFICES ASSUME IInv, [Next]_vars PROVE IInv'
  OBVIOUS
<1>0. DOMAIN sites = 1 .. Len(sites)
  BY LenProperties DEF IInv, TypeOK
<1>1. ASSUME NEW tool \in UsedTools, NEW t \in Tiles, PlaceBlueprint(tool, t)
      PROVE  IInv'
  BY <1>1, ConstantsAssumption, PlaceBlueprintKeepsInvariant
<1>2. ASSUME NEW t \in Tiles, CancelBlueprint(t)
      PROVE  IInv'
  BY <1>2, CancelKeepsInvariant
<1>3. ASSUME NEW w \in Workers, ReserveSite(w)
      PROVE  IInv'
  BY <1>0, <1>3, SetBuilderKeepsInvariant DEF ReserveSite
<1>4. ASSUME NEW w \in Workers, ReleaseSite(w)
      PROVE  IInv'
  BY <1>0, <1>4, SetBuilderKeepsInvariant DEF ReleaseSite
<1>5. ASSUME NEW w \in Workers, NEW d \in WorkSteps, ApplyWork(w, d)
      PROVE  IInv'
  BY <1>5, ApplyWorkKeepsInvariant
<1>6. ASSUME NEW w \in Workers, Death(w)
      PROVE  IInv'
  BY <1>6 DEF Death, IInv, TypeOK, MirrorExact, OneJobPerBuilder,
              NoRouteIntoObstacle, HasActivePath
<1>7. ASSUME NEW t \in Tiles, RaidImpact(t)
      PROVE  IInv'
  BY <1>7, RaidKeepsInvariant
<1>8. CASE Routing
  <2>1. /\ route' \in [Agents -> Routes]
        /\ NoRouteIntoObstacle'
        /\ UNCHANGED <<tile, overlay, sites, resources, alive, cursor, tick>>
    BY <1>8, RoutingKeepsRoutes DEF IInv
  <2>2. QED
    BY <2>1 DEF IInv, TypeOK, MirrorExact, OneJobPerBuilder
<1>9. CASE Update
  BY <1>9, UpdateKeepsInvariant
<1>10. ASSUME NEW tool \in UsedTools, NEW t \in Tiles, InstantPlace(tool, t)
       PROVE  IInv'
  BY <1>10, InstantPlaceKeepsInvariant
<1>11. CASE UNCHANGED vars
  BY <1>11 DEF vars, IInv, TypeOK, MirrorExact, OneJobPerBuilder,
               NoRouteIntoObstacle, HasActivePath
<1>12. QED
  BY <1>1, <1>2, <1>3, <1>4, <1>5, <1>6, <1>7, <1>8, <1>9, <1>10, <1>11
     DEF Next, BlueprintNext

(***************************************************************************)
(* The theorems                                                            *)
(***************************************************************************)

\* The inductive invariant holds in every reachable state.
THEOREM InvariantHolds == Spec => []IInv
<1>1. Init => IInv
  BY InitEstablishesInvariant
<1>2. IInv /\ [Next]_vars => IInv'
  BY NextKeepsInvariant
<1>3. QED
  BY <1>1, <1>2, PTL DEF Spec

\* Every variable keeps its type, the loop index stays within the index it
\* walks, and stocks never become negative.
THEOREM TypeCorrect == Spec => []TypeOK
<1>1. IInv => TypeOK
  BY DEF IInv
<1>2. QED
  BY <1>1, InvariantHolds, PTL

\* The index of sites mirrors the overlays, in every interleaving and in the
\* middle of an update.
THEOREM IndexMirrorsOverlays == Spec => []MirrorExact
<1>1. IInv => MirrorExact
  BY DEF IInv
<1>2. QED
  BY <1>1, InvariantHolds, PTL

\* No agent ever holds the jobs of two tiles.
THEOREM BuildersAreExclusive == Spec => []OneJobPerBuilder
<1>1. IInv => OneJobPerBuilder
  BY DEF IInv
<1>2. QED
  BY <1>1, InvariantHolds, PTL

\* No mutation leaves a living agent on a path through a wall or water.
THEOREM RoutesStayClear == Spec => []NoRouteIntoObstacle
<1>1. IInv => NoRouteIntoObstacle
  BY DEF IInv
<1>2. QED
  BY <1>1, InvariantHolds, PTL

-----------------------------------------------------------------------------
(***************************************************************************)
(* The job board.  With an exact mirror the board shows the overlays, and  *)
(* so a step is a step of the board if it is one of the overlays.          *)
(***************************************************************************)

ShownJob(o) == IF o = None THEN None ELSE [builder |-> o.builder, applied |-> o.applied]

Shown == [t \in Tiles |-> BoardedJob(t)]

LEMMA BoardShowsOverlays == IInv => \A t \in Tiles : BoardedJob(t) = ShownJob(overlay[t])
<1> SUFFICES ASSUME IInv, NEW t \in Tiles
             PROVE  BoardedJob(t) = ShownJob(overlay[t])
  OBVIOUS
<1>1. DOMAIN sites = 1 .. Len(sites)
  BY LenProperties DEF IInv, TypeOK
<1>2. CASE overlay[t] = None
  <2>1. SiteIndex(t) = {}
    BY <1>2 DEF IInv, MirrorExact, Mirror, SiteIndex
  <2>2. QED
    BY <1>2, <2>1 DEF BoardedJob, ShownJob
<1>3. CASE overlay[t] # None
  <2>1. /\ SiteIndex(t) # {} /\ FirstSite(t) \in DOMAIN sites
        /\ sites[FirstSite(t)].at = t
    BY <1>1, <1>3, FirstSiteIsTheSite DEF IInv
  <2>2. /\ sites[FirstSite(t)].builder = overlay[t].builder
        /\ sites[FirstSite(t)].applied = overlay[t].applied
    BY <2>1 DEF IInv, MirrorExact, Mirror
  <2>3. QED
    BY <1>3, <2>1, <2>2 DEF BoardedJob, ShownJob
<1>4. QED
  BY <1>2, <1>3

LEMMA BoardWillShowOverlays == (IInv => \A t \in Tiles : BoardedJob(t) = ShownJob(overlay[t]))'
  BY BoardShowsOverlays, PTL

\* The board before and after a step, read off the overlays.
LEMMA BoardStep ==
  ASSUME IInv, IInv'
  PROVE  /\ \A t \in Tiles : Shown[t] = ShownJob(overlay[t]) /\ Shown'[t] = ShownJob(overlay'[t])
         /\ \A t \in Tiles : overlay[t] # None => Shown[t] # None
         /\ \A f : f = [t \in Tiles |-> ShownJob(overlay'[t])] => Shown' = f
         /\ overlay' = overlay => Shown' = Shown
<1>1. \A t \in Tiles : BoardedJob(t) = ShownJob(overlay[t]) /\ BoardedJob(t)' = ShownJob(overlay'[t])
  BY BoardShowsOverlays, BoardWillShowOverlays
<1>2. \A t \in Tiles : overlay[t] # None => overlay[t] \in Overlays
  BY DEF IInv, TypeOK
<1>3. \A o \in Overlays : ShownJob(o) # None
  <2> SUFFICES ASSUME NEW o \in Overlays
               PROVE  ShownJob(o) # None
    OBVIOUS
  <2>1. [builder |-> o.builder, applied |-> o.applied] \in ShownJobs
    BY DEF Overlays, ShownJobs
  <2>2. QED
    BY <2>1, ConstantsAssumption DEF ShownJob
<1>4. Shown = [t \in Tiles |-> ShownJob(overlay[t])] /\ Shown' = [t \in Tiles |-> ShownJob(overlay'[t])]
  BY <1>1 DEF Shown
<1>5. QED
  BY <1>2, <1>3, <1>4

\* One overlay changes.
LEMMA BoardChanges ==
  ASSUME IInv, IInv', NEW t \in Tiles, NEW o, overlay' = [overlay EXCEPT ![t] = o]
  PROVE  Shown' = [Shown EXCEPT ![t] = ShownJob(o)]
<1>1. overlay \in [Tiles -> Overlays \union {None}]
  BY DEF IInv, TypeOK
<1>2. \A u \in Tiles : ShownJob(overlay'[u]) = IF u = t THEN ShownJob(o) ELSE ShownJob(overlay[u])
  BY <1>1
<1>3. Shown' = [u \in Tiles |-> ShownJob(overlay'[u])] /\ Shown = [u \in Tiles |-> ShownJob(overlay[u])]
  BY BoardShowsOverlays, BoardWillShowOverlays DEF Shown
<1> HIDE DEF Shown
<1>4. QED
  BY <1>2, <1>3

LEMMA OpenJobPosts ==
  ASSUME IInv, IInv', NEW t \in Tiles, NEW job \in Overlays, overlay[t] = None,
         job.builder = None, job.applied = 0, overlay' = [overlay EXCEPT ![t] = job]
  PROVE  Board!Next
<1>1. ShownJob(job) = [builder |-> None, applied |-> 0]
  BY ConstantsAssumption DEF ShownJob
<1>2. Shown' = [Shown EXCEPT ![t] = [builder |-> None, applied |-> 0]]
  <2>1. Shown' = [Shown EXCEPT ![t] = ShownJob(job)]
    BY BoardChanges
  <2>2. QED
    BY <1>1, <2>1
<1>3. Shown[t] = None
  BY BoardStep DEF ShownJob
<1>4. Board!Post(t)
  BY <1>2, <1>3 DEF Board!Post, Board!Posted, Shown
<1>5. QED
  BY <1>4 DEF Board!Next

LEMMA JobCloses ==
  ASSUME IInv, IInv', NEW t \in Tiles, overlay[t] # None, overlay' = [overlay EXCEPT ![t] = None]
  PROVE  Board!Next
<1>1. Shown' = [Shown EXCEPT ![t] = None] /\ Shown[t] # None
  BY BoardChanges, BoardStep DEF ShownJob
<1>2. Board!Close(t)
  BY <1>1 DEF Board!Close, Board!Posted, Shown
<1>3. QED
  BY <1>2 DEF Board!Next

\* The builder of a job changes: it is taken or left.
LEMMA BuilderChanges ==
  ASSUME IInv, IInv', NEW t \in Tiles, overlay[t] # None, NEW b \in Workers \union {None},
         overlay' = [overlay EXCEPT ![t] = [overlay[t] EXCEPT !.builder = b]],
         \/ b = None
         \/ /\ overlay[t].builder = None
            /\ \A u \in Tiles : overlay[u] # None => overlay[u].builder # b
  PROVE  Board!Next
<1> DEFINE o == overlay[t]
           p == [o EXCEPT !.builder = b]
<1>1. o \in Overlays
  BY DEF IInv, TypeOK
<1>2. p \in Overlays /\ p.builder = b /\ p.applied = o.applied
  BY <1>1 DEF Overlays
<1>3. Shown' = [Shown EXCEPT ![t] = ShownJob(p)]
  BY BoardChanges
<1>4. ShownJob(p) = [builder |-> b, applied |-> o.applied]
  <2> HIDE DEF p
  <2>1. p # None
    BY <1>2, ConstantsAssumption
  <2>2. QED
    BY <1>2, <2>1 DEF ShownJob
<1>5. Shown[t] = [builder |-> o.builder, applied |-> o.applied] /\ Shown[t] # None
  BY BoardStep DEF ShownJob
<1>6. Shown' = [Shown EXCEPT ![t].builder = b]
  <2>1. [Shown[t] EXCEPT !.builder = b] = [builder |-> b, applied |-> o.applied]
    BY <1>5
  <2> HIDE DEF p, Shown
  <2>2. Shown' = [Shown EXCEPT ![t] = [Shown[t] EXCEPT !.builder = b]]
    BY <1>3, <1>4, <2>1
  <2>3. QED
    BY <2>2
<1>7. CASE b = None
  <2>1. Board!Leave(t)
    BY <1>5, <1>6, <1>7 DEF Board!Leave, Board!Posted, Shown
  <2>2. QED
    BY <2>1 DEF Board!Next
<1>8. CASE b # None
  <2>1. \A u \in Tiles : Shown[u] # None => Shown[u].builder # b
    <3>1. \A u \in Tiles : Shown[u] = ShownJob(overlay[u])
      BY BoardStep
    <3>2. \A u \in Tiles : overlay[u] # None => overlay[u].builder # b
      BY <1>8
    <3>3. \A u \in Tiles : overlay[u] = None => Shown[u] = None
      BY <3>1 DEF ShownJob
    <3>4. ASSUME NEW u \in Tiles, overlay[u] # None
          PROVE  Shown[u].builder = overlay[u].builder
      <4>1. Shown[u] = [builder |-> overlay[u].builder, applied |-> overlay[u].applied]
        BY <3>1, <3>4 DEF ShownJob
      <4> HIDE DEF o, p
      <4>2. QED
        BY <4>1
    <3>5. QED
      BY <3>2, <3>3, <3>4
  <2>2. Shown[t].builder = None
    BY <1>5, <1>8
  <2>3. Board!Take(t, b)
    BY <1>5, <1>6, <2>1, <2>2 DEF Board!Take, Board!Posted, Shown
  <2>4. QED
    BY <1>8, <2>3 DEF Board!Next
<1>9. QED
  BY <1>7, <1>8

LEMMA WorkProgresses ==
  ASSUME IInv, IInv', NEW t \in Tiles, overlay[t] # None, overlay[t].builder \in Workers,
         NEW d \in Nat,
         overlay' = [overlay EXCEPT ![t] = [overlay[t] EXCEPT !.applied = overlay[t].applied + d]]
  PROVE  Board!Next
<1> DEFINE o == overlay[t]
           n == o.applied + d
           p == [o EXCEPT !.applied = n]
<1>1. o \in Overlays
  BY DEF IInv, TypeOK
<1>2. o.applied \in Nat /\ n \in Nat /\ n >= o.applied
  BY <1>1 DEF Overlays
<1>3. p \in Overlays /\ p.builder = o.builder /\ p.applied = n
  <2> HIDE DEF n
  <2>1. QED
    BY <1>1, <1>2 DEF Overlays
<1>4. Shown' = [Shown EXCEPT ![t] = ShownJob(p)]
  BY BoardChanges
<1>5. ShownJob(p) = [builder |-> o.builder, applied |-> n] /\ ShownJob(p) # None
  <2> HIDE DEF p, n
  <2>1. p # None
    BY <1>3, ConstantsAssumption
  <2>2. [builder |-> o.builder, applied |-> n] \in ShownJobs
    BY <1>2 DEF ShownJobs
  <2>3. QED
    BY <1>3, <2>1, <2>2, ConstantsAssumption DEF ShownJob
<1>6. /\ Shown[t] = [builder |-> o.builder, applied |-> o.applied] /\ Shown[t] # None
      /\ DOMAIN Shown = Tiles
  BY BoardStep DEF ShownJob, Shown
<1> HIDE DEF p, n
<1>7. Shown'[t] = [builder |-> o.builder, applied |-> n] /\ Shown'[t] # None
  <2> HIDE DEF Shown
  <2>1. QED
    BY <1>4, <1>5, <1>6
<1>8. Shown' = [Shown EXCEPT ![t].applied = Shown'[t].applied]
  <2>1. [Shown[t] EXCEPT !.applied = n] = [builder |-> o.builder, applied |-> n]
    BY <1>6
  <2> HIDE DEF Shown
  <2>2. Shown' = [Shown EXCEPT ![t] = [Shown[t] EXCEPT !.applied = n]]
    BY <1>4, <1>5, <2>1
  <2>3. QED
    BY <1>7, <2>2
<1>9. Shown[t].builder # None /\ Shown'[t].applied >= Shown[t].applied
  BY <1>2, <1>6, <1>7, ConstantsAssumption
<1>10. Board!Progress(t)
  BY <1>6, <1>7, <1>8, <1>9 DEF Board!Progress, Board!Posted, Shown
<1>11. QED
  BY <1>10 DEF Board!Next

LEMMA BoardSteps == IInv /\ IInv' /\ [Next]_vars => [Board!Next]_Shown
<1> SUFFICES ASSUME IInv, IInv', [Next]_vars
             PROVE  Board!Next \/ Shown' = Shown
  OBVIOUS
<1>0. overlay' = overlay => Shown' = Shown
  BY BoardStep
<1>1. ASSUME NEW tool \in UsedTools, NEW t \in Tiles, PlaceBlueprint(tool, t)
      PROVE  Board!Next
  <2> DEFINE job == IF tool = "erase" THEN DemolishOverlay(t) ELSE BuildOverlay(tool, t)
  <2>1. overlay[t] = None /\ overlay' = [overlay EXCEPT ![t] = job]
    BY <1>1 DEF PlaceBlueprint, Placeable, OpenJob
  <2>2. job \in Overlays /\ job.builder = None /\ job.applied = 0
    BY <1>1, ConstantsAssumption, FreshOverlays DEF PlaceBlueprint, Placeable, IInv
  <2> HIDE DEF job
  <2>3. QED
    BY <2>1, <2>2, OpenJobPosts
<1>2. ASSUME NEW t \in Tiles, CancelBlueprint(t)
      PROVE  Board!Next
  BY <1>2, JobCloses DEF CancelBlueprint
<1>3. ASSUME NEW i \in DOMAIN sites, NEW b \in Workers \union {None}, SetBuilder(i, b),
             \/ b = None
             \/ sites[i].builder = None /\ \A j \in DOMAIN sites : sites[j].builder # b
      PROVE  Board!Next
  <2> DEFINE t == sites[i].at
  <2>1. t \in Tiles
    <3>1. DOMAIN sites = 1 .. Len(sites) /\ sites \in Seq(SiteEntries)
      BY LenProperties DEF IInv, TypeOK
    <3>2. sites[i] \in SiteEntries
      BY <3>1, ElementOfSeq
    <3>3. QED
      BY <3>2 DEF SiteEntries
  <2>2. overlay[t] # None /\ sites[i].builder = overlay[t].builder
    BY DEF IInv, MirrorExact, Mirror
  <2>3. overlay' = [overlay EXCEPT ![t] = [overlay[t] EXCEPT !.builder = b]]
    BY <1>3, <2>2 DEF SetBuilder
  <2>4. \/ b = None
        \/ /\ overlay[t].builder = None
           /\ \A u \in Tiles : overlay[u] # None => overlay[u].builder # b
    BY <1>3, <2>2 DEF IInv, MirrorExact, Mirror
  <2> HIDE DEF t
  <2>5. QED
    BY <2>1, <2>2, <2>3, <2>4, BuilderChanges
<1>4. ASSUME NEW w \in Workers, ReserveSite(w)
      PROVE  Board!Next
  BY <1>3, <1>4 DEF ReserveSite
<1>5. ASSUME NEW w \in Workers, ReleaseSite(w)
      PROVE  Board!Next
  BY <1>3, <1>5 DEF ReleaseSite
<1>6. ASSUME NEW w \in Workers, NEW d \in WorkSteps, ApplyWork(w, d)
      PROVE  Board!Next
  <2>1. PICK t \in Tiles :
          /\ overlay[t] # None /\ overlay[t].builder = w
          /\ overlay' = [overlay EXCEPT ![t].applied = @ + d]
    BY <1>6 DEF ApplyWork
  <2>2. d \in Nat
    BY ConstantsAssumption
  <2>3. overlay' = [overlay EXCEPT ![t] = [overlay[t] EXCEPT !.applied = overlay[t].applied + d]]
    BY <2>1
  <2>4. QED
    BY <2>1, <2>2, <2>3, WorkProgresses
<1>7. CASE SyncSite
  <2> DEFINE t == sites[cursor].at
             b == IF overlay[t].builder \in alive THEN overlay[t].builder ELSE None
  <2>1. t \in Tiles /\ overlay[t] \in Overlays /\ overlay[t] # None
    BY <1>7, EntryUnderCursor DEF SyncSite
  <2>2. overlay' = [overlay EXCEPT ![t] = [overlay[t] EXCEPT !.builder = b]]
    BY <1>7 DEF SyncSite
  <2>3. CASE b = None
    BY <2>1, <2>2, <2>3, BuilderChanges
  <2>4. CASE b # None
    <3>1. b = overlay[t].builder
      BY <2>4
    <3> DEFINE o == overlay[t]
    <3>2. o = [o EXCEPT !.builder = o.builder]
      BY <2>1 DEF Overlays
    <3>3. overlay \in [Tiles -> Overlays \union {None}]
      BY DEF IInv, TypeOK
    <3> HIDE DEF b, t
    <3>4. overlay' = overlay
      BY <2>2, <3>1, <3>2, <3>3
    <3>5. QED
      BY <1>0, <3>4
  <2>5. QED
    BY <2>3, <2>4
<1>8. CASE Update
  <2>1. CASE BeginUpdate
    BY <1>0, <2>1 DEF BeginUpdate, BeginAt
  <2>2. CASE DropSite
    BY <2>2, EntryUnderCursor DEF DropSite
  <2>3. CASE CompleteSite
    <3>1. sites[cursor].at \in Tiles /\ overlay[sites[cursor].at] # None
      BY <2>3, EntryUnderCursor DEF CompleteSite
    <3>2. overlay' = [overlay EXCEPT ![sites[cursor].at] = None]
      BY <2>3 DEF CompleteSite
    <3>3. QED
      BY <3>1, <3>2, JobCloses
  <2>4. CASE EndUpdate
    BY <1>0, <2>4 DEF EndUpdate
  <2>5. QED
    BY <1>7, <1>8, <2>1, <2>2, <2>3, <2>4 DEF Update
<1>9. ASSUME NEW t \in Tiles, RaidImpact(t) \/ \E tool \in UsedTools : InstantPlace(tool, t)
      PROVE  Shown' = Shown
  BY <1>0, <1>9 DEF RaidImpact, InstantPlace
<1>10. CASE Routing \/ \E w \in Workers : Death(w)
  BY <1>0, <1>10, RoutingKeepsRoutes DEF Death, IInv
<1>11. CASE UNCHANGED vars
  BY <1>0, <1>11 DEF vars
<1>12. QED
  BY <1>1, <1>2, <1>4, <1>5, <1>6, <1>8, <1>9, <1>10, <1>11 DEF Next, BlueprintNext

\* The index is a job board, for any map, colony and set of tools: every step
\* of builders, planners, raids and the update is one step of JobBoard or none
\* at all (construction_sites.py, construction_system.py).
THEOREM IndexIsJobBoard == Spec => BoardSpec
<1>1. Init => Board!Init
  <2> SUFFICES ASSUME Init
               PROVE  Board!Init
    OBVIOUS
  <2>1. sites = << >>
    BY DEF Init
  <2>2. \A t \in Tiles : BoardedJob(t) = None
    BY <2>1 DEF BoardedJob, SiteIndex
  <2>3. QED
    BY <2>2 DEF Board!Init
<1>2. IInv /\ IInv' /\ [Next]_vars => [Board!Next]_Shown
  BY BoardSteps
<1>3. [Board!Next]_Shown => [Board!Next]_([t \in Tiles |-> BoardedJob(t)])
  BY DEF Shown
<1>4. QED
  BY <1>1, <1>2, <1>3, InvariantHolds, PTL DEF Spec, BoardSpec, Board!Spec

(***************************************************************************)
(* Sums                                                                    *)
(***************************************************************************)

\* SumFunction adds the values of a function one by one: the value at an element
\* of what is left, chosen in a fixed way, and the sum of the others.
One(s) == CHOOSE x \in s : TRUE

Adds(f, h, T) ==
  h = [s \in SUBSET T |-> IF s = {} THEN 0 ELSE f[One(s)] + h[s \ {One(s)}]]

\* In a nonempty set of finite sets some set has no strict subset in it.
LEMMA SmallestSet ==
  ASSUME NEW S, IsFiniteSet(S), NEW X, X \subseteq SUBSET S, X # {}
  PROVE  \E s \in X : \A r \in X : r \subseteq s => r = s
<1>1. X \subseteq FiniteSubsetsOf(S)
  <2>1. \A s \in SUBSET S : IsFiniteSet(s)
    BY FS_Subset
  <2>2. QED
    BY <2>1 DEF FiniteSubsetsOf
<1>2. PICK s \in X : \A r \in X : ~ (<<r, s>> \in StrictSubsetOrdering(S))
  BY <1>1, WFMin, FS_StrictSubsetOrderingWellFounded
<1>3. ASSUME NEW r \in X, r \subseteq s, r # s PROVE FALSE
  <2>1. <<r, s>> \in StrictSubsetOrdering(S)
    BY <1>3 DEF StrictSubsetOrdering
  <2>2. QED
    BY <1>2, <2>1
<1>4. QED
  BY <1>3

LEMMA OneTaken ==
  ASSUME NEW s, s # {}
  PROVE  One(s) \in s /\ s \ {One(s)} \subseteq s /\ s \ {One(s)} # s
<1>1. One(s) \in s
  BY DEF One
<1>2. QED
  BY <1>1

LEMMA AddsOneWay ==
  ASSUME NEW f, NEW S, IsFiniteSet(S), NEW T \in SUBSET S, NEW U \in SUBSET S,
         NEW h, Adds(f, h, T), NEW g, Adds(f, g, U)
  PROVE  \A s \in SUBSET (T \intersect U) : h[s] = g[s]
<1> DEFINE X == {s \in SUBSET (T \intersect U) : h[s] # g[s]}
<1> SUFFICES ASSUME X # {} PROVE FALSE
  OBVIOUS
<1>1. PICK s \in X : \A r \in X : r \subseteq s => r = s
  <2>1. X \subseteq SUBSET S
    OBVIOUS
  <2> HIDE DEF X
  <2>2. QED
    BY <2>1, SmallestSet
<1>2. s \in SUBSET T /\ s \in SUBSET U /\ h[s] # g[s]
  OBVIOUS
<1>3. h[s] = (IF s = {} THEN 0 ELSE f[One(s)] + h[s \ {One(s)}]) /\ g[s] = (IF s = {} THEN 0 ELSE f[One(s)] + g[s \ {One(s)}])
  BY <1>2 DEF Adds
<1>4. s # {}
  BY <1>2, <1>3
<1>5. h[s \ {One(s)}] = g[s \ {One(s)}]
  BY <1>1, <1>4, OneTaken
<1>6. QED
  BY <1>2, <1>3, <1>5

\* For every finite set there is a function that adds up.
LEMMA AddsExists ==
  ASSUME NEW f, NEW S, IsFiniteSet(S)
  PROVE  \E h : Adds(f, h, S)
<1> DEFINE X == {T \in SUBSET S : ~ \E h : Adds(f, h, T)}
<1> SUFFICES ASSUME X # {} PROVE FALSE
  OBVIOUS
<1>1. PICK T \in X : \A r \in X : r \subseteq T => r = T
  <2>1. X \subseteq SUBSET S
    OBVIOUS
  <2> HIDE DEF X
  <2>2. QED
    BY <2>1, SmallestSet
<1> DEFINE A(r) == CHOOSE h : Adds(f, h, r)
           V(r) == A(r)[r]
           W(s) == IF s = T THEN IF T = {} THEN 0 ELSE f[One(T)] + V(T \ {One(T)}) ELSE V(s)
           g == [s \in SUBSET T |-> W(s)]
<1>2. T \in SUBSET S /\ ~ \E h : Adds(f, h, T)
  OBVIOUS
<1>3. \A r \in SUBSET T : r # T => Adds(f, A(r), r)
  <2> SUFFICES ASSUME NEW r \in SUBSET T, r # T PROVE Adds(f, A(r), r)
    OBVIOUS
  <2>1. \E h : Adds(f, h, r)
    BY <1>1, <1>2
  <2>2. QED
    BY <2>1
<1>4. \A r \in SUBSET T : r # T /\ r # {} => V(r) = f[One(r)] + V(r \ {One(r)})
  <2> SUFFICES ASSUME NEW r \in SUBSET T, r # T, r # {} PROVE V(r) = f[One(r)] + V(r \ {One(r)})
    OBVIOUS
  <2> DEFINE q == r \ {One(r)}
  <2>1. q \subseteq r /\ q # r /\ q # T /\ q \in SUBSET T
    BY OneTaken
  <2>2. Adds(f, A(r), r) /\ Adds(f, A(q), q)
    BY <1>3, <2>1
  <2> HIDE DEF A, q
  <2>3. A(r)[q] = A(q)[q]
    <3>1. r \in SUBSET S /\ q \in SUBSET S /\ q \in SUBSET (r \intersect q)
      BY <1>2, <2>1
    <3>2. QED
      BY <2>2, <3>1, AddsOneWay
  <2>4. A(r)[r] = f[One(r)] + A(r)[q]
    <3>1. r \in SUBSET r
      OBVIOUS
    <3>2. QED
      BY <2>2, <3>1 DEF Adds, q
  <2>5. QED
    BY <2>3, <2>4 DEF q
<1>5. T # {} => V({}) = 0
  <2> SUFFICES ASSUME T # {} PROVE V({}) = 0
    OBVIOUS
  <2>1. Adds(f, A({}), {})
    BY <1>3
  <2> HIDE DEF A
  <2>2. QED
    BY <2>1 DEF Adds
<1> HIDE DEF V
<1>6. \A s \in SUBSET T : g[s] = IF s = {} THEN 0 ELSE f[One(s)] + g[s \ {One(s)}]
  <2> SUFFICES ASSUME NEW s \in SUBSET T PROVE g[s] = IF s = {} THEN 0 ELSE f[One(s)] + g[s \ {One(s)}]
    OBVIOUS
  <2>1. s # {} => s \ {One(s)} \in SUBSET T /\ s \ {One(s)} # T
    BY OneTaken
  <2>2. s # {} => g[s \ {One(s)}] = V(s \ {One(s)})
    BY <2>1
  <2>3. g[s] = W(s)
    OBVIOUS
  <2> HIDE DEF g
  <2>4. QED
    BY <1>4, <1>5, <2>2, <2>3
<1>7. Adds(f, g, T)
  <2>1. g = [s \in SUBSET T |-> g[s]]
    OBVIOUS
  <2> HIDE DEF g
  <2>2. QED
    BY <1>6, <2>1 DEF Adds
<1>8. QED
  BY <1>2, <1>7

LEMMA SumAdds ==
  ASSUME NEW S, IsFiniteSet(S), NEW f, DOMAIN f = S
  PROVE  \E h : Adds(f, h, S) /\ SumFunction(f) = h[S]
<1> DEFINE c == CHOOSE h : Adds(f, h, S)
<1>1. Adds(f, c, S)
  BY AddsExists
<1>2. SumFunction(f) = c[S]
  BY DEF SumFunction, SumFunctionOnSet, FoldFunctionOnSet, MapThenFoldSet, Adds, One
<1>3. QED
  BY <1>1, <1>2

\* When a function changes at one place, its sum changes by as much.
LEMMA SumChanges ==
  ASSUME NEW S, IsFiniteSet(S), NEW t \in S,
         NEW f \in [S -> Int], NEW g \in [S -> Int],
         \A u \in S : u # t => g[u] = f[u]
  PROVE  /\ SumFunction(f) \in Int
         /\ SumFunction(g) = SumFunction(f) + (g[t] - f[t])
<1>1. PICK a : Adds(f, a, S) /\ SumFunction(f) = a[S]
  BY SumAdds
<1>2. PICK b : Adds(g, b, S) /\ SumFunction(g) = b[S]
  BY SumAdds
<1> DEFINE X == {s \in SUBSET S : ~ (a[s] \in Int /\ b[s] = a[s] + (IF t \in s THEN g[t] - f[t] ELSE 0))}
<1>3. X = {}
  <2> SUFFICES ASSUME X # {} PROVE FALSE
    OBVIOUS
  <2>1. PICK s \in X : \A r \in X : r \subseteq s => r = s
    <3>1. X \subseteq SUBSET S
      OBVIOUS
    <3> HIDE DEF X
    <3>2. QED
      BY <3>1, SmallestSet
  <2>2. s \in SUBSET S
    OBVIOUS
  <2>3. /\ a[s] = IF s = {} THEN 0 ELSE f[One(s)] + a[s \ {One(s)}]
        /\ b[s] = IF s = {} THEN 0 ELSE g[One(s)] + b[s \ {One(s)}]
    BY <1>1, <1>2, <2>2 DEF Adds
  <2>4. s # {}
    BY <2>3
  <2> DEFINE x == One(s)
             q == s \ {x}
  <2>5. x \in s /\ q \subseteq s /\ q # s /\ q \in SUBSET S
    BY <2>2, <2>4, OneTaken
  <2>6. a[q] \in Int /\ b[q] = a[q] + (IF t \in q THEN g[t] - f[t] ELSE 0)
    BY <2>1, <2>5
  <2>7. f[x] \in Int /\ g[x] \in Int /\ f[t] \in Int /\ g[t] \in Int
        /\ (x # t => g[x] = f[x]) /\ (t \in q <=> t \in s /\ t # x)
    BY <2>2, <2>5
  <2>8. a[s] = f[x] + a[q] /\ b[s] = g[x] + b[q]
    BY <2>3, <2>4
  <2> HIDE DEF x, q
  <2>9. a[s] \in Int /\ b[s] = a[s] + (IF t \in s THEN g[t] - f[t] ELSE 0)
    <3>1. CASE x = t
      BY <3>1, <2>5, <2>6, <2>7, <2>8
    <3>2. CASE x # t
      BY <3>2, <2>6, <2>7, <2>8
    <3>3. QED
      BY <3>1, <3>2
  <2>10. QED
    BY <2>9
<1>4. S \in SUBSET S /\ S \notin X
  BY <1>3
<1>5. QED
  BY <1>1, <1>2, <1>4

(***************************************************************************)
(* The ledger: what the tables of costs promise                            *)
(***************************************************************************)

\* A structure gives back no more than it costs, and what an erase leaves
\* behind gives back nothing.
LEMMA SalvageIsPaidFor ==
  /\ \A tool \in BuildTools, k \in ResourceKeys :
       Salvage(ToolToTile[tool])[k] <= BuildCost[tool][k]
  /\ \A type \in TileTypes : Salvage(ErasedTile(type)) = Nothing
  /\ Salvage("RUINS") = Nothing
<1>1. ASSUME NEW tool \in BuildTools, NEW k \in ResourceKeys
      PROVE  Salvage(ToolToTile[tool])[k] <= BuildCost[tool][k]
  <2>1. ToolToTile[tool] \in BuiltStructureTiles
    BY DEF BuildTools, ToolToTile, BuiltStructureTiles
  <2>2. \A u \in BuildTools : ToolToTile[u] = ToolToTile[tool] => u = tool
    BY DEF BuildTools, ToolToTile
  <2>3. (CHOOSE u \in BuildTools : ToolToTile[u] = ToolToTile[tool]) = tool
    BY <2>2
  <2>4. Salvage(ToolToTile[tool])[k] = BuildCost[tool][k] \div 2
    BY <2>1, <2>3 DEF Salvage
  <2>5. BuildCost[tool][k] \in Nat
    BY CostsTyped
  <2>6. QED
    BY <2>4, <2>5, Z3
<1>2. \A type \in TileTypes : Salvage(ErasedTile(type)) = Nothing
  BY DEF ErasedTile, Salvage, BuiltStructureTiles
<1>3. Salvage("RUINS") = Nothing
  BY DEF Salvage, BuiltStructureTiles
<1>4. QED
  BY <1>1, <1>2, <1>3

LEMMA NothingIsNothing == \A k \in ResourceKeys : Nothing[k] = 0
  BY DEF Nothing, Amount, ResourceKeys

\* An erasure leaves a tile that gives nothing back: a demolition pays once.
ErasuresBare ==
  \A t \in Tiles :
    overlay[t] # None /\ overlay[t].kind = "demolish"
      => Salvage(overlay[t].target) = Nothing

\* The inductive invariant under drift, where the mirror is not exact.
LedgerInv == TypeOK /\ NoRouteIntoObstacle /\ ErasuresBare

\* The claim on a tile, case by case.
ClaimShape(t, k) ==
  /\ Salvage(tile[t])[k] \in Nat
  /\ Claim(t, k) \in Nat
  /\ overlay[t] = None => Claim(t, k) = Salvage(tile[t])[k]
  /\ overlay[t] # None =>
       /\ overlay[t] \in Overlays
       /\ overlay[t].cost[k] \in Nat /\ overlay[t].refund[k] \in Nat
       /\ Salvage(overlay[t].target)[k] \in Nat
       /\ Claim(t, k) = Larger(overlay[t].cost[k] + Salvage(tile[t])[k],
                               IF overlay[t].kind = "build"
                               THEN Salvage(overlay[t].target)[k]
                               ELSE overlay[t].refund[k])

LEMMA ClaimCases ==
  ASSUME TypeOK, NEW t \in Tiles, NEW k \in ResourceKeys
  PROVE  ClaimShape(t, k)
<1> USE DEF ClaimShape
<1>1. Salvage(tile[t])[k] \in Nat
  BY SalvageTyped DEF TypeOK
<1>2. CASE overlay[t] = None
  BY <1>1, <1>2 DEF Claim
<1>3. CASE overlay[t] # None
  <2>1. overlay[t] \in Overlays
    BY <1>3 DEF TypeOK
  <2>2. /\ overlay[t].target \in TileTypes
        /\ overlay[t].cost[k] \in Nat /\ overlay[t].refund[k] \in Nat
    BY <2>1 DEF Overlays
  <2>3. Salvage(overlay[t].target)[k] \in Nat
    BY <2>2, SalvageTyped
  <2>4. Claim(t, k) = Larger(overlay[t].cost[k] + Salvage(tile[t])[k],
                             IF overlay[t].kind = "build"
                             THEN Salvage(overlay[t].target)[k]
                             ELSE overlay[t].refund[k])
    BY <1>3 DEF Claim
  <2>5. QED
    BY <1>1, <1>3, <2>1, <2>2, <2>3, <2>4 DEF Larger
<1>4. QED
  BY <1>2, <1>3

LEMMA ClaimShapes == TypeOK => \A t \in Tiles, k \in ResourceKeys : ClaimShape(t, k)
  BY ClaimCases

LEMMA ClaimShapesAfter == (TypeOK => \A t \in Tiles, k \in ResourceKeys : ClaimShape(t, k))'
  BY ClaimShapes, PTL

\* A step that changes one tile, and does not make that tile and the stock
\* worth more together, does not make the colony richer.
LEMMA OneTileChanges ==
  ASSUME TypeOK, TypeOK', NEW t \in Tiles, NEW k \in ResourceKeys,
         \A u \in Tiles \ {t} : tile'[u] = tile[u] /\ overlay'[u] = overlay[u],
         resources'[k] + Claim(t, k)' <= resources[k] + Claim(t, k)
  PROVE  Recoverable(k)' <= Recoverable(k)
<1> DEFINE f == [u \in Tiles |-> Claim(u, k)]
           g == [u \in Tiles |-> Claim(u, k)']
<1>1. f \in [Tiles -> Int] /\ g \in [Tiles -> Int]
  <2>1. \A u \in Tiles : Claim(u, k) \in Int /\ Claim(u, k)' \in Int
    BY ClaimShapes, ClaimShapesAfter DEF ClaimShape
  <2>2. QED
    BY <2>1
<1>2. \A u \in Tiles : u # t => g[u] = f[u]
  BY DEF Claim
<1>3. resources[k] \in Int /\ resources'[k] \in Int
  BY DEF TypeOK
<1>4. Recoverable(k) = resources[k] + SumFunction(f) /\ Recoverable(k)' = resources'[k] + SumFunction(g)
  BY DEF Recoverable
<1>5. f[t] = Claim(t, k) /\ g[t] = Claim(t, k)'
  OBVIOUS
<1> HIDE DEF f, g
<1>6. /\ SumFunction(f) \in Int
      /\ SumFunction(g) = SumFunction(f) + (g[t] - f[t])
  <2>1. IsFiniteSet(Tiles)
    BY ConstantsAssumption
  <2>2. QED
    BY <1>1, <1>2, <2>1, SumChanges
<1>7. f[t] \in Int /\ g[t] \in Int
  BY <1>1
<1>8. resources'[k] + g[t] <= resources[k] + f[t]
  BY <1>5
<1>9. QED
  BY <1>3, <1>4, <1>6, <1>7, <1>8

LEMMA SumTyped ==
  ASSUME NEW S, IsFiniteSet(S), NEW f \in [S -> Int]
  PROVE  SumFunction(f) \in Int
<1>1. CASE S = {}
  <2>1. PICK h : Adds(f, h, S) /\ SumFunction(f) = h[S]
    BY SumAdds
  <2>2. QED
    BY <1>1, <2>1 DEF Adds
<1>2. CASE S # {}
  <2>1. PICK t \in S : TRUE
    BY <1>2
  <2>2. QED
    BY <2>1, SumChanges
<1>3. QED
  BY <1>1, <1>2

NotRicher == \A k \in ResourceKeys : Recoverable(k)' <= Recoverable(k)

LEMMA NothingPaid ==
  ASSUME TypeOK, UNCHANGED <<tile, overlay, resources>>
  PROVE  NotRicher
<1> SUFFICES ASSUME NEW k \in ResourceKeys PROVE Recoverable(k)' <= Recoverable(k)
  BY DEF NotRicher
<1> DEFINE f == [u \in Tiles |-> Claim(u, k)]
<1>1. f \in [Tiles -> Int]
  <2>1. \A u \in Tiles : Claim(u, k) \in Int
    BY ClaimShapes DEF ClaimShape
  <2>2. QED
    BY <2>1
<1>2. Recoverable(k)' = Recoverable(k) /\ Recoverable(k) = resources[k] + SumFunction(f)
  BY DEF Recoverable, Claim
<1> HIDE DEF f
<1>3. SumFunction(f) \in Int
  <2>1. IsFiniteSet(Tiles)
    BY ConstantsAssumption
  <2>2. QED
    BY <1>1, <2>1, SumTyped
<1>4. resources[k] \in Int
  BY DEF TypeOK
<1>5. QED
  BY <1>2, <1>3, <1>4

(***************************************************************************)
(* Entries and tiles, when the mirror is not exact                         *)
(***************************************************************************)

\* splice_construction_site finds the first entry of the tile, if it has one.
LEMMA FirstSiteExists ==
  ASSUME TypeOK, NEW t \in Tiles, SiteIndex(t) # {}
  PROVE  FirstSite(t) \in SiteIndex(t)
<1> DEFINE I == SiteIndex(t)
           n == Len(sites)
           X == {1 .. i : i \in I}
<1>1. n \in Nat /\ I \subseteq 1 .. n
  BY LenProperties DEF TypeOK, SiteIndex
<1>2. PICK s \in X : \A r \in X : r \subseteq s => r = s
  <2>1. IsFiniteSet(1 .. n)
    BY <1>1, FS_Interval
  <2>2. \A i \in I : 1 .. i \in SUBSET (1 .. n)
    BY <1>1
  <2>3. X # {} /\ X \subseteq SUBSET (1 .. n)
    BY <2>2
  <2> DEFINE S == 1 .. n
  <2>4. IsFiniteSet(S) /\ X # {} /\ X \subseteq SUBSET S
    BY <2>1, <2>3
  <2> HIDE DEF X, S
  <2>5. QED
    BY <2>4, SmallestSet
<1>3. PICK i \in I : s = 1 .. i
  OBVIOUS
<1>4. ASSUME NEW j \in I, j < i PROVE FALSE
  <2>1. 1 .. j \in X /\ 1 .. j \subseteq s /\ i \in s /\ i \notin 1 .. j
    BY <1>1, <1>3, <1>4
  <2>2. QED
    BY <1>2, <2>1
<1>5. \A j \in I : i <= j
  BY <1>1, <1>4
<1>6. QED
  BY <1>5 DEF FirstSite

LEMMA SpliceTyped ==
  ASSUME TypeOK, NEW t \in Tiles
  PROVE  SpliceSite(t) \in Seq(SiteEntries)
<1>1. CASE SiteIndex(t) = {}
  BY <1>1 DEF SpliceSite, TypeOK
<1>2. CASE SiteIndex(t) # {}
  <2>1. FirstSite(t) \in 1 .. Len(sites) /\ sites \in Seq(SiteEntries)
    BY <1>2, FirstSiteExists, LenProperties DEF TypeOK, SiteIndex
  <2>2. QED
    BY <1>2, <2>1, RemoveAtProperties DEF SpliceSite
<1>3. QED
  BY <1>1, <1>2

\* What the loop knows of the entry it examines.
LEMMA EntryAtCursor ==
  ASSUME TypeOK, cursor > 0
  PROVE  /\ cursor \in 1 .. Len(sites)
         /\ sites[cursor].at \in Tiles
         /\ overlay[sites[cursor].at] # None => overlay[sites[cursor].at] \in Overlays
<1>1. Len(sites) \in Nat /\ DOMAIN sites = 1 .. Len(sites)
  BY LenProperties DEF TypeOK
<1>2. cursor \in 1 .. Len(sites)
  BY <1>1 DEF TypeOK
<1>3. sites[cursor] \in SiteEntries
  BY <1>2, ElementOfSeq DEF TypeOK
<1>4. QED
  BY <1>1, <1>2, <1>3 DEF TypeOK, SiteEntries

\* Every rank in a finite set of numbers is held by one of them.
LEMMA RankHeld ==
  ASSUME NEW I, I \subseteq Nat, IsFiniteSet(I)
  PROVE  /\ Cardinality(I) \in Nat
         /\ \A n \in 1 .. Cardinality(I) : \E t \in I : Cardinality({u \in I : u <= t}) = n
<1> DEFINE below(t) == {u \in I : u <= t}
           r == [t \in I |-> Cardinality(below(t))]
           c == Cardinality(I)
<1>1. c \in Nat
  BY FS_CardinalityType
<1>2. \A t : IsFiniteSet(below(t)) /\ Cardinality(below(t)) \in 0 .. c
  <2> SUFFICES ASSUME NEW t PROVE IsFiniteSet(below(t)) /\ Cardinality(below(t)) \in 0 .. c
    OBVIOUS
  <2>1. below(t) \in SUBSET I
    OBVIOUS
  <2> HIDE DEF below
  <2>2. IsFiniteSet(below(t)) /\ Cardinality(below(t)) <= c
    BY <2>1, FS_Subset
  <2>3. Cardinality(below(t)) \in Nat
    BY <2>2, FS_CardinalityType
  <2>4. QED
    BY <1>1, <2>2, <2>3
<1>3. \A t \in I : Cardinality(below(t)) \in 1 .. c
  <2> SUFFICES ASSUME NEW t \in I PROVE Cardinality(below(t)) # 0
    BY <1>1, <1>2
  <2>1. t \in below(t)
    OBVIOUS
  <2>2. QED
    BY <1>2, <2>1, FS_EmptySet
<1>4. \A t, k \in I : t < k => Cardinality(below(t)) # Cardinality(below(k))
  <2> SUFFICES ASSUME NEW t \in I, NEW k \in I, t < k
               PROVE  Cardinality(below(t)) # Cardinality(below(k))
    OBVIOUS
  <2>1. k <= k /\ ~ (k <= t) /\ \A j \in I : j <= t => j <= k
    OBVIOUS
  <2>2. below(t) \in SUBSET below(k) /\ k \in below(k) /\ k \notin below(t)
    BY <2>1
  <2> HIDE DEF below
  <2>3. Cardinality(below(k)) = Cardinality(below(t)) => below(k) = below(t)
    BY <1>2, <2>2, FS_Subset
  <2>4. QED
    BY <2>2, <2>3
<1>5. r \in Injection(I, 1 .. c)
  <2>1. r \in [I -> 1 .. c]
    BY <1>3
  <2>2. \A t, k \in I : r[t] = r[k] => t = k
    BY <1>4
  <2> HIDE DEF r
  <2>3. QED
    BY <2>1, <2>2 DEF Injection, IsInjective
<1>6. r \in Surjection(I, 1 .. c)
  <2>1. IsFiniteSet(1 .. c) /\ Cardinality(1 .. c) = c
    BY <1>1, FS_Interval
  <2>2. QED
    BY <1>5, <2>1, FS_Injection
<1>7. \A n \in 1 .. c : \E t \in I : Cardinality(below(t)) = n
  BY <1>6 DEF Surjection
<1>8. QED
  BY <1>1, <1>7

\* rebuild_construction_sites makes one entry of each overlay.
LEMMA RebuiltTyped ==
  ASSUME TypeOK
  PROVE  RebuiltSites \in Seq(SiteEntries)
<1> DEFINE open == {t \in Tiles : overlay[t] # None}
           Nth(i) == CHOOSE t \in open : Cardinality({u \in open : u <= t}) = i
           Entry(t) == [at |-> t, builder |-> overlay[t].builder,
                        applied |-> overlay[t].applied]
           c == Cardinality(open)
<1>1. open \subseteq Nat /\ IsFiniteSet(open)
  <2>1. open \in SUBSET Tiles /\ IsFiniteSet(Tiles) /\ Tiles \subseteq Nat
    BY ConstantsAssumption
  <2> HIDE DEF open
  <2>2. QED
    BY <2>1, FS_Subset
<1>2. \A t \in open : Entry(t) \in SiteEntries
  BY DEF TypeOK, Overlays, SiteEntries
<1>3. c \in Nat /\ \A i \in 1 .. c : Nth(i) \in open
  <2> HIDE DEF open
  <2>1. c \in Nat /\ \A n \in 1 .. c : \E t \in open : Cardinality({u \in open : u <= t}) = n
    BY <1>1, RankHeld
  <2>2. QED
    BY <2>1
<1>4. RebuiltSites = [i \in 1 .. c |-> Entry(Nth(i))]
  BY DEF RebuiltSites
<1> HIDE DEF open, Nth, Entry, c
<1>5. \A i \in 1 .. c : Entry(Nth(i)) \in SiteEntries
  BY <1>2, <1>3
<1>6. QED
  BY <1>3, <1>4, <1>5

(***************************************************************************)
(* What each step does to the ledger                                       *)
(***************************************************************************)

\* Whatever changes in a job but its builder and the work done leaves its
\* claim as it is.
LEMMA JobMoves ==
  ASSUME LedgerInv, NEW t \in Tiles, overlay[t] # None,
         NEW job \in Overlays,
         job.kind = overlay[t].kind, job.target = overlay[t].target,
         job.cost = overlay[t].cost, job.refund = overlay[t].refund,
         overlay' = [overlay EXCEPT ![t] = job],
         sites' \in Seq(SiteEntries), cursor' \in -1 .. Len(sites'),
         UNCHANGED <<tile, resources, alive, route, tick>>
  PROVE  LedgerInv' /\ NotRicher
<1>1. TypeOK /\ TypeOK'
  BY DEF LedgerInv, TypeOK
<1>2. overlay'[t] = job /\ \A u \in Tiles \ {t} : overlay'[u] = overlay[u]
  BY <1>1 DEF TypeOK
<1>3. job # None
  BY ConstantsAssumption
<1>4. ErasuresBare' /\ NoRouteIntoObstacle'
  BY <1>2, <1>3 DEF LedgerInv, ErasuresBare, NoRouteIntoObstacle, HasActivePath
<1>5. NotRicher
  <2> SUFFICES ASSUME NEW k \in ResourceKeys PROVE Recoverable(k)' <= Recoverable(k)
    BY DEF NotRicher
  <2>1. Claim(t, k)' = Claim(t, k)
    BY <1>2, <1>3 DEF Claim
  <2>2. resources'[k] + Claim(t, k)' <= resources[k] + Claim(t, k)
    <3>1. Claim(t, k) \in Nat /\ resources[k] \in Nat
      BY <1>1, ClaimShapes DEF ClaimShape, TypeOK
    <3>2. QED
      BY <2>1, <3>1
  <2>3. QED
    BY <1>1, <1>2, <2>2, OneTileChanges
<1>6. QED
  BY <1>1, <1>4, <1>5 DEF LedgerInv

\* A job that opens is paid for with what can be got back for it.
LEMMA JobOpens ==
  ASSUME LedgerInv, NEW t \in Tiles, overlay[t] = None, ~Running,
         NEW job \in Overlays, CanAfford(resources, job.cost), OpenJob(t, job),
         job.kind = "demolish" => Salvage(job.target) = Nothing,
         \A k \in ResourceKeys :
           IF job.kind = "build"
           THEN Salvage(job.target)[k] <= job.cost[k]
           ELSE job.refund[k] <= Salvage(tile[t])[k]
  PROVE  LedgerInv' /\ NotRicher
<1>1. TypeOK
  BY DEF LedgerInv
<1>2. TypeOK'
  <2>1. NewSite(t) \in SiteEntries
    BY DEF NewSite, SiteEntries
  <2>2. resources' \in [ResourceKeys -> Nat]
    BY <1>1, SpendRefundTyped DEF OpenJob, TypeOK, Overlays
  <2>3. sites' \in Seq(SiteEntries) /\ Len(sites') = Len(sites) + 1
    BY <1>1, <2>1, AppendProperties DEF OpenJob, TypeOK
  <2>4. Len(sites) \in Nat
    BY <1>1, LenProperties DEF TypeOK
  <2>5. overlay' \in [Tiles -> Overlays \union {None}]
    BY <1>1 DEF OpenJob, TypeOK
  <2>6. QED
    BY <1>1, <2>2, <2>3, <2>4, <2>5 DEF OpenJob, TypeOK
<1>3. overlay'[t] = job /\ tile' = tile /\ \A u \in Tiles \ {t} : overlay'[u] = overlay[u]
  BY <1>1 DEF TypeOK, OpenJob
<1>4. job # None
  BY ConstantsAssumption
<1>5. ErasuresBare' /\ NoRouteIntoObstacle'
  BY <1>3, <1>4 DEF LedgerInv, ErasuresBare, NoRouteIntoObstacle, HasActivePath, OpenJob
<1>6. NotRicher
  <2> SUFFICES ASSUME NEW k \in ResourceKeys PROVE Recoverable(k)' <= Recoverable(k)
    BY DEF NotRicher
  <2>1. ClaimShape(t, k) /\ ClaimShape(t, k)'
    BY <1>1, <1>2, ClaimShapes, ClaimShapesAfter
  <2>2. resources[k] \in Nat /\ job.cost[k] \in Nat /\ job.refund[k] \in Nat
    BY <1>1 DEF TypeOK, Overlays
  <2>3. resources'[k] = resources[k] - job.cost[k]
    BY <2>2 DEF OpenJob, Spend, CanAfford
  <2>4. Claim(t, k) = Salvage(tile[t])[k] /\ Salvage(tile[t])[k] \in Nat
    BY <2>1 DEF ClaimShape
  <2>5. Claim(t, k)' = job.cost[k] + Salvage(tile[t])[k]
    <3>1. /\ Salvage(job.target)[k] \in Nat
          /\ Claim(t, k)' = Larger(job.cost[k] + Salvage(tile[t])[k],
                                   IF job.kind = "build" THEN Salvage(job.target)[k]
                                                         ELSE job.refund[k])
      BY <1>3, <1>4, <2>1 DEF ClaimShape
    <3>2. job.kind \in {"build", "demolish"}
      BY DEF Overlays
    <3>3. QED
      BY <2>2, <2>4, <3>1, <3>2 DEF Larger
  <2>6. resources'[k] + Claim(t, k)' <= resources[k] + Claim(t, k)
    BY <2>2, <2>3, <2>4, <2>5
  <2>7. QED
    BY <1>1, <1>2, <1>3, <2>6, OneTileChanges
<1>7. QED
  BY <1>2, <1>5, <1>6 DEF LedgerInv

LEMMA PlaceBlueprintPays ==
  ASSUME LedgerInv, NEW tool \in UsedTools, NEW t \in Tiles, PlaceBlueprint(tool, t)
  PROVE  LedgerInv' /\ NotRicher
<1>1. tool \in Tools /\ TypeOK /\ tile[t] \in TileTypes /\ overlay[t] = None /\ ~Running
  BY ConstantsAssumption DEF LedgerInv, TypeOK, PlaceBlueprint, Placeable
<1>2. CASE tool # "erase"
  <2> DEFINE job == BuildOverlay(tool, t)
  <2>1. job \in Overlays /\ job.kind = "build" /\ job.cost = BuildCost[tool]
        /\ job.target = ToolToTile[tool] /\ tool \in BuildTools
    BY <1>1, <1>2, FreshOverlays DEF BuildOverlay, Tools
  <2>2. CanAfford(resources, job.cost) /\ OpenJob(t, job)
    BY <1>2, <2>1 DEF PlaceBlueprint, Placeable, PreviewOk
  <2>3. \A k \in ResourceKeys : Salvage(job.target)[k] <= job.cost[k]
    BY <2>1, SalvageIsPaidFor
  <2> HIDE DEF job
  <2>4. QED
    BY <1>1, <2>1, <2>2, <2>3, JobOpens
<1>3. CASE tool = "erase"
  <2> DEFINE job == DemolishOverlay(t)
  <2>1. job \in Overlays /\ job.kind = "demolish" /\ job.cost = DemolishCost
        /\ job.target = ErasedTile(tile[t]) /\ job.refund = Salvage(tile[t])
    BY <1>1, FreshOverlays DEF DemolishOverlay
  <2>2. CanAfford(resources, job.cost) /\ OpenJob(t, job)
    BY <1>3, <2>1 DEF PlaceBlueprint, Placeable
  <2>3. Salvage(job.target) = Nothing
    BY <1>1, <2>1, SalvageIsPaidFor
  <2>4. \A k \in ResourceKeys : job.refund[k] <= Salvage(tile[t])[k]
    <3>1. \A k \in ResourceKeys : Salvage(tile[t])[k] \in Nat
      BY <1>1, SalvageTyped
    <3>2. QED
      BY <2>1, <3>1
  <2> HIDE DEF job
  <2>5. QED
    BY <1>1, <2>1, <2>2, <2>3, <2>4, JobOpens
<1>4. QED
  BY <1>2, <1>3

\* A job that goes, and the tile it leaves: what is paid out and what the tile
\* gives back afterwards are within the claim there was.
LEMMA JobGoes ==
  ASSUME LedgerInv, NEW t \in Tiles, overlay[t] # None,
         NEW new \in TileTypes, tile'[t] = new,
         \A u \in Tiles \ {t} : tile'[u] = tile[u],
         overlay' = [overlay EXCEPT ![t] = None],
         TypeOK', NoRouteIntoObstacle',
         \A k \in ResourceKeys :
           resources'[k] + Salvage(new)[k] <= resources[k] + Claim(t, k)
  PROVE  LedgerInv' /\ NotRicher
<1>1. TypeOK
  BY DEF LedgerInv
<1>2. overlay'[t] = None /\ \A u \in Tiles \ {t} : overlay'[u] = overlay[u]
  BY <1>1 DEF TypeOK
<1>3. ErasuresBare'
  BY <1>2 DEF LedgerInv, ErasuresBare
<1>4. NotRicher
  <2> SUFFICES ASSUME NEW k \in ResourceKeys PROVE Recoverable(k)' <= Recoverable(k)
    BY DEF NotRicher
  <2>1. ClaimShape(t, k)'
    BY ClaimShapesAfter
  <2>2. Claim(t, k)' = Salvage(new)[k]
    BY <1>2, <2>1 DEF ClaimShape
  <2>3. QED
    BY <1>1, <1>2, <2>2, OneTileChanges
<1>5. QED
  BY <1>3, <1>4 DEF LedgerInv

LEMMA CancelPays ==
  ASSUME LedgerInv, NEW t \in Tiles, CancelBlueprint(t)
  PROVE  LedgerInv' /\ NotRicher
<1>1. /\ TypeOK /\ overlay[t] # None /\ overlay[t] \in Overlays
      /\ overlay[t].cost \in [ResourceKeys -> Nat] /\ tile[t] \in TileTypes
      /\ tile' = tile /\ overlay' = [overlay EXCEPT ![t] = None]
      /\ resources' = Refund(resources, overlay[t].cost)
  BY DEF LedgerInv, TypeOK, CancelBlueprint, Overlays
<1>2. TypeOK'
  <2>1. sites' \in Seq(SiteEntries)
    BY <1>1, SpliceTyped DEF CancelBlueprint
  <2>2. resources' \in [ResourceKeys -> Nat]
    BY <1>1, SpendRefundTyped DEF TypeOK
  <2>3. cursor' = -1 /\ Len(sites') \in Nat
    BY <2>1, LenProperties DEF CancelBlueprint, Running
  <2>4. overlay' \in [Tiles -> Overlays \union {None}]
    BY <1>1 DEF TypeOK
  <2>5. QED
    BY <1>1, <2>1, <2>2, <2>3, <2>4 DEF CancelBlueprint, TypeOK
<1>3. NoRouteIntoObstacle'
  BY DEF CancelBlueprint, LedgerInv, NoRouteIntoObstacle, HasActivePath
<1>4. ASSUME NEW k \in ResourceKeys
      PROVE  resources'[k] + Salvage(tile[t])[k] <= resources[k] + Claim(t, k)
  <2>1. ClaimShape(t, k)
    BY <1>1, ClaimShapes
  <2>2. /\ Claim(t, k) \in Nat /\ Salvage(tile[t])[k] \in Nat /\ overlay[t].cost[k] \in Nat
        /\ Claim(t, k) >= overlay[t].cost[k] + Salvage(tile[t])[k]
    BY <1>1, <2>1 DEF ClaimShape, Larger
  <2>3. resources'[k] = resources[k] + overlay[t].cost[k] /\ resources[k] \in Nat
    BY <1>1 DEF Refund, TypeOK
  <2>4. QED
    BY <2>2, <2>3
<1>5. QED
  BY <1>1, <1>2, <1>3, <1>4, JobGoes

LEMMA LostOverlayPays ==
  ASSUME LedgerInv, NEW t \in Tiles, LoseOverlay(t)
  PROVE  LedgerInv' /\ NotRicher
<1>1. /\ TypeOK /\ overlay[t] # None /\ tile[t] \in TileTypes
      /\ tile' = tile /\ overlay' = [overlay EXCEPT ![t] = None]
      /\ resources' = resources
  BY DEF LedgerInv, TypeOK, LoseOverlay
<1>2. TypeOK' /\ NoRouteIntoObstacle'
  BY DEF LedgerInv, TypeOK, LoseOverlay, NoRouteIntoObstacle, HasActivePath
<1>3. ASSUME NEW k \in ResourceKeys
      PROVE  resources'[k] + Salvage(tile[t])[k] <= resources[k] + Claim(t, k)
  <2>1. ClaimShape(t, k)
    BY <1>1, ClaimShapes
  <2>2. /\ Claim(t, k) \in Nat /\ Salvage(tile[t])[k] \in Nat /\ overlay[t].cost[k] \in Nat
        /\ Claim(t, k) >= overlay[t].cost[k] + Salvage(tile[t])[k]
    BY <1>1, <2>1 DEF ClaimShape, Larger
  <2>3. resources[k] \in Nat
    BY <1>1 DEF TypeOK
  <2>4. QED
    BY <1>1, <2>2, <2>3
<1>4. QED
  BY <1>1, <1>2, <1>3, JobGoes

LEMMA CompletionPays ==
  ASSUME LedgerInv, CompleteSite
  PROVE  LedgerInv' /\ NotRicher
<1> DEFINE t == sites[cursor].at
<1>1. TypeOK /\ cursor \in 1 .. Len(sites) /\ t \in Tiles /\ overlay[t] # None /\ overlay[t] \in Overlays
  BY EntryAtCursor DEF LedgerInv, CompleteSite
<1>2. /\ overlay[t].target \in TileTypes /\ overlay[t].refund \in [ResourceKeys -> Nat]
      /\ overlay[t].kind \in {"build", "demolish"}
  BY <1>1 DEF Overlays
<1>3. /\ overlay' = [overlay EXCEPT ![t] = None] /\ sites' = RemoveAt(sites, cursor)
      /\ MutateTile(t, overlay[t].target) /\ cursor' = cursor - 1
      /\ resources' = IF overlay[t].kind = "demolish" THEN Refund(resources, overlay[t].refund) ELSE resources
      /\ alive' = alive /\ tick' = tick
  BY DEF CompleteSite
<1>4. /\ tile' \in [Tiles -> TileTypes] /\ route' \in [Agents -> Routes]
      /\ NoRouteIntoObstacle'
  BY <1>1, <1>2, <1>3, MutateTileKeepsRoutes DEF LedgerInv
<1>5. tile'[t] = overlay[t].target /\ \A u \in Tiles \ {t} : tile'[u] = tile[u]
  BY <1>1, <1>3 DEF MutateTile, TypeOK
<1>6. TypeOK'
  <2>1. sites' \in Seq(SiteEntries) /\ Len(sites') = Len(sites) - 1
    BY <1>1, <1>3, RemoveAtProperties DEF TypeOK
  <2>2. resources' \in [ResourceKeys -> Nat]
    BY <1>1, <1>2, <1>3, SpendRefundTyped DEF TypeOK
  <2>3. cursor' \in -1 .. Len(sites')
    BY <1>1, <1>3, <2>1, LenProperties
  <2>4. overlay' \in [Tiles -> Overlays \union {None}]
    BY <1>1, <1>3 DEF TypeOK
  <2>5. QED
    BY <1>1, <1>3, <1>4, <2>1, <2>2, <2>3, <2>4 DEF TypeOK
<1>7. ASSUME NEW k \in ResourceKeys
      PROVE  resources'[k] + Salvage(overlay[t].target)[k] <= resources[k] + Claim(t, k)
  <2>1. ClaimShape(t, k)
    BY <1>1, ClaimShapes
  <2>2. /\ Salvage(overlay[t].target)[k] \in Nat /\ overlay[t].refund[k] \in Nat
        /\ overlay[t].cost[k] + Salvage(tile[t])[k] \in Nat
        /\ Claim(t, k) = Larger(overlay[t].cost[k] + Salvage(tile[t])[k],
                                IF overlay[t].kind = "build"
                                THEN Salvage(overlay[t].target)[k]
                                ELSE overlay[t].refund[k])
    BY <1>1, <2>1 DEF ClaimShape
  <2>3. resources[k] \in Nat
    BY <1>1 DEF TypeOK
  <2>4. CASE overlay[t].kind = "build"
    BY <1>3, <2>2, <2>3, <2>4 DEF Larger
  <2>5. CASE overlay[t].kind = "demolish"
    <3>1. Salvage(overlay[t].target)[k] = 0
      BY <1>1, <2>5, NothingIsNothing DEF LedgerInv, ErasuresBare
    <3>2. resources'[k] = resources[k] + overlay[t].refund[k]
      BY <1>3, <2>5 DEF Refund
    <3>3. QED
      BY <2>2, <2>3, <2>5, <3>1, <3>2 DEF Larger
  <2>6. QED
    BY <1>2, <2>4, <2>5
<1> HIDE DEF t
<1>8. QED
  BY <1>1, <1>2, <1>3, <1>4, <1>5, <1>6, <1>7, JobGoes

\* A raid takes what stands on the tile; the job on it stays as it is.
LEMMA RaidPays ==
  ASSUME LedgerInv, NEW t \in Tiles, RaidImpact(t)
  PROVE  LedgerInv' /\ NotRicher
<1>1. TypeOK /\ "RUINS" \in TileTypes /\ MutateTile(t, "RUINS") /\ alive' = alive
  BY DEF LedgerInv, TileTypes, RaidImpact
<1>2. /\ tile' \in [Tiles -> TileTypes] /\ route' \in [Agents -> Routes]
      /\ NoRouteIntoObstacle'
  BY <1>1, MutateTileKeepsRoutes DEF LedgerInv
<1>3. TypeOK' /\ overlay' = overlay /\ resources' = resources
  BY <1>1, <1>2 DEF TypeOK, RaidImpact
<1>4. tile'[t] = "RUINS" /\ \A u \in Tiles \ {t} : tile'[u] = tile[u]
  BY <1>1 DEF MutateTile, TypeOK
<1>5. ErasuresBare'
  BY <1>3 DEF LedgerInv, ErasuresBare
<1>6. NotRicher
  <2> SUFFICES ASSUME NEW k \in ResourceKeys PROVE Recoverable(k)' <= Recoverable(k)
    BY DEF NotRicher
  <2>1. ClaimShape(t, k) /\ ClaimShape(t, k)'
    BY <1>1, <1>3, ClaimShapes, ClaimShapesAfter
  <2>2. Salvage("RUINS")[k] = 0
    BY SalvageIsPaidFor, NothingIsNothing
  <2>3. Claim(t, k)' <= Claim(t, k)
    <3>1. CASE overlay[t] = None
      BY <1>3, <1>4, <2>1, <2>2, <3>1 DEF ClaimShape
    <3>2. CASE overlay[t] # None
      <4> DEFINE other == IF overlay[t].kind = "build" THEN Salvage(overlay[t].target)[k]
                                                       ELSE overlay[t].refund[k]
      <4>1. /\ Claim(t, k) = Larger(overlay[t].cost[k] + Salvage(tile[t])[k], other)
            /\ overlay[t].cost[k] \in Nat /\ Salvage(tile[t])[k] \in Nat /\ other \in Nat
        BY <2>1, <3>2 DEF ClaimShape
      <4>2. Claim(t, k)' = Larger(overlay[t].cost[k] + 0, other)
        BY <1>3, <1>4, <2>1, <2>2, <3>2 DEF ClaimShape
      <4> HIDE DEF other
      <4>3. QED
        BY <4>1, <4>2 DEF Larger
    <3>3. QED
      BY <3>1, <3>2
  <2>4. resources[k] \in Nat /\ Claim(t, k) \in Nat /\ Claim(t, k)' \in Nat
    BY <1>1, <2>1 DEF TypeOK, ClaimShape
  <2>5. QED
    BY <1>1, <1>3, <1>4, <2>3, <2>4, OneTileChanges
<1>7. QED
  BY <1>2, <1>3, <1>5, <1>6 DEF LedgerInv

LEMMA SetBuilderPays ==
  ASSUME LedgerInv, NEW i \in DOMAIN sites, NEW b \in Workers \union {None},
         SetBuilder(i, b), ~Running
  PROVE  LedgerInv' /\ NotRicher
<1> DEFINE t     == sites[i].at
           job   == [overlay[t] EXCEPT !.builder = b]
           entry == [sites[i] EXCEPT !.builder = b]
<1>1. /\ TypeOK /\ sites \in Seq(SiteEntries) /\ sites[i] \in SiteEntries /\ t \in Tiles
      /\ Len(sites) \in Nat /\ i \in 1 .. Len(sites)
  <2>1. TypeOK /\ sites \in Seq(SiteEntries) /\ Len(sites) \in Nat /\ i \in 1 .. Len(sites)
    BY LenProperties DEF LedgerInv, TypeOK
  <2>2. sites[i] \in SiteEntries
    BY <2>1, ElementOfSeq
  <2>3. QED
    BY <2>1, <2>2 DEF SiteEntries
<1>2. entry \in SiteEntries
  BY <1>1 DEF SiteEntries
<1>3. /\ sites' = [sites EXCEPT ![i] = entry] /\ cursor' = -1
      /\ UNCHANGED <<tile, resources, alive, route, tick>>
  BY DEF SetBuilder, Running
<1> HIDE DEF entry
<1>4. sites' \in Seq(SiteEntries) /\ Len(sites') \in Nat
  BY <1>1, <1>2, <1>3, ExceptSeq, LenProperties
<1>5. CASE overlay[t] = None
  <2>1. overlay' = overlay
    BY <1>5 DEF SetBuilder
  <2>2. LedgerInv'
    BY <1>3, <1>4, <2>1 DEF LedgerInv, TypeOK, NoRouteIntoObstacle, HasActivePath, ErasuresBare
  <2>3. QED
    BY <1>1, <1>3, <2>1, <2>2, NothingPaid
<1>6. CASE overlay[t] # None
  <2>1. overlay[t] \in Overlays
    BY <1>1, <1>6 DEF TypeOK
  <2>2. job \in Overlays /\ job.kind = overlay[t].kind /\ job.target = overlay[t].target
        /\ job.cost = overlay[t].cost /\ job.refund = overlay[t].refund
    BY <2>1 DEF Overlays
  <2>3. overlay' = [overlay EXCEPT ![t] = job]
    BY <1>6 DEF SetBuilder
  <2>4. cursor' \in -1 .. Len(sites')
    BY <1>3, <1>4
  <2> HIDE DEF job, t
  <2>5. QED
    BY <1>1, <1>3, <1>4, <1>6, <2>2, <2>3, <2>4, JobMoves
<1>7. QED
  BY <1>5, <1>6

LEMMA ApplyWorkPays ==
  ASSUME LedgerInv, NEW w \in Workers, NEW d \in WorkSteps, ApplyWork(w, d)
  PROVE  LedgerInv' /\ NotRicher
<1>1. PICK t \in Tiles :
        /\ overlay[t] # None
        /\ overlay' = [overlay EXCEPT ![t].applied = @ + d]
        /\ sites' = IF SiteIndex(t) = {}
                    THEN sites
                    ELSE [sites EXCEPT ![FirstSite(t)].applied =
                                         overlay[t].applied + d]
  BY DEF ApplyWork
<1> DEFINE i     == FirstSite(t)
           done  == overlay[t].applied + d
           job   == [overlay[t] EXCEPT !.applied = done]
           entry == [sites[i] EXCEPT !.applied = done]
<1>2. TypeOK /\ overlay[t] \in Overlays /\ cursor' = -1
      /\ UNCHANGED <<tile, resources, alive, route, tick>>
  BY <1>1 DEF LedgerInv, TypeOK, ApplyWork, Running
<1>3. done \in Nat
  <2>1. d \in Nat /\ overlay[t].applied \in Nat
    BY <1>2, ConstantsAssumption DEF Overlays
  <2>2. QED
    BY <2>1
<1>4. overlay' = [overlay EXCEPT ![t] = job]
  BY <1>1
<1>5. SiteIndex(t) # {} => sites' = [sites EXCEPT ![i] = entry]
  BY <1>1
<1> HIDE DEF done
<1>6. job \in Overlays /\ job.kind = overlay[t].kind /\ job.target = overlay[t].target
      /\ job.cost = overlay[t].cost /\ job.refund = overlay[t].refund
  BY <1>2, <1>3 DEF Overlays
<1>7. sites' \in Seq(SiteEntries)
  <2>1. CASE SiteIndex(t) = {}
    BY <1>1, <1>2, <2>1 DEF TypeOK
  <2>2. CASE SiteIndex(t) # {}
    <3>1. i \in 1 .. Len(sites) /\ sites \in Seq(SiteEntries)
      BY <1>2, <2>2, FirstSiteExists, LenProperties DEF TypeOK, SiteIndex
    <3>2. sites[i] \in SiteEntries
      BY <3>1, ElementOfSeq
    <3>3. entry \in SiteEntries
      BY <1>3, <3>2 DEF SiteEntries
    <3> HIDE DEF entry, i
    <3>4. QED
      BY <1>5, <2>2, <3>1, <3>3, ExceptSeq
  <2>3. QED
    BY <2>1, <2>2
<1>8. cursor' \in -1 .. Len(sites')
  BY <1>2, <1>7, LenProperties
<1> HIDE DEF job
<1>9. QED
  BY <1>1, <1>2, <1>4, <1>6, <1>7, <1>8, JobMoves

LEMMA SyncPays ==
  ASSUME LedgerInv, SyncSite
  PROVE  LedgerInv' /\ NotRicher
<1> DEFINE t     == sites[cursor].at
           b     == IF overlay[t].builder \in alive
                    THEN overlay[t].builder ELSE None
           job   == [overlay[t] EXCEPT !.builder = b]
           entry == [at |-> t, builder |-> b, applied |-> overlay[t].applied]
<1>1. TypeOK /\ cursor \in 1 .. Len(sites) /\ t \in Tiles /\ overlay[t] # None /\ overlay[t] \in Overlays
  BY EntryAtCursor DEF LedgerInv, SyncSite
<1>2. b \in Workers \union {None}
  BY <1>1 DEF TypeOK
<1>3. /\ overlay' = [overlay EXCEPT ![t] = job] /\ sites' = [sites EXCEPT ![cursor] = entry]
      /\ cursor' = cursor - 1 /\ UNCHANGED <<tile, resources, alive, route, tick>>
  BY DEF SyncSite
<1> HIDE DEF b
<1>4. job \in Overlays /\ job.kind = overlay[t].kind /\ job.target = overlay[t].target
      /\ job.cost = overlay[t].cost /\ job.refund = overlay[t].refund
  BY <1>1, <1>2 DEF Overlays
<1>5. entry \in SiteEntries
  BY <1>1, <1>2 DEF SiteEntries, Overlays
<1> HIDE DEF job, entry
<1>6. sites' \in Seq(SiteEntries) /\ Len(sites') = Len(sites)
  BY <1>1, <1>3, <1>5, ExceptSeq DEF TypeOK
<1>7. cursor' \in -1 .. Len(sites')
  BY <1>1, <1>3, <1>6, LenProperties
<1> HIDE DEF t
<1>8. QED
  BY <1>1, <1>3, <1>4, <1>6, <1>7, JobMoves

\* The steps that touch neither the map, nor the overlays, nor the stock.
LEMMA OthersPayNothing ==
  ASSUME LedgerInv, UNCHANGED <<tile, overlay, resources>>,
         sites' \in Seq(SiteEntries), cursor' \in -1 .. Len(sites'),
         tick' \in 0 .. RebuildPeriod - 1, alive' \subseteq alive,
         route' \in [Agents -> Routes],
         UNCHANGED route \/ NoRouteIntoObstacle'
  PROVE  LedgerInv' /\ NotRicher
<1>1. TypeOK'
  BY DEF LedgerInv, TypeOK
<1>2. NoRouteIntoObstacle' /\ ErasuresBare'
  BY DEF LedgerInv, NoRouteIntoObstacle, HasActivePath, ErasuresBare
<1>3. NotRicher
  BY NothingPaid DEF LedgerInv
<1>4. QED
  BY <1>1, <1>2, <1>3 DEF LedgerInv

LEMMA UpdatePays ==
  ASSUME LedgerInv, Update
  PROVE  LedgerInv' /\ NotRicher
<1>0. /\ TypeOK /\ sites \in Seq(SiteEntries) /\ Len(sites) \in Nat /\ tick \in 0 .. RebuildPeriod - 1
      /\ route \in [Agents -> Routes]
  BY LenProperties DEF LedgerInv, TypeOK
<1>1. CASE BeginUpdate
  <2>1. tick' \in 0 .. RebuildPeriod - 1
    BY <1>0, <1>1, ConstantsAssumption DEF BeginUpdate, BeginAt
  <2>2. cursor' \in -1 .. Len(sites)
    BY <1>0, <1>1 DEF BeginUpdate, BeginAt
  <2>3. QED
    BY <1>0, <1>1, <2>1, <2>2, OthersPayNothing DEF BeginUpdate, BeginAt
<1>2. CASE DropSite
  <2>1. cursor \in 1 .. Len(sites)
    BY <1>0, <1>2, EntryAtCursor DEF DropSite
  <2>2. sites' \in Seq(SiteEntries) /\ Len(sites') = Len(sites) - 1
    BY <1>0, <1>2, <2>1, RemoveAtProperties DEF DropSite
  <2>3. cursor' \in -1 .. Len(sites')
    BY <1>0, <1>2, <2>1, <2>2 DEF DropSite
  <2>4. QED
    BY <1>0, <1>2, <2>2, <2>3, OthersPayNothing DEF DropSite
<1>3. CASE SyncSite
  BY <1>3, SyncPays
<1>4. CASE CompleteSite
  BY <1>4, CompletionPays
<1>5. CASE EndUpdate
  <2>1. sites' \in Seq(SiteEntries)
    BY <1>0, <1>5, RebuiltTyped DEF EndUpdate
  <2>2. cursor' \in -1 .. Len(sites')
    BY <1>5, <2>1, LenProperties DEF EndUpdate
  <2>3. QED
    BY <1>0, <1>5, <2>1, <2>2, OthersPayNothing DEF EndUpdate
<1>6. QED
  BY <1>1, <1>2, <1>3, <1>4, <1>5 DEF Update

LEMMA DriftPays == LedgerInv /\ [DriftNext]_vars => LedgerInv' /\ NotRicher
<1> SUFFICES ASSUME LedgerInv, [DriftNext]_vars PROVE LedgerInv' /\ NotRicher
  OBVIOUS
<1>0. /\ TypeOK /\ sites \in Seq(SiteEntries) /\ Len(sites) \in Nat /\ cursor \in -1 .. Len(sites)
      /\ tick \in 0 .. RebuildPeriod - 1 /\ route \in [Agents -> Routes] /\ alive \subseteq Workers
  BY LenProperties DEF LedgerInv, TypeOK
<1>1. ASSUME NEW tool \in UsedTools, NEW t \in Tiles, PlaceBlueprint(tool, t)
      PROVE  LedgerInv' /\ NotRicher
  BY <1>1, PlaceBlueprintPays
<1>2. ASSUME NEW t \in Tiles, CancelBlueprint(t)
      PROVE  LedgerInv' /\ NotRicher
  BY <1>2, CancelPays
<1>3. ASSUME NEW w \in Workers, ReserveSite(w) \/ ReleaseSite(w)
      PROVE  LedgerInv' /\ NotRicher
  <2>1. PICK i \in DOMAIN sites : SetBuilder(i, w) \/ SetBuilder(i, None)
    BY <1>3 DEF ReserveSite, ReleaseSite
  <2>2. ~Running
    BY <1>3 DEF ReserveSite, ReleaseSite
  <2>3. QED
    BY <2>1, <2>2, SetBuilderPays
<1>4. ASSUME NEW w \in Workers, NEW d \in WorkSteps, ApplyWork(w, d)
      PROVE  LedgerInv' /\ NotRicher
  BY <1>4, ApplyWorkPays
<1>5. ASSUME NEW w \in Workers, Death(w)
      PROVE  LedgerInv' /\ NotRicher
  BY <1>0, <1>5, OthersPayNothing DEF Death
<1>6. ASSUME NEW t \in Tiles, RaidImpact(t)
      PROVE  LedgerInv' /\ NotRicher
  BY <1>6, RaidPays
<1>7. CASE Routing
  <2>1. /\ route' \in [Agents -> Routes]
        /\ NoRouteIntoObstacle'
        /\ UNCHANGED <<tile, overlay, sites, resources, alive, cursor, tick>>
    BY <1>7, RoutingKeepsRoutes DEF LedgerInv
  <2>2. QED
    BY <1>0, <2>1, OthersPayNothing
<1>8. CASE Update
  BY <1>8, UpdatePays
<1>9. ASSUME NEW t \in Tiles, LoseOverlay(t)
      PROVE  LedgerInv' /\ NotRicher
  BY <1>9, LostOverlayPays
<1>10. ASSUME NEW t \in Tiles, LoseSite(t)
       PROVE  LedgerInv' /\ NotRicher
  <2>1. sites' \in Seq(SiteEntries)
    BY <1>0, <1>10, SpliceTyped DEF LoseSite
  <2>2. cursor' \in -1 .. Len(sites')
    BY <1>10, <2>1, LenProperties DEF LoseSite, Running
  <2>3. QED
    BY <1>0, <1>10, <2>1, <2>2, OthersPayNothing DEF LoseSite
<1>11. CASE UNCHANGED vars
  BY <1>0, <1>11, OthersPayNothing DEF vars
<1>12. QED
  BY <1>1, <1>2, <1>3, <1>4, <1>5, <1>6, <1>7, <1>8, <1>9, <1>10, <1>11
     DEF DriftNext, BlueprintNext

LEMMA LedgerStarts == Init => LedgerInv
<1> SUFFICES ASSUME Init PROVE LedgerInv
  OBVIOUS
<1>1. TypeOK /\ NoRouteIntoObstacle
  BY InitEstablishesInvariant DEF IInv
<1>2. ErasuresBare
  BY DEF Init, ErasuresBare
<1>3. QED
  BY <1>1, <1>2 DEF LedgerInv

LEMMA LedgerHolds == DriftSpec => []LedgerInv
<1>1. LedgerInv /\ [DriftNext]_vars => LedgerInv'
  BY DriftPays
<1>2. QED
  BY <1>1, LedgerStarts, PTL DEF DriftSpec

\* Planning, cancelling, completing, demolishing and raids, in any order and
\* with entries and overlays lost meanwhile, never leave the colony with more
\* than it had (BuildSystem's charges and refunds, CompleteSite's salvage).
THEOREM NothingIsFree == DriftSpec => NoFreeResources
<1>1. LedgerInv /\ [DriftNext]_vars => [NotRicher]_vars
  BY DriftPays
<1>2. DriftSpec => [][NotRicher]_vars
  BY <1>1, LedgerHolds, PTL DEF DriftSpec
<1>3. QED
  BY <1>2 DEF NoFreeResources, NotRicher

\* Routes stay clear of walls and water when entries and overlays get lost.
THEOREM RoutesStayClearUnderDrift == DriftSpec => []NoRouteIntoObstacle
<1>1. LedgerInv => NoRouteIntoObstacle
  BY DEF LedgerInv
<1>2. QED
  BY <1>1, LedgerHolds, PTL

-----------------------------------------------------------------------------
(***************************************************************************)
(* Plans.  A step that another one waits for stands, or will, as long as   *)
(* the other is pending: who else uses its tile waits too, and is not      *)
(* ready.                                                                  *)
(***************************************************************************)

\* The steps of the plan are steps, and the loop is inside the plan.
PlanTyped ==
  /\ plan = << >> \/ plan \in Plans
  /\ status \in [Ids(plan) -> {"pending", "submitted", "complete", "failed"}]
  /\ next \in 0 .. Len(plan)

Wet(type) == type \in {"WATER", "BRIDGE"}

\* No tool turns water into land: a tile that was water is water or a bridge,
\* and becomes one of them when its job completes.
GroundKept ==
  \A t \in Tiles :
    /\ Wet(tile[t]) <=> Wet(InitTile[t])
    /\ overlay[t] # None => (Wet(overlay[t].target) <=> Wet(InitTile[t]))

DependenciesDone(s) ==
  \A d \in s.depends_on : d \in DOMAIN status /\ status[d] = "complete"

Taken(s) == status[s.id] \in {"submitted", "complete"}

\* A step was submitted when what it depends on was complete, for good.
OrderKept == \A i \in DOMAIN plan : Taken(plan[i]) => DependenciesDone(plan[i])

\* The tile of a step is what the step makes of it, or its job will make it so.
Stands(s) ==
  IF overlay[s.at] = None THEN tile[s.at] = Result(s)
  ELSE status[s.id] # "complete" /\ overlay[s.at].target = Result(s)

\* j is what i waits for, and no other step comes in between.
Awaits(i, j) ==
  /\ status[plan[i].id] = "pending"
  /\ plan[j].id \in plan[i].depends_on
  /\ Undisturbed(plan, i, j)

AwaitedStands ==
  \A i, j \in DOMAIN plan : Awaits(i, j) /\ Taken(plan[j]) => Stands(plan[j])

PInv == IInv /\ PlanTyped /\ GroundKept /\ OrderKept /\ AwaitedStands

LEMMA PlanSteps ==
  ASSUME PlanTyped
  PROVE  /\ Len(plan) \in Nat
         /\ DOMAIN plan = 1 .. Len(plan)
         /\ \A i \in DOMAIN plan :
              plan[i].tool \in Tools /\ plan[i].at \in Tiles /\ plan[i].id \in DOMAIN status
         /\ \A i, j \in DOMAIN plan : plan[i].id = plan[j].id => i = j
<1>1. CASE plan = << >>
  BY <1>1
<1>2. CASE plan \in Plans
  <2>1. plan \in Seq({plan[i] : i \in DOMAIN plan})
    BY <1>2, PlansAssumption
  <2>2. Len(plan) \in Nat /\ DOMAIN plan = 1 .. Len(plan)
    BY <2>1, LenProperties
  <2>3. \A i \in DOMAIN plan : plan[i].tool \in Tools /\ plan[i].at \in Tiles
    BY <1>2, PlansAssumption
  <2>4. \A i, j \in DOMAIN plan : plan[i].id = plan[j].id => i = j
    BY <1>2, PlansAssumption
  <2>5. \A i \in DOMAIN plan : plan[i].id \in DOMAIN status
    BY DEF PlanTyped, Ids
  <2>6. QED
    BY <2>2, <2>3, <2>4, <2>5
<1>3. QED
  BY <1>1, <1>2 DEF PlanTyped

\* Who waits for a pending step is neither taken nor ready.
LEMMA WaitersAreNotReady ==
  ASSUME PlanTyped, OrderKept,
         NEW i \in DOMAIN plan, NEW k \in DOMAIN plan, k # i,
         status[plan[i].id] = "pending",
         WaitsFor(plan, k, i)
  PROVE  ~Taken(plan[k]) /\ ~Ready(plan[k])
<1> DEFINE Held(id) == \A m \in DOMAIN plan : plan[m].id = id =>
                         ~Taken(plan[m]) /\ ~DependenciesDone(plan[m])
           S == {id \in Ids(plan) : id = plan[i].id \/ Held(id)}
<1>1. S \in SUBSET Ids(plan) /\ plan[i].id \in S
  BY DEF Ids
<1>2. ASSUME NEW m \in DOMAIN plan, plan[m].depends_on \intersect S # {}
      PROVE  plan[m].id \in S
  <2>1. PICK d \in plan[m].depends_on : d \in S
    BY <1>2
  <2>2. status[d] # "complete"
    <3>1. CASE d = plan[i].id
      BY <3>1
    <3>2. CASE Held(d)
      <4>1. PICK n \in DOMAIN plan : plan[n].id = d
        BY <2>1 DEF Ids
      <4>2. QED
        BY <3>2, <4>1 DEF Taken
    <3>3. QED
      BY <2>1, <3>1, <3>2
  <2>3. ~DependenciesDone(plan[m])
    BY <2>1, <2>2 DEF DependenciesDone
  <2>4. ~Taken(plan[m])
    BY <2>3 DEF OrderKept
  <2>5. Held(plan[m].id)
    BY <2>3, <2>4, PlanSteps
  <2>6. QED
    BY <2>5 DEF Ids
<1> HIDE DEF S
<1>3. plan[k].id \in S
  BY <1>1, <1>2 DEF WaitsFor
<1>4. plan[k].id # plan[i].id
  BY PlanSteps
<1>5. Held(plan[k].id)
  BY <1>3, <1>4 DEF S
<1>6. QED
  BY <1>5 DEF Ready, DependenciesDone

\* A step that is ready or taken works on no tile that is waited for.
LEMMA OthersElsewhere ==
  ASSUME PlanTyped, OrderKept,
         NEW i \in DOMAIN plan, NEW j \in DOMAIN plan, NEW k \in DOMAIN plan,
         Awaits(i, j), k # i, k # j, Ready(plan[k])
  PROVE  plan[k].at # plan[j].at
BY WaitersAreNotReady DEF Awaits, Undisturbed

-----------------------------------------------------------------------------
(* What steps do to the jobs *)

\* Builders change no map and no target, and open and close nothing.
SameJobs ==
  /\ tile' = tile
  /\ \A t \in Tiles :
       /\ overlay'[t] = None <=> overlay[t] = None
       /\ overlay[t] # None => overlay'[t].target = overlay[t].target

\* Only the job of tile t is touched.
OnlyAt(t) ==
  \A u \in Tiles \ {t} : tile'[u] = tile[u] /\ overlay'[u] = overlay[u]

LEMMA SetBuilderSame ==
  ASSUME IInv, NEW i \in DOMAIN sites, NEW b \in Workers \union {None}, SetBuilder(i, b)
  PROVE  SameJobs
<1>1. sites[i] \in SiteEntries
  BY LenProperties, ElementOfSeq DEF IInv, TypeOK
<1>2. /\ sites[i].at \in Tiles
      /\ overlay[sites[i].at] \in Overlays /\ overlay[sites[i].at] # None
  BY <1>1 DEF IInv, TypeOK, MirrorExact, Mirror, SiteEntries
<1> DEFINE t == sites[i].at
           job == [overlay[t] EXCEPT !.builder = b]
<1>3. job \in Overlays /\ job.target = overlay[t].target
  BY <1>2 DEF Overlays
<1>4. job # None
  BY <1>3, ConstantsAssumption
<1>5. overlay' = [overlay EXCEPT ![t] = job]
  BY <1>2 DEF SetBuilder
<1> HIDE DEF job, t
<1>6. QED
  BY <1>2, <1>3, <1>4, <1>5 DEF SetBuilder, SameJobs, IInv, TypeOK, t

LEMMA ApplyWorkSame ==
  ASSUME IInv, NEW w \in Workers, NEW d \in WorkSteps, ApplyWork(w, d)
  PROVE  SameJobs
<1>1. PICK t \in Tiles :
        /\ overlay[t] # None
        /\ overlay' = [overlay EXCEPT ![t].applied = @ + d]
  BY DEF ApplyWork
<1> DEFINE job == [overlay[t] EXCEPT !.applied = @ + d]
<1>2. overlay[t] \in Overlays /\ d \in Nat
  BY <1>1, ConstantsAssumption DEF IInv, TypeOK
<1>3. job \in Overlays /\ job.target = overlay[t].target
  BY <1>2 DEF Overlays
<1>4. job # None
  BY <1>3, ConstantsAssumption
<1>5. overlay' = [overlay EXCEPT ![t] = job]
  BY <1>1
<1> HIDE DEF job
<1>6. QED
  BY <1>1, <1>3, <1>4, <1>5 DEF ApplyWork, SameJobs, IInv, TypeOK

LEMMA SyncSiteSame ==
  ASSUME IInv, SyncSite
  PROVE  SameJobs
<1> DEFINE t == sites[cursor].at
           b == IF overlay[t].builder \in alive THEN overlay[t].builder ELSE None
           job == [overlay[t] EXCEPT !.builder = b]
<1>1. t \in Tiles /\ overlay[t] \in Overlays /\ overlay[t] # None
  BY EntryUnderCursor DEF SyncSite
<1>2. b \in Workers \union {None}
  BY DEF IInv, TypeOK
<1>3. job \in Overlays /\ job.target = overlay[t].target
  BY <1>1, <1>2 DEF Overlays
<1>4. job # None
  BY <1>3, ConstantsAssumption
<1>5. overlay' = [overlay EXCEPT ![t] = job] /\ tile' = tile
  BY <1>1 DEF SyncSite
<1> HIDE DEF job, t
<1>6. QED
  BY <1>1, <1>3, <1>4, <1>5 DEF SameJobs, IInv, TypeOK


\* A tool that may be used on a tile makes of it what its step is to make.
LEMMA TargetIsResult ==
  ASSUME TypeOK, GroundKept, NEW s,
         s.tool \in Tools, s.at \in Tiles, Placeable(s.tool, s.at)
  PROVE  LET target == IF s.tool = "erase" THEN ErasedTile(tile[s.at])
                       ELSE ToolToTile[s.tool]
         IN  /\ target = Result(s)
             /\ Wet(target) <=> Wet(InitTile[s.at])
<1> DEFINE old == tile[s.at]
<1>1. /\ old \in TileTypes
      /\ Wet(old) <=> Wet(InitTile[s.at])
  BY DEF TypeOK, GroundKept
<1>2. CASE s.tool = "erase"
  <2>1. old \in BuiltStructureTiles \union {"RUINS"}
    BY <1>2 DEF Placeable
  <2>2. Wet(old) <=> old = "BRIDGE"
    BY <2>1 DEF Wet, BuiltStructureTiles
  <2>3. Wet(InitTile[s.at]) <=> InitTile[s.at] \in {"WATER", "BRIDGE"}
    BY DEF Wet
  <2>4. Wet("WATER") /\ ~Wet("GRASS")
    BY DEF Wet
  <2>5. QED
    BY <1>1, <1>2, <2>2, <2>3, <2>4 DEF ErasedTile, Result
<1>3. CASE s.tool # "erase"
  <2>1. old \in AllowedOldTiles(s.tool) /\ s.tool \in BuildTools
    BY <1>3 DEF Placeable, PreviewOk, Tools
  <2>2. Wet(old) <=> s.tool = "bridge"
    BY <2>1 DEF Wet, AllowedOldTiles
  <2>3. Wet(ToolToTile[s.tool]) <=> s.tool = "bridge"
    BY <2>1 DEF Wet, ToolToTile, BuildTools
  <2>4. QED
    BY <1>1, <1>3, <2>2, <2>3 DEF Result
<1>4. QED
  BY <1>2, <1>3

LEMMA SubmitOpens ==
  ASSUME PInv, NEW s, s.tool \in Tools, s.at \in Tiles, PlaceBlueprint(s.tool, s.at)
  PROVE  /\ tile' = tile
         /\ OnlyAt(s.at)
         /\ overlay'[s.at] # None
         /\ overlay'[s.at].target = Result(s)
         /\ Wet(Result(s)) <=> Wet(InitTile[s.at])
<1> DEFINE job == IF s.tool = "erase" THEN DemolishOverlay(s.at)
                  ELSE BuildOverlay(s.tool, s.at)
<1>1. TypeOK /\ GroundKept /\ Placeable(s.tool, s.at)
  BY DEF PInv, IInv, PlaceBlueprint
<1>2. job \in Overlays
  BY <1>1, FreshOverlays
<1>3. job # None
  BY <1>2, ConstantsAssumption
<1>4. job.target = IF s.tool = "erase" THEN ErasedTile(tile[s.at]) ELSE ToolToTile[s.tool]
  BY DEF DemolishOverlay, BuildOverlay
<1>5. job.target = Result(s) /\ (Wet(job.target) <=> Wet(InitTile[s.at]))
  BY <1>1, <1>4, TargetIsResult
<1>6. tile' = tile /\ overlay' = [overlay EXCEPT ![s.at] = job]
  BY DEF PlaceBlueprint, OpenJob
<1> HIDE DEF job
<1>7. QED
  BY <1>1, <1>3, <1>5, <1>6 DEF TypeOK, OnlyAt

\* A completed job leaves what it was to make.
LEMMA CompletionBuilds ==
  ASSUME IInv, CompleteSite
  PROVE  \E t \in Tiles :
           /\ OnlyAt(t)
           /\ overlay[t] # None /\ overlay'[t] = None
           /\ tile'[t] = overlay[t].target
<1> DEFINE t == sites[cursor].at
<1>1. t \in Tiles /\ overlay[t] # None
  BY EntryUnderCursor DEF CompleteSite
<1>2. /\ overlay' = [overlay EXCEPT ![t] = None]
      /\ tile' = [tile EXCEPT ![t] = overlay[t].target]
  BY <1>1 DEF CompleteSite, MutateTile
<1> HIDE DEF t
<1>3. QED
  BY <1>1, <1>2 DEF OnlyAt, IInv, TypeOK

\* An update touches the jobs when it completes one, and only then.
LEMMA UpdateJobs ==
  ASSUME IInv, Update
  PROVE  SameJobs \/ CompleteSite
<1>1. CASE SyncSite
  BY <1>1, SyncSiteSame
<1>2. CASE BeginUpdate \/ DropSite \/ EndUpdate
  BY <1>2 DEF BeginUpdate, BeginAt, DropSite, EndUpdate, SameJobs
<1>3. QED
  BY <1>1, <1>2 DEF Update

-----------------------------------------------------------------------------
(* Steps keep the invariant *)

\* The part of the invariant that is about the plan.
PlanKept == PlanTyped /\ GroundKept /\ OrderKept /\ AwaitedStands

LEMMA SameJobsKeep ==
  ASSUME PlanKept, SameJobs, UNCHANGED <<plan, status>>, next' \in 0 .. Len(plan)
  PROVE  PlanKept'
<1>1. PlanTyped /\ GroundKept /\ OrderKept /\ AwaitedStands
  BY DEF PlanKept
<1>2. PlanTyped' /\ OrderKept'
  BY <1>1 DEF PlanTyped, OrderKept, Taken, DependenciesDone, Ids
<1>3. GroundKept'
  BY <1>1 DEF GroundKept, SameJobs
<1>4. ASSUME NEW i \in DOMAIN plan, NEW j \in DOMAIN plan, Awaits(i, j)', Taken(plan[j])'
      PROVE  Stands(plan[j])'
  <2>1. Awaits(i, j) /\ Taken(plan[j])
    BY <1>4 DEF Awaits, Taken, Undisturbed, WaitsFor, Ids
  <2>2. Stands(plan[j]) /\ plan[j].at \in Tiles
    BY <1>1, <2>1, PlanSteps DEF AwaitedStands
  <2>3. QED
    BY <2>2 DEF Stands, SameJobs, Result
<1>5. AwaitedStands'
  BY <1>4 DEF AwaitedStands
<1>6. QED
  BY <1>2, <1>3, <1>5 DEF PlanKept

LEMMA CompletionKeeps ==
  ASSUME IInv, PlanKept, CompleteSite, UNCHANGED planVars
  PROVE  PlanKept'
<1>1. PlanTyped /\ GroundKept /\ OrderKept /\ AwaitedStands
  BY DEF PlanKept
<1>2. PICK t \in Tiles :
        /\ OnlyAt(t)
        /\ overlay[t] # None /\ overlay'[t] = None
        /\ tile'[t] = overlay[t].target
  BY CompletionBuilds
<1>3. PlanTyped' /\ OrderKept'
  BY <1>1 DEF PlanTyped, OrderKept, Taken, DependenciesDone, Ids, planVars
<1>4. GroundKept'
  BY <1>1, <1>2 DEF GroundKept, OnlyAt
<1>5. ASSUME NEW i \in DOMAIN plan, NEW j \in DOMAIN plan, Awaits(i, j)', Taken(plan[j])'
      PROVE  Stands(plan[j])'
  <2>1. Awaits(i, j) /\ Taken(plan[j])
    BY <1>5 DEF Awaits, Taken, Undisturbed, WaitsFor, Ids, planVars
  <2>2. Stands(plan[j]) /\ plan[j].at \in Tiles
    BY <1>1, <2>1, PlanSteps DEF AwaitedStands
  <2>3. QED
    BY <1>2, <2>2 DEF Stands, OnlyAt, Result, planVars
<1>6. AwaitedStands'
  BY <1>5 DEF AwaitedStands, planVars
<1>7. QED
  BY <1>3, <1>4, <1>6 DEF PlanKept

LEMMA BeginKeeps ==
  ASSUME IInv, PlanKept, BeginPlan
  PROVE  PlanKept'
<1>1. PlanTyped /\ GroundKept /\ OrderKept /\ AwaitedStands
  BY DEF PlanKept
<1>2. tile' = tile /\ overlay' = overlay /\ plan' = plan /\ status' = Refreshed
  BY DEF BeginPlan, vars
<1>3. /\ DOMAIN status' = DOMAIN status
      /\ \A id \in DOMAIN status :
           \/ status'[id] = status[id]
           \/ /\ status[id] = "submitted" /\ status'[id] = "complete"
              /\ \E k \in DOMAIN plan : plan[k].id = id /\ SiteIndex(plan[k].at) = {}
  BY <1>2 DEF Refreshed
<1>4. PlanTyped'
  <2>1. status' \in [Ids(plan) -> {"pending", "submitted", "complete", "failed"}]
    BY <1>1, <1>2 DEF PlanTyped, Refreshed
  <2>2. next' = 1 /\ plan # << >>
    BY DEF BeginPlan
  <2>3. Len(plan) \in Nat /\ DOMAIN plan = 1 .. Len(plan)
    BY <1>1, PlanSteps
  <2>4. Len(plan) # 0
    <3>1. plan \in Seq({plan[i] : i \in DOMAIN plan})
      BY <1>1, <2>2, PlansAssumption DEF PlanTyped
    <3>2. QED
      BY <2>2, <3>1, EmptySeq
  <2>5. QED
    BY <1>1, <1>2, <2>1, <2>2, <2>3, <2>4 DEF PlanTyped, Ids
<1>5. GroundKept'
  BY <1>1, <1>2 DEF GroundKept
<1>6. ASSUME NEW k \in DOMAIN plan, Taken(plan[k])'
      PROVE  Taken(plan[k])
  BY <1>1, <1>2, <1>3, <1>6, PlanSteps DEF Taken
<1>7. OrderKept'
  <2>1. ASSUME NEW k \in DOMAIN plan, Taken(plan[k])'
        PROVE  DependenciesDone(plan[k])'
    <3>1. DependenciesDone(plan[k])
      BY <1>1, <1>6, <2>1 DEF OrderKept
    <3>2. QED
      BY <1>2, <1>3, <3>1 DEF DependenciesDone
  <2>2. QED
    BY <1>2, <2>1 DEF OrderKept
<1>8. ASSUME NEW i \in DOMAIN plan, NEW j \in DOMAIN plan, Awaits(i, j)', Taken(plan[j])'
      PROVE  Stands(plan[j])'
  <2>1. Awaits(i, j)
    BY <1>1, <1>2, <1>3, <1>8, PlanSteps DEF Awaits, Undisturbed, WaitsFor, Ids
  <2>2. Stands(plan[j]) /\ plan[j].at \in Tiles
    BY <1>1, <1>6, <1>8, <2>1, PlanSteps DEF AwaitedStands
  <2>3. overlay[plan[j].at] # None => SiteIndex(plan[j].at) # {}
    BY <2>2, FirstSiteIsTheSite DEF IInv
  <2>4. overlay[plan[j].at] # None => status'[plan[j].id] # "complete"
    <3>1. SUFFICES ASSUME overlay[plan[j].at] # None
                   PROVE  status'[plan[j].id] # "complete"
      OBVIOUS
    <3>2. status[plan[j].id] # "complete" /\ plan[j].id \in DOMAIN status
      BY <1>1, <2>2, <3>1, PlanSteps DEF Stands
    <3>3. \A k \in DOMAIN plan : plan[k].id = plan[j].id => k = j
      BY <1>1, PlanSteps
    <3>4. QED
      BY <1>3, <2>3, <3>1, <3>2, <3>3
  <2>5. QED
    BY <1>2, <2>2, <2>4 DEF Stands, Result
<1>9. AwaitedStands'
  BY <1>2, <1>8 DEF AwaitedStands
<1>10. QED
  BY <1>4, <1>5, <1>7, <1>9 DEF PlanKept


\* The step the loop is at.
LEMMA AtNext ==
  ASSUME PlanTyped, next > 0
  PROVE  /\ next \in DOMAIN plan
         /\ (IF next = Len(plan) THEN 0 ELSE next + 1) \in 0 .. Len(plan)
BY PlanSteps DEF PlanTyped

LEMMA FailKeeps ==
  ASSUME IInv, PlanKept, FailStep
  PROVE  PlanKept'
<1> DEFINE s == plan[next]
<1>1. PlanTyped /\ GroundKept /\ OrderKept /\ AwaitedStands
  BY DEF PlanKept
<1>2. /\ tile' = tile /\ overlay' = overlay /\ plan' = plan
      /\ status' = [status EXCEPT ![s.id] = "failed"]
      /\ status[s.id] = "pending"
  BY DEF FailStep, vars, Ready
<1>3. next' \in 0 .. Len(plan)
  BY <1>1, AtNext DEF FailStep, Advance
<1>4. PlanTyped'
  BY <1>1, <1>2, <1>3 DEF PlanTyped, Ids
<1>5. GroundKept'
  BY <1>1, <1>2 DEF GroundKept
<1>6. /\ DOMAIN status' = DOMAIN status
      /\ \A id \in DOMAIN status : status'[id] = status[id] \/ status'[id] = "failed"
      /\ \A id \in DOMAIN status : status[id] = "complete" => status'[id] = "complete"
  BY <1>1, <1>2 DEF PlanTyped
<1> HIDE DEF s
<1>7. ASSUME NEW k \in DOMAIN plan, Taken(plan[k])'
      PROVE  Taken(plan[k]) /\ status'[plan[k].id] = status[plan[k].id]
  BY <1>1, <1>2, <1>6, <1>7, PlanSteps DEF Taken
<1>8. OrderKept'
  BY <1>1, <1>2, <1>6, <1>7 DEF OrderKept, DependenciesDone
<1>9. ASSUME NEW i \in DOMAIN plan, NEW j \in DOMAIN plan, Awaits(i, j)', Taken(plan[j])'
      PROVE  Stands(plan[j])'
  <2>1. Awaits(i, j)
    BY <1>1, <1>2, <1>6, <1>9, PlanSteps DEF Awaits, Undisturbed, WaitsFor, Ids
  <2>2. Stands(plan[j])
    BY <1>1, <1>7, <1>9, <2>1 DEF AwaitedStands
  <2>3. QED
    BY <1>2, <1>7, <1>9, <2>2 DEF Stands, Result
<1>10. AwaitedStands'
  BY <1>2, <1>9 DEF AwaitedStands
<1>11. QED
  BY <1>4, <1>5, <1>8, <1>10 DEF PlanKept

LEMMA SubmitKeeps ==
  ASSUME IInv, PlanKept, SubmitStep
  PROVE  PlanKept'
<1> DEFINE s == plan[next]
<1>1. PlanTyped /\ GroundKept /\ OrderKept /\ AwaitedStands /\ PInv
  BY DEF PlanKept, PInv
<1>2. next \in DOMAIN plan /\ Ready(s)
  BY <1>1, AtNext DEF SubmitStep
<1>3. s.tool \in Tools /\ s.at \in Tiles
  BY <1>1, <1>2, PlanSteps
<1>4. /\ tile' = tile
      /\ OnlyAt(s.at)
      /\ overlay'[s.at] # None
      /\ overlay'[s.at].target = Result(s)
      /\ Wet(Result(s)) <=> Wet(InitTile[s.at])
  BY <1>1, <1>3, SubmitOpens DEF SubmitStep
<1>5. /\ plan' = plan /\ next' = 0
      /\ status' = [status EXCEPT ![s.id] = "submitted"]
      /\ status[s.id] = "pending"
  BY <1>2 DEF SubmitStep, Ready
<1>6. PlanTyped'
  <2>1. next' \in 0 .. Len(plan)
    BY <1>1, <1>5, PlanSteps
  <2>2. status' \in [Ids(plan) -> {"pending", "submitted", "complete", "failed"}]
    BY <1>1, <1>5 DEF PlanTyped
  <2>3. QED
    BY <1>1, <1>5, <2>1, <2>2 DEF PlanTyped, Ids
<1>7. GroundKept'
  BY <1>1, <1>3, <1>4 DEF GroundKept, OnlyAt
<1>8. /\ DOMAIN status' = DOMAIN status
      /\ \A id \in DOMAIN status : id # s.id => status'[id] = status[id]
      /\ status'[s.id] = "submitted"
  BY <1>1, <1>2, <1>5, PlanSteps DEF PlanTyped
<1>9. \A k \in DOMAIN plan : plan[k].id = s.id => k = next
  BY <1>1, <1>2, PlanSteps
<1> HIDE DEF s
<1>10. ASSUME NEW k \in DOMAIN plan, k # next
       PROVE  status'[plan[k].id] = status[plan[k].id]
  BY <1>1, <1>8, <1>9, <1>10, PlanSteps
<1>11. OrderKept'
  <2>1. ASSUME NEW k \in DOMAIN plan, Taken(plan[k])'
        PROVE  DependenciesDone(plan[k])
    <3>1. CASE k = next
      BY <1>2, <3>1 DEF Ready, DependenciesDone, s
    <3>2. CASE k # next
      BY <1>1, <1>5, <1>10, <2>1, <3>2 DEF OrderKept, Taken
    <3>3. QED
      BY <3>1, <3>2
  <2>2. \A id \in DOMAIN status : status[id] = "complete" => status'[id] = "complete"
    BY <1>5, <1>8
  <2>3. QED
    BY <1>5, <1>8, <2>1, <2>2 DEF OrderKept, DependenciesDone
<1>12. ASSUME NEW i \in DOMAIN plan, NEW j \in DOMAIN plan, Awaits(i, j)', Taken(plan[j])'
       PROVE  Stands(plan[j])'
  <2>1. i # next
    BY <1>5, <1>8, <1>12 DEF Awaits, s
  <2>2. Awaits(i, j)
    BY <1>5, <1>10, <1>12, <2>1 DEF Awaits, Undisturbed, WaitsFor, Ids
  <2>3. CASE j = next
    BY <1>4, <1>5, <1>8, <2>3 DEF Stands, Result, s
  <2>4. CASE j # next
    <3>1. Stands(plan[j]) /\ plan[j].at \in Tiles
      BY <1>1, <1>5, <1>10, <1>12, <2>2, <2>4, PlanSteps DEF AwaitedStands, Taken
    <3>2. plan[j].at # s.at
      BY <1>1, <1>2, <2>1, <2>2, <2>4, OthersElsewhere DEF s
    <3>3. QED
      BY <1>4, <1>5, <1>10, <2>4, <3>1, <3>2 DEF Stands, Result, OnlyAt
  <2>5. QED
    BY <2>3, <2>4
<1>13. AwaitedStands'
  BY <1>5, <1>12 DEF AwaitedStands
<1>14. QED
  BY <1>6, <1>7, <1>11, <1>13 DEF PlanKept

LEMMA CancelKeeps ==
  ASSUME IInv, PlanKept, CancelInStep
  PROVE  PlanKept'
<1> DEFINE s == plan[next]
<1>1. PlanTyped /\ GroundKept /\ OrderKept /\ AwaitedStands
  BY DEF PlanKept
<1>2. next \in DOMAIN plan /\ Ready(s)
  BY <1>1, AtNext DEF CancelInStep
<1>3. s.at \in Tiles
  BY <1>1, <1>2, PlanSteps
<1>4. /\ tile' = tile
      /\ overlay[s.at] # None
      /\ overlay' = [overlay EXCEPT ![s.at] = None]
      /\ plan' = plan /\ status' = status
  BY DEF CancelInStep, CancelBlueprint
<1>5. OnlyAt(s.at) /\ overlay'[s.at] = None
  BY <1>3, <1>4 DEF OnlyAt, IInv, TypeOK
<1>6. PlanTyped' /\ OrderKept'
  <2>1. next' \in 0 .. Len(plan)
    BY <1>1, AtNext DEF CancelInStep, Advance
  <2>2. QED
    BY <1>1, <1>4, <2>1 DEF PlanTyped, OrderKept, Taken, DependenciesDone, Ids
<1>7. GroundKept'
  BY <1>1, <1>4, <1>5 DEF GroundKept, OnlyAt
<1> HIDE DEF s
<1>8. ASSUME NEW i \in DOMAIN plan, NEW j \in DOMAIN plan, Awaits(i, j)', Taken(plan[j])'
      PROVE  Stands(plan[j])'
  <2>1. Awaits(i, j) /\ Taken(plan[j])
    BY <1>4, <1>8 DEF Awaits, Taken, Undisturbed, WaitsFor, Ids
  <2>2. Stands(plan[j]) /\ plan[j].at \in Tiles
    BY <1>1, <2>1, PlanSteps DEF AwaitedStands
  <2>3. j # next
    BY <1>2, <2>1 DEF Taken, Ready, s
  <2>4. plan[j].at # s.at
    <3>1. CASE i = next
      <4>1. status[plan[j].id] = "complete"
        BY <1>2, <2>1, <3>1 DEF Awaits, Ready, s
      <4>2. QED
        BY <1>4, <2>2, <4>1 DEF Stands
    <3>2. CASE i # next
      BY <1>1, <1>2, <2>1, <2>3, <3>2, OthersElsewhere DEF s
    <3>3. QED
      BY <3>1, <3>2
  <2>5. QED
    BY <1>4, <1>5, <2>2, <2>4 DEF Stands, Result, OnlyAt
<1>9. AwaitedStands'
  BY <1>4, <1>8 DEF AwaitedStands
<1>10. QED
  BY <1>6, <1>7, <1>9 DEF PlanKept

LEMMA LoadKeeps ==
  ASSUME IInv, PlanKept, NEW p \in Plans, LoadPlan(p)
  PROVE  PlanKept'
<1>1. PlanTyped /\ GroundKept
  BY DEF PlanKept
<1>2. /\ tile' = tile /\ overlay' = overlay
      /\ plan' = p /\ next' = 0
      /\ status' = [id \in Ids(p) |-> "pending"]
  BY DEF LoadPlan, vars
<1>3. PlanTyped'
  <2>1. Len(p) \in Nat
    BY PlansAssumption, LenProperties
  <2>2. status' \in [Ids(p) -> {"pending", "submitted", "complete", "failed"}]
    BY <1>2
  <2>3. QED
    BY <1>2, <2>1, <2>2 DEF PlanTyped, Ids
<1>4. GroundKept'
  BY <1>1, <1>2 DEF GroundKept
<1>5. \A k \in DOMAIN plan' : ~Taken(plan[k])'
  BY <1>2 DEF Taken, Ids
<1>6. OrderKept' /\ AwaitedStands'
  BY <1>5 DEF OrderKept, AwaitedStands
<1>7. QED
  BY <1>3, <1>4, <1>6 DEF PlanKept

LEMMA BuildingKeeps ==
  ASSUME IInv, PlanKept, Building
  PROVE  IInv' /\ PlanKept'
<1>1. UNCHANGED <<plan, status>> /\ next' \in 0 .. Len(plan) /\ UNCHANGED planVars
  BY DEF Building, planVars, PlanKept, PlanTyped
<1>2. DOMAIN sites = 1 .. Len(sites)
  BY LenProperties DEF IInv, TypeOK
<1>3. ASSUME NEW w \in Workers, ReserveSite(w)
      PROVE  IInv' /\ SameJobs
  BY <1>2, <1>3, SetBuilderKeepsInvariant, SetBuilderSame DEF ReserveSite
<1>4. ASSUME NEW w \in Workers, ReleaseSite(w)
      PROVE  IInv' /\ SameJobs
  BY <1>2, <1>4, SetBuilderKeepsInvariant, SetBuilderSame DEF ReleaseSite
<1>5. ASSUME NEW w \in Workers, NEW d \in WorkSteps, ApplyWork(w, d)
      PROVE  IInv' /\ SameJobs
  BY <1>5, ApplyWorkKeepsInvariant, ApplyWorkSame
<1>6. CASE Update
  <2>1. IInv'
    BY <1>6, UpdateKeepsInvariant
  <2>2. QED
    BY <1>1, <1>6, <2>1, UpdateJobs, SameJobsKeep, CompletionKeeps
<1>7. QED
  BY <1>1, <1>3, <1>4, <1>5, <1>6, SameJobsKeep DEF Building

LEMMA IdleKeepsInvariant == IInv /\ UNCHANGED vars => IInv'
  BY DEF vars, IInv, TypeOK, MirrorExact, OneJobPerBuilder, NoRouteIntoObstacle, HasActivePath

LEMMA PlanNextKeepsInvariant == PInv /\ [PlanNext]_allVars => PInv'
<1> SUFFICES ASSUME PInv, [PlanNext]_allVars PROVE PInv'
  OBVIOUS
<1>1. IInv /\ PlanKept
  BY DEF PInv, PlanKept
<1>2. CASE BeginPlan
  BY <1>1, <1>2, IdleKeepsInvariant, BeginKeeps DEF BeginPlan, PInv, PlanKept
<1>3. CASE Skip
  <2>1. SameJobs /\ next' \in 0 .. Len(plan)
    BY <1>1, <1>3, AtNext DEF Skip, Advance, SameJobs, vars, PlanKept
  <2>2. QED
    BY <1>1, <1>3, <2>1, IdleKeepsInvariant, SameJobsKeep DEF Skip, PInv, PlanKept
<1>4. CASE FailStep
  BY <1>1, <1>4, IdleKeepsInvariant, FailKeeps DEF FailStep, PInv, PlanKept
<1>5. CASE SubmitStep
  <2>1. plan[next].tool \in Tools /\ plan[next].at \in Tiles
    BY <1>1, <1>5, AtNext, PlanSteps DEF SubmitStep, PlanKept
  <2>2. IInv'
    BY <1>1, <1>5, <2>1, PlaceBlueprintKeepsInvariant DEF SubmitStep
  <2>3. QED
    BY <1>1, <1>5, <2>2, SubmitKeeps DEF PInv, PlanKept
<1>6. CASE CancelInStep
  <2>1. plan[next].at \in Tiles
    BY <1>1, <1>6, AtNext, PlanSteps DEF CancelInStep, PlanKept
  <2>2. IInv'
    BY <1>1, <1>6, <2>1, CancelKeepsInvariant DEF CancelInStep
  <2>3. QED
    BY <1>1, <1>6, <2>2, CancelKeeps DEF PInv, PlanKept
<1>7. CASE Building
  BY <1>1, <1>7, BuildingKeeps DEF PInv, PlanKept
<1>8. ASSUME NEW p \in Plans, LoadPlan(p)
      PROVE  PInv'
  BY <1>1, <1>8, IdleKeepsInvariant, LoadKeeps DEF LoadPlan, PInv, PlanKept
<1>9. CASE UNCHANGED allVars
  <2>1. SameJobs /\ next' \in 0 .. Len(plan) /\ UNCHANGED <<plan, status>> /\ UNCHANGED vars
    BY <1>1, <1>9 DEF allVars, planVars, SameJobs, vars, PlanKept, PlanTyped
  <2>2. QED
    BY <1>1, <2>1, IdleKeepsInvariant, SameJobsKeep DEF PInv, PlanKept
<1>10. QED
  BY <1>2, <1>3, <1>4, <1>5, <1>6, <1>7, <1>8, <1>9 DEF PlanNext, PlanTick

LEMMA PlanInitEstablishesInvariant == PlanInit => PInv
<1> SUFFICES ASSUME PlanInit PROVE PInv
  OBVIOUS
<1>1. IInv
  BY InitEstablishesInvariant DEF PlanInit
<1>2. DOMAIN plan = {} /\ Len(plan) = 0 /\ Ids(plan) = {} /\ status = << >>
  BY DEF PlanInit, Ids
<1>3. PlanTyped
  BY <1>2 DEF PlanTyped, PlanInit
<1>4. GroundKept
  BY DEF PlanInit, Init, GroundKept
<1>5. OrderKept /\ AwaitedStands
  BY <1>2 DEF OrderKept, AwaitedStands
<1>6. QED
  BY <1>1, <1>3, <1>4, <1>5 DEF PInv

\* Only the step the loop is at is submitted.
LEMMA SubmittedStandOnBuilt ==
  ASSUME PInv, [PlanNext]_allVars,
         NEW i \in DOMAIN plan, NEW j \in DOMAIN plan,
         plan' = plan,
         status[plan[i].id] = "pending", status'[plan[i].id] = "submitted",
         plan[j].id \in plan[i].depends_on,
         Undisturbed(plan, i, j)
  PROVE  tile[plan[j].at] = Result(plan[j])
<1>1. IInv /\ PlanTyped /\ AwaitedStands /\ plan[i].id \in DOMAIN status
  BY PlanSteps DEF PInv
<1>2. status' # status
  OBVIOUS
<1>3. CASE BeginPlan
  BY <1>1, <1>3 DEF BeginPlan, Refreshed
<1>4. CASE Skip \/ CancelInStep \/ Building \/ UNCHANGED allVars
  BY <1>2, <1>4 DEF Skip, CancelInStep, Building, allVars, planVars
<1>5. CASE FailStep
  BY <1>1, <1>5 DEF FailStep, PlanTyped
<1>6. CASE \E p \in Plans : LoadPlan(p)
  BY <1>6 DEF LoadPlan
<1>7. CASE SubmitStep
  <2>1. next \in DOMAIN plan /\ Ready(plan[next])
    BY <1>1, <1>7, AtNext DEF SubmitStep
  <2>2. plan[i].id = plan[next].id
    BY <1>1, <1>7 DEF SubmitStep, PlanTyped
  <2>3. i = next
    BY <1>1, <2>1, <2>2, PlanSteps
  <2>4. status[plan[j].id] = "complete"
    BY <2>1, <2>3 DEF Ready
  <2>5. Stands(plan[j])
    BY <1>1, <2>4 DEF AwaitedStands, Awaits, Taken
  <2>6. QED
    BY <2>4, <2>5 DEF Stands
<1>8. QED
  BY <1>3, <1>4, <1>5, <1>6, <1>7 DEF PlanNext, PlanTick

\* When a step of a plan is submitted, what it depends on stands on the map,
\* unless a step that does not wait for it uses the same tile: for every set
\* of plans, every map and every way builders work in between.
THEOREM DependenciesStand == PlanSpec => DependenciesBuilt
<1>1. PInv /\ [PlanNext]_allVars
        => [\A i, j \in DOMAIN plan :
              /\ plan' = plan
              /\ status[plan[i].id] = "pending"
              /\ status'[plan[i].id] = "submitted"
              /\ plan[j].id \in plan[i].depends_on
              /\ Undisturbed(plan, i, j)
              => tile[plan[j].at] = Result(plan[j])]_allVars
  BY SubmittedStandOnBuilt
<1>2. QED
  BY <1>1, PlanInitEstablishesInvariant, PlanNextKeepsInvariant, PTL
     DEF PlanSpec, DependenciesBuilt

=============================================================================
