---------------------------- MODULE RoadNetwork -----------------------------
(***************************************************************************)
(* The union-find over road tiles of simulation/navigation/road_network.py.*)
(* A network is what a rebuild on one map computes; a question asked later *)
(* is answered from the network of the version it was built for.           *)
(***************************************************************************)
EXTENDS PathSearch

CONSTANTS
  Roads,     \* the kinds of ROAD_TILES
  Warehouse  \* one of them

ASSUME RoadAssumption == Warehouse \in Roads /\ Roads \subseteq Kinds

(***************************************************************************)
(* The union-find: parent, rank and size of each tile.  find compresses    *)
(* the path it walks, which moves no tile to another root.                 *)
(***************************************************************************)
Alone ==
  [parent |-> [t \in Tiles |-> t],
   rank |-> [t \in Tiles |-> 0],
   size |-> [t \in Tiles |-> 1]]

\* The tiles find walks through, from t up to its root.
Climbed(uf, t) ==
  LET Up[u \in Tiles] ==
        {u} \union (IF uf.parent[u] = u THEN {} ELSE Up[uf.parent[u]])
  IN  Up[t]

Root(uf, t) == CHOOSE u \in Climbed(uf, t) : uf.parent[u] = u

Compressed(uf, t) ==
  LET climbed == Climbed(uf, t)
      root == Root(uf, t)
  IN  [uf EXCEPT !.parent = [u \in Tiles |-> IF u \in climbed THEN root ELSE @[u]]]

\* One root under the other.
Hung(uf, under, over, rank) ==
  [uf EXCEPT !.parent[under] = over,
             !.size[over] = @ + uf.size[under],
             !.rank[over] = rank]

Union(uf0, a, b) ==
  LET uf == Compressed(Compressed(uf0, a), b)
      ra == Root(uf, a)
      rb == Root(uf, b)
  IN  CASE ra = rb -> uf
        [] ra # rb /\ uf.rank[ra] < uf.rank[rb] -> Hung(uf, ra, rb, uf.rank[rb])
        [] ra # rb /\ uf.rank[ra] > uf.rank[rb] -> Hung(uf, rb, ra, uf.rank[ra])
        [] OTHER -> Hung(uf, rb, ra, uf.rank[ra] + 1)

-----------------------------------------------------------------------------
(* rebuild *)

Empty == [roads |-> {}, warehouses |-> <<>>, uf |-> Alone]

\* A tile is joined with n when n was seen before it.
Met(net, uf, t, n) == IF n \in net.roads THEN Union(uf, t, n) ELSE uf

\* The tile joins its neighbours, in their order.
Joined(net, t, kind) ==
  LET n == Neighbours(t)
      Meet(uf, i) == Met(net, uf, t, n[i])
  IN  [roads |-> net.roads \union {t},
       warehouses |-> IF kind = Warehouse THEN Append(net.warehouses, t) ELSE net.warehouses,
       uf |-> Meet(Meet(Meet(Meet(net.uf, 1), 2), 3), 4)]

Seen(tiles, net, t) ==
  IF tiles[t] \in Roads THEN Joined(net, t, tiles[t]) ELSE net

RowSeen(tiles, before, z) ==
  LET Until[x \in 0 .. Width] ==
        IF x = 0 THEN before ELSE Seen(tiles, Until[x - 1], <<x - 1, z>>)
  IN  Until[Width]

\* Row by row.
Rebuilt(tiles) ==
  LET Until[z \in 0 .. Height] ==
        IF z = 0 THEN Empty ELSE RowSeen(tiles, Until[z - 1], z - 1)
  IN  Until[Height]

-----------------------------------------------------------------------------
(* Questions *)

AreConnected(net, s, t) ==
  /\ {s, t} \subseteq net.roads
  /\ Root(net.uf, s) = Root(net.uf, t)

\* The first warehouse, row by row, on the same network.
ConnectedWarehouse(net, t) ==
  LET linked == {i \in DOMAIN net.warehouses : AreConnected(net, t, net.warehouses[i])}
  IN  IF linked = {} THEN None ELSE net.warehouses[Min(linked)]

IsAdjacentToConnectedRoad(net, t) ==
  \E i \in DOMAIN Neighbours(t) : ConnectedWarehouse(net, Neighbours(t)[i]) # None

ComponentSize(net, t) ==
  IF t \in net.roads THEN net.uf.size[Root(net.uf, t)] ELSE 0

=============================================================================
