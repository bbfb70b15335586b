----------------------------- MODULE PathSearch -----------------------------
(***************************************************************************)
(* The A* search of simulation/navigation/a_star.py, one expansion at a    *)
(* time.  A search that runs in a thread of the worker pool reads the map  *)
(* while others change it; so an expansion takes the map as it is then,    *)
(* and Searched is a search that nobody interrupts.                        *)
(***************************************************************************)
EXTENDS Integers, FiniteSets, SequencesExt

CONSTANTS
  Width, Height,
  Kinds,      \* of tiles
  Passable,   \* the kinds that can be walked on
  BaseCost,   \* of entering a tile of each kind
  Estimate,   \* what the heuristic takes for the cost of one step
  MaxNodes,   \* max_nodes
  None

ASSUME SearchAssumption ==
  /\ Width \in Nat \ {0}
  /\ Height \in Nat \ {0}
  /\ Passable \subseteq Kinds
  /\ BaseCost \in [Kinds -> Nat \ {0}]
  /\ Estimate \in Nat
  /\ MaxNodes \in Nat
  /\ None \notin Nat /\ None \notin (0 .. Width - 1) \X (0 .. Height - 1)

\* The default, 100000, is more than the 96 by 72 tiles of the default map, and
\* no caller gives another.
ASSUME NodesAssumption == Width * Height <= MaxNodes

Tiles == (0 .. Width - 1) \X (0 .. Height - 1)

Maps == [Tiles -> Kinds]

Apart(i, j) == IF i < j THEN j - i ELSE i - j

Distance(s, t) == Apart(s[1], t[1]) + Apart(s[2], t[2])

\* In the order in which an expansion looks at them, on the map or not.
Neighbours(t) ==
  << <<t[1] + 1, t[2]>>, <<t[1] - 1, t[2]>>, <<t[1], t[2] + 1>>, <<t[1], t[2] - 1>> >>

\* A dictionary with one more entry, or another one under the same key.
With(f, k, v) == [j \in DOMAIN f \union {k} |-> IF j = k THEN v ELSE f[j]]

\* What the search returns for None.
NoPath == <<>>

-----------------------------------------------------------------------------
(* The state of a search *)

\* An entry of the heap; nr, the insertion counter, breaks ties.
Entry(rank, nr, t) == [rank |-> rank, nr |-> nr, tile |-> t]

Began(start, goal) ==
  [goal |-> goal,
   open |-> {Entry(Estimate * Distance(start, goal), 0, start)},
   inserted |-> 1,
   cost |-> [t \in Tiles |-> IF t = start THEN 0 ELSE None],
   from |-> [t \in Tiles |-> None],
   closed |-> {},
   done |-> start = goal,
   path |-> IF start = goal THEN <<start>> ELSE NoPath]

Lowest(open) ==
  CHOOSE e \in open :
    \A o \in open : e.rank < o.rank \/ (e.rank = o.rank /\ e.nr <= o.nr)

\* _reconstruct_path: from the goal back to the tile that came from nowhere.
\*
\* Fault: the tile in the middle is left out.
TrailToOpen(from, goal) ==
  IF from[goal] = None THEN <<goal>> ELSE <<from[goal], goal>>

Trail(from, goal) ==
  LET To[t \in Tiles] ==
        IF from[t] = None THEN <<t>> ELSE Append(To[from[t]], t)
  IN  To[goal]

Ended(s, path) == [s EXCEPT !.done = TRUE, !.path = path]

CostVia(tiles, s, t, n) == s.cost[t] + BaseCost[tiles[n]]

\* Whether it is worth going to n from t, which is expanded.
Worth(tiles, s, t, n) ==
  /\ n \in Tiles
  /\ n \notin s.closed
  /\ tiles[n] \in Passable
  /\ s.cost[n] = None \/ CostVia(tiles, s, t, n) < s.cost[n]

\* The neighbours of t are put on the heap, in their order.
Spread(tiles, s, t) ==
  LET next == {i \in 1 .. 4 : Worth(tiles, s, t, Neighbours(t)[i])}
      gained == {Neighbours(t)[i] : i \in next}
      Via(n) == CostVia(tiles, s, t, n)
      Push(i, n) == Entry(Via(n) + Estimate * Distance(n, s.goal),
                          s.inserted + Cardinality({j \in next : j < i}), n)
  IN  [s EXCEPT
         !.from = [n \in Tiles |-> IF n \in gained THEN t ELSE @[n]],
         !.cost = [n \in Tiles |-> IF n \in gained THEN Via(n) ELSE @[n]],
         !.open = @ \union {Push(i, Neighbours(t)[i]) : i \in next},
         !.inserted = @ + Cardinality(next)]

Close(s, t) == [s EXCEPT !.closed = @ \union {t}]

\* A tile that comes off the heap for the first time.
Expanded(tiles, s, t) ==
  IF Cardinality(s.closed) = MaxNodes THEN Ended(s, NoPath)
  ELSE IF t = s.goal THEN Ended(Close(s, t), Trail(s.from, s.goal))
  ELSE Spread(tiles, Close(s, t), t)

\* What becomes of the search when e comes off the heap.
\*
\* Fault: an entry of a tile that was expanded already stays on the heap.
PoppedInPlace(tiles, s, e) ==
  IF e.tile \in s.closed THEN s
  ELSE Expanded(tiles, [s EXCEPT !.open = @ \ {e}], e.tile)

Popped(tiles, s, e) ==
  LET popped == [s EXCEPT !.open = @ \ {e}]
  IN  IF e.tile \in s.closed THEN popped ELSE Expanded(tiles, popped, e.tile)

\* One turn of the loop on the map as it is now.
Turned(tiles, s) ==
  IF s.open = {} THEN Ended(s, NoPath)
  ELSE CHOOSE after \in {Popped(tiles, s, e) : e \in {Lowest(s.open)}} : TRUE

\* Every turn takes an entry off the heap, and a tile enters it at most once
\* for each of its neighbours.
MaxTurns == 4 * Width * Height + 2

\* A search that nobody interrupts.
Searched(tiles, start, goal) ==
  LET After[n \in 0 .. MaxTurns] ==
        IF n = 0 THEN Began(start, goal)
        ELSE LET s == After[n - 1]
             IN  IF s.done THEN s ELSE Turned(tiles, s)
  IN  After[MaxTurns].path

-----------------------------------------------------------------------------
(* What a search should return *)

\* The ways from start on the tiles where, that enter no tile twice; nobody
\* asks whether one may stand on the first.
Ways(where, start) ==
  LET Onward(way) ==
        {t \in where \ Range(way) : Distance(t, Last(way)) = 1}
      UpTo[n \in 0 .. Cardinality(where)] ==
        IF n = 0 THEN {<<start>>}
        ELSE LET shorter == UpTo[n - 1]
             IN  shorter \union
                   UNION {{Append(way, t) : t \in Onward(way)} : way \in shorter}
  IN  UpTo[Cardinality(where)]

WaysBetween(tiles, start, goal) ==
  {way \in Ways({t \in Tiles : tiles[t] \in Passable}, start) : Last(way) = goal}

\* What a search told is right on this map: a way, or that there is none.
Truthful(tiles, path, start, goal) ==
  LET ways == WaysBetween(tiles, start, goal)
  IN  IF ways = {} THEN path = NoPath ELSE path \in ways

=============================================================================
