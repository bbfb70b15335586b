-------------------------- MODULE NavigationProofs --------------------------
(***************************************************************************)
(* That what the path cache, the pool, the walker and the views hold under *)
(* the current version of the map is true of the map.                      *)
(***************************************************************************)
EXTENDS Navigation, FiniteSetTheorems, SequenceTheorems, NaturalsInduction, TLAPS

-----------------------------------------------------------------------------
(* Tiles *)

\* The neighbours of a tile are those one step away from it.
LEMMA OneStep ==
  ASSUME NEW t \in Tiles, NEW n \in Tiles
  PROVE  /\ Distance(t, n) \in Nat
         /\ Distance(t, n) = Distance(n, t)
         /\ (\E i \in 1 .. 4 : Neighbours(t)[i] = n) <=> Distance(t, n) = 1
<1>1. PICK a \in 0 .. Width - 1, b \in 0 .. Height - 1 : t = <<a, b>>
  BY DEF Tiles
<1>2. PICK c \in 0 .. Width - 1, d \in 0 .. Height - 1 : n = <<c, d>>
  BY DEF Tiles
<1>3. Width \in Nat /\ Height \in Nat
  BY SearchAssumption
<1>4. a \in Int /\ b \in Int /\ c \in Int /\ d \in Int
  BY <1>1, <1>2, <1>3
<1>5. Distance(t, n) = Apart(a, c) + Apart(b, d) /\ Distance(n, t) = Apart(c, a) + Apart(d, b)
  BY <1>1, <1>2 DEF Distance
<1>6. Neighbours(t) = << <<a + 1, b>>, <<a - 1, b>>, <<a, b + 1>>, <<a, b - 1>> >>
  BY <1>1 DEF Neighbours
<1>7. (\E i \in 1 .. 4 : Neighbours(t)[i] = n)
        <=> \/ d = b /\ (c = a + 1 \/ c = a - 1)
            \/ c = a /\ (d = b + 1 \/ d = b - 1)
  BY <1>2, <1>4, <1>6
<1>8. /\ Apart(a, c) + Apart(b, d) \in Nat
      /\ Apart(a, c) + Apart(b, d) = Apart(c, a) + Apart(d, b)
      /\ Apart(a, c) + Apart(b, d) = 1
           <=> \/ d = b /\ (c = a + 1 \/ c = a - 1)
               \/ c = a /\ (d = b + 1 \/ d = b - 1)
  BY <1>4 DEF Apart
<1>9. QED
  BY <1>5, <1>7, <1>8

LEMMA Counted ==
  \A n \in Nat : IsFiniteSet(1 .. n) /\ Cardinality(1 .. n) = n
<1> SUFFICES ASSUME NEW n \in Nat PROVE IsFiniteSet(1 .. n) /\ Cardinality(1 .. n) = n
  OBVIOUS
<1>1. 1 \in Int /\ n \in Int
  OBVIOUS
<1>2. IsFiniteSet(1 .. n) /\ Cardinality(1 .. n) = IF 1 > n THEN 0 ELSE n - 1 + 1
  BY <1>1, FS_Interval, Zenon
<1>3. QED
  BY <1>2

\* There are finitely many tiles, and no more than a search may expand.
LEMMA TilesFinite ==
  /\ IsFiniteSet(Tiles)
  /\ Cardinality(Tiles) = Width * Height
  /\ Width * Height \in Nat
<1>1. Width \in Nat \ {0} /\ Height \in Nat \ {0}
  BY SearchAssumption
<1>2. IsFiniteSet(0 .. Width - 1) /\ Cardinality(0 .. Width - 1) = Width
  BY <1>1, FS_Interval
<1>3. IsFiniteSet(0 .. Height - 1) /\ Cardinality(0 .. Height - 1) = Height
  BY <1>1, FS_Interval
<1> DEFINE I == 0 .. Width - 1
           J == 0 .. Height - 1
<1> HIDE DEF I, J
<1>4. IsFiniteSet(I \X J) /\ Cardinality(I \X J) = Cardinality(I) * Cardinality(J)
  BY <1>2, <1>3, FS_Product DEF I, J
<1>5. IsFiniteSet(Tiles) /\ Cardinality(Tiles) = Width * Height
  BY <1>2, <1>3, <1>4 DEF Tiles, I, J
<1>6. QED
  BY <1>1, <1>5

-----------------------------------------------------------------------------
(* The search *)

Entries == [rank : Nat, nr : Nat, tile : Tiles]

Searches ==
  [goal : Tiles, open : SUBSET Entries, inserted : Nat,
   cost : [Tiles -> Nat \union {None}], from : [Tiles -> Tiles \union {None}],
   closed : SUBSET Tiles, done : BOOLEAN, path : Seq(Tiles)]

\* u is s but for its heap, for what is closed, or for having ended.
Reheaped(s, u, o) ==
  /\ u \in Searches /\ u.open = o /\ u.goal = s.goal /\ u.inserted = s.inserted
  /\ u.cost = s.cost /\ u.from = s.from /\ u.closed = s.closed
  /\ u.done = s.done /\ u.path = s.path

Closing(s, u, t) ==
  /\ u \in Searches /\ u.closed = s.closed \union {t} /\ u.goal = s.goal
  /\ u.inserted = s.inserted /\ u.open = s.open
  /\ u.cost = s.cost /\ u.from = s.from /\ u.done = s.done /\ u.path = s.path

Ending(s, u, p) ==
  /\ u \in Searches /\ u.done = TRUE /\ u.path = p
  /\ u.goal = s.goal /\ u.closed = s.closed

LEMMA Reheaps ==
  ASSUME NEW s \in Searches, NEW o \in SUBSET Entries
  PROVE  Reheaped(s, [s EXCEPT !.open = o], o)
BY DEF Searches, Reheaped

LEMMA Closes ==
  ASSUME NEW s \in Searches, NEW t \in Tiles
  PROVE  Closing(s, Close(s, t), t)
<1> DEFINE c == s.closed \union {t}
<1>1. c \in SUBSET Tiles
  BY DEF Searches
<1> HIDE DEF c
<1>2. Close(s, t) = [s EXCEPT !.closed = c]
  BY DEF Close, c
<1>3. QED
  BY <1>1, <1>2 DEF Searches, Closing, c

LEMMA Ends ==
  ASSUME NEW s \in Searches, NEW p \in Seq(Tiles)
  PROVE  Ending(s, Ended(s, p), p)
<1> DEFINE u == [s EXCEPT !.done = TRUE]
<1>1. u \in Searches /\ u.done = TRUE /\ u.goal = s.goal /\ u.closed = s.closed
  BY DEF Searches
<1>2. Ended(s, p) = [u EXCEPT !.path = p]
  BY DEF Ended
<1> HIDE DEF u
<1>3. QED
  BY <1>1, <1>2 DEF Searches, Ending

\* A neighbour that an expansion of t reaches.
Reaches(map, s, t, n) == Worth(map, s, t, n) /\ Distance(t, n) = 1

LEMMA PushedTyped ==
  ASSUME NEW map \in Maps, NEW s \in Searches, NEW t \in Tiles, s.cost[t] \in Nat,
         NEW n \in Tiles, NEW nr \in Nat
  PROVE  /\ CostVia(map, s, t, n) \in Nat
         /\ s.cost[t] < CostVia(map, s, t, n)
         /\ Entry(CostVia(map, s, t, n) + Estimate * Distance(n, s.goal), nr, n) \in Entries
<1>1. map[n] \in Kinds
  BY DEF Maps
<1>2. BaseCost[map[n]] \in Nat \ {0}
  BY <1>1, SearchAssumption
<1>3. CostVia(map, s, t, n) \in Nat /\ s.cost[t] < CostVia(map, s, t, n)
  BY <1>2 DEF CostVia
<1>4. Estimate * Distance(n, s.goal) \in Nat
  <2>1. s.goal \in Tiles
    BY DEF Searches
  <2>2. Distance(n, s.goal) \in Nat /\ Estimate \in Nat
    BY <2>1, OneStep, SearchAssumption
  <2>3. QED
    BY <2>2
<1> DEFINE rank == CostVia(map, s, t, n) + Estimate * Distance(n, s.goal)
<1>5. rank \in Nat
  BY <1>3, <1>4
<1> HIDE DEF rank
<1>6. Entry(rank, nr, n) \in Entries
  BY <1>5 DEF Entry, Entries
<1>7. QED
  BY <1>3, <1>6 DEF rank

\* What an expansion changes.
Spreading(map, s, u, t) ==
  /\ u \in Searches
  /\ u.goal = s.goal /\ u.closed = s.closed /\ u.done = s.done
  /\ \A n \in Tiles : Reaches(map, s, t, n) =>
       u.from[n] = t /\ u.cost[n] = CostVia(map, s, t, n)
  /\ \A n \in Tiles : ~ Reaches(map, s, t, n) =>
       u.from[n] = s.from[n] /\ u.cost[n] = s.cost[n]
  /\ s.open \subseteq u.open
  /\ \A e \in u.open \ s.open : Reaches(map, s, t, e.tile)
  /\ \A n \in Tiles : Reaches(map, s, t, n) => \E e \in u.open : e.tile = n
  /\ IsFiniteSet(u.open)
  /\ u.inserted <= s.inserted + 4
  /\ Cardinality(u.open) - Cardinality(s.open) <= u.inserted - s.inserted

LEMMA Spreads ==
  ASSUME NEW map \in Maps, NEW s \in Searches, NEW t \in Tiles, s.cost[t] \in Nat,
         IsFiniteSet(s.open)
  PROVE  Spreading(map, s, Spread(map, s, t), t)
<1> DEFINE nb == Neighbours(t)
           next == {i \in 1 .. 4 : Worth(map, s, t, nb[i])}
           gained == {nb[i] : i \in next}
           Via(n) == CostVia(map, s, t, n)
           Push(i, n) == Entry(Via(n) + Estimate * Distance(n, s.goal),
                               s.inserted + Cardinality({j \in next : j < i}), n)
           pushed == {Push(i, nb[i]) : i \in next}
           push == [i \in next |-> Push(i, nb[i])]
           from == [n \in Tiles |-> IF n \in gained THEN t ELSE s.from[n]]
           cost == [n \in Tiles |-> IF n \in gained THEN Via(n) ELSE s.cost[n]]
           k == Cardinality(next)
<1>1. IsFiniteSet(next) /\ k \in Nat /\ k <= 4
  <2>1. next \in SUBSET (1 .. 4)
    OBVIOUS
  <2>2. IsFiniteSet(1 .. 4) /\ Cardinality(1 .. 4) = 4
    <3>1. 4 \in Nat
      OBVIOUS
    <3>2. QED
      BY <3>1, Counted
  <2> HIDE DEF next
  <2>3. IsFiniteSet(next) /\ Cardinality(next) <= 4
    BY <2>1, <2>2, FS_Subset
  <2>4. QED
    BY <2>3, FS_CardinalityType
<1>2. \A n \in Tiles : n \in gained <=> Reaches(map, s, t, n)
  <2>1. ASSUME NEW i \in next PROVE nb[i] \in Tiles /\ Reaches(map, s, t, nb[i])
    <3>1. nb[i] \in Tiles /\ i \in 1 .. 4
      BY DEF Worth
    <3>2. QED
      BY <3>1, OneStep DEF Reaches
  <2>2. ASSUME NEW n \in Tiles, Reaches(map, s, t, n) PROVE n \in gained
    BY <2>2, OneStep DEF Reaches
  <2>3. QED
    BY <2>1, <2>2
<1>3. \A i \in next : nb[i] \in Tiles /\ nb[i] \in gained
  BY DEF Worth
<1>4. \A i \in next : push[i] \in Entries /\ push[i].tile = nb[i]
  <2> SUFFICES ASSUME NEW i \in next PROVE push[i] \in Entries /\ push[i].tile = nb[i]
    OBVIOUS
  <2> DEFINE earlier == {j \in next : j < i}
  <2>1. Cardinality(earlier) \in Nat
    <3>1. earlier \in SUBSET next
      OBVIOUS
    <3> HIDE DEF earlier, next
    <3>2. QED
      BY <1>1, <3>1, FS_Subset, FS_CardinalityType
  <2>2. s.inserted + Cardinality(earlier) \in Nat
    <3>1. s.inserted \in Nat
      BY DEF Searches
    <3> HIDE DEF earlier
    <3>2. QED
      BY <2>1, <3>1
  <2>3. nb[i] \in Tiles
    BY <1>3
  <2>4. push[i] = Push(i, nb[i])
    OBVIOUS
  <2> DEFINE n == nb[i]
             nr == s.inserted + Cardinality(earlier)
  <2>5. push[i] = Entry(CostVia(map, s, t, n) + Estimate * Distance(n, s.goal), nr, n)
    BY <2>4
  <2> HIDE DEF nb, next, push, n, nr
  <2>6. push[i] \in Entries
    BY <2>2, <2>3, <2>5, PushedTyped DEF n, nr
  <2>7. push[i].tile = n
    BY <2>5 DEF Entry
  <2>8. QED
    BY <2>6, <2>7 DEF n
<1>5. pushed = {push[i] : i \in next}
  OBVIOUS
<1>6. IsFiniteSet(pushed) /\ Cardinality(pushed) \in Nat /\ Cardinality(pushed) <= k
  <2>1. push \in Surjection(next, pushed)
    <3>1. push \in [next -> pushed]
      BY <1>5
    <3> HIDE DEF push, pushed
    <3>2. QED
      BY <1>5, <3>1 DEF Surjection
  <2> HIDE DEF push, pushed, next
  <2>2. QED
    BY <1>1, <2>1, FS_Surjection, FS_CardinalityType
<1>7. \A n \in gained : Via(n) \in Nat
  BY <1>3, PushedTyped
<1>8. /\ from \in [Tiles -> Tiles \union {None}]
      /\ cost \in [Tiles -> Nat \union {None}]
  BY <1>7 DEF Searches
<1>9. pushed \in SUBSET Entries
  BY <1>4, <1>5
<1> DEFINE a == [s EXCEPT !.from = from]
           b == [a EXCEPT !.cost = cost]
           c == [b EXCEPT !.open = s.open \union pushed]
           d == [c EXCEPT !.inserted = s.inserted + k]
<1>10. Spread(map, s, t) = d
  BY DEF Spread, Searches
<1> HIDE DEF nb, next, gained, Via, Push, pushed, push, from, cost, k
<1>11. /\ d \in Searches
       /\ d.from = from /\ d.cost = cost /\ d.open = s.open \union pushed
       /\ d.inserted = s.inserted + k
       /\ d.goal = s.goal /\ d.closed = s.closed /\ d.done = s.done
  <2>1. a \in Searches /\ a.from = from /\ a.cost = s.cost /\ a.open = s.open
        /\ a.inserted = s.inserted /\ a.goal = s.goal /\ a.closed = s.closed /\ a.done = s.done
    BY <1>8 DEF Searches
  <2>2. b \in Searches /\ b.from = a.from /\ b.cost = cost /\ b.open = a.open
        /\ b.inserted = a.inserted /\ b.goal = a.goal /\ b.closed = a.closed /\ b.done = a.done
    <3> HIDE DEF a
    <3>1. QED
      BY <1>8, <2>1 DEF Searches
  <2>3. c \in Searches /\ c.from = b.from /\ c.cost = b.cost /\ c.open = s.open \union pushed
        /\ c.inserted = b.inserted /\ c.goal = b.goal /\ c.closed = b.closed /\ c.done = b.done
    <3> HIDE DEF b
    <3>1. s.open \union pushed \in SUBSET Entries
      BY <1>9 DEF Searches
    <3>2. QED
      BY <2>2, <3>1 DEF Searches
  <2>4. d \in Searches /\ d.from = c.from /\ d.cost = c.cost /\ d.open = c.open
        /\ d.inserted = s.inserted + k
        /\ d.goal = c.goal /\ d.closed = c.closed /\ d.done = c.done
    <3> HIDE DEF c
    <3>1. s.inserted + k \in Nat
      BY <1>1 DEF Searches
    <3>2. QED
      BY <2>3, <3>1 DEF Searches
  <2> HIDE DEF a, b, c, d
  <2>5. QED
    BY <2>1, <2>2, <2>3, <2>4
<1> HIDE DEF d
<1>12. \A e \in pushed : e.tile \in gained
  BY <1>3, <1>4, <1>5
<1>13. \A n \in gained : \E e \in pushed : e.tile = n
  BY <1>4, <1>5 DEF gained
<1>14. /\ IsFiniteSet(d.open)
       /\ Cardinality(d.open) - Cardinality(s.open) <= k
  <2>1. IsFiniteSet(s.open \union pushed)
        /\ Cardinality(s.open \union pushed)
             = Cardinality(s.open) + Cardinality(pushed) - Cardinality(s.open \intersect pushed)
    BY <1>6, FS_Union, Zenon
  <2>2. Cardinality(s.open \intersect pushed) \in Nat
    BY <1>6, FS_Intersection, FS_CardinalityType
  <2>3. Cardinality(s.open) \in Nat
    BY FS_CardinalityType
  <2>4. QED
    BY <1>1, <1>6, <1>11, <2>1, <2>2, <2>3
<1>15. \A n \in Tiles : Reaches(map, s, t, n) =>
         d.from[n] = t /\ d.cost[n] = CostVia(map, s, t, n)
  BY <1>2, <1>11 DEF from, cost, Via
<1>16. \A n \in Tiles : ~ Reaches(map, s, t, n) =>
         d.from[n] = s.from[n] /\ d.cost[n] = s.cost[n]
  BY <1>2, <1>11 DEF from, cost
<1>17. \A e \in d.open \ s.open : Reaches(map, s, t, e.tile)
  <2>1. \A e \in pushed : e.tile \in Tiles
    BY <1>9 DEF Entries
  <2>2. QED
    BY <1>2, <1>11, <1>12, <2>1
<1>18. \A n \in Tiles : Reaches(map, s, t, n) => \E e \in d.open : e.tile = n
  BY <1>2, <1>11, <1>13
<1>19. d.inserted <= s.inserted + 4 /\ d.inserted - s.inserted = k
  BY <1>1, <1>11 DEF Searches
<1>20. Cardinality(d.open) - Cardinality(s.open) <= d.inserted - s.inserted
  BY <1>14, <1>19
<1>21. s.open \subseteq d.open
  BY <1>11
<1>22. Spreading(map, s, d, t)
  BY <1>11, <1>14, <1>15, <1>16, <1>17, <1>18, <1>19, <1>20, <1>21 DEF Spreading
<1>23. QED
  BY <1>10, <1>22

-----------------------------------------------------------------------------
(* Least elements *)

\* Among the subsets of a finite set, one has no other inside it.
LEMMA SmallestSet ==
  ASSUME NEW S, IsFiniteSet(S), NEW X, X \subseteq SUBSET S, X # {}
  PROVE  \E s \in X : \A r \in X : r \subseteq s => r = s
<1>1. X \subseteq FiniteSubsetsOf(S)
  <2>1. \A s \in SUBSET S : IsFiniteSet(s)
    BY FS_Subset
  <2>2. QED
    BY <2>1 DEF FiniteSubsetsOf
<1>2. PICK s \in X : \A r \in X : ~ (<<r, s>> \in StrictSubsetOrdering(S))
  BY <1>1, WFMin, FS_StrictSubsetOrderingWellFounded
<1>3. ASSUME NEW r \in X, r \subseteq s, r # s PROVE FALSE
  <2>1. <<r, s>> \in StrictSubsetOrdering(S)
    BY <1>3 DEF StrictSubsetOrdering
  <2>2. QED
    BY <1>2, <2>1
<1>4. QED
  BY <1>3

\* A set of natural numbers that is not empty has a least one.
LEMMA LeastNumber ==
  ASSUME NEW N \in SUBSET Nat, N # {}
  PROVE  \E m \in N : \A n \in N : m <= n
<1>1. PICK top \in N : TRUE
  OBVIOUS
<1> DEFINE T == 1 .. top
           X == {1 .. m : m \in {n \in N : n <= top}}
<1>2. IsFiniteSet(T) /\ X \subseteq SUBSET T /\ X # {}
  <2>1. IsFiniteSet(T)
    BY Counted
  <2>2. top \in {n \in N : n <= top}
    OBVIOUS
  <2>3. X # {}
    BY <2>2
  <2>4. X \subseteq SUBSET T
    OBVIOUS
  <2>5. QED
    BY <2>1, <2>3, <2>4
<1>3. \E s \in X : \A r \in X : r \subseteq s => r = s
  <2> HIDE DEF T, X
  <2>1. QED
    BY ONLY <1>2, SmallestSet
<1>4. PICK m \in N : m <= top /\ \A k \in N : k <= top /\ (1 .. k) \subseteq (1 .. m) => (1 .. k) = (1 .. m)
  <2>1. PICK s \in X : \A r \in X : r \subseteq s => r = s
    BY <1>3
  <2>2. PICK m \in {n \in N : n <= top} : s = 1 .. m
    OBVIOUS
  <2>3. \A k \in N : k <= top => (1 .. k) \in X
    OBVIOUS
  <2>4. QED
    BY <2>1, <2>2, <2>3
<1>5. ASSUME NEW n \in N PROVE m <= n
  <2>1. CASE n < m
    <3>1. n <= top /\ (1 .. n) \subseteq (1 .. m)
      BY <1>4, <2>1
    <3>2. (1 .. n) = (1 .. m)
      BY <1>4, <3>1
    <3>3. m \in 1 .. m /\ m \notin 1 .. n
      BY <2>1
    <3>4. QED
      BY <3>2, <3>3
  <2>2. QED
    BY <2>1
<1>6. QED
  BY <1>5

\* Of finitely many entries one comes off the heap first.
LEMMA FirstEntry ==
  ASSUME NEW open \in SUBSET Entries, open # {}
  PROVE  Lowest(open) \in open
<1> DEFINE ranks == {e.rank : e \in open}
<1>1. ranks \in SUBSET Nat /\ ranks # {}
  BY DEF Entries
<1>2. PICK rank \in ranks : \A r \in ranks : rank <= r
  <2> HIDE DEF ranks
  <2>1. QED
    BY <1>1, LeastNumber
<1> DEFINE low == {e \in open : e.rank = rank}
           nrs == {e.nr : e \in low}
<1>3. nrs \in SUBSET Nat /\ nrs # {}
  BY <1>2 DEF Entries
<1>4. PICK nr \in nrs : \A r \in nrs : nr <= r
  <2> HIDE DEF nrs
  <2>1. QED
    BY <1>3, LeastNumber
<1>5. PICK e \in open : e.rank = rank /\ e.nr = nr
  BY <1>4
<1>6. ASSUME NEW o \in open PROVE e.rank < o.rank \/ (e.rank = o.rank /\ e.nr <= o.nr)
  <2>1. o.rank \in Nat /\ rank \in Nat /\ rank <= o.rank
    BY <1>1, <1>2 DEF Entries
  <2>2. o.rank = rank => nr <= o.nr
    BY <1>4
  <2>3. QED
    BY <1>5, <2>1, <2>2
<1>7. QED
  BY <1>6 DEF Lowest

\* f is what F makes of c when it is applied again and again.
Iterates(f, S, c, F, N) ==
  /\ f \in [0 .. N -> S]
  /\ f[0] = c /\ \A n \in 1 .. N : f[n] = F[f[n - 1]]

LEMMA Iterated ==
  ASSUME NEW S, NEW c \in S, NEW F \in [S -> S], NEW N \in Nat
  PROVE  \E f : Iterates(f, S, c, F, N)
<1> DEFINE Right(n, f) ==
             /\ f \in [0 .. n -> S]
             /\ f[0] = c /\ \A i \in 1 .. n : f[i] = F[f[i - 1]]
           Bad == {n \in Nat : ~ \E f : Right(n, f)}
<1>1. SUFFICES ASSUME Bad # {} PROVE FALSE
  BY <1>1 DEF Iterates
<1>2. PICK n \in Bad : \A m \in Bad : n <= m
  <2>1. Bad \in SUBSET Nat
    OBVIOUS
  <2> HIDE DEF Bad
  <2>2. QED
    BY <1>1, <2>1, LeastNumber
<1>3. n \in Nat /\ ~ \E f : Right(n, f)
  OBVIOUS
<1>4. n # 0
  <2>1. Right(0, [i \in 0 .. 0 |-> c])
    OBVIOUS
  <2>2. QED
    BY <1>3, <2>1
<1>5. PICK g : Right(n - 1, g)
  <2>1. n - 1 \in Nat /\ ~ (n <= n - 1)
    BY <1>3, <1>4
  <2>2. n - 1 \notin Bad
    BY <1>2, <2>1
  <2>3. QED
    BY <2>1, <2>2
<1> DEFINE f == [i \in 0 .. n |-> IF i = n THEN F[g[n - 1]] ELSE g[i]]
<1>6. f \in [0 .. n -> S]
  BY <1>3, <1>4, <1>5
<1>7. f[0] = c
  BY <1>3, <1>4, <1>5
<1>8. \A i \in 1 .. n : f[i] = F[f[i - 1]]
  BY <1>3, <1>4, <1>5
<1>9. Right(n, f)
  <2> HIDE DEF f
  <2>1. QED
    BY <1>6, <1>7, <1>8
<1>10. QED
  BY <1>3, <1>9

-----------------------------------------------------------------------------
(* Ways *)

IsWay(where, start, way) ==
  /\ way \in Seq(Tiles) /\ Len(way) >= 1 /\ way[1] = start
  /\ \A i \in 2 .. Len(way) : way[i] \in where /\ Distance(way[i - 1], way[i]) = 1
  /\ \A i, j \in 1 .. Len(way) : i < j => way[i] # way[j]

\* Whether a way can go on to t.
GoesOn(where, way, t) == t \in where \ Range(way) /\ Distance(t, Last(way)) = 1

LEMMA WayExtended ==
  ASSUME NEW where \in SUBSET Tiles, NEW start \in Tiles,
         NEW way, IsWay(where, start, way), NEW t, GoesOn(where, way, t)
  PROVE  IsWay(where, start, Append(way, t)) /\ Len(Append(way, t)) = Len(way) + 1
<1> DEFINE longer == Append(way, t)
           n == Len(way)
<1>1. way \in Seq(Tiles) /\ n \in Nat /\ n >= 1 /\ DOMAIN way = 1 .. n /\ t \in Tiles
  BY LenProperties DEF IsWay, GoesOn
<1>2. /\ longer \in Seq(Tiles) /\ Len(longer) = n + 1
      /\ \A i \in 1 .. n : longer[i] = way[i]
      /\ longer[n + 1] = t
  BY <1>1, AppendProperties
<1> HIDE DEF longer
<1>3. \A i \in 1 .. n : way[i] \in Tiles /\ way[i] # t
  BY <1>1 DEF GoesOn, Range
<1>4. Distance(way[n], t) = 1
  <2>1. way[n] \in Tiles /\ Distance(t, way[n]) = 1
    BY <1>1, <1>3 DEF GoesOn, Last
  <2>2. QED
    BY <1>1, <2>1, OneStep
<1>5. \A i \in 2 .. n + 1 : longer[i] \in where /\ Distance(longer[i - 1], longer[i]) = 1
  <2> SUFFICES ASSUME NEW i \in 2 .. n + 1
               PROVE  longer[i] \in where /\ Distance(longer[i - 1], longer[i]) = 1
    OBVIOUS
  <2>1. CASE i = n + 1
    <3>1. longer[i] = t /\ longer[i - 1] = way[n] /\ t \in where
      BY <1>1, <1>2, <2>1 DEF GoesOn
    <3>2. QED
      BY <1>4, <3>1
  <2>2. CASE i # n + 1
    <3>1. i \in 2 .. n /\ longer[i] = way[i] /\ longer[i - 1] = way[i - 1]
      BY <1>1, <1>2, <2>2
    <3>2. QED
      BY <3>1 DEF IsWay
  <2>3. QED
    BY <2>1, <2>2
<1>6. \A i, j \in 1 .. n + 1 : i < j => longer[i] # longer[j]
  <2> SUFFICES ASSUME NEW i \in 1 .. n + 1, NEW j \in 1 .. n + 1, i < j
               PROVE  longer[i] # longer[j]
    OBVIOUS
  <2>1. CASE j = n + 1
    BY <1>1, <1>2, <1>3, <2>1
  <2>2. CASE j # n + 1
    BY <1>1, <1>2, <2>2 DEF IsWay
  <2>3. QED
    BY <2>1, <2>2
<1>7. longer[1] = start
  BY <1>1, <1>2 DEF IsWay
<1>8. QED
  BY <1>1, <1>2, <1>5, <1>6, <1>7 DEF IsWay, longer

\* A way of more than one tile is a shorter one that went on.
LEMMA WayShortened ==
  ASSUME NEW where \in SUBSET Tiles, NEW start \in Tiles,
         NEW way, IsWay(where, start, way), Len(way) > 1
  PROVE  \E shorter, t :
           /\ IsWay(where, start, shorter) /\ GoesOn(where, shorter, t)
           /\ way = Append(shorter, t) /\ Len(shorter) = Len(way) - 1
<1> DEFINE n == Len(way)
           shorter == SubSeq(way, 1, n - 1)
           t == way[n]
<1>1. way \in Seq(Tiles) /\ n \in Nat /\ n > 1 /\ DOMAIN way = 1 .. n
      /\ \A i \in 1 .. n : way[i] \in Tiles
  BY LenProperties, ElementOfSeq DEF IsWay
<1>2. /\ shorter \in Seq(Tiles) /\ Len(shorter) = n - 1
      /\ \A i \in 1 .. n - 1 : shorter[i] = way[i]
  BY <1>1, SubSeqProperties
<1> HIDE DEF shorter
<1>3. DOMAIN shorter = 1 .. n - 1
  BY <1>2, LenProperties
<1>4. IsWay(where, start, shorter)
  BY <1>1, <1>2 DEF IsWay
<1>5. GoesOn(where, shorter, t)
  <2>1. t \in where
    BY <1>1 DEF IsWay
  <2>2. t \notin Range(shorter)
    BY <1>1, <1>2, <1>3 DEF IsWay, Range
  <2>3. Last(shorter) = way[n - 1]
    BY <1>1, <1>2 DEF Last
  <2>4. Distance(way[n - 1], t) = 1
    BY <1>1 DEF IsWay
  <2>5. way[n - 1] \in Tiles
    BY <1>1
  <2>6. Distance(t, way[n - 1]) = 1
    BY <1>1, <2>4, <2>5, OneStep
  <2>7. QED
    BY <2>1, <2>2, <2>3, <2>6 DEF GoesOn
<1>6. way = Append(shorter, t)
  <2> DEFINE longer == Append(shorter, t)
  <2>1. /\ longer \in Seq(Tiles) /\ Len(longer) = (n - 1) + 1
        /\ \A i \in 1 .. n - 1 : longer[i] = shorter[i]
        /\ longer[(n - 1) + 1] = t
    <3>1. t \in Tiles /\ n - 1 \in Nat
      BY <1>1
    <3> HIDE DEF t
    <3>2. /\ longer \in Seq(Tiles) /\ Len(longer) = Len(shorter) + 1
          /\ \A i \in 1 .. Len(shorter) : longer[i] = shorter[i]
          /\ longer[Len(shorter) + 1] = t
      BY <1>2, <3>1, AppendProperties
    <3> HIDE DEF longer
    <3>3. QED
      BY <1>2, <3>2
  <2> HIDE DEF longer
  <2>2. Len(longer) = n /\ \A i \in 1 .. n : longer[i] = way[i]
    BY <1>1, <1>2, <2>1
  <2>3. longer = way
    BY <1>1, <2>1, <2>2, SeqEqual
  <2>4. QED
    BY <2>3 DEF longer
<1>7. QED
  BY <1>2, <1>4, <1>5, <1>6

\* A way through finitely many tiles is no longer than they allow.
LEMMA WayIsShort ==
  ASSUME NEW where \in SUBSET Tiles, NEW start \in Tiles, NEW way, IsWay(where, start, way)
  PROVE  Len(way) <= Cardinality(where) + 1 /\ Cardinality(where) \in Nat
<1> DEFINE n == Len(way)
           I == 2 .. n
           f == [i \in I |-> way[i]]
<1>1. n \in Nat /\ n >= 1
  BY LenProperties DEF IsWay
<1>2. IsFiniteSet(where) /\ Cardinality(where) \in Nat
  BY TilesFinite, FS_Subset, FS_CardinalityType
<1>3. f \in Injection(I, where)
  <2>1. f \in [I -> where]
    BY DEF IsWay
  <2>2. \A i, j \in I : f[i] = f[j] => i = j
    <3> SUFFICES ASSUME NEW i \in I, NEW j \in I, f[i] = f[j], i # j PROVE FALSE
      OBVIOUS
    <3>1. i \in 1 .. n /\ j \in 1 .. n /\ way[i] = way[j]
      BY <1>1
    <3>2. CASE i < j
      BY <3>1, <3>2 DEF IsWay
    <3>3. CASE j < i
      BY <3>1, <3>3 DEF IsWay
    <3>4. QED
      BY <1>1, <3>2, <3>3
  <2> HIDE DEF f, I
  <2>3. QED
    BY <2>1, <2>2 DEF Injection, IsInjective
<1>4. Cardinality(I) <= Cardinality(where)
  <2> HIDE DEF f, I
  <2>1. QED
    BY <1>2, <1>3, FS_Injection
<1>5. Cardinality(I) = n - 1
  <2>1. 2 \in Int /\ n \in Int
    BY <1>1
  <2>2. Cardinality(2 .. n) = IF 2 > n THEN 0 ELSE n - 2 + 1
    BY <2>1, FS_Interval, Zenon
  <2>3. QED
    BY <1>1, <2>2
<1>6. QED
  <2> HIDE DEF I
  <2>1. QED
    BY <1>1, <1>2, <1>4, <1>5

\* The ways one step longer that a set of ways goes on to, and itself.
Longer(where, ways) ==
  ways \union UNION {{Append(way, t) : t \in {u \in where \ Range(way) :
                                               Distance(u, Last(way)) = 1}} : way \in ways}

LEMMA LongerIs ==
  ASSUME NEW where \in SUBSET Tiles, NEW ways \in SUBSET Seq(Tiles)
  PROVE  /\ Longer(where, ways) \in SUBSET Seq(Tiles)
         /\ \A w : w \in Longer(where, ways) <=>
              \/ w \in ways
              \/ \E way \in ways, t \in where : GoesOn(where, way, t) /\ w = Append(way, t)
<1>1. \A w : w \in Longer(where, ways) <=>
        \/ w \in ways
        \/ \E way \in ways, t \in where : GoesOn(where, way, t) /\ w = Append(way, t)
  BY DEF Longer, GoesOn
<1>2. \A way \in ways, t \in where : Append(way, t) \in Seq(Tiles)
  BY AppendProperties
<1>3. ASSUME NEW w \in Longer(where, ways) PROVE w \in Seq(Tiles)
  BY <1>1, <1>2
<1>4. QED
  BY <1>1, <1>3

\* Ways finds every way and nothing else.
LEMMA WaysAre ==
  ASSUME NEW where \in SUBSET Tiles, NEW start \in Tiles
  PROVE  \A way : way \in Ways(where, start) <=> IsWay(where, start, way)
<1> DEFINE N == Cardinality(where)
           S == SUBSET Seq(Tiles)
           F == [ways \in S |-> Longer(where, ways)]
           Is(f) == f = [n \in 0 .. N |-> IF n = 0 THEN {<<start>>}
                                          ELSE Longer(where, f[n - 1])]
           upTo == CHOOSE f : Is(f)
<1>1. N \in Nat
  BY TilesFinite, FS_Subset, FS_CardinalityType
<1>2. Ways(where, start) = upTo[N]
  BY DEF Ways, Longer
<1>3. <<start>> \in Seq(Tiles)
  OBVIOUS
<1>4. F \in [S -> S]
  BY LongerIs
<1>5. \E f : Is(f)
  <2> DEFINE c == {<<start>>}
  <2>1. c \in S
    BY <1>3
  <2> HIDE DEF c, F, S, N
  <2>2. PICK f : f \in [0 .. N -> S] /\ f[0] = c /\ \A n \in 1 .. N : f[n] = F[f[n - 1]]
    <3>1. \E f : Iterates(f, S, c, F, N)
      BY ONLY <1>1, <1>4, <2>1, Iterated
    <3>2. QED
      BY <3>1 DEF Iterates
  <2>3. \A n \in 1 .. N : f[n] = Longer(where, f[n - 1])
    <3> SUFFICES ASSUME NEW n \in 1 .. N PROVE f[n] = Longer(where, f[n - 1])
      OBVIOUS
    <3>1. f[n - 1] \in S
      BY <1>1, <2>2
    <3>2. QED
      BY <2>2, <3>1 DEF F
  <2>4. Is(f)
    BY <1>1, <2>2, <2>3 DEF c
  <2>5. QED
    BY <2>4
<1>6. Is(upTo)
  <2> HIDE DEF Is
  <2>1. QED
    BY <1>5
<1> HIDE DEF upTo, Is, F
<1>7. /\ upTo[0] = {<<start>>}
      /\ \A n \in 1 .. N : upTo[n] = Longer(where, upTo[n - 1])
  <2> HIDE DEF N
  <2>1. upTo = [n \in 0 .. N |-> IF n = 0 THEN {<<start>>} ELSE Longer(where, upTo[n - 1])]
    BY <1>6 DEF Is
  <2>2. 0 \in 0 .. N /\ \A n \in 1 .. N : n \in 0 .. N /\ n # 0
    BY <1>1
  <2>3. QED
    BY <2>1, <2>2
<1> DEFINE Short(n) == {way \in Seq(Tiles) : IsWay(where, start, way) /\ Len(way) <= n + 1}
           Bad == {n \in 0 .. N : upTo[n] # Short(n)}
<1>8. ASSUME Bad # {} PROVE FALSE
  <2>1. PICK n \in Bad : \A m \in Bad : n <= m
    <3>1. Bad \in SUBSET Nat
      OBVIOUS
    <3> HIDE DEF Bad
    <3>2. QED
      BY <1>8, <3>1, LeastNumber
  <2>2. n \in 0 .. N /\ upTo[n] # Short(n)
    OBVIOUS
  <2>3. Short(0) = {<<start>>}
    <3>1. ASSUME NEW way \in Short(0) PROVE way = <<start>>
      <4>1. way \in Seq(Tiles) /\ Len(way) <= 0 + 1 /\ Len(way) >= 1 /\ way[1] = start
        BY DEF IsWay
      <4>2. Len(way) = 1 /\ <<start>> \in Seq(Tiles) /\ Len(<<start>>) = 1
        <5>1. Len(way) \in Nat
          BY <4>1, LenProperties
        <5> DEFINE m == Len(way)
        <5>2. m \in Nat /\ m <= 0 + 1 /\ m >= 1
          BY <4>1, <5>1
        <5> HIDE DEF m
        <5>3. m = 1
          BY <5>2
        <5>4. QED
          BY <1>3, <5>3 DEF m
      <4>3. QED
        BY <4>1, <4>2, SeqEqual
    <3>2. IsWay(where, start, <<start>>) /\ Len(<<start>>) = 1
      BY <1>3 DEF IsWay
    <3>3. <<start>> \in Short(0)
      BY <1>3, <3>2
    <3> HIDE DEF Short
    <3>4. QED
      BY <3>1, <3>3
  <2>4. n # 0
    BY <1>7, <2>2, <2>3
  <2>5. upTo[n - 1] = Short(n - 1)
    <3>1. n - 1 \in 0 .. N /\ ~ (n <= n - 1)
      BY <1>1, <2>2, <2>4
    <3>2. QED
      BY <2>1, <3>1
  <2> DEFINE short == Short(n - 1)
  <2>6. upTo[n] = Longer(where, short)
    <3>1. n \in 1 .. N
      BY <1>1, <2>2, <2>4
    <3> HIDE DEF Short
    <3>2. QED
      BY <1>7, <2>5, <3>1
  <2>7. short \in SUBSET Seq(Tiles)
    OBVIOUS
  <2>8. ASSUME NEW w \in Longer(where, short) PROVE w \in Short(n)
    <3>1. CASE w \in short
      BY <1>1, <2>2, <3>1, LenProperties
    <3>2. CASE \E way \in short, t \in where : GoesOn(where, way, t) /\ w = Append(way, t)
      <4>1. PICK way \in short, t \in where : GoesOn(where, way, t) /\ w = Append(way, t)
        BY <3>2
      <4>2. IsWay(where, start, way) /\ Len(way) <= n /\ Len(way) \in Nat
        BY <1>1, <2>2, LenProperties
      <4>3. IsWay(where, start, w) /\ Len(w) = Len(way) + 1
        BY <4>1, <4>2, WayExtended
      <4>4. QED
        BY <1>1, <2>2, <4>2, <4>3 DEF IsWay
    <3> HIDE DEF short, Short
    <3>a. \A v : v \in Longer(where, short) <=>
            \/ v \in short
            \/ \E way \in short, t \in where : GoesOn(where, way, t) /\ v = Append(way, t)
      BY <2>7, LongerIs
    <3>3. \/ w \in short
          \/ \E way \in short, t \in where : GoesOn(where, way, t) /\ w = Append(way, t)
      BY <3>a
    <3>4. QED
      BY <3>1, <3>2, <3>3
  <2>9. ASSUME NEW w \in Short(n) PROVE w \in Longer(where, short)
    <3>1. IsWay(where, start, w) /\ Len(w) <= n + 1 /\ Len(w) \in Nat /\ Len(w) >= 1
      BY LenProperties DEF IsWay
    <3>2. CASE Len(w) = 1
      <4>1. w \in short
        <5>1. w \in Seq(Tiles) /\ Len(w) <= (n - 1) + 1
          BY <1>1, <2>2, <2>4, <3>1, <3>2
        <5>2. QED
          BY <3>1, <5>1
      <4> HIDE DEF short
      <4>2. QED
        BY <2>7, <4>1, LongerIs
    <3>3. CASE Len(w) > 1
      <4>1. PICK way, t : /\ IsWay(where, start, way) /\ GoesOn(where, way, t)
                          /\ w = Append(way, t) /\ Len(way) = Len(w) - 1
        BY <3>1, <3>3, WayShortened
      <4>2. way \in short
        BY <1>1, <2>2, <3>1, <4>1 DEF IsWay
      <4>3. t \in where
        BY <4>1 DEF GoesOn
      <4> HIDE DEF short
      <4>4. QED
        BY <2>7, <4>1, <4>2, <4>3, LongerIs
    <3>4. Len(w) = 1 \/ Len(w) > 1
      <4> DEFINE m == Len(w)
      <4>1. m \in Nat /\ m >= 1
        BY <3>1
      <4> HIDE DEF m
      <4>2. m = 1 \/ m > 1
        BY <4>1
      <4>3. QED
        BY <4>2 DEF m
    <3>5. QED
      BY <3>2, <3>3, <3>4
  <2>10. QED
    BY <2>2, <2>6, <2>8, <2>9
<1>9. upTo[N] = Short(N)
  BY <1>1, <1>8
<1>10. ASSUME NEW way PROVE IsWay(where, start, way) <=> way \in Short(N)
  <2>1. IsWay(where, start, way) => way \in Seq(Tiles) /\ Len(way) <= N + 1
    BY WayIsShort DEF IsWay
  <2>2. QED
    BY <2>1
<1>11. QED
  BY <1>2, <1>9, <1>10

-----------------------------------------------------------------------------
(* The trail of a search *)

PassableOn(map) == {t \in Tiles : map[t] \in Passable}

\* What came from where, and at what cost, while a search goes on.
TreeOK(map, s, start) ==
  /\ s.cost[start] = 0 /\ s.from[start] = None
  /\ \A t \in Tiles : s.from[t] # None =>
       /\ s.from[t] \in s.closed
       /\ s.cost[t] \in Nat /\ s.cost[s.from[t]] \in Nat
       /\ s.cost[s.from[t]] < s.cost[t]
       /\ Distance(s.from[t], t) = 1 /\ map[t] \in Passable
  /\ \A t \in Tiles : s.cost[t] # None /\ t # start => s.from[t] # None

\* From the tile that came from nowhere to t, as far as To knows.
Back(from, To, t) == IF from[t] = None THEN <<t>> ELSE Append(To[from[t]], t)

\* Going back never goes round in a circle, because it gets cheaper.
LEMMA TrailExists ==
  ASSUME NEW map \in Maps, NEW s \in Searches, NEW start \in Tiles, TreeOK(map, s, start)
  PROVE  \E To : To = [t \in Tiles |-> Back(s.from, To, t)]
<1> DEFINE from == s.from
           Is(S, f) == f = [t \in S |-> Back(from, f, t)]
           Good(S) == (\A t \in S : from[t] # None => from[t] \in S) /\ \E f : Is(S, f)
           X == {R \in SUBSET Tiles : Good(Tiles \ R)}
<1>1. Tiles \in X
  <2>1. Is({}, [t \in {} |-> None])
    OBVIOUS
  <2>2. Good({})
    BY <2>1
  <2>3. Tiles \ Tiles = {}
    OBVIOUS
  <2> HIDE DEF Good
  <2>4. QED
    BY <2>2, <2>3
<1>2. PICK R \in X : \A r \in X : r \subseteq R => r = R
  <2>1. X \subseteq SUBSET Tiles /\ X # {}
    BY <1>1
  <2> HIDE DEF X
  <2>2. \E R \in X : \A r \in X : r \subseteq R => r = R
    BY ONLY <2>1, TilesFinite, SmallestSet
  <2>3. QED
    BY <2>2
<1> DEFINE S == Tiles \ R
<1>3. R \in SUBSET Tiles /\ Good(S)
  OBVIOUS
<1>4. CASE R = {}
  <2>1. S = Tiles
    BY <1>4
  <2>2. PICK f : Is(S, f)
    BY <1>3
  <2>3. QED
    BY <2>1, <2>2
<1>5. CASE R # {}
  <2>1. \E t \in R : from[t] # None => from[t] \in S
    <3>1. CASE \E t \in R : from[t] = None
      BY <3>1
    <3>2. CASE \A t \in R : from[t] # None
      <4>1. \A t \in R : /\ from[t] \in Tiles /\ s.cost[t] \in Nat
                         /\ s.cost[from[t]] \in Nat /\ s.cost[from[t]] < s.cost[t]
        BY <1>3, <3>2 DEF TreeOK, Searches
      <4> DEFINE costs == {s.cost[t] : t \in R}
      <4>2. costs \in SUBSET Nat /\ costs # {}
        BY <1>5, <4>1
      <4>3. PICK c \in costs : \A d \in costs : c <= d
        <5> HIDE DEF costs
        <5>1. QED
          BY <4>2, LeastNumber
      <4>4. PICK t \in R : s.cost[t] = c
        BY <4>3
      <4>5. from[t] \notin R
        <5>1. SUFFICES ASSUME from[t] \in R PROVE FALSE
          OBVIOUS
        <5>2. c <= s.cost[from[t]]
          BY <4>3, <5>1
        <5>3. QED
          BY <4>1, <4>4, <5>2
      <4>6. QED
        BY <4>1, <4>5
    <3>3. QED
      BY <3>1, <3>2
  <2>2. PICK t \in R : from[t] # None => from[t] \in S
    BY <2>1
  <2>3. PICK f : Is(S, f)
    BY <1>3
  <2> DEFINE T == S \union {t}
             g == [u \in T |-> IF u = t THEN Back(from, f, t) ELSE f[u]]
  <2>4. t \notin S /\ Tiles \ (R \ {t}) = T
    BY <1>3
  <2>5. \A u \in S : from[u] # None => from[u] \in S
    BY <1>3
  <2>6. \A u \in T : g[u] = Back(from, g, u)
    <3> SUFFICES ASSUME NEW u \in T PROVE g[u] = Back(from, g, u)
      OBVIOUS
    <3>1. from[u] # None => from[u] \in S /\ g[from[u]] = f[from[u]]
      BY <2>2, <2>4, <2>5
    <3>2. Back(from, g, u) = Back(from, f, u)
      BY <3>1 DEF Back
    <3>3. CASE u = t
      BY <3>2, <3>3
    <3>4. CASE u # t
      <4>1. u \in S /\ g[u] = f[u]
        BY <3>4
      <4>2. f[u] = Back(from, f, u)
        BY <2>3, <4>1
      <4>3. QED
        BY <3>2, <4>1, <4>2
    <3>5. QED
      BY <3>3, <3>4
  <2>7. Is(T, g)
    <3>1. g = [u \in T |-> g[u]]
      OBVIOUS
    <3> HIDE DEF g, T
    <3>2. QED
      BY <2>6, <3>1
  <2>8. Good(T)
    <3>1. \A u \in T : from[u] # None => from[u] \in T
      BY <2>2, <2>5
    <3> HIDE DEF Is, T
    <3>2. QED
      BY <2>7, <3>1
  <2>9. R \ {t} \in X
    <3>1. Good(Tiles \ (R \ {t}))
      <4> HIDE DEF Good, T
      <4>1. QED
        BY <2>4, <2>8
    <3> HIDE DEF Good
    <3>2. QED
      BY <1>3, <3>1
  <2>10. R \ {t} = R
    <3> HIDE DEF X
    <3>1. QED
      BY <1>2, <2>9
  <2>11. QED
    BY <2>10
<1>6. QED
  BY <1>4, <1>5

\* The trail from a tile that was reached is a way to it.
LEMMA TrailIsWay ==
  ASSUME NEW map \in Maps, NEW s \in Searches, NEW start \in Tiles, TreeOK(map, s, start),
         NEW goal \in Tiles, s.cost[goal] # None
  PROVE  /\ IsWay(PassableOn(map), start, Trail(s.from, goal))
         /\ Last(Trail(s.from, goal)) = goal
<1> DEFINE where == PassableOn(map)
           Is(f) == f = [t \in Tiles |-> Back(s.from, f, t)]
           To == CHOOSE f : Is(f)
<1>1. Trail(s.from, goal) = To[goal]
  BY DEF Trail, Back
<1>2. \E f : Is(f)
  BY TrailExists
<1>3. Is(To)
  <2> HIDE DEF Is
  <2>1. QED
    BY <1>2
<1> HIDE DEF To
<1>4. \A t \in Tiles : To[t] = Back(s.from, To, t)
  BY <1>3
<1> HIDE DEF Is
<1> DEFINE Led(t) ==
             /\ IsWay(where, start, To[t]) /\ Last(To[t]) = t
             /\ \A i \in 1 .. Len(To[t]) : /\ s.cost[To[t][i]] \in Nat
                                           /\ s.cost[To[t][i]] <= s.cost[t]
           Bad == {t \in Tiles : s.cost[t] # None /\ ~ Led(t)}
<1>5. where \in SUBSET Tiles
  BY DEF PassableOn
<1>6. \A t \in Tiles : s.cost[t] # None => s.cost[t] \in Nat
  BY DEF Searches
<1>7. ASSUME Bad # {} PROVE FALSE
  <2> DEFINE costs == {s.cost[t] : t \in Bad}
  <2>1. costs \in SUBSET Nat /\ costs # {}
    BY <1>6, <1>7
  <2>2. PICK c \in costs : \A d \in costs : c <= d
    <3> HIDE DEF costs
    <3>1. QED
      BY <2>1, LeastNumber
  <2>3. PICK t \in Bad : s.cost[t] = c
    OBVIOUS
  <2>4. t \in Tiles /\ s.cost[t] \in Nat /\ ~ Led(t)
    BY <1>6
  <2>5. t # start
    <3> SUFFICES ASSUME t = start PROVE FALSE
      OBVIOUS
    <3>1. To[t] = <<start>> /\ s.cost[start] = 0
      BY <1>4 DEF Back, TreeOK
    <3>2. IsWay(where, start, <<start>>) /\ Last(<<start>>) = start /\ Len(<<start>>) = 1
      BY DEF IsWay, Last
    <3>3. \A i \in 1 .. Len(To[t]) : To[t][i] = start
      BY <3>1, <3>2
    <3>4. Led(t)
      BY <3>1, <3>2, <3>3
    <3>5. QED
      BY <2>4, <3>4
  <2> DEFINE p == s.from[t]
  <2>6. /\ p # None /\ p \in Tiles /\ s.cost[p] \in Nat /\ s.cost[p] < s.cost[t]
        /\ Distance(p, t) = 1 /\ t \in where
    BY <2>4, <2>5 DEF TreeOK, Searches, PassableOn
  <2>7. Led(p)
    <3>1. p \notin Bad
      <4> SUFFICES ASSUME p \in Bad PROVE FALSE
        OBVIOUS
      <4>1. s.cost[t] <= s.cost[p]
        BY <2>2, <2>3
      <4>2. QED
        BY <2>4, <2>6, <4>1
    <3>2. s.cost[p] # None
      BY <2>6, SearchAssumption
    <3> HIDE DEF Led
    <3>3. QED
      BY <2>6, <3>1, <3>2
  <2> DEFINE way == To[p]
             n == Len(way)
  <2>8. To[t] = Append(way, t)
    BY <1>4, <2>4, <2>6 DEF Back
  <2>9. way \in Seq(Tiles) /\ n \in Nat /\ DOMAIN way = 1 .. n
    BY <2>7, LenProperties DEF IsWay
  <2>10. GoesOn(where, way, t)
    <3>1. t \notin Range(way)
      <4>1. \A i \in 1 .. n : way[i] # t
        <5> SUFFICES ASSUME NEW i \in 1 .. n, way[i] = t PROVE FALSE
          OBVIOUS
        <5>1. s.cost[way[i]] <= s.cost[p]
          BY <2>7
        <5> HIDE DEF Led, way, n, p
        <5>2. QED
          BY <2>4, <2>6, <5>1
      <4> HIDE DEF way, n
      <4>2. QED
        BY <2>9, <4>1 DEF Range
    <3>2. Distance(t, p) = 1
      BY <2>4, <2>6, OneStep
    <3>3. QED
      BY <2>6, <2>7, <3>1, <3>2 DEF GoesOn
  <2>11. IsWay(where, start, To[t]) /\ Len(To[t]) = n + 1
    <3> HIDE DEF Led, where, way, n
    <3>1. IsWay(where, start, way)
      BY <2>7 DEF Led, way
    <3>2. QED
      BY <1>5, <2>8, <2>10, <3>1, WayExtended DEF n
  <2>12. \A i \in 1 .. n + 1 : To[t][i] = IF i = n + 1 THEN t ELSE way[i]
    <3> HIDE DEF way, n
    <3>1. /\ Append(way, t) \in Seq(Tiles)
          /\ \A i \in 1 .. Len(way) : Append(way, t)[i] = way[i]
          /\ Append(way, t)[Len(way) + 1] = t
      BY <2>4, <2>9, AppendProperties
    <3>2. QED
      BY <2>8, <2>9, <3>1 DEF n
  <2>13. \A i \in 1 .. n : s.cost[way[i]] \in Nat /\ s.cost[way[i]] <= s.cost[p]
    BY <2>7
  <2>14. Led(t)
    <3> HIDE DEF way, n, p, where
    <3>1. Last(To[t]) = t
      BY <2>9, <2>11, <2>12 DEF Last
    <3>2. \A i \in 1 .. n + 1 : s.cost[To[t][i]] \in Nat /\ s.cost[To[t][i]] <= s.cost[t]
      <4> SUFFICES ASSUME NEW i \in 1 .. n + 1
                   PROVE  s.cost[To[t][i]] \in Nat /\ s.cost[To[t][i]] <= s.cost[t]
        OBVIOUS
      <4>1. CASE i = n + 1
        BY <2>4, <2>12, <4>1
      <4>2. CASE i # n + 1
        <5>1. i \in 1 .. n /\ To[t][i] = way[i]
          BY <2>9, <2>12, <4>2
        <5>2. QED
          BY <2>4, <2>6, <2>13, <5>1
      <4>3. QED
        BY <4>1, <4>2
    <3>3. QED
      BY <2>11, <3>1, <3>2
  <2>15. QED
    BY <2>4, <2>14
<1>8. Led(goal)
  BY <1>7
<1>9. QED
  BY <1>1, <1>8

-----------------------------------------------------------------------------
(* A search on one map *)

\* Every tile that was reached is closed or on the heap.
HeapOK(s) ==
  /\ IsFiniteSet(s.open)
  /\ \A e \in s.open : s.cost[e.tile] # None
  /\ \A t \in Tiles \ s.closed : s.cost[t] # None => \E e \in s.open : e.tile = t

\* What is next to a closed tile was reached.
EdgeOK(map, s) ==
  \A t \in s.closed :
    /\ s.cost[t] # None
    /\ \A n \in Tiles : Distance(t, n) = 1 /\ map[n] \in Passable => s.cost[n] # None

Going(map, s, start) ==
  /\ TreeOK(map, s, start) /\ HeapOK(s) /\ EdgeOK(map, s)
  /\ s.goal \notin s.closed

\* A search that has gone on on one map only.
SearchInv(map, s, start, goal) ==
  /\ s \in Searches /\ s.goal = goal
  /\ IF s.done THEN Truthful(map, s.path, start, goal) ELSE Going(map, s, start)

\* A way is one of the ways between its ends.
LEMMA WaysBetweenAre ==
  ASSUME NEW map \in Maps, NEW start \in Tiles, NEW goal \in Tiles
  PROVE  \A way : way \in WaysBetween(map, start, goal) <=>
           IsWay(PassableOn(map), start, way) /\ Last(way) = goal
<1>1. PassableOn(map) \in SUBSET Tiles
  BY DEF PassableOn
<1>2. \A way : way \in Ways(PassableOn(map), start) <=> IsWay(PassableOn(map), start, way)
  BY <1>1, WaysAre
<1>3. QED
  BY <1>2 DEF WaysBetween, PassableOn

\* A search that has nothing on its heap has been everywhere.
LEMMA NothingLeft ==
  ASSUME NEW map \in Maps, NEW s \in Searches, NEW start \in Tiles,
         Going(map, s, start), s.open = {}
  PROVE  WaysBetween(map, start, s.goal) = {}
<1>1. s.goal \in Tiles
  BY DEF Searches
<1> SUFFICES ASSUME NEW way \in WaysBetween(map, start, s.goal) PROVE FALSE
  OBVIOUS
<1>2. IsWay(PassableOn(map), start, way) /\ Last(way) = s.goal
  BY <1>1, WaysBetweenAre
<1> DEFINE n == Len(way)
           Off == {i \in 1 .. n : way[i] \notin s.closed}
<1>3. n \in Nat /\ n >= 1 /\ \A i \in 1 .. n : way[i] \in Tiles
  BY <1>2, LenProperties, ElementOfSeq DEF IsWay
<1>4. \A t \in Tiles : s.cost[t] # None => t \in s.closed
  BY DEF Going, HeapOK
<1>5. n \in Off
  BY <1>2, <1>3 DEF Last, Going
<1>6. PICK i \in Off : \A j \in Off : i <= j
  <2>1. Off \in SUBSET Nat /\ Off # {}
    BY <1>3, <1>5
  <2> HIDE DEF Off
  <2>2. QED
    BY <2>1, LeastNumber
<1>7. i \in 1 .. n /\ way[i] \notin s.closed
  OBVIOUS
<1>8. i # 1
  <2>1. s.cost[start] # None
    BY SearchAssumption DEF Going, TreeOK
  <2>2. QED
    BY <1>2, <1>4, <1>7, <2>1 DEF IsWay
<1>9. i - 1 \in 1 .. n /\ way[i - 1] \in s.closed
  <2>1. i - 1 \in 1 .. n /\ ~ (i <= i - 1)
    BY <1>3, <1>7, <1>8
  <2>2. i - 1 \notin Off
    BY <1>6, <2>1
  <2>3. QED
    BY <2>1, <2>2
<1>10. Distance(way[i - 1], way[i]) = 1 /\ map[way[i]] \in Passable /\ way[i] \in Tiles
  <2>1. i \in 2 .. n
    BY <1>3, <1>7, <1>8
  <2>2. QED
    BY <1>2, <1>3, <1>7, <2>1 DEF IsWay, PassableOn
<1>11. s.cost[way[i]] # None
  BY <1>9, <1>10 DEF Going, EdgeOK
<1>12. QED
  BY <1>4, <1>7, <1>10, <1>11

\* A search begins right.
LEMMA BegunRight ==
  ASSUME NEW map \in Maps, NEW start \in Tiles, NEW goal \in Tiles
  PROVE  /\ SearchInv(map, Began(start, goal), start, goal)
         /\ Began(start, goal).inserted = 1
         /\ Began(start, goal).closed = {}
         /\ IsFiniteSet(Began(start, goal).open) /\ Cardinality(Began(start, goal).open) = 1
<1> DEFINE s == Began(start, goal)
           first == Entry(Estimate * Distance(start, goal), 0, start)
           cost == [t \in Tiles |-> IF t = start THEN 0 ELSE None]
           from == [t \in Tiles |-> None]
           path == IF start = goal THEN <<start>> ELSE NoPath
           done == start = goal
<1>1. first \in Entries /\ first.tile = start
  <2> DEFINE rank == Estimate * Distance(start, goal)
  <2>1. rank \in Nat
    <3>1. Estimate \in Nat /\ Distance(start, goal) \in Nat
      BY OneStep, SearchAssumption
    <3>2. QED
      BY <3>1
  <2> HIDE DEF rank
  <2>2. Entry(rank, 0, start) \in Entries /\ Entry(rank, 0, start).tile = start
    BY <2>1 DEF Entry, Entries
  <2>3. QED
    BY <2>2 DEF rank
<1>2. path \in Seq(Tiles) /\ done \in BOOLEAN
  BY DEF NoPath
<1>3. cost \in [Tiles -> Nat \union {None}] /\ from \in [Tiles -> Tiles \union {None}]
  OBVIOUS
<1>4. s = [goal |-> goal, open |-> {first}, inserted |-> 1, cost |-> cost, from |-> from,
           closed |-> {}, done |-> done, path |-> path]
  BY DEF Began
<1> HIDE DEF s, first, cost, from, path, done
<1>5. /\ s \in Searches
      /\ s.goal = goal /\ s.open = {first} /\ s.inserted = 1 /\ s.cost = cost /\ s.from = from
      /\ s.closed = {} /\ s.done = done /\ s.path = path
  BY <1>1, <1>2, <1>3, <1>4 DEF Searches
<1>6. IsFiniteSet(s.open) /\ Cardinality(s.open) = 1
  BY <1>5, FS_Singleton
<1>7. SearchInv(map, s, start, goal)
  <2>1. CASE start = goal
    <3>1. IsWay(PassableOn(map), start, <<start>>) /\ Last(<<start>>) = goal
      BY <2>1 DEF IsWay, Last
    <3>2. <<start>> \in WaysBetween(map, start, goal)
      BY <3>1, WaysBetweenAre
    <3>3. Truthful(map, <<start>>, start, goal)
      BY <3>2 DEF Truthful
    <3>4. s.done = TRUE /\ s.path = <<start>>
      BY <1>5, <2>1 DEF done, path
    <3>5. QED
      BY <1>5, <3>3, <3>4 DEF SearchInv
  <2>2. CASE start # goal
    <3>1. s.done = FALSE
      BY <1>5, <2>2 DEF done
    <3>2. s.cost[start] = 0 /\ \A t \in Tiles : s.from[t] = None /\ (t # start => s.cost[t] = None)
      BY <1>5 DEF cost, from
    <3>3. TreeOK(map, s, start)
      BY <3>2 DEF TreeOK
    <3>4. 0 # None
      BY SearchAssumption
    <3>5. HeapOK(s)
      BY <1>1, <1>5, <1>6, <3>2, <3>4 DEF HeapOK
    <3>6. EdgeOK(map, s) /\ s.goal \notin s.closed
      BY <1>5 DEF EdgeOK
    <3>7. QED
      BY <1>5, <3>1, <3>3, <3>5, <3>6 DEF SearchInv, Going
  <2>3. QED
    BY <2>1, <2>2
<1>8. QED
  BY <1>5, <1>6, <1>7 DEF s

\* A search is never stopped by the number of tiles it may expand.
LEMMA NodesLeft ==
  ASSUME NEW s \in Searches, NEW t \in Tiles, t \notin s.closed
  PROVE  /\ IsFiniteSet(s.closed) /\ Cardinality(s.closed) \in Nat
         /\ Cardinality(s.closed) < Width * Height
         /\ Cardinality(s.closed) # MaxNodes
         /\ Cardinality(s.closed \union {t}) = Cardinality(s.closed) + 1
<1>1. s.closed \in SUBSET Tiles
  BY DEF Searches
<1>2. IsFiniteSet(s.closed) /\ Cardinality(s.closed) \in Nat
  BY <1>1, TilesFinite, FS_Subset, FS_CardinalityType
<1>3. Cardinality(s.closed \union {t}) = Cardinality(s.closed) + 1
  BY <1>2, FS_AddElement
<1>4. s.closed \union {t} \in SUBSET Tiles
  BY <1>1
<1> DEFINE size == Width * Height
<1>5. Cardinality(s.closed \union {t}) <= size /\ size \in Nat
  BY <1>4, TilesFinite, FS_Subset
<1>6. size <= MaxNodes /\ MaxNodes \in Nat
  BY NodesAssumption, SearchAssumption
<1> HIDE DEF size
<1>7. Cardinality(s.closed) < size /\ Cardinality(s.closed) # MaxNodes
  BY <1>2, <1>3, <1>5, <1>6
<1>8. QED
  BY <1>2, <1>3, <1>7 DEF size

\* The n turns so far have taken from the heap what expansions put there.
Paid(s, n) ==
  /\ n + Cardinality(s.open) <= s.inserted
  /\ s.inserted <= 1 + 4 * Cardinality(s.closed)

\* A tile is expanded: everything next to it was reached.
LEMMA ExpandedRight ==
  ASSUME NEW map \in Maps, NEW s \in Searches, NEW start \in Tiles, Going(map, s, start),
         NEW e \in s.open, e.tile \notin s.closed, e.tile # s.goal
  PROVE  LET u == Spread(map, Close([s EXCEPT !.open = s.open \ {e}], e.tile), e.tile)
         IN  /\ u \in Searches /\ u.goal = s.goal /\ u.done = s.done
             /\ Going(map, u, start)
             /\ \A n \in Nat : Paid(s, n) => Paid(u, n + 1)
<1> DEFINE t == e.tile
           p == [s EXCEPT !.open = s.open \ {e}]
           q == Close(p, t)
           u == Spread(map, q, t)
<1>1. s.open \in SUBSET Entries /\ s.open \ {e} \in SUBSET Entries /\ e \in Entries
      /\ t \in Tiles /\ s.goal \in Tiles /\ s.inserted \in Nat
      /\ s.closed \in SUBSET Tiles
  BY DEF Searches, Entries
<1>2. Reheaped(s, p, s.open \ {e})
  <2> DEFINE o == s.open \ {e}
  <2>1. o \in SUBSET Entries
    BY <1>1
  <2> HIDE DEF o
  <2>2. Reheaped(s, [s EXCEPT !.open = o], o)
    BY <2>1, Reheaps
  <2>3. QED
    BY <2>2 DEF o
<1>3. /\ p \in Searches /\ p.open = s.open \ {e} /\ p.goal = s.goal /\ p.inserted = s.inserted
      /\ p.cost = s.cost /\ p.from = s.from /\ p.closed = s.closed /\ p.done = s.done
  <2> HIDE DEF p
  <2>1. QED
    BY <1>2 DEF Reheaped
<1> HIDE DEF p
<1>4. /\ q \in Searches /\ q.open = s.open \ {e} /\ q.goal = s.goal /\ q.inserted = s.inserted
      /\ q.cost = s.cost /\ q.from = s.from /\ q.closed = s.closed \union {t}
      /\ q.done = s.done
  <2>1. /\ q \in Searches /\ q.open = p.open /\ q.goal = p.goal /\ q.inserted = p.inserted
        /\ q.cost = p.cost /\ q.from = p.from /\ q.closed = p.closed \union {t}
        /\ q.done = p.done
    <3> HIDE DEF t
    <3>1. Closing(p, q, t)
      BY <1>1, <1>3, Closes
    <3>2. QED
      BY <3>1 DEF Closing
  <2>2. QED
    BY <1>3, <2>1
<1> HIDE DEF q
<1>5. s.cost[t] # None /\ s.cost[t] \in Nat
  <2>1. s.cost[t] # None
    BY DEF Going, HeapOK
  <2>2. QED
    BY <1>1, <2>1 DEF Searches
<1>6. IsFiniteSet(s.open) /\ Cardinality(s.open) \in Nat
      /\ IsFiniteSet(q.open) /\ Cardinality(q.open) = Cardinality(s.open) - 1
  <2>1. IsFiniteSet(s.open)
    BY DEF Going, HeapOK
  <2>2. QED
    BY <1>4, <2>1, FS_RemoveElement, FS_CardinalityType
<1> DEFINE R(n) == Reaches(map, q, t, n)
<1>7. /\ u \in Searches /\ u.goal = s.goal /\ u.done = s.done
      /\ u.closed = s.closed \union {t}
      /\ \A n \in Tiles : R(n) => u.from[n] = t /\ u.cost[n] = CostVia(map, q, t, n)
      /\ \A n \in Tiles : ~ R(n) => u.from[n] = s.from[n] /\ u.cost[n] = s.cost[n]
      /\ s.open \ {e} \subseteq u.open
      /\ \A o \in u.open \ (s.open \ {e}) : R(o.tile)
      /\ \A n \in Tiles : R(n) => \E o \in u.open : o.tile = n
      /\ IsFiniteSet(u.open)
      /\ u.inserted <= s.inserted + 4
      /\ Cardinality(u.open) - Cardinality(q.open) <= u.inserted - s.inserted
  <2> HIDE DEF t
  <2>1. q.cost[t] \in Nat
    BY <1>4, <1>5
  <2>2. /\ u \in Searches /\ u.goal = q.goal /\ u.done = q.done /\ u.closed = q.closed
        /\ \A n \in Tiles : R(n) => u.from[n] = t /\ u.cost[n] = CostVia(map, q, t, n)
        /\ \A n \in Tiles : ~ R(n) => u.from[n] = q.from[n] /\ u.cost[n] = q.cost[n]
        /\ q.open \subseteq u.open
        /\ \A o \in u.open \ q.open : R(o.tile)
        /\ \A n \in Tiles : R(n) => \E o \in u.open : o.tile = n
        /\ IsFiniteSet(u.open)
        /\ u.inserted <= q.inserted + 4
        /\ Cardinality(u.open) - Cardinality(q.open) <= u.inserted - q.inserted
    <3>1. Spreading(map, q, u, t)
      BY <1>1, <1>4, <1>6, <2>1, Spreads
    <3> HIDE DEF u
    <3>2. QED
      BY <3>1 DEF Spreading
  <2> HIDE DEF R, u
  <2>3. QED
    BY <1>4, <2>2
<1> HIDE DEF u
<1>8. \A n \in Tiles : R(n) =>
        /\ n \notin s.closed /\ n # t /\ map[n] \in Passable /\ Distance(t, n) = 1
        /\ CostVia(map, q, t, n) \in Nat /\ s.cost[t] < CostVia(map, q, t, n)
        /\ (s.cost[n] = None \/ CostVia(map, q, t, n) < s.cost[n])
  <2> SUFFICES ASSUME NEW n \in Tiles, R(n)
               PROVE  /\ n \notin s.closed /\ n # t /\ map[n] \in Passable /\ Distance(t, n) = 1
                      /\ CostVia(map, q, t, n) \in Nat /\ s.cost[t] < CostVia(map, q, t, n)
                      /\ (s.cost[n] = None \/ CostVia(map, q, t, n) < s.cost[n])
    OBVIOUS
  <2>1. n \notin s.closed /\ n # t /\ map[n] \in Passable /\ Distance(t, n) = 1
        /\ (s.cost[n] = None \/ CostVia(map, q, t, n) < s.cost[n])
    BY <1>4 DEF Reaches, Worth
  <2>2. CostVia(map, q, t, n) \in Nat /\ q.cost[t] < CostVia(map, q, t, n)
    <3>1. q.cost[t] \in Nat
      BY <1>4, <1>5
    <3> HIDE DEF t
    <3>2. QED
      BY <1>1, <1>4, <3>1, PushedTyped
  <2>3. QED
    BY <1>4, <2>1, <2>2
<1>9. \A n \in Nat : n # None
  BY SearchAssumption
<1>10. \A n \in Tiles : s.cost[n] # None => u.cost[n] # None
  BY <1>7, <1>8, <1>9
<1>11. \A n \in Tiles : n \in u.closed => u.cost[n] = s.cost[n] /\ u.from[n] = s.from[n]
  BY <1>7, <1>8
<1>12. TreeOK(map, u, start)
  <2>1. s.cost[start] = 0 /\ s.from[start] = None
    BY DEF Going, TreeOK
  <2>2. ~ R(start)
    <3>1. SUFFICES ASSUME R(start) PROVE FALSE
      OBVIOUS
    <3>2. CostVia(map, q, t, start) \in Nat /\ CostVia(map, q, t, start) < 0
      BY <1>8, <1>9, <2>1, <3>1
    <3>3. QED
      BY <3>2
  <2>3. u.cost[start] = 0 /\ u.from[start] = None
    BY <1>7, <2>1, <2>2
  <2>4. \A n \in Tiles : u.cost[n] # None /\ n # start => u.from[n] # None
    <3>1. t # None
      BY <1>1, SearchAssumption DEF Tiles
    <3>2. \A n \in Tiles : s.cost[n] # None /\ n # start => s.from[n] # None
      BY DEF Going, TreeOK
    <3>3. QED
      BY <1>7, <3>1, <3>2
  <2>5. ASSUME NEW n \in Tiles, u.from[n] # None
        PROVE  /\ u.from[n] \in u.closed
               /\ u.cost[n] \in Nat /\ u.cost[u.from[n]] \in Nat
               /\ u.cost[u.from[n]] < u.cost[n]
               /\ Distance(u.from[n], n) = 1 /\ map[n] \in Passable
    <3>1. CASE R(n)
      <4>1. u.from[n] = t /\ u.cost[n] = CostVia(map, q, t, n) /\ t \in u.closed
        BY <1>7, <3>1
      <4>2. u.cost[t] = s.cost[t]
        BY <1>1, <1>11, <4>1
      <4>3. QED
        BY <1>5, <1>8, <3>1, <4>1, <4>2
    <3>2. CASE ~ R(n)
      <4>1. u.from[n] = s.from[n] /\ u.cost[n] = s.cost[n]
        BY <1>7, <3>2
      <4>2. /\ s.from[n] \in s.closed
            /\ s.cost[n] \in Nat /\ s.cost[s.from[n]] \in Nat
            /\ s.cost[s.from[n]] < s.cost[n]
            /\ Distance(s.from[n], n) = 1 /\ map[n] \in Passable
        BY <2>5, <4>1 DEF Going, TreeOK
      <4>3. u.cost[s.from[n]] = s.cost[s.from[n]] /\ s.from[n] \in u.closed
        BY <1>1, <1>7, <1>11, <4>2
      <4>4. QED
        BY <4>1, <4>2, <4>3
    <3>3. QED
      BY <3>1, <3>2
  <2>6. QED
    BY <2>3, <2>4, <2>5 DEF TreeOK
<1>13. HeapOK(u)
  <2>1. ASSUME NEW o \in u.open PROVE u.cost[o.tile] # None
    <3>1. CASE o \in s.open \ {e}
      <4>1. s.cost[o.tile] # None /\ o.tile \in Tiles
        BY <1>1, <3>1 DEF Going, HeapOK, Entries
      <4>2. QED
        BY <1>10, <4>1
    <3>2. CASE o \notin s.open \ {e}
      <4>1. R(o.tile) /\ o.tile \in Tiles
        BY <1>7, <2>1, <3>2 DEF Searches, Entries
      <4>2. u.cost[o.tile] = CostVia(map, q, t, o.tile)
        BY <1>7, <4>1
      <4>3. QED
        BY <1>8, <1>9, <4>1, <4>2
    <3>3. QED
      BY <3>1, <3>2
  <2>2. ASSUME NEW n \in Tiles \ u.closed, u.cost[n] # None PROVE \E o \in u.open : o.tile = n
    <3>1. CASE R(n)
      BY <1>7, <3>1
    <3>2. CASE ~ R(n)
      <4>1. s.cost[n] # None /\ n \notin s.closed /\ n # t
        BY <1>7, <2>2, <3>2
      <4>2. PICK o \in s.open : o.tile = n
        BY <4>1 DEF Going, HeapOK
      <4>3. o # e
        BY <4>1, <4>2
      <4>4. QED
        BY <1>7, <4>2, <4>3
    <3>3. QED
      BY <3>1, <3>2
  <2>3. QED
    BY <1>7, <2>1, <2>2 DEF HeapOK
<1>14. EdgeOK(map, u)
  <2> SUFFICES ASSUME NEW c \in u.closed
               PROVE  /\ u.cost[c] # None
                      /\ \A n \in Tiles : Distance(c, n) = 1 /\ map[n] \in Passable => u.cost[n] # None
    BY DEF EdgeOK
  <2>1. CASE c \in s.closed
    <3>1. /\ s.cost[c] # None /\ c \in Tiles
          /\ \A n \in Tiles : Distance(c, n) = 1 /\ map[n] \in Passable => s.cost[n] # None
      BY <1>1, <2>1 DEF Going, EdgeOK
    <3>2. QED
      BY <1>10, <3>1
  <2>2. CASE c \notin s.closed
    <3>1. c = t
      BY <1>7, <2>2
    <3>2. ASSUME NEW n \in Tiles, Distance(t, n) = 1, map[n] \in Passable PROVE u.cost[n] # None
      <4>1. CASE R(n)
        BY <1>7, <1>8, <1>9, <4>1
      <4>2. CASE ~ R(n)
        <5>1. CASE n \in q.closed
          <6>1. s.cost[n] # None
            BY <1>4, <1>5, <5>1 DEF Going, EdgeOK
          <6>2. QED
            BY <1>10, <6>1
        <5>2. CASE n \notin q.closed
          <6>1. q.cost[n] # None
            BY <3>2, <4>2, <5>2 DEF Reaches, Worth
          <6>2. QED
            BY <1>4, <1>10, <6>1
        <5>3. QED
          BY <5>1, <5>2
      <4>3. QED
        BY <4>1, <4>2
    <3>3. QED
      BY <1>1, <1>5, <1>10, <3>1, <3>2
  <2>3. QED
    BY <2>1, <2>2
<1>15. Going(map, u, start)
  BY <1>7, <1>12, <1>13, <1>14 DEF Going
<1>16. ASSUME NEW n \in Nat, Paid(s, n) PROVE Paid(u, n + 1)
  <2>1. Cardinality(u.closed) = Cardinality(s.closed) + 1 /\ Cardinality(s.closed) \in Nat
    <3>1. t \notin s.closed /\ t \in Tiles
      BY <1>1
    <3> HIDE DEF t
    <3>2. Cardinality(s.closed \union {t}) = Cardinality(s.closed) + 1
          /\ Cardinality(s.closed) \in Nat
      BY ONLY s \in Searches, <3>1, NodesLeft
    <3>3. u.closed = s.closed \union {t}
      BY <1>7
    <3>4. QED
      BY ONLY <3>2, <3>3
  <2>2. Cardinality(u.open) \in Nat /\ u.inserted \in Nat
    BY <1>7, FS_CardinalityType DEF Searches
  <2>3. QED
    BY <1>1, <1>6, <1>7, <1>16, <2>1, <2>2 DEF Paid
<1>17. QED
  BY <1>7, <1>15, <1>16 DEF u, q, p

\* A turn keeps a search right, whichever way it goes.
LEMMA TurnedRight ==
  ASSUME NEW map \in Maps, NEW start \in Tiles, NEW goal \in Tiles,
         NEW s, SearchInv(map, s, start, goal), ~ s.done
  PROVE  /\ SearchInv(map, Turned(map, s), start, goal)
         /\ ~ Turned(map, s).done =>
              \A n \in Nat : Paid(s, n) => Paid(Turned(map, s), n + 1)
<1>1. s \in Searches /\ s.goal = goal /\ Going(map, s, start)
  BY DEF SearchInv
<1>2. CASE s.open = {}
  <2> DEFINE u == Ended(s, NoPath)
  <2>1. NoPath \in Seq(Tiles)
    BY DEF NoPath
  <2>2. Ending(s, u, NoPath)
    BY <1>1, <2>1, Ends
  <2>3. WaysBetween(map, start, goal) = {}
    BY <1>1, <1>2, NothingLeft
  <2>4. Truthful(map, NoPath, start, goal)
    BY <2>3 DEF Truthful
  <2>5. Turned(map, s) = u
    BY <1>2 DEF Turned
  <2> HIDE DEF u
  <2>6. QED
    BY <1>1, <2>2, <2>4, <2>5 DEF Ending, SearchInv
<1>3. CASE s.open # {}
  <2> DEFINE e == Lowest(s.open)
             t == e.tile
             p == [s EXCEPT !.open = s.open \ {e}]
  <2>1. s.open \in SUBSET Entries
    BY <1>1 DEF Searches
  <2>2. e \in s.open /\ t \in Tiles
    <3>1. e \in s.open
      BY <1>3, <2>1, FirstEntry
    <3>2. QED
      BY <2>1, <3>1 DEF Entries
  <2>3. Turned(map, s) = Popped(map, s, e)
    BY <1>3 DEF Turned
  <2> HIDE DEF e
  <2>4. Reheaped(s, p, s.open \ {e})
    <3> DEFINE o == s.open \ {e}
    <3>1. o \in SUBSET Entries
      BY <2>1
    <3> HIDE DEF o
    <3>2. Reheaped(s, [s EXCEPT !.open = o], o)
      BY <1>1, <3>1, Reheaps
    <3>3. QED
      BY <3>2 DEF o
  <2>5. Popped(map, s, e) = IF t \in s.closed THEN p ELSE Expanded(map, p, t)
    BY DEF Popped
  <2>6. CASE t \in s.closed
    <3>1. Turned(map, s) = p
      BY <2>3, <2>5, <2>6
    <3> HIDE DEF p
    <3>2. p \in Searches /\ p.goal = goal /\ p.done = s.done /\ p.open = s.open \ {e}
          /\ p.cost = s.cost /\ p.from = s.from /\ p.closed = s.closed /\ p.inserted = s.inserted
      BY <1>1, <2>4 DEF Reheaped
    <3>3. TreeOK(map, p, start) /\ EdgeOK(map, p) /\ p.goal \notin p.closed
      BY <1>1, <3>2 DEF Going, TreeOK, EdgeOK
    <3>4. HeapOK(p)
      <4>1. IsFiniteSet(p.open)
        BY <1>1, <3>2, FS_RemoveElement DEF Going, HeapOK
      <4>2. QED
        BY <1>1, <2>6, <3>2, <4>1 DEF Going, HeapOK
    <3>5. \A n \in Nat : Paid(s, n) => Paid(p, n + 1)
      <4>1. IsFiniteSet(s.open) /\ Cardinality(s.open) \in Nat
        BY <1>1, FS_CardinalityType DEF Going, HeapOK
      <4>2. Cardinality(p.open) = Cardinality(s.open) - 1
        BY <2>2, <3>2, <4>1, FS_RemoveElement
      <4>3. QED
        BY <3>2, <4>1, <4>2 DEF Paid
    <3>6. QED
      BY <1>1, <3>1, <3>2, <3>3, <3>4, <3>5 DEF SearchInv, Going
  <2>7. CASE t \notin s.closed
    <3>1. Turned(map, s) = Expanded(map, p, t)
      BY <2>3, <2>5, <2>7
    <3>2. p \in Searches /\ p.goal = goal /\ p.closed = s.closed /\ p.from = s.from
          /\ p.cost = s.cost
      <4> HIDE DEF p
      <4>1. QED
        BY <1>1, <2>4 DEF Reheaped
    <3>3. Cardinality(p.closed) # MaxNodes
      <4> HIDE DEF p, t
      <4>1. QED
        BY <2>2, <2>7, <3>2, NodesLeft
    <3>4. CASE t = goal
      <4> DEFINE q == Close(p, t)
                 path == Trail(p.from, p.goal)
                 u == Ended(q, path)
      <4>1. Turned(map, s) = u
        BY <3>1, <3>2, <3>3, <3>4 DEF Expanded
      <4>2. q \in Searches /\ q.goal = goal
        <5> HIDE DEF p, t
        <5>1. Closing(p, q, t)
          BY <2>2, <3>2, Closes
        <5> HIDE DEF q
        <5>2. QED
          BY <3>2, <5>1 DEF Closing
      <4>3. IsWay(PassableOn(map), start, path) /\ Last(path) = goal
        <5>1. s.cost[goal] # None /\ TreeOK(map, s, start)
          BY <1>1, <2>2, <3>4 DEF Going, HeapOK
        <5>2. path = Trail(s.from, goal)
          BY <3>2
        <5> HIDE DEF path
        <5>3. QED
          BY <1>1, <5>1, <5>2, TrailIsWay
      <4> HIDE DEF p, q, path
      <4>4. path \in WaysBetween(map, start, goal)
        BY <4>3, WaysBetweenAre
      <4>5. Truthful(map, path, start, goal)
        BY <4>4 DEF Truthful
      <4>6. path \in Seq(Tiles)
        BY <4>3 DEF IsWay
      <4>7. Ending(q, u, path)
        BY <4>2, <4>6, Ends
      <4> HIDE DEF u
      <4>8. QED
        BY <4>1, <4>2, <4>5, <4>7 DEF Ending, SearchInv
    <3>5. CASE t # goal
      <4> DEFINE u == Spread(map, Close(p, t), t)
      <4>1. Turned(map, s) = u
        BY <3>1, <3>2, <3>3, <3>5 DEF Expanded
      <4>2. /\ u \in Searches /\ u.goal = s.goal /\ u.done = s.done
            /\ Going(map, u, start)
            /\ \A n \in Nat : Paid(s, n) => Paid(u, n + 1)
        BY <1>1, <2>2, <2>7, <3>5, ExpandedRight
      <4> HIDE DEF u
      <4>3. QED
        BY <1>1, <4>1, <4>2 DEF SearchInv
    <3>6. QED
      BY <3>4, <3>5
  <2>8. QED
    BY <2>6, <2>7
<1>4. QED
  BY <1>2, <1>3

\* A search that nobody interrupts ends, and what it tells is right: a way, or
\* that there is none (a_star).
THEOREM SearchesAreRight ==
  ASSUME NEW map \in Maps, NEW start \in Tiles, NEW goal \in Tiles
  PROVE  /\ Truthful(map, Searched(map, start, goal), start, goal)
         /\ Searched(map, start, goal) \in Seq(Tiles)
<1> DEFINE S == {s \in Searches : SearchInv(map, s, start, goal)}
           Step(s) == IF s.done THEN s ELSE Turned(map, s)
           F == [s \in S |-> Step(s)]
           c == Began(start, goal)
           Is(f) == f = [n \in 0 .. MaxTurns |-> IF n = 0 THEN c ELSE Step(f[n - 1])]
           After == CHOOSE f : Is(f)
<1>1. MaxTurns \in Nat /\ MaxTurns = 4 * (Width * Height) + 2
  <2> DEFINE size == Width * Height
  <2>1. size \in Nat
    BY TilesFinite
  <2>2. Width \in Nat /\ Height \in Nat
    BY SearchAssumption
  <2>3. MaxTurns = 4 * size + 2
    BY <2>2 DEF MaxTurns
  <2> HIDE DEF size
  <2>4. QED
    BY <2>1, <2>3 DEF size
<1>2. Searched(map, start, goal) = After[MaxTurns].path
  BY DEF Searched
<1>3. c \in S
  BY BegunRight DEF SearchInv
<1>4. \A s \in S : Step(s) \in S
  BY TurnedRight DEF SearchInv
<1>5. F \in [S -> S]
  BY <1>4
<1>6. \E f : Is(f)
  <2>1. PICK f : Iterates(f, S, c, F, MaxTurns)
    <3> HIDE DEF F, S, c
    <3>1. QED
      BY <1>1, <1>3, <1>5, Iterated
  <2>2. f \in [0 .. MaxTurns -> S] /\ f[0] = c /\ \A n \in 1 .. MaxTurns : f[n] = F[f[n - 1]]
    BY <2>1 DEF Iterates
  <2>3. \A n \in 1 .. MaxTurns : f[n] = Step(f[n - 1])
    <3> SUFFICES ASSUME NEW n \in 1 .. MaxTurns PROVE f[n] = Step(f[n - 1])
      OBVIOUS
    <3>1. f[n - 1] \in S
      BY <1>1, <2>2
    <3> HIDE DEF S, Step
    <3>2. QED
      BY <2>2, <3>1
  <2> HIDE DEF Step, c, S
  <2>4. Is(f)
    BY <1>1, <2>2, <2>3
  <2>5. QED
    BY <2>4
<1>7. Is(After)
  <2> HIDE DEF Is
  <2>1. QED
    BY <1>6
<1> HIDE DEF After
<1>8. After[0] = c /\ \A n \in 1 .. MaxTurns : After[n] = Step(After[n - 1])
  <2> HIDE DEF Step, c
  <2>1. QED
    BY <1>1, <1>7
<1> HIDE DEF Is, F, Step, c, S
<1> DEFINE Good(n) == After[n] \in S /\ (~ After[n].done => Paid(After[n], n))
           Bad == {n \in 0 .. MaxTurns : ~ Good(n)}
<1>9. ASSUME Bad # {} PROVE FALSE
  <2>1. PICK n \in Bad : \A m \in Bad : n <= m
    <3>1. Bad \in SUBSET Nat
      OBVIOUS
    <3> HIDE DEF Bad
    <3>2. QED
      BY <1>9, <3>1, LeastNumber
  <2>2. n \in 0 .. MaxTurns /\ ~ Good(n)
    OBVIOUS
  <2>3. Good(0)
    <3>1. c.inserted = 1 /\ Cardinality(c.closed) = 0 /\ Cardinality(c.open) = 1
      BY BegunRight, FS_EmptySet DEF c
    <3>2. Paid(c, 0)
      BY <3>1 DEF Paid
    <3>3. QED
      BY <1>3, <1>8, <3>2
  <2>4. n # 0
    BY <2>2, <2>3
  <2>5. Good(n - 1)
    <3>1. n - 1 \in 0 .. MaxTurns /\ ~ (n <= n - 1)
      BY <1>1, <2>2, <2>4
    <3> HIDE DEF Good
    <3>2. QED
      BY <2>1, <3>1
  <2> DEFINE s == After[n - 1]
  <2>6. After[n] = Step(s) /\ s \in S /\ n - 1 \in Nat
    BY <1>1, <1>8, <2>2, <2>4, <2>5
  <2>7. ASSUME ~ After[n].done PROVE Paid(After[n], n)
    <3>1. ~ s.done
      BY <2>6, <2>7 DEF Step
    <3>2. Paid(s, n - 1)
      BY <2>5, <3>1
    <3>3. After[n] = Turned(map, s) /\ SearchInv(map, s, start, goal)
      BY <2>6, <3>1 DEF Step, S
    <3> HIDE DEF s
    <3>4. Paid(Turned(map, s), (n - 1) + 1)
      BY <2>6, <2>7, <3>1, <3>2, <3>3, TurnedRight
    <3>5. (n - 1) + 1 = n
      BY <2>6
    <3>6. QED
      BY <3>3, <3>4, <3>5
  <2>8. After[n] \in S
    BY <1>4, <2>6
  <2>9. QED
    BY <2>2, <2>7, <2>8
<1> DEFINE s == After[MaxTurns]
<1>10. s \in S /\ (~ s.done => Paid(s, MaxTurns))
  BY <1>1, <1>9
<1>11. s \in Searches /\ SearchInv(map, s, start, goal)
  BY <1>10 DEF S
<1> HIDE DEF s
<1>12. s.done
  <2> SUFFICES ASSUME ~ s.done PROVE FALSE
    OBVIOUS
  <2>1. goal \notin s.closed /\ IsFiniteSet(s.open)
    BY <1>11 DEF SearchInv, Going, HeapOK
  <2> DEFINE size == Width * Height
             k == Cardinality(s.closed)
  <2>2. k \in Nat /\ k < size
    BY <1>11, <2>1, NodesLeft
  <2>3. size \in Nat
    BY TilesFinite
  <2>4. Cardinality(s.open) \in Nat /\ s.inserted \in Nat
    BY <1>11, <2>1, FS_CardinalityType DEF Searches
  <2>5. MaxTurns + Cardinality(s.open) <= s.inserted /\ s.inserted <= 1 + 4 * k
    BY <1>10 DEF Paid
  <2>6. MaxTurns = 4 * size + 2
    BY <1>1
  <2> HIDE DEF size, k
  <2>7. QED
    BY <2>2, <2>3, <2>4, <2>5, <2>6
<1>13. QED
  BY <1>2, <1>11, <1>12 DEF s, SearchInv, Searches

-----------------------------------------------------------------------------
(* The union-find of the road network *)

UnionFinds == [parent : [Tiles -> Tiles], rank : [Tiles -> Nat], size : [Tiles -> Nat]]

\* Where every tile has its root, and the way up to it does not go round in
\* a circle, because it gets less deep.
Forest(parent, root, depth) ==
  /\ parent \in [Tiles -> Tiles] /\ root \in [Tiles -> Tiles] /\ depth \in [Tiles -> Nat]
  /\ \A t \in Tiles :
       /\ root[parent[t]] = root[t] /\ parent[root[t]] = root[t]
       /\ parent[t] = t => root[t] = t
       /\ parent[t] # t => depth[parent[t]] < depth[t] /\ depth[root[t]] < depth[t]

\* What is above u, as far as Up knows.
Above(parent, Up, u) == {u} \union (IF parent[u] = u THEN {} ELSE Up[parent[u]])

\* The tiles above one are those in every set that goes up with it.
LEMMA ClimbExists ==
  ASSUME NEW parent \in [Tiles -> Tiles]
  PROVE  \E Up : Up = [u \in Tiles |-> Above(parent, Up, u)]
<1> DEFINE GoesUp(S) == \A v \in S : parent[v] \in S
           Up == [u \in Tiles |-> {v \in Tiles : \A S \in SUBSET Tiles :
                                     u \in S /\ GoesUp(S) => v \in S}]
<1>1. ASSUME NEW u \in Tiles PROVE Up[u] = Above(parent, Up, u)
  <2>1. u \in Up[u] /\ parent[u] \in Tiles
    OBVIOUS
  <2>2. CASE parent[u] = u
    <3>1. {u} \in SUBSET Tiles /\ GoesUp({u})
      BY <2>2
    <3>2. Up[u] = {u}
      BY <2>1, <3>1
    <3>3. QED
      BY <2>2, <3>2 DEF Above
  <2>3. CASE parent[u] # u
    <3>1. ASSUME NEW v \in Up[parent[u]] PROVE v \in Up[u]
      <4>1. v \in Tiles /\ \A S \in SUBSET Tiles : parent[u] \in S /\ GoesUp(S) => v \in S
        BY <2>1
      <4>2. \A S \in SUBSET Tiles : u \in S /\ GoesUp(S) => v \in S
        BY <4>1
      <4>3. QED
        BY <4>1, <4>2
    <3>2. ASSUME NEW v \in Up[u], v # u, v \notin Up[parent[u]] PROVE FALSE
      <4>1. v \in Tiles /\ \A S \in SUBSET Tiles : u \in S /\ GoesUp(S) => v \in S
        OBVIOUS
      <4>2. PICK S \in SUBSET Tiles : parent[u] \in S /\ GoesUp(S) /\ v \notin S
        BY <2>1, <3>2, <4>1
      <4>3. S \union {u} \in SUBSET Tiles /\ GoesUp(S \union {u})
        BY <4>2
      <4>4. v \in S \union {u}
        BY <4>1, <4>3
      <4>5. QED
        BY <3>2, <4>2, <4>4
    <3> HIDE DEF Up
    <3>3. Up[u] = {u} \union Up[parent[u]]
      BY <2>1, <3>1, <3>2
    <3>4. QED
      BY <2>3, <3>3 DEF Above
  <2>4. QED
    BY <2>2, <2>3
<1>2. Up = [u \in Tiles |-> Up[u]]
  OBVIOUS
<1> HIDE DEF Up
<1>3. Up = [u \in Tiles |-> Above(parent, Up, u)]
  BY <1>1, <1>2
<1>4. QED
  BY <1>3

\* find climbs from a tile to its root, and meets only tiles of the same root.
LEMMA RootIs ==
  ASSUME NEW uf \in UnionFinds, NEW root, NEW depth, Forest(uf.parent, root, depth),
         NEW t \in Tiles
  PROVE  /\ Root(uf, t) = root[t]
         /\ t \in Climbed(uf, t)
         /\ \A u \in Climbed(uf, t) : u \in Tiles /\ root[u] = root[t]
<1> DEFINE parent == uf.parent
           Is(f) == f = [u \in Tiles |-> Above(parent, f, u)]
           Up == CHOOSE f : Is(f)
<1>1. parent \in [Tiles -> Tiles]
  BY DEF UnionFinds
<1>2. Is(Up)
  <2>1. \E f : Is(f)
    BY <1>1, ClimbExists
  <2> HIDE DEF Is
  <2>2. QED
    BY <2>1
<1>3. \A u \in Tiles : Climbed(uf, u) = Up[u]
  BY DEF Climbed, Above
<1> HIDE DEF Up
<1>4. \A u \in Tiles : Up[u] = {u} \union (IF parent[u] = u THEN {} ELSE Up[parent[u]])
  <2>1. \A u \in Tiles : Up[u] = Above(parent, Up, u)
    BY <1>2
  <2>2. QED
    BY <2>1 DEF Above
<1> DEFINE Well(u) == /\ u \in Up[u] /\ root[u] \in Up[u]
                      /\ \A v \in Up[u] : v \in Tiles /\ root[v] = root[u]
           Bad == {u \in Tiles : ~ Well(u)}
           deep == {depth[u] : u \in Bad}
<1>5. ASSUME Bad # {} PROVE FALSE
  <2>1. deep \in SUBSET Nat /\ deep # {}
    BY <1>5 DEF Forest
  <2>2. PICK d \in deep : \A e \in deep : d <= e
    <3> HIDE DEF deep
    <3>1. QED
      BY <2>1, LeastNumber
  <2>3. PICK u \in Bad : depth[u] = d
    BY <2>2
  <2>4. u \in Tiles /\ ~ Well(u) /\ root[u] \in Tiles
    BY DEF Forest
  <2>5. CASE parent[u] = u
    <3>1. Up[u] = {u} /\ root[u] = u
      BY <1>4, <2>4, <2>5 DEF Forest
    <3>2. QED
      BY <2>4, <3>1
  <2>6. CASE parent[u] # u
    <3>1. Up[u] = {u} \union Up[parent[u]]
      BY <1>4, <2>4, <2>6
    <3>2. parent[u] \in Tiles /\ depth[parent[u]] \in Nat /\ depth[u] \in Nat
          /\ depth[parent[u]] < depth[u] /\ root[parent[u]] = root[u]
      BY <1>1, <2>4, <2>6 DEF Forest
    <3>3. parent[u] \notin Bad
      <4>1. parent[u] \in Bad => d <= depth[parent[u]]
        BY <2>2
      <4>2. QED
        BY <2>3, <3>2, <4>1
    <3>4. Well(parent[u])
      BY <3>2, <3>3
    <3>5. QED
      BY <2>4, <3>1, <3>2, <3>4
  <2>7. QED
    BY <2>5, <2>6
<1>6. Well(t)
  BY <1>5
<1>7. \A u \in Up[t] : parent[u] = u <=> u = root[t]
  BY <1>6 DEF Forest
<1>8. Root(uf, t) = root[t]
  <2>1. root[t] \in Up[t]
    BY <1>6
  <2>2. Root(uf, t) = CHOOSE u \in Up[t] : parent[u] = u
    BY <1>3 DEF Root
  <2>3. QED
    BY <1>7, <2>1, <2>2
<1>9. QED
  BY <1>3, <1>6, <1>8

\* The size of a root is the number of tiles that have it.
Sized(uf, root) ==
  \A t \in Tiles : root[t] = t => uf.size[t] = Cardinality({u \in Tiles : root[u] = t})

\* A union-find in which root tells the root of each tile.
Grouped(uf, root) ==
  /\ uf \in UnionFinds /\ Sized(uf, root)
  /\ \E depth : Forest(uf.parent, root, depth)

\* Compressing a path moves no tile to another root.
LEMMA CompressedRight ==
  ASSUME NEW uf, NEW root, Grouped(uf, root), NEW t \in Tiles
  PROVE  Grouped(Compressed(uf, t), root)
<1> DEFINE after == Compressed(uf, t)
<1>1. uf \in UnionFinds /\ Sized(uf, root)
  BY DEF Grouped
<1>2. PICK depth : Forest(uf.parent, root, depth)
  BY DEF Grouped
<1>3. /\ Root(uf, t) = root[t] /\ root[t] \in Tiles
      /\ \A u \in Climbed(uf, t) : u \in Tiles /\ root[u] = root[t]
  BY <1>1, <1>2, RootIs DEF Forest
<1> DEFINE parent == [u \in Tiles |-> IF u \in Climbed(uf, t) THEN root[t] ELSE uf.parent[u]]
<1>4. after = [uf EXCEPT !.parent = parent]
  <2>1. after = [uf EXCEPT !.parent = [u \in Tiles |-> IF u \in Climbed(uf, t) THEN Root(uf, t)
                                                       ELSE uf.parent[u]]]
    BY DEF Compressed
  <2>2. QED
    BY <1>3, <2>1
<1>5. parent \in [Tiles -> Tiles]
  BY <1>1, <1>3 DEF UnionFinds
<1>6. Forest(parent, root, depth)
  <2>1. root \in [Tiles -> Tiles] /\ depth \in [Tiles -> Nat]
    BY <1>2 DEF Forest
  <2>2. ASSUME NEW u \in Tiles
        PROVE  /\ root[parent[u]] = root[u] /\ parent[root[u]] = root[u]
               /\ parent[u] = u => root[u] = u
               /\ parent[u] # u => depth[parent[u]] < depth[u] /\ depth[root[u]] < depth[u]
    <3>1. root[u] \in Tiles /\ root[root[u]] = root[u] /\ root[root[t]] = root[t]
      BY <1>2, <1>3 DEF Forest
    <3>2. parent[root[u]] = root[u]
      BY <1>2, <1>3, <3>1 DEF Forest
    <3>3. CASE u \in Climbed(uf, t)
      <4>1. parent[u] = root[u] /\ root[t] = root[u]
        BY <1>3, <3>3
      <4>2. root[u] # u => uf.parent[u] # u
        BY <1>2 DEF Forest
      <4>3. QED
        BY <1>2, <3>1, <3>2, <4>1, <4>2 DEF Forest
    <3>4. CASE u \notin Climbed(uf, t)
      <4>1. parent[u] = uf.parent[u]
        BY <3>4
      <4>2. QED
        BY <1>2, <3>2, <4>1 DEF Forest
    <3>5. QED
      BY <3>3, <3>4
  <2> HIDE DEF parent
  <2>3. QED
    BY <1>5, <2>1, <2>2 DEF Forest
<1>7. /\ after \in UnionFinds /\ after.parent = parent
      /\ after.size = uf.size /\ after.rank = uf.rank
  <2> HIDE DEF parent, after
  <2>1. QED
    BY <1>1, <1>4, <1>5 DEF UnionFinds
<1>8. QED
  <2> HIDE DEF parent, after
  <2>1. Sized(after, root) /\ Forest(after.parent, root, depth)
    BY <1>1, <1>6, <1>7 DEF Sized
  <2>2. Grouped(after, root)
    BY <1>7, <2>1 DEF Grouped
  <2>3. QED
    BY <2>2 DEF after

\* The roots when one was hung under another.
Rerooted(root, under, over) ==
  [t \in Tiles |-> IF root[t] = under THEN over ELSE root[t]]

LEMMA HungRight ==
  ASSUME NEW uf, NEW root, Grouped(uf, root), NEW under \in Tiles, NEW over \in Tiles,
         root[under] = under, root[over] = over, under # over, NEW rank \in Nat
  PROVE  Grouped(Hung(uf, under, over, rank), Rerooted(root, under, over))
<1> DEFINE after == Hung(uf, under, over, rank)
           new == Rerooted(root, under, over)
           parent == [uf.parent EXCEPT ![under] = over]
           size == [uf.size EXCEPT ![over] = @ + uf.size[under]]
           ranks == [uf.rank EXCEPT ![over] = rank]
<1>1. uf \in UnionFinds /\ Sized(uf, root)
  BY DEF Grouped
<1>2. PICK depth : Forest(uf.parent, root, depth)
  BY DEF Grouped
<1>3. after = [parent |-> parent, rank |-> ranks, size |-> size]
  <2>1. uf = [parent |-> uf.parent, rank |-> uf.rank, size |-> uf.size]
    BY <1>1 DEF UnionFinds
  <2> DEFINE f == [uf EXCEPT !.parent[under] = over]
             g == [f EXCEPT !.size[over] = @ + uf.size[under]]
             h == [g EXCEPT !.rank[over] = rank]
  <2>2. after = h
    BY DEF Hung
  <2>3. f = [parent |-> parent, rank |-> uf.rank, size |-> uf.size]
    BY <2>1
  <2> HIDE DEF f, parent
  <2>4. g = [parent |-> parent, rank |-> uf.rank, size |-> size]
    BY <2>3
  <2> HIDE DEF g, size
  <2>5. h = [parent |-> parent, rank |-> ranks, size |-> size]
    BY <2>4
  <2>6. QED
    BY <2>2, <2>5
<1>4. /\ parent \in [Tiles -> Tiles] /\ size \in [Tiles -> Nat] /\ ranks \in [Tiles -> Nat]
      /\ new \in [Tiles -> Tiles] /\ root \in [Tiles -> Tiles]
  BY <1>1, <1>2 DEF UnionFinds, Rerooted, Forest
<1>5. after \in UnionFinds /\ after.parent = parent /\ after.size = size
  <2> HIDE DEF parent, size, ranks, after
  <2>1. QED
    BY <1>3, <1>4 DEF UnionFinds
<1> DEFINE deeper == [t \in Tiles |-> IF root[t] = under THEN depth[t] + depth[over] + 1
                                      ELSE depth[t]]
<1>6. Forest(parent, new, deeper)
  <2>1. deeper \in [Tiles -> Nat] /\ depth \in [Tiles -> Nat]
    BY <1>2 DEF Forest
  <2>2. ASSUME NEW t \in Tiles
        PROVE  /\ new[parent[t]] = new[t] /\ parent[new[t]] = new[t]
               /\ parent[t] = t => new[t] = t
               /\ parent[t] # t => deeper[parent[t]] < deeper[t] /\ deeper[new[t]] < deeper[t]
    <3>1. /\ root[uf.parent[t]] = root[t] /\ uf.parent[root[t]] = root[t]
          /\ uf.parent[t] = t => root[t] = t
          /\ uf.parent[t] # t => depth[uf.parent[t]] < depth[t] /\ depth[root[t]] < depth[t]
          /\ root[t] \in Tiles /\ uf.parent[t] \in Tiles
          /\ uf.parent[over] = over /\ root[root[t]] = root[t]
          /\ uf.parent[under] = under
      BY <1>2 DEF Forest
    <3>2. new[t] = (IF root[t] = under THEN over ELSE root[t]) /\ new[over] = over
      BY DEF Rerooted
    <3>3. parent[t] = (IF t = under THEN over ELSE uf.parent[t]) /\ parent[over] = over
          /\ parent \in [Tiles -> Tiles]
      BY <1>1, <1>4, <3>1 DEF UnionFinds
    <3>4. new[parent[t]] = new[t]
      BY <3>1, <3>2, <3>3 DEF Rerooted
    <3>5. parent[new[t]] = new[t]
      BY <1>1, <1>4, <3>1, <3>2 DEF UnionFinds
    <3>6. parent[t] = t => new[t] = t
      BY <3>1, <3>2, <3>3
    <3>7. /\ deeper[over] = depth[over] /\ depth[over] \in Nat /\ depth[t] \in Nat
          /\ depth[uf.parent[t]] \in Nat /\ depth[root[t]] \in Nat
      BY <2>1, <3>1
    <3>8. deeper[t] = (IF root[t] = under THEN depth[t] + depth[over] + 1 ELSE depth[t])
      OBVIOUS
    <3>9. root[t] # under => deeper[root[t]] = depth[root[t]]
      BY <3>1
    <3>10. deeper[uf.parent[t]] = IF root[t] = under THEN depth[uf.parent[t]] + depth[over] + 1
                                  ELSE depth[uf.parent[t]]
      BY <3>1
    <3> HIDE DEF deeper, parent, new
    <3>11. CASE t = under
      <4>1. parent[t] = over /\ new[t] = over /\ deeper[t] = depth[t] + depth[over] + 1
        BY <3>2, <3>3, <3>8, <3>11
      <4>2. deeper[over] < deeper[t]
        BY <3>7, <4>1
      <4>3. QED
        BY <3>4, <3>5, <3>6, <4>1, <4>2
    <3>12. CASE t # under /\ root[t] = under
      <4>1. parent[t] = uf.parent[t] /\ new[t] = over /\ deeper[t] = depth[t] + depth[over] + 1
            /\ deeper[parent[t]] = depth[uf.parent[t]] + depth[over] + 1
        BY <3>2, <3>3, <3>8, <3>10, <3>12
      <4>2. parent[t] # t => deeper[parent[t]] < deeper[t] /\ deeper[over] < deeper[t]
        BY <3>1, <3>7, <4>1
      <4>3. QED
        BY <3>4, <3>5, <3>6, <4>1, <4>2
    <3>13. CASE root[t] # under
      <4>1. t # under
        BY <3>13
      <4>2. parent[t] = uf.parent[t] /\ new[t] = root[t] /\ deeper[t] = depth[t]
            /\ deeper[parent[t]] = depth[uf.parent[t]] /\ deeper[root[t]] = depth[root[t]]
        BY <3>2, <3>3, <3>8, <3>9, <3>10, <3>13, <4>1
      <4>3. QED
        BY <3>1, <3>4, <3>5, <3>6, <4>2
    <3>14. QED
      BY <3>11, <3>12, <3>13
  <2> HIDE DEF parent, new, deeper
  <2>3. QED
    BY <1>4, <2>1, <2>2 DEF Forest
<1>7. Sized(after, new)
  <2> SUFFICES ASSUME NEW t \in Tiles, new[t] = t
               PROVE  size[t] = Cardinality({u \in Tiles : new[u] = t})
    <3> HIDE DEF new, after, size
    <3>1. QED
      BY <1>5 DEF Sized
  <2>1. t # under
    BY DEF Rerooted
  <2>2. CASE t # over
    <3>1. {u \in Tiles : new[u] = t} = {u \in Tiles : root[u] = t} /\ root[t] = t
      BY <2>1, <2>2 DEF Rerooted
    <3>2. size[t] = uf.size[t]
      BY <1>1, <2>2 DEF UnionFinds
    <3>3. QED
      BY <1>1, <3>1, <3>2 DEF Sized
  <2>3. CASE t = over
    <3> DEFINE A == {u \in Tiles : root[u] = over}
               B == {u \in Tiles : root[u] = under}
    <3>1. {u \in Tiles : new[u] = t} = A \union B /\ A \intersect B = {}
      BY <2>3 DEF Rerooted
    <3>2. IsFiniteSet(A) /\ IsFiniteSet(B)
      <4>1. A \in SUBSET Tiles /\ B \in SUBSET Tiles
        OBVIOUS
      <4> HIDE DEF A, B
      <4>2. QED
        BY <4>1, TilesFinite, FS_Subset
    <3>3. uf.size[over] = Cardinality(A) /\ uf.size[under] = Cardinality(B)
      BY <1>1 DEF Sized
    <3>4. size[over] = uf.size[over] + uf.size[under]
      BY <1>1 DEF UnionFinds
    <3>5. Cardinality(A \union B) = Cardinality(A) + Cardinality(B)
      <4> HIDE DEF A, B
      <4>1. /\ Cardinality(A \union B) = Cardinality(A) + Cardinality(B) - Cardinality(A \intersect B)
            /\ Cardinality(A) \in Nat /\ Cardinality(B) \in Nat
        BY <3>2, FS_Union, FS_CardinalityType
      <4>2. Cardinality(A \intersect B) = 0
        BY <3>1, FS_EmptySet
      <4>3. QED
        BY <4>1, <4>2
    <3> HIDE DEF A, B, size, new
    <3>6. QED
      BY <2>3, <3>1, <3>3, <3>4, <3>5
  <2>4. QED
    BY <2>2, <2>3
<1>8. QED
  <2> HIDE DEF parent, new, deeper, after, size
  <2>1. Grouped(after, new)
    BY <1>5, <1>6, <1>7 DEF Grouped
  <2>2. QED
    BY <2>1 DEF after, new

\* The roots of a union of a and b: theirs have become one.
United(root, new, a, b) ==
  \A s, t \in Tiles :
    new[s] = new[t] <=> \/ root[s] = root[t]
                        \/ root[s] = root[a] /\ root[t] = root[b]
                        \/ root[s] = root[b] /\ root[t] = root[a]

LEMMA UnionRight ==
  ASSUME NEW uf, NEW root, Grouped(uf, root), NEW a \in Tiles, NEW b \in Tiles
  PROVE  \E new : Grouped(Union(uf, a, b), new) /\ United(root, new, a, b)
<1> DEFINE mid == Compressed(Compressed(uf, a), b)
           ra == root[a]
           rb == root[b]
<1>1. Grouped(mid, root)
  BY CompressedRight
<1> HIDE DEF mid
<1>2. PICK depth : Forest(mid.parent, root, depth)
  BY <1>1 DEF Grouped
<1>3. /\ Root(mid, a) = ra /\ Root(mid, b) = rb
      /\ ra \in Tiles /\ rb \in Tiles /\ root[ra] = ra /\ root[rb] = rb
      /\ mid.rank[ra] \in Nat /\ mid.rank[rb] \in Nat
  <2>1. mid \in UnionFinds
    BY <1>1 DEF Grouped
  <2>2. Root(mid, a) = ra /\ Root(mid, b) = rb
    BY <1>2, <2>1, RootIs
  <2>3. ra \in Tiles /\ rb \in Tiles /\ root[ra] = ra /\ root[rb] = rb
    BY <1>2 DEF Forest
  <2>4. QED
    BY <2>1, <2>2, <2>3 DEF UnionFinds
<1>4. \/ Union(uf, a, b) = mid /\ ra = rb
      \/ \E rank \in Nat : Union(uf, a, b) = Hung(mid, ra, rb, rank) /\ ra # rb
      \/ \E rank \in Nat : Union(uf, a, b) = Hung(mid, rb, ra, rank) /\ ra # rb
  <2>1. Union(uf, a, b) =
          CASE ra = rb -> mid
            [] ra # rb /\ mid.rank[ra] < mid.rank[rb] -> Hung(mid, ra, rb, mid.rank[rb])
            [] ra # rb /\ mid.rank[ra] > mid.rank[rb] -> Hung(mid, rb, ra, mid.rank[ra])
            [] OTHER -> Hung(mid, rb, ra, mid.rank[ra] + 1)
    BY <1>3 DEF Union, mid
  <2>2. mid.rank[ra] + 1 \in Nat
    BY <1>3
  <2> HIDE DEF ra, rb
  <2>3. CASE ra = rb
    BY <2>1, <2>3
  <2>4. CASE ra # rb /\ mid.rank[ra] < mid.rank[rb]
    <3>1. ~ (mid.rank[ra] > mid.rank[rb])
      BY <1>3, <2>4
    <3>2. QED
      BY <1>3, <2>1, <2>4, <3>1
  <2>5. CASE ra # rb /\ mid.rank[ra] > mid.rank[rb]
    <3>1. ~ (mid.rank[ra] < mid.rank[rb])
      BY <1>3, <2>5
    <3>2. QED
      BY <1>3, <2>1, <2>5, <3>1
  <2>6. CASE ra # rb /\ ~ (mid.rank[ra] < mid.rank[rb]) /\ ~ (mid.rank[ra] > mid.rank[rb])
    BY <2>1, <2>2, <2>6
  <2>7. QED
    BY <2>3, <2>4, <2>5, <2>6
<1>5. CASE Union(uf, a, b) = mid /\ ra = rb
  <2>1. United(root, root, a, b)
    BY <1>5 DEF United
  <2>2. QED
    BY <1>1, <1>5, <2>1
<1>6. ASSUME NEW under \in {ra, rb}, NEW over \in {ra, rb}, NEW rank \in Nat,
             Union(uf, a, b) = Hung(mid, under, over, rank), under # over
      PROVE  \E new : Grouped(Union(uf, a, b), new) /\ United(root, new, a, b)
  <2> DEFINE new == Rerooted(root, under, over)
  <2>1. Grouped(Union(uf, a, b), new)
    BY <1>1, <1>3, <1>6, HungRight
  <2>2. United(root, new, a, b)
    BY <1>6 DEF United, Rerooted
  <2>3. QED
    BY <2>1, <2>2
<1>7. QED
  BY <1>4, <1>5, <1>6

-----------------------------------------------------------------------------
(* The road network *)

\* A set of tiles that no road leaves.
Closed(map, S) ==
  \A s \in S, t \in Tiles :
    map[s] \in Roads /\ map[t] \in Roads /\ Distance(s, t) = 1 => t \in S

\* Tiles with the same root are on the same side of every such set.
Separates(map, root) ==
  \A S \in SUBSET Tiles : Closed(map, S) =>
    \A s, t \in Tiles : root[s] = root[t] => (s \in S <=> t \in S)

\* Neighbours among the roads have the same root.
Joins(roads, root) == \A s, t \in roads : Distance(s, t) = 1 => root[s] = root[t]

Coarser(root, new) == \A s, t \in Tiles : root[s] = root[t] => new[s] = new[t]

Nets == [roads : SUBSET Tiles, warehouses : Seq(Tiles), uf : UnionFinds]

\* A network after the tiles done were looked at.
NetworkOn(map, done, net) ==
  /\ net \in Nets
  /\ net.roads = {t \in done : map[t] \in Roads}
  /\ Range(net.warehouses) = {t \in done : map[t] = Warehouse}
  /\ \E root : Grouped(net.uf, root) /\ Separates(map, root) /\ Joins(net.roads, root)

LEMMA MetRight ==
  ASSUME NEW map \in Maps, NEW net, NEW t \in Tiles, map[t] \in Roads,
         NEW n, n \in net.roads => n \in Tiles /\ map[n] \in Roads /\ Distance(t, n) = 1,
         NEW uf, NEW root, Grouped(uf, root), Separates(map, root)
  PROVE  \E new : /\ Grouped(Met(net, uf, t, n), new) /\ Separates(map, new)
                  /\ Coarser(root, new) /\ (n \in net.roads => new[t] = new[n])
<1>1. CASE n \notin net.roads
  <2>1. Met(net, uf, t, n) = uf /\ Coarser(root, root)
    BY <1>1 DEF Met, Coarser
  <2>2. QED
    BY <1>1, <2>1
<1>2. CASE n \in net.roads
  <2>1. n \in Tiles /\ map[n] \in Roads /\ Distance(t, n) = 1 /\ Distance(n, t) = 1
    BY <1>2, OneStep
  <2>2. PICK new : Grouped(Union(uf, t, n), new) /\ United(root, new, t, n)
    BY <2>1, UnionRight
  <2>3. Coarser(root, new) /\ new[t] = new[n]
    BY <2>1, <2>2 DEF United, Coarser
  <2>4. Separates(map, new)
    <3> SUFFICES ASSUME NEW S \in SUBSET Tiles, Closed(map, S),
                        NEW u \in Tiles, NEW v \in Tiles, new[u] = new[v]
                 PROVE  u \in S <=> v \in S
      BY DEF Separates
    <3>1. t \in S <=> n \in S
      BY <2>1 DEF Closed
    <3>2. \A x, y \in Tiles : root[x] = root[y] => (x \in S <=> y \in S)
      BY DEF Separates
    <3>3. \/ root[u] = root[v]
          \/ root[u] = root[t] /\ root[v] = root[n]
          \/ root[u] = root[n] /\ root[v] = root[t]
      BY <2>2 DEF United
    <3>4. QED
      BY <2>1, <3>1, <3>2, <3>3
  <2>5. Met(net, uf, t, n) = Union(uf, t, n)
    BY <1>2 DEF Met
  <2>6. QED
    BY <2>2, <2>3, <2>4, <2>5
<1>3. QED
  BY <1>1, <1>2

LEMMA SeenRight ==
  ASSUME NEW map \in Maps, NEW done \in SUBSET Tiles, NEW net, NetworkOn(map, done, net),
         NEW t \in Tiles
  PROVE  NetworkOn(map, done \union {t}, Seen(map, net, t))
<1>1. /\ net \in Nets /\ net.roads = {u \in done : map[u] \in Roads}
      /\ Range(net.warehouses) = {u \in done : map[u] = Warehouse}
  BY DEF NetworkOn
<1>2. PICK r0 : Grouped(net.uf, r0) /\ Separates(map, r0) /\ Joins(net.roads, r0)
  BY DEF NetworkOn
<1>3. CASE map[t] \notin Roads
  <2>1. Seen(map, net, t) = net /\ map[t] # Warehouse
    BY <1>3, RoadAssumption DEF Seen
  <2>2. /\ {u \in done \union {t} : map[u] \in Roads} = {u \in done : map[u] \in Roads}
        /\ {u \in done \union {t} : map[u] = Warehouse} = {u \in done : map[u] = Warehouse}
    BY <1>3, <2>1
  <2>3. QED
    BY <1>1, <1>2, <2>1, <2>2 DEF NetworkOn
<1>4. CASE map[t] \in Roads
  <2> DEFINE n(i) == Neighbours(t)[i]
             u1 == Met(net, net.uf, t, n(1))
             u2 == Met(net, u1, t, n(2))
             u3 == Met(net, u2, t, n(3))
             u4 == Met(net, u3, t, n(4))
             Goes(uf, root, new, i) ==
               /\ Grouped(uf, new) /\ Separates(map, new) /\ Coarser(root, new)
               /\ n(i) \in net.roads => new[t] = new[n(i)]
             after == Joined(net, t, map[t])
             stores == IF map[t] = Warehouse THEN Append(net.warehouses, t) ELSE net.warehouses
  <2>1. after = [roads |-> net.roads \union {t}, warehouses |-> stores, uf |-> u4]
    BY DEF Joined
  <2>2. \A i \in 1 .. 4 : n(i) \in net.roads =>
          n(i) \in Tiles /\ map[n(i)] \in Roads /\ Distance(t, n(i)) = 1
    <3> SUFFICES ASSUME NEW i \in 1 .. 4, n(i) \in net.roads
                 PROVE  n(i) \in Tiles /\ map[n(i)] \in Roads /\ Distance(t, n(i)) = 1
      OBVIOUS
    <3>1. n(i) \in Tiles /\ map[n(i)] \in Roads
      BY <1>1
    <3>2. QED
      BY <3>1, OneStep
  <2> HIDE DEF n, u1, u2, u3, u4, stores, after
  <2>a. ASSUME NEW uf, NEW root, Grouped(uf, root), Separates(map, root), NEW i \in 1 .. 4
        PROVE  \E new : Goes(Met(net, uf, t, n(i)), root, new, i)
    <3> DEFINE m == n(i)
    <3>1. m \in net.roads => m \in Tiles /\ map[m] \in Roads /\ Distance(t, m) = 1
      BY <2>2
    <3> HIDE DEF m
    <3>2. PICK new : /\ Grouped(Met(net, uf, t, m), new) /\ Separates(map, new)
                     /\ Coarser(root, new) /\ (m \in net.roads => new[t] = new[m])
      BY <1>4, <2>a, <3>1, MetRight
    <3>3. Goes(Met(net, uf, t, n(i)), root, new, i)
      BY <3>2 DEF m
    <3> HIDE DEF Goes
    <3>4. QED
      BY <3>3
  <2>3. PICK r1 : Goes(u1, r0, r1, 1)
    BY <1>2, <2>a DEF u1
  <2>4. PICK r2 : Goes(u2, r1, r2, 2)
    BY <2>3, <2>a DEF u2
  <2>5. PICK r3 : Goes(u3, r2, r3, 3)
    BY <2>4, <2>a DEF u3
  <2>6. PICK r4 : Goes(u4, r3, r4, 4)
    BY <2>5, <2>a DEF u4
  <2>7. net.roads \subseteq Tiles
    BY <1>1
  <2>8. \A s \in net.roads : Distance(t, s) = 1 => r4[t] = r4[s]
    <3> SUFFICES ASSUME NEW s \in net.roads, Distance(t, s) = 1 PROVE r4[t] = r4[s]
      OBVIOUS
    <3>1. s \in Tiles
      BY <2>7
    <3>2. PICK i \in 1 .. 4 : n(i) = s
      BY <3>1, OneStep DEF n
    <3>3. i = 1 \/ i = 2 \/ i = 3 \/ i = 4
      OBVIOUS
    <3>4. QED
      BY <2>3, <2>4, <2>5, <2>6, <3>1, <3>2, <3>3 DEF Coarser
  <2>9. Joins(net.roads \union {t}, r4)
    <3> SUFFICES ASSUME NEW s \in net.roads \union {t}, NEW u \in net.roads \union {t},
                        Distance(s, u) = 1
                 PROVE  r4[s] = r4[u]
      BY DEF Joins
    <3>1. s \in Tiles /\ u \in Tiles
      BY <2>7
    <3>2. CASE s \in net.roads /\ u \in net.roads
      <4>1. r0[s] = r0[u]
        BY <1>2, <3>2 DEF Joins
      <4>2. QED
        BY <2>3, <2>4, <2>5, <2>6, <3>1, <4>1 DEF Coarser
    <3>3. CASE s = t /\ u \in net.roads
      BY <2>8, <3>3
    <3>4. CASE u = t /\ s \in net.roads
      BY <2>8, <3>1, <3>4, OneStep
    <3>5. QED
      BY <3>2, <3>3, <3>4
  <2>10. stores \in Seq(Tiles) /\ Range(stores) = {u \in done \union {t} : map[u] = Warehouse}
    <3>1. net.warehouses \in Seq(Tiles)
      BY <1>1 DEF Nets
    <3>2. CASE map[t] # Warehouse
      BY <1>1, <3>1, <3>2 DEF stores
    <3>3. CASE map[t] = Warehouse
      <4> DEFINE old == net.warehouses
      <4>1. /\ Append(old, t) \in Seq(Tiles) /\ Len(Append(old, t)) = Len(old) + 1
            /\ \A i \in 1 .. Len(old) : Append(old, t)[i] = old[i]
            /\ Append(old, t)[Len(old) + 1] = t
            /\ Len(old) \in Nat /\ DOMAIN old = 1 .. Len(old)
        BY <3>1, AppendProperties, LenProperties
      <4>2. DOMAIN Append(old, t) = 1 .. Len(old) + 1
        BY <4>1, LenProperties
      <4>3. Range(Append(old, t)) = Range(old) \union {t}
        <5> DEFINE new == Append(old, t)
                   k == Len(old)
        <5>1. /\ DOMAIN new = 1 .. k + 1 /\ DOMAIN old = 1 .. k /\ k \in Nat
              /\ \A i \in 1 .. k : new[i] = old[i]
              /\ new[k + 1] = t
          BY <4>1, <4>2
        <5> HIDE DEF new, k
        <5>2. \A i \in DOMAIN new : i \in DOMAIN old \/ i = k + 1
          BY <5>1
        <5>3. \A i \in DOMAIN old : i \in DOMAIN new
          BY <5>1
        <5>4. k + 1 \in DOMAIN new
          BY <5>1
        <5> HIDE DEF old
        <5>5. Range(new) = Range(old) \union {t}
          BY <5>1, <5>2, <5>3, <5>4 DEF Range
        <5>6. QED
          BY <5>5 DEF new
      <4>4. QED
        BY <1>1, <3>3, <4>1, <4>3 DEF stores
    <3>4. QED
      BY <3>2, <3>3
  <2>11. after \in Nets /\ after.roads = net.roads \union {t} /\ after.warehouses = stores
         /\ after.uf = u4
    BY <2>1, <2>6, <2>7, <2>10 DEF Nets, Grouped
  <2>12. net.roads \union {t} = {u \in done \union {t} : map[u] \in Roads}
    BY <1>1, <1>4
  <2>13. NetworkOn(map, done \union {t}, after)
    BY <2>6, <2>9, <2>10, <2>11, <2>12 DEF NetworkOn
  <2>14. QED
    BY <1>4, <2>13 DEF Seen, after
<1>5. QED
  BY <1>3, <1>4

LEMMA EmptyRight ==
  ASSUME NEW map \in Maps
  PROVE  NetworkOn(map, {}, Empty)
<1> DEFINE root == [t \in Tiles |-> t]
<1>1. Alone \in UnionFinds /\ Alone.parent = root
  BY DEF Alone, UnionFinds
<1>2. Forest(root, root, [t \in Tiles |-> 0])
  BY DEF Forest
<1>3. Sized(Alone, root)
  <2> SUFFICES ASSUME NEW t \in Tiles
               PROVE  Alone.size[t] = Cardinality({u \in Tiles : root[u] = t})
    BY DEF Sized
  <2>1. {u \in Tiles : root[u] = t} = {t}
    OBVIOUS
  <2>2. Cardinality({t}) = 1
    BY FS_Singleton
  <2>3. Alone.size[t] = 1
    BY DEF Alone
  <2>4. QED
    BY <2>1, <2>2, <2>3
<1>4. Grouped(Alone, root)
  BY <1>1, <1>2, <1>3 DEF Grouped
<1>5. Separates(map, root) /\ Joins({}, root)
  BY DEF Separates, Joins
<1>6. <<>> \in Seq(Tiles) /\ Range(<<>>) = {}
  <2>1. DOMAIN <<>> = {}
    OBVIOUS
  <2>2. QED
    BY <2>1 DEF Range
<1> HIDE DEF root
<1>7. Empty \in Nets /\ Empty.roads = {} /\ Empty.warehouses = <<>> /\ Empty.uf = Alone
  BY <1>1, <1>6 DEF Empty, Nets
<1>8. QED
  BY <1>4, <1>5, <1>6, <1>7 DEF NetworkOn

\* A loop of N turns, the n-th of which is F and leads from G[n - 1] to G[n].
Loop(N, S, G, F, c) ==
  /\ N \in Nat /\ G \in [0 .. N -> SUBSET S] /\ c \in G[0]
  /\ \A n \in 1 .. N : \A s \in G[n - 1] : F[<<n, s>>] \in G[n]

LEMMA Looped ==
  ASSUME NEW N, NEW S, NEW G, NEW F, NEW c, Loop(N, S, G, F, c)
  PROVE  \E f : /\ f \in [0 .. N -> S] /\ f[0] = c
                /\ \A n \in 1 .. N : f[n] = F[<<n, f[n - 1]>>]
                /\ \A n \in 0 .. N : f[n] \in G[n]
<1> DEFINE Right(n, f) ==
             /\ f \in [0 .. n -> S] /\ f[0] = c
             /\ \A i \in 1 .. n : f[i] = F[<<i, f[i - 1]>>]
             /\ \A i \in 0 .. n : f[i] \in G[i]
           Bad == {n \in 0 .. N : ~ \E f : Right(n, f)}
<1>1. /\ N \in Nat /\ G \in [0 .. N -> SUBSET S] /\ c \in G[0]
      /\ \A n \in 1 .. N : \A s \in G[n - 1] : F[<<n, s>>] \in G[n]
  BY DEF Loop
<1>2. ASSUME Bad # {} PROVE FALSE
  <2>1. PICK n \in Bad : \A m \in Bad : n <= m
    <3>1. Bad \in SUBSET Nat
      BY <1>1
    <3> HIDE DEF Bad
    <3>2. QED
      BY <1>2, <3>1, LeastNumber
  <2>2. n \in 0 .. N /\ ~ \E f : Right(n, f)
    OBVIOUS
  <2>3. n # 0
    <3>1. Right(0, [i \in 0 .. 0 |-> c])
      BY <1>1
    <3>2. QED
      BY <2>2, <3>1
  <2>4. n - 1 \in 0 .. N /\ n \in 1 .. N
    BY <1>1, <2>2, <2>3
  <2>5. PICK g : Right(n - 1, g)
    <3>1. ~ (n <= n - 1)
      BY <2>4
    <3>2. n - 1 \notin Bad
      BY <2>1, <3>1
    <3>3. QED
      BY <2>4, <3>2
  <2> DEFINE s == F[<<n, g[n - 1]>>]
             f == [i \in 0 .. n |-> IF i = n THEN s ELSE g[i]]
  <2>6. g[n - 1] \in G[n - 1] /\ s \in G[n] /\ s \in S
    BY <1>1, <2>4, <2>5
  <2> HIDE DEF s
  <2>7. f \in [0 .. n -> S] /\ f[0] = c
    BY <1>1, <2>4, <2>5, <2>6
  <2>8. \A i \in 1 .. n : f[i] = F[<<i, f[i - 1]>>]
    <3> SUFFICES ASSUME NEW i \in 1 .. n PROVE f[i] = F[<<i, f[i - 1]>>]
      OBVIOUS
    <3>1. f[i - 1] = g[i - 1] /\ i \in 0 .. n
      BY <2>4
    <3>2. CASE i = n
      BY <3>1, <3>2 DEF s
    <3>3. CASE i # n
      <4>1. i \in 1 .. n - 1 /\ f[i] = g[i]
        BY <2>4, <3>1, <3>3
      <4>2. QED
        BY <2>5, <3>1, <4>1
    <3>4. QED
      BY <3>2, <3>3
  <2>9. \A i \in 0 .. n : f[i] \in G[i]
    BY <1>1, <2>4, <2>5, <2>6
  <2> HIDE DEF f
  <2>10. Right(n, f)
    BY <2>7, <2>8, <2>9
  <2>11. QED
    BY <2>2, <2>10
<1>3. PICK f : Right(N, f)
  <2>1. N \in 0 .. N
    BY <1>1
  <2>2. N \notin Bad
    <3> HIDE DEF Bad
    <3>1. QED
      BY <1>2
  <2> HIDE DEF Right
  <2>3. QED
    BY <2>1, <2>2
<1>4. QED
  BY <1>3

\* Two courses that do the same are the same.
LEMMA Alike ==
  ASSUME NEW N \in Nat, NEW f, NEW g, f[0] = g[0],
         \A n \in 1 .. N : f[n - 1] = g[n - 1] => f[n] = g[n]
  PROVE  \A n \in 0 .. N : f[n] = g[n]
<1> DEFINE Bad == {n \in 0 .. N : f[n] # g[n]}
<1>1. ASSUME Bad # {} PROVE FALSE
  <2>1. PICK n \in Bad : \A m \in Bad : n <= m
    <3>1. Bad \in SUBSET Nat
      OBVIOUS
    <3> HIDE DEF Bad
    <3>2. QED
      BY <1>1, <3>1, LeastNumber
  <2>2. n \in 0 .. N /\ f[n] # g[n] /\ n # 0
    OBVIOUS
  <2>3. n - 1 \in 0 .. N /\ n \in 1 .. N /\ ~ (n <= n - 1)
    BY <2>2
  <2>4. f[n - 1] = g[n - 1]
    BY <2>1, <2>3
  <2>5. QED
    BY <2>2, <2>3, <2>4
<1>2. QED
  BY <1>1

\* The tiles of the rows above z, and those of row z to the left of x.
Until(x, z) == {t \in Tiles : t[2] < z \/ (t[2] = z /\ t[1] < x)}

LEMMA RowByRow ==
  ASSUME NEW z \in 0 .. Height - 1
  PROVE  /\ \A x \in 1 .. Width : /\ <<x - 1, z>> \in Tiles
                                  /\ Until(x, z) = Until(x - 1, z) \union {<<x - 1, z>>}
         /\ Until(Width, z) = Until(0, z + 1)
<1>1. Width \in Nat /\ Height \in Nat /\ z \in Nat
  BY SearchAssumption
<1>2. \A t \in Tiles : t = <<t[1], t[2]>> /\ t[1] \in 0 .. Width - 1 /\ t[2] \in 0 .. Height - 1
  BY DEF Tiles
<1>3. ASSUME NEW x \in 1 .. Width
      PROVE  /\ <<x - 1, z>> \in Tiles
             /\ Until(x, z) = Until(x - 1, z) \union {<<x - 1, z>>}
  <2>1. <<x - 1, z>> \in Tiles
    BY <1>1 DEF Tiles
  <2>2. ASSUME NEW t \in Tiles
        PROVE  t \in Until(x, z) <=> t \in Until(x - 1, z) \/ t = <<x - 1, z>>
    <3>1. t[1] \in Int /\ t[2] \in Int /\ x \in Int /\ z \in Int /\ t = <<t[1], t[2]>>
      BY <1>1, <1>2
    <3>2. t = <<x - 1, z>> <=> t[1] = x - 1 /\ t[2] = z
      BY <3>1
    <3>3. t \in Until(x, z) <=> t[2] < z \/ (t[2] = z /\ t[1] < x)
      BY DEF Until
    <3>4. t \in Until(x - 1, z) <=> t[2] < z \/ (t[2] = z /\ t[1] < x - 1)
      BY DEF Until
    <3>5. t[1] < x <=> t[1] < x - 1 \/ t[1] = x - 1
      BY <3>1
    <3>6. QED
      BY <3>2, <3>3, <3>4, <3>5
  <2>3. Until(x, z) \subseteq Tiles /\ Until(x - 1, z) \subseteq Tiles
    BY DEF Until
  <2>4. QED
    BY <2>1, <2>2, <2>3
<1>4. Until(Width, z) = Until(0, z + 1)
  <2>1. ASSUME NEW t \in Tiles
        PROVE  t \in Until(Width, z) <=> t \in Until(0, z + 1)
    <3>1. /\ t[1] \in Int /\ t[2] \in Int /\ z \in Int /\ 0 <= t[1] /\ t[1] < Width
          /\ Width \in Int
      BY <1>1, <1>2
    <3>2. (t[2] < z \/ (t[2] = z /\ t[1] < Width)) <=> (t[2] < z + 1 \/ (t[2] = z + 1 /\ t[1] < 0))
      BY <3>1
    <3>3. QED
      BY <3>2 DEF Until
  <2>2. Until(Width, z) \subseteq Tiles /\ Until(0, z + 1) \subseteq Tiles
    BY DEF Until
  <2>3. QED
    BY <2>1, <2>2
<1>5. QED
  BY <1>3, <1>4

NetsOn(map, done) == {net \in Nets : NetworkOn(map, done, net)}

LEMMA RowSeenRight ==
  ASSUME NEW map \in Maps, NEW z \in 0 .. Height - 1, NEW before \in NetsOn(map, Until(0, z))
  PROVE  RowSeen(map, before, z) \in NetsOn(map, Until(0, z + 1))
<1> DEFINE Is(f) == f = [x \in 0 .. Width |->
                           IF x = 0 THEN before ELSE Seen(map, f[x - 1], <<x - 1, z>>)]
           course == CHOOSE f : Is(f)
           G == [x \in 0 .. Width |-> NetsOn(map, Until(x, z))]
           F == [p \in (1 .. Width) \X Nets |-> Seen(map, p[2], <<p[1] - 1, z>>)]
<1>1. Width \in Nat
  BY SearchAssumption
<1>2. RowSeen(map, before, z) = course[Width]
  BY DEF RowSeen
<1>3. G \in [0 .. Width -> SUBSET Nets] /\ before \in G[0]
  BY <1>1 DEF NetsOn
<1>4. \A x \in 1 .. Width : \A net \in G[x - 1] :
        Seen(map, net, <<x - 1, z>>) \in G[x] /\ net \in Nets
  <2> SUFFICES ASSUME NEW x \in 1 .. Width, NEW net \in G[x - 1]
               PROVE  Seen(map, net, <<x - 1, z>>) \in G[x] /\ net \in Nets
    OBVIOUS
  <2> DEFINE t == <<x - 1, z>>
             done == Until(x - 1, z)
  <2>1. x - 1 \in 0 .. Width /\ x \in 0 .. Width
    BY <1>1
  <2>2. t \in Tiles /\ Until(x, z) = done \union {t} /\ done \in SUBSET Tiles
    BY RowByRow DEF Until
  <2>3. net \in Nets /\ NetworkOn(map, done, net)
    BY <2>1 DEF NetsOn
  <2> HIDE DEF t, done
  <2>4. NetworkOn(map, done \union {t}, Seen(map, net, t))
    BY <2>2, <2>3, SeenRight
  <2>5. Seen(map, net, t) \in Nets
    BY <2>4 DEF NetworkOn
  <2>6. Seen(map, net, t) \in G[x]
    BY <2>1, <2>2, <2>4, <2>5 DEF NetsOn
  <2>7. QED
    BY <2>3, <2>6 DEF t
<1>5. \A x \in 1 .. Width : \A net \in G[x - 1] :
        F[<<x, net>>] = Seen(map, net, <<x - 1, z>>) /\ F[<<x, net>>] \in G[x]
  <2> HIDE DEF G
  <2>1. QED
    BY <1>4
<1> HIDE DEF G, F
<1>6. PICK g : /\ g \in [0 .. Width -> Nets] /\ g[0] = before
               /\ \A x \in 1 .. Width : g[x] = F[<<x, g[x - 1]>>]
               /\ \A x \in 0 .. Width : g[x] \in G[x]
  <2>1. Loop(Width, Nets, G, F, before)
    BY <1>1, <1>3, <1>5 DEF Loop
  <2>2. QED
    BY <2>1, Looped
<1>7. Is(g)
  <2>1. \A x \in 0 .. Width : g[x] = IF x = 0 THEN before ELSE Seen(map, g[x - 1], <<x - 1, z>>)
    <3> SUFFICES ASSUME NEW x \in 0 .. Width
                 PROVE  g[x] = IF x = 0 THEN before ELSE Seen(map, g[x - 1], <<x - 1, z>>)
      OBVIOUS
    <3>2. CASE x = 0
      BY <1>6, <3>2
    <3>3. CASE x # 0
      <4>1. x \in 1 .. Width /\ x - 1 \in 0 .. Width
        BY <1>1, <3>3
      <4>2. QED
        BY <1>5, <1>6, <3>3, <4>1
    <3>4. QED
      BY <3>2, <3>3
  <2>2. g = [x \in 0 .. Width |-> g[x]]
    BY <1>6
  <2>3. QED
    BY <2>1, <2>2
<1>8. Is(course)
  <2> HIDE DEF Is
  <2>1. QED
    BY <1>7
<1> HIDE DEF course
<1>9. \A x \in 0 .. Width : course[x] = g[x]
  <2>1. course[0] = before /\ g[0] = before
    BY <1>1, <1>7, <1>8
  <2>2. \A x \in 1 .. Width :
          /\ course[x] = Seen(map, course[x - 1], <<x - 1, z>>)
          /\ g[x] = Seen(map, g[x - 1], <<x - 1, z>>)
    <3>1. \A x \in 1 .. Width : x \in 0 .. Width /\ x # 0
      BY <1>1
    <3>2. QED
      BY <1>7, <1>8, <3>1
  <2>3. \A x \in 1 .. Width : course[x - 1] = g[x - 1] => course[x] = g[x]
    BY <2>2
  <2> HIDE DEF Is
  <2>4. QED
    BY <1>1, <2>1, <2>3, Alike
<1>10. QED
  <2>1. Width \in 0 .. Width
    BY <1>1
  <2>2. course[Width] \in G[Width]
    BY <1>6, <1>9, <2>1
  <2>3. G[Width] = NetsOn(map, Until(0, z + 1))
    BY <2>1, RowByRow DEF G
  <2>4. QED
    BY <1>2, <2>2, <2>3

\* What a rebuild computes.
LEMMA RebuiltRight ==
  ASSUME NEW map \in Maps
  PROVE  NetworkOn(map, Tiles, Rebuilt(map))
<1> DEFINE Is(f) == f = [z \in 0 .. Height |->
                           IF z = 0 THEN Empty ELSE RowSeen(map, f[z - 1], z - 1)]
           course == CHOOSE f : Is(f)
           G == [z \in 0 .. Height |-> NetsOn(map, Until(0, z))]
           F == [p \in (1 .. Height) \X Nets |-> RowSeen(map, p[2], p[1] - 1)]
<1>1. Height \in Nat
  BY SearchAssumption
<1>2. Rebuilt(map) = course[Height]
  BY DEF Rebuilt
<1>3. G \in [0 .. Height -> SUBSET Nets] /\ Empty \in G[0]
  <2>1. G \in [0 .. Height -> SUBSET Nets]
    BY DEF NetsOn
  <2>2. Until(0, 0) = {}
    BY SearchAssumption DEF Until, Tiles
  <2>3. Empty \in NetsOn(map, {})
    BY EmptyRight DEF NetsOn, NetworkOn
  <2>4. QED
    BY <1>1, <2>1, <2>2, <2>3
<1>4. \A z \in 1 .. Height : \A net \in G[z - 1] : RowSeen(map, net, z - 1) \in G[z] /\ net \in Nets
  <2> SUFFICES ASSUME NEW z \in 1 .. Height, NEW net \in G[z - 1]
               PROVE  RowSeen(map, net, z - 1) \in G[z] /\ net \in Nets
    OBVIOUS
  <2> DEFINE y == z - 1
  <2>1. y \in 0 .. Height /\ z \in 0 .. Height /\ y \in 0 .. Height - 1 /\ z = y + 1
    BY <1>1
  <2>2. net \in NetsOn(map, Until(0, y))
    BY <2>1
  <2> HIDE DEF y
  <2>3. RowSeen(map, net, y) \in NetsOn(map, Until(0, y + 1))
    BY <2>1, <2>2, RowSeenRight
  <2>4. QED
    BY <2>1, <2>2, <2>3 DEF y, NetsOn
<1>5. \A z \in 1 .. Height : \A net \in G[z - 1] :
        F[<<z, net>>] = RowSeen(map, net, z - 1) /\ F[<<z, net>>] \in G[z]
  <2> HIDE DEF G
  <2>1. QED
    BY <1>4
<1> HIDE DEF G, F
<1>6. PICK g : /\ g \in [0 .. Height -> Nets] /\ g[0] = Empty
               /\ \A z \in 1 .. Height : g[z] = F[<<z, g[z - 1]>>]
               /\ \A z \in 0 .. Height : g[z] \in G[z]
  <2>1. Loop(Height, Nets, G, F, Empty)
    BY <1>1, <1>3, <1>5 DEF Loop
  <2>2. QED
    BY <2>1, Looped
<1>7. Is(g)
  <2>1. \A z \in 0 .. Height : g[z] = IF z = 0 THEN Empty ELSE RowSeen(map, g[z - 1], z - 1)
    <3> SUFFICES ASSUME NEW z \in 0 .. Height
                 PROVE  g[z] = IF z = 0 THEN Empty ELSE RowSeen(map, g[z - 1], z - 1)
      OBVIOUS
    <3>2. CASE z = 0
      BY <1>6, <3>2
    <3>3. CASE z # 0
      <4>1. z \in 1 .. Height /\ z - 1 \in 0 .. Height
        BY <1>1, <3>3
      <4>2. QED
        BY <1>5, <1>6, <3>3, <4>1
    <3>4. QED
      BY <3>2, <3>3
  <2>2. g = [z \in 0 .. Height |-> g[z]]
    BY <1>6
  <2>3. QED
    BY <2>1, <2>2
<1>8. Is(course)
  <2> HIDE DEF Is
  <2>1. QED
    BY <1>7
<1> HIDE DEF course
<1>9. \A z \in 0 .. Height : course[z] = g[z]
  <2>1. course[0] = Empty /\ g[0] = Empty
    BY <1>1, <1>7, <1>8
  <2>2. \A z \in 1 .. Height :
          /\ course[z] = RowSeen(map, course[z - 1], z - 1)
          /\ g[z] = RowSeen(map, g[z - 1], z - 1)
    <3>1. \A z \in 1 .. Height : z \in 0 .. Height /\ z # 0
      BY <1>1
    <3>2. QED
      BY <1>7, <1>8, <3>1
  <2>3. \A z \in 1 .. Height : course[z - 1] = g[z - 1] => course[z] = g[z]
    BY <2>2
  <2> HIDE DEF Is
  <2>4. QED
    BY <1>1, <2>1, <2>3, Alike
<1>10. QED
  <2>1. Height \in 0 .. Height
    BY <1>1
  <2>2. course[Height] \in G[Height]
    BY <1>6, <1>9, <2>1
  <2>3. G[Height] = NetsOn(map, Until(0, Height))
    BY <2>1 DEF G
  <2>4. Until(0, Height) = Tiles
    BY SearchAssumption DEF Until, Tiles
  <2>5. QED
    BY <1>2, <2>2, <2>3, <2>4 DEF NetsOn

\* A way breaks off anywhere and is a way still.
LEMMA WayBegun ==
  ASSUME NEW where \in SUBSET Tiles, NEW start \in Tiles, NEW way, IsWay(where, start, way),
         NEW k \in 1 .. Len(way)
  PROVE  /\ IsWay(where, start, SubSeq(way, 1, k))
         /\ Last(SubSeq(way, 1, k)) = way[k]
<1> DEFINE n == Len(way)
           begun == SubSeq(way, 1, k)
<1>1. way \in Seq(Tiles) /\ n \in Nat /\ \A i \in 1 .. n : way[i] \in Tiles
  BY LenProperties, ElementOfSeq DEF IsWay
<1>2. /\ begun \in Seq(Tiles) /\ Len(begun) = k
      /\ \A i \in 1 .. k : begun[i] = way[i]
  BY <1>1, SubSeqProperties
<1> HIDE DEF begun
<1>3. IsWay(where, start, begun)
  <2>1. k \in Nat /\ 1 <= k /\ \A i \in 1 .. k : i \in 1 .. n
    BY <1>1
  <2>2. \A i \in 2 .. k : i \in 2 .. n /\ i \in 1 .. k /\ i - 1 \in 1 .. k
    BY <1>1
  <2>3. begun[1] = start
    BY <1>2, <2>1 DEF IsWay
  <2>4. \A i \in 2 .. k : begun[i] \in where /\ Distance(begun[i - 1], begun[i]) = 1
    BY <1>2, <2>2 DEF IsWay
  <2>5. \A i, j \in 1 .. k : i < j => begun[i] # begun[j]
    BY <1>2, <2>1 DEF IsWay
  <2>6. QED
    BY <1>2, <2>1, <2>3, <2>4, <2>5 DEF IsWay
<1>4. Last(begun) = way[k]
  BY <1>2 DEF Last
<1>5. QED
  BY <1>3, <1>4 DEF begun

RoadsOf(map) == {t \in Tiles : map[t] \in Roads}

\* A tile without a road has a root of its own.
LEMMA NoRoadAlone ==
  ASSUME NEW map \in Maps, NEW root, Separates(map, root),
         NEW s \in Tiles, NEW t \in Tiles, map[t] \notin Roads, root[s] = root[t]
  PROVE  s = t
<1>1. {t} \in SUBSET Tiles /\ Closed(map, {t})
  BY DEF Closed
<1>2. s \in {t} <=> t \in {t}
  BY <1>1 DEF Separates
<1>3. QED
  BY <1>2

\* The ends of the ways along roads are the roads with the same root.
LEMMA LinkedIs ==
  ASSUME NEW map \in Maps, NEW root, Separates(map, root), Joins(RoadsOf(map), root),
         NEW s \in RoadsOf(map)
  PROVE  {Last(way) : way \in Ways(RoadsOf(map), s)} = {t \in RoadsOf(map) : root[s] = root[t]}
<1> DEFINE roads == RoadsOf(map)
           ends == {Last(way) : way \in Ways(roads, s)}
<1>1. roads \in SUBSET Tiles /\ s \in Tiles
  BY DEF RoadsOf
<1>2. \A way : way \in Ways(roads, s) <=> IsWay(roads, s, way)
  BY <1>1, WaysAre
<1>3. ASSUME NEW way, IsWay(roads, s, way)
      PROVE  Last(way) \in roads /\ root[s] = root[Last(way)]
  <2> DEFINE n == Len(way)
             Off == {i \in 1 .. n : way[i] \notin roads \/ root[s] # root[way[i]]}
  <2>1. n \in Nat /\ n >= 1 /\ way[1] = s
    BY <1>3, LenProperties DEF IsWay
  <2>2. ASSUME Off # {} PROVE FALSE
    <3>1. PICK i \in Off : \A j \in Off : i <= j
      <4>1. Off \in SUBSET Nat
        OBVIOUS
      <4> HIDE DEF Off
      <4>2. QED
        BY <2>2, <4>1, LeastNumber
    <3>2. i \in 1 .. n /\ (way[i] \notin roads \/ root[s] # root[way[i]])
      OBVIOUS
    <3>3. i # 1
      BY <2>1, <3>2
    <3>4. i - 1 \in 1 .. n /\ i \in 2 .. n /\ ~ (i <= i - 1)
      BY <2>1, <3>2, <3>3
    <3>5. way[i - 1] \in roads /\ root[s] = root[way[i - 1]]
      BY <3>1, <3>4
    <3>6. way[i] \in roads /\ Distance(way[i - 1], way[i]) = 1
      BY <1>3, <3>4 DEF IsWay
    <3>7. root[way[i - 1]] = root[way[i]]
      BY <3>5, <3>6 DEF Joins
    <3>8. QED
      BY <3>2, <3>5, <3>6, <3>7
  <2>3. n \in 1 .. n /\ Last(way) = way[n]
    BY <2>1 DEF Last
  <2>4. n \notin Off
    BY <2>2
  <2>5. QED
    BY <2>3, <2>4
<1>4. s \in ends
  <2>1. IsWay(roads, s, <<s>>) /\ Last(<<s>>) = s
    BY <1>1 DEF IsWay, Last
  <2>2. QED
    BY <1>2, <2>1
<1>5. ends \in SUBSET Tiles
  BY <1>1, <1>2, <1>3
<1>6. Closed(map, ends)
  <2> SUFFICES ASSUME NEW u \in ends, NEW t \in Tiles, map[t] \in Roads, Distance(u, t) = 1
               PROVE  t \in ends
    BY DEF Closed
  <2>1. PICK way : IsWay(roads, s, way) /\ Last(way) = u
    BY <1>2
  <2>2. t \in roads /\ u \in Tiles
    BY <1>5 DEF RoadsOf
  <2>3. CASE t \in Range(way)
    <3>1. PICK k \in DOMAIN way : way[k] = t
      BY <2>3 DEF Range
    <3>2. k \in 1 .. Len(way)
      BY <2>1, LenProperties DEF IsWay
    <3>3. IsWay(roads, s, SubSeq(way, 1, k)) /\ Last(SubSeq(way, 1, k)) = t
      BY <1>1, <2>1, <3>1, <3>2, WayBegun
    <3>4. QED
      BY <1>2, <3>3
  <2>4. CASE t \notin Range(way)
    <3>1. GoesOn(roads, way, t)
      BY <2>1, <2>2, <2>4, OneStep DEF GoesOn
    <3>2. IsWay(roads, s, Append(way, t))
      BY <1>1, <2>1, <3>1, WayExtended
    <3>3. Last(Append(way, t)) = t
      <4> DEFINE longer == Append(way, t)
      <4>1. way \in Seq(Tiles) /\ t \in Tiles
        BY <2>1 DEF IsWay
      <4>2. Len(longer) = Len(way) + 1 /\ longer[Len(way) + 1] = t
        BY <4>1, AppendProperties
      <4> HIDE DEF longer
      <4>3. Last(longer) = t
        BY <4>2 DEF Last
      <4>4. QED
        BY <4>3 DEF longer
    <3>4. QED
      BY <1>2, <3>2, <3>3
  <2>5. QED
    BY <2>3, <2>4
<1>7. ASSUME NEW t \in roads, root[s] = root[t] PROVE t \in ends
  <2>1. t \in Tiles
    BY <1>1
  <2> HIDE DEF ends
  <2>2. s \in ends <=> t \in ends
    BY <1>1, <1>5, <1>6, <1>7, <2>1 DEF Separates
  <2>3. QED
    BY <1>4, <2>2
<1>8. \A t \in ends : t \in roads /\ root[s] = root[t]
  BY <1>2, <1>3
<1>9. QED
  BY <1>7, <1>8

\* What a network answers is true of the map.
NetworkTrue(map, net) ==
  LET roads == {t \in Tiles : map[t] \in Roads}
      linked == [s \in roads |-> {Last(way) : way \in Ways(roads, s)}]
      stores == [s \in roads |-> {t \in linked[s] : map[t] = Warehouse}]
  IN  /\ net.roads = roads
      /\ \A t \in Tiles :
           IsAdjacentToConnectedRoad(net, t) =
             \E s \in roads : Distance(s, t) = 1 /\ stores[s] # {}
      /\ \A s \in roads :
           /\ linked[s] = {t \in roads : AreConnected(net, s, t)}
           /\ ComponentSize(net, s) = Cardinality(linked[s])
           /\ IF stores[s] = {} THEN ConnectedWarehouse(net, s) = None
              ELSE ConnectedWarehouse(net, s) \in stores[s]

LEMMA AnswersRight ==
  ASSUME NEW map \in Maps, NEW net, NetworkOn(map, Tiles, net)
  PROVE  NetworkTrue(map, net)
<1> DEFINE roads == RoadsOf(map)
           linked == [s \in roads |-> {Last(way) : way \in Ways(roads, s)}]
           stores == [s \in roads |-> {t \in linked[s] : map[t] = Warehouse}]
<1>1. /\ net \in Nets /\ net.roads = roads
      /\ Range(net.warehouses) = {t \in Tiles : map[t] = Warehouse}
  BY DEF NetworkOn, RoadsOf
<1>2. PICK root : Grouped(net.uf, root) /\ Separates(map, root) /\ Joins(roads, root)
  BY <1>1 DEF NetworkOn
<1>3. \A t \in Tiles : Root(net.uf, t) = root[t] /\ root[t] \in Tiles /\ root[root[t]] = root[t]
  <2>1. PICK depth : Forest(net.uf.parent, root, depth)
    BY <1>2 DEF Grouped
  <2>2. \A t \in Tiles : Root(net.uf, t) = root[t]
    BY <1>2, <2>1, RootIs DEF Grouped
  <2>3. QED
    BY <2>1, <2>2 DEF Forest
<1>4. roads \in SUBSET Tiles
  BY DEF RoadsOf
<1>5. \A s, t \in roads : AreConnected(net, s, t) <=> root[s] = root[t]
  BY <1>1, <1>3, <1>4 DEF AreConnected
<1>6. \A s \in roads : linked[s] = {t \in roads : root[s] = root[t]}
  BY <1>2, LinkedIs
<1> HIDE DEF linked, roads
<1>7. \A s \in roads : linked[s] = {t \in roads : AreConnected(net, s, t)}
  BY <1>5, <1>6
<1>8. ASSUME NEW s \in roads PROVE ComponentSize(net, s) = Cardinality(linked[s])
  <2>1. s \in Tiles /\ root[s] \in Tiles /\ root[root[s]] = root[s] /\ Root(net.uf, s) = root[s]
    BY <1>3, <1>4
  <2>2. ComponentSize(net, s) = net.uf.size[root[s]]
    BY <1>1, <2>1 DEF ComponentSize
  <2>3. net.uf.size[root[s]] = Cardinality({u \in Tiles : root[u] = root[s]})
    BY <1>2, <2>1 DEF Grouped, Sized
  <2>4. ASSUME NEW u \in Tiles, root[u] = root[s] PROVE u \in roads
    <3>1. map[u] \notin Roads => s = u
      BY <1>2, <2>1, <2>4, NoRoadAlone
    <3>2. QED
      BY <3>1 DEF roads, RoadsOf
  <2>5. {u \in Tiles : root[u] = root[s]} = linked[s]
    BY <1>4, <1>6, <2>4
  <2>6. QED
    BY <2>2, <2>3, <2>5
<1>9. Warehouse \in Roads /\ \A t \in Tiles : map[t] = Warehouse => t \in roads
  BY RoadAssumption DEF roads, RoadsOf
<1>10. ASSUME NEW s \in roads
       PROVE  IF stores[s] = {} THEN ConnectedWarehouse(net, s) = None
              ELSE ConnectedWarehouse(net, s) \in stores[s]
  <2> DEFINE ws == net.warehouses
             idx == {i \in DOMAIN ws : AreConnected(net, s, ws[i])}
  <2>1. ConnectedWarehouse(net, s) = IF idx = {} THEN None ELSE ws[Min(idx)]
    BY DEF ConnectedWarehouse
  <2>2. stores[s] = {t \in linked[s] : map[t] = Warehouse}
    BY <1>10
  <2>3. \A i \in DOMAIN ws : ws[i] \in Tiles /\ map[ws[i]] = Warehouse /\ ws[i] \in roads
    BY <1>1, <1>9 DEF Range
  <2>4. \A i \in idx : ws[i] \in stores[s]
    BY <1>7, <2>2, <2>3
  <2>5. ASSUME NEW t \in stores[s] PROVE idx # {}
    <3>1. t \in roads /\ map[t] = Warehouse /\ AreConnected(net, s, t)
      BY <1>7, <2>2
    <3>2. PICK i \in DOMAIN ws : ws[i] = t
      BY <1>1, <1>4, <3>1 DEF Range
    <3>3. QED
      BY <3>1, <3>2
  <2>6. idx # {} => Min(idx) \in idx
    <3> SUFFICES ASSUME idx # {} PROVE Min(idx) \in idx
      OBVIOUS
    <3>1. idx \in SUBSET Nat
      <4>1. DOMAIN ws = 1 .. Len(ws) /\ Len(ws) \in Nat
        BY <1>1, LenProperties DEF Nets
      <4>2. QED
        BY <4>1
    <3> HIDE DEF idx
    <3>2. \E i \in idx : \A j \in idx : i <= j
      BY <3>1, LeastNumber
    <3>3. QED
      BY <3>2 DEF Min
  <2> HIDE DEF idx, stores
  <2>7. CASE idx = {}
    BY <2>1, <2>5, <2>7
  <2>8. CASE idx # {}
    BY <2>1, <2>4, <2>6, <2>8
  <2>9. QED
    BY <2>7, <2>8
<1>11. None \notin Tiles
  BY SearchAssumption DEF Tiles
<1>12. \A n : ConnectedWarehouse(net, n) # None <=> n \in roads /\ stores[n] # {}
  <2> SUFFICES ASSUME NEW n PROVE ConnectedWarehouse(net, n) # None <=> n \in roads /\ stores[n] # {}
    OBVIOUS
  <2>1. CASE n \in roads
    <3>1. stores[n] \in SUBSET Tiles
      BY <1>4, <1>7, <2>1
    <3> HIDE DEF stores
    <3>2. QED
      BY <1>10, <1>11, <2>1, <3>1
  <2>2. CASE n \notin roads
    <3>1. \A t : ~ AreConnected(net, n, t)
      BY <1>1, <2>2 DEF AreConnected
    <3>2. QED
      BY <2>2, <3>1 DEF ConnectedWarehouse
  <2>3. QED
    BY <2>1, <2>2
<1>13. ASSUME NEW t \in Tiles
       PROVE  IsAdjacentToConnectedRoad(net, t) = \E s \in roads : Distance(s, t) = 1 /\ stores[s] # {}
  <2> HIDE DEF stores
  <2>1. DOMAIN Neighbours(t) = 1 .. 4
    BY DEF Neighbours
  <2>2. IsAdjacentToConnectedRoad(net, t) <=>
          \E i \in 1 .. 4 : Neighbours(t)[i] \in roads /\ stores[Neighbours(t)[i]] # {}
    BY <1>12, <2>1 DEF IsAdjacentToConnectedRoad
  <2>3. \A s \in roads : Distance(s, t) = 1 <=> \E i \in 1 .. 4 : Neighbours(t)[i] = s
    BY <1>4, OneStep
  <2>4. IsAdjacentToConnectedRoad(net, t) <=> \E s \in roads : Distance(s, t) = 1 /\ stores[s] # {}
    BY <2>2, <2>3
  <2>5. IsAdjacentToConnectedRoad(net, t) \in BOOLEAN
    BY DEF IsAdjacentToConnectedRoad
  <2>6. QED
    BY <2>4, <2>5
<1>14. QED
  BY <1>1, <1>7, <1>8, <1>10, <1>13 DEF NetworkTrue, linked, roads, RoadsOf

-----------------------------------------------------------------------------
(* The path cache *)

\* Every rank in a finite set of numbers is held by one of them.
LEMMA RankHeld ==
  ASSUME NEW I, I \subseteq Nat, IsFiniteSet(I)
  PROVE  /\ Cardinality(I) \in Nat
         /\ \A n \in 1 .. Cardinality(I) : \E t \in I : Cardinality({u \in I : u <= t}) = n
<1> DEFINE below(t) == {u \in I : u <= t}
           r == [t \in I |-> Cardinality(below(t))]
           c == Cardinality(I)
<1>1. c \in Nat
  BY FS_CardinalityType
<1>2. \A t : IsFiniteSet(below(t)) /\ Cardinality(below(t)) \in 0 .. c
  <2> SUFFICES ASSUME NEW t PROVE IsFiniteSet(below(t)) /\ Cardinality(below(t)) \in 0 .. c
    OBVIOUS
  <2>1. below(t) \in SUBSET I
    OBVIOUS
  <2> HIDE DEF below
  <2>2. IsFiniteSet(below(t)) /\ Cardinality(below(t)) <= c
    BY <2>1, FS_Subset
  <2>3. Cardinality(below(t)) \in Nat
    BY <2>2, FS_CardinalityType
  <2>4. QED
    BY <1>1, <2>2, <2>3
<1>3. \A t \in I : Cardinality(below(t)) \in 1 .. c
  <2> SUFFICES ASSUME NEW t \in I PROVE Cardinality(below(t)) # 0
    BY <1>1, <1>2
  <2>1. t \in below(t)
    OBVIOUS
  <2>2. QED
    BY <1>2, <2>1, FS_EmptySet
<1>4. \A t, k \in I : t < k => Cardinality(below(t)) # Cardinality(below(k))
  <2> SUFFICES ASSUME NEW t \in I, NEW k \in I, t < k
               PROVE  Cardinality(below(t)) # Cardinality(below(k))
    OBVIOUS
  <2>1. k <= k /\ ~ (k <= t) /\ \A j \in I : j <= t => j <= k
    OBVIOUS
  <2>2. below(t) \in SUBSET below(k) /\ k \in below(k) /\ k \notin below(t)
    BY <2>1
  <2> HIDE DEF below
  <2>3. Cardinality(below(k)) = Cardinality(below(t)) => below(k) = below(t)
    BY <1>2, <2>2, FS_Subset
  <2>4. QED
    BY <2>2, <2>3
<1>5. r \in Injection(I, 1 .. c)
  <2>1. r \in [I -> 1 .. c]
    BY <1>3
  <2>2. \A t, k \in I : r[t] = r[k] => t = k
    BY <1>4
  <2> HIDE DEF r
  <2>3. QED
    BY <2>1, <2>2 DEF Injection, IsInjective
<1>6. r \in Surjection(I, 1 .. c)
  <2>1. IsFiniteSet(1 .. c) /\ Cardinality(1 .. c) = c
    BY <1>1, Counted
  <2>2. QED
    BY <1>5, <2>1, FS_Injection
<1>7. \A n \in 1 .. c : \E t \in I : Cardinality(below(t)) = n
  BY <1>6 DEF Surjection
<1>8. QED
  BY <1>1, <1>7

\* What a path is put into the cache with.
Cached(key, path) == [key |-> key, path |-> path]

LEMMA WithoutOne ==
  ASSUME NEW S, NEW s \in Seq(S), NEW w \in DOMAIN s
  PROVE  RemoveAt(s, w) \in Seq(S)
<1>1. /\ Len(s) \in Nat /\ DOMAIN s = 1 .. Len(s) /\ w \in 1 .. Len(s)
      /\ \A i \in 1 .. Len(s) : s[i] \in S
  BY LenProperties, ElementOfSeq
<1>2. SubSeq(s, 1, w - 1) \in Seq(S) /\ SubSeq(s, w + 1, Len(s)) \in Seq(S)
  BY <1>1, SubSeqProperties
<1>3. QED
  BY <1>2, ConcatProperties DEF RemoveAt

\* The cache holds nothing but what it held and what is put into it.
LEMMA CacheHolds ==
  ASSUME NEW S, cache \in Seq(S), NEW key, NEW path
  PROVE  /\ Latest(key, path) \in Seq(S \union {Cached(key, path)})
         /\ Recorded(key, path) \in Seq(S \union {Cached(key, path)})
<1> DEFINE T == S \union {Cached(key, path)}
           others == IF key \in KeysCached THEN RemoveAt(cache, PlaceOf(key)) ELSE cache
<1>1. others \in Seq(S)
  <2>1. CASE key \in KeysCached
    <3>1. PlaceOf(key) \in DOMAIN cache
      BY <2>1 DEF KeysCached, PlaceOf
    <3>2. QED
      BY <2>1, <3>1, WithoutOne
  <2>2. CASE key \notin KeysCached
    BY <2>2
  <2>3. QED
    BY <2>1, <2>2
<1>2. Latest(key, path) = Append(others, Cached(key, path))
  BY DEF Latest, Cached
<1> HIDE DEF others
<1>3. others \in Seq(T) /\ Cached(key, path) \in T
  BY <1>1, SeqMonotonic
<1> HIDE DEF T
<1>4. Latest(key, path) \in Seq(T) /\ Latest(key, path) # <<>>
  BY <1>2, <1>3, AppendProperties
<1>5. Tail(Latest(key, path)) \in Seq(T)
  BY <1>4, HeadTailProperties
<1>6. Recorded(key, path) \in Seq(T)
  BY <1>4, <1>5 DEF Recorded
<1>7. QED
  BY <1>4, <1>6 DEF T

LEMMA NewerHolds ==
  ASSUME NEW S, cache \in Seq(S), NEW v
  PROVE  Newer(v) \in Seq(S)
<1> DEFINE kept == {i \in DOMAIN cache : cache[i].key.version >= v}
           Nth(n) == CHOOSE i \in kept : Cardinality({j \in kept : j <= i}) = n
           c == Cardinality(kept)
<1>1. Len(cache) \in Nat /\ DOMAIN cache = 1 .. Len(cache)
      /\ \A i \in DOMAIN cache : cache[i] \in S
  BY LenProperties, ElementOfSeq
<1>2. kept \in SUBSET (1 .. Len(cache)) /\ kept \subseteq Nat
  BY <1>1
<1>3. Newer(v) = [n \in 1 .. c |-> cache[Nth(n)]]
  BY DEF Newer
<1>4. c \in Nat /\ \A n \in 1 .. c : Nth(n) \in kept
  <2> HIDE DEF kept
  <2>1. IsFiniteSet(1 .. Len(cache))
    BY <1>1, Counted
  <2>2. IsFiniteSet(kept)
    BY <1>2, <2>1, FS_Subset
  <2>3. c \in Nat /\ \A n \in 1 .. c : \E i \in kept : Cardinality({j \in kept : j <= i}) = n
    BY <1>2, <2>2, RankHeld
  <2>4. QED
    BY <2>3
<1> HIDE DEF Nth, c
<1>5. \A n \in 1 .. c : cache[Nth(n)] \in S
  BY <1>1, <1>4
<1>6. QED
  BY <1>3, <1>4, <1>5

-----------------------------------------------------------------------------
(* What is remembered, as it ought to be on a map of some version *)

Keys == [version : Nat, start : Tiles, goal : Tiles]

TrueOn(map, v, key, path) ==
  /\ key \in Keys /\ key.version <= v
  /\ key.version = v => Truthful(map, path, key.start, key.goal)

EntryOn(map, v, e) == TrueOn(map, v, e.key, e.path) /\ e.path # NoPath

CacheOn(map, v, c) == \E E : c \in Seq(E) /\ \A e \in E : EntryOn(map, v, e)

ResultsOn(map, v, r) == \A k \in DOMAIN r : TrueOn(map, v, k, r[k])

PendingOn(map, v, p) ==
  \A k \in DOMAIN p :
    /\ k \in Keys /\ k.version <= v
    /\ k.version = v => SearchInv(map, p[k], k.start, k.goal)

ClearOn(map, path, goal) ==
  \E start \in Tiles : IsWay(PassableOn(map), start, path) /\ Last(path) = goal

WalkerOn(map, v, w) ==
  /\ w = [at |-> w.at, path |-> w.path, index |-> w.index, version |-> w.version,
          target |-> w.target]
  /\ w.at \in Tiles /\ w.index \in Nat \ {0} /\ w.version \in Nat \union {-1}
  /\ w.version <= v
  /\ w.path # None /\ w.version = v => ClearOn(map, w.path, w.target)

NearestOn(map, v, r, rv) ==
  /\ rv \in Nat \union {-1} /\ rv <= v
  /\ rv = v => \A q \in DOMAIN r : r[q] = Probed(map, q)

EfficiencyOn(map, v, e, ev) ==
  /\ ev \in Nat \union {-1} /\ ev <= v
  /\ ev = v => e = [t \in {u \in Tiles : map[u] \in Producing} |-> Tier(map, t)]

\* Whatever carries the current version is true of the current map.
NavInv ==
  /\ tiles \in Maps /\ version \in Nat
  /\ WalkerOn(tiles, version, walker)
  /\ CacheOn(tiles, version, cache)
  /\ ResultsOn(tiles, version, results)
  /\ PendingOn(tiles, version, pending)
  /\ NearestOn(tiles, version, reach, reachVersion)
  /\ EfficiencyOn(tiles, version, efficiency, logisticsVersion)

\* On the next map nothing is claimed to be current.
LEMMA Aged ==
  ASSUME NEW map, NEW next, NEW v \in Nat, NEW w, NEW c, NEW r, NEW p, NEW n, NEW nv,
         NEW e, NEW ev
  PROVE  /\ WalkerOn(map, v, w) => WalkerOn(next, v + 1, w)
         /\ CacheOn(map, v, c) => CacheOn(next, v + 1, c)
         /\ ResultsOn(map, v, r) => ResultsOn(next, v + 1, r)
         /\ PendingOn(map, v, p) => PendingOn(next, v + 1, p)
         /\ NearestOn(map, v, n, nv) => NearestOn(next, v + 1, n, nv)
         /\ EfficiencyOn(map, v, e, ev) => EfficiencyOn(next, v + 1, e, ev)
<1>1. \A i \in Nat \union {-1} : i <= v => i <= v + 1 /\ i # v + 1
  OBVIOUS
<1>2. \A k \in Keys : k.version \in Nat
  BY DEF Keys
<1>3. \A k, path : TrueOn(map, v, k, path) => TrueOn(next, v + 1, k, path)
  BY <1>1, <1>2 DEF TrueOn
<1>4. WalkerOn(map, v, w) => WalkerOn(next, v + 1, w)
  BY <1>1 DEF WalkerOn
<1>5. CacheOn(map, v, c) => CacheOn(next, v + 1, c)
  <2>1. \A x : EntryOn(map, v, x) => EntryOn(next, v + 1, x)
    BY <1>3 DEF EntryOn
  <2>2. QED
    BY <2>1 DEF CacheOn
<1>6. ResultsOn(map, v, r) => ResultsOn(next, v + 1, r)
  BY <1>3 DEF ResultsOn
<1>7. PendingOn(map, v, p) => PendingOn(next, v + 1, p)
  BY <1>1, <1>2 DEF PendingOn
<1>8. /\ NearestOn(map, v, n, nv) => NearestOn(next, v + 1, n, nv)
      /\ EfficiencyOn(map, v, e, ev) => EfficiencyOn(next, v + 1, e, ev)
  BY <1>1 DEF NearestOn, EfficiencyOn
<1>9. QED
  BY <1>4, <1>5, <1>6, <1>7, <1>8

\* A path that was told truthfully, and is one, is clear.
LEMMA ToldIsClear ==
  ASSUME NEW map \in Maps, NEW start \in Tiles, NEW goal \in Tiles, NEW path,
         Truthful(map, path, start, goal), path # NoPath
  PROVE  ClearOn(map, path, goal)
<1>1. path \in WaysBetween(map, start, goal)
  BY DEF Truthful
<1>2. IsWay(PassableOn(map), start, path) /\ Last(path) = goal
  BY <1>1, WaysBetweenAre
<1>3. QED
  BY <1>2 DEF ClearOn

\* A walker that is given a clear path for the map as it is.
LEMMA BoundRight ==
  ASSUME NavInv, NEW path, NEW goal \in Tiles, ClearOn(tiles, path, goal)
  PROVE  WalkerOn(tiles, version, Bound(path, goal))
<1> DEFINE w == Bound(path, goal)
<1>1. w = [at |-> walker.at, path |-> path, index |-> 1, version |-> version, target |-> goal]
  BY DEF Bound
<1> HIDE DEF w
<1>2. w.at = walker.at /\ w.path = path /\ w.index = 1 /\ w.version = version /\ w.target = goal
  BY <1>1
<1>3. walker.at \in Tiles /\ version \in Nat
  BY DEF NavInv, WalkerOn
<1>4. w = [at |-> w.at, path |-> w.path, index |-> w.index, version |-> w.version,
           target |-> w.target]
  BY <1>1, <1>2
<1>5. w.index \in Nat \ {0} /\ w.version <= version
  BY <1>2, <1>3
<1>6. WalkerOn(tiles, version, w)
  BY <1>2, <1>3, <1>4, <1>5 DEF WalkerOn
<1>7. QED
  BY <1>6 DEF w

LEMMA IdleRight ==
  ASSUME NEW map, NEW v \in Nat, NEW at \in Tiles
  PROVE  WalkerOn(map, v, Idle(at))
<1> DEFINE w == Idle(at)
<1>1. w = [at |-> at, path |-> None, index |-> 1, version |-> -1, target |-> None]
  BY DEF Idle
<1> HIDE DEF w
<1>2. w.at = at /\ w.path = None /\ w.index = 1 /\ w.version = -1 /\ w.target = None
  BY <1>1
<1>3. w = [at |-> w.at, path |-> w.path, index |-> w.index, version |-> w.version,
           target |-> w.target]
  BY <1>1, <1>2
<1>4. QED
  BY <1>2, <1>3 DEF WalkerOn, w

\* A path may be put into the cache, or touched, when it is true.
LEMMA CachedRight ==
  ASSUME NEW map, NEW v, CacheOn(map, v, cache), NEW key, NEW path, EntryOn(map, v, Cached(key, path))
  PROVE  CacheOn(map, v, Latest(key, path)) /\ CacheOn(map, v, Recorded(key, path))
<1>1. PICK E : cache \in Seq(E) /\ \A e \in E : EntryOn(map, v, e)
  BY DEF CacheOn
<1> DEFINE T == E \union {Cached(key, path)}
<1>2. Latest(key, path) \in Seq(T) /\ Recorded(key, path) \in Seq(T)
  BY <1>1, CacheHolds
<1>3. \A e \in T : EntryOn(map, v, e)
  BY <1>1
<1> HIDE DEF T
<1>4. QED
  BY <1>2, <1>3 DEF CacheOn

LEMMA EmptyCacheRight ==
  ASSUME NEW map, NEW v
  PROVE  CacheOn(map, v, <<>>)
<1> DEFINE E == {}
<1>1. \A e \in E : EntryOn(map, v, e)
  OBVIOUS
<1> HIDE DEF E
<1>2. <<>> \in Seq(E)
  BY EmptySeq
<1>3. QED
  BY <1>1, <1>2 DEF CacheOn

LEMMA CacheTrue ==
  ASSUME NEW map, NEW v, CacheOn(map, v, cache)
  PROVE  \A i \in DOMAIN cache : EntryOn(map, v, cache[i])
BY LenProperties, ElementOfSeq DEF CacheOn

-----------------------------------------------------------------------------
(* The steps *)

LEMMA BeganRight == Init => NavInv
<1> SUFFICES ASSUME Init PROVE NavInv
  OBVIOUS
<1>1. tiles \in Maps /\ version = 1
  BY NavigationAssumption DEF Init
<1>2. WalkerOn(tiles, version, walker)
  BY <1>1, IdleRight, NavigationAssumption DEF Init
<1>3. CacheOn(tiles, version, cache)
  BY EmptyCacheRight DEF Init
<1>4. ResultsOn(tiles, version, results) /\ PendingOn(tiles, version, pending)
  BY DEF Init, PoolInit, ResultsOn, PendingOn
<1>5. NearestOn(tiles, version, reach, reachVersion)
  BY <1>1 DEF Init, ReachInit, NearestOn
<1>6. EfficiencyOn(tiles, version, efficiency, logisticsVersion)
  BY <1>1 DEF Init, LogisticsInit, EfficiencyOn
<1>7. QED
  BY <1>1, <1>2, <1>3, <1>4, <1>5, <1>6 DEF NavInv

LEMMA SetTileRight ==
  ASSUME NavInv, NEW change \in Changes, SetTile(change)
  PROVE  NavInv'
<1>1. tiles' \in Maps /\ version' = version + 1 /\ version \in Nat
  BY NavigationAssumption DEF SetTile, NavInv, Maps
<1>2. UNCHANGED <<walker, cache, results, pending, reach, reachVersion,
                  efficiency, logisticsVersion>>
  BY DEF SetTile, poolVars, viewVars, reachVars, logisticsVars
<1>3. /\ WalkerOn(tiles', version + 1, walker) /\ CacheOn(tiles', version + 1, cache)
      /\ ResultsOn(tiles', version + 1, results) /\ PendingOn(tiles', version + 1, pending)
      /\ NearestOn(tiles', version + 1, reach, reachVersion)
      /\ EfficiencyOn(tiles', version + 1, efficiency, logisticsVersion)
  BY <1>1, Aged DEF NavInv
<1>4. QED
  BY <1>1, <1>2, <1>3 DEF NavInv

LEMMA SetTargetAndPathRight ==
  ASSUME NavInv, NEW goal \in Goals, SetTargetAndPath(goal)
  PROVE  NavInv'
<1>1. goal \in Tiles /\ tiles \in Maps /\ version \in Nat /\ walker.at \in Tiles
  BY NavigationAssumption DEF NavInv, WalkerOn
<1>2. /\ UNCHANGED <<tiles, version, results, pending, reach, reachVersion,
                     efficiency, logisticsVersion>>
  BY DEF SetTargetAndPath, StayThere, TakeCached, SearchPath, gridVars, poolVars, viewVars,
         reachVars, logisticsVars
<1> DEFINE key == Here(goal)
<1>3. /\ key \in Keys /\ key.version = version /\ key.start = walker.at /\ key.goal = goal
  BY <1>1 DEF Here, Key, Keys
<1>4. WalkerOn(tiles, version, walker') /\ CacheOn(tiles, version, cache')
  <2>1. CASE StayThere(goal)
    <3>1. IsWay(PassableOn(tiles), goal, <<goal>>) /\ Last(<<goal>>) = goal
      BY <1>1 DEF IsWay, Last
    <3>2. ClearOn(tiles, <<goal>>, goal)
      BY <1>1, <3>1 DEF ClearOn
    <3>3. WalkerOn(tiles, version, Bound(<<goal>>, goal))
      BY <1>1, <3>2, BoundRight
    <3>4. QED
      BY <2>1, <3>3 DEF StayThere, NavInv
  <2>2. CASE TakeCached(goal)
    <3> DEFINE path == CachedPath(key)
    <3>1. PlaceOf(key) \in DOMAIN cache /\ cache[PlaceOf(key)].key = key
      BY <2>2 DEF TakeCached, Hits, KeysCached, PlaceOf
    <3>2. TrueOn(tiles, version, key, path) /\ path # NoPath
      BY <3>1, CacheTrue DEF NavInv, EntryOn, CachedPath
    <3> HIDE DEF path
    <3>3. ClearOn(tiles, path, goal)
      BY <1>1, <1>3, <3>2, ToldIsClear DEF TrueOn
    <3>4. WalkerOn(tiles, version, Bound(path, goal))
      BY <1>1, <3>3, BoundRight
    <3>5. EntryOn(tiles, version, Cached(key, path))
      BY <3>2 DEF EntryOn, Cached
    <3>6. CacheOn(tiles, version, Latest(key, path))
      BY <3>5, CachedRight DEF NavInv
    <3>7. QED
      BY <2>2, <3>4, <3>6 DEF TakeCached, Touched, path
  <2>3. CASE SearchPath(goal)
    <3> DEFINE path == Searched(tiles, walker.at, goal)
    <3>1. Truthful(tiles, path, walker.at, goal)
      BY <1>1, SearchesAreRight
    <3>2. SearchPath(goal) =>
            IF path = NoPath THEN walker' = Idle(walker.at) /\ cache' = cache
            ELSE walker' = Bound(path, goal) /\ cache' = Recorded(key, path)
      BY DEF SearchPath
    <3> HIDE DEF path
    <3>3. CASE path = NoPath
      BY <1>1, <2>3, <3>2, <3>3, IdleRight DEF NavInv
    <3>4. CASE path # NoPath
      <4>1. WalkerOn(tiles, version, Bound(path, goal))
        BY <1>1, <3>1, <3>4, ToldIsClear, BoundRight
      <4>2. TrueOn(tiles, version, key, path)
        BY <1>1, <1>3, <3>1 DEF TrueOn
      <4>3. EntryOn(tiles, version, Cached(key, path))
        BY <3>4, <4>2 DEF EntryOn, Cached
      <4>4. CacheOn(tiles, version, Recorded(key, path))
        BY <4>3, CachedRight DEF NavInv
      <4>5. QED
        BY <2>3, <3>2, <3>4, <4>1, <4>4
    <3>5. QED
      BY <3>3, <3>4
  <2>4. QED
    BY <2>1, <2>2, <2>3 DEF SetTargetAndPath
<1>5. QED
  BY <1>2, <1>4 DEF NavInv

LEMMA FollowPathRight == NavInv /\ FollowPath => NavInv'
<1> SUFFICES ASSUME NavInv, FollowPath PROVE NavInv'
  OBVIOUS
<1> DEFINE w == walker
           i == walker.index
           at == walker.path[i]
           u == [w EXCEPT !.at = at]
<1>1. /\ UNCHANGED <<tiles, version, cache, results, pending, reach, reachVersion,
                     efficiency, logisticsVersion>>
      /\ HasActivePath
  BY DEF FollowPath, gridVars, poolVars, viewVars, reachVars, logisticsVars
<1>2. /\ w = [at |-> w.at, path |-> w.path, index |-> w.index, version |-> w.version,
              target |-> w.target]
      /\ w.index \in Nat \ {0} /\ w.version \in Nat \union {-1} /\ w.version <= version
      /\ ClearOn(tiles, w.path, w.target)
  BY <1>1 DEF NavInv, WalkerOn, HasActivePath
<1>3. at \in Tiles
  <2>1. w.path \in Seq(Tiles)
    BY <1>2 DEF ClearOn, IsWay
  <2>2. i \in 1 .. Len(w.path)
    BY <1>1, <1>2, <2>1, LenProperties DEF HasActivePath
  <2>3. QED
    BY <2>1, <2>2, ElementOfSeq
<1>4. walker' = [at |-> at, path |-> w.path, index |-> i + 1, version |-> w.version,
                 target |-> w.target]
  <2>1. walker' = [w EXCEPT !.at = at, !.index = i + 1]
    BY DEF FollowPath
  <2>2. u = [at |-> at, path |-> w.path, index |-> w.index, version |-> w.version,
             target |-> w.target]
    BY <1>2
  <2>3. walker' = [u EXCEPT !.index = i + 1]
    BY <2>1
  <2> HIDE DEF u, at, i, w
  <2>4. QED
    BY <2>2, <2>3
<1> HIDE DEF u, at, i
<1>5. walker'.at = at /\ walker'.path = w.path /\ walker'.index = i + 1
      /\ walker'.version = w.version /\ walker'.target = w.target
  BY <1>4
<1>6. WalkerOn(tiles, version, walker')
  <2>1. walker' = [at |-> walker'.at, path |-> walker'.path, index |-> walker'.index,
                   version |-> walker'.version, target |-> walker'.target]
    BY <1>4, <1>5
  <2>2. walker'.index \in Nat \ {0}
    BY <1>2, <1>5 DEF i
  <2>3. QED
    BY <1>2, <1>3, <1>5, <2>1, <2>2 DEF WalkerOn
<1>7. QED
  BY <1>1, <1>6 DEF NavInv

LEMMA ClearPathRight == NavInv /\ ClearPath => NavInv'
<1> SUFFICES ASSUME NavInv, ClearPath PROVE NavInv'
  OBVIOUS
<1>1. WalkerOn(tiles, version, Idle(walker.at))
  BY IdleRight DEF NavInv, WalkerOn
<1>2. QED
  BY <1>1 DEF NavInv, ClearPath, gridVars, poolVars, viewVars, reachVars, logisticsVars

LEMMA RequestRight ==
  ASSUME NavInv, NEW start \in Spots, NEW goal \in Goals, RequestPath(start, goal)
  PROVE  NavInv'
<1> DEFINE key == Key(version, start, goal)
           begun == Began(start, goal)
           path == Searched(tiles, start, goal)
<1>1. start \in Tiles /\ goal \in Tiles /\ tiles \in Maps /\ version \in Nat
  BY NavigationAssumption DEF NavInv
<1>2. key \in Keys /\ key.version = version /\ key.start = start /\ key.goal = goal
  BY <1>1 DEF Key, Keys
<1>3. UNCHANGED <<tiles, version, walker, cache, reach, reachVersion,
                  efficiency, logisticsVersion>>
  BY DEF RequestPath, gridVars, viewVars, reachVars, logisticsVars
<1>4. IF executor
      THEN pending' = With(pending, key, begun) /\ results' = results
      ELSE results' = With(results, key, path) /\ pending' = pending
  BY <1>2 DEF RequestPath, Request
<1>5. SearchInv(tiles, begun, start, goal) /\ Truthful(tiles, path, start, goal)
  BY <1>1, BegunRight, SearchesAreRight
<1> HIDE DEF key, begun, path
<1>6. PendingOn(tiles, version, With(pending, key, begun))
  BY <1>1, <1>2, <1>5 DEF NavInv, PendingOn, With
<1>7. ResultsOn(tiles, version, With(results, key, path))
  BY <1>1, <1>2, <1>5 DEF NavInv, ResultsOn, With, TrueOn
<1>8. QED
  BY <1>3, <1>4, <1>6, <1>7 DEF NavInv

LEMMA SearchOnRight ==
  ASSUME NavInv, NEW key \in DOMAIN pending, SearchOn(key)
  PROVE  NavInv'
<1>1. UNCHANGED <<tiles, version, walker, cache, results, reach, reachVersion,
                  efficiency, logisticsVersion>>
  BY DEF SearchOn, Work, gridVars, viewVars, reachVars, logisticsVars
<1>2. /\ ~ pending[key].done
      /\ pending' = [pending EXCEPT ![key] = Turned(tiles, pending[key])]
  BY DEF SearchOn, Work, Running
<1> DEFINE turned == Turned(tiles, pending[key])
<1>3. key.version = version => SearchInv(tiles, turned, key.start, key.goal)
  <2>1. key \in Keys /\ key.start \in Tiles /\ key.goal \in Tiles /\ tiles \in Maps
    BY DEF NavInv, PendingOn, Keys
  <2>2. key.version = version => SearchInv(tiles, pending[key], key.start, key.goal)
    BY DEF NavInv, PendingOn
  <2>3. QED
    BY <1>2, <2>1, <2>2, TurnedRight
<1> HIDE DEF turned
<1>4. pending' = [pending EXCEPT ![key] = turned]
  BY <1>2 DEF turned
<1>5. PendingOn(tiles, version, pending')
  BY <1>3, <1>4 DEF NavInv, PendingOn
<1>6. QED
  BY <1>1, <1>5 DEF NavInv

LEMMA TakeRight ==
  ASSUME NavInv, NEW key, Take(key)
  PROVE  NavInv'
<1>1. UNCHANGED <<tiles, version, walker, reach, reachVersion, efficiency, logisticsVersion>>
  BY DEF Take, gridVars, viewVars, reachVars, logisticsVars
<1>2. ASSUME NEW path, TrueOn(tiles, version, key, path), HandedOver(key, path)
      PROVE  CacheOn(tiles, version, cache')
  <2>1. CASE path = NoPath
    BY <1>2, <2>1 DEF HandedOver, NavInv
  <2>2. CASE path # NoPath
    <3>1. EntryOn(tiles, version, Cached(key, path))
      BY <1>2, <2>2 DEF EntryOn, Cached
    <3>2. CacheOn(tiles, version, Recorded(key, path))
      BY <3>1, CachedRight DEF NavInv
    <3>3. QED
      BY <1>2, <2>2, <3>2 DEF HandedOver
  <2>3. QED
    BY <2>1, <2>2
<1>3. CASE TakeResult(key) /\ HandedOver(key, results[key])
  <2>1. key \in DOMAIN results /\ results' = Without(results, key) /\ pending' = pending
    BY <1>3 DEF TakeResult
  <2>2. TrueOn(tiles, version, key, results[key])
    BY <2>1 DEF NavInv, ResultsOn
  <2>3. ResultsOn(tiles, version, results')
    BY <2>1 DEF NavInv, ResultsOn, Without
  <2>4. QED
    BY <1>1, <1>2, <1>3, <2>1, <2>2, <2>3 DEF NavInv
<1>4. CASE TakeDone(key) /\ HandedOver(key, pending[key].path)
  <2>1. /\ key \in DOMAIN pending /\ pending[key].done
        /\ pending' = Without(pending, key) /\ results' = results
    BY <1>4 DEF TakeDone
  <2>2. TrueOn(tiles, version, key, pending[key].path)
    BY <2>1 DEF NavInv, PendingOn, SearchInv, TrueOn
  <2>3. PendingOn(tiles, version, pending')
    BY <2>1 DEF NavInv, PendingOn, Without
  <2>4. QED
    BY <1>1, <1>2, <1>4, <2>1, <2>2, <2>3 DEF NavInv
<1>5. QED
  BY <1>3, <1>4 DEF Take

LEMMA ShutDownRight == NavInv /\ ShutDownPool => NavInv'
<1> SUFFICES ASSUME NavInv, ShutDownPool PROVE NavInv'
  OBVIOUS
<1>1. /\ UNCHANGED <<tiles, version, walker, cache, reach, reachVersion,
                     efficiency, logisticsVersion>>
      /\ pending' = <<>> /\ results' = <<>>
  BY DEF ShutDownPool, Shutdown, gridVars, viewVars, reachVars, logisticsVars
<1>2. ResultsOn(tiles, version, <<>>) /\ PendingOn(tiles, version, <<>>)
  BY DEF ResultsOn, PendingOn
<1>3. QED
  BY <1>1, <1>2 DEF NavInv

LEMMA AskNearestRight ==
  ASSUME NavInv, NEW question, AskNearest(question)
  PROVE  NavInv'
<1>1. UNCHANGED <<tiles, version, walker, cache, results, pending, efficiency, logisticsVersion>>
  BY DEF AskNearest, gridVars, poolVars, logisticsVars
<1> DEFINE known == Known(version)
           answer == Probed(tiles, question)
<1>2. reachVersion' = version /\ (reach' = known \/ reach' = With(known, question, answer))
  BY DEF AskNearest, GetOrProbe
<1>3. \A q \in DOMAIN known : known[q] = Probed(tiles, q)
  BY DEF NavInv, NearestOn, Known
<1> HIDE DEF known
<1>4. \A q \in DOMAIN reach' : reach'[q] = Probed(tiles, q)
  BY <1>2, <1>3 DEF With
<1>5. NearestOn(tiles, version, reach', reachVersion')
  BY <1>2, <1>4 DEF NavInv, NearestOn
<1>6. QED
  BY <1>1, <1>5 DEF NavInv

LEMMA TickLogisticsRight == NavInv /\ TickLogistics => NavInv'
<1> SUFFICES ASSUME NavInv, TickLogistics PROVE NavInv'
  OBVIOUS
<1>1. UNCHANGED <<tiles, version, walker, cache, results, pending, reach, reachVersion>>
  BY DEF TickLogistics, gridVars, poolVars, reachVars
<1>2. EfficiencyOn(tiles, version, efficiency', logisticsVersion')
  BY DEF TickLogistics, UpdateLogistics, EfficiencyOn, NavInv
<1>3. QED
  BY <1>1, <1>2 DEF NavInv

LEMMA CacheDropsRight == NavInv /\ (Invalidate \/ ClearCache) => NavInv'
<1> SUFFICES ASSUME NavInv, Invalidate \/ ClearCache PROVE NavInv'
  OBVIOUS
<1>1. UNCHANGED <<tiles, version, walker, results, pending, reach, reachVersion,
                  efficiency, logisticsVersion>>
  BY DEF Invalidate, ClearCache, gridVars, poolVars, viewVars, reachVars, logisticsVars
<1>2. CacheOn(tiles, version, cache')
  <2>1. CASE Invalidate
    <3>1. PICK E : cache \in Seq(E) /\ \A e \in E : EntryOn(tiles, version, e)
      BY DEF NavInv, CacheOn
    <3>2. Newer(version) \in Seq(E)
      BY <3>1, NewerHolds
    <3>3. QED
      BY <2>1, <3>1, <3>2 DEF Invalidate, CacheOn
  <2>2. CASE ClearCache
    BY <2>2, EmptyCacheRight DEF ClearCache
  <2>3. QED
    BY <2>1, <2>2
<1>3. QED
  BY <1>1, <1>2 DEF NavInv

LEMMA NavStep == NavInv /\ [Next]_vars => NavInv'
<1> SUFFICES ASSUME NavInv, [Next]_vars PROVE NavInv'
  OBVIOUS
<1>1. CASE UNCHANGED vars
  BY <1>1 DEF NavInv, vars, gridVars, poolVars, viewVars, reachVars, logisticsVars
<1>2. ASSUME NEW change \in Changes, SetTile(change) PROVE NavInv'
  BY <1>2, SetTileRight
<1>3. ASSUME NEW goal \in Goals, SetTargetAndPath(goal) PROVE NavInv'
  BY <1>3, SetTargetAndPathRight
<1>4. ASSUME NEW start \in Spots, NEW goal \in Goals, RequestPath(start, goal) PROVE NavInv'
  BY <1>4, RequestRight
<1>5. CASE FollowPath \/ ClearPath \/ ShutDownPool \/ TickLogistics \/ Invalidate \/ ClearCache
  BY <1>5, FollowPathRight, ClearPathRight, ShutDownRight, TickLogisticsRight, CacheDropsRight
<1>6. ASSUME NEW key \in DOMAIN pending, SearchOn(key) PROVE NavInv'
  BY <1>6, SearchOnRight
<1>7. ASSUME NEW key, Take(key) PROVE NavInv'
  BY <1>7, TakeRight
<1>8. ASSUME NEW question, AskNearest(question) PROVE NavInv'
  BY <1>8, AskNearestRight
<1>9. CASE AskNetwork
  BY <1>9 DEF NavInv, AskNetwork, gridVars, poolVars, reachVars, logisticsVars
<1>10. QED
  BY <1>1, <1>2, <1>3, <1>4, <1>5, <1>6, <1>7, <1>8, <1>9 DEF Next

\* What carries the current version is true of the current map.
LEMMA NavTrue == Spec => []NavInv
BY BeganRight, NavStep, PTL DEF Spec

\* A network that was built for the current version was built on this map.
NetworkKept ==
  /\ networkVersion \in Nat \union {-1} /\ networkVersion <= version
  /\ networkVersion = version => network = Rebuilt(tiles)

LEMMA NetworkStep == NavInv /\ NetworkKept /\ [Next]_vars => NetworkKept'
<1> SUFFICES ASSUME NavInv, NetworkKept, [Next]_vars PROVE NetworkKept'
  OBVIOUS
<1>1. version \in Nat
  BY DEF NavInv
<1>2. CASE UNCHANGED vars
  BY <1>2 DEF NetworkKept, vars, gridVars, viewVars, networkVars
<1>3. ASSUME NEW change \in Changes, SetTile(change) PROVE NetworkKept'
  <2>1. version' = version + 1 /\ networkVersion' = networkVersion
    BY <1>3 DEF SetTile, viewVars, networkVars
  <2>2. networkVersion' <= version' /\ networkVersion' # version'
    BY <1>1, <2>1 DEF NetworkKept
  <2>3. QED
    BY <2>1, <2>2 DEF NetworkKept
<1>4. CASE AskNetwork
  BY <1>1, <1>4 DEF NetworkKept, AskNetwork, gridVars
<1>5. ASSUME \/ \E goal \in Goals : SetTargetAndPath(goal)
             \/ \E start \in Spots, goal \in Goals : RequestPath(start, goal)
             \/ FollowPath \/ ClearPath \/ ShutDownPool \/ TickLogistics
             \/ \E key \in DOMAIN pending : SearchOn(key)
             \/ \E key \in DOMAIN pending \union DOMAIN results : Take(key)
             \/ \E question \in Questions : AskNearest(question)
             \/ Invalidate \/ ClearCache
      PROVE  NetworkKept'
  <2>1. UNCHANGED <<tiles, version, network, networkVersion>>
    BY <1>5 DEF SetTargetAndPath, StayThere, TakeCached, SearchPath, RequestPath, FollowPath,
         ClearPath, ShutDownPool, TickLogistics, SearchOn, Take, AskNearest, Invalidate,
         ClearCache, gridVars, viewVars, networkVars
  <2>2. QED
    BY <2>1 DEF NetworkKept
<1>6. QED
  BY <1>2, <1>3, <1>4, <1>5 DEF Next

-----------------------------------------------------------------------------
(* The theorems *)

\* What the cache or the pool holds under the current version of the map is
\* true of it, however large the map, the cache and the number of requests,
\* and wherever a thread was when the map changed (a_star, PathCache.get,
\* PathWorkerPool.take).
THEOREM RememberedPathsAreFresh == Spec => []PathsFresh
<1>1. NavInv => PathsFresh
  <2> SUFFICES ASSUME NavInv PROVE PathsFresh
    OBVIOUS
  <2>1. \A i \in DOMAIN cache : cache[i].key.version = version =>
          Truthful(tiles, cache[i].path, cache[i].key.start, cache[i].key.goal)
    BY CacheTrue DEF NavInv, EntryOn, TrueOn
  <2>2. \A key \in DOMAIN results : key.version = version =>
          Truthful(tiles, results[key], key.start, key.goal)
    BY DEF NavInv, ResultsOn, TrueOn
  <2>3. \A key \in DOMAIN pending : pending[key].done => (key.version = version =>
          Truthful(tiles, pending[key].path, key.start, key.goal))
    BY DEF NavInv, PendingOn, SearchInv
  <2>4. QED
    BY <2>1, <2>2, <2>3 DEF PathsFresh
<1>2. QED
  BY NavTrue, <1>1, PTL

\* A path that has_active_path calls active leads to the target, and nothing
\* that was built since stands in the rest of it: the walker may follow it
\* without looking at the map (set_target_and_path, has_active_path).
THEOREM WalkersMayTrustTheirPath == Spec => []ActivePathsClear
<1>1. NavInv => ActivePathsClear
  <2> SUFFICES ASSUME NavInv, HasActivePath PROVE
         /\ Last(walker.path) = walker.target
         /\ \A i \in walker.index .. Len(walker.path) :
              i > 1 => /\ Distance(walker.path[i - 1], walker.path[i]) = 1
                       /\ tiles[walker.path[i]] \in Passable
    BY DEF ActivePathsClear
  <2>1. ClearOn(tiles, walker.path, walker.target) /\ walker.index \in Nat
    BY DEF NavInv, WalkerOn, HasActivePath
  <2>2. PICK start \in Tiles : /\ IsWay(PassableOn(tiles), start, walker.path)
                               /\ Last(walker.path) = walker.target
    BY <2>1 DEF ClearOn
  <2>3. Len(walker.path) \in Nat
    BY <2>2, LenProperties DEF IsWay
  <2>4. \A i \in walker.index .. Len(walker.path) : i > 1 => i \in 2 .. Len(walker.path)
    BY <2>1, <2>3
  <2>5. QED
    BY <2>2, <2>4 DEF IsWay, PassableOn
<1>2. QED
  BY NavTrue, <1>1, PTL

\* What is remembered of the nearest tiles and of the places that produce is
\* what the map shows.
LEMMA NearestAndEfficiency == NavInv => NearestFresh /\ EfficiencyFresh
<1>1. NavInv => NearestFresh
  BY DEF NavInv, NearestOn, NearestFresh
<1>2. NavInv => EfficiencyFresh
  <2> SUFFICES ASSUME NavInv, logisticsVersion = version PROVE
         /\ \A t \in Tiles : GetEfficiency(t) # "adjacent" => tiles[t] \in Producing
         /\ \A t \in DOMAIN efficiency :
              LET tracks == {n \in Tiles : Distance(t, n) = 1 /\ tiles[n] \in Tracks}
              IN  /\ efficiency[t] = "isolated" <=> tracks = {}
                  /\ efficiency[t] = "connected" => \E w \in Tiles : tiles[w] = Warehouse
    BY DEF EfficiencyFresh
  <2> DEFINE places == {u \in Tiles : tiles[u] \in Producing}
  <2>1. efficiency = [t \in places |-> Tier(tiles, t)]
    BY DEF NavInv, EfficiencyOn
  <2>2. \A t \in Tiles : GetEfficiency(t) # "adjacent" => tiles[t] \in Producing
    BY <2>1 DEF GetEfficiency
  <2>3. ASSUME NEW t \in places
        PROVE  LET tracks == {n \in Tiles : Distance(t, n) = 1 /\ tiles[n] \in Tracks}
               IN  /\ Tier(tiles, t) = "isolated" <=> tracks = {}
                   /\ Tier(tiles, t) = "connected" => \E w \in Tiles : tiles[w] = Warehouse
    <3> DEFINE tracks == {n \in Tiles : Distance(t, n) = 1 /\ tiles[n] \in Tracks}
    <3>1. HasRoadNeighbour(tiles, t) <=> tracks # {}
      <4>1. \A n \in Tiles : n \in Range(Neighbours(t)) <=> Distance(t, n) = 1
        <5>1. DOMAIN Neighbours(t) = 1 .. 4
          BY DEF Neighbours
        <5>2. QED
          BY <5>1, OneStep DEF Range
      <4>2. QED
        BY <4>1 DEF HasRoadNeighbour
    <3>2. Tier(tiles, t) = "isolated" <=> ~ HasRoadNeighbour(tiles, t)
      BY DEF Tier
    <3>3. Tier(tiles, t) = "connected" => NearDepot(tiles, t)
      BY DEF Tier
    <3>4. QED
      BY <3>1, <3>2, <3>3 DEF NearDepot
  <2>4. QED
    BY <2>1, <2>2, <2>3
<1>3. QED
  BY <1>1, <1>2

\* The nearest tile that is_reachable tells, what the road network answers -
\* which roads are connected, how many there are of them, to which warehouse
\* they lead and whether one passes a tile - and the efficiency of a place are
\* those of the map as it is, whenever they are told for its version, however
\* often and wherever the map has changed (ReachabilityCache.is_reachable,
\* RoadNetwork.rebuild, LogisticsSystem.update).
THEOREM ViewsAreFresh == Spec => []ViewsFresh
<1>1. Init => NetworkKept
  BY DEF Init, NetworkKept
<1>2. NavInv /\ NetworkKept /\ [Next]_vars => NetworkKept'
  BY NetworkStep
<1>3. NavInv /\ NetworkKept => NetworkFresh
  <2> SUFFICES ASSUME NavInv, NetworkKept, networkVersion = version PROVE NetworkTrue(tiles, network)
    BY DEF NetworkFresh, NetworkTrue
  <2>1. tiles \in Maps /\ network = Rebuilt(tiles)
    BY DEF NavInv, NetworkKept
  <2>2. NetworkOn(tiles, Tiles, network)
    BY <2>1, RebuiltRight
  <2>3. QED
    BY <2>1, <2>2, AnswersRight
<1>4. NavInv /\ NetworkKept => ViewsFresh
  BY <1>3, NearestAndEfficiency DEF ViewsFresh
<1>5. QED
  BY NavTrue, <1>1, <1>2, <1>4, PTL DEF Spec

=============================================================================
