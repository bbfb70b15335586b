---------------------------- MODULE MemoryStore ----------------------------
(***************************************************************************)
(* The colony's memory (simulation/ai/memory/memory_store.py): an          *)
(* importance-aware ring.  A store is the sequence of its entries in the   *)
(* order of their insertion, an entry the record                           *)
(*   [tag, importance, at, anchor]                                         *)
(* with importance on the scale 1..5 of the callers.  The score of an      *)
(* entry, importance / 5 - age_decay * age, is compared as                 *)
(* AgeWeight * importance - age: AgeWeight is the number of seconds one    *)
(* step of importance is worth (120 with the default decay of 1 / 600).    *)
(***************************************************************************)
EXTENDS Integers, Sequences, FiniteSets, SequencesExt

CONSTANTS Capacity,   \* of entries that are not anchors; the constructor rejects 0
          AgeWeight

ASSUME MemoryAssumption == Capacity \in Nat \ {0} /\ AgeWeight \in Nat

Entry(tag, importance, at, anchor) ==
  [tag |-> tag, importance |-> importance, at |-> at, anchor |-> anchor]

\* Fault: anchors count, and are evicted, like any other entry.
RoutineAll(store) == DOMAIN store

\* Positions of the entries that may be evicted.
Routine(store) == {i \in DOMAIN store : ~ store[i].anchor}

Score(e, now) == AgeWeight * e.importance - (IF now > e.at THEN now - e.at ELSE 0)

\* The first of the entries of lowest score: the scan replaces its candidate
\* only by a strictly lower score.
WorstOf(store, now) ==
  CHOOSE i \in Routine(store) :
    \A j \in Routine(store) :
      \/ Score(store[i], now) < Score(store[j], now)
      \/ Score(store[i], now) = Score(store[j], now) /\ i <= j

Evict(store, now) ==
  IF Routine(store) = {} THEN store ELSE RemoveAt(store, WorstOf(store, now))

LatestOf(store, at) ==
  LET times == {store[i].at : i \in DOMAIN store} \cup {at}
  IN CHOOSE t \in times : \A u \in times : u <= t

\* insert: anchors neither count against the capacity nor cause an eviction.
Insert(store, e) ==
  LET full == Cardinality(Routine(store)) >= Capacity
      kept == IF ~ e.anchor /\ full THEN Evict(store, LatestOf(store, e.at)) ELSE store
  IN Append(kept, e)

=============================================================================
