------------------------------ MODULE PathCache ------------------------------
(***************************************************************************)
(* The least-recently-used path cache of simulation/navigation/            *)
(* path_cache.py.  The faction and the cost version are part of a key too; *)
(* no tile is passable for one faction only, and one cost version is used  *)
(* throughout, so a key here is a map version and two ends.                *)
(***************************************************************************)
EXTENDS Integers, FiniteSets, SequencesExt

CONSTANTS
  MaxEntries  \* max_entries; 0 turns the cache off

ASSUME CacheAssumption == MaxEntries \in Nat

VARIABLES
  cache  \* _cache: [key, path] entries, the one to be evicted next at the head

\* make_key
Key(v, start, goal) == [version |-> v, start |-> start, goal |-> goal]

KeysCached == {cache[i].key : i \in DOMAIN cache}

PlaceOf(key) == CHOOSE i \in DOMAIN cache : cache[i].key = key

CachedPath(key) == cache[PlaceOf(key)].path

Latest(key, path) ==
  LET others == IF key \in KeysCached THEN RemoveAt(cache, PlaceOf(key)) ELSE cache
  IN  Append(others, [key |-> key, path |-> path])

Hits(key) == MaxEntries > 0 /\ key \in KeysCached

\* What lookup and record_result leave behind.
Touched(key) == Latest(key, CachedPath(key))

Recorded(key, path) ==
  LET entries == Latest(key, path)
  IN  IF Len(entries) > MaxEntries THEN Tail(entries) ELSE entries

\* invalidate_grid_version: the entries of the older maps are dropped.
Newer(v) ==
  LET kept == {i \in DOMAIN cache : cache[i].key.version >= v}
      Nth(n) == CHOOSE i \in kept : Cardinality({j \in kept : j <= i}) = n
  IN  [n \in 1 .. Cardinality(kept) |-> cache[Nth(n)]]

=============================================================================
