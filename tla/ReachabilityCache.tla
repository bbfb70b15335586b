-------------------------- MODULE ReachabilityCache --------------------------
(***************************************************************************)
(* simulation/services/reachability_cache.py: the nearest tile of a kind,  *)
(* remembered for one version of the map.  A tile that exists counts as    *)
(* reachable; no path is looked for.                                       *)
(***************************************************************************)
EXTENDS PathSearch

CONSTANTS
  ProbeBudget  \* DEFAULT_PROBE_BUDGET_PER_TICK; nobody fills it up again

ASSUME ProbeAssumption == ProbeBudget \in Nat

VARIABLES
  reach,         \* _cache: answers under [tile, kinds]
  reachVersion,  \* _last_grid_version
  budget         \* state["_reachabilityProbeBudget"]

reachVars == <<reach, reachVersion, budget>>

ReachInit ==
  /\ reach = <<>>
  /\ reachVersion = -1
  /\ budget = ProbeBudget

Before(s, t) == s[2] < t[2] \/ (s[2] = t[2] /\ s[1] < t[1])

\* The first of the nearest, row by row.
Nearest(tiles, question) ==
  LET wanted == {t \in Tiles : tiles[t] \in question.kinds}
      Far(t) == Distance(t, question.tile)
  IN  IF wanted = {} THEN None
      ELSE CHOOSE t \in wanted :
             \A o \in wanted \ {t} :
               Far(t) < Far(o) \/ (Far(t) = Far(o) /\ Before(t, o))

Probed(tiles, question) ==
  [reachable |-> Nearest(tiles, question) # None,
   sourceTile |-> Nearest(tiles, question)]

\* _invalidate_on_grid_version
\*
\* Fault: the answers of the last version are kept.
StillKnown(version) == reach

Known(version) == IF version = reachVersion THEN reach ELSE <<>>

\* is_reachable, and probe_and_cache when it knows nothing.
GetOrProbe(tiles, version, question) ==
  /\ reachVersion' = version
  /\ IF question \in DOMAIN Known(version) \/ budget = 0
     THEN /\ reach' = Known(version)
          /\ UNCHANGED budget
     ELSE /\ reach' = With(Known(version), question, Probed(tiles, question))
          /\ budget' = IF Probed(tiles, question).reachable
                       THEN budget - 1 ELSE budget

=============================================================================
