--------------------------- MODULE MCEventDirector ---------------------------
(***************************************************************************)
(* A short run for TLC: the director queues two or three events among a    *)
(* few of its callers, long enough for some to resolve and to cool down.   *)
(***************************************************************************)
EXTENDS EventDirector, TLC

SmallCaps ==
  ("banditRaid" :> 1) @@ ("animalMigration" :> 2) @@ ("tradeCaravan" :> 1)

PinDepot == {None, "eastDepot"}

\* Rain is left out: one bad weather is enough for the penalties.
SmallWeights ==
  [i \in Seasons |-> ("clear" :> 4) @@ ("rain" :> 0) @@ ("storm" :> 2)]

ShortSeasons == [i \in Seasons |-> 2]

SmallSpans == ("clear" :> {1, 2}) @@ ("rain" :> {2}) @@ ("storm" :> {1})

BareOrFull == {{}, {"anchors", "herbivores"}}

=============================================================================
