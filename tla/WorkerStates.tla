---------------------------- MODULE WorkerStates ----------------------------
(***************************************************************************)
(* The states of a worker, the transitions between them and the sampling   *)
(* of a state from a group's policy (simulation/npc/worker_states.py, and  *)
(* the triggers of simulation/npc/worker_ai_system.py).                    *)
(***************************************************************************)
EXTENDS Integers, Sequences, FiniteSets

\* No state yet.
NoState == "none"

(***************************************************************************)
(* What a trigger reads of a worker: the flags of its blackboard, whether  *)
(* its fsm has a target, its load (0, some, 2.5 and more, 5 and more), its *)
(* rest and its role; and whether the colony has construction sites.       *)
(***************************************************************************)
Loads == 0..3

(***************************************************************************)
(* A worker is an object or a dict.  The predicates read attributes only:  *)
(* a dict has none, and every one reads the default it gives to getattr,   *)
(* whatever the worker's entries are.  (The colony's sites do not count    *)
(* for a worker without a role.)                                           *)
(***************************************************************************)
Shapes == {"object", "dict"}

Defaults ==
  [shape |-> "dict", target |-> FALSE, hostile |-> FALSE, arrived |-> FALSE, failed |-> FALSE,
   load |-> 0, rest |-> "fair", role |-> "", sites |-> FALSE]

Seen(s) == IF s.shape = "object" THEN s ELSE Defaults

TriggersOf(seen) ==
  {t \in {"hostile", "calm", "tired", "recovered", "laden", "full", "unladen", "arrived",
          "no_target", "path_failed", "can_build", "can_harvest"} :
     CASE t = "hostile"     -> seen.hostile
       [] t = "calm"        -> ~ seen.hostile
       [] t = "tired"       -> seen.rest = "tired"
       [] t = "recovered"   -> seen.rest = "recovered"
       [] t = "laden"       -> seen.load >= 2
       [] t = "full"        -> seen.load >= 3
       [] t = "unladen"     -> seen.load = 0
       [] t = "arrived"     -> seen.arrived
       [] t = "no_target"   -> ~ seen.target
       [] t = "path_failed" -> seen.failed
       [] t = "can_build"   -> seen.role = "BUILDER" /\ seen.sites
       [] t = "can_harvest" -> seen.role \in {"FARM", "WOOD", "STONE", "HAUL"}}

Triggers(s) == TriggersOf(Seen(s))

(***************************************************************************)
(* The transitions out of each state, the most urgent first.  Two more of  *)
(* the table have a trigger that is never true.                            *)
(***************************************************************************)
Transitions == [
  none            |-> <<>>,
  IDLE            |-> <<<<"hostile", "FIGHTING">>, <<"tired", "SEEKING_REST">>,
                        <<"laden", "DELIVERING">>, <<"can_build", "SEEKING_BUILD">>,
                        <<"can_harvest", "SEEKING_HARVEST">>>>,
  SEEKING_REST    |-> <<<<"hostile", "FIGHTING">>, <<"arrived", "RESTING">>>>,
  RESTING         |-> <<<<"hostile", "FIGHTING">>, <<"recovered", "IDLE">>>>,
  FIGHTING        |-> <<<<"calm", "IDLE">>>>,
  SEEKING_HARVEST |-> <<<<"hostile", "FIGHTING">>, <<"tired", "SEEKING_REST">>,
                        <<"arrived", "HARVESTING">>, <<"no_target", "IDLE">>,
                        <<"path_failed", "IDLE">>>>,
  HARVESTING      |-> <<<<"hostile", "FIGHTING">>, <<"tired", "SEEKING_REST">>,
                        <<"full", "DELIVERING">>, <<"unladen", "IDLE">>>>,
  DELIVERING      |-> <<<<"hostile", "FIGHTING">>, <<"arrived", "DEPOSITING">>,
                        <<"no_target", "IDLE">>, <<"path_failed", "IDLE">>>>,
  DEPOSITING      |-> <<<<"hostile", "FIGHTING">>, <<"unladen", "IDLE">>>>,
  SEEKING_BUILD   |-> <<<<"hostile", "FIGHTING">>, <<"tired", "SEEKING_REST">>,
                        <<"arrived", "BUILDING">>, <<"no_target", "IDLE">>,
                        <<"path_failed", "IDLE">>>>,
  BUILDING        |-> <<<<"hostile", "FIGHTING">>, <<"no_target", "IDLE">>>>]

Matching(f, s) == {i \in DOMAIN Transitions[f] : Transitions[f][i][1] \in Triggers(s)}

\* Fault: the last transition that matches is taken.
DispatchLast(f, s) ==
  LET m == Matching(f, s)
  IN IF m = {} THEN f ELSE Transitions[f][CHOOSE i \in m : \A j \in m : j <= i][2]

\* One pass of the dispatcher takes the first transition that matches.
Dispatch(f, s) ==
  LET m == Matching(f, s)
  IN IF m = {} THEN f ELSE Transitions[f][CHOOSE i \in m : \A j \in m : i <= j][2]

(***************************************************************************)
(* The sampling of a state from the weights of a policy.  Names outside    *)
(* the table (those of a raid among them, "deliver" apart) lead to IDLE.   *)
(***************************************************************************)
IntentState(k) ==
  CASE k = "rest"                                    -> "SEEKING_REST"
    [] k \in {"fight", "guard_engage"}               -> "FIGHTING"
    [] k \in {"harvest", "farm", "wood", "quarry"}   -> "SEEKING_HARVEST"
    [] k = "deliver"                                 -> "DELIVERING"
    [] k = "build"                                   -> "SEEKING_BUILD"
    [] OTHER                                         -> "IDLE"

Positive(w) == {k \in DOMAIN w : w[k] > 0}

\* The name that a draw of exactly zero picks: the first one in the order of
\* names, whatever its weight.  NameOrder lists the names in that order.
NameOrder == <<"build", "deliver", "eat", "evade", "farm", "fight", "flee", "guard_engage",
               "harvest", "quarry", "rest", "safety", "wander", "wood">>

Place(k) == CHOOSE i \in DOMAIN NameOrder : NameOrder[i] = k

FirstName(w) == {k \in DOMAIN w : \A l \in DOMAIN w : Place(k) <= Place(l)}

Drawn(w) == {IntentState(k) : k \in Positive(w) \cup FirstName(w)}

\* apply_group_policy: what it may return.
Sampled(w) == IF Positive(w) = {} THEN {"IDLE"} ELSE Drawn(w)

=============================================================================
