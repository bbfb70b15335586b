------------------------------ MODULE Workers -------------------------------
(***************************************************************************)
(* The workers and what drives them.  Three drivers exist in the source,   *)
(* each called on its own; a behaviour follows one of them:                *)
(*   harness     SimHarness (benchmark/framework/sim_harness.py) moves the *)
(*               workers by the policies that the npc-policy channel       *)
(*               commits behind the guardrails;                            *)
(*   dispatcher  WorkerAISystem walks a worker through the table of        *)
(*               transitions, by what its caller has it sense;             *)
(*   roles       RoleAssignmentSystem shares the roles out.                *)
(*                                                                         *)
(* The harness moves a worker by half a tile a tick.  Here the world is a  *)
(* line, and half a tile its unit; the jitter of an idle worker stays      *)
(* inside its unit.                                                        *)
(***************************************************************************)
EXTENDS Guardrails, WorkerStates

CONSTANTS
  Drivers,       \* which drivers are explored
  Agents, Group, \* the agents of the harness, and the group of each
  Anchors,       \* where the scenario has which of its named anchors
  Spawn,         \* where agents appear
  Threats,       \* values of gameplay.threat, in tenths
  Answers,       \* raw documents of the three channels
  Staff,         \* ids of workers that have a role: the first of 1, 2, ...
  MaxStaff,
  RoleCooldown,  \* steps between two changes of one worker's role
  Distance,      \* how far apart two places can be
  MaxDecisions, MaxChanges

\* A walk between any two places is no longer than Distance.
Places == {Spawn} \cup {Anchors[x] : x \in DOMAIN Anchors}

ASSUME WorkersAssumption ==
  /\ IsFiniteSet(Agents)
  /\ Spawn \in Int /\ Anchors \in [DOMAIN Anchors -> Int]
  /\ Distance \in Nat \ {0}
  /\ \A x, y \in Places : x - y <= Distance
  /\ \A a \in Answers : IsDocument(a)
  /\ IsFiniteSet(Staff) /\ Staff \subseteq Nat

NoPlace == -1
NoHint == "nothing"

VARIABLES
  driver,
  agent,      \* per agent: [alive, fsm, target, hint, pos, arrived]
  policies,   \* ai.group_policies: group |-> policy
  unseen,     \* policyDecisionCount exceeds the count the harness has seen
  threat,
  committed,  \* the document committed last and the threat it was guarded for
  gained,     \* observation: per resource, what the last tick added to it
  decisions,  \* observation: number of documents committed
  quiet,      \* observation: ticks since a policy or an agent changed last,
              \* up to Distance
  body,       \* the dispatcher's worker: [shape, fsm, target, hostile, ...]
  passed,     \* whether it was dispatched since it last sensed anything
  role, age,  \* per id of the staff: its role, and the steps since it changed
  changes     \* observation: comings and goings

harness == <<agent, policies, unseen, threat, committed, gained, decisions, quiet>>
dispatcher == <<body, passed>>
assignment == <<role, age>>
vars == <<driver, harness, dispatcher, assignment, changes>>

Nothing == [document |-> [channel |-> "none"], threat |-> 0]

\* An agent that was just made has no fsm.
Newborn ==
  [alive |-> TRUE, fsm |-> NoState, target |-> NoPlace, hint |-> NoHint,
   pos |-> Spawn, arrived |-> FALSE]

Unfelt(shape) ==
  [shape |-> shape, fsm |-> NoState, target |-> FALSE, hostile |-> FALSE, arrived |-> FALSE,
   failed |-> FALSE, load |-> 0, rest |-> "fair", role |-> "FARM", sites |-> FALSE]

Resources == {"food", "wood", "stone"}

Init ==
  /\ driver \in Drivers
  /\ agent = [a \in Agents |-> Newborn]
  /\ policies = <<>> /\ unseen = TRUE
  /\ threat \in IF driver = "harness" THEN Threats ELSE {0}
  /\ committed = Nothing
  /\ gained = [r \in Resources |-> 0]
  /\ decisions = 0 /\ changes = 0 /\ quiet = 0
  /\ body \in {Unfelt(shape) : shape \in IF driver = "dispatcher" THEN Shapes ELSE {"object"}}
  /\ passed = FALSE
  /\ role = [i \in Staff |-> "FARM"]
  /\ age = [i \in Staff |-> RoleCooldown]

(***************************************************************************)
(* The npc-policy channel.  When the channel decides, and whether the      *)
(* model answers at all, is the business of DecisionChannels; here it may  *)
(* decide between any two ticks.                                           *)
(***************************************************************************)
Baseline ==
  [channel  |-> "policy",
   policies |-> <<[group   |-> "workers",
                   intents |-> [deliver |-> 16, eat |-> 14, farm |-> 10, wander |-> 2, wood |-> 10,
                                safety |-> IF threat < 400 THEN 8 ELSE 14],
                   targets |-> [warehouse |-> 14, frontier |-> 8,
                                safety |-> IF threat < 400 THEN 10 ELSE 15],
                   risk    |-> IF threat < 400 THEN 5 ELSE 3,
                   ttl     |-> 240,
                   summary |-> [len |-> 63, blank |-> 9]]>>,
   states   |-> <<>>]

\* _commit_envelope: an index by group; of the groups only these are left.
Indexed(e) ==
  [g \in {e.policies[i].group : i \in DOMAIN e.policies} |->
     e.policies[CHOOSE i \in DOMAIN e.policies : e.policies[i].group = g]]

Commit(document) ==
  /\ committed' = [document |-> document, threat |-> threat]
  /\ decisions' = decisions + 1

\* An answer, valid or not, or the baseline in its place.
DecidePolicy ==
  /\ driver = "harness" /\ decisions < MaxDecisions
  /\ \E raw \in {a \in Answers : a.channel = "policy"} \cup {Baseline} :
       \E guarded \in {GuardPolicies(raw, threat)} :
         Commit(guarded) /\ policies' = Indexed(guarded)
  /\ unseen' = TRUE /\ quiet' = 0
  /\ UNCHANGED <<driver, agent, threat, gained, dispatcher, assignment, changes>>

\* What the scripts of the other two channels put in place of an answer, by the
\* threat and by what they find of stocks, heads and buildings.
Directive(weather, duration, tension, summary) ==
  [channel |-> "environment", weather |-> weather, duration |-> duration, tension |-> tension,
   spawns |-> <<>>, focus |-> [len |-> 15, blank |-> 7], summary |-> summary]

ScriptedDirectives ==
  {Directive("clear", 180, 3, [len |-> 58, blank |-> 5])} \cup
  IF threat >= 600
  THEN {Directive("clear", 200, 7, [len |-> 65, blank |-> 5])}
  ELSE {Directive(w, 240, 4, [len |-> 36, blank |-> 7]) : w \in Weathers}

Strategy(wood, food, posture, risk, goal) ==
  [channel |-> "plan", goal |-> goal, budget |-> [reserveWood |-> wood, reserveFood |-> food],
   posture |-> posture, risk |-> risk]

ScriptedPlans ==
  {Strategy(50, 0, "defensive", 2, [len |-> 53, blank |-> 10])} \cup
  IF threat > 750
  THEN {Strategy(100, 200, "defensive", 2, [len |-> 46, blank |-> 6])}
  ELSE {Strategy(50, 150, "neutral", 5, [len |-> 68, blank |-> 10]),
        Strategy(100, 200, "neutral", 5, [len |-> 55, blank |-> 7])}

\* The other two channels: no worker depends on what they commit.
DecideOther ==
  /\ driver = "harness" /\ decisions < MaxDecisions
  /\ \E raw \in {a \in Answers : a.channel # "policy"} \cup ScriptedDirectives \cup ScriptedPlans :
       Commit(GuardDocument(raw, threat))
  /\ UNCHANGED <<driver, agent, policies, unseen, threat, gained, quiet, dispatcher, assignment, changes>>

(***************************************************************************)
(* Where a worker goes: the compatible place of the highest priority that  *)
(* the scenario has, or the first compatible one.                          *)
(***************************************************************************)
PlaceOf == [warehouse |-> <<"coreWarehouse", NoHint>>, safety |-> <<"coreWarehouse", NoHint>>,
            farm |-> <<"eastDepot", "food">>, quarry |-> <<"eastDepot", "stone">>,
            lumber |-> <<"westOutpost", "wood">>, wood |-> <<"westOutpost", "wood">>]

KeyOrder == <<"farm", "lumber", "quarry", "safety", "warehouse", "wood">>

\* Fault: any place will do.
AnyKeys(f) ==
  IF f \in {"SEEKING_HARVEST", "DELIVERING", "SEEKING_REST", "SEEKING_BUILD"}
  THEN DOMAIN PlaceOf ELSE {}

CompatibleKeys(f) ==
  CASE f = "SEEKING_HARVEST"                -> {"farm", "wood", "lumber", "quarry"}
    [] f \in {"DELIVERING", "SEEKING_REST"} -> {"warehouse", "safety"}
    [] f = "SEEKING_BUILD"                  -> {"lumber", "wood"}
    [] OTHER                                -> {}

\* Those among keys whose anchor the scenario has.
Present(keys) == {k \in keys : PlaceOf[k][1] \in DOMAIN Anchors}

FirstKey(keys) ==
  CHOOSE k \in keys : \E i \in DOMAIN KeyOrder :
    KeyOrder[i] = k /\ \A j \in 1..(i - 1) : KeyOrder[j] \notin keys

\* The key a worker in state f heads for; targets are the priorities of its group.
Favourite(f, targets) ==
  LET here   == Present(CompatibleKeys(f))
      wanted == {k \in here \cap DOMAIN targets : targets[k] > 0}
      best   == {k \in wanted : \A l \in wanted : targets[l] <= targets[k]}
  IN FirstKey(IF wanted = {} THEN here ELSE best)

HasTarget(f) == Present(CompatibleKeys(f)) # {}

Step(pos, to) == CASE pos < to -> pos + 1 [] pos > to -> pos - 1 [] OTHER -> pos

Near(pos, to) == pos - to < 2 /\ to - pos < 2

HasPolicy(a) == Group[a] \in DOMAIN policies

IntentsOf(a) == IF HasPolicy(a) THEN policies[Group[a]].intents ELSE <<>>

TargetsOf(a) == IF HasPolicy(a) THEN policies[Group[a]].targets ELSE <<>>

PolicyChanged == unseen /\ policies # <<>>

\* Fault: only a worker without a state is given one.
SampleNewborns(a) == agent[a].fsm = NoState

NeedSample(a) ==
  \/ agent[a].fsm = NoState
  \/ PolicyChanged /\ IntentsOf(a) # <<>>

NextStates(a) == IF NeedSample(a) THEN Sampled(IntentsOf(a)) ELSE {agent[a].fsm}

\* A worker in state f after the tick.
Driven(a, f) ==
  IF ~ HasTarget(f)
  THEN [agent[a] EXCEPT !.fsm = f, !.target = NoPlace, !.hint = NoHint, !.arrived = FALSE]
  ELSE LET place == PlaceOf[Favourite(f, TargetsOf(a))]
           to    == Anchors[place[1]]
           pos   == Step(agent[a].pos, to)
       IN [agent[a] EXCEPT !.fsm = f, !.target = to, !.hint = place[2], !.pos = pos,
                           !.arrived = Near(pos, to)]

Yield == [food |-> 10, wood |-> 6, stone |-> 4]

Alive == {a \in Agents : agent[a].alive}

Harvesters(crew, r) ==
  {a \in DOMAIN crew : crew[a].arrived /\ crew[a].fsm = "SEEKING_HARVEST" /\ crew[a].hint = r}

After(a) == {Driven(a, f) : f \in NextStates(a)}

\* _tick_workers_via_fsm.
Tick ==
  /\ driver = "harness"
  /\ \E crew \in [Alive -> UNION {After(a) : a \in Alive}] :
       /\ \A a \in Alive : crew[a] \in After(a)
       /\ agent' = [a \in Agents |-> IF a \in Alive THEN crew[a] ELSE agent[a]]
       /\ gained' = [r \in Resources |-> Yield[r] * Cardinality(Harvesters(crew, r))]
  /\ unseen' = (unseen /\ policies = <<>>)
  /\ committed' = Nothing
  /\ quiet' = IF quiet < Distance THEN quiet + 1 ELSE quiet
  /\ UNCHANGED <<driver, policies, threat, decisions, dispatcher, assignment, changes>>

\* The rest of the simulation: an agent dies, another comes in its place.
Die ==
  /\ driver = "harness" /\ changes < MaxChanges
  /\ \E a \in Alive : agent' = [agent EXCEPT ![a].alive = FALSE]
  /\ changes' = changes + 1 /\ quiet' = 0
  /\ UNCHANGED <<driver, policies, unseen, threat, committed, gained, decisions, dispatcher, assignment>>

Recruit ==
  /\ driver = "harness" /\ changes < MaxChanges
  /\ \E a \in Agents \ Alive : agent' = [agent EXCEPT ![a] = Newborn]
  /\ changes' = changes + 1 /\ quiet' = 0
  /\ UNCHANGED <<driver, policies, unseen, threat, committed, gained, decisions, dispatcher, assignment>>

ThreatMoves ==
  /\ driver = "harness" /\ changes < MaxChanges
  /\ threat' \in Threats \ {threat}
  /\ changes' = changes + 1
  /\ UNCHANGED <<driver, agent, policies, unseen, committed, gained, decisions, quiet, dispatcher, assignment>>

(***************************************************************************)
(* The dispatcher.  A caller writes what the worker senses, one thing at a *)
(* time, as attributes of an object or entries of a dict; a pass makes the *)
(* worker's fsm if it has none, in either shape, and takes at most one     *)
(* transition, which clears the target.                                    *)
(***************************************************************************)
Felt ==
  ({"target", "hostile", "arrived", "failed", "sites"} \X BOOLEAN)
  \cup ({"load"} \X Loads) \cup ({"rest"} \X {"tired", "fair", "recovered"})
  \cup ({"role"} \X {"BUILDER", "FARM", "GUARD"})

Sense ==
  /\ driver = "dispatcher"
  /\ \E felt \in Felt :
       /\ felt[1] = "target" => body.fsm # NoState
       /\ body' = [body EXCEPT ![felt[1]] = felt[2]]
  /\ passed' = FALSE
  /\ UNCHANGED <<driver, harness, assignment, changes>>

\* What the worker starts from: a policy, or none.
FirstStates ==
  {"IDLE"} \cup UNION {Sampled(p.intents) : p \in
     UNION {ToSet(a.policies) : a \in {b \in Answers : b.channel = "policy" /\ ValidEnvelope(b)}}}

TickWorker ==
  /\ driver = "dispatcher"
  /\ \E f \in IF body.fsm = NoState THEN FirstStates ELSE {body.fsm} :
       LET next == Dispatch(f, body)
       IN body' = [body EXCEPT !.fsm = next, !.target = @ /\ next = f]
  /\ passed' = TRUE
  /\ UNCHANGED <<driver, harness, assignment, changes>>

(***************************************************************************)
(* The roles.  Each role in its turn, in the order of names, takes what it *)
(* lacks from workers of other roles, in the order of their roles' names   *)
(* and then of their ids; who changed lately is passed over.               *)
(***************************************************************************)
RoleOrder == <<"BUILDER", "FARM", "GUARD", "HAUL", "STONE", "WOOD">>

Roles == {RoleOrder[i] : i \in DOMAIN RoleOrder}

AtLeast(m, k) == IF k < m THEN m ELSE k

\* default_role_quota: the floors count for more than the head count.
Quota(n) ==
  LET farm  == AtLeast(2, (35 * n) \div 100)
      wood  == AtLeast(1, (20 * n) \div 100)
      haul  == AtLeast(1, (15 * n) \div 100)
      stone == AtLeast(1, (10 * n) \div 100)
      guard == (10 * n) \div 100
  IN [FARM |-> farm, WOOD |-> wood, HAUL |-> haul, STONE |-> stone, GUARD |-> guard,
      BUILDER |-> AtLeast(0, n - (farm + wood + haul + stone + guard))]

HeadsOf(st, r) == {i \in DOMAIN st.role : st.role[i] = r}

Turn(r) == CHOOSE k \in DOMAIN RoleOrder : RoleOrder[k] = r

\* The donors of a role come in the order of their roles' names, then of ids.
Earlier(st, j, i) ==
  LET a == Turn(st.role[j])
      b == Turn(st.role[i])
  IN a < b \/ (a = b /\ j < i)

Donors(st, r) == {i \in DOMAIN st.role : st.role[i] # r /\ st.age[i] = RoleCooldown}

Given(st, taken, r) ==
  [role  |-> [i \in DOMAIN st.role |-> IF i \in taken THEN r ELSE st.role[i]],
   age   |-> [i \in DOMAIN st.role |-> IF i \in taken THEN 0 ELSE st.age[i]],
   quota |-> st.quota]

Lacks(st, r) == st.quota[r] - Cardinality(HeadsOf(st, r))

\* Fault: a role that lacks somebody takes everybody it can.
PromoteAll(st, r) ==
  Given(st, IF Lacks(st, r) > 0 THEN Donors(st, r) ELSE {}, r)

\* One role takes what it lacks.
Promote(st, r) ==
  LET Before(i) == {j \in Donors(st, r) : Earlier(st, j, i)}
  IN  Given(st, {i \in Donors(st, r) : Cardinality(Before(i)) < Lacks(st, r)}, r)

Older(a) == [i \in DOMAIN a |-> IF a[i] < RoleCooldown THEN a[i] + 1 ELSE a[i]]

\* RoleAssignmentSystem.update, and then a step of time.
AssignRoles ==
  /\ driver = "roles" /\ role # <<>>
  /\ LET start == [role |-> role, age |-> age, quota |-> Quota(Cardinality(DOMAIN role))]
         after[k \in 0..Len(RoleOrder)] ==
           IF k = 0 THEN {start} ELSE {Promote(st, RoleOrder[k]) : st \in after[k - 1]}
     IN \E done \in after[Len(RoleOrder)] : role' = done.role /\ age' = Older(done.age)
  /\ UNCHANGED <<driver, harness, dispatcher, changes>>

\* A worker of the staff dies.
Leave ==
  /\ driver = "roles" /\ changes < MaxChanges
  /\ \E i \in DOMAIN role :
       /\ role' = [j \in DOMAIN role \ {i} |-> role[j]]
       /\ age' = [j \in DOMAIN role \ {i} |-> age[j]]
  /\ changes' = changes + 1
  /\ UNCHANGED <<driver, harness, dispatcher>>

\* A worker comes, as create_worker makes it: a farmer that may change at once.
Join ==
  /\ driver = "roles" /\ changes < MaxChanges
  /\ \E i \in 1..MaxStaff :
       /\ \A j \in DOMAIN role : j < i
       /\ role' = [j \in DOMAIN role \cup {i} |-> IF j = i THEN "FARM" ELSE role[j]]
       /\ age' = [j \in DOMAIN role \cup {i} |-> IF j = i THEN RoleCooldown ELSE age[j]]
  /\ changes' = changes + 1
  /\ UNCHANGED <<driver, harness, dispatcher>>

Next ==
  \/ DecidePolicy \/ DecideOther \/ Tick \/ Die \/ Recruit \/ ThreatMoves
  \/ Sense \/ TickWorker
  \/ AssignRoles \/ Leave \/ Join

\* The updates of the roles go on for ever.
Spec == Init /\ [][Next]_vars /\ WF_vars(AssignRoles)

-----------------------------------------------------------------------------

\* A document with its texts as the next reader strips them.
AsRead(d) ==
  CASE d.channel = "policy" ->
         [d EXCEPT !.policies =
            [i \in DOMAIN d.policies |-> [d.policies[i] EXCEPT !.summary = Stripped(@)]]]
    [] d.channel = "environment" ->
         [d EXCEPT !.focus = Stripped(@), !.summary = Stripped(@)]
    [] OTHER -> [d EXCEPT !.goal = Stripped(@)]

\* Whatever the model answers, what is committed satisfies the schema (the
\* guards build it as a model of the schema, and would raise otherwise), and to
\* guard it once more changes nothing, up to a blank at the end of a text that
\* was cut there (guardrails.py: "guard(guard(x)) == guard(x)").
GuardHolds ==
  LET d == committed.document
  IN d.channel # "none" =>
       /\ Valid(d)
       /\ GuardDocument(d, committed.threat) = AsRead(d)

\* Once the harness has seen an envelope, every worker whose group is given any
\* intent is in a state of an intent of positive weight, also the workers that
\* were born since, under a raid too (_tick_workers_via_fsm; the one exception
\* is a draw of exactly zero).
PolicyFollowed ==
  ~ unseen => \A a \in Alive :
    agent[a].fsm # NoState /\ IntentsOf(a) # <<>> => agent[a].fsm \in Sampled(IntentsOf(a))

\* A colony that is ordered to harvest, and nothing else, earns something in
\* every tick as soon as there was time for the longest way, whatever the
\* priorities of the places and whatever it did before (_pick_target_tile, the
\* move and the yield rule together).
HarvestOrdered ==
  \E a \in Alive :
    IntentsOf(a) # <<>> /\ Sampled(IntentsOf(a)) = {"SEEKING_HARVEST"}
      /\ HasTarget("SEEKING_HARVEST")

HarvestPays == quiet = Distance /\ HarvestOrdered => \E r \in Resources : gained[r] > 0

\* After every pass a worker that is an object fights if and only if a hostile
\* is near: no state of the table is deaf to one, and none holds a worker in a
\* fight that is over.  One that is a dict never fights, not even when a policy
\* starts it in a fight: tick_worker handles its fsm, but the predicates do not
\* see its blackboard (worker_ai_system.py, tick_worker over STATE_TRANSITIONS;
\* its comment has it that "both shapes are supported").
FightAsHostile ==
  passed => (body.fsm = "FIGHTING" <=> body.shape = "object" /\ body.hostile)

Heads(r) == Cardinality({i \in DOMAIN role : role[i] = r})

QuotaMet ==
  \A r \in Roles : Heads(r) = Quota(Cardinality(DOMAIN role))[r]

\* Once nobody comes or goes, five workers or more share the roles out as the
\* quota says, and then stay in them (RoleAssignmentSystem.update).
RolesSettle ==
  (driver = "roles" /\ <>[](Cardinality(DOMAIN role) >= 5)) => <>[]QuotaMet

\* A pass moves only who was not moved lately, leaves no role with more workers
\* than it had unless its quota has room for them, and moves nobody once the
\* quota is met, whichever roles take from each other on the way
\* (RoleAssignmentSystem.update).
PassFills ==
  /\ \A i \in DOMAIN role : role'[i] # role[i] => age[i] = RoleCooldown
  /\ \A r \in Roles : Heads(r)' <= Heads(r) \/ Heads(r)' <= Quota(Cardinality(DOMAIN role))[r]
  /\ QuotaMet => role' = role

PassesFill == [][DOMAIN role' = DOMAIN role => PassFills]_vars

=============================================================================
