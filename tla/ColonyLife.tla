----------------------------- MODULE ColonyLife -----------------------------
(***************************************************************************)
(* Births, deaths, stock and memory of the colony.  The systems of a tick  *)
(* run one after the other in the order of SYSTEM_ORDER                    *)
(* (config/constants.py): SimulationClock, RecruitmentSystem, the systems  *)
(* that move the world (here: Work), MortalitySystem, ResourceSystem, and  *)
(* then the MemoryObserver looks at the result.  `turn' is the system that *)
(* runs next; time is counted in steps of dt.                              *)
(*                                                                         *)
(* Work is external to these systems: it stands for what the rest of the   *)
(* simulation may do to the state they share between two of their turns    *)
(* (hunger, loads, buildings, the recovery mode, objectives, weather), one *)
(* such change a tick.                                                     *)
(***************************************************************************)
EXTENDS MemoryStore

CONSTANTS
  Goods,                     \* TRACKED_FLOW_RESOURCES; "food" is one of them
  InitialKinds,              \* the kinds of the agents the world starts with
  Hold,                      \* per kind: steps of starving before death
  GraceTime,                 \* RECOVERY_GRACE_SEC
  BaseCap, WarehouseCap,     \* 12 (and what farms, lumbers and quarries add)
                             \* and 3 in the infrastructure cap
  Targets,                   \* values of controls.recruitTarget
  RecruitCost, RecruitBuffer, RecruitCooldown, RecruitQueueMax,
  RecruitHeadroom, EatRate,  \* the forward-looking food runway
  CheckEvery,                \* check_interval_sec
  Consumption,               \* food a worker eats in a step
  SpoilEvery,                \* per good: one unit in so many spoils in a step; 0: none
  Emergency,                 \* food_ / wood_emergency_threshold
  Replenished,               \* 5.0: the level that re-arms the depletion alarm
  Critical,                  \* 15: the observer's critical food level
  WindowLen,                 \* RESOURCE_FLOW_WINDOW_SEC
  MaxEvents,                 \* the ring of the event bus
  Weathers,                  \* "clear" is one of them
  InitialStock, Load,        \* bounds of the instance: first stock, a load,
  MaxStock, MaxTicks, MaxObjectives, MaxWarehouses, MaxRecoveries

NoTime == -1

Kinds == {"WORKER", "VISITOR"}

\* What an agent carries when it carries nothing.
NoLoad == "nothing"

ASSUME LifeAssumption ==
  /\ "food" \in Goods /\ NoLoad \notin Goods
  /\ InitialKinds \in Seq(Kinds)
  /\ Hold \in [Kinds -> Nat \ {0}]
  /\ GraceTime \in Nat
  /\ RecruitCost \in Nat /\ Consumption \in Nat /\ Load \in Nat
  /\ SpoilEvery \in [Goods -> Nat]
  /\ InitialStock \in [Goods -> Nat]

VARIABLES
  turn, now,
  agents,     \* in the order of state["agents"]; the dead stay in the list
  controls,   \* [auto, queue, target, cooldown, timer]
  warehouses,
  recovery,   \* [on, entered]: ai.recovery_mode, ai.recovery_entered_sec;
              \* observations: how often it was entered, and whether ever
              \* without a moment of entry
  metrics,    \* [births, deaths]
  stock, alarms, flow,
  log,        \* state["events_bus"]["log"]
  memory, seen,
  world,      \* [active, objective, weather] as the observer reads them
  toll,       \* observation: events of each type ever emitted
  unrecorded  \* observation: changes of the stock since the flow snapshot
              \* that were made without record_resource_flow

vars == <<turn, now, agents, controls, warehouses, recovery, metrics, stock,
          alarms, flow, log, memory, seen, world, toll, unrecorded>>

population == <<agents, controls, metrics>>
economy    == <<stock, alarms, flow, unrecorded>>
news       == <<log, toll>>
mind       == <<memory, seen>>
outside    == <<warehouses, recovery, world>>

Births == {"visitor_arrived", "worker_born"}
Deaths == {"worker_died", "worker_starved"}
EventTypes == Births \cup Deaths
              \cup {"food_shortage", "resource_surplus", "resource_depleted"}

(***************************************************************************)
(* The event bus (simulation/meta/game_event_bus.py) has no subscriber in  *)
(* src/: emitting is appending to a ring.                                  *)
(***************************************************************************)
Emitted(types) ==
  /\ LET all == log \o types
     IN log' = SubSeq(all, IF Len(all) > MaxEvents THEN Len(all) - MaxEvents + 1 ELSE 1,
                      Len(all))
  /\ toll' = [t \in EventTypes |->
                toll[t] + Cardinality({i \in DOMAIN types : types[i] = t})]

NoGoods == [g \in Goods |-> 0]

NewAgent(id, kind) ==
  [id |-> id, kind |-> kind, alive |-> TRUE, hungry |-> FALSE, starving |-> 0,
   fed |-> now - 1, died |-> NoTime, carry |-> NoLoad]

Living(kind) == {i \in DOMAIN agents : agents[i].alive /\ agents[i].kind = kind}
Workers == Cardinality(Living("WORKER"))

\* PopulationStatsSystem.update: the roll-up the panels and the probes read.
PopulationStats ==
  [alive    |-> Cardinality({i \in DOMAIN agents : agents[i].alive}),
   dead     |-> Cardinality({i \in DOMAIN agents : ~ agents[i].alive}),
   workers  |-> Workers,
   visitors |-> Cardinality(Living("VISITOR"))]

Minimum(a, b) == IF a < b THEN a ELSE b

LifeInit ==
  /\ turn = "clock" /\ now = 0
  /\ agents = [i \in DOMAIN InitialKinds |->
                 [id |-> i, kind |-> InitialKinds[i], alive |-> TRUE, hungry |-> FALSE,
                  starving |-> 0, fed |-> 0, died |-> NoTime, carry |-> NoLoad]]
  /\ \E t \in Targets, auto \in BOOLEAN :
       controls = [auto |-> auto, queue |-> 0, target |-> t, cooldown |-> 0, timer |-> 0]
  /\ warehouses = 1
  /\ recovery = [on |-> FALSE, entered |-> NoTime, times |-> 0, endless |-> FALSE]
  /\ metrics = [births |-> 0, deaths |-> 0]
  /\ stock = InitialStock
  /\ alarms = [short |-> [g \in Goods |-> FALSE], depleted |-> [g \in Goods |-> FALSE]]
  /\ flow = [snapshot |-> NoGoods, consumed |-> 0, spoiled |-> NoGoods, age |-> 0,
             ready |-> FALSE]
  /\ log = <<>> /\ toll = [t \in EventTypes |-> 0]
  /\ memory = <<>>
  /\ seen = [ready |-> FALSE, deaths |-> 0, critical |-> FALSE, objective |-> 0,
             weather |-> "clear"]
  /\ world = [active |-> TRUE, objective |-> 0, weather |-> "clear"]
  /\ unrecorded = NoGoods

Clock ==
  /\ turn = "clock" /\ now < MaxTicks
  /\ now' = now + 1
  /\ turn' = "recruit"
  /\ UNCHANGED <<population, economy, news, mind, outside>>

(***************************************************************************)
(* RecruitmentSystem.update.                                               *)
(***************************************************************************)

\* No system of src/ records production, so the projected drain of n workers
\* is what they eat.
HeadroomFor(n) == n * EatRate = 0 \/ stock["food"] >= RecruitHeadroom * n * EatRate

\* The farms, lumbers and quarries of the colony raise the cap as well; nothing
\* here builds or loses one, and their share is part of BaseCap.
InfraCap == BaseCap + WarehouseCap * warehouses

EffectiveCap == Minimum(controls.target, InfraCap)

FillsQueue ==
  /\ controls.auto
  /\ Workers + controls.queue < EffectiveCap
  /\ stock["food"] >= RecruitBuffer
  /\ controls.queue < RecruitQueueMax
  /\ HeadroomFor(Workers + controls.queue + 1)

Cooled == IF controls.cooldown > 0 THEN controls.cooldown - 1 ELSE 0

QueueAfter == IF FillsQueue THEN controls.queue + 1 ELSE controls.queue

Spawns ==
  /\ QueueAfter > 0
  /\ Cooled = 0
  /\ stock["food"] >= RecruitCost
  /\ stock["food"] >= RecruitBuffer
  /\ HeadroomFor(Workers + 1)

\* Fault: the sequence number counts the living only.
WorkerIdOfLiving == Cardinality({i \in DOMAIN agents : agents[i].alive}) + 1

\* _make_worker_id.
WorkerId == Len(agents) + 1

\* The one-second gate is still closed, or there is nowhere to arrive.
RecruitIdle ==
  /\ controls.timer - 1 > 0 \/ warehouses = 0
  /\ controls' = [controls EXCEPT !.cooldown = Cooled,
                    !.timer = IF controls.timer - 1 > 0 THEN controls.timer - 1
                              ELSE CheckEvery]
  /\ UNCHANGED <<agents, metrics, stock, unrecorded, news>>

RecruitRuns ==
  /\ controls.timer - 1 <= 0 /\ warehouses > 0
  /\ IF Spawns
     THEN /\ agents' = Append(agents, NewAgent(WorkerId, "WORKER"))
          /\ stock' = [stock EXCEPT !["food"] = stock["food"] - RecruitCost]
          /\ unrecorded' = [unrecorded EXCEPT !["food"] = unrecorded["food"] - RecruitCost]
          /\ metrics' = [metrics EXCEPT !.births = metrics.births + 1]
          /\ controls' = [controls EXCEPT !.queue = QueueAfter - 1,
                            !.cooldown = RecruitCooldown, !.timer = CheckEvery]
          /\ Emitted(<<"visitor_arrived", "worker_born">>)
     ELSE /\ controls' = [controls EXCEPT !.queue = QueueAfter, !.cooldown = Cooled,
                            !.timer = CheckEvery]
          /\ UNCHANGED <<agents, metrics, stock, unrecorded, news>>

Recruit ==
  /\ turn = "recruit" /\ turn' = "work"
  /\ RecruitIdle \/ RecruitRuns
  /\ UNCHANGED <<now, alarms, flow, mind, outside>>

(***************************************************************************)
(* Work (external): at most one change of the shared state a tick.         *)
(***************************************************************************)
Calm ==
  UNCHANGED <<population, economy, outside>>

HungerTurns ==
  \E i \in DOMAIN agents :
    /\ agents[i].alive
    /\ agents' = [agents EXCEPT ![i].hungry = ~ agents[i].hungry]
    /\ UNCHANGED <<controls, metrics, economy, outside>>

PicksUp ==
  \E i \in DOMAIN agents, g \in Goods :
    /\ agents[i].alive /\ agents[i].carry = NoLoad
    /\ agents' = [agents EXCEPT ![i].carry = g]
    /\ UNCHANGED <<controls, metrics, economy, outside>>

Delivers ==
  \E i \in DOMAIN agents :
    /\ agents[i].alive /\ agents[i].carry # NoLoad
    /\ \A g \in Goods : stock[g] + Load <= MaxStock
    /\ agents' = [agents EXCEPT ![i].carry = NoLoad]
    /\ LET g == agents[i].carry
       IN  /\ stock' = [stock EXCEPT ![g] = stock[g] + Load]
           /\ unrecorded' = [unrecorded EXCEPT ![g] = unrecorded[g] + Load]
    /\ UNCHANGED <<controls, metrics, alarms, flow, outside>>

Rebuilds ==
  \E w \in 0..MaxWarehouses :
    /\ w # warehouses
    /\ warehouses' = w
    /\ UNCHANGED <<population, economy, recovery, world>>

\* The mode is switched on with or without the moment it was entered.
RecoveryTurns ==
  /\ IF recovery.on
     THEN recovery' = [recovery EXCEPT !.on = FALSE]
     ELSE /\ recovery.times < MaxRecoveries
          /\ \E at \in {now, NoTime} :
               recovery' = [on |-> TRUE, entered |-> at, times |-> recovery.times + 1,
                             endless |-> recovery.endless \/ at = NoTime]
  /\ UNCHANGED <<population, economy, warehouses, world>>

ScenesTurn ==
  /\ \/ world' = [world EXCEPT !.active = ~ world.active]
     \/ /\ world.objective < MaxObjectives
        /\ world' = [world EXCEPT !.objective = world.objective + 1]
     \/ \E w \in Weathers \ {world.weather} : world' = [world EXCEPT !.weather = w]
  /\ UNCHANGED <<population, economy, warehouses, recovery>>

Work ==
  /\ turn = "work" /\ turn' = "mortality"
  /\ \/ Calm \/ HungerTurns \/ PicksUp \/ Delivers \/ Rebuilds \/ RecoveryTurns \/ ScenesTurn
  /\ UNCHANGED <<now, news, mind>>

(***************************************************************************)
(* MortalitySystem.update: one pass over the agents.                       *)
(***************************************************************************)

\* _is_within_recovery_grace: without the moment of entry the window never ends.
InGrace ==
  /\ recovery.on
  /\ recovery.entered # NoTime => now - recovery.entered < GraceTime

\* Fault: an agent that has eaten keeps the time it starved before.
StarvingKept(a) == IF a.hungry THEN a.starving + 1 ELSE a.starving

StarvingAfter(a) == IF a.hungry THEN a.starving + 1 ELSE 0

Dies(a) == a.alive /\ StarvingAfter(a) >= Hold[a.kind] /\ ~ InGrace

\* fed is an observation: the last pass that did not find the agent starving.
AgentAfter(a) ==
  IF ~ a.alive THEN a
  ELSE IF Dies(a)
  THEN [a EXCEPT !.alive = FALSE, !.starving = StarvingAfter(a), !.died = now,
                 !.carry = NoLoad, !.fed = IF a.hungry THEN a.fed ELSE now]
  ELSE [a EXCEPT !.starving = StarvingAfter(a), !.fed = IF a.hungry THEN a.fed ELSE now]

Dying == {i \in DOMAIN agents : Dies(agents[i])}

\* _refund_carry for everyone who dies in this pass.
Refund(g) == Load * Cardinality({i \in Dying : agents[i].carry = g})

Mortality ==
  /\ turn = "mortality" /\ turn' = "resources"
  /\ agents' = [i \in DOMAIN agents |-> AgentAfter(agents[i])]
  /\ stock' = [g \in Goods |-> stock[g] + Refund(g)]
  /\ unrecorded' = [g \in Goods |-> unrecorded[g] + Refund(g)]
  /\ metrics' = [metrics EXCEPT !.deaths = metrics.deaths + Cardinality(Dying)]
  /\ Emitted([k \in 1..2 * Cardinality(Dying) |->
                IF k % 2 = 1 THEN "worker_died" ELSE "worker_starved"])
  /\ UNCHANGED <<now, controls, alarms, flow, mind, outside>>

(***************************************************************************)
(* ResourceSystem.update.                                                  *)
(***************************************************************************)

\* A rate of one in SpoilEvery is at most one: never more spoils than there is,
\* so that the amount the code records uncapped is the amount it takes.
Spoiled(g) == IF SpoilEvery[g] = 0 THEN 0 ELSE (stock[g] + SpoilEvery[g] - 1) \div SpoilEvery[g]

Wanted == Workers * Consumption

Drained == Minimum(Wanted, stock["food"] - Spoiled("food"))

\* Fault: what the workers wanted is recorded, not what there was.
RecordedWanted == Wanted

Recorded == Drained

StockAfter == [g \in Goods |-> stock[g] - Spoiled(g) - (IF g = "food" THEN Drained ELSE 0)]

\* The alarms that go off: a shortage when it begins, a surplus when the step
\* that ends one leaves more than three times the threshold, a depletion once
\* until the stock has recovered.
BalanceAlarm(g, s) ==
  IF g \notin Goods THEN <<>>
  ELSE IF s[g] < Emergency[g]
  THEN IF alarms.short[g] THEN <<>> ELSE <<"food_shortage">>
  ELSE IF alarms.short[g] /\ s[g] > 3 * Emergency[g] THEN <<"resource_surplus">> ELSE <<>>

DepletionAlarm(g, s) ==
  IF g \in Goods /\ s[g] <= 0 /\ ~ alarms.depleted[g] THEN <<"resource_depleted">> ELSE <<>>

AlarmsOf(s) ==
  BalanceAlarm("food", s) \o BalanceAlarm("wood", s)
  \o DepletionAlarm("food", s) \o DepletionAlarm("wood", s) \o DepletionAlarm("stone", s)

\* Stone has no shortage threshold.
AlarmsAfter(s) ==
  [short |-> [g \in Goods |-> IF g = "stone" THEN FALSE ELSE s[g] < Emergency[g]],
   depleted |-> [g \in Goods |-> IF s[g] <= 0 THEN TRUE
                                 ELSE IF s[g] > Replenished THEN FALSE
                                 ELSE alarms.depleted[g]]]

\* The window as the update finds it: created, and its snapshot taken, by the
\* first update.
Window == IF flow.ready THEN flow ELSE [flow EXCEPT !.snapshot = stock, !.ready = TRUE]

Flushes == Window.age + 1 >= WindowLen

Resources ==
  /\ turn = "resources" /\ turn' = "observe"
  /\ stock' = StockAfter
  /\ Emitted(AlarmsOf(StockAfter))
  /\ alarms' = AlarmsAfter(StockAfter)
  /\ IF Flushes
     THEN /\ flow' = [snapshot |-> StockAfter, consumed |-> 0, spoiled |-> NoGoods, age |-> 0,
                      ready |-> TRUE]
          /\ unrecorded' = NoGoods
     ELSE /\ flow' = [Window EXCEPT !.consumed = Window.consumed + Recorded,
                                    !.spoiled = [g \in Goods |-> Window.spoiled[g] + Spoiled(g)],
                                    !.age = Window.age + 1]
          /\ unrecorded' = IF flow.ready THEN unrecorded ELSE NoGoods
  /\ UNCHANGED <<now, population, mind, outside>>

(***************************************************************************)
(* MemoryObserver.observe, at the end of the tick.                         *)
(***************************************************************************)

\* The first look only takes notes.
FirstLook ==
  /\ ~ seen.ready
  /\ seen' = [ready |-> TRUE, deaths |-> metrics.deaths,
              critical |-> stock["food"] < Critical,
              objective |-> world.objective, weather |-> world.weather]
  /\ UNCHANGED memory

\* Each change since the last look is one more memory.
DeathNews(store) ==
  IF metrics.deaths > seen.deaths
  THEN Insert(store, Entry("death", 3, now, FALSE)) ELSE store
FoodNews(store) ==
  IF stock["food"] < Critical /\ ~ seen.critical
  THEN Insert(store, Entry("resource_critical", 2, now, FALSE)) ELSE store
GoalNews(store) ==
  IF world.objective > seen.objective
  THEN Insert(store, Entry("objective", 3, now, TRUE)) ELSE store
WeatherNews(store) ==
  IF world.weather # "clear" /\ world.weather # seen.weather
  THEN Insert(store, Entry("weather", 1, now, FALSE)) ELSE store

Look ==
  /\ seen.ready
  /\ memory' = WeatherNews(GoalNews(FoodNews(DeathNews(memory))))
  /\ seen' = [ready |-> TRUE, deaths |-> metrics.deaths,
              critical |-> stock["food"] < Critical,
              objective |-> world.objective, weather |-> world.weather]

Observe ==
  /\ turn = "observe" /\ turn' = "clock"
  /\ IF world.active THEN FirstLook \/ Look ELSE UNCHANGED mind
  /\ UNCHANGED <<now, population, economy, news, outside>>

\* The run is over when its ticks are.
Over == turn = "clock" /\ now = MaxTicks /\ UNCHANGED vars

LifeNext == Clock \/ Recruit \/ Work \/ Mortality \/ Resources \/ Observe \/ Over

LifeSpec == LifeInit /\ [][LifeNext]_vars

(***************************************************************************)
(* Properties.                                                             *)
(***************************************************************************)

\* Nobody is counted twice or lost: the ids of the agents differ although the
\* id of a recruit is made from the length of a list in which some have died
\* (_make_worker_id), births and deaths match the list, and each was announced
\* on the event bus exactly once.
HeadsCounted ==
  /\ \A i, j \in DOMAIN agents : agents[i].id = agents[j].id => i = j
  /\ Len(agents) = Len(InitialKinds) + metrics.births
  /\ metrics.deaths = PopulationStats.dead
  /\ PopulationStats.workers + PopulationStats.visitors + metrics.deaths = Len(agents)
  /\ \A t \in Births : toll[t] = metrics.births
  /\ \A t \in Deaths : toll[t] = metrics.deaths

\* Who starved had been starving without a break for the whole hold of its
\* kind, and who has starved that long lives only in the grace window
\* (mortality_system.py:146 "not a permanent reprieve"): as long as the moment
\* of entry is recorded, each recovery delays a death by less than its window.
StarvationFair ==
  \A i \in DOMAIN agents :
    LET a == agents[i]
    IN /\ ~ a.alive => a.died - a.fed >= Hold[a.kind]
       /\ a.alive /\ turn = "resources" /\ a.starving >= Hold[a.kind] => InGrace
       /\ a.alive /\ ~ recovery.endless
            => a.starving < Hold[a.kind] + recovery.times * GraceTime

\* The flow window accounts for the stock: what is there is what was there at
\* the snapshot, plus what the other systems brought and took, minus what the
\* window has recorded as eaten and spoiled.
StockAccounted ==
  flow.ready =>
    \A g \in Goods :
      stock[g] = flow.snapshot[g] + unrecorded[g] - flow.spoiled[g]
                 - (IF g = "food" THEN flow.consumed ELSE 0)

\* The nth anchor is still the nth, and the routine entries are within the
\* capacity.
Outlived ==
  LET Rank(s, i) == Cardinality({j \in 1 .. i : s[j].anchor})
  IN /\ \A i \in DOMAIN memory :
          memory[i].anchor =>
            \E j \in DOMAIN memory' :
              memory'[j] = memory[i] /\ Rank(memory', j) = Rank(memory, i)
     /\ Cardinality({j \in DOMAIN memory' : ~ memory'[j].anchor}) <= Capacity

\* A routine memory never pushes out an anchor (memory_store.py:158 "anchor
\* entries survive arbitrarily many routine inserts"), and the routine entries
\* never outgrow the capacity.
AnchorsSurvive == [][Outlived]_vars

=============================================================================
