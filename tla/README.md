# Project Utopia in TLA+

Project Utopia (`project_utopia/`) is a colony simulation used as a benchmark
of language-model decision channels: a deterministic tick loop advances a tile
world, its agents and its economy, and at intervals asks a model (or a
scripted fallback) for decisions.  This directory holds a specification of the
parts whose correctness depends on the *order* of things: what TLC checks on
small instances, what TLAPS proves for all of them, and what is left out.

`PROJECT.json` gives, for every definition, the source lines it models, and
for every run, property, seeded fault and theorem what it is about.

## 1. Inventory

Everything runs on one thread (`asyncio` for the model calls), except the
path-worker pool.  State is one dictionary, `state`, that all systems share:
the interleavings that matter are those of *operations* (planners, builders,
events, deaths, decisions) reaching shared entries of it in any order, of
coroutines around an `await`, and of one loop with the callbacks it makes.

| Component (under `project_utopia/`) | State | Operations | Hard behaviour | What makes it correct |
|---|---|---|---|---|
| **Construction** `simulation/construction`, `simulation/lifecycle/tile_mutation_hooks.py` | tiles, overlays in `grid.tile_state`, the index `constructionSites`, the stock, agents' routes | place, cancel, erase, instant place, reserve, release, work, `update` | two copies of a job; a reverse loop that pops; raids and deaths in between; refunds | the copies agree; a builder has one job; refunds are paid once; no route over a wall; jobs finish |
| **PlanExecutor** `simulation/construction/plan_executor.py` | a plan, a status per step | `load_plan`, `update` | infers completion from absence | a step waits for what it depends on; no ready step waits for ever |
| **Decision channels** `simulation/ai/{director,brains,strategic,colony}`, `app/ai_runtime_stats.py` | `state["ai"]`, counters, last-decision times | four `update` methods, each: gate, request, validate, fall back, commit | four writers of one record; a failure at each step; schedules | counters add up; a decision is always committed; cadence |
| **Decision scheduler** `simulation/ai/strategic/decision_scheduler.py` | last decision, last observed values | `should_trigger`, `record_decision` | heartbeat, cooldown and crises race | crises are answered |
| **Colony director** `simulation/meta/colony_director_system.py` | auto-build queue | `update` | the gate between script and model | the two never steer at once |
| **World events** `world/events.py`, `simulation/meta/event_director_system.py` | queue, active list, counters | enqueue, `tick` | caps per type, lifecycle, overlap | every event runs and leaves; caps hold |
| **Record/replay cache** `simulation/ai/llm/record_replay_cache.py`, `layer_cast_adapter.py` | entries, loaded flag, cassette file | `get`, `put`, `flush` | awaits, I/O errors, crashes in a write | a recording replays; nothing recorded is lost |
| **LLM client** `simulation/ai/llm/llm_client.py`, `adapter_to_llm_client.py`, `http_agent_client.py` | attempt and retry counters | `request_completion` | time-outs, retries, cancellation, malformed answers | bounded attempts; one answer per request |
| **Guardrails** `simulation/ai/llm/guardrails.py`, `response_schema.py` | - | clamp and whitelist functions | malformed answers, guarded more than once | what is committed satisfies the schema and is a fixed point |
| **Memory** `simulation/ai/memory` | entries, newest time, observer edges | add, observe, clear | eviction at capacity | anchors survive; capacity holds |
| **Lifecycle and population** `simulation/lifecycle/mortality_system.py`, `simulation/population` | agents, counters, recruit queue | `update` | grace window, ids, caps | deaths counted once; ids unique; starvation is fair |
| **Economy** `simulation/economy` | stock, flow counters, alarms, efficiencies | `update` | edges and hysteresis; a cache per map version | the flow window accounts for the stock; efficiencies are those of this map |
| **Navigation** `simulation/navigation`, `simulation/services` | path cache, pending futures, road network, reachability cache, blacklist | find, request, take, probe, mark | threads; versions; budgets | never a path of an older map; a search ends |
| **Worker FSM** `simulation/npc` | state, target, role | tick, assign roles | priorities, forced transitions, hand-overs | hostiles are met in every state, by workers that are objects; roles settle |
| **Movement** `simulation/movement` | positions, spatial hash | boids step | numeric | - |
| **Event bus** `simulation/meta/game_event_bus.py`, `app/warnings.py` | a ring of events, handlers | emit, subscribe | handlers that fail or emit | bounded log, order kept |
| **World** `world/grid.py`, `scenarios.py`, `weather.py` | tiles, version, season, weather timer | set tile, tick | version and callbacks | a change bumps the version |
| **Harness** `benchmark/framework/sim_harness.py`, `crisis_injector.py`, `probe_collector.py`, `decision_tracer.py` | the systems in order, tick number, the workers' states | tick, advance | order of systems; policies seen through a counter | workers follow the policy in force and earn by it |
| **Campaigns** `benchmark/framework/seed_matrix.py`, `cli/benchmark_paper.py`, `src/tools/matrix_runner.py` | tasks, an environment variable, results on disk | run, resume, aggregate | tasks that share a variable; crashes, partial results | each row comes from the right model; what is reported is on the disk |
| **Scoring, dimensions, baselines, config, entities** | - | pure functions | numeric | - |

Calls go one way in a tick: the harness calls the decision channels (which
write `state["ai"]`), then the world (events, weather, agents, economy,
lifecycle); these emit on the event bus and mutate tiles through
`mutate_tile`, whose cascade reaches agents, reservations and wall HP, and
`Grid.set_tile` notifies caches through callbacks and its version.

## 2. The plan

The order in which the modules were written, most important first.  Each is
parameterised by CONSTANTS with named assumptions, has one action per
operation and no RECURSIVE operator, so that it can be proved about.

1. `Construction` over `BuildCatalog`, its abstract `JobBoard`, `PlanExecutor`
   on top of it; the proofs about all of them in `ConstructionProofs`.
2. `DecisionScheduler` and `DecisionChannels`; theorems in `DecisionProofs`.
3. `Weather`, `WorldEvents`, `EventDirector`; theorems in `EventProofs`.
4. `Cassette` and `ModelRequests`; theorems in `RequestProofs`.
5. `Navigation` over `PathSearch`, `PathCache`, `PathWorkerPool`,
   `ReachabilityCache`, `RoadNetwork` and `Logistics`; theorems in
   `NavigationProofs`.
6. `ColonyLife` over `MemoryStore`; theorems in `ColonyProofs`.
7. `Workers` over `Guardrails` and `WorkerStates`; theorems in `WorkersProofs`.
8. `Campaign`; theorems in `CampaignProofs`.

One run answers one question; the runs whose properties became part of a
larger instance were merged into it, and disagreements between code and text
that a sentence explains are told in the sections below without a run.

Every safety invariant and every action property of a passing run is stated by
a theorem.  Section 11 lists what is out of the prover's reach.

## 3. Construction

A job exists twice: the *overlay* on the tile (authoritative) and the entry in
`state["constructionSites"]` that builders search.  `Construction.tla` has one
action per operation; the loop of `ConstructionSystem.update` is cut at its
iterations (`BeginUpdate`, then `DropSite`, `SyncSite` or `CompleteSite` for
each entry from the last to the first, then `EndUpdate` with the periodic
rebuild).  Nothing else runs between them: every other action requires
`~Running`.  Cutting it lets the invariants speak of the state *inside* the
loop, where entries are popped from the list it walks.

| Variable | Code |
|---|---|
| `tile` | `grid.tiles` |
| `overlay` | `grid.tile_state[idx]["construction"]` |
| `sites` | `state["constructionSites"]` |
| `resources` | `state["resources"]`, in halves (salvage is half of a cost) |
| `alive` | the `alive` of the agents that are dicts (`Workers`) |
| `route` | of a dict agent: `targetTile` and `path`, as the tile hook reads them; of an object (`Entities`): `target_tile`, `path`, and whether `path_grid_version` is `grid.version` (`current`) |
| `cursor` | the loop variable of `update`, -1 outside |
| `tick` | `metrics["tick"]` modulo the rebuild period |

`BuildCatalog.tla` holds the static tables.  `Death` and `RaidImpact` stand for
what the rest of the simulation does to the same state: an agent dies,
`apply_world_event_impact` ruins a tile.

Agents come in two shapes, and a path is protected in two ways:

* Dict agents.  `_invalidate_agent_paths` goes over `state["agents"]`, skips
  whatever is no dict, and reads `targetTile` and steps `{"ix", "iz"}`.  It
  drops the path of a living agent that targets the tile or that crosses a tile
  that now blocks (`InvalidatedRoute`).  Nothing in the package writes routes of
  this form: `PlanRoute` is external, a caller that does what the tests of the
  hook do.
* Objects.  `set_target_and_path` binds `target_tile` and a path of tuples to an
  object (`SetTargetAndPath`, `ClearPath`).  The hook does not reach them: they
  keep target and path.  But `Grid.set_tile` has moved the version on, and
  `has_active_path` refuses a path of an older one (`current`, `HasActivePath`).
  `follow_path` does not look at the version; whoever calls it has to ask first.

`NoRouteIntoObstacle` speaks of the paths in use: those of living dict agents,
and those of objects that `has_active_path` accepts.  The tile an object stands
on when its path is found is no part of the modelled path: it may be a wall
that was built around it.  `follow_path` only moves an index; the whole path is
kept, which asks more of the code.

Left out: wall HP, building counts and dirty keys
(no guard reads them), event payloads, "no grid" and "out of bounds" returns.

Work seconds are counted in halves and builders stop at a job's total
(`ApplyWork`'s guard): the one bound on a counter.

`PlanExecutor.tla` puts a plan on top: `_refresh_status` looks at the index
only, so a job that was cancelled looks like one that was built.  `update` is
cut at the steps of the plan; `CancelInStep` is the erase step that meets an
open job, whose phase the executor does not know.

### Runs

| Run | Question | Instance |
|---|---|---|
| `construction` | Do index and overlays agree, is a builder exclusive, is `JobBoard` implemented, whatever the order of operations? | two tiles (grass, bridge), two builders (symmetric), walls, bridges and erasures, instant placement, raids, deaths; a stock of 3 wood and 1 stone |
| `construction_live` | Is a dead builder let go, does a finished job close, is an orphan dropped?  Can planning, cancelling, demolishing and raids create resources, is a path in use that leads over a wall or water? | blueprints only; one agent that is a dict and one that is an object, with paths over the bridge; entries and overlays may vanish; a rebuild every 2nd tick; 2 wood and 1 stone |
| `plan` | Does what a step depends on stand on the map when the step is submitted, is every ready step tried? | three plans: a chain, one with steps that cannot be placed or wait for a missing one, one that erases a road that another step depends on |

Two tiles suffice for the interplay of two jobs, two entries and two agents;
the stock is chosen so that two jobs can be open at once and a third is
refused.  The proofs remove the bounds for the invariants.

Deadlock is not checked in these runs: with no fairness the colony may do
nothing, and an empty stock with all builders dead is a legitimate end.

### Fairness

`config/constants.py` lists `ConstructionSystem` in `SYSTEM_ORDER`, called on
every tick, so `Update` is weakly fair (`DriftSpec`).  For the executor, a
call can begin only between two calls of the other system: `BeginPlan` is
strongly fair, the steps inside a call weakly.  Builders are not fair: nothing
forces an agent to work.

### Where code and text differ

Differences met while modelling; they show in the definitions:

* `plan_executor.py:81` has steps complete "once their tile mutates"; they
  complete when their site is gone, and a job that another caller cancelled
  has none either (`Refreshed`).
* `construction_system.py:142` calls the rebuild "defensive periodic"; the
  early return on an empty index (`:51`) comes before it (`BeginUpdate`), so
  an overlay that lost its entry while the index is empty is not repaired.
  The liveness properties therefore speak of `Indexed` jobs.
* `construction_system.py:55` walks the index from its end and a hook of
  `tile_mutation_hooks.py:228` may place or cancel in between; no caller in
  the package registers such a hook, and none is modelled.
* `build_system.py:108`: the instant path ignores the overlay of its tile, so
  an erase at once under a demolition that is open pays the salvage a second
  time when the demolition completes.  `NoFreeResources` speaks of blueprints.
* `tile_mutation_hooks.py:7` has the mutation of a tile "invalidate worker paths
  / targets that touched the tile".  It does so for dict agents with
  `targetTile` and `{"ix", "iz"}` steps.  The paths that
  `navigation_system.py:81-117` binds are tuples on objects, and the harness's
  agents are `asdict(Worker)`, with `target_tile` and tuples: neither is ever
  dropped.  What protects an object is the version of its path; a target that
  was built over stays its target until somebody plans anew.
* `build_advisor.py:109` and `:131` allow demolition of structures and ruins
  only; `place_tool_at(..., {"instant": True})` erases any tile
  (`InstantPlace`).

### What is proved

`ConstructionProofs.tla` proves, for every map, stock, tool set, worker set,
set of entities and path set satisfying `ConstantsAssumption`:

* `TypeCorrect`: `Spec => []TypeOK`
* `IndexMirrorsOverlays`: `Spec => []MirrorExact`
* `BuildersAreExclusive`: `Spec => []OneJobPerBuilder`
* `RoutesStayClear`: `Spec => []NoRouteIntoObstacle`
* `IndexIsJobBoard`: `Spec => BoardSpec`, the refinement of `JobBoard`
* `NothingIsFree`: `DriftSpec => NoFreeResources`, the ledger
* `RoutesStayClearUnderDrift`: `DriftSpec => []NoRouteIntoObstacle`

The inductive invariant of the first four is their conjunction `IInv`.
`MirrorExact` is what makes the others inductive: `ReserveSite` looks for the
worker's job in the index only, and concludes that no overlay names the worker
because the index mirrors the overlays; the loop may pop the entry under the
cursor because entries are unique per tile.  Three lemmas say how `Mirror`
survives the three ways a job changes (it opens, it closes, it is rewritten),
and every action is one of the three on the pair (overlay, sites).
`NoRouteIntoObstacle` has a lemma for each way it could break:
`MutateTileKeepsRoutes` (the hook drops the paths of the living dicts that
cross the tile, and no object's path is current any more) and
`RoutingKeepsRoutes` (what is planned is planned over passable tiles).

`IndexIsJobBoard` rests on `IInv` too: with an exact mirror what the board
shows of a tile is a function of its overlay (`BoardShowsOverlays`), and each
of the three changes is one step of the board, or none.

`NothingIsFree` holds under drift, where the mirror does not, so it has an
invariant of its own, `LedgerInv`: the types, the routes, and that an erasure
leaves a tile that gives nothing back (`ErasuresBare`), which is what keeps a
completed demolition from paying twice.  The ledger is a sum over the tiles
(`SumFunction` of the community modules, defined by recursion over subsets).
Its one property that counts is proved by hand, from the well-foundedness of
finite sets: the recursion has a solution (`AddsExists`), and when one value
changes the sum changes by as much (`SumChanges`).  With `OneTileChanges` a
step then has to be accounted for on the one tile it touches.

* `DependenciesStand`: `PlanSpec => DependenciesBuilt`, for every set of plans
  that satisfies `PlansAssumption` (`plan_executor.py:10` has an id as unique;
  `load_plan` does not check it)

`DependenciesBuilt` is about a step `i` and a step `j` that it depends on.  The
executor calls `j` complete when its site is gone; for that to mean that it was
built, no step of the plan may get to the tile of `j` before `i` is through:
one that erases there would cancel the job, one that builds there would change
the tile.  `Undisturbed` says so: whoever else uses the tile waits for `i`,
maybe through other steps.  Without it the property is false, as the third plan
of the run shows: the erasure cancels the job of the road, and the step that
depends on the road is submitted.

The invariant is `PInv`: the types of the plan; that a step that was submitted
had all it depends on complete, for good (`OrderKept`); that water stays water
under every tool (`GroundKept`), so that what a job leaves is what the step was
to build; and `AwaitedStands`: as long as `i` is pending, the tile of `j` is
what `j` makes of it or its job will make it so.  `WaitersAreNotReady` is the
heart: the steps that wait for a pending one are a set that is closed under
"depends on", and none of them is ready.

Only model-checked: liveness.

## 4. Decision channels

`DecisionScheduler.tla` is the gate of the strategic-plan channel together
with the world it looks at; `DecisionChannels.tla` extends it with the other
three channels, the probe of the harness and the scripted director.  `turn` walks through the systems in
the order the harness registers them, so a tick is one round: the world moves,
then each system either acts or passes.  What a directive, a policy or a plan
*says* is left out; what remains of an answer is where it came from
(`Result`): the model, the model after repair by the guardrails, or the
script, and whether an error is counted.

| Variable | Code |
|---|---|
| `phase`, `crises`, `deaths`, `objective`, `prosperity` | the fields `should_trigger` reads from `state` |
| `sinceDecision`, `initialized`, `last...` | the slots of `DecisionScheduler` |
| `age` | `now - last...Sec` of the timed channels and of the director |
| `stalledFor` | `now - colonyAgentPlanStalledSinceSec` |
| `planned` | a non-empty `ai["colony_plan"]` |
| `runMode`, `config` | `ai["run_mode"]`; how the run is wired |
| `decisions`, `llmDecisions` | `...DecisionCount`, `...LlmCount` |
| `stats` | `metrics["ai_runtime"]` |
| `probes` | how often the probe asked |

Only differences of times are ever compared, so a time is kept as an age, and
an age stops counting where every comparison with it is settled.  The bounds
are `MaxDeaths` and `MaxRequests` (the latter in the guard of `ChannelsTick`,
so that a tick once begun is finished).

| Run | Question | Instance |
|---|---|---|
| `channels` | Do the shared counters balance after each step, does any decision outlive its cadence, does a crisis or a death stay unanswered past the cooldown? | every way of wiring; heartbeat 3, cooldown 2, one crisis, one death; requests that raise, malformed and valid answers; started with the model or with the script, 11 requests, with stalls |

The cadences are 2 and 3 ticks: short enough for several rounds within the
bound on requests, different enough for the channels to fall out of step.
`NewsAnswered` is a safety property: after the channels have run, an active
session has no plan as old as a heartbeat and no news older than the cooldown.
No fairness is needed for it, since a tick that has begun calls every system.

`DecisionsFresh` does not speak of a harness whose probe may raise: there the
exception ends the tick, and the channels behind it do not decide.

Disagreements between code and text:

* `decision_scheduler.py:33` has critical events fire even inside the
  cooldown; `should_trigger` returns before it looks at them (`:82`).
* `colony_agent_system.py:39` has a plan stall for `plan_stall_sec` before it
  is replaced; the timer survives a replan on schedule, so a new plan inherits
  the stall of the old one.
* `colony_director_system.py:155` has the script yield to the model; the gate
  knows `run_mode` only, while the channels also follow `coverageTarget`.
  The first run of the script then writes the default `run_mode` that takes
  the model away from the channels.

`DecisionProofs.tla` proves for all constants satisfying `ChannelsAssumption`
and `SchedulerAssumption`:

* `ChannelsTypeCorrect`, `StatsAlwaysAddUp`: the types and the balance of the
  counters, whose conjunction is inductive.  The proof of a step goes by the
  record `stats`: every action either leaves the counters alone, counts one
  request of one channel (`Counted`), or counts a probe.
* `DecisionsStayFresh`: `[]DecisionsFresh`, and `NewsIsAnswered`:
  `[]NewsAnswered`.  Both speak of the moment between two ticks and are not
  inductive, since inside a tick some channels have had their turn and others
  not.  `CadenceInv` opens the turn up: a channel is fresh from its own turn on
  (`DecidedFresh`), and the plan knows the news from the turn of its channel on
  (`PlanUpToDate`).  `CadenceKept` proves it.

## 5. World events

`WorldEvents.tla` keeps every event ever queued in one sequence, at the index
that is the number in its id; the queue and the active list of the code are
the events of the matching status, in order.  `EventTick` is the whole of
`tick`: admission under the caps, the handler of each type, ageing, resolving,
the penalty for shared targets, the filter.  Pressures and rewards are kept in
thousandths, to which the code rounds them, since whether they build up from
tick to tick is a question of what is written where.  `EventDirector.tla` adds
the scheduler and the clock: a tick is the director's turn, then that of the
weather, then that of the events; between ticks farms come and go and callers
queue events with targets of their own.  `Weather.tla` has the seasons and the
timer of the weather: a season begins at the first tick after the last one is
over, the next weather is drawn when its time is up, with the weights of the
season that has begun.

| Variable | Code |
|---|---|
| `events` | `WorldEventState.queue` and `.active`, `next_event_id` (the length) |
| `raidsRepelled` | `.raids_repelled` |
| `weather`, `scene` | what the caller of `tick` passes: weather; anchors and herbivores |
| `sky` | `WeatherState`: type, season, and the times of both as an age and a rest |
| `sinceDispatch` | `now - director["last_dispatch_sec"]`, `None` before the anchor |
| `dayBudget` | `director["day_budget"]` |

| Run | Question | Instance |
|---|---|---|
| `events` | Do caps, order and counts hold, does no place stay idle, do penalties settle, does the director keep its interval? | two events by callers and all the director queues in 5 ticks; events of 2 ticks, cooldown 1; interval 2, without farms 5, until time 2; seasons of 2 ticks, clear weather of 1 or 2 ticks and storms of 1; with and without anchors and animals |
| `events_resolved` | Is a resolved event dropped after its cooldown? | the same; **violated** |

Bounds: `MaxEvents` for callers, `MaxTime` for the clock; `elapsed` stops
where every comparison with it is settled.  The caps of the run are 1, 2 and 1,
so that one type shows the second place and two show the queue behind a full
one.  No liveness is claimed: since resolved events are never dropped (the
violated run: `events.py:276` filters by a status that nothing assigns, `:272`
promises otherwise), a second raid in the queue waits for ever.

In the small instance rain has no weight: one bad weather is enough for the
penalties.  `weather.py:234` computes `transition_progress` from a total that
equals the time left, so it is always 0, while the docstring (`:155`) has it
the elapsed share; nothing reads it.  A draw of exactly 0 picks the first
weather whatever its weight, and is left out.

Left out: the history log of the director, the impact tile of a raid, what a
migration writes into the animals, and the messages on the bus.  The cooldown
of raids is a free input, since in the package nothing writes
`gameplay["last_raid_tick"]`.  Seen while modelling: in a storm the penalty for
a contested caravan *raises* its reward (it starts again from the base,
`events.py:411`, 0.82 of it, while the storm alone left 0.735); and a raid
contests its own target, since it lists it twice.

`EventProofs.tla` proves for all caps, durations, intensities, anchors and
intervals (`EventsAssumption`, `DirectorAssumption`; a cooldown is at least
a tick, in the code 4 seconds):

* `CapsAlwaysHold`: `Spec => []CapsHold`
* `QueueKeepsOrder`: `Spec => []StartedInOrder`
* `RaidsAreCountedOnce`: `Spec => []RaidsCountedOnce`
* `NothingIsDropped`: `Spec => []NeverDropped`: what the violated run finds of
  one resolved event holds of all
* `PenaltiesSettle`: `Spec => PressureSettled`
* `PlacesAreUsed`: `Spec => NoIdlePlace`

`EventsInvariant` is the inductive conjunction.  Caps and order need each
other: how many start in one pass is a pigeonhole argument over their ranks in
the queue, and the first of a type in the queue is the first that has not
started.  `PressureSettled` compares two ticks, so its invariant says that
every started event is a fixed point of the handlers for the weather and the
rivals of the last tick (`AllSettled`).

## 6. The cassette and requests to the model

`Cassette.tla` describes what a process holds of a cassette and the file it is
kept in.  `get`, `put` and `flush` hold a lock and wait for nothing meanwhile,
so each is an operator on that state, one step of whoever calls it.
`ModelRequests.tla` has the callers: coroutines that ask through the caching
adapter or through LayerCast (`layered`), with the retrying client underneath
or the bridge that is asked once (`bridged`), and the facade that never raises
on top.  An answer the schema rejects (`Malformed`) reaches the caller
repaired, or as a fallback when it is the plan of a colony (`Served`);
LayerCast turns it into a failed response for two of the channels, and records
that (`Wrapped`).  A step is what a coroutine does from
one wait to the next: it looks into the cassette and begins, an attempt fails,
a pause ends, a response comes back, or it is cancelled; a reply that is no
JSON comes back as a failed response at once, without another try.  Processes end at any
point, saved or not, and others open the same file in a mode of their own.

| Variable | Code |
|---|---|
| `exists`, `file` | whether there is a file at `cassette_path`, and its lines |
| `entries`, `loaded`, `dirty`, `mode` | `_entries`, `_loaded`, `_dirty`, `mode` |
| `request` | where each coroutine is: its key, its failures, what it was given |
| `supported` | `LayerCastAdapter._supported` |
| `layered`, `bridged` | which of the two adapters is over the cassette, which of the two clients underneath |
| `sessions`, `faults` | what the bounds count |

| Run | Question | Instance |
|---|---|---|
| `cassette` | Does a replay ask nobody and give what was recorded, does a process hold all that is on file and save all it was given, does every request end? | two coroutines, two questions on two channels, a good and a malformed answer and the failed response, one retry, two processes in any modes, one fault |
| `cassette_topup` | Does an auto run keep what an earlier one recorded? | the same; **violated** |

Two coroutines and two keys are enough for two answers to one question and for
a request that begins while another is under way; two processes for what one
finds of the other's.  The bounds are `MaxSessions` and `MaxFaults` (reads and
writes that fail).  With a fault allowed `CleanMeansSaved` and
`ReplayGivesRecorded` say nothing after it, and rightly so: `_loaded` is set
before the file is read (`record_replay_cache.py:131`) and the file is
rewritten in place (`:208`).

Fairness: `Proceed(c)` is weakly fair, as every attempt is under a time-out
(`asyncio.wait_for`) and every pause has a length.  Beginning and cancelling
are not.  Deadlock is not checked: in replay mode with the processes used up
the only steps left may change nothing.

`record_replay_cache.py:16` has auto mode "top up the cassette without nuking
it"; `flush` does not load first, so a process that flushes before it has
asked anything empties the file.  Seen while modelling, without a run:

* A call that failed is recorded like an answer, and replayed as one.
* Once LayerCast has latched `_supported = False`, a question that is not in
  the cassette is neither asked nor recorded, in record and auto mode too.
* `cli/benchmark_paper.py:377` passes `cache_dir=` to a constructor that takes
  `cassette_path`; the exception is caught, and no cache is attached.
* The facade catches `BaseException`: a cancelled request becomes a fallback.

* The same malformed answer is recorded as it is by the caching adapter and as
  a failure by LayerCast, so a cassette made by the one and replayed through
  the other gives less than it could.

What a client was given is remembered while replaying only, where a property
speaks of it.  Left out: hit and miss counts, timestamps, the hash that makes
the key, an adapter without a cassette, latencies and the last status.

`RequestProofs.tla` proves for any clients, keys, answers, retries, sessions
and faults (`CassetteAssumption`, `RequestsAssumption`):

* `CleanIsSaved`: `Spec => []CleanMeansSaved`
* `ReplayIsFaithful`: `Spec => []ReplayGivesRecorded`
* `OneRecordingPerKey`: `Spec => []OneLineEach`, no key twice in memory or file
* `PutThenGet`: what `put` stores under a key, `get` finds there, and every
  other key keeps its answer

The inductive invariant (`RequestsInvariant`) adds three facts nobody wrote
down in the code: before the file was read the process holds nothing and is
not dirty, a process in replay mode is never dirty, and under the caching
adapter it has no request under way.  That every request ends stays with TLC.

## 7. Navigation

Nothing is told when the map changes: `set_tile` bumps a version, and whatever
remembers something about the map compares versions.  `Navigation.tla` puts
the map, one walker and all that remembers side by side.

| Module | Code | State |
|---|---|---|
| `PathSearch` | `a_star.py` | the record of one search (heap, closed tiles, costs, predecessors); `Turned` is one turn of the loop |
| `PathCache` | `path_cache.py` | `cache`, a sequence with the entry to be evicted at its head |
| `PathWorkerPool` | `path_worker_pool.py` | `executor`, `pending` (the search behind a future), `results`, `requests` (the counter of the same name) |
| `ReachabilityCache` | `reachability_cache.py` | `reach`, `reachVersion`, `budget` |
| `RoadNetwork` | `road_network.py` | operators: the union-find as a record, `Rebuilt` from a map |
| `Logistics` | `economy/logistics_system.py` | `efficiency`, `logisticsVersion` |
| `Navigation` | `navigation_system.py`, `world/grid.py` | `tiles`, `version`, `walker`, `network`, `networkVersion` |

The main thread does one call per step.  A search in a thread of the pool does
one turn per step, on the map as it is then, so a search may see several maps;
a turn looks at four neighbours, and a change between two of them is not told
apart from one before or after the turn.  A search in the calling thread
(`Searched`) is all its turns at once.  In the package nobody polls the pool,
moves a walker along its path or registers for changes; the callers are modelled
as their interfaces describe them: who takes a path hands it to the cache under
the version it asked for (`HandedOver`), who moves a walker asks
`has_active_path` first (`FollowPath`).

| Run | Question | Instance |
|---|---|---|
| `navigation` | Is what carries the current version true of the current map, is an active path clear, do searches end? | three by two tiles, ruins on the short way, a warehouse that becomes a wall and a warehouse again; one walker, one request, one cached path, one probe, a farm; versions 1 to 3 |

The small map has what the search can meet: a tile put on the heap twice, a
goal that is cut off, a way round.  With three versions the map comes back to
what it was, under another version.  One request at a time is what TLC can
bear next to the walker; a request that replaces a pending one begins anew and
brings no new state of a search.  Costs are in twentieths (road 13, grass 20,
ruins 32) and `Estimate` is what the heuristic counts for a step, 20.

`PathsFresh` says both halves of what a search promises: a path is a way on
this map, and `None` means that there is no way.  It compares with `Ways`,
which lists every way; `ViewsFresh` compares the union-find with the same,
and the efficiencies with the tiles they depend on.

Fairness: threads go on (`SearchOn`).  Nothing else is fair.  The run is the
longest, two to three minutes.  Deadlock is
checked in `navigation`: callers can always clear the cache.

Seen while modelling, without a run:

* The heuristic counts 1 for a step, a road costs 0.65, so it is not
  admissible as `a_star.py:48` has it: a walker is sent through ruins (3.85)
  although the road around them is cheaper (3.25).
* `LogisticsSystem` calls a place connected when a road is next to it and a
  warehouse within 12 tiles as the crow flies; the list in its docstring has
  the two joined by road.  A tier of the model stands for its factor.
* `path_worker_pool.py:42` has a result "handed back to the cache without
  re-keying"; the pool's keys are strings and the cache's are tuples, and
  `invalidate_grid_version` compares `k[1]`, a character of such a string,
  with a number.  The model re-keys.
* `take` returns `None` for "no path" as for "not ready".
* The probe budget is called per tick; nothing fills it up again.  When it is
  used up, every unknown question is answered with "unknown" for good.
* A probe answers "reachable" whenever a tile of the kind exists;
  `reachability_cache.py:136` has it mean that no wall is in between.
* `tile_mutation_hooks.py:35` counts ruins among the tiles that block;
  the search walks through them at a cost of 1.6.

Left out: weather, elevation and dynamic costs (factors on the cost of a step),
the cost version and the faction in the keys, counters, and the path-failure
blacklist.

### What is proved

`NavigationProofs.tla` proves for maps of any size, any costs, heuristic and
kinds of tiles, any cache, pool and sequence of changes:

* `SearchesAreRight`: `Truthful(map, Searched(map, start, goal), start, goal)`
* `RememberedPathsAreFresh`: `Spec => []PathsFresh`
* `WalkersMayTrustTheirPath`: `Spec => []ActivePathsClear`
* `ViewsAreFresh`: `Spec => []ViewsFresh`

They rest on `SearchAssumption` and on `NodesAssumption`: a search may expand as
many tiles as there are (100000, the default of `max_nodes` that no caller
changes, and 96 by 72 tiles).  With fewer, `None` would not mean that there is
no way.

`SearchInv` is the invariant of a search that has gone on on one map only.  Costs fall
along the predecessors, so the trail back cannot go in a circle
(`TreeOK`, `TrailIsWay`); a tile that was reached is closed or on the heap
(`HeapOK`), and what is next to a closed tile was reached (`EdgeOK`), so an
empty heap has been everywhere (`NothingLeft`).  Nothing in it speaks of the
heuristic: the path need not be the cheapest.  A turn takes one entry off the
heap and an expansion puts at most four on it (`Paid`), so `MaxTurns` turns are
enough.  `Ways`, against which a result is compared, is itself shown to be what
it says (`WaysAre`).

The network: the recursion of `find` has a solution (`ClimbExists`), and in a
`Forest`, where parents are less deep, it ends at the one root of a tile
(`RootIs`); compression moves no tile to another root (`CompressedRight`), and
a union gives one side the root of the other and adds the sizes (`Sized`,
`Grouped`, `UnionRight`).  Of the rows seen so far `NetworkOn` says that tiles
next to each other share a root (`Joins`) and that no root crosses a set of
tiles that is closed under neighbouring roads (`Separates`); a loop over a row
and one over the rows carry it to the whole map (`Looped`, `RowByRow`,
`RebuiltRight`).  What a way can reach is such a set (`LinkedIs`), so
the answers are those of the ways (`AnswersRight`).  The ranks only choose the
side; nothing rests on them but their type.  `NetworkKept` is then that the
network kept is the one rebuilt on the map of its version.

`NavInv` only speaks of what carries the current version.  A search in a
thread that is overtaken by a change loses `SearchInv`, and its key is out of
date from then on (`Aged`): that the key was made when the search began is all
that protects the cache.

## 8. Colony life

`ColonyLife.tla` runs the systems of `SYSTEM_ORDER` (`config/constants.py`)
that share agents, stock and event log: the clock, recruitment, what the rest
of the simulation does (`Work`, one change a tick), mortality, resources, and
the memory observer that looks at the result.  `turn` is the system to run
next.  `MemoryStore.tla` has the ring of memories as operators on a sequence.

| Variable | Code |
|---|---|
| `agents` | `state["agents"]`; the dead stay in the list, as in the code |
| `controls` | `controls`: auto, queue, target, cooldown, and the one-second gate |
| `recovery` | `ai["recovery_mode"]`, `recovery_entered_sec` |
| `stock`, `alarms`, `flow` | `resources`, the edges already reported, the flow window |
| `log` | the ring of `state["events_bus"]` |
| `memory`, `seen` | the store; the edges of the observer |
| `toll`, `unrecorded` | observations: events ever emitted; changes of the stock made without `record_resource_flow` |

| Run | Question | Instance |
|---|---|---|
| `colony` | Is anybody lost or counted twice, is starvation fair, does the flow window account for the stock, do anchors outlive the ring? | a worker and a visitor, food and wood, five ticks, two recoveries, a ring of one routine memory, a log of two events |

Five ticks are enough for the longest hold (2) to begin, to be put off by a
grace window of 2 and to end, with a birth before and a flush of the window (3)
in between.  A load is what one delivery brings; `MaxStock`, `MaxObjectives`,
`MaxWarehouses` and `MaxRecoveries` bound what `Work` may do.  No fairness is
assumed and nothing is claimed to happen.

Seen while modelling:

* A recovery whose moment of entry is missing reads as entered now in every
  pass (`mortality_system.py:65`): its grace never ends.  `StarvationFair`
  counts such recoveries apart.
* A queued recruit is spawned without a look at the cap, which may have shrunk
  since it was queued (`population_growth_system.py:199`).
* `resource_system.py:91` promises a complete breakdown of the flow; no system
  of the package records production, and refunds, recruits and deliveries
  reach the stock unrecorded (`unrecorded`).

`SpoilEvery` makes a rate of spoilage at most one in a step: where the code
could take more than there is, and record it, is out of the model.  Farms,
lumbers and quarries count as a part of `BaseCap`, as nothing here builds or
loses one.

Left out: places and names of recruits, rates per minute, the order of a
prompt (an exponential of the age), saving the store.

`ColonyProofs.tla` proves for any population, holds, grace, prices, rates and
goods (`LifeAssumption`):

* `HeadsAreCounted`: `LifeSpec => []HeadsCounted`
* `DeathsAreFair`: `LifeSpec => []StarvationFair`
* `StockIsAccounted`: `LifeSpec => []StockAccounted`
* `AnchorsOutliveRoutine`: `LifeSpec => AnchorsSurvive`

`ColonyInvariant` is the inductive conjunction, one half for the population
and one for the economy.  For the heads it says that ids are positions and
that the tolls of the log follow the births and the deaths; for starvation,
how long each living agent has starved at each turn of the tick, and how many
passes the recoveries so far may have granted (`Granted`); the agents a pass
spares are those inside the grace (`Spared`).  The memory has an invariant of
its own: the routine entries are within the capacity, so that an insertion into
a full store finds one to evict, and the entry evicted is routine
(`WorstIsRoutine`); a removal moves the rest up by one (`RemovedAt`) and no
anchor past another (`RemovalOutlived`).

## 9. Guardrails and workers

`Guardrails.tla` is the clamping layer as a function on documents of the three
guarded channels, and the schema they are validated by.  `WorkerStates.tla` is
the table of states, its triggers and the intents a state is sampled from.
`Workers.tla` has the three drivers of workers that the source has, each
called on its own; a behaviour follows one of them (`driver`).

* `harness`: the npc-policy channel commits a guarded envelope; the harness
  notices it by a counter, samples a state for every worker, and walks the
  workers to the places that match state and priorities.  The world is a line
  in half tiles, the step of the code.
* `dispatcher`: a caller writes what a worker senses, one thing at a time; a
  pass takes the first transition of the table that matches.  The worker is an
  object or a dict (`shape`); the predicates see the object (`Seen`).
* `roles`: the quota is shared out, role by role, by name.

| Run | Question | Instance |
|---|---|---|
| `workers` | Is what is committed valid and stable under the guards; do workers follow the policy in force and earn when told to harvest; is a hostile answered in every state by a worker that is an object, and by no other; do roles settle? | two workers, two of three anchors, places up to 5 half tiles apart; eight answers in and out of range; threat below and above a raid; six workers with roles, up to seven, a cooldown of 4; two decisions, two comings or goings |

Five half tiles are the longest way; `quiet` counts the ticks since anything
changed up to that.  Five to seven workers are the sizes at which the floors of
the quota and its shares first agree.  Fairness: `AssignRoles` is weakly fair,
the system runs every tick.

Seen while modelling:

* A guarded document is a fixed point of the guards up to a blank at the end
  of a text that was cut there (`AsRead` strips it, as a reader would); the
  docstring of `guardrails.py` claims an exact one.
* Under a raid the weights of `evade`, `flee` and `safety` are raised; the
  sampling turns all three into `IDLE`.  The scripted envelope's `eat` and
  `safety` do the same.
* A roll of exactly 0 picks the first intent even if its weight is 0; it is
  left out.
* The ttl of a policy is clamped and read by nobody.
* Below five workers the floors of the quota add up to more than there are,
  and roles are handed round for ever; hence the hypothesis of `RolesSettle`.
  It also starts from farmers: with other starting roles, or a caller's quota,
  donors taken in the order of their roles' names keep a hand-over alive,
  where `role_assignment_system.py:122` speaks of the fullest role.
* `worker_ai_system.py:229-233` says of workers that are objects and of those
  that are dicts (the harness keeps `asdict(Worker)`) that "both shapes are
  supported".  `tick_worker` reads and writes the fsm and the label of either,
  but the predicates of `default_triggers` (`:38-129`) read by `getattr` only.
  Of a dict they see nothing but their defaults: no hostile, no target, no
  load, no role, neither tired nor rested.  A dict worker under attack does not
  fight, one that a policy starts in `FIGHTING` is `IDLE` after the same pass,
  and it leaves `SEEKING_HARVEST`, `DELIVERING` and `SEEKING_BUILD` at once for
  want of a target.  `FightAsHostile` states what holds of either shape.
* In the dispatcher a worker without a target goes from `IDLE` to
  `SEEKING_HARVEST` and back, and `SEEKING_REST` has no way out but arrival.

Left out: the steering notes, a caller's own quota, statistics, jitter (it
stays inside the half tile).

`WorkersProofs.tla` proves for any workers, anchors and answers
(`WorkersAssumption`; an answer is a document whose numbers are integers or
missing, `IsDocument`, and `Distance` bounds the way between two places):

* `FightsAreHostile`: `Spec => []FightAsHostile`, for workers of both shapes
* `PoliciesAreFollowed`: `Spec => []PolicyFollowed`
* `OrdersPay`: `Spec => []HarvestPays`
* `GuardsHold`: `Spec => []GuardHolds`, for every document, not only the eight
* `RolesFill`: `Spec => PassesFill`, for any finite staff and any cooldown: a
  pass moves only who was not moved lately, leaves no role with more workers
  than it had unless its quota has room for them, and moves nobody once the
  quota is met

`OrdersPay` is a promise about time, made inductive by a measure: the way that
is left to a worker is no longer than the ticks that are left (`OnTheWay`), on
a map where nothing is further away than `Distance` (`OnTheMap`).
`WorkersInvariant` is the conjunction.

`RolesFill` is the safe half of `RolesSettle`.  A pass is six promotions
(`PassIs`), and what one may do (`Filled`) composes.  A role takes no more than
it lacks because the donors stand in a line: each has its own number of donors
before it (`DonorsInLine`), and those taken have one below the lack
(`TakenBounded`, an injection).  That the quota is ever met is liveness, TLC's.

## 10. Campaigns

`Campaign.tla` is `src/tools/matrix_runner.py`: tasks of one asyncio loop run
the experiment of `cli/benchmark_paper.py` (fallback, oracle, agent, each
plugin after the other) and write a file per cell.  In process, the model of a
cell reaches its agent through `OPENAI_MODEL`, set under a lock and read after
two awaited stages; in a child it is the child's own.  A step is what a task
does between two awaits; `write_text` is a truncation and a write.

| Variable | Code |
|---|---|
| `runner`, `options` | the process; its command line |
| `env`, `before` | `OPENAI_MODEL` now and when the runner started |
| `task`, `result` | per cell: where `_run_one` is; its `CellResult` |
| `file` | per cell: how much of it is on disk, and from which model |
| `summary` | `cell_status` of the last aggregation |

| Run | Question | Instance |
|---|---|---|
| `campaign` | Do rows come from the right model, is the environment put back, is what is reported on disk, does a campaign end with every cell counted? | three cells of two models, two at a time, one plugin, two starts in any mode, two faults (a cell that raises before it holds the lock or while it does, a full disk), crashes |

Three cells and two places make one wait for the semaphore while another waits
for the lock.  A crash takes the children along and may tear the files being
written.  Fairness: tasks and the aggregation proceed; nobody has to start a
campaign, and one may crash.

Seen while modelling: a cell file that a crash has torn counts as done when
the campaign is resumed with `--skip-completed` (`matrix_runner.py:285` looks
at the size only, `:35` has completed cells skipped), and its rows are
aggregated as they are; `ReportedIsThere` therefore asks for a whole file of
the cells run, and for some rows of the cells skipped.  A plugin that raises
scores zero in silence (`seed_matrix.py:196`).

`CampaignProofs.tla` proves for any cells, models, plugins and places
(`CampaignAssumption`):

* `RowsAreOfTheirModel`: `CampaignSpec => []RightModel`
* `EnvironmentIsRestored`: `CampaignSpec => []EnvRestored`
* `ReportsAreTrue`: `CampaignSpec => []ReportedIsThere`
* `CellsAreCounted`: `CampaignSpec => []EveryCellCounted`, the safe half of
  `CampaignEnds`

`CampaignInvariant` is inductive with `Lock`: in process at most one cell is
inside its run, the environment is its model's as long as it is and the old
one otherwise, and the value it is going to put back is the one from before.
`AgentBuilt` says that no row is written before an agent exists, and
`ResultFinal` that a cell with a result takes no further step.  The count goes
through `DoneHasResult` and `OverIsDone`: a campaign that is over has a result
for each of its cells, and three disjoint sets of them add up (`ThreeCounts`).
That a campaign ends is liveness, TLC's.

## 11. Not modelled

* **Prompts**, the world summary: text.
* **Movement** (boids, spatial hash), tile yields, **scoring and dimensions**:
  arithmetic on reals without a guard that other components wait for.
* **Scenarios and grid generation**: one pure function of a seed and a
  floating-point noise.
* **Baselines**: rules from a state to a document; the channels take any.
* **Path failures** (`path_fail_blacklist.py`): nothing in the package asks it.
* **Crisis injection, tracing, telemetry, audits, figures**: they read, or
  write what `Work` and `WorldChanges` already allow.

Proved for all constants: the theorems of sections 3 to 10, on every safety
invariant and every action property of the passing runs, and the refinement of
section 3.  Checked by TLC only, on the instances above: liveness under
fairness, whose `ENABLED` the prover does not handle.
