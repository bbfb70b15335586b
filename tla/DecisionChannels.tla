-------------------------- MODULE DecisionChannels --------------------------
(***************************************************************************)
(* The four decision channels, called one after the other in every tick:   *)
(* environment-director, npc-policy, strategic-plan and colony-agent.      *)
(* Each asks the adapter when its gate opens and commits whatever comes    *)
(* back, or its scripted fallback, to state["ai"]; all of them, and the    *)
(* per-tick probe of the harness, count in one record of statistics.  The  *)
(* scripted colony director shares state["ai"] with them.                  *)
(*                                                                         *)
(* As in the scheduler, times are ages: now - last...Sec.                  *)
(***************************************************************************)
EXTENDS DecisionScheduler

CONSTANTS
  EnvironmentInterval, PolicyInterval, ColonyInterval,  \* interval_sec
  PlanStall,     \* plan_stall_sec of the colony-agent channel
  EvalInterval,  \* EVAL_INTERVAL_SEC of the scripted director
  Configs,       \* how the harness may wire the run, see ConfigType
  RunModes,      \* ai["run_mode"] at the start; "unset" when absent
  Outcomes,      \* what a request to the adapter may come to
  MaxRequests    \* bound on requestCount

None == -1       \* a timer that is not running, _NEVER_SEC

Channels == {"environment", "policy", "strategy", "colony"}

Timers == {"environment", "policy", "colony", "director"}

\* With a run_mode in place, the coverage target is not consulted.
ConfigType == [enabled  : BOOLEAN,             \* ai["enabled"]
               coverage : {"llm", "fallback"}, \* ai["coverageTarget"]
               adapter  : BOOLEAN,             \* an agent_adapter is wired
               probe    : BOOLEAN,             \* _AiRuntimeFallbackSystem
               director : BOOLEAN]             \* ColonyDirectorSystem

\* What becomes of a request: the source of what is committed, and whether
\* an error is counted.  A malformed answer is repaired by the guardrails and
\* committed as "guarded", and yet counted as a fallback.
Result ==
  [raises    |-> [source |-> "fallback", error |-> TRUE],
   declined  |-> [source |-> "fallback", error |-> FALSE],
   failed    |-> [source |-> "fallback", error |-> TRUE],
   malformed |-> [source |-> "guarded",  error |-> TRUE],
   valid     |-> [source |-> "llm",      error |-> FALSE]]

Scripted == [source |-> "fallback", error |-> FALSE]

ASSUME ChannelsAssumption ==
  /\ EnvironmentInterval \in Nat \ {0}
  /\ PolicyInterval \in Nat \ {0}
  /\ ColonyInterval \in Nat \ {0}
  /\ PlanStall \in Nat \ {0}
  /\ EvalInterval \in Nat \ {0}
  /\ Configs \subseteq ConfigType
  /\ RunModes \subseteq {"unset", "llm", "LLM", "fallback"}
  /\ Outcomes \subseteq DOMAIN Result
  /\ MaxRequests \in Nat

VARIABLES
  config,       \* constant during a run
  runMode,      \* ai["run_mode"]
  age,          \* now - last...Sec per timer
  stalledFor,   \* now - colonyAgentPlanStalledSinceSec
  planned,      \* ai["colony_plan"] is not empty
  decisions,    \* ...DecisionCount per channel
  llmDecisions, \* ...LlmCount per channel
  stats,        \* metrics["ai_runtime"]
  probes        \* _AiRuntimeFallbackSystem._idx

channelVars == <<config, runMode, age, stalledFor, planned, decisions,
                 llmDecisions, stats, probes>>

vars == <<schedulerVars, channelVars>>

Interval == [environment |-> EnvironmentInterval, policy |-> PolicyInterval,
             colony |-> ColonyInterval, director |-> EvalInterval]

\* Where a timer stops counting: every comparison with it is settled.
Horizon == [Interval EXCEPT
              !["colony"] = IF @ < PlanStall THEN PlanStall ELSE @]

NoStats == [requests |-> 0, responses |-> 0, llm |-> 0, fallback |-> 0,
            errors |-> 0, streak |-> 0]

ChannelsInit ==
  /\ SchedulerInit
  /\ config \in Configs
  /\ runMode \in RunModes
  /\ age = [t \in Timers |-> None]
  /\ stalledFor = None
  /\ planned = FALSE
  /\ decisions = [c \in Channels |-> 0]
  /\ llmDecisions = [c \in Channels |-> 0]
  /\ stats = NoStats
  /\ probes = 0

WantsLlm ==
  /\ config.enabled
  /\ \/ runMode \in {"llm", "LLM"}
     \/ runMode = "unset" /\ config.coverage = "llm"

\* Fault: the comparison is strict.
DueStrict(t) == age[t] = None \/ age[t] > Interval[t]

Due(t) == age[t] = None \/ age[t] >= Interval[t]

PlanStalled == planned /\ stalledFor >= PlanStall

\* How a request may end: without the model, always in the script.
Endings ==
  IF WantsLlm /\ config.adapter THEN {Result[o] : o \in Outcomes}
                                ELSE {Scripted}

\* Fault: the answer repaired by the guardrails is not counted.
CountedUnlessGuarded(s, r) ==
  [requests  |-> s.requests + 1,
   responses |-> IF r.source = "guarded" THEN s.responses
                                         ELSE s.responses + 1,
   llm       |-> IF r.source = "llm" THEN s.llm + 1 ELSE s.llm,
   fallback  |-> IF r.source = "fallback" THEN s.fallback + 1 ELSE s.fallback,
   errors    |-> IF r.error THEN s.errors + 1 ELSE s.errors,
   streak    |-> IF r.source = "llm" THEN 0 ELSE s.streak + 1]

\* Fault: an answer of the model takes one fallback off the streak.
CountedDown(s, r) ==
  [requests  |-> s.requests + 1,
   responses |-> s.responses + 1,
   llm       |-> IF r.source = "llm" THEN s.llm + 1 ELSE s.llm,
   fallback  |-> IF r.source = "llm" THEN s.fallback ELSE s.fallback + 1,
   errors    |-> IF r.error THEN s.errors + 1 ELSE s.errors,
   streak    |-> IF r.source = "llm" THEN s.streak - 1 ELSE s.streak + 1]

\* _record_request, then _record_response.
Counted(s, r) ==
  [requests  |-> s.requests + 1,
   responses |-> s.responses + 1,
   llm       |-> IF r.source = "llm" THEN s.llm + 1 ELSE s.llm,
   fallback  |-> IF r.source = "llm" THEN s.fallback ELSE s.fallback + 1,
   errors    |-> IF r.error THEN s.errors + 1 ELSE s.errors,
   streak    |-> IF r.source = "llm" THEN 0 ELSE s.streak + 1]

\* _commit_...: whatever came back replaces the decision of the channel.
Commit(c, r) ==
  /\ decisions' = [decisions EXCEPT ![c] = @ + 1]
  /\ llmDecisions' = [llmDecisions EXCEPT
                        ![c] = IF r.source = "fallback" THEN @ ELSE @ + 1]
  /\ stats' = Counted(stats, r)

----------------------------------------------------------------------------
\* The systems of a tick, in the order of the harness.

\* The clock advances; counters are bounded here, before a tick begins.
ChannelsTick ==
  /\ turn = "world"
  /\ stats.requests + 5 <= MaxRequests
  /\ WorldChanges
  /\ age' = [t \in Timers |-> IF age[t] = None THEN None
                                               ELSE Later(age[t], Horizon[t])]
  /\ stalledFor' = IF stalledFor = None THEN None
                                        ELSE Later(stalledFor, PlanStall)
  /\ turn' = "probe"
  /\ UNCHANGED <<snapshotVars, config, runMode, planned, decisions,
                 llmDecisions, stats, probes>>

\* The probe asks the adapter once per tick and decides nothing.
Probe ==
  /\ turn = "probe"
  /\ config.probe /\ config.adapter
  /\ probes' = probes + 1
  /\ \E n \in {0, 1} :
       stats' = [requests |-> stats.requests + 1,
                 responses |-> stats.responses + 1,
                 llm |-> stats.llm + n, fallback |-> stats.fallback + 1 - n,
                 errors |-> stats.errors, streak |-> stats.streak]
  /\ turn' = "environment"
  /\ UNCHANGED <<worldVars, sinceDecision, snapshotVars, config, runMode, age,
                 stalledFor, planned, decisions, llmDecisions>>

\* An adapter that raises ends the tick: no later system runs in it.
ProbeRaises ==
  /\ turn = "probe"
  /\ config.probe /\ config.adapter
  /\ "raises" \in Outcomes
  /\ probes' = probes + 1
  /\ stats' = [stats EXCEPT !.requests = @ + 1]
  /\ turn' = "world"
  /\ UNCHANGED <<worldVars, sinceDecision, snapshotVars, config, runMode, age,
                 stalledFor, planned, decisions, llmDecisions>>

NoProbe ==
  /\ turn = "probe"
  /\ ~(config.probe /\ config.adapter)
  /\ turn' = "environment"
  /\ UNCHANGED <<worldVars, sinceDecision, snapshotVars, channelVars>>

After == [environment |-> "policy", policy |-> "strategy",
          strategy |-> "colony", colony |-> "director", director |-> "world"]

\* A system whose gate is closed.
Pass(c) ==
  /\ turn = c
  /\ turn' = After[c]
  /\ UNCHANGED <<worldVars, sinceDecision, snapshotVars, channelVars>>

\* The environment-director and npc-policy channels.
TimedUpdate(c) ==
  /\ turn = c
  /\ Due(c)
  /\ age' = [age EXCEPT ![c] = 0]
  /\ \E r \in Endings : Commit(c, r)
  /\ turn' = After[c]
  /\ UNCHANGED <<worldVars, sinceDecision, snapshotVars, config, runMode,
                 stalledFor, planned, probes>>

EnvironmentUpdate == TimedUpdate("environment")

PolicyUpdate == TimedUpdate("policy")

StrategyUpdate ==
  /\ turn = "strategy"
  /\ ShouldTrigger
  /\ \E r \in Endings : Commit("strategy", r)
  /\ RecordDecision
  /\ turn' = After["strategy"]
  /\ UNCHANGED <<worldVars, config, runMode, age, stalledFor, planned, probes>>

ColonyGate == Due("colony") \/ PlanStalled

\* The colony-agent channel is also woken by a stalled plan.  A valid answer
\* may be an empty plan; the script and a repaired answer never are.
ColonyUpdate ==
  /\ turn = "colony"
  /\ ColonyGate
  /\ age' = [age EXCEPT !["colony"] = 0]
  /\ stalledFor' = IF PlanStalled THEN None ELSE stalledFor
  /\ \E r \in Endings :
       /\ Commit("colony", r)
       /\ \/ planned' = TRUE
          \/ r.source = "llm" /\ planned' = FALSE
  /\ turn' = After["colony"]
  /\ UNCHANGED <<worldVars, sinceDecision, snapshotVars, config, runMode,
                 probes>>

\* mark_plan_stalled and clear_plan_stall, for whoever executes the plan.
MarkPlanStalled ==
  /\ turn = "world"
  /\ stalledFor = None
  /\ stalledFor' = 0
  /\ UNCHANGED <<schedulerVars, config, runMode, age, planned, decisions,
                 llmDecisions, stats, probes>>

ClearPlanStall ==
  /\ turn = "world"
  /\ stalledFor # None
  /\ stalledFor' = None
  /\ UNCHANGED <<schedulerVars, config, runMode, age, planned, decisions,
                 llmDecisions, stats, probes>>

\* Not in the driving seat: the gate in front of the script.
DirectorFree == config.director /\ runMode # "llm" /\ phase = "active"

\* The scripted director; its first run gives run_mode a default.
DirectorUpdate ==
  /\ turn = "director"
  /\ DirectorFree /\ Due("director")
  /\ age' = [age EXCEPT !["director"] = 0]
  /\ runMode' = IF runMode = "unset" THEN "fallback" ELSE runMode
  /\ turn' = After["director"]
  /\ UNCHANGED <<worldVars, sinceDecision, snapshotVars, config, stalledFor,
                 planned, decisions, llmDecisions, stats, probes>>

PassEnvironment == ~Due("environment") /\ Pass("environment")
PassPolicy == ~Due("policy") /\ Pass("policy")
PassStrategy == ~ShouldTrigger /\ Pass("strategy")
PassColony == ~ColonyGate /\ Pass("colony")
PassDirector == ~(DirectorFree /\ Due("director")) /\ Pass("director")

ChannelsNext ==
  \/ ChannelsTick
  \/ Probe \/ ProbeRaises \/ NoProbe
  \/ EnvironmentUpdate \/ PolicyUpdate \/ StrategyUpdate \/ ColonyUpdate
  \/ DirectorUpdate
  \/ PassEnvironment \/ PassPolicy \/ PassStrategy \/ PassColony
  \/ PassDirector
  \/ MarkPlanStalled \/ ClearPlanStall

ChannelsSpec == ChannelsInit /\ [][ChannelsNext]_vars

----------------------------------------------------------------------------
Turns == {"world", "probe", "director"} \union Channels

StatsType == [requests : Nat, responses : Nat, llm : Nat, fallback : Nat,
              errors : Nat, streak : Nat]

ChannelsTypeOK ==
  /\ turn \in Turns
  /\ config \in ConfigType
  /\ runMode \in {"unset", "llm", "LLM", "fallback"}
  /\ age \in [Timers -> Int]
  /\ \A t \in Timers : age[t] \in {None} \union 0 .. Horizon[t]
  /\ stalledFor \in {None} \union 0 .. PlanStall
  /\ planned \in BOOLEAN
  /\ decisions \in [Channels -> Nat]
  /\ llmDecisions \in [Channels -> Nat]
  /\ stats \in StatsType
  /\ probes \in Nat

Total(f) == f["environment"] + f["policy"] + f["strategy"] + f["colony"]

\* Four channels and the probe count in one record, at a dozen places of
\* five modules, and on every way a request can end: each request is a
\* decision or a probe; every decision was answered; an answer is the
\* model's or a fallback; and only the model's answers, or repaired ones,
\* are decisions of the model.
StatsAddUp ==
  /\ stats.requests = Total(decisions) + probes
  /\ stats.responses = stats.llm + stats.fallback
  /\ Total(decisions) <= stats.responses
  /\ stats.responses <= stats.requests
  /\ stats.llm <= Total(llmDecisions) + probes
  /\ \A c \in Channels : llmDecisions[c] <= decisions[c]
  /\ stats.streak <= stats.fallback
  /\ stats.errors <= stats.fallback

\* Between two ticks no channel holds a decision older than its cadence
\* allows, and no stalled plan is left standing but one just made, although
\* each of the four is called after the others and any request may fail.
\* Only a probe that raises keeps them from deciding.
ProbeMayRaise == config.probe /\ config.adapter /\ "raises" \in Outcomes

DecisionsFresh ==
  turn = "world" /\ ~ProbeMayRaise =>
    /\ \A t \in Timers \ {"director"} : age[t] = None \/ age[t] < Interval[t]
    /\ PlanStalled => age["colony"] = 0

\* Once the channels have run in a tick, an active session has no plan as old
\* as a heartbeat, nor a crisis or news that the plan does not know of and
\* that the cooldown no longer excuses: what came up during the cooldown is
\* neither forgotten nor taken for known (should_trigger, record_decision).
NewsAnswered ==
  turn = "world" /\ phase = "active" /\ initialized /\ ~ProbeMayRaise =>
    /\ sinceDecision < Heartbeat
    /\ crises # {} \/ News => sinceDecision < Cooldown

=============================================================================
