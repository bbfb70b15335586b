--------------------------- MODULE DecisionProofs ---------------------------
(***************************************************************************)
(* The decision channels for every configuration, cadence, stream of       *)
(* answers and history of the world.  Their statistics add up: inductive   *)
(* given the types, as each way a request can end adds the same amounts to *)
(* both sides of every equation.  And what they decided is fresh between   *)
(* two ticks, which becomes inductive when the turn is opened up.          *)
(***************************************************************************)
EXTENDS DecisionChannels, TLAPS

IInv == ChannelsTypeOK /\ StatsAddUp

\* An answer of any kind has one of three sources (Result).
LEMMA EndingsTyped ==
  ASSUME NEW r \in Endings
  PROVE  /\ r.source \in {"llm", "guarded", "fallback"}
         /\ r.error \in BOOLEAN
         /\ r.error => r.source # "llm"
<1>1. CASE r = Scripted
  BY <1>1 DEF Scripted
<1>2. CASE \E o \in Outcomes : r = Result[o]
  <2>1. PICK o \in Outcomes : r = Result[o]
    BY <1>2
  <2>2. o \in {"raises", "declined", "failed", "malformed", "valid"}
    BY ChannelsAssumption DEF Result
  <2>3. CASE o = "raises"
    BY <2>1, <2>3 DEF Result
  <2>4. CASE o = "declined"
    BY <2>1, <2>4 DEF Result
  <2>5. CASE o = "failed"
    BY <2>1, <2>5 DEF Result
  <2>6. CASE o = "malformed"
    BY <2>1, <2>6 DEF Result
  <2>7. CASE o = "valid"
    BY <2>1, <2>7 DEF Result
  <2>8. QED
    BY <2>2, <2>3, <2>4, <2>5, <2>6, <2>7
<1>3. QED
  BY <1>1, <1>2 DEF Endings

\* A decision keeps the books balanced, on whichever channel and however
\* the request ended (_commit_..., _record_request, _record_response).
LEMMA CommitBalances ==
  ASSUME IInv, NEW c \in Channels, NEW r \in Endings, Commit(c, r),
         probes' = probes
  PROVE  /\ decisions' \in [Channels -> Nat]
         /\ llmDecisions' \in [Channels -> Nat]
         /\ stats' \in StatsType
         /\ StatsAddUp'
<1> USE DEF IInv, ChannelsTypeOK
<1>1. /\ r.source \in {"llm", "guarded", "fallback"}
      /\ r.error \in BOOLEAN
      /\ r.error => r.source # "llm"
  BY EndingsTyped
<1>2. /\ decisions' \in [Channels -> Nat]
      /\ Total(decisions') = Total(decisions) + 1
  BY DEF Commit, Total, Channels
<1>3. CASE r.source = "fallback"
  <2>1. /\ llmDecisions' \in [Channels -> Nat]
        /\ Total(llmDecisions') = Total(llmDecisions)
        /\ \A d \in Channels : llmDecisions'[d] <= decisions'[d]
    BY <1>3 DEF Commit, Total, Channels, StatsAddUp
  <2>2. stats' = [requests  |-> stats.requests + 1,
                  responses |-> stats.responses + 1,
                  llm       |-> stats.llm,
                  fallback  |-> stats.fallback + 1,
                  errors    |-> IF r.error THEN stats.errors + 1
                                           ELSE stats.errors,
                  streak    |-> stats.streak + 1]
    BY <1>3 DEF Commit, Counted
  <2>3. QED
    BY <1>2, <2>1, <2>2 DEF StatsAddUp, StatsType, Total, Channels
<1>4. CASE r.source # "fallback"
  <2>1. /\ llmDecisions' \in [Channels -> Nat]
        /\ Total(llmDecisions') = Total(llmDecisions) + 1
        /\ \A d \in Channels : llmDecisions'[d] <= decisions'[d]
    BY <1>4 DEF Commit, Total, Channels, StatsAddUp
  <2>2. CASE r.source = "llm"
    <3>1. stats' = [requests  |-> stats.requests + 1,
                    responses |-> stats.responses + 1,
                    llm       |-> stats.llm + 1,
                    fallback  |-> stats.fallback,
                    errors    |-> stats.errors,
                    streak    |-> 0]
      BY <1>1, <2>2 DEF Commit, Counted
    <3>2. QED
      BY <1>2, <2>1, <3>1 DEF StatsAddUp, StatsType, Total, Channels
  <2>3. CASE r.source = "guarded"
    <3>1. stats' = [requests  |-> stats.requests + 1,
                    responses |-> stats.responses + 1,
                    llm       |-> stats.llm,
                    fallback  |-> stats.fallback + 1,
                    errors    |-> IF r.error THEN stats.errors + 1
                                             ELSE stats.errors,
                    streak    |-> stats.streak + 1]
      BY <2>3 DEF Commit, Counted
    <3>2. QED
      BY <1>2, <2>1, <3>1 DEF StatsAddUp, StatsType, Total, Channels
  <2>4. QED
    BY <1>1, <1>4, <2>2, <2>3
<1>5. QED
  BY <1>3, <1>4

\* A timer stays within its horizon when time passes.
LEMMA LaterInRange ==
  ASSUME NEW cap \in Nat, NEW a \in 0 .. cap
  PROVE  Later(a, cap) \in 0 .. cap
  BY DEF Later

LEMMA HorizonNat == \A t \in Timers : Horizon[t] \in Nat
  BY ChannelsAssumption DEF Timers, Horizon, Interval

LEMMA InitEstablishes == ChannelsInit => IInv
<1> SUFFICES ASSUME ChannelsInit PROVE IInv
  OBVIOUS
<1>1. ChannelsTypeOK
  <2>1. turn \in Turns /\ config \in ConfigType
        /\ runMode \in {"unset", "llm", "LLM", "fallback"}
    BY ChannelsAssumption DEF ChannelsInit, SchedulerInit, Turns
  <2>2. /\ age \in [Timers -> Int]
        /\ \A t \in Timers : age[t] \in {None} \union 0 .. Horizon[t]
        /\ stalledFor \in {None} \union 0 .. PlanStall
    BY DEF ChannelsInit, None
  <2>3. /\ planned \in BOOLEAN
        /\ decisions \in [Channels -> Nat]
        /\ llmDecisions \in [Channels -> Nat]
        /\ stats \in StatsType
        /\ probes \in Nat
    BY DEF ChannelsInit, NoStats, StatsType
  <2>4. QED
    BY <2>1, <2>2, <2>3 DEF ChannelsTypeOK
<1>2. StatsAddUp
  BY DEF ChannelsInit, StatsAddUp, Total, NoStats, Channels
<1>3. QED
  BY <1>1, <1>2 DEF IInv

----------------------------------------------------------------------------
\* One lemma per system of the tick.

LEMMA TickKeeps == IInv /\ ChannelsTick => IInv'
<1> SUFFICES ASSUME IInv, ChannelsTick PROVE IInv'
  OBVIOUS
<1> USE DEF IInv, ChannelsTypeOK
<1>1. \A t \in Timers : age'[t] \in {None} \union 0 .. Horizon[t]
  <2> SUFFICES ASSUME NEW t \in Timers
               PROVE  age'[t] \in {None} \union 0 .. Horizon[t]
    OBVIOUS
  <2>1. age'[t] = IF age[t] = None THEN None ELSE Later(age[t], Horizon[t])
    BY DEF ChannelsTick
  <2>2. Horizon[t] \in Nat
    BY HorizonNat
  <2>3. QED
    BY <2>1, <2>2, LaterInRange
<1>2. age' \in [Timers -> Int]
  <2>1. \A t \in Timers : age'[t] \in Int
    BY <1>1, HorizonNat DEF None
  <2>2. QED
    BY <2>1 DEF ChannelsTick
<1>3. stalledFor' \in {None} \union 0 .. PlanStall
  BY LaterInRange, ChannelsAssumption DEF ChannelsTick
<1>4. QED
  BY <1>1, <1>2, <1>3 DEF ChannelsTick, Turns, StatsAddUp

LEMMA ProbeKeeps == IInv /\ (Probe \/ ProbeRaises \/ NoProbe) => IInv'
<1> SUFFICES ASSUME IInv, Probe \/ ProbeRaises \/ NoProbe PROVE IInv'
  OBVIOUS
<1> USE DEF IInv, ChannelsTypeOK
<1>1. CASE Probe
  <2>1. PICK n \in {0, 1} :
          stats' = [requests |-> stats.requests + 1,
                    responses |-> stats.responses + 1,
                    llm |-> stats.llm + n, fallback |-> stats.fallback + 1 - n,
                    errors |-> stats.errors, streak |-> stats.streak]
    BY <1>1 DEF Probe
  <2>2. stats' \in StatsType
    BY <2>1 DEF StatsType
  <2>3. /\ UNCHANGED <<config, runMode, age, stalledFor, planned, decisions,
                       llmDecisions>>
        /\ probes' = probes + 1 /\ turn' \in Turns
    BY <1>1 DEF Probe, Turns, Channels
  <2>4. StatsAddUp'
    BY <2>1, <2>3 DEF StatsAddUp, StatsType, Total, Channels
  <2>5. QED
    BY <2>2, <2>3, <2>4
<1>2. CASE ProbeRaises
  BY <1>2 DEF ProbeRaises, StatsAddUp, StatsType, Total, Turns, Channels
<1>3. CASE NoProbe
  BY <1>3 DEF NoProbe, channelVars, StatsAddUp, Total, Turns, Channels
<1>4. QED
  BY <1>1, <1>2, <1>3

\* A timer that is reset, as its system runs, is in range.
LEMMA ResetInRange ==
  ASSUME IInv, NEW t \in Timers, age' = [age EXCEPT ![t] = 0]
  PROVE  /\ age' \in [Timers -> Int]
         /\ \A u \in Timers : age'[u] \in {None} \union 0 .. Horizon[u]
<1>1. age' \in [Timers -> Int]
  BY DEF IInv, ChannelsTypeOK
<1>2. \A u \in Timers : age'[u] \in {None} \union 0 .. Horizon[u]
  BY HorizonNat DEF IInv, ChannelsTypeOK
<1>3. QED
  BY <1>1, <1>2

LEMMA TimedKeeps ==
  ASSUME IInv, NEW c \in {"environment", "policy"}, TimedUpdate(c)
  PROVE  IInv'
<1> USE DEF IInv, ChannelsTypeOK
<1>1. c \in Channels /\ c \in Timers
  BY DEF Channels, Timers
<1>2. PICK r \in Endings : Commit(c, r)
  BY DEF TimedUpdate
<1>3. /\ decisions' \in [Channels -> Nat] /\ llmDecisions' \in [Channels -> Nat]
      /\ stats' \in StatsType /\ StatsAddUp'
  BY <1>1, <1>2, CommitBalances DEF TimedUpdate
<1>4. /\ age' \in [Timers -> Int]
      /\ \A u \in Timers : age'[u] \in {None} \union 0 .. Horizon[u]
  BY <1>1, ResetInRange DEF TimedUpdate
<1>5. turn' \in Turns
  BY DEF TimedUpdate, After, Turns, Channels
<1>6. QED
  BY <1>3, <1>4, <1>5 DEF TimedUpdate

LEMMA StrategyKeeps == IInv /\ StrategyUpdate => IInv'
<1> SUFFICES ASSUME IInv, StrategyUpdate PROVE IInv'
  OBVIOUS
<1> USE DEF IInv, ChannelsTypeOK
<1>1. PICK r \in Endings : Commit("strategy", r)
  BY DEF StrategyUpdate
<1>2. /\ decisions' \in [Channels -> Nat] /\ llmDecisions' \in [Channels -> Nat]
      /\ stats' \in StatsType /\ StatsAddUp'
  BY <1>1, CommitBalances DEF StrategyUpdate, Channels
<1>3. turn' \in Turns
  BY DEF StrategyUpdate, After, Turns, Channels
<1>4. QED
  BY <1>2, <1>3 DEF StrategyUpdate

LEMMA ColonyKeeps == IInv /\ ColonyUpdate => IInv'
<1> SUFFICES ASSUME IInv, ColonyUpdate PROVE IInv'
  OBVIOUS
<1> USE DEF IInv, ChannelsTypeOK
<1>1. PICK r \in Endings : /\ Commit("colony", r)
                           /\ \/ planned' = TRUE
                              \/ r.source = "llm" /\ planned' = FALSE
  BY DEF ColonyUpdate
<1>2. /\ decisions' \in [Channels -> Nat] /\ llmDecisions' \in [Channels -> Nat]
      /\ stats' \in StatsType /\ StatsAddUp'
  BY <1>1, CommitBalances DEF ColonyUpdate, Channels
<1>3. /\ age' \in [Timers -> Int]
      /\ \A u \in Timers : age'[u] \in {None} \union 0 .. Horizon[u]
  BY ResetInRange DEF ColonyUpdate, Timers
<1>4. /\ turn' \in Turns
      /\ planned' \in BOOLEAN
      /\ stalledFor' \in {None} \union 0 .. PlanStall
  BY <1>1 DEF ColonyUpdate, After, Turns, Channels
<1>5. QED
  BY <1>2, <1>3, <1>4 DEF ColonyUpdate

LEMMA DirectorKeeps == IInv /\ DirectorUpdate => IInv'
<1> SUFFICES ASSUME IInv, DirectorUpdate PROVE IInv'
  OBVIOUS
<1> USE DEF IInv, ChannelsTypeOK
<1>1. /\ age' \in [Timers -> Int]
      /\ \A u \in Timers : age'[u] \in {None} \union 0 .. Horizon[u]
  BY ResetInRange DEF DirectorUpdate, Timers
<1>2. turn' \in Turns /\ runMode' \in {"unset", "llm", "LLM", "fallback"}
  BY DEF DirectorUpdate, After, Turns
<1>3. QED
  BY <1>1, <1>2 DEF DirectorUpdate, StatsAddUp

\* A closed gate and the stall timer leave the books alone.
LEMMA RestKeeps ==
  IInv /\ (\/ \E c \in Channels \union {"director"} : Pass(c)
           \/ MarkPlanStalled \/ ClearPlanStall
           \/ UNCHANGED vars) => IInv'
<1> SUFFICES ASSUME IInv,
                    \/ \E c \in Channels \union {"director"} : Pass(c)
                    \/ MarkPlanStalled \/ ClearPlanStall
                    \/ UNCHANGED vars
             PROVE  IInv'
  OBVIOUS
<1> USE DEF IInv, ChannelsTypeOK, StatsAddUp
<1>1. CASE \E c \in Channels \union {"director"} : Pass(c)
  BY <1>1 DEF Pass, channelVars, After, Turns, Channels
<1>2. CASE MarkPlanStalled
  BY <1>2, ChannelsAssumption DEF MarkPlanStalled, schedulerVars
<1>3. CASE ClearPlanStall
  BY <1>3 DEF ClearPlanStall, schedulerVars
<1>4. CASE UNCHANGED vars
  BY <1>4 DEF vars, schedulerVars, channelVars
<1>5. QED
  BY <1>1, <1>2, <1>3, <1>4

LEMMA StepKeeps == IInv /\ [ChannelsNext]_vars => IInv'
<1> SUFFICES ASSUME IInv, [ChannelsNext]_vars PROVE IInv'
  OBVIOUS
<1>1. CASE ChannelsTick
  BY <1>1, TickKeeps
<1>2. CASE Probe \/ ProbeRaises \/ NoProbe
  BY <1>2, ProbeKeeps
<1>3. CASE EnvironmentUpdate \/ PolicyUpdate
  BY <1>3, TimedKeeps DEF EnvironmentUpdate, PolicyUpdate
<1>4. CASE StrategyUpdate
  BY <1>4, StrategyKeeps
<1>5. CASE ColonyUpdate
  BY <1>5, ColonyKeeps
<1>6. CASE DirectorUpdate
  BY <1>6, DirectorKeeps
<1>7. CASE \/ PassEnvironment \/ PassPolicy \/ PassStrategy \/ PassColony
           \/ PassDirector
  <2>1. \E c \in Channels \union {"director"} : Pass(c)
    BY <1>7 DEF PassEnvironment, PassPolicy, PassStrategy, PassColony,
                PassDirector, Channels
  <2>2. QED
    BY <2>1, RestKeeps
<1>8. CASE MarkPlanStalled \/ ClearPlanStall \/ UNCHANGED vars
  BY <1>8, RestKeeps
<1>9. QED
  BY <1>1, <1>2, <1>3, <1>4, <1>5, <1>6, <1>7, <1>8 DEF ChannelsNext

\* The channels, the probe and the director keep their types.
THEOREM ChannelsTypeCorrect == ChannelsSpec => []ChannelsTypeOK
<1>1. IInv => ChannelsTypeOK
  BY DEF IInv
<1>2. QED
  BY <1>1, InitEstablishes, StepKeeps, PTL DEF ChannelsSpec

\* Requests, responses and decisions of all channels always add up.
THEOREM StatsAlwaysAddUp == ChannelsSpec => []StatsAddUp
<1>1. IInv => StatsAddUp
  BY DEF IInv
<1>2. QED
  BY <1>1, InitEstablishes, StepKeeps, PTL DEF ChannelsSpec

(***************************************************************************)
(* Cadence.  Within a tick the channels decide one after the other, so     *)
(* what holds between two ticks holds of a channel from its own turn on:   *)
(* these are the properties of DecisionChannels with the turn opened up.   *)
(***************************************************************************)
Fresh(t) == age[t] = None \/ age[t] < Interval[t]

DecidedFresh ==
  ~ ProbeMayRaise =>
    /\ turn \in {"policy", "strategy", "colony", "director", "world"} => Fresh("environment")
    /\ turn \in {"strategy", "colony", "director", "world"} => Fresh("policy")
    /\ turn \in {"director", "world"} => Fresh("colony") /\ (PlanStalled => age["colony"] = 0)

\* The plan knows of all crises and news, but for those of the cooldown.
PlanAnswers ==
  /\ sinceDecision < Heartbeat
  /\ crises # {} \/ News => sinceDecision < Cooldown

PlanUpToDate ==
  ~ ProbeMayRaise /\ turn \in {"colony", "director", "world"} /\ phase = "active" /\ initialized
    => PlanAnswers

WorldTypeOK ==
  /\ phase \in Phases
  /\ deaths \in Nat
  /\ prosperity \in Int
  /\ sinceDecision \in Nat

CadenceInv == WorldTypeOK /\ DecidedFresh /\ PlanUpToDate

LEMMA InitFresh == ChannelsInit => CadenceInv
  BY SchedulerAssumption DEF ChannelsInit, SchedulerInit, CadenceInv, WorldTypeOK, Phases,
     DecidedFresh, Fresh, Timers, PlanStalled, PlanUpToDate

LEMMA IntervalNat ==
  /\ Interval["environment"] \in Nat \ {0}
  /\ Interval["policy"] \in Nat \ {0}
  /\ Interval["colony"] \in Nat \ {0}
  BY ChannelsAssumption DEF Interval

\* A tick begins: nobody has decided yet.
LEMMA TickFresh == CadenceInv /\ ChannelsTick => CadenceInv'
<1> SUFFICES ASSUME CadenceInv, ChannelsTick PROVE CadenceInv'
  OBVIOUS
<1>1. turn' = "probe"
  BY DEF ChannelsTick
<1>2. WorldTypeOK'
  BY SchedulerAssumption
     DEF CadenceInv, WorldTypeOK, ChannelsTick, WorldChanges, Later
<1>3. QED
  BY <1>1, <1>2 DEF CadenceInv, DecidedFresh, PlanUpToDate

LEMMA ProbeFresh == CadenceInv /\ (Probe \/ ProbeRaises \/ NoProbe) => CadenceInv'
<1> SUFFICES ASSUME CadenceInv, Probe \/ ProbeRaises \/ NoProbe PROVE CadenceInv'
  OBVIOUS
<1>1. WorldTypeOK'
  BY DEF CadenceInv, WorldTypeOK, Probe, ProbeRaises, NoProbe, worldVars
<1>2. CASE ProbeRaises
  <2>1. ProbeMayRaise'
    BY <1>2 DEF ProbeRaises, ProbeMayRaise
  <2>2. QED
    BY <1>1, <2>1 DEF CadenceInv, DecidedFresh, PlanUpToDate
<1>3. CASE Probe \/ NoProbe
  <2>1. turn' = "environment"
    BY <1>3 DEF Probe, NoProbe
  <2>2. QED
    BY <1>1, <2>1 DEF CadenceInv, DecidedFresh, PlanUpToDate
<1>4. QED
  BY <1>2, <1>3

\* Of a system that leaves the scheduler alone, what it has to show: that from
\* its turn on its own channel is fresh, with the others as they were.
LEMMA OthersStay ==
  ASSUME CadenceInv, NEW c \in {"environment", "policy", "colony", "director"},
         turn = c, turn' = After[c],
         UNCHANGED <<worldVars, sinceDecision, snapshotVars, config>>,
         \A t \in {"environment", "policy"} :
           IF t = c THEN Fresh(t)' ELSE age'[t] = age[t],
         IF c = "colony" THEN Fresh("colony")' /\ (PlanStalled => age["colony"] = 0)'
         ELSE age'["colony"] = age["colony"] /\ UNCHANGED <<stalledFor, planned>>
  PROVE  CadenceInv'
<1>1. WorldTypeOK'
  BY DEF CadenceInv, WorldTypeOK, worldVars
<1>2. ProbeMayRaise' = ProbeMayRaise
  BY DEF ProbeMayRaise
<1>3. DecidedFresh'
  BY <1>2 DEF CadenceInv, DecidedFresh, Fresh, After, PlanStalled
<1>4. PlanUpToDate'
  BY <1>2 DEF CadenceInv, PlanUpToDate, PlanAnswers, News, ProsperityMoved, worldVars, snapshotVars, After
<1>5. QED
  BY <1>1, <1>3, <1>4 DEF CadenceInv

LEMMA TimedFresh ==
  ASSUME IInv, CadenceInv, NEW c \in {"environment", "policy"},
         TimedUpdate(c) \/ (~ Due(c) /\ Pass(c))
  PROVE  CadenceInv'
<1>1. CASE TimedUpdate(c)
  <2>1. age' = [age EXCEPT ![c] = 0]
    BY <1>1 DEF TimedUpdate
  <2>2. Fresh(c)' /\ \A t \in Timers \ {c} : age'[t] = age[t]
    BY <2>1, IntervalNat DEF Fresh, IInv, ChannelsTypeOK, Timers, None
  <2>3. QED
    BY <1>1, <2>2, OthersStay DEF TimedUpdate, Timers
<1>2. CASE ~ Due(c) /\ Pass(c)
  <2>1. Fresh(c)
    BY <1>2, IntervalNat DEF Due, Fresh, IInv, ChannelsTypeOK, Timers, None
  <2>2. Fresh(c)' /\ UNCHANGED <<age, stalledFor, planned>>
    BY <1>2, <2>1 DEF Pass, channelVars, Fresh
  <2>3. QED
    BY <1>2, <2>2, OthersStay DEF Pass, channelVars
<1>3. QED
  BY <1>1, <1>2

\* The strategic plan is made, and then it knows of everything; or its gate is
\* closed, and then there is nothing it does not know of, or the cooldown holds.
LEMMA StrategyFresh ==
  ASSUME CadenceInv, StrategyUpdate \/ (~ ShouldTrigger /\ Pass("strategy"))
  PROVE  CadenceInv'
<1>1. turn' = "colony" /\ UNCHANGED <<worldVars, config, age, stalledFor, planned>>
  BY DEF StrategyUpdate, Pass, After, channelVars
<1>2. WorldTypeOK'
  BY <1>1 DEF CadenceInv, WorldTypeOK, worldVars, StrategyUpdate, RecordDecision, Pass
<1>3. DecidedFresh'
  BY <1>1 DEF CadenceInv, DecidedFresh, Fresh, ProbeMayRaise, StrategyUpdate, Pass
<1>4. PlanUpToDate'
  <2>1. CASE StrategyUpdate
    <3>1. sinceDecision' = 0 /\ ~ News'
      BY <1>1, <2>1 DEF StrategyUpdate, RecordDecision, News, ProsperityMoved, worldVars,
         CadenceInv, WorldTypeOK
    <3>2. QED
      BY <3>1, SchedulerAssumption DEF PlanUpToDate, PlanAnswers
  <2>2. CASE ~ ShouldTrigger /\ Pass("strategy")
    <3>1. phase = "active" /\ initialized => PlanAnswers
      BY <2>2, SchedulerAssumption DEF ShouldTrigger, PlanAnswers, CadenceInv, WorldTypeOK
    <3>2. UNCHANGED <<phase, initialized>> /\ (PlanAnswers => PlanAnswers')
      BY <2>2 DEF Pass, PlanAnswers, News, ProsperityMoved, worldVars, snapshotVars
    <3>3. QED
      BY <3>1, <3>2 DEF PlanUpToDate
  <2>3. QED
    BY <2>1, <2>2
<1>5. QED
  BY <1>2, <1>3, <1>4 DEF CadenceInv

LEMMA ColonyFresh ==
  ASSUME IInv, CadenceInv, ColonyUpdate \/ (~ ColonyGate /\ Pass("colony"))
  PROVE  CadenceInv'
<1> USE DEF IInv, ChannelsTypeOK
<1>1. CASE ColonyUpdate
  <2>1. age' = [age EXCEPT !["colony"] = 0]
    BY <1>1 DEF ColonyUpdate
  <2>2. /\ age'["colony"] = 0 /\ Fresh("colony")'
        /\ age'["environment"] = age["environment"] /\ age'["policy"] = age["policy"]
    BY <2>1, IntervalNat DEF Fresh, Timers
  <2>3. QED
    BY <1>1, <2>2, OthersStay DEF ColonyUpdate
<1>2. CASE ~ ColonyGate /\ Pass("colony")
  <2>1. Fresh("colony") /\ ~ PlanStalled
    BY <1>2, IntervalNat DEF ColonyGate, Due, Fresh, Timers, None
  <2>2. Fresh("colony")' /\ ~ PlanStalled' /\ UNCHANGED age
    BY <1>2, <2>1 DEF Pass, channelVars, Fresh, PlanStalled
  <2>3. QED
    BY <1>2, <2>2, OthersStay DEF Pass, channelVars
<1>3. QED
  BY <1>1, <1>2

LEMMA DirectorFresh ==
  ASSUME IInv, CadenceInv, DirectorUpdate \/ Pass("director")
  PROVE  CadenceInv'
<1>1. \A t \in {"environment", "policy", "colony"} : age'[t] = age[t]
  BY DEF DirectorUpdate, Pass, channelVars, IInv, ChannelsTypeOK, Timers
<1>2. UNCHANGED <<stalledFor, planned, config>>
  BY DEF DirectorUpdate, Pass, channelVars
<1>3. QED
  BY <1>1, <1>2, OthersStay DEF DirectorUpdate, Pass

\* A stall that begins is no stalled plan yet, one that is cleared none any more.
LEMMA StallFresh ==
  ASSUME CadenceInv, MarkPlanStalled \/ ClearPlanStall
  PROVE  CadenceInv'
<1>1. UNCHANGED <<schedulerVars, config, age>> /\ ~ PlanStalled'
  BY ChannelsAssumption DEF MarkPlanStalled, ClearPlanStall, PlanStalled, None
<1>2. WorldTypeOK' /\ PlanUpToDate'
  BY <1>1 DEF CadenceInv, WorldTypeOK, PlanUpToDate, PlanAnswers, News, ProsperityMoved,
     ProbeMayRaise, schedulerVars, worldVars, snapshotVars
<1>3. DecidedFresh'
  BY <1>1 DEF CadenceInv, DecidedFresh, Fresh, ProbeMayRaise, schedulerVars
<1>4. QED
  BY <1>2, <1>3 DEF CadenceInv

LEMMA NextFresh == IInv /\ CadenceInv /\ [ChannelsNext]_vars => CadenceInv'
<1> SUFFICES ASSUME IInv, CadenceInv, [ChannelsNext]_vars PROVE CadenceInv'
  OBVIOUS
<1>1. CASE UNCHANGED vars
  BY <1>1 DEF vars, schedulerVars, channelVars, worldVars, snapshotVars, CadenceInv, WorldTypeOK,
     DecidedFresh, Fresh, PlanStalled, PlanUpToDate, PlanAnswers, News, ProsperityMoved, ProbeMayRaise
<1>2. QED
  BY <1>1, TickFresh, ProbeFresh, TimedFresh, StrategyFresh, ColonyFresh, DirectorFresh, StallFresh
     DEF ChannelsNext, EnvironmentUpdate, PolicyUpdate, PassEnvironment, PassPolicy, PassStrategy,
         PassColony, PassDirector

\* The invariant of the cadence holds together with that of the books.
THEOREM CadenceKept == ChannelsSpec => [](IInv /\ CadenceInv)
  BY InitEstablishes, StepKeeps, InitFresh, NextFresh, PTL DEF ChannelsSpec

\* Between two ticks no channel holds a decision older than its cadence, and no
\* stalled plan is left standing but one just made (the gates of the channels),
\* for every wiring and cadence and however the requests end.
THEOREM DecisionsStayFresh == ChannelsSpec => []DecisionsFresh
<1>1. CadenceInv => DecisionsFresh
  BY DEF CadenceInv, DecidedFresh, DecisionsFresh, Fresh, Timers
<1>2. QED
  BY <1>1, CadenceKept, PTL

\* An active session has no plan as old as a heartbeat, nor a crisis or news
\* that the plan does not know of and the cooldown does not excuse, for every
\* course the world may take (should_trigger, record_decision).
THEOREM NewsIsAnswered == ChannelsSpec => []NewsAnswered
<1>1. CadenceInv => NewsAnswered
  BY DEF CadenceInv, PlanUpToDate, PlanAnswers, NewsAnswered
<1>2. QED
  BY <1>1, CadenceKept, PTL

=============================================================================
