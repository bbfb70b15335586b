------------------------- MODULE DecisionScheduler -------------------------
(***************************************************************************)
(* The gate of the strategic-plan channel: a heartbeat, a cooldown, and    *)
(* crises and news that fire between the two.  Only differences of         *)
(* sim-time are compared, so time is the age of the last decision, which   *)
(* stops counting at Heartbeat, where every comparison is settled.         *)
(***************************************************************************)
EXTENDS Integers

CONSTANTS
  Heartbeat,     \* heartbeat_sec, in time steps
  Cooldown,      \* cooldown_sec, in time steps; 15 s wherever a scheduler is made
  Crises,        \* the crises that may arise: of workers, food, wood, threat
  Objectives,    \* values of gameplay.objectiveIndex
  Prosperities,  \* values of gameplay.prosperity
  MaxDeaths      \* bound on metrics.deathsTotal

ASSUME SchedulerAssumption ==
  /\ Heartbeat \in Nat \ {0}
  /\ Cooldown \in Nat \ {0}
  /\ Objectives \subseteq Int
  /\ Prosperities \subseteq Int
  /\ MaxDeaths \in Nat

VARIABLES
  turn,            \* the system whose update() is next in the tick
  phase,           \* session.phase
  crises,          \* the crisis conditions that hold now
  deaths,          \* metrics.deathsTotal
  objective,       \* gameplay.objectiveIndex
  prosperity,      \* gameplay.prosperity
  initialized,
  sinceDecision,   \* now - last_decision_sec, up to Heartbeat
  lastDeaths,      \* last_death_count
  lastObjective,   \* last_objective_index
  lastProsperity   \* last_prosperity

worldVars == <<phase, crises, deaths, objective, prosperity>>

snapshotVars == <<initialized, lastDeaths, lastObjective, lastProsperity>>

schedulerVars == <<turn, worldVars, sinceDecision, snapshotVars>>

Phases == {"active", "end"}

Later(age, cap) == IF age < cap THEN age + 1 ELSE age

SchedulerInit ==
  /\ turn = "world"
  /\ phase = "active"
  /\ crises = {}
  /\ deaths = 0
  /\ objective \in Objectives
  /\ prosperity \in Prosperities
  /\ initialized = FALSE
  /\ sinceDecision = 0
  /\ lastDeaths = 0
  /\ lastObjective = 0
  /\ lastProsperity = 0

\* What the rest of the simulation does between two rounds of decisions.
WorldChanges ==
  /\ phase' \in Phases
  /\ crises' \in SUBSET Crises
  /\ deaths' \in deaths .. deaths + 1
  /\ deaths' <= MaxDeaths
  /\ objective' \in Objectives
  /\ prosperity' \in Prosperities
  /\ sinceDecision' = Later(sinceDecision, Heartbeat)

ProsperityMoved ==
  \/ prosperity - lastProsperity > 15
  \/ lastProsperity - prosperity > 15

\* The significant events: what changed since the last decision.
News ==
  \/ deaths > lastDeaths
  \/ objective # lastObjective
  \/ ProsperityMoved

\* Fault: the cooldown still holds when it has just elapsed.
TriggerLate ==
  /\ phase = "active"
  /\ \/ ~initialized
     \/ sinceDecision >= Heartbeat
     \/ sinceDecision > Cooldown /\ (crises # {} \/ News)

ShouldTrigger ==
  /\ phase = "active"
  /\ \/ ~initialized
     \/ sinceDecision >= Heartbeat
     \/ sinceDecision >= Cooldown /\ (crises # {} \/ News)

RecordDecision ==
  /\ initialized' = TRUE
  /\ sinceDecision' = 0
  /\ lastDeaths' = deaths
  /\ lastObjective' = objective
  /\ lastProsperity' = prosperity

=============================================================================
