---------------------------- MODULE EventDirector ----------------------------
(***************************************************************************)
(* The scheduler that queues an event at a fixed cadence                   *)
(* (simulation/meta/event_director_system.py) together with the system     *)
(* that runs the events (WorldEvents).  In a tick the director comes       *)
(* first, then the weather is ticked (Weather), then the events are.       *)
(* Between two ticks the colony may gain or lose its farms, and a caller   *)
(* may queue an event of its own.                                          *)
(***************************************************************************)
EXTENDS WorldEvents

CONSTANTS
  BaseInterval,       \* base_interval_sec
  BootInterval,       \* ... times 2.5
  BootstrapWindow,    \* the time until which a colony without farms is spared
  DirectorIntensity,  \* tuning: intensity of what it queues
  MaxTime             \* bound: the clock

ASSUME DirectorAssumption ==
  /\ BaseInterval \in Nat \ {0}
  /\ BootInterval \in Nat
  /\ BootInterval >= BaseInterval
  /\ BootstrapWindow \in Nat
  /\ DirectorIntensity \in Nat
  /\ MaxTime \in Nat

VARIABLES
  now,            \* metrics["timeSec"]
  turn,           \* who acts next in a tick
  farms,          \* whether buildings["farms"] is above 0
  sinceDispatch,  \* now - last_dispatch_sec, None before the anchor
  dayBudget       \* day_budget, what was queued so far

directorVars == <<now, turn, farms, sinceDispatch, dayBudget>>

vars == <<eventVars, sky, directorVars>>

EffectiveInterval ==
  IF ~farms /\ now < BootstrapWindow THEN BootInterval ELSE BaseInterval

\* The first call only sets the clock back by half an interval.
Anchor ==
  /\ turn = "director"
  /\ sinceDispatch = None
  /\ sinceDispatch' = EffectiveInterval \div 2
  /\ turn' = "weather"
  /\ UNCHANGED <<eventVars, sky, now, farms, dayBudget>>

NotYet ==
  /\ turn = "director"
  /\ sinceDispatch # None
  /\ sinceDispatch < EffectiveInterval
  /\ turn' = "weather"
  /\ UNCHANGED <<eventVars, sky, now, farms, sinceDispatch, dayBudget>>

\* Which type is rolled is up to the generator; a raid is rolled again as
\* something else while raids are on cooldown (gameplay["last_raid_tick"] is
\* written by callers).
Dispatch(type, raidCooling) ==
  /\ turn = "director"
  /\ sinceDispatch # None
  /\ sinceDispatch >= EffectiveInterval
  /\ raidCooling => type # "banditRaid"
  /\ Queue(Prepared(type, DirectorIntensity, None, FALSE))
  /\ sinceDispatch' = 0
  /\ dayBudget' = dayBudget + 1
  /\ turn' = "weather"
  /\ UNCHANGED <<raidsRepelled, weather, scene, sky, now, farms>>

TickWeather ==
  /\ turn = "weather"
  /\ \E s \in NextSkies : sky' = s
  /\ turn' = "events"
  /\ UNCHANGED <<eventVars, now, farms, sinceDispatch, dayBudget>>

TickEvents ==
  /\ turn = "events"
  /\ EventTick(sky.type)
  /\ turn' = "idle"
  /\ UNCHANGED <<sky, now, farms, sinceDispatch, dayBudget>>

\* The clock moves on to the next tick.
BeginTick ==
  /\ turn = "idle"
  /\ now < MaxTime
  /\ now' = now + 1
  /\ sinceDispatch' = IF sinceDispatch = None THEN None ELSE sinceDispatch + 1
  /\ turn' = "director"
  /\ sky' = SkyLater
  /\ UNCHANGED <<eventVars, farms, dayBudget>>

FarmsChange ==
  /\ turn = "idle"
  /\ farms' = ~farms
  /\ UNCHANGED <<eventVars, sky, now, turn, sinceDispatch, dayBudget>>

CallerQueues(type, intensity, target, listed) ==
  /\ turn = "idle"
  /\ EnqueueEvent(type, intensity, target, listed)
  /\ UNCHANGED <<sky, directorVars>>

Init ==
  /\ EventsInit
  /\ WeatherInit
  /\ now = 0
  /\ turn = "director"
  /\ farms \in BOOLEAN
  /\ sinceDispatch = None
  /\ dayBudget = 0

Next ==
  \/ Anchor
  \/ NotYet
  \/ \E y \in EventTypes, c \in BOOLEAN : Dispatch(y, c)
  \/ TickWeather
  \/ TickEvents
  \/ BeginTick
  \/ FarmsChange
  \/ \E y \in EventTypes, n \in Intensities, a \in Pins, l \in BOOLEAN :
       CallerQueues(y, n, a, l)

Spec == Init /\ [][Next]_vars

-----------------------------------------------------------------------------
(* Properties *)

\* The queue holds an event back only while its type is at its cap: after a
\* tick no place is left idle that a waiting event could have.
NoIdlePlace ==
  [][(turn = "events" /\ turn' = "idle") =>
       \A i \in Waiting' :
         Cardinality(OfType(Started, events[i].type)') = Cap[events[i].type]]_vars

=============================================================================
