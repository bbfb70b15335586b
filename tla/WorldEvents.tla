----------------------------- MODULE WorldEvents -----------------------------
(***************************************************************************)
(* World events (world/events.py): raids, migrations and caravans wait in  *)
(* a queue, start when the cap of their type allows, run for a while and   *)
(* resolve.  Every event ever queued stays in the sequence `events', at    *)
(* the index that is the number in its id: the queue are those of status   *)
(* "prepare", the active list are the Started ones, both in order of id.   *)
(*                                                                         *)
(* Times are in units of a tick; intensities, pressures and rewards are in *)
(* thousandths, the precision to which the code rounds them.               *)
(***************************************************************************)
EXTENDS Weather, Sequences, FiniteSets

CONSTANTS
  Cap,          \* max_concurrent_by_type
  Duration,     \* duration_sec of an event
  Cooldown,     \* the window after it resolved
  Intensities,  \* what callers pass
  Pins,         \* targets that callers pin
  Scenes,       \* what a run may have: anchors, herbivores
  MaxEvents,    \* bound: callers queue no more then
  None

VARIABLES
  events,         \* WorldEventState.queue and .active
  raidsRepelled,  \* WorldEventState.raids_repelled
  weather,        \* the weather at the last tick
  scene           \* what the caller passes on every tick

eventVars == <<events, raidsRepelled, weather, scene>>

EventTypes == {"banditRaid", "animalMigration", "tradeCaravan"}

\* The anchors a scenario may have: _pick_target_anchor takes the depot for a
\* raid and the outpost for a migration.
Anchors == {"eastDepot", "westOutpost"}

ASSUME EventsAssumption ==
  /\ Cap \in [EventTypes -> Nat \ {0}]
  /\ Duration \in Nat \ {0}
  /\ Cooldown \in Nat \ {0}
  /\ Intensities \subseteq Nat
  /\ Pins \subseteq Anchors \union {None}
  /\ Scenes \subseteq SUBSET {"anchors", "herbivores"}
  /\ MaxEvents \in Nat
  /\ None \notin Anchors
  /\ None \notin Nat

Events ==
  [type : EventTypes,
   status : {"prepare", "active", "resolve", "cooldown", "dropped"},
   elapsed : Nat,
   intensity : Nat,
   target : Anchors \union {None},  \* targetTile
   listed : BOOLEAN,                \* the target is also in targetTiles
   base : Nat \union {None},        \* basePressure
   pressure : Nat \union {None},
   reward : Nat \union {None}]      \* rewardMultiplier

Started == {i \in DOMAIN events : events[i].status \in {"active", "resolve", "cooldown"}}

Waiting == {i \in DOMAIN events : events[i].status = "prepare"}

OfType(S, y) == {i \in S : events[i].type = y}

-----------------------------------------------------------------------------
(* Queueing *)

Prepared(type, intensity, target, listed) ==
  [type |-> type, status |-> "prepare", elapsed |-> 0, intensity |-> intensity,
   target |-> target, listed |-> listed,
   base |-> None, pressure |-> None, reward |-> None]

Queue(e) == events' = Append(events, e)

\* A caller queues an event and pins its target, if it likes.
EnqueueEvent(type, intensity, target, listed) ==
  /\ Len(events) < MaxEvents
  /\ target = None => ~listed
  /\ Queue(Prepared(type, intensity, target, listed))
  /\ UNCHANGED <<raidsRepelled, weather, scene>>

-----------------------------------------------------------------------------
(* One tick *)

\* _enforce_concurrency_caps, from the front of the queue to its end: an
\* event starts when the started ones of its type, and the waiting ones in
\* front of it, leave it a place.
\*
\* Faults: those admitted before are not counted, or the event itself is, or
\* the queue is drained from its end.
AdmittedAlone(i) ==
  /\ events[i].status = "prepare"
  /\ Cardinality(OfType(Started, events[i].type)) < Cap[events[i].type]

AdmittedLate(i) ==
  /\ events[i].status = "prepare"
  /\ LET y == events[i].type
     IN  Cardinality(OfType(Started, y)) +
           Cardinality({j \in OfType(Waiting, y) : j <= i}) < Cap[y]

AdmittedLast(i) ==
  /\ events[i].status = "prepare"
  /\ LET y == events[i].type
     IN  Cardinality(OfType(Started, y)) +
           Cardinality({j \in OfType(Waiting, y) : j > i}) < Cap[y]

Admitted(i) ==
  /\ events[i].status = "prepare"
  /\ LET y == events[i].type
     IN  Cardinality(OfType(Started, y)) +
           Cardinality({j \in OfType(Waiting, y) : j < i}) < Cap[y]

Clamp(v, lo, hi) == IF v < lo THEN lo ELSE IF v > hi THEN hi ELSE v

\* _hazard_penalty_for_weather, beyond 1.
Hazard(w) == CASE w = "clear" -> 0 [] w = "rain" -> 350 [] w = "storm" -> 850

RaidPressure(e, w) == Clamp((540 * e.intensity) \div 1000 + Hazard(w) + 220, 350, 2600)

MigrationPressure(e, w) == Clamp((420 * e.intensity) \div 1000 + Hazard(w) \div 2, 220, 1900)

BaseReward(e) == 1000 + e.intensity \div 2

\* rewardMultiplier = base / hazard^0.5
HazardedReward(e, w) ==
  LET factor == CASE w = "clear" -> 10000 [] w = "rain" -> 8607 [] w = "storm" -> 7352
  IN  (BaseReward(e) * factor + 5000) \div 10000

\* Pressure is reset from its base before the handler of the type runs.
Rehydrated(e) ==
  LET base == IF e.base = None THEN e.intensity ELSE e.base
  IN  [e EXCEPT !.base = base, !.pressure = base]

Pressed(e, p) == [e EXCEPT !.base = p, !.pressure = p]

Aim(e, anchor) == [e EXCEPT !.target = anchor]

HandleRaid(e, w) ==
  LET aimed == IF "anchors" \in scene
               THEN [Aim(e, "eastDepot") EXCEPT !.listed = TRUE]
               ELSE e
  IN  Pressed(aimed, RaidPressure(e, w))

HandleMigration(e, w) ==
  IF {"anchors", "herbivores"} \subseteq scene
  THEN Pressed(Aim(e, "westOutpost"), MigrationPressure(e, w))
  ELSE e

HandleCaravan(e, w) == [e EXCEPT !.reward = HazardedReward(e, w)]

Handled(e, w) ==
  CASE e.type = "banditRaid"      -> HandleRaid(Rehydrated(e), w)
    [] e.type = "animalMigration" -> HandleMigration(Rehydrated(e), w)
    [] e.type = "tradeCaravan"    -> HandleCaravan(Rehydrated(e), w)

\* Fault: an event expires again and again.
ExpiresAgain(e) == e.elapsed + 1 >= Duration

Expires(e) == e.status = "active" /\ e.elapsed + 1 >= Duration

\* elapsed_sec is not counted beyond the end of the cooldown: the comparisons
\* with it are settled by then.
Aged(e) ==
  LET older == Clamp(e.elapsed + 1, 0, Duration + Cooldown)
  IN  IF Expires(e)
      THEN [e EXCEPT !.elapsed = older, !.status = "resolve"]
      ELSE [e EXCEPT !.elapsed = older]

\* _apply_contested_pressure: how often a tile is named as a target, beyond
\* once; an event that lists its target too names it twice.
Overlap(es, S, anchor) ==
  Cardinality({i \in S : es[i].target = anchor}) +
    Cardinality({i \in S : es[i].target = anchor /\ es[i].listed}) - 1

\*
\* Fault: the penalty is added to the base that the next tick starts from.
ContestedBase(e, overlap) ==
  IF e.target = None \/ overlap <= 0
  THEN e
  ELSE Pressed(e, e.base + 120 * overlap)

Contested(e, overlap) ==
  IF e.target = None \/ overlap <= 0
  THEN e
  ELSE IF e.type = "tradeCaravan"
       THEN [e EXCEPT !.reward =
               (BaseReward(e) * Clamp(100 - 18 * overlap, 0, 100) + 50) \div 100]
       ELSE [e EXCEPT !.pressure = e.base + 120 * overlap]

\* The filter at the end of the tick.
Filtered(e) ==
  IF e.status = "cooldown" /\ e.elapsed >= Duration + Cooldown
  THEN [e EXCEPT !.status = "dropped"]
  ELSE e

Activated(i) ==
  IF Admitted(i) THEN [events[i] EXCEPT !.status = "active"] ELSE events[i]

EventTick(w) ==
  LET running == Started \union {i \in Waiting : Admitted(i)}
      aged == [i \in DOMAIN events |->
                 IF i \in running THEN Aged(Handled(Activated(i), w)) ELSE events[i]]
  IN  /\ events' = [i \in DOMAIN events |->
                      IF i \in running
                      THEN Filtered(Contested(aged[i], Overlap(aged, running, aged[i].target)))
                      ELSE events[i]]
      /\ raidsRepelled' = raidsRepelled +
           Cardinality({i \in running :
                          events[i].type = "banditRaid" /\ Expires(Activated(i))})
      /\ weather' = w
      /\ UNCHANGED scene

EventsInit ==
  /\ events = <<>>
  /\ raidsRepelled = 0
  /\ weather = "clear"
  /\ scene \in Scenes

-----------------------------------------------------------------------------
(* Properties *)

\* Never more events of a type at once than its cap allows, though several
\* may start in one pass over the queue.
CapsHold == \A y \in EventTypes : Cardinality(OfType(Started, y)) <= Cap[y]

\* Events of one type start in the order in which they were queued: a cap
\* that lets one through never lets it overtake another.
StartedInOrder ==
  \A i, j \in DOMAIN events :
    /\ i < j
    /\ events[i].type = events[j].type
    /\ events[j].status # "prepare"
    => events[i].status # "prepare"

\* Every raid that ends is counted once, however long it is kept afterwards.
RaidsCountedOnce ==
  raidsRepelled =
    Cardinality({i \in DOMAIN events :
                   /\ events[i].type = "banditRaid"
                   /\ events[i].status \notin {"prepare", "active"}})

Effects(e) == <<e.base, e.pressure, e.reward>>

\* The penalty for sharing a target does not build up: while the weather
\* stays and no event starts, a tick leaves every pressure and every reward
\* as it was.
PressureSettled ==
  [][(weather' = weather /\ Started' = Started) =>
       \A i \in Started : Effects(events'[i]) = Effects(events[i])]_eventVars

\* What the comment on the filter promises: a resolved event is kept for the
\* length of the cooldown and then dropped.
ResolvedDropped ==
  \A i \in DOMAIN events :
    events[i].status = "resolve" => events[i].elapsed < Duration + Cooldown

=============================================================================
