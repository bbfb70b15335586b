----------------------------- MODULE EventProofs -----------------------------
(***************************************************************************)
(* World events of any number, caps, durations and cadences: caps hold,    *)
(* the queue keeps its order and leaves no place idle, raids are counted   *)
(* once, and penalties do not build up.                                    *)
(*                                                                         *)
(* How many start in one pass over the queue is a pigeonhole argument:     *)
(* those that start have different ranks in the queue, and the ranks are   *)
(* less than the number of places.  That a tick repeats the effects of the *)
(* one before needs that every started event is a fixed point of the       *)
(* handlers for the weather and the rivals of the last tick.               *)
(***************************************************************************)
EXTENDS EventDirector, FiniteSetTheorems, WellFoundedInduction, SequenceTheorems, TLAPS

EventsTypeOK ==
  /\ events \in Seq(Events)
  /\ raidsRepelled \in Nat
  /\ weather \in Weathers
  /\ scene \in SUBSET {"anchors", "herbivores"}
  /\ sky \in [type : Weathers, season : Seasons, age : Nat, left : Nat]

\* Nothing assigns the status "cooldown", so no event is ever dropped.
NeverDropped == \A i \in DOMAIN events : events[i].status \in {"prepare", "active", "resolve"}


-----------------------------------------------------------------------------
(* What a tick makes of one event *)

LEMMA ClampTyped ==
  ASSUME NEW v \in Int, NEW lo \in Nat, NEW hi \in Nat
  PROVE  Clamp(v, lo, hi) \in Nat
  BY DEF Clamp

LEMMA RewardTyped ==
  ASSUME NEW e \in Events PROVE BaseReward(e) \in Nat
<1>1. e.intensity \in Nat
  BY DEF Events
<1>2. QED
  BY <1>1 DEF BaseReward

LEMMA EffectsTyped ==
  ASSUME NEW e \in Events, NEW w \in Weathers
  PROVE  /\ RaidPressure(e, w) \in Nat
         /\ MigrationPressure(e, w) \in Nat
         /\ HazardedReward(e, w) \in Nat
<1>1. e.intensity \in Nat /\ Hazard(w) \in Nat
  BY DEF Events, Weathers, Hazard
<1>2. RaidPressure(e, w) \in Nat
  <2> DEFINE p == (540 * e.intensity) \div 1000 + Hazard(w) + 220
  <2>1. p \in Int
    BY <1>1
  <2>2. RaidPressure(e, w) = Clamp(p, 350, 2600)
    BY DEF RaidPressure
  <2> HIDE DEF p
  <2>3. QED
    BY <2>1, <2>2, ClampTyped
<1>3. MigrationPressure(e, w) \in Nat
  <2> DEFINE p == (420 * e.intensity) \div 1000 + Hazard(w) \div 2
  <2>1. p \in Int
    BY <1>1
  <2>2. MigrationPressure(e, w) = Clamp(p, 220, 1900)
    BY DEF MigrationPressure
  <2> HIDE DEF p
  <2>3. QED
    BY <2>1, <2>2, ClampTyped
<1>4. HazardedReward(e, w) \in Nat
  <2> DEFINE b == BaseReward(e)
  <2>1. b \in Nat
    BY RewardTyped
  <2>2. HazardedReward(e, w) \in {(b * 10000 + 5000) \div 10000, (b * 8607 + 5000) \div 10000,
                                  (b * 7352 + 5000) \div 10000}
    BY DEF HazardedReward, Weathers
  <2> HIDE DEF b
  <2>3. QED
    BY <2>1, <2>2
<1>5. QED
  BY <1>2, <1>3, <1>4

\* Whatever a tick does to an event, it stays the one it is; the handler of
\* its type changes its target and its effects only.
Same(e, f) ==
  /\ f \in Events
  /\ f.type = e.type /\ f.status = e.status /\ f.elapsed = e.elapsed /\ f.intensity = e.intensity

SameTarget(e, f) == f.target = e.target /\ f.listed = e.listed

LEMMA PressedFields ==
  ASSUME NEW e \in Events, NEW p \in Nat
  PROVE  /\ Same(e, Pressed(e, p)) /\ SameTarget(e, Pressed(e, p))
         /\ Effects(Pressed(e, p)) = <<p, p, e.reward>>
         /\ Pressed(e, p).reward = e.reward
<1> DEFINE u == [e EXCEPT !.base = p]
           t == [u EXCEPT !.pressure = p]
<1>1. Same(e, u) /\ SameTarget(e, u) /\ u.base = p /\ u.reward = e.reward
  BY DEF Same, SameTarget, Events
<1>2. t = Pressed(e, p)
  BY DEF Pressed
<1> HIDE DEF u
<1>3. Same(u, t) /\ SameTarget(u, t) /\ t.base = u.base /\ t.pressure = p /\ t.reward = u.reward
  BY <1>1 DEF Same, SameTarget, Events
<1> HIDE DEF t
<1>4. QED
  BY <1>1, <1>2, <1>3 DEF Same, SameTarget, Effects

LEMMA AimFields ==
  ASSUME NEW e \in Events, NEW a \in Anchors
  PROVE  LET u == Aim(e, a)
             t == [Aim(e, a) EXCEPT !.listed = TRUE]
         IN  /\ Same(e, u) /\ u.target = a /\ u.listed = e.listed /\ Effects(u) = Effects(e)
             /\ Same(e, t) /\ t.target = a /\ t.listed = TRUE /\ Effects(t) = Effects(e)
<1> DEFINE u == Aim(e, a)
           t == [u EXCEPT !.listed = TRUE]
<1>1. Same(e, u) /\ u.target = a /\ u.listed = e.listed /\ Effects(u) = Effects(e)
  BY DEF Same, Aim, Events, Effects
<1> HIDE DEF u
<1>2. Same(u, t) /\ t.target = u.target /\ t.listed = TRUE /\ Effects(t) = Effects(u)
  BY <1>1 DEF Same, Events, Effects
<1>3. QED
  BY <1>1, <1>2 DEF Same, u

BaseOf(e) == IF e.base = None THEN e.intensity ELSE e.base

LEMMA RehydratedFields ==
  ASSUME NEW e \in Events
  PROVE  LET r == Rehydrated(e)
         IN  /\ Same(e, r) /\ SameTarget(e, r)
             /\ BaseOf(e) \in Nat
             /\ Effects(r) = <<BaseOf(e), BaseOf(e), e.reward>>
<1>1. BaseOf(e) \in Nat
  BY DEF Events, BaseOf
<1>2. Rehydrated(e) = Pressed(e, BaseOf(e))
  BY DEF Rehydrated, Pressed, BaseOf
<1>3. QED
  BY <1>1, <1>2, PressedFields

\* What the pressures and rewards of an event come from.
LEMMA ByIntensity ==
  ASSUME NEW e, NEW f, f.intensity = e.intensity, NEW w
  PROVE  /\ RaidPressure(f, w) = RaidPressure(e, w)
         /\ MigrationPressure(f, w) = MigrationPressure(e, w)
         /\ BaseReward(f) = BaseReward(e)
         /\ HazardedReward(f, w) = HazardedReward(e, w)
  BY DEF RaidPressure, MigrationPressure, BaseReward, HazardedReward

\* What the handlers leave of an event, field by field.
LEMMA RaidFields ==
  ASSUME NEW e \in Events, NEW w \in Weathers
  PROVE  LET h == HandleRaid(Rehydrated(e), w)
         IN  /\ Same(e, h)
             /\ Effects(h) = <<RaidPressure(e, w), RaidPressure(e, w), e.reward>>
             /\ IF "anchors" \in scene THEN h.target = "eastDepot" /\ h.listed = TRUE ELSE SameTarget(e, h)
<1> DEFINE r == Rehydrated(e)
           aimed == IF "anchors" \in scene
                    THEN [Aim(r, "eastDepot") EXCEPT !.listed = TRUE] ELSE r
           p == RaidPressure(r, w)
<1>1. Same(e, r) /\ SameTarget(e, r) /\ r.reward = e.reward /\ r \in Events
  BY RehydratedFields DEF Effects, Same
<1>2. HandleRaid(r, w) = Pressed(aimed, p)
  BY DEF HandleRaid
<1> HIDE DEF r
<1>3. /\ Same(r, aimed) /\ aimed.reward = r.reward
      /\ IF "anchors" \in scene THEN aimed.target = "eastDepot" /\ aimed.listed = TRUE
         ELSE SameTarget(r, aimed)
  BY <1>1, AimFields DEF Same, SameTarget, Effects, Anchors
<1>4. p \in Nat /\ p = RaidPressure(e, w)
  BY <1>1, EffectsTyped, ByIntensity DEF Same
<1> HIDE DEF aimed, p
<1>5. aimed \in Events
  BY <1>3 DEF Same
<1>6. /\ Same(aimed, HandleRaid(r, w)) /\ SameTarget(aimed, HandleRaid(r, w))
      /\ Effects(HandleRaid(r, w)) = <<p, p, aimed.reward>>
  BY <1>2, <1>4, <1>5, PressedFields
<1>7. QED
  BY <1>1, <1>3, <1>4, <1>6 DEF Same, SameTarget, r

Roaming == {"anchors", "herbivores"} \subseteq scene

LEMMA MigrationFields ==
  ASSUME NEW e \in Events, NEW w \in Weathers
  PROVE  LET h == HandleMigration(Rehydrated(e), w)
         IN  /\ Same(e, h)
             /\ IF Roaming
                THEN /\ Effects(h) = <<MigrationPressure(e, w), MigrationPressure(e, w), e.reward>>
                     /\ h.target = "westOutpost" /\ h.listed = e.listed
                ELSE Effects(h) = <<BaseOf(e), BaseOf(e), e.reward>> /\ SameTarget(e, h)
<1> DEFINE r == Rehydrated(e)
           aimed == Aim(r, "westOutpost")
           p == MigrationPressure(r, w)
<1>1. /\ Same(e, r) /\ SameTarget(e, r) /\ r \in Events /\ r.reward = e.reward
      /\ Effects(r) = <<BaseOf(e), BaseOf(e), e.reward>>
  BY RehydratedFields DEF Same, Effects
<1>2. HandleMigration(r, w) = IF Roaming THEN Pressed(aimed, p) ELSE r
  BY DEF HandleMigration, Roaming
<1> HIDE DEF r
<1>3. Same(r, aimed) /\ aimed.reward = r.reward /\ aimed.target = "westOutpost" /\ aimed.listed = r.listed
  BY <1>1, AimFields DEF Effects, Anchors
<1>4. p \in Nat /\ p = MigrationPressure(e, w)
  BY <1>1, EffectsTyped, ByIntensity DEF Same
<1> HIDE DEF aimed, p
<1>5. aimed \in Events
  BY <1>3 DEF Same
<1>6. /\ Same(aimed, Pressed(aimed, p)) /\ SameTarget(aimed, Pressed(aimed, p))
      /\ Effects(Pressed(aimed, p)) = <<p, p, aimed.reward>>
  BY <1>4, <1>5, PressedFields
<1>7. QED
  BY <1>1, <1>2, <1>3, <1>4, <1>6 DEF Same, SameTarget, r

LEMMA CaravanFields ==
  ASSUME NEW e \in Events, NEW w \in Weathers
  PROVE  LET h == HandleCaravan(Rehydrated(e), w)
         IN  /\ Same(e, h) /\ SameTarget(e, h)
             /\ Effects(h) = <<BaseOf(e), BaseOf(e), HazardedReward(e, w)>>
<1> DEFINE r == Rehydrated(e)
           reward == HazardedReward(r, w)
<1>1. /\ Same(e, r) /\ SameTarget(e, r) /\ r \in Events
      /\ r.base = BaseOf(e) /\ r.pressure = BaseOf(e)
  BY RehydratedFields DEF Same, Effects
<1> HIDE DEF r
<1>2. reward \in Nat /\ reward = HazardedReward(e, w)
  BY <1>1, EffectsTyped, ByIntensity DEF Same
<1>3. HandleCaravan(r, w) = [r EXCEPT !.reward = reward]
  BY DEF HandleCaravan
<1> HIDE DEF reward
<1>4. /\ Same(r, HandleCaravan(r, w)) /\ SameTarget(r, HandleCaravan(r, w))
      /\ Effects(HandleCaravan(r, w)) = <<r.base, r.pressure, reward>>
  BY <1>1, <1>2, <1>3 DEF Same, SameTarget, Effects, Events
<1>5. QED
  BY <1>1, <1>2, <1>4 DEF Same, SameTarget, r

LEMMA HandledFields ==
  ASSUME NEW e \in Events, NEW w \in Weathers
  PROVE  LET h == Handled(e, w)
         IN  /\ Same(e, h)
             /\ h.base \in Nat /\ h.pressure = h.base
             /\ e.type = "banditRaid" => h = HandleRaid(Rehydrated(e), w)
             /\ e.type = "animalMigration" => h = HandleMigration(Rehydrated(e), w)
             /\ e.type = "tradeCaravan" => h = HandleCaravan(Rehydrated(e), w)
<1>1. e.type \in EventTypes
  BY DEF Events
<1>2. BaseOf(e) \in Nat /\ RaidPressure(e, w) \in Nat /\ MigrationPressure(e, w) \in Nat
  BY RehydratedFields, EffectsTyped
<1>3. ASSUME e.type = "banditRaid" PROVE Handled(e, w) = HandleRaid(Rehydrated(e), w)
  BY <1>3 DEF Handled
<1>4. ASSUME e.type = "animalMigration" PROVE Handled(e, w) = HandleMigration(Rehydrated(e), w)
  BY <1>4 DEF Handled
<1>5. ASSUME e.type = "tradeCaravan" PROVE Handled(e, w) = HandleCaravan(Rehydrated(e), w)
  BY <1>5 DEF Handled
<1>6. Same(e, Handled(e, w)) /\ Handled(e, w).base \in Nat /\ Handled(e, w).pressure = Handled(e, w).base
  <2>1. CASE e.type = "banditRaid"
    BY <1>2, <1>3, <2>1, RaidFields DEF Effects
  <2>2. CASE e.type = "animalMigration"
    BY <1>2, <1>4, <2>2, MigrationFields DEF Effects
  <2>3. CASE e.type = "tradeCaravan"
    BY <1>2, <1>5, <2>3, CaravanFields DEF Effects
  <2>4. QED
    BY <1>1, <2>1, <2>2, <2>3 DEF EventTypes
<1>7. QED
  BY <1>3, <1>4, <1>5, <1>6

LEMMA AgedFields ==
  ASSUME NEW e \in Events
  PROVE  LET a == Aged(e)
         IN  /\ a \in Events /\ a.type = e.type /\ a.intensity = e.intensity
             /\ SameTarget(e, a)
             /\ a.base = e.base /\ a.pressure = e.pressure /\ a.reward = e.reward
             /\ a.status = IF Expires(e) THEN "resolve" ELSE e.status
<1> DEFINE older == Clamp(e.elapsed + 1, 0, Duration + Cooldown)
           u == [e EXCEPT !.elapsed = older]
           t == [u EXCEPT !.status = "resolve"]
<1>1. older \in Nat
  BY EventsAssumption DEF Clamp, Events
<1>2. Aged(e) = IF Expires(e) THEN t ELSE u
  BY DEF Aged
<1> HIDE DEF older
<1>3. /\ u \in Events /\ u.type = e.type /\ u.intensity = e.intensity /\ u.status = e.status
      /\ SameTarget(e, u)
      /\ u.base = e.base /\ u.pressure = e.pressure /\ u.reward = e.reward
  BY <1>1 DEF Events, SameTarget
<1> HIDE DEF u
<1>4. /\ t \in Events /\ t.type = u.type /\ t.intensity = u.intensity /\ t.status = "resolve"
      /\ SameTarget(u, t)
      /\ t.base = u.base /\ t.pressure = u.pressure /\ t.reward = u.reward
  BY <1>3 DEF Events, SameTarget
<1> HIDE DEF t
<1>5. QED
  BY <1>2, <1>3, <1>4 DEF SameTarget

\* The reward of a caravan whose target o others want.
CutReward(e, o) == (BaseReward(e) * Clamp(100 - 18 * o, 0, 100) + 50) \div 100

Disputed(e, o) == e.target # None /\ o > 0

LEMMA ContestedFields ==
  ASSUME NEW e \in Events, e.base \in Nat, NEW o \in Int
  PROVE  LET c == Contested(e, o)
         IN  /\ Same(e, c) /\ SameTarget(e, c) /\ c.base = e.base
             /\ c.pressure = IF Disputed(e, o) /\ e.type # "tradeCaravan"
                             THEN e.base + 120 * o ELSE e.pressure
             /\ c.reward = IF Disputed(e, o) /\ e.type = "tradeCaravan"
                           THEN CutReward(e, o) ELSE e.reward
<1>1. CASE Disputed(e, o) /\ e.type = "tradeCaravan"
  <2>1. BaseReward(e) \in Nat /\ Clamp(100 - 18 * o, 0, 100) \in Nat
    BY RewardTyped DEF Clamp
  <2>2. BaseReward(e) * Clamp(100 - 18 * o, 0, 100) \in Nat
    BY <2>1
  <2>3. CutReward(e, o) \in Nat
    BY <2>2 DEF CutReward
  <2>4. Contested(e, o) = [e EXCEPT !.reward = CutReward(e, o)]
    BY <1>1 DEF Contested, Disputed, CutReward
  <2>5. QED
    BY <1>1, <2>3, <2>4 DEF Same, SameTarget, Events
<1>2. CASE Disputed(e, o) /\ e.type # "tradeCaravan"
  <2>1. e.base + 120 * o \in Nat
    BY <1>2 DEF Disputed
  <2>2. Contested(e, o) = [e EXCEPT !.pressure = e.base + 120 * o]
    BY <1>2 DEF Contested, Disputed
  <2>3. QED
    BY <1>2, <2>1, <2>2 DEF Same, SameTarget, Events
<1>3. CASE ~Disputed(e, o)
  BY <1>3 DEF Contested, Disputed, Same, SameTarget
<1>4. QED
  BY <1>1, <1>2, <1>3

Ticked(e, w, o) == Filtered(Contested(Aged(Handled(e, w)), o))

LEMMA TickedFields ==
  ASSUME NEW e \in Events, e.status \in {"active", "resolve"}, NEW w \in Weathers, NEW o \in Int
  PROVE  LET h == Handled(e, w)
             t == Ticked(e, w, o)
         IN  /\ t \in Events /\ t.type = e.type /\ t.intensity = e.intensity
             /\ t.status = IF Expires(e) THEN "resolve" ELSE e.status
             /\ SameTarget(h, t) /\ t.base = h.base /\ t.base \in Nat
             /\ t.pressure = IF Disputed(h, o) /\ e.type # "tradeCaravan"
                             THEN h.base + 120 * o ELSE h.pressure
             /\ t.reward = IF Disputed(h, o) /\ e.type = "tradeCaravan"
                           THEN CutReward(e, o) ELSE h.reward
<1> DEFINE h == Handled(e, w)
           a == Aged(h)
           c == Contested(a, o)
<1>1. Same(e, h) /\ h.base \in Nat /\ h \in Events
  BY HandledFields DEF Same
<1>2. Expires(h) <=> Expires(e)
  BY <1>1 DEF Same, Expires
<1> HIDE DEF h
<1>3. /\ a \in Events /\ a.type = h.type /\ a.intensity = h.intensity /\ SameTarget(h, a)
      /\ a.base = h.base /\ a.pressure = h.pressure /\ a.reward = h.reward
      /\ a.status = IF Expires(h) THEN "resolve" ELSE h.status
  BY <1>1, AgedFields
<1> HIDE DEF a
<1>4. /\ Same(a, c) /\ SameTarget(a, c) /\ c.base = a.base
      /\ c.pressure = IF Disputed(a, o) /\ a.type # "tradeCaravan"
                      THEN a.base + 120 * o ELSE a.pressure
      /\ c.reward = IF Disputed(a, o) /\ a.type = "tradeCaravan"
                    THEN CutReward(a, o) ELSE a.reward
  BY <1>1, <1>3, ContestedFields
<1>5. CutReward(a, o) = CutReward(e, o) /\ (Disputed(a, o) <=> Disputed(h, o))
  BY <1>1, <1>3, ByIntensity DEF CutReward, Disputed, SameTarget, Same
<1> HIDE DEF c
<1>6. Ticked(e, w, o) = c
  <2>1. c.status # "cooldown"
    BY <1>1, <1>3, <1>4 DEF Same
  <2>2. Ticked(e, w, o) = Filtered(c)
    BY DEF Ticked, c, a, h
  <2>3. QED
    BY <2>1, <2>2 DEF Filtered
<1>7. QED
  BY <1>1, <1>2, <1>3, <1>4, <1>5, <1>6 DEF Same, SameTarget, h

\* An event that a tick has dealt with is left as it is by another tick of the
\* same weather and the same rivals.
Settled(e, w, o) ==
  /\ SameTarget(e, Handled(e, w))
  /\ Effects(Contested(Aged(Handled(e, w)), o)) = Effects(e)

LEMMA TickSettles ==
  ASSUME NEW e \in Events, e.status \in {"active", "resolve"}, NEW w \in Weathers, NEW o \in Int
  PROVE  Settled(Ticked(e, w, o), w, o)
<1> DEFINE h == Handled(e, w)
           t == Ticked(e, w, o)
           g == Handled(t, w)
           a == Aged(g)
           c == Contested(a, o)
<1>1. /\ t \in Events /\ t.type = e.type /\ t.intensity = e.intensity
      /\ SameTarget(h, t) /\ t.base = h.base /\ t.base \in Nat
      /\ t.pressure = IF Disputed(h, o) /\ e.type # "tradeCaravan"
                      THEN h.base + 120 * o ELSE h.pressure
      /\ t.reward = IF Disputed(h, o) /\ e.type = "tradeCaravan"
                    THEN CutReward(e, o) ELSE h.reward
  BY TickedFields
<1>2. /\ Same(t, g) /\ g \in Events /\ g.base \in Nat /\ g.pressure = g.base
      /\ h.pressure = h.base
  BY <1>1, HandledFields DEF Same
<1>3. t.base # None /\ BaseOf(t) = t.base
  BY <1>1, EventsAssumption DEF BaseOf
<1>4. e.type \in EventTypes
  BY DEF Events
<1>5. /\ RaidPressure(t, w) = RaidPressure(e, w)
      /\ MigrationPressure(t, w) = MigrationPressure(e, w)
      /\ HazardedReward(t, w) = HazardedReward(e, w)
  BY <1>1, ByIntensity
<1>6. SameTarget(t, g) /\ g.base = t.base /\ g.reward = IF e.type = "tradeCaravan" THEN h.reward ELSE t.reward
  <2>1. CASE e.type = "banditRaid"
    <3>1. h = HandleRaid(Rehydrated(e), w) /\ g = HandleRaid(Rehydrated(t), w)
      BY <1>1, <2>1, HandledFields
    <3>2. /\ h.base = RaidPressure(e, w)
          /\ IF "anchors" \in scene THEN h.target = "eastDepot" /\ h.listed = TRUE ELSE SameTarget(e, h)
      BY <3>1, RaidFields DEF Effects
    <3>3. /\ g.base = RaidPressure(t, w) /\ g.reward = t.reward
          /\ IF "anchors" \in scene THEN g.target = "eastDepot" /\ g.listed = TRUE ELSE SameTarget(t, g)
      <4>1. t \in Events /\ g = HandleRaid(Rehydrated(t), w)
        BY <1>1, <3>1
      <4> HIDE DEF t, g
      <4>2. QED
        BY <4>1, RaidFields DEF Effects
    <3>4. QED
      BY <1>1, <1>5, <2>1, <3>2, <3>3 DEF SameTarget
  <2>2. CASE e.type = "animalMigration"
    BY <1>1, <1>3, <1>5, <2>2, HandledFields, MigrationFields DEF Effects, SameTarget
  <2>3. CASE e.type = "tradeCaravan"
    BY <1>1, <1>3, <1>5, <2>3, HandledFields, CaravanFields DEF Effects, SameTarget
  <2>4. QED
    BY <1>4, <2>1, <2>2, <2>3 DEF EventTypes
<1> HIDE DEF h, t, g
<1>7. /\ a \in Events /\ a.type = g.type /\ a.intensity = g.intensity /\ SameTarget(g, a)
      /\ a.base = g.base /\ a.pressure = g.pressure /\ a.reward = g.reward
  BY <1>2, AgedFields
<1> HIDE DEF a
<1>8. /\ c.base = a.base
      /\ c.pressure = IF Disputed(a, o) /\ a.type # "tradeCaravan"
                      THEN a.base + 120 * o ELSE a.pressure
      /\ c.reward = IF Disputed(a, o) /\ a.type = "tradeCaravan"
                    THEN CutReward(a, o) ELSE a.reward
  BY <1>2, <1>7, ContestedFields
<1>9. CutReward(a, o) = CutReward(e, o) /\ (Disputed(a, o) <=> Disputed(h, o))
  BY <1>1, <1>2, <1>6, <1>7, ByIntensity DEF CutReward, Disputed, SameTarget, Same
<1> HIDE DEF c
<1>10. c.base = t.base /\ c.pressure = t.pressure /\ c.reward = t.reward
  BY <1>1, <1>2, <1>6, <1>7, <1>8, <1>9 DEF Same
<1>11. QED
  BY <1>6, <1>10 DEF Settled, Effects, c, a, g, t

-----------------------------------------------------------------------------
(* What a tick makes of the events *)

Running == Started \union {i \in Waiting : Admitted(i)}

Names == 1 .. Len(events)

LEMMA Basics ==
  ASSUME EventsTypeOK, NeverDropped
  PROVE  /\ Len(events) \in Nat /\ DOMAIN events = Names
         /\ IsFiniteSet(Names)
         /\ \A i \in Names : events[i] \in Events
         /\ Started \subseteq Names /\ Waiting \subseteq Names /\ Running \subseteq Names
         /\ \A S \in SUBSET Names :
              IsFiniteSet(S) /\ Cardinality(S) \in Nat
<1>1. Len(events) \in Nat /\ DOMAIN events = Names /\ \A i \in Names : events[i] \in Events
  BY LenProperties, ElementOfSeq DEF EventsTypeOK, Names
<1>2. IsFiniteSet(Names)
  BY <1>1, FS_Interval DEF Names
<1>3. \A S \in SUBSET Names : IsFiniteSet(S) /\ Cardinality(S) \in Nat
  BY <1>2, FS_Subset, FS_CardinalityType
<1>4. QED
  BY <1>1, <1>2, <1>3 DEF Started, Waiting, Running

LEMMA ActivatedFields ==
  ASSUME EventsTypeOK, NeverDropped, NEW i \in Running
  PROVE  LET e == Activated(i)
         IN  /\ e \in Events /\ e.type = events[i].type /\ e.intensity = events[i].intensity
             /\ e.status = IF events[i].status = "prepare" THEN "active" ELSE events[i].status
             /\ e.status \in {"active", "resolve"}
             /\ i \in Started => e = events[i]
<1>1. i \in Names /\ events[i] \in Events /\ events[i].status \in {"prepare", "active", "resolve"}
  BY Basics DEF NeverDropped
<1>2. Admitted(i) <=> events[i].status = "prepare"
  BY <1>1 DEF Running, Started, Waiting, Admitted
<1>3. QED
  BY <1>1, <1>2 DEF Activated, Events, Started

\* How often an event has to share its target.
Rivals(i) == Overlap(events, Started, events[i].target)

\* The events after a tick, one by one.
LEMMA TickFields ==
  ASSUME EventsTypeOK, NeverDropped, NEW w \in Weathers, EventTick(w)
  PROVE  /\ Names' = Names /\ events' \in Seq(Events) /\ DOMAIN events' = Names
         /\ \A i \in Running :
              /\ Rivals(i)' \in Int
              /\ events'[i] = Ticked(Activated(i), w, Rivals(i)')
              /\ events'[i].status = IF Expires(Activated(i)) THEN "resolve" ELSE Activated(i).status
         /\ \A i \in Names \ Running : events'[i] = events[i] /\ events[i].status = "prepare"
         /\ \A i \in Names : events'[i].type = events[i].type
         /\ Started' = Running
<1> DEFINE aged == [i \in DOMAIN events |->
                      IF i \in Running THEN Aged(Handled(Activated(i), w)) ELSE events[i]]
<1>1. events' = [i \in DOMAIN events |->
                   IF i \in Running
                   THEN Filtered(Contested(aged[i], Overlap(aged, Running, aged[i].target)))
                   ELSE events[i]]
  BY DEF EventTick, Running
<1>2. \A a : Overlap(aged, Running, a) \in Int
  <2> SUFFICES ASSUME NEW a PROVE Overlap(aged, Running, a) \in Int
    OBVIOUS
  <2> HIDE DEF aged
  <2>1. /\ Cardinality({i \in Running : aged[i].target = a}) \in Nat
        /\ Cardinality({i \in Running : aged[i].target = a /\ aged[i].listed}) \in Nat
    BY Basics
  <2>2. QED
    BY <2>1 DEF Overlap
<1>3. \A i \in Running : \E o \in Int : events'[i] = Ticked(Activated(i), w, o)
  <2> SUFFICES ASSUME NEW i \in Running PROVE \E o \in Int : events'[i] = Ticked(Activated(i), w, o)
    OBVIOUS
  <2>1. i \in DOMAIN events /\ aged[i] = Aged(Handled(Activated(i), w))
    BY Basics
  <2> HIDE DEF aged
  <2>2. QED
    BY <1>1, <1>2, <2>1 DEF Ticked
<1>4. /\ DOMAIN events' = Names
      /\ \A i \in Names \ Running : events'[i] = events[i]
  BY <1>1, Basics
<1> HIDE DEF aged
<1>5. \A i \in Names \ Running : events[i].status = "prepare"
  BY Basics DEF NeverDropped, Running, Started
<1>6. \A i \in Running :
        /\ events'[i] \in Events /\ events'[i].type = events[i].type
        /\ events'[i].status = IF Expires(Activated(i)) THEN "resolve" ELSE Activated(i).status
  <2> SUFFICES ASSUME NEW i \in Running
               PROVE  /\ events'[i] \in Events /\ events'[i].type = events[i].type
                      /\ events'[i].status = IF Expires(Activated(i)) THEN "resolve"
                                             ELSE Activated(i).status
    OBVIOUS
  <2>1. PICK o \in Int : events'[i] = Ticked(Activated(i), w, o)
    BY <1>3
  <2>2. QED
    BY <2>1, ActivatedFields, TickedFields
<1>7. \A i \in Names : events'[i] \in Events /\ events'[i].type = events[i].type
  BY <1>4, <1>6, Basics
<1>8. events' \in Seq(Events) /\ Len(events') = Len(events)
  <2> DEFINE f == [i \in 1 .. Len(events) |-> events'[i]]
  <2>1. f \in Seq(Events)
    BY <1>7, Basics DEF Names
  <2>2. events' = f
    BY <1>1, <1>4 DEF Names
  <2>3. QED
    BY <1>4, <2>1, <2>2, Basics, LenProperties DEF Names
<1>9. Started' = Running
  BY <1>4, <1>5, <1>6, Basics, ActivatedFields DEF Started
<1>10. \A i \in Running : SameTarget(aged[i], events'[i])
  <2> SUFFICES ASSUME NEW i \in Running PROVE SameTarget(aged[i], events'[i])
    OBVIOUS
  <2>1. PICK o \in Int : events'[i] = Ticked(Activated(i), w, o)
    BY <1>3
  <2>2. aged[i] = Aged(Handled(Activated(i), w))
    BY Basics DEF aged
  <2>3. Handled(Activated(i), w) \in Events
    BY ActivatedFields, HandledFields DEF Same
  <2>4. SameTarget(Handled(Activated(i), w), aged[i]) /\ SameTarget(Handled(Activated(i), w), events'[i])
    BY <2>1, <2>2, <2>3, ActivatedFields, AgedFields, TickedFields
  <2>5. QED
    BY <2>4 DEF SameTarget
<1>11. \A a : Overlap(aged, Running, a) = Overlap(events', Running, a)
  <2> SUFFICES ASSUME NEW a PROVE Overlap(aged, Running, a) = Overlap(events', Running, a)
    OBVIOUS
  <2>1. /\ {i \in Running : aged[i].target = a} = {i \in Running : events'[i].target = a}
        /\ {i \in Running : aged[i].target = a /\ aged[i].listed} =
             {i \in Running : events'[i].target = a /\ events'[i].listed}
    BY <1>10 DEF SameTarget
  <2>2. QED
    BY <2>1 DEF Overlap
<1>12. \A i \in Running : Rivals(i)' \in Int /\ events'[i] = Ticked(Activated(i), w, Rivals(i)')
  <2> SUFFICES ASSUME NEW i \in Running
               PROVE  Rivals(i)' \in Int /\ events'[i] = Ticked(Activated(i), w, Rivals(i)')
    OBVIOUS
  <2>1. Rivals(i)' = Overlap(aged, Running, aged[i].target)
    BY <1>9, <1>10, <1>11 DEF Rivals, SameTarget
  <2>2. aged[i] = Aged(Handled(Activated(i), w)) /\ i \in DOMAIN events
    BY Basics DEF aged
  <2>3. QED
    BY <1>1, <1>2, <2>1, <2>2 DEF Ticked
<1>13. QED
  BY <1>4, <1>5, <1>6, <1>7, <1>8, <1>9, <1>12 DEF Names

-----------------------------------------------------------------------------
(* Who may start *)

Rank(y, i) == Cardinality({j \in OfType(Waiting, y) : j < i})

LEMMA RankGrows ==
  ASSUME EventsTypeOK, NeverDropped, NEW y, NEW i \in OfType(Waiting, y), NEW j \in Names, i < j
  PROVE  Rank(y, i) \in Nat /\ Rank(y, j) \in Nat /\ Rank(y, i) + 1 <= Rank(y, j)
<1> DEFINE S == {h \in OfType(Waiting, y) : h < i}
           T == {h \in OfType(Waiting, y) : h < j}
<1>1. i \in Names /\ S \in SUBSET Names /\ T \in SUBSET Names /\ Names \subseteq Nat
  BY Basics DEF OfType, Names
<1>2. IsFiniteSet(S) /\ IsFiniteSet(T) /\ Cardinality(S) \in Nat /\ Cardinality(T) \in Nat
  BY <1>1, Basics
<1>3. S \union {i} \subseteq T
  <2>1. \A h \in S : h < j
    BY <1>1
  <2>2. QED
    BY <2>1
<1>4. i \notin S
  BY <1>1
<1> HIDE DEF S, T
<1>5. Cardinality(S \union {i}) = Cardinality(S) + 1
  BY <1>2, <1>4, FS_AddElement
<1>6. Cardinality(S \union {i}) <= Cardinality(T)
  BY <1>2, <1>3, FS_Subset
<1>7. QED
  BY <1>2, <1>5, <1>6 DEF Rank, S, T

\* Those that start of one type, and the places that are left to them.
Admissible(y) == {i \in OfType(Waiting, y) : Admitted(i)}

LEMMA AdmittedByRank ==
  ASSUME NEW y, NEW i \in OfType(Waiting, y)
  PROVE  Admitted(i) <=> Cardinality(OfType(Started, y)) + Rank(y, i) < Cap[y]
  BY DEF OfType, Waiting, Admitted, Rank

LEMMA RunningOfType ==
  ASSUME EventsTypeOK, NeverDropped, NEW y
  PROVE  /\ OfType(Running, y) = OfType(Started, y) \union Admissible(y)
         /\ Cardinality(OfType(Running, y)) =
              Cardinality(OfType(Started, y)) + Cardinality(Admissible(y))
         /\ Cardinality(OfType(Started, y)) \in Nat /\ Cardinality(Admissible(y)) \in Nat
<1>1. OfType(Running, y) = OfType(Started, y) \union Admissible(y)
  BY DEF OfType, Running, Admissible
<1>2. OfType(Started, y) \intersect Admissible(y) = {}
  BY DEF OfType, Started, Waiting, Admissible
<1>3. OfType(Started, y) \in SUBSET Names /\ Admissible(y) \in SUBSET Names
  BY Basics DEF OfType, Admissible
<1>4. /\ IsFiniteSet(OfType(Started, y)) /\ IsFiniteSet(Admissible(y))
      /\ Cardinality(OfType(Started, y)) \in Nat /\ Cardinality(Admissible(y)) \in Nat
  BY <1>3, Basics
<1>5. Cardinality(OfType(Running, y)) =
        Cardinality(OfType(Started, y)) + Cardinality(Admissible(y)) - Cardinality({})
  BY <1>1, <1>2, <1>4, FS_Union
<1>6. QED
  BY <1>1, <1>4, <1>5, FS_EmptySet

\* However long the queue is, no more are let in than there are places.
LEMMA NoMoreThanPlaces ==
  ASSUME EventsTypeOK, NeverDropped, CapsHold, NEW y \in EventTypes
  PROVE  Cardinality(OfType(Running, y)) <= Cap[y]
<1> DEFINE n == Cardinality(OfType(Started, y))
           k == Cap[y] - n
           A == Admissible(y)
           rank == [i \in A |-> Rank(y, i)]
<1>1. n \in Nat /\ Cap[y] \in Nat /\ n <= Cap[y] /\ Cardinality(A) \in Nat
  BY EventsAssumption, RunningOfType DEF CapsHold
<1>2. k \in Nat /\ IsFiniteSet(0 .. k - 1) /\ Cardinality(0 .. k - 1) = k
  <2>1. k \in Nat
    BY <1>1
  <2> HIDE DEF k
  <2>2. QED
    BY <2>1, FS_Interval
<1>3. A \subseteq OfType(Waiting, y) /\ A \subseteq Names /\ IsFiniteSet(A)
  BY Basics DEF Admissible, OfType
<1>4. rank \in [A -> 0 .. k - 1]
  <2> SUFFICES ASSUME NEW i \in A PROVE Rank(y, i) \in 0 .. k - 1
    OBVIOUS
  <2>1. {j \in OfType(Waiting, y) : j < i} \in SUBSET Names
    BY Basics DEF OfType
  <2>2. Rank(y, i) \in Nat
    BY <2>1, Basics DEF Rank
  <2>3. n + Rank(y, i) < Cap[y]
    BY <1>3, AdmittedByRank DEF Admissible
  <2> HIDE DEF n
  <2>4. QED
    BY <1>1, <2>2, <2>3
<1>5. Cardinality(A) <= k
  <2> SUFFICES ASSUME k < Cardinality(A) PROVE FALSE
    BY <1>1, <1>2
  <2>1. \E i, j \in A : i # j /\ rank[i] = rank[j]
    <3> HIDE DEF rank, A, k
    <3>1. QED
      BY <1>2, <1>3, <1>4, FS_PigeonHole
  <2>2. PICK i \in A, j \in A : i # j /\ Rank(y, i) = Rank(y, j)
    BY <2>1
  <2>3. i \in Nat /\ j \in Nat
    BY <1>3, Basics DEF Names
  <2>4. QED
    BY <1>3, <2>2, <2>3, RankGrows
<1>6. QED
  BY <1>1, <1>5, RunningOfType

\* An event that has to wait leaves no place idle.
LEMMA NoFewerThanPlaces ==
  ASSUME EventsTypeOK, NeverDropped, CapsHold, NEW y \in EventTypes,
         NEW i \in OfType(Waiting, y), ~Admitted(i)
  PROVE  Cardinality(OfType(Running, y)) = Cap[y]
<1> DEFINE Left == {j \in OfType(Waiting, y) : ~Admitted(j)}
           Upto == {1 .. j : j \in Left}
<1>1. Left \subseteq Names /\ Names \subseteq Nat /\ i \in Left
  BY Basics DEF OfType, Names
<1>2. PICK j \in Left : \A h \in Left : ~(h < j)
  <2>1. Upto \subseteq FiniteSubsetsOf(Names)
    BY <1>1, Basics, FS_Subset DEF FiniteSubsetsOf, Names
  <2>2. PICK x \in Upto : \A z \in Upto : ~(<<z, x>> \in StrictSubsetOrdering(Names))
    <3>1. Upto # {}
      BY <1>1
    <3> HIDE DEF Upto
    <3>2. QED
      BY <2>1, <3>1, WFMin, FS_StrictSubsetOrderingWellFounded
  <2>3. PICK j \in Left : x = 1 .. j
    BY <2>2
  <2>4. ASSUME NEW h \in Left, h < j PROVE FALSE
    <3>1. 1 .. h \in SUBSET Names /\ 1 .. j \in SUBSET Names /\ 1 .. h \subseteq 1 .. j
          /\ 1 .. h # 1 .. j
      BY <1>1, <2>4, Basics DEF Names
    <3>2. <<1 .. h, 1 .. j>> \in StrictSubsetOrdering(Names)
      BY <3>1 DEF StrictSubsetOrdering
    <3>3. QED
      BY <2>2, <2>3, <3>2
  <2>5. QED
    BY <2>4
<1> DEFINE S == {h \in OfType(Waiting, y) : h < j}
<1>3. S \subseteq Admissible(y)
  BY <1>2 DEF Admissible
<1>4. Admissible(y) \in SUBSET Names /\ S \in SUBSET Names
  BY Basics DEF Admissible, OfType
<1>5. Rank(y, j) \in Nat /\ Rank(y, j) <= Cardinality(Admissible(y))
  <2>1. IsFiniteSet(Admissible(y)) /\ Cardinality(S) \in Nat
    BY <1>4, Basics
  <2>2. QED
    BY <1>3, <2>1, FS_Subset DEF Rank
<1>6. ~(Cardinality(OfType(Started, y)) + Rank(y, j) < Cap[y])
  BY <1>2, AdmittedByRank
<1>7. Cap[y] \in Nat
  BY EventsAssumption
<1>8. QED
  BY <1>5, <1>6, <1>7, RunningOfType, NoMoreThanPlaces

-----------------------------------------------------------------------------
(* The invariant, step by step *)

AllSettled == \A i \in Started : Settled(events[i], weather, Rivals(i))

IInv ==
  EventsTypeOK /\ NeverDropped /\ CapsHold /\ StartedInOrder /\ RaidsCountedOnce /\ AllSettled

LEMMA SkyTyped ==
  ASSUME sky \in [type : Weathers, season : Seasons, age : Nat, left : Nat]
  PROVE  /\ NextSkies \subseteq [type : Weathers, season : Seasons, age : Nat, left : Nat]
         /\ SkyLater \in [type : Weathers, season : Seasons, age : Nat, left : Nat]
<1> DEFINE Skies == [type : Weathers, season : Seasons, age : Nat, left : Nat]
           s == InSeason(sky)
<1>1. s \in Skies
  <2> DEFINE next == (sky.season % 4) + 1
             u == [sky EXCEPT !.season = next]
             t == [u EXCEPT !.age = 0]
  <2>1. next \in Seasons
    BY DEF Seasons
  <2>2. s = sky \/ s = t
    BY DEF InSeason
  <2> HIDE DEF next
  <2>3. u \in Skies
    BY <2>1
  <2> HIDE DEF u
  <2>4. t \in Skies
    BY <2>3
  <2>5. QED
    BY <2>2, <2>4
<1> HIDE DEF s
<1>2. ASSUME NEW w \in Weathers, NEW d \in WeatherSpans[w]
      PROVE  [s EXCEPT !.type = w, !.left = d] \in Skies
  <2> DEFINE u == [s EXCEPT !.type = w]
             t == [u EXCEPT !.left = d]
  <2>1. d \in Nat
    BY WeatherAssumption
  <2>2. u \in Skies
    BY <1>1
  <2>3. t = [s EXCEPT !.type = w, !.left = d]
    OBVIOUS
  <2> HIDE DEF u
  <2>4. t \in Skies
    BY <2>1, <2>2
  <2>5. QED
    BY <2>3, <2>4
<1>3. Drawn(s.season) \subseteq Weathers
  BY DEF Drawn, Weathers
<1>4. NextSkies \subseteq Skies
  <2> SUFFICES ASSUME NEW n \in NextSkies PROVE n \in Skies
    OBVIOUS
  <2>1. CASE s.left > 0
    BY <1>1, <2>1 DEF NextSkies, s
  <2>2. CASE ~(s.left > 0)
    <3>1. n \in UNION {{[s EXCEPT !.type = w, !.left = d] : d \in WeatherSpans[w]} : w \in Drawn(s.season)}
      BY <2>2 DEF NextSkies, s
    <3>2. PICK w \in Drawn(s.season) : n \in {[s EXCEPT !.type = w, !.left = d] : d \in WeatherSpans[w]}
      BY <3>1
    <3>3. QED
      BY <1>2, <1>3, <3>2
  <2>3. QED
    BY <2>1, <2>2
<1>5. SkyLater \in Skies
  <2> DEFINE u == [sky EXCEPT !.age = @ + 1]
             d == IF sky.left > 0 THEN sky.left - 1 ELSE 0
             t == [u EXCEPT !.left = d]
  <2>1. d \in Nat
    OBVIOUS
  <2>2. u \in Skies
    OBVIOUS
  <2>3. t = SkyLater
    BY DEF SkyLater
  <2> HIDE DEF u, d
  <2>4. QED
    BY <2>1, <2>2, <2>3
<1>6. QED
  BY <1>4, <1>5

LEMMA InitEstablishes == Init => IInv
<1> SUFFICES ASSUME Init PROVE IInv
  OBVIOUS
<1>1. events = <<>> /\ raidsRepelled = 0 /\ DOMAIN events = {}
  BY EmptySeq, LenProperties DEF Init, EventsInit
<1>2. EventsTypeOK
  BY <1>1, EmptySeq, EventsAssumption
  DEF Init, EventsInit, WeatherInit, EventsTypeOK, Weathers, Seasons
<1>3. NeverDropped /\ StartedInOrder
  BY <1>1 DEF NeverDropped, StartedInOrder
<1>4. CapsHold
  <2>1. \A y \in EventTypes : OfType(Started, y) = {} /\ Cap[y] \in Nat
    BY <1>1, EventsAssumption DEF OfType, Started
  <2>2. QED
    BY <2>1, FS_EmptySet DEF CapsHold
<1>5. RaidsCountedOnce
  <2>1. {i \in DOMAIN events : events[i].type = "banditRaid"
                               /\ events[i].status \notin {"prepare", "active"}} = {}
    BY <1>1
  <2>2. QED
    BY <1>1, <2>1, FS_EmptySet DEF RaidsCountedOnce
<1>6. AllSettled
  BY <1>1 DEF AllSettled, Started
<1>7. QED
  BY <1>2, <1>3, <1>4, <1>5, <1>6 DEF IInv

\* A new event goes to the end of the queue.
LEMMA QueueFields ==
  ASSUME EventsTypeOK, NeverDropped, NEW e \in Events, e.status = "prepare", Queue(e)
  PROVE  /\ events' \in Seq(Events)
         /\ DOMAIN events' = Names \union {Len(events) + 1}
         /\ events'[Len(events) + 1] = e
         /\ \A i \in Names : events'[i] = events[i] /\ i < Len(events) + 1
         /\ Started' = Started
<1>1. Len(events) \in Nat /\ events \in Seq(Events)
  BY Basics DEF EventsTypeOK
<1>2. /\ events' \in Seq(Events)
      /\ DOMAIN events' = 1 .. Len(events) + 1
      /\ events'[Len(events) + 1] = e
      /\ \A i \in 1 .. Len(events) : events'[i] = events[i]
  BY <1>1, LenProperties DEF Queue
<1>3. /\ DOMAIN events' = Names \union {Len(events) + 1}
      /\ \A i \in Names : events'[i] = events[i] /\ i < Len(events) + 1
  BY <1>1, <1>2 DEF Names
<1>4. Started' = Started
  BY <1>2, <1>3, Basics DEF Started
<1>5. QED
  BY <1>2, <1>3, <1>4

LEMMA QueueKeeps ==
  ASSUME IInv, NEW e \in Events, e.status = "prepare", Queue(e),
         UNCHANGED <<raidsRepelled, weather, scene, sky>>
  PROVE  IInv'
<1>1. EventsTypeOK /\ NeverDropped
  BY DEF IInv
<1>2. EventsTypeOK' /\ NeverDropped'
  BY <1>1, QueueFields, Basics DEF EventsTypeOK, NeverDropped
<1>3. CapsHold'
  <2>1. \A y : OfType(Started, y)' = OfType(Started, y)
    BY <1>1, QueueFields, Basics DEF OfType
  <2>2. QED
    BY <2>1 DEF IInv, CapsHold
<1>4. StartedInOrder'
  <2>1. \A i \in Names : i \in Nat
    BY DEF Names
  <2>2. Len(events) \in Nat
    BY <1>1, Basics
  <2>3. QED
    BY <1>1, <2>1, <2>2, QueueFields, Basics DEF IInv, StartedInOrder
<1>5. RaidsCountedOnce'
  <2>1. {i \in DOMAIN events' : events'[i].type = "banditRaid"
                                /\ events'[i].status \notin {"prepare", "active"}}
          = {i \in DOMAIN events : events[i].type = "banditRaid"
                                   /\ events[i].status \notin {"prepare", "active"}}
    BY <1>1, QueueFields, Basics
  <2>2. QED
    BY <2>1 DEF IInv, RaidsCountedOnce
<1>6. AllSettled'
  <2>1. \A i \in Started : events'[i] = events[i]
    BY <1>1, QueueFields, Basics
  <2>2. \A a : Overlap(events, Started, a)' = Overlap(events, Started, a)
    <3> SUFFICES ASSUME NEW a PROVE Overlap(events', Started', a) = Overlap(events, Started, a)
      OBVIOUS
    <3>1. /\ {i \in Started' : events'[i].target = a} = {i \in Started : events[i].target = a}
          /\ {i \in Started' : events'[i].target = a /\ events'[i].listed} =
               {i \in Started : events[i].target = a /\ events[i].listed}
      BY <1>1, <2>1, QueueFields
    <3>2. QED
      BY <3>1 DEF Overlap
  <2>3. ASSUME NEW i \in Started' PROVE Settled(events[i], weather, Rivals(i))'
    <3>1. i \in Started /\ Settled(events[i], weather, Rivals(i)) /\ events'[i] = events[i]
      BY <1>1, <2>1, QueueFields DEF IInv, AllSettled
    <3>2. Rivals(i)' = Rivals(i)
      BY <2>1, <2>2, <3>1 DEF Rivals
    <3>3. QED
      BY <3>1, <3>2
      DEF Settled, Handled, HandleRaid, HandleMigration, Rehydrated, HandleCaravan
  <2>4. QED
    BY <2>3 DEF AllSettled
<1>7. QED
  BY <1>2, <1>3, <1>4, <1>5, <1>6 DEF IInv

LEMMA TickKeeps ==
  ASSUME IInv, NEW w \in Weathers, EventTick(w), UNCHANGED sky PROVE IInv'
<1>1. EventsTypeOK /\ NeverDropped /\ CapsHold
  BY DEF IInv
<1> DEFINE Over == {i \in DOMAIN events : events[i].type = "banditRaid"
                                          /\ events[i].status \notin {"prepare", "active"}}
           Ending == {i \in Running : events[i].type = "banditRaid" /\ Expires(Activated(i))}
<1>2. /\ raidsRepelled' = raidsRepelled + Cardinality(Ending)
      /\ weather' = w /\ UNCHANGED scene
  BY DEF EventTick, Running
<1>3. NeverDropped'
  BY <1>1, TickFields, ActivatedFields DEF NeverDropped
<1>4. CapsHold'
  <2>1. \A y : OfType(Started, y)' = OfType(Running, y)
    BY <1>1, TickFields, Basics DEF OfType
  <2>2. QED
    BY <1>1, <2>1, NoMoreThanPlaces DEF CapsHold
<1>5. StartedInOrder'
  <2> SUFFICES ASSUME NEW i \in DOMAIN events', NEW j \in DOMAIN events',
                      i < j, events'[i].type = events'[j].type, events'[j].status # "prepare"
               PROVE  events'[i].status # "prepare"
    BY DEF StartedInOrder
  <2>1. i \in Names /\ j \in Names /\ events[i].type = events[j].type /\ j \in Running
    BY <1>1, TickFields
  <2>2. i \in Running
    <3>1. CASE j \in Started
      BY <1>1, <2>1, <3>1, Basics DEF IInv, StartedInOrder, Started, NeverDropped, Running
    <3>2. CASE j \notin Started /\ i \notin Started
      <4> DEFINE y == events[j].type
      <4>1. i \in OfType(Waiting, y) /\ j \in OfType(Waiting, y) /\ Admitted(j)
        BY <1>1, <2>1, <3>2, Basics DEF OfType, Waiting, Started, NeverDropped, Running
      <4>2. y \in EventTypes
        BY <1>1, <2>1, Basics DEF Events
      <4>3. Cardinality(OfType(Started, y)) + Rank(y, j) < Cap[y]
        BY <4>1, AdmittedByRank
      <4>4. Rank(y, i) \in Nat /\ Rank(y, j) \in Nat /\ Rank(y, i) + 1 <= Rank(y, j)
        BY <1>1, <2>1, <4>1, RankGrows
      <4>5. Cardinality(OfType(Started, y)) \in Nat /\ Cap[y] \in Nat
        BY <1>1, <4>2, RunningOfType, EventsAssumption
      <4>6. Cardinality(OfType(Started, y)) + Rank(y, i) < Cap[y]
        BY <4>3, <4>4, <4>5
      <4>7. QED
        BY <4>1, <4>6, AdmittedByRank DEF Running, OfType
    <3>3. CASE i \in Started
      BY <3>3 DEF Running
    <3>4. QED
      BY <3>1, <3>2, <3>3
  <2>3. QED
    BY <1>1, <2>2, TickFields, ActivatedFields
<1>6. RaidsCountedOnce'
  <2>1. {i \in DOMAIN events' : events'[i].type = "banditRaid"
                                /\ events'[i].status \notin {"prepare", "active"}}
          = Over \union Ending
    <3>1. \A i \in Running : events'[i].status \notin {"prepare", "active"}
                               <=> Expires(Activated(i)) \/ events[i].status \notin {"prepare", "active"}
      BY <1>1, TickFields, ActivatedFields
    <3>2. QED
      BY <1>1, <3>1, TickFields, Basics
  <2>2. Over \intersect Ending = {}
    BY <1>1, ActivatedFields DEF Expires
  <2>3. Over \in SUBSET Names /\ Ending \in SUBSET Names
    BY <1>1, Basics
  <2>4. IsFiniteSet(Over) /\ IsFiniteSet(Ending) /\ Cardinality(Over) \in Nat /\ Cardinality(Ending) \in Nat
    BY <1>1, <2>3, Basics
  <2>5. Cardinality(Over \union Ending) = Cardinality(Over) + Cardinality(Ending)
    <3> HIDE DEF Over, Ending
    <3>1. Cardinality(Over \union Ending) = Cardinality(Over) + Cardinality(Ending) - Cardinality({})
      BY <2>2, <2>4, FS_Union
    <3>2. QED
      BY <2>4, <3>1, FS_EmptySet
  <2>6. raidsRepelled = Cardinality(Over)
    BY DEF IInv, RaidsCountedOnce
  <2>7. QED
    BY <1>2, <2>1, <2>5, <2>6 DEF RaidsCountedOnce
<1>7. AllSettled'
  <2> SUFFICES ASSUME NEW i \in Started' PROVE Settled(events[i], weather, Rivals(i))'
    BY DEF AllSettled
  <2>1. i \in Running /\ Rivals(i)' \in Int /\ events'[i] = Ticked(Activated(i), w, Rivals(i)')
    BY <1>1, TickFields
  <2>2. Settled(events'[i], w, Rivals(i)')
    BY <1>1, <2>1, ActivatedFields, TickSettles
  <2>3. QED
    BY <1>2, <2>2
    DEF Settled, Handled, HandleRaid, HandleMigration, Rehydrated, HandleCaravan
<1>8. EventsTypeOK'
  <2>1. Cardinality(Ending) \in Nat
    BY <1>1, Basics
  <2>2. QED
    BY <1>1, <1>2, <2>1, TickFields DEF EventsTypeOK
<1>9. QED
  BY <1>3, <1>4, <1>5, <1>6, <1>7, <1>8 DEF IInv

\* The invariant speaks of events, counts, weather and sky only.
LEMMA SkyKeeps ==
  ASSUME IInv, UNCHANGED eventVars,
         sky' \in [type : Weathers, season : Seasons, age : Nat, left : Nat]
  PROVE  IInv'
<1>1. UNCHANGED <<events, raidsRepelled, weather, scene>>
  BY DEF eventVars
<1>2. EventsTypeOK' /\ NeverDropped' /\ StartedInOrder'
  BY <1>1 DEF IInv, EventsTypeOK, NeverDropped, StartedInOrder
<1>3. CapsHold' /\ RaidsCountedOnce'
  BY <1>1 DEF IInv, CapsHold, RaidsCountedOnce, OfType, Started
<1>4. AllSettled'
  <2>1. ASSUME NEW i \in Started PROVE Settled(events[i], weather, Rivals(i))'
    <3>1. Settled(events[i], weather, Rivals(i)) /\ Rivals(i)' = Rivals(i)
      BY <1>1 DEF IInv, AllSettled, Rivals, Started, Overlap
    <3>2. QED
      BY <1>1, <3>1
      DEF Settled, Handled, HandleRaid, HandleMigration, Rehydrated, HandleCaravan
  <2>2. QED
    BY <1>1, <2>1 DEF AllSettled, Started
<1>5. QED
  BY <1>2, <1>3, <1>4 DEF IInv

LEMMA PreparedTyped ==
  ASSUME NEW y \in EventTypes, NEW n \in Nat, NEW a \in Anchors \union {None}, NEW l \in BOOLEAN
  PROVE  Prepared(y, n, a, l) \in Events /\ Prepared(y, n, a, l).status = "prepare"
  BY DEF Prepared, Events

LEMMA NextKeeps == IInv /\ [Next]_vars => IInv'
<1> SUFFICES ASSUME IInv, [Next]_vars PROVE IInv'
  OBVIOUS
<1>1. /\ sky \in [type : Weathers, season : Seasons, age : Nat, left : Nat]
      /\ sky.type \in Weathers
  BY DEF IInv, EventsTypeOK
<1>2. CASE Anchor \/ NotYet \/ TickWeather \/ BeginTick \/ FarmsChange \/ UNCHANGED vars
  <2>1. UNCHANGED eventVars
    BY <1>2 DEF Anchor, NotYet, TickWeather, BeginTick, FarmsChange, vars
  <2>2. sky' \in {sky, SkyLater} \union NextSkies
    BY <1>2 DEF Anchor, NotYet, TickWeather, BeginTick, FarmsChange, vars
  <2>3. QED
    BY <1>1, <2>1, <2>2, SkyTyped, SkyKeeps
<1>3. ASSUME NEW y \in EventTypes, NEW c \in BOOLEAN, Dispatch(y, c) PROVE IInv'
  <2>1. None \in Anchors \union {None} /\ DirectorIntensity \in Nat
    BY DirectorAssumption
  <2>2. QED
    BY <1>3, <2>1, PreparedTyped, QueueKeeps DEF Dispatch
<1>4. CASE TickEvents
  BY <1>1, <1>4, TickKeeps DEF TickEvents
<1>5. ASSUME NEW y \in EventTypes, NEW n \in Intensities, NEW a \in Pins, NEW l \in BOOLEAN,
             CallerQueues(y, n, a, l)
      PROVE  IInv'
  <2>1. n \in Nat /\ a \in Anchors \union {None}
    BY EventsAssumption
  <2>2. QED
    BY <1>5, <2>1, PreparedTyped, QueueKeeps DEF CallerQueues, EnqueueEvent
<1>6. QED
  BY <1>2, <1>3, <1>4, <1>5 DEF Next

\* The inductive invariant holds in every reachable state.
THEOREM EventsInvariant == Spec => []IInv
  BY InitEstablishes, NextKeeps, PTL DEF Spec

\* Never more events of a type at once than its cap allows, however many start
\* in one pass over the queue (_enforce_concurrency_caps).
THEOREM CapsAlwaysHold == Spec => []CapsHold
<1>1. IInv => CapsHold
  BY DEF IInv
<1>2. QED
  BY <1>1, EventsInvariant, PTL

\* Events of one type start in the order in which they were queued.
THEOREM QueueKeepsOrder == Spec => []StartedInOrder
<1>1. IInv => StartedInOrder
  BY DEF IInv
<1>2. QED
  BY <1>1, EventsInvariant, PTL

\* A raid that ends is counted once, although it is ticked for ever after.
THEOREM RaidsAreCountedOnce == Spec => []RaidsCountedOnce
<1>1. IInv => RaidsCountedOnce
  BY DEF IInv
<1>2. QED
  BY <1>1, EventsInvariant, PTL

\* Nothing that was queued is ever dropped: the filter at the end of a tick
\* waits for a status that no tick assigns (WorldEventSystem.tick).
THEOREM NothingIsDropped == Spec => []NeverDropped
<1>1. IInv => NeverDropped
  BY DEF IInv
<1>2. QED
  BY <1>1, EventsInvariant, PTL

-----------------------------------------------------------------------------
(* What a step may not do *)

\* What a tick leaves as it is: the effects of an event whose weather and
\* rivals are those of the last tick.
LEMMA TickLeavesEffects ==
  ASSUME IInv, NEW w \in Weathers, EventTick(w), weather' = weather, Started' = Started
  PROVE  \A i \in Started : Effects(events'[i]) = Effects(events[i])
<1>1. EventsTypeOK /\ NeverDropped /\ Running = Started /\ w = weather
  BY TickFields DEF IInv, EventTick
<1>2. \A i \in Started : SameTarget(events[i], events'[i])
  <2> SUFFICES ASSUME NEW i \in Started PROVE SameTarget(events[i], events'[i])
    OBVIOUS
  <2>1. /\ events[i] \in Events /\ events[i].status \in {"active", "resolve"}
        /\ Rivals(i)' \in Int /\ events'[i] = Ticked(events[i], w, Rivals(i)')
    BY <1>1, TickFields, ActivatedFields
  <2>2. SameTarget(Handled(events[i], w), events'[i])
    BY <2>1, TickedFields
  <2>3. SameTarget(events[i], Handled(events[i], w))
    BY <1>1 DEF IInv, AllSettled, Settled
  <2>4. QED
    BY <2>2, <2>3 DEF SameTarget
<1>3. \A i \in Started : Rivals(i)' = Rivals(i)
  <2> SUFFICES ASSUME NEW i \in Started
               PROVE  Overlap(events', Started, events[i].target) = Overlap(events, Started, events[i].target)
    BY <1>2 DEF Rivals, SameTarget
  <2> DEFINE a == events[i].target
  <2>1. /\ {j \in Started : events'[j].target = a} = {j \in Started : events[j].target = a}
        /\ {j \in Started : events'[j].target = a /\ events'[j].listed} =
             {j \in Started : events[j].target = a /\ events[j].listed}
    BY <1>2 DEF SameTarget
  <2>2. QED
    BY <2>1 DEF Overlap
<1> SUFFICES ASSUME NEW i \in Started PROVE Effects(events'[i]) = Effects(events[i])
  OBVIOUS
<1> DEFINE h == Handled(events[i], w)
           c == Contested(Aged(h), Rivals(i))
<1>4. /\ events[i] \in Events /\ events[i].status \in {"active", "resolve"}
      /\ Rivals(i) \in Int /\ events'[i] = Filtered(c)
  BY <1>1, <1>3, TickFields, ActivatedFields DEF Ticked
<1>5. Effects(c) = Effects(events[i])
  BY <1>1 DEF IInv, AllSettled, Settled
<1>6. h \in Events /\ h.base \in Nat /\ h.status = events[i].status
  BY <1>1, <1>4, HandledFields DEF Same
<1> HIDE DEF h
<1>7. Aged(h) \in Events /\ Aged(h).base \in Nat /\ Aged(h).status # "cooldown"
  BY <1>4, <1>6, AgedFields
<1>8. c.status # "cooldown"
  BY <1>4, <1>7, ContestedFields DEF Same
<1>9. QED
  BY <1>4, <1>5, <1>8 DEF Filtered

\* The penalty for sharing a target does not build up: while the weather stays
\* and no event starts, every pressure and reward stays
\* (_apply_contested_pressure starts from the base of the event).
THEOREM PenaltiesSettle == Spec => PressureSettled
<1> DEFINE Quiet == weather' = weather /\ Started' = Started =>
                      \A i \in Started : Effects(events'[i]) = Effects(events[i])
<1>1. IInv /\ [Next]_vars => [Quiet]_eventVars
  <2> SUFFICES ASSUME IInv, [Next]_vars, weather' = weather, Started' = Started, eventVars' # eventVars
               PROVE  \A i \in Started : Effects(events'[i]) = Effects(events[i])
    OBVIOUS
  <2>1. EventsTypeOK /\ NeverDropped
    BY DEF IInv
  <2>2. ASSUME NEW e \in Events, e.status = "prepare", Queue(e)
        PROVE  \A i \in Started : Effects(events'[i]) = Effects(events[i])
    BY <2>1, <2>2, QueueFields, Basics
  <2>3. ASSUME NEW y \in EventTypes, NEW c \in BOOLEAN, Dispatch(y, c)
        PROVE  \E e \in Events : e.status = "prepare" /\ Queue(e)
    BY <2>3, PreparedTyped, DirectorAssumption DEF Dispatch
  <2>4. ASSUME NEW y \in EventTypes, NEW n \in Intensities, NEW a \in Pins, NEW l \in BOOLEAN,
               CallerQueues(y, n, a, l)
        PROVE  \E e \in Events : e.status = "prepare" /\ Queue(e)
    BY <2>4, PreparedTyped, EventsAssumption DEF CallerQueues, EnqueueEvent
  <2>5. CASE TickEvents
    BY <2>1, <2>5, TickLeavesEffects DEF TickEvents, EventsTypeOK
  <2>6. CASE Anchor \/ NotYet \/ TickWeather \/ BeginTick \/ FarmsChange \/ UNCHANGED vars
    BY <2>6 DEF Anchor, NotYet, TickWeather, BeginTick, FarmsChange, vars
  <2>7. QED
    BY <2>2, <2>3, <2>4, <2>5, <2>6 DEF Next
<1>2. QED
  BY <1>1, EventsInvariant, PTL DEF Spec, PressureSettled

\* The queue holds an event back only while its type is at its cap
\* (_enforce_concurrency_caps drains it once a tick, before anything ends).
THEOREM PlacesAreUsed == Spec => NoIdlePlace
<1> DEFINE Full == turn = "events" /\ turn' = "idle" =>
                     \A i \in Waiting' :
                       Cardinality(OfType(Started, events[i].type)') = Cap[events[i].type]
<1>1. IInv /\ [Next]_vars => [Full]_vars
  <2> SUFFICES ASSUME IInv, [Next]_vars, vars' # vars, turn = "events", turn' = "idle",
                      NEW i \in Waiting'
               PROVE  Cardinality(OfType(Started, events[i].type)') = Cap[events[i].type]
    OBVIOUS
  <2>1. TickEvents
    BY DEF Next, Anchor, NotYet, Dispatch, TickWeather, BeginTick, FarmsChange, CallerQueues,
           directorVars, vars
  <2>2. /\ EventsTypeOK /\ NeverDropped /\ CapsHold
        /\ sky.type \in Weathers /\ EventTick(sky.type)
    BY <2>1 DEF IInv, EventsTypeOK, TickEvents
  <2> DEFINE y == events[i].type
  <2>3. i \in Names /\ events'[i].type = y /\ i \notin Running
    BY <2>2, TickFields, ActivatedFields DEF Waiting
  <2>4. i \in OfType(Waiting, y) /\ ~Admitted(i) /\ y \in EventTypes
    BY <2>2, <2>3, Basics, TickFields DEF OfType, Waiting, Running, Events
  <2>5. OfType(Started, y)' = OfType(Running, y)
    BY <2>2, <2>3, TickFields, Basics DEF OfType
  <2>6. QED
    BY <2>2, <2>4, <2>5, NoFewerThanPlaces
<1>2. QED
  BY <1>1, EventsInvariant, PTL DEF Spec, NoIdlePlace

=============================================================================
