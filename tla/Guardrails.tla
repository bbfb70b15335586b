----------------------------- MODULE Guardrails -----------------------------
(***************************************************************************)
(* The clamping layer between an answer of the model and the state of the  *)
(* simulation (simulation/ai/llm/guardrails.py): what a raw document of    *)
(* each channel becomes before it is committed.  Numbers are counted in    *)
(* tenths.  A text, its white space collapsed, is its length and the place *)
(* of one blank in it (0: none).                                           *)
(***************************************************************************)
EXTENDS Integers, FiniteSets, SequencesExt

CONSTANTS
  Junk,    \* a value that is no finite number
  Absent   \* an optional value that is not there

ASSUME JunkAssumption == Junk \notin Int

Weathers == {"clear", "rain", "storm", "drought", "winter"}

EventTypes == {"animalMigration", "banditRaid", "tradeCaravan", "moraleBreak",
               "diseaseOutbreak", "wildfire"}

Postures == {"defensive", "neutral", "offensive", "aggressive"}

Clamp(v, lo, hi, default) ==
  IF v = Junk THEN default ELSE IF v < lo THEN lo ELSE IF v > hi THEN hi ELSE v

\* The range of each number, and what stands for one that is missing.
Share(v)     == Clamp(v, 0, 10, 5)
Duration(v)  == Clamp(v, 80, 1800, 180)
Intensity(v) == Clamp(v, 4, 30, 10)
EventTime(v) == Clamp(v, 60, 600, 140)
PolicyTtl(v) == Clamp(v, 80, 1200, 240)
TargetTtl(v) == Clamp(v, 0, 1200, 120)

(***************************************************************************)
(* Texts.  The cut comes after the stripping, so that a text cut at a      *)
(* blank keeps it at its end; the next guard would strip it.               *)
(***************************************************************************)
NoText == [len |-> 0, blank |-> 0]

Stripped(t) ==
  IF t.len > 0 /\ t.blank = t.len THEN [len |-> t.len - 1, blank |-> 0] ELSE t

SanitizeText(t, limit) ==
  LET s == Stripped(t)
  IN IF s.len <= limit THEN s
     ELSE [len |-> limit, blank |-> IF s.blank <= limit THEN s.blank ELSE 0]

OrElse(t, default) == IF t = NoText THEN default ELSE t

(***************************************************************************)
(* Weights: a function on the names that occur in the answer.  A weight    *)
(* that is no number loses its name, one of zero keeps it.                 *)
(***************************************************************************)
ClampWeights(w, hi) ==
  LET kept == {k \in DOMAIN w : w[k] # Junk}
  IN [k \in kept |-> Clamp(w[k], 0, hi, 0)]

MaxWeight == 30

MaxBudget == 10000

\* The elements of s at the places I, in their order.
AtPlaces(s, I) ==
  [n \in 1..Cardinality(I) |-> s[CHOOSE i \in I : Cardinality({j \in I : j <= i}) = n]]

(***************************************************************************)
(* environment-director: the spawns are cut to three before the unknown    *)
(* ones among them are dropped.                                            *)
(***************************************************************************)
MaxSpawns == 3

GuardSpawn(s) == [s EXCEPT !.intensity = Intensity(@), !.duration = EventTime(@)]

KeptSpawns(s) == {i \in DOMAIN s : i <= MaxSpawns /\ s[i].type \in EventTypes}

\* What stands for a missing focus depends on the weather only.
FocusForWeather(weather) ==
  [len   |-> [clear |-> 15, rain |-> 24, storm |-> 20, drought |-> 16, winter |-> 17][weather],
   blank |-> 7]

SummaryOf(focus) == [len |-> 61 + focus.len, blank |-> 9]

GuardEnvironment(d) ==
  LET weather == IF d.weather \in Weathers THEN d.weather ELSE "clear"
      spawns  == AtPlaces(d.spawns, KeptSpawns(d.spawns))
      focus   == OrElse(SanitizeText(d.focus, 72), FocusForWeather(weather))
  IN [channel  |-> "environment",
      weather  |-> weather,
      duration |-> Duration(d.duration),
      tension  |-> Share(d.tension),
      spawns   |-> [i \in DOMAIN spawns |-> GuardSpawn(spawns[i])],
      focus    |-> focus,
      summary  |-> OrElse(SanitizeText(d.summary, 140), SummaryOf(focus))]

(***************************************************************************)
(* npc-policy.  Under a raid the intents of combat get a minimum weight.   *)
(***************************************************************************)
RaidThreat == 800

RaidIntents == {"evade", "flee", "deliver", "safety"}

RaidWeight == 15

WeightOf(w, k) == IF k \in DOMAIN w THEN w[k] ELSE 0

\* Fault: a boost instead of a minimum.
RaidBoost(w, threat) ==
  IF threat < RaidThreat THEN w
  ELSE [k \in DOMAIN w \cup RaidIntents |->
          IF k \in RaidIntents THEN WeightOf(w, k) + RaidWeight ELSE w[k]]

RaidPosture(w, threat) ==
  IF threat < RaidThreat THEN w
  ELSE [k \in DOMAIN w \cup RaidIntents |->
          IF k \in RaidIntents /\ WeightOf(w, k) < RaidWeight
          THEN RaidWeight
          ELSE w[k]]

GuardPolicy(p, threat) ==
  [group   |-> p.group,
   intents |-> RaidPosture(ClampWeights(p.intents, MaxWeight), threat),
   targets |-> ClampWeights(p.targets, MaxWeight),
   risk    |-> Share(p.risk),
   ttl     |-> PolicyTtl(p.ttl),
   summary |-> SanitizeText(p.summary, 140)]

Nameless == ""

\* Entries without a group are dropped, of several for a group the first is
\* kept; a state target needs a group that is left.
KeptPolicies(s) ==
  {i \in DOMAIN s : s[i].group # Nameless /\ \A j \in 1..(i - 1) : s[j].group # s[i].group}

KeptStates(s, groups) ==
  {i \in DOMAIN s :
     /\ s[i].group \in groups /\ s[i].state # Nameless
     /\ \A j \in 1..(i - 1) : <<s[j].group, s[j].state>> # <<s[i].group, s[i].state>>}

GuardState(s) == [s EXCEPT !.priority = Share(@), !.ttl = TargetTtl(@)]

GuardPolicies(e, threat) ==
  LET policies == AtPlaces(e.policies, KeptPolicies(e.policies))
      groups   == {policies[i].group : i \in DOMAIN policies}
      states   == AtPlaces(e.states, KeptStates(e.states, groups))
  IN [channel  |-> "policy",
      policies |-> [i \in DOMAIN policies |-> GuardPolicy(policies[i], threat)],
      states   |-> [i \in DOMAIN states |-> GuardState(states[i])]]

\* strategic-plan.  A risk that is absent stays absent.
GuardPlan(p) ==
  [channel |-> "plan",
   goal    |-> OrElse(SanitizeText(p.goal, 160), [len |-> 7, blank |-> 0]),
   budget  |-> ClampWeights(p.budget, MaxBudget),
   posture |-> IF p.posture \in Postures THEN p.posture ELSE "neutral",
   risk    |-> IF p.risk = Absent THEN Absent ELSE Share(p.risk)]

GuardDocument(d, threat) ==
  CASE d.channel = "environment" -> GuardEnvironment(d)
    [] d.channel = "policy"      -> GuardPolicies(d, threat)
    [] d.channel = "plan"        -> GuardPlan(d)

(***************************************************************************)
(* What there is to guard: fields of the right shape with any numbers, any *)
(* names and any texts in them.                                            *)
(***************************************************************************)
Number == Int \cup {Junk}

Text == {t \in [len : Nat, blank : Nat] : t.blank <= t.len}

IsWeights(w) == w \in [DOMAIN w -> Number]

IsPolicy(p) ==
  /\ IsWeights(p.intents) /\ IsWeights(p.targets)
  /\ p.risk \in Number /\ p.ttl \in Number /\ p.summary \in Text

IsDocument(d) ==
  \/ /\ d.channel = "environment"
     /\ d.duration \in Number /\ d.tension \in Number
     /\ d.spawns \in Seq([type : STRING, intensity : Number, duration : Number])
     /\ d.focus \in Text /\ d.summary \in Text
  \/ /\ d.channel = "policy"
     /\ d.policies \in Seq(ToSet(d.policies)) /\ \A i \in DOMAIN d.policies : IsPolicy(d.policies[i])
     /\ d.states \in Seq([group : STRING, state : STRING, priority : Number, ttl : Number])
  \/ /\ d.channel = "plan"
     /\ d.goal \in Text /\ IsWeights(d.budget)
     /\ d.risk = Absent \/ d.risk \in Number

(***************************************************************************)
(* response_schema.py: an answer inside these ranges passes as it is,      *)
(* another one is guarded all the same and counts as a fallback.           *)
(***************************************************************************)
Finite(w) == \A k \in DOMAIN w : w[k] # Junk

Within(v, lo, hi) == IF v = Junk THEN FALSE ELSE lo <= v /\ v <= hi

ValidPolicy(p) ==
  /\ p.group # Nameless
  /\ Finite(p.intents) /\ Finite(p.targets)
  /\ Within(p.risk, 0, 10) /\ Within(p.ttl, 80, 1200)

ValidEnvelope(e) ==
  /\ \A i \in DOMAIN e.policies : ValidPolicy(e.policies[i])
  /\ \A i \in DOMAIN e.states :
       /\ e.states[i].group # Nameless /\ e.states[i].state # Nameless
       /\ Within(e.states[i].priority, 0, 10) /\ Within(e.states[i].ttl, 0, 1200)

ValidSpawn(s) ==
  /\ s.type \in EventTypes
  /\ Within(s.intensity, 0, 100) /\ Within(s.duration, 0, 6000)

ValidEnvironment(d) ==
  /\ d.weather \in Weathers
  /\ Within(d.duration, 80, 1800) /\ Within(d.tension, 0, 10)
  /\ Len(d.spawns) <= MaxSpawns
  /\ \A i \in DOMAIN d.spawns : ValidSpawn(d.spawns[i])

ValidPlan(p) ==
  /\ p.goal # NoText
  /\ Finite(p.budget)
  /\ p.posture \in Postures
  /\ p.risk = Absent \/ Within(p.risk, 0, 10)

Valid(d) ==
  CASE d.channel = "environment" -> ValidEnvironment(d)
    [] d.channel = "policy"      -> ValidEnvelope(d)
    [] d.channel = "plan"        -> ValidPlan(d)

=============================================================================
