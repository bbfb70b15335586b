----------------------------- MODULE WorkersProofs -----------------------------
(***************************************************************************)
(* The workers, whatever the model answers, whoever the agents are and     *)
(* wherever the scenario has its places: the dispatcher answers to         *)
(* hostiles, the workers follow the policy in force and earn when told to  *)
(* harvest, what is committed is stable under the guards, and a pass over  *)
(* the roles fills none above its quota.                                   *)
(***************************************************************************)
EXTENDS Workers, FiniteSetTheorems, SequenceTheorems, WellFoundedInduction, TLAPS

-----------------------------------------------------------------------------
(* The dispatcher *)

States == {"IDLE", "SEEKING_REST", "RESTING", "FIGHTING", "SEEKING_HARVEST", "HARVESTING",
           "DELIVERING", "DEPOSITING", "SEEKING_BUILD", "BUILDING"}

LEMMA HostileTriggers ==
  ASSUME NEW s
  PROVE  /\ "hostile" \in Triggers(s) <=> Seen(s).hostile
         /\ "calm" \in Triggers(s) <=> ~ Seen(s).hostile
  BY DEF Triggers, TriggersOf

LEMMA SampledStates ==
  ASSUME NEW w
  PROVE  Sampled(w) \subseteq States
  BY DEF Sampled, Drawn, IntentState, States

\* From every state a hostile that is seen leads to the fight and nothing else
\* does.
LEMMA DispatchFights ==
  ASSUME NEW f \in States, NEW s
  PROVE  Dispatch(f, s) \in States /\ (Dispatch(f, s) = "FIGHTING" <=> Seen(s).hostile)
<1> DEFINE m == Matching(f, s)
           T == Transitions[f]
           first(i) == i \in m /\ \A j \in m : i <= j
<1>1. f # "FIGHTING" => 1 \in DOMAIN T /\ T[1] = <<"hostile", "FIGHTING">>
  BY DEF States, Transitions
<1>2. \A i \in DOMAIN T : T[i][2] \in States /\ (T[i][2] = "FIGHTING" => T[i][1] = "hostile")
  <2>1. CASE f = "IDLE"
    BY <2>1 DEF States, Transitions
  <2>2. CASE f = "SEEKING_REST"
    BY <2>2 DEF States, Transitions
  <2>3. CASE f = "RESTING"
    BY <2>3 DEF States, Transitions
  <2>4. CASE f = "FIGHTING"
    BY <2>4 DEF States, Transitions
  <2>5. CASE f = "SEEKING_HARVEST"
    BY <2>5 DEF States, Transitions
  <2>6. CASE f = "HARVESTING"
    BY <2>6 DEF States, Transitions
  <2>7. CASE f = "DELIVERING"
    BY <2>7 DEF States, Transitions
  <2>8. CASE f = "DEPOSITING"
    BY <2>8 DEF States, Transitions
  <2>9. CASE f = "SEEKING_BUILD"
    BY <2>9 DEF States, Transitions
  <2>10. CASE f = "BUILDING"
    BY <2>10 DEF States, Transitions
  <2>11. QED
    BY <2>1, <2>2, <2>3, <2>4, <2>5, <2>6, <2>7, <2>8, <2>9, <2>10 DEF States
<1>3. f = "FIGHTING" => DOMAIN T = {1} /\ T[1] = <<"calm", "IDLE">>
  BY DEF Transitions
<1>4. m \subseteq DOMAIN T /\ DOMAIN T \subseteq 1 .. 5 /\ \A i \in DOMAIN T : i \in m <=> T[i][1] \in Triggers(s)
  BY DEF Matching, Transitions, States
<1> HIDE DEF T
<1>5. m # {} => \E i \in m : \A j \in m : i <= j
  BY <1>4
<1>6. Dispatch(f, s) = IF m = {} THEN f ELSE T[CHOOSE i \in m : \A j \in m : i <= j][2]
  BY DEF Dispatch, T
<1> DEFINE c == CHOOSE i \in m : \A j \in m : i <= j
<1>7. m # {} => c \in m /\ \A j \in m : c <= j
  BY <1>5
<1> HIDE DEF m, c
<1>8. CASE f = "FIGHTING"
  <2>1. Seen(s).hostile => m = {}
    BY <1>3, <1>4, <1>8, HostileTriggers
  <2>2. ~ Seen(s).hostile => m # {} /\ T[c][2] = "IDLE"
    BY <1>3, <1>4, <1>7, <1>8, HostileTriggers
  <2>3. QED
    BY <1>6, <1>8, <2>1, <2>2 DEF c, States
<1>9. CASE f # "FIGHTING"
  <2>1. Seen(s).hostile => m # {} /\ c = 1
    BY <1>1, <1>4, <1>7, <1>9, HostileTriggers
  <2>2. ~ Seen(s).hostile => m = {} \/ (c \in m /\ T[c][2] \in States /\ T[c][2] # "FIGHTING")
    BY <1>2, <1>4, <1>7, HostileTriggers
  <2>3. Dispatch(f, s) = IF m = {} THEN f ELSE T[c][2]
    BY <1>6 DEF c
  <2>4. T[1][2] = "FIGHTING" /\ "FIGHTING" \in States
    BY <1>1, <1>9 DEF States
  <2>5. QED
    BY <1>9, <2>1, <2>2, <2>3, <2>4
<1>10. QED
  BY <1>8, <1>9

-----------------------------------------------------------------------------
(* The invariant of the dispatcher's worker *)

Bodies ==
  [shape : Shapes, fsm : States \cup {NoState}, target : BOOLEAN, hostile : BOOLEAN,
   arrived : BOOLEAN, failed : BOOLEAN, load : Loads,
   rest : {"tired", "fair", "recovered"}, role : {"BUILDER", "FARM", "GUARD"},
   sites : BOOLEAN]

BodyInv ==
  /\ body \in Bodies
  /\ passed \in BOOLEAN
  /\ FightAsHostile

LEMMA BodyKept ==
  ASSUME BodyInv, [Next]_vars
  PROVE  BodyInv'
<1>1. CASE UNCHANGED dispatcher
  BY <1>1 DEF BodyInv, FightAsHostile, dispatcher
<1>2. CASE Sense
  <2>1. PICK felt \in Felt : body' = [body EXCEPT ![felt[1]] = felt[2]]
    BY <1>2 DEF Sense
  <2>2. passed' = FALSE
    BY <1>2 DEF Sense
  <2> DEFINE v == felt[2]
  <2>3. body' \in Bodies
    <3>1. CASE felt \in {"target", "hostile", "arrived", "failed", "sites"} \X BOOLEAN
      <4>1. felt[1] \in {"target", "hostile", "arrived", "failed", "sites"} /\ v \in BOOLEAN
        BY <3>1
      <4> HIDE DEF v
      <4>2. body' = [body EXCEPT ![felt[1]] = v]
        BY <2>1 DEF v
      <4>3. QED
        BY <4>1, <4>2 DEF BodyInv, Bodies
    <3>2. CASE felt \in {"load"} \X Loads
      BY <2>1, <3>2 DEF BodyInv, Bodies
    <3>3. CASE felt \in {"rest"} \X {"tired", "fair", "recovered"}
      BY <2>1, <3>3 DEF BodyInv, Bodies
    <3>4. CASE felt \in {"role"} \X {"BUILDER", "FARM", "GUARD"}
      BY <2>1, <3>4 DEF BodyInv, Bodies
    <3>5. QED
      BY <3>1, <3>2, <3>3, <3>4 DEF Felt
  <2>4. QED
    BY <2>2, <2>3 DEF BodyInv, FightAsHostile
<1>3. CASE TickWorker
  <2>1. PICK f \in (IF body.fsm = NoState THEN FirstStates ELSE {body.fsm}) :
          body' = [body EXCEPT !.fsm = Dispatch(f, body),
                               !.target = body.target /\ Dispatch(f, body) = f]
    BY <1>3 DEF TickWorker
  <2>2. passed' = TRUE
    BY <1>3 DEF TickWorker
  <2>3. f \in States
    <3>1. FirstStates \subseteq States
      BY SampledStates DEF FirstStates, States
    <3>2. QED
      BY <2>1, <3>1 DEF BodyInv, Bodies
  <2> DEFINE next == Dispatch(f, body)
             t == body.target /\ next = f
             b == [body EXCEPT !.fsm = next]
  <2>4. next \in States /\ (next = "FIGHTING" <=> Seen(body).hostile) /\ t \in BOOLEAN
    BY <2>3, DispatchFights
  <2>5. Seen(body).hostile <=> body.shape = "object" /\ body.hostile
    BY DEF Seen, Defaults, BodyInv, Bodies
  <2>6. body' = [b EXCEPT !.target = t]
    BY <2>1
  <2> HIDE DEF next, t
  <2>7. /\ b \in Bodies
        /\ b.fsm = next /\ b.hostile = body.hostile /\ b.shape = body.shape
    BY <2>4 DEF BodyInv, Bodies
  <2> HIDE DEF b
  <2>8. QED
    BY <2>2, <2>4, <2>5, <2>6, <2>7 DEF BodyInv, Bodies, FightAsHostile
<1>4. QED
  BY <1>1, <1>2, <1>3 DEF Next, vars, DecidePolicy, DecideOther, Tick, Die, Recruit, ThreatMoves,
     AssignRoles, Leave, Join

LEMMA BodyStarts ==
  ASSUME Init
  PROVE  BodyInv
<1>1. (\E shape \in Shapes : body = Unfelt(shape)) /\ passed = FALSE
  BY DEF Init, Shapes
<1>2. FightAsHostile
  BY <1>1 DEF FightAsHostile
<1>3. body \in Bodies
  BY <1>1 DEF Unfelt, Loads, Bodies
<1>4. QED
  BY <1>1, <1>2, <1>3 DEF BodyInv

-----------------------------------------------------------------------------
(* Places picked out of a sequence *)

Pick(I, n) == CHOOSE i \in I : Cardinality({j \in I : j <= i}) = n

\* Every rank is that of one place, and no two ranks are of the same.
LEMMA PickRanks ==
  ASSUME NEW m \in Nat, NEW I, I \subseteq 1 .. m
  PROVE  /\ IsFiniteSet(I) /\ Cardinality(I) \in 0 .. m
         /\ \A n \in 1 .. Cardinality(I) : Pick(I, n) \in I
         /\ \A n, k \in 1 .. Cardinality(I) : Pick(I, n) = Pick(I, k) => n = k
<1> DEFINE below(i) == {j \in I : j <= i}
           r == [i \in I |-> Cardinality(below(i))]
           c == Cardinality(I)
<1>1. IsFiniteSet(I) /\ c \in 0 .. m
  <2>1. IsFiniteSet(1 .. m) /\ Cardinality(1 .. m) = m
    BY FS_Interval
  <2>2. IsFiniteSet(I) /\ c <= m
    BY <2>1, FS_Subset
  <2>3. c \in Nat
    BY <2>2, FS_CardinalityType
  <2>4. QED
    BY <2>2, <2>3
<1>2. \A i : IsFiniteSet(below(i)) /\ Cardinality(below(i)) \in 0 .. c
  <2> SUFFICES ASSUME NEW i PROVE IsFiniteSet(below(i)) /\ Cardinality(below(i)) \in 0 .. c
    OBVIOUS
  <2>1. below(i) \in SUBSET I
    OBVIOUS
  <2> HIDE DEF below
  <2>2. QED
    BY <1>1, <2>1, FS_Subset, FS_CardinalityType
<1>3. \A i \in I : Cardinality(below(i)) \in 1 .. c
  <2> SUFFICES ASSUME NEW i \in I PROVE Cardinality(below(i)) # 0
    BY <1>1, <1>2
  <2>1. i \in below(i)
    OBVIOUS
  <2>2. QED
    BY <1>2, <2>1, FS_EmptySet
<1>4. \A i, k \in I : i < k => Cardinality(below(i)) # Cardinality(below(k))
  <2> SUFFICES ASSUME NEW i \in I, NEW k \in I, i < k
               PROVE  Cardinality(below(i)) # Cardinality(below(k))
    OBVIOUS
  <2>1. k <= k /\ ~ (k <= i) /\ \A j \in I : j <= i => j <= k
    OBVIOUS
  <2>2. below(i) \in SUBSET below(k) /\ k \in below(k) /\ k \notin below(i)
    BY <2>1
  <2> HIDE DEF below
  <2>3. Cardinality(below(k)) = Cardinality(below(i)) => below(k) = below(i)
    BY <1>2, <2>2, FS_Subset
  <2>4. QED
    BY <2>2, <2>3
<1>5. r \in Injection(I, 1 .. c)
  <2>1. r \in [I -> 1 .. c]
    BY <1>3
  <2>2. \A i, k \in I : r[i] = r[k] => i = k
    BY <1>4
  <2> HIDE DEF r
  <2>3. QED
    BY <2>1, <2>2 DEF Injection, IsInjective
<1>6. r \in Surjection(I, 1 .. c)
  <2>1. IsFiniteSet(1 .. c) /\ Cardinality(1 .. c) = c
    BY <1>1, FS_Interval
  <2>2. QED
    BY <1>5, <2>1, FS_Injection
<1>7. \A n \in 1 .. c : \E i \in I : Cardinality(below(i)) = n
  BY <1>6 DEF Surjection
<1>8. \A n \in 1 .. c : Pick(I, n) \in I /\ Cardinality(below(Pick(I, n))) = n
  BY <1>7 DEF Pick
<1> HIDE DEF below
<1>9. QED
  BY <1>1, <1>8

\* What AtPlaces takes are elements of the sequence, each at most once.
LEMMA AtPlacesPicks ==
  ASSUME NEW s, NEW m \in Nat, NEW I, I \subseteq 1 .. m
  PROVE  /\ DOMAIN AtPlaces(s, I) = 1 .. Cardinality(I)
         /\ \A n \in DOMAIN AtPlaces(s, I) : AtPlaces(s, I)[n] = s[Pick(I, n)] /\ Pick(I, n) \in I
         /\ \A n, k \in DOMAIN AtPlaces(s, I) : Pick(I, n) = Pick(I, k) => n = k
<1>1. DOMAIN AtPlaces(s, I) = 1 .. Cardinality(I)
  BY DEF AtPlaces
<1>2. \A n \in 1 .. Cardinality(I) : AtPlaces(s, I)[n] = s[Pick(I, n)]
  BY DEF AtPlaces, Pick
<1>3. QED
  BY <1>1, <1>2, PickRanks

\* All the places give the sequence.
LEMMA AtAllPlaces ==
  ASSUME NEW m \in Nat, NEW s, s = [i \in 1 .. m |-> s[i]]
  PROVE  AtPlaces(s, 1 .. m) = s
<1>1. Cardinality(1 .. m) = m
  BY FS_Interval
<1>2. \A n \in 1 .. m : Pick(1 .. m, n) = n
  <2> SUFFICES ASSUME NEW n \in 1 .. m PROVE Pick(1 .. m, n) = n
    OBVIOUS
  <2>1. \A i \in 1 .. m : Cardinality({j \in 1 .. m : j <= i}) = i
    <3> SUFFICES ASSUME NEW i \in 1 .. m PROVE Cardinality({j \in 1 .. m : j <= i}) = i
      OBVIOUS
    <3>1. {j \in 1 .. m : j <= i} = 1 .. i
      OBVIOUS
    <3>2. Cardinality(1 .. i) = i
      <4>1. i \in Int /\ 1 \in Int /\ ~ (1 > i)
        OBVIOUS
      <4>2. Cardinality(1 .. i) = IF 1 > i THEN 0 ELSE i - 1 + 1
        BY <4>1, FS_Interval
      <4>3. QED
        BY <4>1, <4>2
    <3>3. QED
      BY <3>1, <3>2
  <2>2. QED
    BY <2>1 DEF Pick
<1>3. AtPlaces(s, 1 .. m) = [n \in 1 .. m |-> s[Pick(1 .. m, n)]]
  BY <1>1 DEF AtPlaces, Pick
<1>4. QED
  BY <1>2, <1>3

-----------------------------------------------------------------------------
(* Numbers and texts, guarded twice *)

LEMMA ClampTwice ==
  ASSUME NEW v \in Number, NEW lo \in Int, NEW hi \in Int, NEW default \in lo .. hi
  PROVE  /\ Clamp(v, lo, hi, default) \in lo .. hi
         /\ Clamp(Clamp(v, lo, hi, default), lo, hi, default) = Clamp(v, lo, hi, default)
         /\ Within(Clamp(v, lo, hi, default), lo, hi)
<1>1. Clamp(v, lo, hi, default) \in lo .. hi
  BY JunkAssumption DEF Clamp, Number
<1>2. \A x \in lo .. hi : Clamp(x, lo, hi, default) = x /\ Within(x, lo, hi)
  BY JunkAssumption DEF Clamp, Within
<1>3. QED
  BY <1>1, <1>2

LEMMA WeightsTwice ==
  ASSUME NEW w, IsWeights(w), NEW hi \in Nat
  PROVE  LET c == ClampWeights(w, hi)
         IN /\ c \in [DOMAIN c -> 0 .. hi]
            /\ Finite(c)
<1> DEFINE c == ClampWeights(w, hi)
<1>1. DOMAIN c = {k \in DOMAIN w : w[k] # Junk} /\ c = [k \in DOMAIN c |-> Clamp(w[k], 0, hi, 0)]
  BY DEF ClampWeights
<1>2. \A k \in DOMAIN c : Clamp(w[k], 0, hi, 0) \in 0 .. hi
  BY <1>1, ClampTwice DEF IsWeights
<1> HIDE DEF c
<1>3. c \in [DOMAIN c -> 0 .. hi]
  BY <1>1, <1>2
<1>4. QED
  BY <1>3, JunkAssumption DEF Finite, c

LEMMA WeightsStay ==
  ASSUME NEW hi \in Nat, NEW c, c \in [DOMAIN c -> 0 .. hi]
  PROVE  ClampWeights(c, hi) = c
<1>1. {k \in DOMAIN c : c[k] # Junk} = DOMAIN c
  BY JunkAssumption
<1>2. \A k \in DOMAIN c : Clamp(c[k], 0, hi, 0) = c[k]
  BY JunkAssumption DEF Clamp
<1>3. ClampWeights(c, hi) = [k \in DOMAIN c |-> Clamp(c[k], 0, hi, 0)]
  BY <1>1 DEF ClampWeights
<1>4. QED
  BY <1>2, <1>3

LEMMA RaidTwice ==
  ASSUME NEW danger, NEW w, w \in [DOMAIN w -> 0 .. MaxWeight]
  PROVE  LET r == RaidPosture(w, danger)
         IN r \in [DOMAIN r -> 0 .. MaxWeight] /\ RaidPosture(r, danger) = r
<1> DEFINE r == RaidPosture(w, danger)
<1>1. CASE danger < RaidThreat
  BY <1>1 DEF RaidPosture
<1>2. CASE ~ (danger < RaidThreat)
  <2>1. DOMAIN r = DOMAIN w \cup RaidIntents
        /\ r = [k \in DOMAIN r |-> IF k \in RaidIntents /\ WeightOf(w, k) < RaidWeight
                                   THEN RaidWeight ELSE w[k]]
    BY <1>2 DEF RaidPosture
  <2>2. \A k \in DOMAIN r : r[k] \in 0 .. MaxWeight /\ (k \in RaidIntents => r[k] >= RaidWeight)
    BY <2>1 DEF WeightOf, MaxWeight, RaidWeight
  <2>3. RaidPosture(r, danger)
          = [k \in DOMAIN r \cup RaidIntents |-> IF k \in RaidIntents /\ WeightOf(r, k) < RaidWeight
                                                THEN RaidWeight ELSE r[k]]
    BY <1>2 DEF RaidPosture
  <2> HIDE DEF r
  <2>4. \A k \in DOMAIN r : ~ (k \in RaidIntents /\ WeightOf(r, k) < RaidWeight)
    BY <2>2 DEF WeightOf, MaxWeight, RaidWeight
  <2>5. DOMAIN r \cup RaidIntents = DOMAIN r
    BY <2>1
  <2>6. RaidPosture(r, danger) = r
    BY <2>1, <2>3, <2>4, <2>5
  <2>7. r \in [DOMAIN r -> 0 .. MaxWeight]
    BY <2>1, <2>2
  <2>8. QED
    BY <2>6, <2>7 DEF r
<1>3. QED
  BY <1>1, <1>2

\* A guarded text is guarded again by stripping it, and never stripped away.
LEMMA TextTwice ==
  ASSUME NEW t \in Text, NEW limit \in Nat \ {0, 1}
  PROVE  LET s == SanitizeText(t, limit)
         IN /\ s \in Text /\ s.len <= limit
            /\ SanitizeText(s, limit) = Stripped(s)
            /\ s # NoText => Stripped(s) # NoText
            /\ Stripped(NoText) = NoText
<1> DEFINE u == Stripped(t)
           s == SanitizeText(t, limit)
<1>1. t \in [len : Nat, blank : Nat] /\ t.blank <= t.len
  BY DEF Text
<1>2. u \in [len : Nat, blank : Nat] /\ u.blank <= u.len /\ (u.len > 0 => u.blank # u.len)
  BY <1>1 DEF Stripped
<1>3. s = IF u.len <= limit THEN u
          ELSE [len |-> limit, blank |-> IF u.blank <= limit THEN u.blank ELSE 0]
  BY DEF SanitizeText
<1> HIDE DEF u, s
<1> DEFINE b == IF u.blank <= limit THEN u.blank ELSE 0
<1>4. b \in 0 .. limit
  BY <1>2
<1>5. \/ s = u /\ u.len <= limit
      \/ s = [len |-> limit, blank |-> b]
  BY <1>3
<1> HIDE DEF b
<1>6. s \in [len : Nat, blank : Nat] /\ s.blank <= s.len /\ s.len <= limit
  BY <1>2, <1>4, <1>5
<1>7. /\ Stripped(s) \in [len : Nat, blank : Nat] /\ Stripped(s).len <= limit
      /\ SanitizeText(s, limit) = Stripped(s)
  <2>1. Stripped(s) \in [len : Nat, blank : Nat] /\ Stripped(s).len <= limit
    BY <1>6 DEF Stripped
  <2>2. QED
    BY <2>1 DEF SanitizeText
<1>8. s # NoText => Stripped(s) # NoText
  <2>1. CASE s = u
    BY <1>2, <2>1 DEF Stripped, NoText
  <2>2. CASE s = [len |-> limit, blank |-> b]
    BY <1>4, <2>2 DEF Stripped, NoText
  <2>3. QED
    BY <1>5, <2>1, <2>2
<1>9. Stripped(NoText) = NoText
  BY DEF Stripped, NoText
<1>10. s \in Text
  BY <1>6 DEF Text
<1>11. QED
  BY <1>6, <1>7, <1>8, <1>9, <1>10 DEF s

-----------------------------------------------------------------------------
(* Documents, guarded twice *)

LEMMA PolicyTwice ==
  ASSUME NEW p, IsPolicy(p), NEW danger
  PROVE  LET q == GuardPolicy(p, danger)
         IN /\ q.group = p.group
            /\ q.targets \in [DOMAIN q.targets -> Int]
            /\ GuardPolicy(q, danger) = [q EXCEPT !.summary = Stripped(q.summary)]
            /\ p.group # Nameless => ValidPolicy(q)
<1> DEFINE w == ClampWeights(p.intents, MaxWeight)
           i == RaidPosture(w, danger)
           t == ClampWeights(p.targets, MaxWeight)
           r == Share(p.risk)
           l == PolicyTtl(p.ttl)
           s == SanitizeText(p.summary, 140)
           q == GuardPolicy(p, danger)
<1>1. MaxWeight \in Nat
  BY DEF MaxWeight
<1>2. w \in [DOMAIN w -> 0 .. MaxWeight]
  BY <1>1, WeightsTwice DEF IsPolicy
<1>3. i \in [DOMAIN i -> 0 .. MaxWeight] /\ RaidPosture(i, danger) = i
  BY <1>2, RaidTwice
<1>4. t \in [DOMAIN t -> 0 .. MaxWeight]
  BY <1>1, WeightsTwice DEF IsPolicy
<1> HIDE DEF i, t
<1>5. ClampWeights(i, MaxWeight) = i /\ ClampWeights(t, MaxWeight) = t
  BY <1>1, <1>3, <1>4, WeightsStay
<1>6. Share(r) = r /\ Within(r, 0, 10)
  BY ClampTwice DEF Share, IsPolicy
<1>7. PolicyTtl(l) = l /\ Within(l, 80, 1200)
  BY ClampTwice DEF PolicyTtl, IsPolicy
<1>8. SanitizeText(s, 140) = Stripped(s)
  BY TextTwice DEF IsPolicy
<1>9. q = [group |-> p.group, intents |-> i, targets |-> t, risk |-> r, ttl |-> l, summary |-> s]
  BY DEF GuardPolicy, i, t
<1> HIDE DEF r, l, s, q
<1>10. GuardPolicy(q, danger)
         = [group |-> p.group, intents |-> i, targets |-> t, risk |-> r, ttl |-> l,
            summary |-> Stripped(s)]
  BY <1>3, <1>5, <1>6, <1>7, <1>8, <1>9 DEF GuardPolicy
<1>11. [q EXCEPT !.summary = Stripped(q.summary)]
         = [group |-> p.group, intents |-> i, targets |-> t, risk |-> r, ttl |-> l,
            summary |-> Stripped(s)]
  BY <1>9
<1>12. Finite(i) /\ Finite(t)
  BY <1>3, <1>4, JunkAssumption DEF Finite
<1>13. p.group # Nameless => ValidPolicy(q)
  BY <1>6, <1>7, <1>9, <1>12 DEF ValidPolicy
<1>14. q.targets \in [DOMAIN q.targets -> Int]
  BY <1>4, <1>9 DEF MaxWeight
<1>15. QED
  BY <1>9, <1>10, <1>11, <1>13, <1>14 DEF q

StateType == [group : STRING, state : STRING, priority : Number, ttl : Number]

LEMMA StateTwice ==
  ASSUME NEW s \in StateType
  PROVE  LET q == GuardState(s)
         IN /\ q.group = s.group /\ q.state = s.state
            /\ GuardState(q) = q
            /\ Within(q.priority, 0, 10) /\ Within(q.ttl, 0, 1200)
<1> DEFINE p == Share(s.priority)
           l == TargetTtl(s.ttl)
           q == GuardState(s)
<1>1. p \in 0 .. 10 /\ Share(p) = p /\ Within(p, 0, 10)
  BY ClampTwice DEF Share, StateType
<1>2. l \in 0 .. 1200 /\ TargetTtl(l) = l /\ Within(l, 0, 1200)
  BY ClampTwice DEF TargetTtl, StateType
<1> DEFINE u == [s EXCEPT !.priority = p]
<1>3. q = [u EXCEPT !.ttl = l]
  BY DEF GuardState
<1> HIDE DEF p, l, q
<1>4. u \in StateType /\ u.group = s.group /\ u.state = s.state /\ u.priority = p
  BY <1>1 DEF StateType, Number
<1> HIDE DEF u
<1>5. /\ q \in StateType /\ q.group = s.group /\ q.state = s.state /\ q.priority = p /\ q.ttl = l
  BY <1>2, <1>3, <1>4 DEF StateType, Number
<1>6. GuardState(q) = q
  <2>1. GuardState(q) = [q EXCEPT !.priority = Share(q.priority), !.ttl = TargetTtl(q.ttl)]
    BY DEF GuardState
  <2>2. Share(q.priority) = q.priority /\ TargetTtl(q.ttl) = q.ttl
    BY <1>1, <1>2, <1>5
  <2>3. [q EXCEPT !.priority = q.priority] = q /\ [q EXCEPT !.ttl = q.ttl] = q
    BY <1>5 DEF StateType
  <2>4. QED
    BY <2>1, <2>2, <2>3
<1>7. QED
  BY <1>1, <1>2, <1>5, <1>6 DEF q

PoliciesOf(e) == AtPlaces(e.policies, KeptPolicies(e.policies))
GroupsOf(e) == {PoliciesOf(e)[i].group : i \in DOMAIN PoliciesOf(e)}
StatesOf(e) == AtPlaces(e.states, KeptStates(e.states, GroupsOf(e)))

LEMMA GuardParts ==
  ASSUME NEW e, NEW danger
  PROVE  GuardPolicies(e, danger)
           = [channel  |-> "policy",
              policies |-> [i \in DOMAIN PoliciesOf(e) |-> GuardPolicy(PoliciesOf(e)[i], danger)],
              states   |-> [i \in DOMAIN StatesOf(e) |-> GuardState(StatesOf(e)[i])]]
  BY DEF GuardPolicies, PoliciesOf, GroupsOf, StatesOf

\* The policies that are kept are named, each for a group of its own.
LEMMA PoliciesKept ==
  ASSUME NEW d, IsDocument(d), d.channel = "policy"
  PROVE  /\ \E n \in Nat : DOMAIN PoliciesOf(d) = 1 .. n
         /\ \A i \in DOMAIN PoliciesOf(d) : IsPolicy(PoliciesOf(d)[i]) /\ PoliciesOf(d)[i].group # Nameless
         /\ \A i, j \in DOMAIN PoliciesOf(d) :
              PoliciesOf(d)[i].group = PoliciesOf(d)[j].group => i = j
<1> DEFINE s == d.policies
           m == Len(s)
           I == KeptPolicies(s)
           P == PoliciesOf(d)
<1>1. m \in Nat /\ DOMAIN s = 1 .. m /\ \A i \in DOMAIN s : IsPolicy(s[i])
  BY LenProperties DEF IsDocument
<1>2. /\ I \subseteq 1 .. m
      /\ \A i \in I : s[i].group # Nameless
      /\ \A i, j \in I : s[i].group = s[j].group => i = j
  <2>1. I \subseteq 1 .. m /\ \A i \in I : s[i].group # Nameless
    BY <1>1 DEF KeptPolicies
  <2>2. \A i \in I : \A j \in 1 .. (i - 1) : s[j].group # s[i].group
    BY DEF KeptPolicies
  <2> HIDE DEF I, s, m
  <2>3. \A i, j \in I : s[i].group = s[j].group => i = j
    BY <1>1, <2>1, <2>2
  <2>4. QED
    BY <2>1, <2>3
<1>3. P = AtPlaces(s, I)
  BY DEF PoliciesOf
<1> HIDE DEF s, m, I, P
<1>4. /\ DOMAIN P = 1 .. Cardinality(I)
      /\ \A n \in DOMAIN P : P[n] = s[Pick(I, n)] /\ Pick(I, n) \in I
      /\ \A n, k \in DOMAIN P : Pick(I, n) = Pick(I, k) => n = k
  <2>1. m \in Nat /\ I \subseteq 1 .. m
    BY <1>1, <1>2
  <2>2. /\ DOMAIN AtPlaces(s, I) = 1 .. Cardinality(I)
        /\ \A n \in DOMAIN AtPlaces(s, I) : AtPlaces(s, I)[n] = s[Pick(I, n)] /\ Pick(I, n) \in I
        /\ \A n, k \in DOMAIN AtPlaces(s, I) : Pick(I, n) = Pick(I, k) => n = k
    BY <2>1, AtPlacesPicks
  <2>3. QED
    BY <1>3, <2>2
<1>5. Cardinality(I) \in Nat
  <2>1. m \in Nat /\ I \subseteq 1 .. m
    BY <1>1, <1>2
  <2>2. Cardinality(I) \in 0 .. m
    BY <2>1, PickRanks
  <2>3. QED
    BY <2>1, <2>2
<1>6. \A i \in DOMAIN P : IsPolicy(P[i]) /\ P[i].group # Nameless
  BY <1>1, <1>2, <1>4
<1>7. \A i, j \in DOMAIN P : P[i].group = P[j].group => i = j
  <2> SUFFICES ASSUME NEW i \in DOMAIN P, NEW j \in DOMAIN P, P[i].group = P[j].group
               PROVE  Pick(I, i) = Pick(I, j)
    BY <1>4
  <2>1. /\ Pick(I, i) \in I /\ Pick(I, j) \in I
        /\ P[i] = s[Pick(I, i)] /\ P[j] = s[Pick(I, j)]
    BY <1>4
  <2>2. s[Pick(I, i)].group = s[Pick(I, j)].group
    BY <2>1
  <2>3. QED
    BY <1>2, <2>1, <2>2
<1>8. QED
  BY <1>4, <1>5, <1>6, <1>7 DEF P

LEMMA StatesKept ==
  ASSUME NEW d, IsDocument(d), d.channel = "policy"
  PROVE  /\ \E n \in Nat : DOMAIN StatesOf(d) = 1 .. n
         /\ \A i \in DOMAIN StatesOf(d) :
              /\ StatesOf(d)[i] \in StateType
              /\ StatesOf(d)[i].group \in GroupsOf(d) /\ StatesOf(d)[i].state # Nameless
         /\ \A i, j \in DOMAIN StatesOf(d) :
              /\ StatesOf(d)[i].group = StatesOf(d)[j].group
              /\ StatesOf(d)[i].state = StatesOf(d)[j].state
              => i = j
<1> DEFINE s == d.states
           m == Len(s)
           G == GroupsOf(d)
           I == KeptStates(s, G)
           P == StatesOf(d)
<1>1. m \in Nat /\ DOMAIN s = 1 .. m /\ \A i \in DOMAIN s : s[i] \in StateType
  BY LenProperties, ElementOfSeq DEF IsDocument, StateType
<1>2. /\ I \subseteq 1 .. m
      /\ \A i \in I : s[i].group \in G /\ s[i].state # Nameless
      /\ \A i, j \in I : s[i].group = s[j].group /\ s[i].state = s[j].state => i = j
  <2>1. I \subseteq 1 .. m /\ \A i \in I : s[i].group \in G /\ s[i].state # Nameless
    BY <1>1 DEF KeptStates
  <2>2. \A i \in I : \A j \in 1 .. (i - 1) : ~ (s[j].group = s[i].group /\ s[j].state = s[i].state)
    BY DEF KeptStates
  <2> HIDE DEF I, s, m, G
  <2>3. \A i, j \in I : s[i].group = s[j].group /\ s[i].state = s[j].state => i = j
    BY <1>1, <2>1, <2>2
  <2>4. QED
    BY <2>1, <2>3
<1>3. P = AtPlaces(s, I)
  BY DEF StatesOf
<1> HIDE DEF s, m, I, P, G
<1>4. /\ DOMAIN P = 1 .. Cardinality(I)
      /\ \A n \in DOMAIN P : P[n] = s[Pick(I, n)] /\ Pick(I, n) \in I
      /\ \A n, k \in DOMAIN P : Pick(I, n) = Pick(I, k) => n = k
  <2>1. m \in Nat /\ I \subseteq 1 .. m
    BY <1>1, <1>2
  <2>2. /\ DOMAIN AtPlaces(s, I) = 1 .. Cardinality(I)
        /\ \A n \in DOMAIN AtPlaces(s, I) : AtPlaces(s, I)[n] = s[Pick(I, n)] /\ Pick(I, n) \in I
        /\ \A n, k \in DOMAIN AtPlaces(s, I) : Pick(I, n) = Pick(I, k) => n = k
    BY <2>1, AtPlacesPicks
  <2>3. QED
    BY <1>3, <2>2
<1>5. Cardinality(I) \in Nat
  <2>1. m \in Nat /\ I \subseteq 1 .. m
    BY <1>1, <1>2
  <2>2. Cardinality(I) \in 0 .. m
    BY <2>1, PickRanks
  <2>3. QED
    BY <2>1, <2>2
<1>6. \A i \in DOMAIN P : P[i] \in StateType /\ P[i].group \in G /\ P[i].state # Nameless
  BY <1>1, <1>2, <1>4
<1>7. \A i, j \in DOMAIN P : P[i].group = P[j].group /\ P[i].state = P[j].state => i = j
  <2> SUFFICES ASSUME NEW i \in DOMAIN P, NEW j \in DOMAIN P,
                      P[i].group = P[j].group, P[i].state = P[j].state
               PROVE  Pick(I, i) = Pick(I, j)
    BY <1>4
  <2>1. /\ Pick(I, i) \in I /\ Pick(I, j) \in I
        /\ P[i] = s[Pick(I, i)] /\ P[j] = s[Pick(I, j)]
    BY <1>4
  <2>2. s[Pick(I, i)].group = s[Pick(I, j)].group /\ s[Pick(I, i)].state = s[Pick(I, j)].state
    BY <2>1
  <2>3. QED
    BY <1>2, <2>1, <2>2
<1>8. QED
  BY <1>4, <1>5, <1>6, <1>7 DEF P, G

LEMMA EnvelopeTwice ==
  ASSUME NEW d, IsDocument(d), d.channel = "policy", NEW danger
  PROVE  LET g == GuardPolicies(d, danger)
         IN /\ g.channel = "policy"
            /\ ValidEnvelope(g)
            /\ GuardPolicies(g, danger) = AsRead(g)
            /\ \A i \in DOMAIN g.policies :
                 g.policies[i].targets \in [DOMAIN g.policies[i].targets -> Int]
<1> DEFINE P == PoliciesOf(d)
           S == StatesOf(d)
           GP == [i \in DOMAIN P |-> GuardPolicy(P[i], danger)]
           GS == [i \in DOMAIN S |-> GuardState(S[i])]
           g == GuardPolicies(d, danger)
<1>1. g = [channel |-> "policy", policies |-> GP, states |-> GS]
  BY GuardParts
<1>2. PICK np \in Nat : DOMAIN P = 1 .. np
  BY PoliciesKept
<1>3. PICK ns \in Nat : DOMAIN S = 1 .. ns
  BY StatesKept
<1>4. /\ \A i \in 1 .. np : IsPolicy(P[i]) /\ P[i].group # Nameless
      /\ \A i, j \in 1 .. np : P[i].group = P[j].group => i = j
  BY <1>2, PoliciesKept
<1>5. /\ \A i \in 1 .. ns : S[i] \in StateType /\ S[i].group \in GroupsOf(d) /\ S[i].state # Nameless
      /\ \A i, j \in 1 .. ns : S[i].group = S[j].group /\ S[i].state = S[j].state => i = j
  BY <1>3, StatesKept
<1>6. GroupsOf(d) = {P[i].group : i \in 1 .. np}
  BY <1>2 DEF GroupsOf
<1> DEFINE G == GroupsOf(d)
<1> HIDE DEF P, S, G
<1>7. /\ GP = [i \in 1 .. np |-> GP[i]]
      /\ \A i \in 1 .. np :
           /\ GP[i].group = P[i].group
           /\ GP[i].targets \in [DOMAIN GP[i].targets -> Int]
           /\ GuardPolicy(GP[i], danger) = [GP[i] EXCEPT !.summary = Stripped(GP[i].summary)]
           /\ ValidPolicy(GP[i])
  <2>1. \A i \in 1 .. np : GP[i] = GuardPolicy(P[i], danger)
    BY <1>2
  <2>2. GP = [i \in 1 .. np |-> GP[i]]
    BY <1>2
  <2> HIDE DEF GP
  <2>3. QED
    BY <1>4, <2>1, <2>2, PolicyTwice
<1>8. /\ GS = [i \in 1 .. ns |-> GS[i]]
      /\ \A i \in 1 .. ns :
           /\ GS[i].group = S[i].group /\ GS[i].state = S[i].state
           /\ GuardState(GS[i]) = GS[i]
           /\ Within(GS[i].priority, 0, 10) /\ Within(GS[i].ttl, 0, 1200)
  <2>1. \A i \in 1 .. ns : GS[i] = GuardState(S[i])
    BY <1>3
  <2>2. GS = [i \in 1 .. ns |-> GS[i]]
    BY <1>3
  <2> HIDE DEF GS
  <2>3. QED
    BY <1>5, <2>1, <2>2, StateTwice
<1> HIDE DEF GP, GS
<1>9. PoliciesOf(g) = GP
  <2>1. g.policies = GP /\ DOMAIN GP = 1 .. np
    BY <1>1, <1>7
  <2>2. \A i, j \in 1 .. np : GP[i].group = GP[j].group => i = j
    BY <1>4, <1>7
  <2>3. \A i \in 1 .. np : GP[i].group # Nameless
    BY <1>4, <1>7
  <2>4. \A i \in 1 .. np : \A j \in 1 .. (i - 1) : GP[j].group # GP[i].group
    BY <2>2
  <2>5. KeptPolicies(GP) = 1 .. np
    BY <2>1, <2>3, <2>4 DEF KeptPolicies
  <2>6. AtPlaces(GP, 1 .. np) = GP
    BY <1>7, AtAllPlaces
  <2>7. QED
    BY <2>1, <2>5, <2>6 DEF PoliciesOf
<1>10. GroupsOf(g) = G
  <2>1. DOMAIN GP = 1 .. np
    BY <1>7
  <2>2. GroupsOf(g) = {GP[i].group : i \in 1 .. np}
    BY <1>9, <2>1 DEF GroupsOf
  <2>3. G = {P[i].group : i \in 1 .. np}
    BY <1>6 DEF G
  <2>4. QED
    BY <1>7, <2>2, <2>3
<1>11. StatesOf(g) = GS
  <2>1. g.states = GS /\ DOMAIN GS = 1 .. ns
    BY <1>1, <1>8
  <2>2. \A i, j \in 1 .. ns : GS[i].group = GS[j].group /\ GS[i].state = GS[j].state => i = j
    BY <1>5, <1>8
  <2>3. \A i \in 1 .. ns : GS[i].group \in G /\ GS[i].state # Nameless
    BY <1>5, <1>8 DEF G
  <2>4. \A i \in 1 .. ns : \A j \in 1 .. (i - 1) :
          <<GS[j].group, GS[j].state>> # <<GS[i].group, GS[i].state>>
    BY <2>2
  <2>5. KeptStates(GS, G) = 1 .. ns
    BY <2>1, <2>3, <2>4 DEF KeptStates
  <2>6. AtPlaces(GS, 1 .. ns) = GS
    BY <1>8, AtAllPlaces
  <2>7. QED
    BY <1>10, <2>1, <2>5, <2>6 DEF StatesOf
<1> DEFINE RP == [i \in 1 .. np |-> [GP[i] EXCEPT !.summary = Stripped(GP[i].summary)]]
<1>12. GuardPolicies(g, danger) = [channel |-> "policy", policies |-> RP, states |-> GS]
  <2>1. GuardPolicies(g, danger)
          = [channel  |-> "policy",
             policies |-> [i \in DOMAIN GP |-> GuardPolicy(GP[i], danger)],
             states   |-> [i \in DOMAIN GS |-> GuardState(GS[i])]]
    BY <1>9, <1>11, GuardParts
  <2>2. [i \in DOMAIN GP |-> GuardPolicy(GP[i], danger)] = RP
    BY <1>7
  <2>3. [i \in DOMAIN GS |-> GuardState(GS[i])] = GS
    BY <1>8
  <2>4. QED
    BY <2>1, <2>2, <2>3
<1>13. AsRead(g) = [channel |-> "policy", policies |-> RP, states |-> GS]
  <2>1. g.channel = "policy" /\ g.policies = GP /\ DOMAIN GP = 1 .. np
    BY <1>1, <1>7
  <2>2. AsRead(g) = [g EXCEPT !.policies =
                       [i \in DOMAIN g.policies |->
                          [g.policies[i] EXCEPT !.summary = Stripped(g.policies[i].summary)]]]
    BY <2>1 DEF AsRead
  <2>3. [i \in DOMAIN g.policies |->
           [g.policies[i] EXCEPT !.summary = Stripped(g.policies[i].summary)]] = RP
    BY <2>1
  <2> HIDE DEF RP
  <2>4. AsRead(g) = [g EXCEPT !.policies = RP]
    BY <2>2, <2>3
  <2>5. QED
    BY <1>1, <2>4
<1>14. ValidEnvelope(g)
  <2>1. DOMAIN GP = 1 .. np /\ DOMAIN GS = 1 .. ns /\ g.policies = GP /\ g.states = GS
    BY <1>1, <1>7, <1>8
  <2>2. \A i \in 1 .. ns : GS[i].group # Nameless /\ GS[i].state # Nameless
    BY <1>4, <1>5, <1>6, <1>8
  <2>3. QED
    BY <1>7, <1>8, <2>1, <2>2 DEF ValidEnvelope
<1>15. \A i \in DOMAIN g.policies : g.policies[i].targets \in [DOMAIN g.policies[i].targets -> Int]
  BY <1>1, <1>7
<1>16. QED
  BY <1>1, <1>12, <1>13, <1>14, <1>15 DEF g

SpawnType == [type : STRING, intensity : Number, duration : Number]

LEMMA SpawnTwice ==
  ASSUME NEW s \in SpawnType, s.type \in EventTypes
  PROVE  LET q == GuardSpawn(s)
         IN q.type = s.type /\ GuardSpawn(q) = q /\ ValidSpawn(q)
<1> DEFINE p == Intensity(s.intensity)
           l == EventTime(s.duration)
           q == GuardSpawn(s)
           u == [s EXCEPT !.intensity = p]
<1>1. p \in 4 .. 30 /\ Intensity(p) = p
  BY ClampTwice DEF Intensity, SpawnType
<1>2. l \in 60 .. 600 /\ EventTime(l) = l
  BY ClampTwice DEF EventTime, SpawnType
<1>3. q = [u EXCEPT !.duration = l]
  BY DEF GuardSpawn
<1> HIDE DEF p, l, q
<1>4. u \in SpawnType /\ u.type = s.type /\ u.intensity = p
  BY <1>1 DEF SpawnType, Number
<1> HIDE DEF u
<1>5. q \in SpawnType /\ q.type = s.type /\ q.intensity = p /\ q.duration = l
  BY <1>2, <1>3, <1>4 DEF SpawnType, Number
<1>6. GuardSpawn(q) = q
  <2>1. GuardSpawn(q) = [q EXCEPT !.intensity = Intensity(q.intensity), !.duration = EventTime(q.duration)]
    BY DEF GuardSpawn
  <2>2. Intensity(q.intensity) = q.intensity /\ EventTime(q.duration) = q.duration
    BY <1>1, <1>2, <1>5
  <2>3. [q EXCEPT !.intensity = q.intensity] = q /\ [q EXCEPT !.duration = q.duration] = q
    BY <1>5 DEF SpawnType
  <2>4. QED
    BY <2>1, <2>2, <2>3
<1>7. ValidSpawn(q)
  <2>1. Within(p, 0, 100) /\ Within(l, 0, 6000)
    BY <1>1, <1>2, JunkAssumption DEF Within
  <2>2. QED
    BY <1>5, <2>1 DEF ValidSpawn
<1>8. QED
  BY <1>5, <1>6, <1>7 DEF q

\* A text with something in its place when it is missing.
LEMMA OrElseTwice ==
  ASSUME NEW t \in Text, NEW limit \in Nat \ {0, 1}, NEW default \in Text,
         default.len <= limit, Stripped(default) = default, default # NoText, NEW other
  PROVE  LET s == OrElse(SanitizeText(t, limit), default)
         IN /\ s \in Text /\ s.len <= limit
            /\ OrElse(SanitizeText(s, limit), other) = Stripped(s)
            /\ s # NoText
<1> DEFINE u == SanitizeText(t, limit)
           s == OrElse(u, default)
<1>1. /\ u \in Text /\ u.len <= limit /\ SanitizeText(u, limit) = Stripped(u)
      /\ u # NoText => Stripped(u) # NoText
  BY TextTwice
<1> HIDE DEF u
<1>2. CASE u = NoText
  <2>1. s = default
    BY <1>2 DEF OrElse
  <2>2. SanitizeText(default, limit) = default
    BY DEF SanitizeText
  <2>3. QED
    BY <2>1, <2>2 DEF OrElse, u
<1>3. CASE u # NoText
  <2>1. s = u
    BY <1>3 DEF OrElse
  <2>2. QED
    BY <1>1, <1>3, <2>1 DEF OrElse, u
<1>4. QED
  BY <1>2, <1>3

SpawnsOf(d) == AtPlaces(d.spawns, KeptSpawns(d.spawns))
WeatherOf(d) == IF d.weather \in Weathers THEN d.weather ELSE "clear"
FocusOf(d) == OrElse(SanitizeText(d.focus, 72), FocusForWeather(WeatherOf(d)))

LEMMA GuardEnvironmentParts ==
  ASSUME NEW d
  PROVE  GuardEnvironment(d)
           = [channel  |-> "environment",
              weather  |-> WeatherOf(d),
              duration |-> Duration(d.duration),
              tension  |-> Share(d.tension),
              spawns   |-> [i \in DOMAIN SpawnsOf(d) |-> GuardSpawn(SpawnsOf(d)[i])],
              focus    |-> FocusOf(d),
              summary  |-> OrElse(SanitizeText(d.summary, 140), SummaryOf(FocusOf(d)))]
  BY DEF GuardEnvironment, SpawnsOf, WeatherOf, FocusOf

LEMMA FocusTyped ==
  ASSUME NEW w \in Weathers
  PROVE  LET f == FocusForWeather(w)
         IN f \in Text /\ f.len <= 72 /\ Stripped(f) = f /\ f # NoText
<1> DEFINE L == [clear |-> 15, rain |-> 24, storm |-> 20, drought |-> 16, winter |-> 17]
<1>1. L[w] \in 15 .. 24
  BY DEF Weathers
<1>2. FocusForWeather(w) = [len |-> L[w], blank |-> 7]
  BY DEF FocusForWeather
<1> HIDE DEF L
<1>3. QED
  BY <1>1, <1>2 DEF Text, Stripped, NoText

LEMMA SpawnsKept ==
  ASSUME NEW d, IsDocument(d), d.channel = "environment"
  PROVE  /\ \E n \in 0 .. MaxSpawns : DOMAIN SpawnsOf(d) = 1 .. n
         /\ \A i \in DOMAIN SpawnsOf(d) : SpawnsOf(d)[i] \in SpawnType /\ SpawnsOf(d)[i].type \in EventTypes
<1> DEFINE s == d.spawns
           m == Len(s)
           I == KeptSpawns(s)
           P == SpawnsOf(d)
<1>1. m \in Nat /\ DOMAIN s = 1 .. m /\ \A i \in DOMAIN s : s[i] \in SpawnType
  BY LenProperties, ElementOfSeq DEF IsDocument, SpawnType
<1>2. I \subseteq 1 .. m /\ I \subseteq 1 .. MaxSpawns /\ \A i \in I : s[i].type \in EventTypes
  BY <1>1 DEF KeptSpawns, MaxSpawns
<1>3. P = AtPlaces(s, I)
  BY DEF SpawnsOf
<1> HIDE DEF s, m, I, P
<1>4. /\ DOMAIN P = 1 .. Cardinality(I)
      /\ \A n \in DOMAIN P : P[n] = s[Pick(I, n)] /\ Pick(I, n) \in I
  <2>1. m \in Nat /\ I \subseteq 1 .. m
    BY <1>1, <1>2
  <2>2. /\ DOMAIN AtPlaces(s, I) = 1 .. Cardinality(I)
        /\ \A n \in DOMAIN AtPlaces(s, I) : AtPlaces(s, I)[n] = s[Pick(I, n)] /\ Pick(I, n) \in I
    BY <2>1, AtPlacesPicks
  <2>3. QED
    BY <1>3, <2>2
<1>5. Cardinality(I) \in 0 .. MaxSpawns
  <2>1. MaxSpawns \in Nat
    BY DEF MaxSpawns
  <2>2. QED
    BY <1>2, <2>1, PickRanks
<1>6. \A i \in DOMAIN P : P[i] \in SpawnType /\ P[i].type \in EventTypes
  BY <1>1, <1>2, <1>4
<1>7. QED
  BY <1>4, <1>5, <1>6 DEF P

LEMMA EnvironmentTwice ==
  ASSUME NEW d, IsDocument(d), d.channel = "environment"
  PROVE  LET g == GuardEnvironment(d)
         IN /\ g.channel = "environment"
            /\ ValidEnvironment(g)
            /\ GuardEnvironment(g) = AsRead(g)
<1> DEFINE w == WeatherOf(d)
           l == Duration(d.duration)
           t == Share(d.tension)
           S == SpawnsOf(d)
           GS == [i \in DOMAIN S |-> GuardSpawn(S[i])]
           f == FocusOf(d)
           s == OrElse(SanitizeText(d.summary, 140), SummaryOf(f))
           g == GuardEnvironment(d)
<1>1. g = [channel |-> "environment", weather |-> w, duration |-> l, tension |-> t,
           spawns |-> GS, focus |-> f, summary |-> s]
  BY GuardEnvironmentParts
<1>2. w \in Weathers
  BY DEF WeatherOf, Weathers
<1>3. l \in 80 .. 1800 /\ Duration(l) = l /\ Within(l, 80, 1800)
  <2>1. d.duration \in Number
    BY DEF IsDocument
  <2>2. QED
    BY <2>1, ClampTwice DEF Duration
<1>4. t \in 0 .. 10 /\ Share(t) = t /\ Within(t, 0, 10)
  <2>1. d.tension \in Number
    BY DEF IsDocument
  <2>2. QED
    BY <2>1, ClampTwice DEF Share
<1>5. /\ f \in Text /\ f.len <= 72
      /\ \A other : OrElse(SanitizeText(f, 72), other) = Stripped(f)
  <2>1. d.focus \in Text
    BY DEF IsDocument
  <2>2. QED
    BY <1>2, <2>1, FocusTyped, OrElseTwice DEF FocusOf
<1>6. \A other : OrElse(SanitizeText(s, 140), other) = Stripped(s)
  <2>1. d.summary \in Text
    BY DEF IsDocument
  <2> DEFINE u == SummaryOf(f)
  <2>2. u \in Text /\ u.len <= 140 /\ Stripped(u) = u /\ u # NoText
    BY <1>5 DEF SummaryOf, Text, Stripped, NoText
  <2> HIDE DEF u
  <2>3. \A other : OrElse(SanitizeText(OrElse(SanitizeText(d.summary, 140), u), 140), other)
                     = Stripped(OrElse(SanitizeText(d.summary, 140), u))
    BY <2>1, <2>2, OrElseTwice
  <2>4. QED
    BY <2>3 DEF u
<1>7. PICK n \in 0 .. MaxSpawns : DOMAIN S = 1 .. n
  BY SpawnsKept
<1>8. \A i \in 1 .. n : S[i] \in SpawnType /\ S[i].type \in EventTypes
  BY <1>7, SpawnsKept
<1> HIDE DEF w, l, t, S, f, s, g
<1>9. n \in Nat /\ n <= MaxSpawns
  BY <1>7 DEF MaxSpawns
<1>10. /\ GS = [i \in 1 .. n |-> GS[i]]
       /\ \A i \in 1 .. n : /\ GS[i].type \in EventTypes
                           /\ GuardSpawn(GS[i]) = GS[i] /\ ValidSpawn(GS[i])
  <2>1. \A i \in 1 .. n : GS[i] = GuardSpawn(S[i])
    BY <1>7
  <2>2. GS = [i \in 1 .. n |-> GS[i]]
    BY <1>7
  <2> HIDE DEF GS
  <2>3. QED
    BY <1>8, <2>1, <2>2, SpawnTwice
<1> HIDE DEF GS
<1>11. SpawnsOf(g) = GS
  <2>1. g.spawns = GS /\ DOMAIN GS = 1 .. n
    BY <1>1, <1>10
  <2>2. KeptSpawns(GS) = 1 .. n
    BY <1>9, <1>10, <2>1 DEF KeptSpawns, MaxSpawns
  <2>3. AtPlaces(GS, 1 .. n) = GS
    BY <1>9, <1>10, AtAllPlaces
  <2>4. QED
    BY <2>1, <2>2, <2>3 DEF SpawnsOf
<1>12. /\ g.weather = w /\ g.duration = l /\ g.tension = t /\ g.focus = f /\ g.summary = s
       /\ g.spawns = GS /\ g.channel = "environment"
  BY <1>1
<1>13. WeatherOf(g) = w /\ FocusOf(g) = Stripped(f)
  BY <1>2, <1>5, <1>12 DEF WeatherOf, FocusOf
<1>14. GuardEnvironment(g)
         = [channel |-> "environment", weather |-> w, duration |-> l, tension |-> t,
            spawns |-> GS, focus |-> Stripped(f), summary |-> Stripped(s)]
  <2>1. [i \in DOMAIN GS |-> GuardSpawn(GS[i])] = GS
    BY <1>10
  <2>2. GuardEnvironment(g)
          = [channel  |-> "environment", weather  |-> WeatherOf(g), duration |-> Duration(g.duration),
             tension  |-> Share(g.tension),
             spawns   |-> [i \in DOMAIN SpawnsOf(g) |-> GuardSpawn(SpawnsOf(g)[i])],
             focus    |-> FocusOf(g),
             summary  |-> OrElse(SanitizeText(g.summary, 140), SummaryOf(FocusOf(g)))]
    BY GuardEnvironmentParts
  <2>3. OrElse(SanitizeText(g.summary, 140), SummaryOf(FocusOf(g))) = Stripped(s)
    BY <1>6, <1>12
  <2>4. QED
    BY <1>3, <1>4, <1>11, <1>12, <1>13, <2>1, <2>2, <2>3
<1>15. AsRead(g)
         = [channel |-> "environment", weather |-> w, duration |-> l, tension |-> t,
            spawns |-> GS, focus |-> Stripped(f), summary |-> Stripped(s)]
  <2>1. AsRead(g) = [g EXCEPT !.focus = Stripped(g.focus), !.summary = Stripped(g.summary)]
    BY <1>12 DEF AsRead
  <2> DEFINE h == [g EXCEPT !.focus = Stripped(g.focus)]
  <2>2. h = [channel |-> "environment", weather |-> w, duration |-> l, tension |-> t,
             spawns |-> GS, focus |-> Stripped(f), summary |-> s]
    BY <1>1
  <2>3. AsRead(g) = [h EXCEPT !.summary = Stripped(s)]
    BY <1>12, <2>1
  <2> HIDE DEF h
  <2>4. QED
    BY <2>2, <2>3
<1>16. ValidEnvironment(g)
  <2>1. DOMAIN GS = 1 .. n /\ Len(GS) = n
    BY <1>9, <1>10
  <2>2. QED
    BY <1>2, <1>3, <1>4, <1>9, <1>10, <1>12, <2>1 DEF ValidEnvironment
<1>17. QED
  BY <1>12, <1>14, <1>15, <1>16 DEF g

LEMMA PlanTwice ==
  ASSUME NEW d, IsDocument(d), d.channel = "plan"
  PROVE  LET g == GuardPlan(d)
         IN /\ g.channel = "plan"
            /\ ValidPlan(g)
            /\ GuardPlan(g) = AsRead(g)
<1> DEFINE u == [len |-> 7, blank |-> 0]
           a == OrElse(SanitizeText(d.goal, 160), u)
           b == ClampWeights(d.budget, MaxBudget)
           p == IF d.posture \in Postures THEN d.posture ELSE "neutral"
           r == IF d.risk = Absent THEN Absent ELSE Share(d.risk)
           g == GuardPlan(d)
<1>1. g = [channel |-> "plan", goal |-> a, budget |-> b, posture |-> p, risk |-> r]
  BY DEF GuardPlan
<1>2. OrElse(SanitizeText(a, 160), u) = Stripped(a) /\ a # NoText
  <2>1. u \in Text /\ u.len <= 160 /\ Stripped(u) = u /\ u # NoText /\ d.goal \in Text
    BY DEF Text, Stripped, NoText, IsDocument
  <2> HIDE DEF u
  <2>2. QED
    BY <2>1, OrElseTwice
<1>3. ClampWeights(b, MaxBudget) = b /\ Finite(b)
  <2>1. IsWeights(d.budget)
    BY DEF IsDocument
  <2>2. \A hi \in Nat : LET c == ClampWeights(d.budget, hi)
                        IN c \in [DOMAIN c -> 0 .. hi] /\ Finite(c)
    BY <2>1, WeightsTwice
  <2>3. MaxBudget \in Nat
    BY DEF MaxBudget
  <2>4. b \in [DOMAIN b -> 0 .. MaxBudget] /\ Finite(b)
    BY <2>2, <2>3
  <2> HIDE DEF b
  <2>5. \A hi \in Nat : b \in [DOMAIN b -> 0 .. hi] => ClampWeights(b, hi) = b
    BY WeightsStay
  <2>6. QED
    BY <2>3, <2>4, <2>5
<1>4. p \in Postures
  BY DEF Postures
<1>5. /\ r = Absent \/ Within(r, 0, 10)
      /\ (IF r = Absent THEN Absent ELSE Share(r)) = r
  <2>1. CASE d.risk = Absent
    BY <2>1
  <2>2. CASE d.risk # Absent
    <3>1. d.risk \in Number
      BY <2>2 DEF IsDocument
    <3>2. Share(Share(d.risk)) = Share(d.risk) /\ Within(Share(d.risk), 0, 10)
      BY <3>1, ClampTwice DEF Share
    <3>3. QED
      BY <2>2, <3>2
  <2>3. QED
    BY <2>1, <2>2
<1> HIDE DEF a, b, p, r, g
<1>6. g.channel = "plan" /\ g.goal = a /\ g.budget = b /\ g.posture = p /\ g.risk = r
  BY <1>1
<1>7. GuardPlan(g) = [channel |-> "plan", goal |-> Stripped(a), budget |-> b, posture |-> p, risk |-> r]
  <2>1. GuardPlan(g) = [channel |-> "plan", goal |-> OrElse(SanitizeText(g.goal, 160), u),
                        budget |-> ClampWeights(g.budget, MaxBudget),
                        posture |-> IF g.posture \in Postures THEN g.posture ELSE "neutral",
                        risk |-> IF g.risk = Absent THEN Absent ELSE Share(g.risk)]
    BY DEF GuardPlan
  <2>2. QED
    BY <1>2, <1>3, <1>4, <1>5, <1>6, <2>1
<1>8. AsRead(g) = [channel |-> "plan", goal |-> Stripped(a), budget |-> b, posture |-> p, risk |-> r]
  <2>1. AsRead(g) = [g EXCEPT !.goal = Stripped(g.goal)]
    BY <1>6 DEF AsRead
  <2>2. QED
    BY <1>1, <2>1
<1>9. ValidPlan(g)
  BY <1>2, <1>3, <1>4, <1>5, <1>6 DEF ValidPlan
<1>10. QED
  BY <1>6, <1>7, <1>8, <1>9 DEF g

\* Whatever is guarded satisfies the schema, and guarding it again changes
\* nothing but a blank at the end of a text.
LEMMA GuardTwice ==
  ASSUME NEW d, IsDocument(d), NEW danger
  PROVE  LET g == GuardDocument(d, danger)
         IN g.channel # "none" /\ Valid(g) /\ GuardDocument(g, danger) = AsRead(g)
<1>1. CASE d.channel = "environment"
  <2> DEFINE g == GuardEnvironment(d)
  <2>1. GuardDocument(d, danger) = g
    BY <1>1 DEF GuardDocument
  <2>2. g.channel = "environment" /\ ValidEnvironment(g) /\ GuardEnvironment(g) = AsRead(g)
    BY <1>1, EnvironmentTwice
  <2> HIDE DEF g
  <2>3. QED
    BY <2>1, <2>2 DEF GuardDocument, Valid
<1>2. CASE d.channel = "policy"
  <2> DEFINE g == GuardPolicies(d, danger)
  <2>1. GuardDocument(d, danger) = g
    BY <1>2 DEF GuardDocument
  <2>2. g.channel = "policy" /\ ValidEnvelope(g) /\ GuardPolicies(g, danger) = AsRead(g)
    BY <1>2, EnvelopeTwice
  <2> HIDE DEF g
  <2>3. QED
    BY <2>1, <2>2 DEF GuardDocument, Valid
<1>3. CASE d.channel = "plan"
  <2> DEFINE g == GuardPlan(d)
  <2>1. GuardDocument(d, danger) = g
    BY <1>3 DEF GuardDocument
  <2>2. g.channel = "plan" /\ ValidPlan(g) /\ GuardPlan(g) = AsRead(g)
    BY <1>3, PlanTwice
  <2> HIDE DEF g
  <2>3. QED
    BY <2>1, <2>2 DEF GuardDocument, Valid
<1>4. QED
  BY <1>1, <1>2, <1>3 DEF IsDocument

-----------------------------------------------------------------------------
(* Where a worker of the harness goes *)

Hints == Resources \cup {NoHint}

AgentType ==
  [alive : BOOLEAN, fsm : States \cup {NoState}, target : Int, hint : Hints, pos : Int,
   arrived : BOOLEAN]

AgentsTyped == agent \in [Agents -> AgentType]

\* The priorities of every policy in force are numbers.
TargetsTyped ==
  \A g \in DOMAIN policies : policies[g].targets \in [DOMAIN policies[g].targets -> Int]

LEMMA KeysOrdered ==
  ASSUME NEW keys, keys \subseteq DOMAIN PlaceOf, keys # {}
  PROVE  FirstKey(keys) \in keys
<1>1. DOMAIN PlaceOf = {"farm", "lumber", "quarry", "safety", "warehouse", "wood"}
  BY DEF PlaceOf
<1>2. \E k \in keys : \E i \in DOMAIN KeyOrder :
        KeyOrder[i] = k /\ \A j \in 1..(i - 1) : KeyOrder[j] \notin keys
  BY <1>1 DEF KeyOrder
<1>3. QED
  BY <1>2 DEF FirstKey

\* Of a few numbers one is the largest.
LEMMA FavouriteCompatible ==
  ASSUME NEW f, NEW targets, targets \in [DOMAIN targets -> Int], HasTarget(f)
  PROVE  Favourite(f, targets) \in Present(CompatibleKeys(f))
<1> DEFINE here   == Present(CompatibleKeys(f))
           wanted == {k \in here \cap DOMAIN targets : targets[k] > 0}
           best   == {k \in wanted : \A l \in wanted : targets[l] <= targets[k]}
<1>1. here # {} /\ here \subseteq DOMAIN PlaceOf
  BY DEF HasTarget, Present, CompatibleKeys, PlaceOf
<1>2. CASE wanted = {}
  BY <1>1, <1>2, KeysOrdered DEF Favourite
<1>3. CASE wanted # {}
  <2>1. wanted \subseteq {"farm", "lumber", "quarry", "safety", "warehouse", "wood"}
    BY <1>1 DEF PlaceOf
  <2>2. \A k \in wanted : targets[k] \in Int
    OBVIOUS
  <2> HIDE DEF wanted
  <2>3. best # {}
    BY <1>3, <2>1, <2>2
  <2>4. best \subseteq here
    BY DEF wanted
  <2>5. FirstKey(best) \in best
    BY <1>1, <2>3, <2>4, KeysOrdered
  <2>6. Favourite(f, targets) = FirstKey(best)
    BY <1>3 DEF Favourite, wanted
  <2>7. QED
    BY <2>4, <2>5, <2>6
<1>4. QED
  BY <1>2, <1>3

LEMMA PlacesTyped ==
  /\ Places \subseteq Int /\ Spawn \in Places
  /\ \A x, y \in Places : x - y <= Distance
  /\ \A k \in DOMAIN PlaceOf : PlaceOf[k][1] \in DOMAIN Anchors => Anchors[PlaceOf[k][1]] \in Places
  BY WorkersAssumption DEF Places

LEMMA StepNears ==
  ASSUME NEW pos \in Int, NEW to \in Int
  PROVE  /\ Step(pos, to) \in Int
         /\ pos < to => Step(pos, to) = pos + 1
         /\ pos > to => Step(pos, to) = pos - 1
         /\ pos = to => Step(pos, to) = pos
<1>1. CASE pos < to
  BY <1>1 DEF Step
<1>2. CASE pos > to
  BY <1>2 DEF Step
<1>3. CASE pos = to
  BY <1>3 DEF Step
<1>4. QED
  BY <1>1, <1>2, <1>3

\* What a tick makes of a worker: the fields of Driven.
LEMMA DrivenFields ==
  ASSUME AgentsTyped, TargetsTyped, NEW a \in Agents, NEW f \in States
  PROVE  LET b  == Driven(a, f)
             k  == Favourite(f, TargetsOf(a))
             to == Anchors[PlaceOf[k][1]]
         IN /\ b \in AgentType /\ b.fsm = f /\ b.alive = agent[a].alive
            /\ ~ HasTarget(f) => b.pos = agent[a].pos
            /\ HasTarget(f) => /\ k \in Present(CompatibleKeys(f)) /\ to \in Places
                               /\ b.target = to /\ b.hint = PlaceOf[k][2]
                               /\ b.pos = Step(agent[a].pos, to)
                               /\ b.arrived <=> Near(b.pos, to)
<1> DEFINE b  == Driven(a, f)
           k  == Favourite(f, TargetsOf(a))
           to == Anchors[PlaceOf[k][1]]
           x  == agent[a]
           x1 == [x EXCEPT !.fsm = f]
<1>1. x \in AgentType
  BY DEF AgentsTyped
<1>2. x1 \in AgentType /\ x1.fsm = f /\ x1.alive = x.alive /\ x1.pos = x.pos
  <2> HIDE DEF x
  <2>1. QED
    BY <1>1 DEF AgentType
<1>3. CASE ~ HasTarget(f)
  <2> DEFINE x2 == [x1 EXCEPT !.target = NoPlace]
             x3 == [x2 EXCEPT !.hint = NoHint]
             x4 == [x3 EXCEPT !.arrived = FALSE]
  <2>1. b = x4
    BY <1>3 DEF Driven
  <2> HIDE DEF x1, b
  <2>2. x2 \in AgentType /\ x2.fsm = f /\ x2.alive = x.alive /\ x2.pos = x.pos
    BY <1>2 DEF AgentType, NoPlace
  <2> HIDE DEF x2
  <2>3. x3 \in AgentType /\ x3.fsm = f /\ x3.alive = x.alive /\ x3.pos = x.pos
    BY <2>2 DEF AgentType, Hints
  <2> HIDE DEF x3
  <2>4. x4 \in AgentType /\ x4.fsm = f /\ x4.alive = x.alive /\ x4.pos = x.pos
    BY <2>3 DEF AgentType
  <2> HIDE DEF x4
  <2>5. QED
    BY <1>3, <2>1, <2>4 DEF b
<1>4. CASE HasTarget(f)
  <2>1. TargetsOf(a) \in [DOMAIN TargetsOf(a) -> Int]
    <3>1. CASE HasPolicy(a)
      BY <3>1 DEF TargetsOf, HasPolicy, TargetsTyped
    <3>2. CASE ~ HasPolicy(a)
      BY <3>2 DEF TargetsOf
    <3>3. QED
      BY <3>1, <3>2
  <2>2. k \in Present(CompatibleKeys(f))
    BY <1>4, <2>1, FavouriteCompatible
  <2>3. k \in DOMAIN PlaceOf /\ PlaceOf[k][1] \in DOMAIN Anchors
    BY <2>2 DEF Present, CompatibleKeys, PlaceOf
  <2>4. to \in Places /\ to \in Int
    BY <2>3, PlacesTyped
  <2>5. PlaceOf[k][2] \in Hints
    BY <2>3 DEF PlaceOf, Hints, Resources
  <2> DEFINE h  == PlaceOf[k][2]
             p  == Step(x.pos, to)
             n  == Near(p, to)
             x2 == [x1 EXCEPT !.target = to]
             x3 == [x2 EXCEPT !.hint = h]
             x4 == [x3 EXCEPT !.pos = p]
             x5 == [x4 EXCEPT !.arrived = n]
  <2>6. p \in Int /\ n \in BOOLEAN
    BY <1>1, <2>4, StepNears DEF AgentType, Near
  <2>7. b = x5
    BY <1>4 DEF Driven
  <2> HIDE DEF x1, b, p, n, h, to
  <2>8. x2 \in AgentType /\ x2.fsm = f /\ x2.alive = x.alive /\ x2.target = to
    BY <1>2, <2>4 DEF AgentType
  <2> HIDE DEF x2
  <2>9. x3 \in AgentType /\ x3.fsm = f /\ x3.alive = x.alive /\ x3.target = to /\ x3.hint = h
    BY <2>5, <2>8 DEF AgentType, h
  <2> HIDE DEF x3
  <2>10. x4 \in AgentType /\ x4.fsm = f /\ x4.alive = x.alive /\ x4.target = to /\ x4.hint = h
         /\ x4.pos = p
    BY <2>6, <2>9 DEF AgentType
  <2> HIDE DEF x4
  <2>11. x5 \in AgentType /\ x5.fsm = f /\ x5.alive = x.alive /\ x5.target = to /\ x5.hint = h
         /\ x5.pos = p /\ x5.arrived = n
    BY <2>6, <2>10 DEF AgentType
  <2> HIDE DEF x5
  <2>12. n <=> Near(p, to)
    BY DEF n
  <2>13. QED
    BY <1>4, <2>2, <2>4, <2>7, <2>11, <2>12 DEF b, to, h, p
<1>5. QED
  BY <1>3, <1>4

-----------------------------------------------------------------------------
(* The invariant of the harness *)

ToHarvest == "SEEKING_HARVEST"

Ordered(a) ==
  /\ a \in Alive
  /\ IntentsOf(a) # <<>> /\ Sampled(IntentsOf(a)) = {ToHarvest} /\ HasTarget(ToHarvest)

Goal(a) == Anchors[PlaceOf[Favourite(ToHarvest, TargetsOf(a))][1]]

\* The way left is no longer than the ticks left.
OnTheWay ==
  \A a \in Agents : Ordered(a) =>
    /\ agent[a].pos - Goal(a) <= Distance - quiet
    /\ Goal(a) - agent[a].pos <= Distance - quiet

OnTheMap ==
  \A a \in Agents, x \in Places :
    agent[a].pos - x <= Distance /\ x - agent[a].pos <= Distance

HarnessTypeOK ==
  /\ AgentsTyped /\ TargetsTyped
  /\ quiet \in 0 .. Distance
  /\ unseen \in BOOLEAN

HarnessInv == HarnessTypeOK /\ PolicyFollowed /\ OnTheMap /\ OnTheWay /\ HarvestPays

LEMMA GoalTyped ==
  ASSUME TargetsTyped, NEW a, HasTarget(ToHarvest)
  PROVE  Goal(a) \in Places /\ Goal(a) \in Int
<1>1. TargetsOf(a) \in [DOMAIN TargetsOf(a) -> Int]
  <2>1. CASE HasPolicy(a)
    BY <2>1 DEF TargetsOf, HasPolicy, TargetsTyped
  <2>2. CASE ~ HasPolicy(a)
    BY <2>2 DEF TargetsOf
  <2>3. QED
    BY <2>1, <2>2
<1> DEFINE k == Favourite(ToHarvest, TargetsOf(a))
<1>2. k \in Present(CompatibleKeys(ToHarvest))
  BY <1>1, FavouriteCompatible
<1>3. k \in DOMAIN PlaceOf /\ PlaceOf[k][1] \in DOMAIN Anchors
  BY <1>2 DEF Present, CompatibleKeys, PlaceOf
<1>4. QED
  BY <1>3, PlacesTyped DEF Goal

LEMMA GoalsAreHere == \A c : TargetsTyped /\ HasTarget(ToHarvest) => Goal(c) \in Places
  BY GoalTyped

LEMMA GoalsStayHere == (\A c : TargetsTyped /\ HasTarget(ToHarvest) => Goal(c) \in Places)'
  BY GoalsAreHere, PTL

\* What the agents stand for in the properties stays.
LEMMA HarnessStays ==
  ASSUME HarnessInv, UNCHANGED <<agent, policies, quiet, gained>>, unseen' = unseen
  PROVE  HarnessInv'
<1>1. /\ HarnessTypeOK' /\ OnTheMap'
  BY DEF HarnessInv, HarnessTypeOK, AgentsTyped, TargetsTyped, OnTheMap
<1>2. Alive' = Alive /\ \A a : IntentsOf(a)' = IntentsOf(a) /\ TargetsOf(a)' = TargetsOf(a)
  BY DEF Alive, IntentsOf, TargetsOf, HasPolicy
<1>3. PolicyFollowed'
  BY <1>2 DEF HarnessInv, PolicyFollowed
<1>4. OnTheWay'
  BY <1>2 DEF HarnessInv, OnTheWay, Ordered, Goal
<1>5. HarvestPays'
  BY <1>2 DEF HarnessInv, HarvestPays, HarvestOrdered
<1>6. QED
  BY <1>1, <1>3, <1>4, <1>5 DEF HarnessInv

\* One agent dies or is born.
LEMMA HarnessTurnsOver ==
  ASSUME HarnessInv, NEW a \in Agents, NEW b \in AgentType,
         agent' = [agent EXCEPT ![a] = b],
         b.pos = agent[a].pos \/ b.pos = Spawn,
         b.alive => b.fsm = NoState,
         UNCHANGED <<policies, unseen>>, quiet' = 0
  PROVE  HarnessInv'
<1>1. /\ AgentsTyped /\ TargetsTyped /\ OnTheMap /\ PolicyFollowed
      /\ Distance \in Nat \ {0}
  BY WorkersAssumption DEF HarnessInv, HarnessTypeOK
<1>2. HarnessTypeOK'
  BY <1>1 DEF HarnessInv, HarnessTypeOK, AgentsTyped, TargetsTyped
<1>3. \A c \in Agents : agent'[c] = IF c = a THEN b ELSE agent[c]
  BY <1>1 DEF AgentsTyped
<1>4. OnTheMap'
  BY <1>1, <1>3, PlacesTyped DEF OnTheMap
<1>5. \A c : IntentsOf(c)' = IntentsOf(c)
  BY DEF IntentsOf, HasPolicy
<1>6. PolicyFollowed'
  BY <1>1, <1>2, <1>3, <1>5 DEF PolicyFollowed, Alive
<1>7. OnTheWay'
  <2>1. TargetsTyped'
    BY <1>2 DEF HarnessTypeOK
  <2>2. \A c : HasTarget(ToHarvest) => Goal(c)' \in Places
    <3>1. \A c : TargetsTyped /\ HasTarget(ToHarvest) => Goal(c) \in Places
      BY GoalTyped
    <3>2. \A c : Goal(c)' = Goal(c)
      BY DEF Goal, TargetsOf, HasPolicy
    <3>3. QED
      BY <1>1, <3>1, <3>2
  <2>3. HasTarget(ToHarvest)' = HasTarget(ToHarvest)
    BY DEF HasTarget
  <2>4. \A c \in Agents : Ordered(c)' => Goal(c)' \in Places
    BY <2>2, <2>3 DEF Ordered
  <2>5. QED
    BY <1>1, <1>4, <2>4 DEF OnTheWay, OnTheMap
<1>8. HarvestPays'
  BY <1>1 DEF HarvestPays
<1>9. QED
  BY <1>2, <1>4, <1>6, <1>7, <1>8 DEF HarnessInv

\* A worker that has orders is put into a state of theirs.
LEMMA NextFollows ==
  ASSUME HarnessInv, NEW a \in Alive, NEW f \in NextStates(a)
  PROVE  /\ f \in States
         /\ IntentsOf(a) # <<>> => f \in Sampled(IntentsOf(a)) /\ policies # <<>>
<1>1. agent[a].fsm \in States \cup {NoState}
  BY DEF HarnessInv, HarnessTypeOK, AgentsTyped, AgentType, Alive
<1>2. IntentsOf(a) # <<>> => policies # <<>>
  BY DEF IntentsOf, HasPolicy
<1>3. CASE NeedSample(a)
  BY <1>2, <1>3, SampledStates DEF NextStates
<1>4. CASE ~ NeedSample(a)
  <2>1. f = agent[a].fsm /\ f # NoState
    BY <1>4 DEF NextStates, NeedSample
  <2>2. IntentsOf(a) # <<>> => ~ unseen
    BY <1>2, <1>4 DEF NeedSample, PolicyChanged
  <2>3. PolicyFollowed
    BY DEF HarnessInv
  <2>4. QED
    BY <1>1, <1>2, <2>1, <2>2, <2>3 DEF PolicyFollowed
<1>5. QED
  BY <1>3, <1>4

LEMMA HarnessTicks ==
  ASSUME HarnessInv, Tick
  PROVE  HarnessInv'
<1>1. /\ AgentsTyped /\ TargetsTyped /\ OnTheMap /\ OnTheWay /\ PolicyFollowed
      /\ quiet \in 0 .. Distance /\ unseen \in BOOLEAN
  BY DEF HarnessInv, HarnessTypeOK
<1>2. Distance \in Nat \ {0} /\ IsFiniteSet(Agents)
  BY WorkersAssumption
<1>3. PICK crew \in [Alive -> UNION {After(a) : a \in Alive}] :
        /\ \A a \in Alive : crew[a] \in After(a)
        /\ agent' = [a \in Agents |-> IF a \in Alive THEN crew[a] ELSE agent[a]]
        /\ gained' = [r \in Resources |-> Yield[r] * Cardinality(Harvesters(crew, r))]
  BY DEF Tick
<1>4. /\ policies' = policies /\ unseen' = (unseen /\ policies = <<>>)
      /\ quiet' = IF quiet < Distance THEN quiet + 1 ELSE quiet
  BY DEF Tick
<1>5. \A a \in Alive : a \in Agents /\ agent'[a] = crew[a]
        /\ \E f \in NextStates(a) : crew[a] = Driven(a, f)
  BY <1>3 DEF After, Alive
<1>6. \A a \in Agents : a \notin Alive => agent'[a] = agent[a]
  BY <1>3
<1>7. \A a \in Agents : agent'[a] \in AgentType /\ agent'[a].alive = agent[a].alive
  <2>1. \A a \in Alive : \A f \in NextStates(a) :
          Driven(a, f) \in AgentType /\ Driven(a, f).alive = agent[a].alive
    BY <1>1, NextFollows, DrivenFields DEF Alive
  <2>2. \A a \in Agents : agent[a] \in AgentType
    BY <1>1 DEF AgentsTyped
  <2>3. QED
    BY <1>5, <1>6, <2>1, <2>2
<1>8. AgentsTyped' /\ Alive' = Alive
  BY <1>3, <1>7 DEF AgentsTyped, Alive
<1>9. \A a : IntentsOf(a)' = IntentsOf(a) /\ TargetsOf(a)' = TargetsOf(a) /\ Goal(a)' = Goal(a)
  BY <1>4 DEF IntentsOf, TargetsOf, HasPolicy, Goal
<1>10. HarnessTypeOK'
  BY <1>1, <1>2, <1>4, <1>8 DEF HarnessTypeOK, TargetsTyped
<1>11. \A a \in Alive : IntentsOf(a) # <<>> => agent'[a].fsm \in Sampled(IntentsOf(a)) /\ policies # <<>>
  BY <1>1, <1>5, NextFollows, DrivenFields DEF Alive
<1>12. PolicyFollowed'
  BY <1>8, <1>9, <1>11 DEF PolicyFollowed
<1>13. \A a \in Agents : agent[a].pos \in Int
  BY <1>1 DEF AgentsTyped, AgentType
<1>14. OnTheMap'
  <2> SUFFICES ASSUME NEW a \in Agents, NEW x \in Places
               PROVE  agent'[a].pos - x <= Distance /\ x - agent'[a].pos <= Distance
    BY DEF OnTheMap
  <2>1. CASE agent'[a].pos = agent[a].pos
    BY <1>1, <2>1 DEF OnTheMap
  <2>2. CASE \E to \in Places : agent'[a].pos = Step(agent[a].pos, to)
    <3>1. PICK to \in Places : agent'[a].pos = Step(agent[a].pos, to)
      BY <2>2
    <3>2. /\ to \in Int /\ x \in Int /\ agent[a].pos \in Int /\ Distance \in Int
          /\ to - x <= Distance /\ x - to <= Distance
      BY <1>2, <1>13, PlacesTyped
    <3>3. agent[a].pos - x <= Distance /\ x - agent[a].pos <= Distance
      BY <1>1 DEF OnTheMap
    <3>4. /\ agent[a].pos < to => agent'[a].pos = agent[a].pos + 1
          /\ agent[a].pos > to => agent'[a].pos = agent[a].pos - 1
          /\ agent[a].pos = to => agent'[a].pos = agent[a].pos
      BY <3>1, <3>2, StepNears
    <3>5. QED
      BY <3>2, <3>3, <3>4
  <2>3. a \in Alive => \E f \in States : agent'[a] = Driven(a, f)
    BY <1>5, NextFollows
  <2>4. QED
    BY <1>1, <1>6, <2>1, <2>2, <2>3, DrivenFields
<1>15. \A a \in Alive : Ordered(a) =>
         /\ Goal(a) \in Int /\ agent'[a].fsm = ToHarvest
         /\ agent'[a].hint \in Resources
         /\ agent'[a].pos = Step(agent[a].pos, Goal(a))
         /\ agent'[a].arrived <=> Near(agent'[a].pos, Goal(a))
  <2> SUFFICES ASSUME NEW a \in Alive, Ordered(a)
               PROVE  /\ Goal(a) \in Int /\ agent'[a].fsm = ToHarvest
                      /\ agent'[a].hint \in Resources
                      /\ agent'[a].pos = Step(agent[a].pos, Goal(a))
                      /\ agent'[a].arrived <=> Near(agent'[a].pos, Goal(a))
    OBVIOUS
  <2>1. PICK f \in NextStates(a) : agent'[a] = Driven(a, f)
    BY <1>5
  <2>2. f = ToHarvest /\ f \in States /\ HasTarget(f)
    BY NextFollows DEF Ordered
  <2> DEFINE k == Favourite(ToHarvest, TargetsOf(a))
  <2>3. /\ k \in Present(CompatibleKeys(ToHarvest)) /\ Goal(a) \in Places
        /\ agent'[a].fsm = ToHarvest /\ agent'[a].hint = PlaceOf[k][2]
        /\ agent'[a].pos = Step(agent[a].pos, Goal(a))
        /\ agent'[a].arrived <=> Near(agent'[a].pos, Goal(a))
    BY <1>1, <2>1, <2>2, DrivenFields DEF Goal, Alive
  <2>4. PlaceOf[k][2] \in Resources
    BY <2>3 DEF Present, CompatibleKeys, PlaceOf, Resources, ToHarvest
  <2>5. QED
    BY <2>3, <2>4, PlacesTyped
<1>16. \A a : Ordered(a)' => Ordered(a) /\ a \in Alive
  BY <1>8, <1>9 DEF Ordered, HasTarget
<1>17. OnTheWay'
  <2> SUFFICES ASSUME NEW a \in Agents, Ordered(a)'
               PROVE  /\ agent'[a].pos - Goal(a) <= Distance - quiet'
                      /\ Goal(a) - agent'[a].pos <= Distance - quiet'
    BY <1>9 DEF OnTheWay
  <2>1. /\ Ordered(a) /\ Goal(a) \in Int /\ agent[a].pos \in Int
        /\ agent'[a].pos = Step(agent[a].pos, Goal(a))
    BY <1>13, <1>15, <1>16
  <2>2. /\ agent[a].pos < Goal(a) => agent'[a].pos = agent[a].pos + 1
        /\ agent[a].pos > Goal(a) => agent'[a].pos = agent[a].pos - 1
        /\ agent[a].pos = Goal(a) => agent'[a].pos = agent[a].pos
    BY <2>1, StepNears
  <2>3. agent[a].pos - Goal(a) <= Distance - quiet /\ Goal(a) - agent[a].pos <= Distance - quiet
    BY <1>1, <2>1 DEF OnTheWay
  <2>4. Distance \in Int /\ quiet \in Int /\ quiet <= Distance
    BY <1>1, <1>2
  <2>5. QED
    BY <1>4, <2>1, <2>2, <2>3, <2>4
<1>18. HarvestPays'
  <2> SUFFICES ASSUME quiet' = Distance, HarvestOrdered'
               PROVE  \E r \in Resources : gained'[r] > 0
    BY DEF HarvestPays
  <2>1. PICK a \in Alive : Ordered(a)'
    BY <1>8 DEF HarvestOrdered, Ordered, ToHarvest
  <2>2. /\ a \in Agents /\ Ordered(a) /\ Goal(a) \in Int /\ agent'[a].fsm = ToHarvest
        /\ agent'[a].hint \in Resources
        /\ agent'[a].arrived <=> Near(agent'[a].pos, Goal(a))
    BY <1>15, <1>16, <2>1 DEF Alive
  <2>3. agent'[a].pos \in Int
    BY <1>7, <2>2 DEF AgentType
  <2>4. agent'[a].pos - Goal(a) <= 0 /\ Goal(a) - agent'[a].pos <= 0
    <3>1. /\ agent'[a].pos - Goal(a) <= Distance - quiet'
          /\ Goal(a) - agent'[a].pos <= Distance - quiet'
      BY <1>9, <1>17, <2>1, <2>2 DEF OnTheWay
    <3>2. QED
      BY <1>2, <2>2, <2>3, <3>1
  <2>5. agent'[a].arrived
    BY <2>2, <2>3, <2>4 DEF Near
  <2> DEFINE r == agent'[a].hint
             H == Harvesters(crew, r)
  <2>6. a \in H
    BY <1>5, <2>2, <2>5 DEF Harvesters, ToHarvest
  <2>7. IsFiniteSet(H)
    <3>1. H \subseteq Agents
      BY <1>3 DEF Harvesters, Alive
    <3>2. QED
      BY <1>2, <3>1, FS_Subset
  <2> HIDE DEF H
  <2>8. Cardinality(H) \in Nat /\ Cardinality(H) # 0
    BY <2>6, <2>7, FS_CardinalityType, FS_EmptySet
  <2>9. Yield[r] \in {4, 6, 10}
    BY <2>2 DEF Yield, Resources
  <2>10. gained'[r] = Yield[r] * Cardinality(H)
    BY <1>3, <2>2 DEF H
  <2>11. gained'[r] > 0
    BY <2>8, <2>9, <2>10
  <2>12. QED
    BY <2>2, <2>11
<1>19. QED
  BY <1>10, <1>12, <1>14, <1>17, <1>18 DEF HarnessInv

-----------------------------------------------------------------------------
(* What is put in place of an answer is a document too *)

LEMMA BaselineIsDocument == IsDocument(Baseline)
<1> DEFINE p == Baseline.policies[1]
           i == p.intents
           t == p.targets
<1>1. Baseline.channel = "policy" /\ Baseline.policies = <<p>> /\ Baseline.states = <<>>
  BY DEF Baseline
<1>2. IsPolicy(p)
  <2>1. /\ p.risk \in Number /\ p.ttl \in Number /\ p.summary = [len |-> 63, blank |-> 9]
    BY DEF Baseline, Number
  <2>2. p.summary \in Text
    BY <2>1 DEF Text
  <2>3. IsWeights(i)
    BY DEF Baseline, IsWeights, Number
  <2>4. IsWeights(t)
    BY DEF Baseline, IsWeights, Number
  <2>5. QED
    BY <2>1, <2>2, <2>3, <2>4 DEF IsPolicy
<1> HIDE DEF p
<1>3. <<p>> \in Seq(ToSet(<<p>>)) /\ \A n \in DOMAIN <<p>> : <<p>>[n] = p
  BY DEF ToSet
<1>4. QED
  BY <1>1, <1>2, <1>3 DEF IsDocument

LEMMA ScriptsAreDocuments ==
  ASSUME NEW d \in ScriptedDirectives \cup ScriptedPlans
  PROVE  IsDocument(d)
<1> DEFINE Short == {t \in [len : 0 .. 100, blank : 0 .. 100] : t.blank <= t.len}
<1>1. Short \subseteq Text
  BY DEF Text
<1>2. \A w : \A l, t \in Int, s \in Text : IsDocument(Directive(w, l, t, s))
  BY DEF IsDocument, Directive, Number, Text
<1>3. \A p : \A w, f, r \in Int, t \in Text : IsDocument(Strategy(w, f, p, r, t))
  BY DEF IsDocument, Strategy, Number, IsWeights
<1>4. CASE d \in ScriptedDirectives
  <2>1. \E w : \E l, t \in Int, s \in Short : d = Directive(w, l, t, s)
    BY <1>4 DEF ScriptedDirectives
  <2>2. QED
    BY <1>1, <1>2, <2>1
<1>5. CASE d \in ScriptedPlans
  <2>1. \E p : \E w, f, r \in Int, t \in Short : d = Strategy(w, f, p, r, t)
    BY <1>5 DEF ScriptedPlans
  <2>2. QED
    BY <1>1, <1>3, <2>1
<1>6. QED
  BY <1>4, <1>5

LEMMA AnswersAreDocuments ==
  /\ \A raw \in {a \in Answers : a.channel = "policy"} \cup {Baseline} :
       IsDocument(raw) /\ raw.channel = "policy"
  /\ \A raw \in {a \in Answers : a.channel # "policy"} \cup ScriptedDirectives \cup ScriptedPlans :
       IsDocument(raw)
<1>1. \A a \in Answers : IsDocument(a)
  BY WorkersAssumption
<1>2. Baseline.channel = "policy"
  BY DEF Baseline
<1>3. QED
  BY <1>1, <1>2, BaselineIsDocument, ScriptsAreDocuments

\* The commitment of a guarded document keeps to the guards.
LEMMA CommitGuarded ==
  ASSUME NEW d, IsDocument(d), Commit(GuardDocument(d, threat))
  PROVE  GuardHolds'
<1> DEFINE g == GuardDocument(d, threat)
<1>1. committed' = [document |-> g, threat |-> threat]
  BY DEF Commit
<1>2. g.channel # "none" /\ Valid(g) /\ GuardDocument(g, threat) = AsRead(g)
  BY GuardTwice
<1> HIDE DEF g
<1>3. committed'.document = g /\ committed'.threat = threat
  BY <1>1
<1>4. QED
  BY <1>2, <1>3 DEF GuardHolds

\* A new policy: nobody has followed it yet, and the time starts anew.
LEMMA PolicyComes ==
  ASSUME HarnessInv, DecidePolicy
  PROVE  HarnessInv' /\ GuardHolds'
<1>1. PICK raw \in {a \in Answers : a.channel = "policy"} \cup {Baseline} :
        Commit(GuardPolicies(raw, threat)) /\ policies' = Indexed(GuardPolicies(raw, threat))
  BY DEF DecidePolicy
<1>2. unseen' = TRUE /\ quiet' = 0 /\ agent' = agent
  BY DEF DecidePolicy
<1>3. IsDocument(raw) /\ raw.channel = "policy"
  BY AnswersAreDocuments
<1> DEFINE g == GuardPolicies(raw, threat)
<1>4. \A i \in DOMAIN g.policies : g.policies[i].targets \in [DOMAIN g.policies[i].targets -> Int]
  BY <1>3, EnvelopeTwice
<1>5. GuardHolds'
  <2>1. GuardDocument(raw, threat) = g
    BY <1>3 DEF GuardDocument
  <2>2. QED
    BY <1>1, <1>3, <2>1, CommitGuarded
<1> HIDE DEF g
<1>6. \A x \in DOMAIN policies' : \E i \in DOMAIN g.policies : policies'[x] = g.policies[i]
  <2>1. policies' = Indexed(g)
    BY <1>1 DEF g
  <2>2. QED
    BY <2>1 DEF Indexed
<1>7. TargetsTyped'
  BY <1>4, <1>6 DEF TargetsTyped
<1>8. Distance \in Nat \ {0} /\ AgentsTyped /\ OnTheMap
  BY WorkersAssumption DEF HarnessInv, HarnessTypeOK
<1>9. HarnessTypeOK' /\ PolicyFollowed' /\ HarvestPays' /\ OnTheMap'
  BY <1>2, <1>7, <1>8 DEF HarnessTypeOK, AgentsTyped, PolicyFollowed, HarvestPays, OnTheMap
<1>10. OnTheWay'
  <2>1. \A c \in Agents : Ordered(c)' => HasTarget(ToHarvest)'
    BY DEF Ordered
  <2>2. \A c \in Agents : Ordered(c)' => Goal(c)' \in Places
    BY <1>7, <2>1, GoalsStayHere
  <2>3. QED
    BY <1>2, <1>8, <1>9, <2>2 DEF OnTheWay, OnTheMap
<1>11. QED
  BY <1>5, <1>9, <1>10 DEF HarnessInv

-----------------------------------------------------------------------------
(* The theorems *)

IInv == BodyInv /\ HarnessInv /\ GuardHolds

LEMMA HarnessStarts ==
  ASSUME Init
  PROVE  HarnessInv /\ GuardHolds
<1>1. /\ agent = [a \in Agents |-> Newborn] /\ policies = <<>> /\ unseen = TRUE
      /\ committed = Nothing /\ quiet = 0
  BY DEF Init
<1>2. Newborn \in AgentType /\ Newborn.pos = Spawn
  BY WorkersAssumption DEF Newborn, AgentType, NoPlace, Hints
<1>3. Distance \in Nat \ {0}
  BY WorkersAssumption
<1>4. HarnessTypeOK /\ PolicyFollowed /\ HarvestPays
  BY <1>1, <1>2, <1>3 DEF HarnessTypeOK, AgentsTyped, TargetsTyped, PolicyFollowed, HarvestPays
<1>5. OnTheMap
  BY <1>1, <1>2, PlacesTyped DEF OnTheMap
<1>6. OnTheWay
  <2>1. \A a : IntentsOf(a) = <<>>
    BY <1>1 DEF IntentsOf, HasPolicy
  <2>2. QED
    BY <2>1 DEF OnTheWay, Ordered
<1>7. GuardHolds
  BY <1>1 DEF GuardHolds, Nothing
<1>8. QED
  BY <1>4, <1>5, <1>6, <1>7 DEF HarnessInv

LEMMA InvariantKept ==
  ASSUME IInv, [Next]_vars
  PROVE  IInv'
<1>1. BodyInv'
  BY BodyKept DEF IInv
<1>2. HarnessInv /\ GuardHolds
  BY DEF IInv
<1>3. CASE DecidePolicy
  BY <1>1, <1>2, <1>3, PolicyComes DEF IInv
<1>4. CASE DecideOther
  <2>1. HarnessInv'
    BY <1>2, <1>4, HarnessStays DEF DecideOther
  <2>2. GuardHolds'
    BY <1>4, AnswersAreDocuments, CommitGuarded DEF DecideOther
  <2>3. QED
    BY <1>1, <2>1, <2>2 DEF IInv
<1>5. CASE Tick
  <2>1. HarnessInv'
    BY <1>2, <1>5, HarnessTicks
  <2>2. GuardHolds'
    BY <1>5 DEF Tick, GuardHolds, Nothing
  <2>3. QED
    BY <1>1, <2>1, <2>2 DEF IInv
<1>6. CASE Die
  <2>1. PICK a \in Alive : agent' = [agent EXCEPT ![a].alive = FALSE]
    BY <1>6 DEF Die
  <2>2. UNCHANGED <<policies, unseen, committed>> /\ quiet' = 0
    BY <1>6 DEF Die
  <2> DEFINE b == [agent[a] EXCEPT !.alive = FALSE]
  <2>3. a \in Agents /\ agent[a] \in AgentType
    BY <1>2 DEF HarnessInv, HarnessTypeOK, AgentsTyped, Alive
  <2>4. agent' = [agent EXCEPT ![a] = b]
    BY <2>1
  <2>5. b \in AgentType /\ b.pos = agent[a].pos /\ b.alive = FALSE
    BY <2>3 DEF AgentType
  <2> HIDE DEF b
  <2>6. HarnessInv'
    BY <1>2, <2>2, <2>3, <2>4, <2>5, HarnessTurnsOver
  <2>7. QED
    BY <1>1, <1>2, <2>2, <2>6 DEF IInv, GuardHolds
<1>7. CASE Recruit
  <2>1. PICK a \in Agents : agent' = [agent EXCEPT ![a] = Newborn]
    BY <1>7 DEF Recruit
  <2>2. UNCHANGED <<policies, unseen, committed>> /\ quiet' = 0
    BY <1>7 DEF Recruit
  <2>3. Newborn \in AgentType /\ Newborn.pos = Spawn /\ Newborn.fsm = NoState
    BY WorkersAssumption DEF Newborn, AgentType, NoPlace, Hints
  <2>4. HarnessInv'
    BY <1>2, <2>1, <2>2, <2>3, HarnessTurnsOver
  <2>5. QED
    BY <1>1, <1>2, <2>2, <2>4 DEF IInv, GuardHolds
<1>8. CASE ThreatMoves
  <2>1. UNCHANGED <<agent, policies, quiet, gained, unseen, committed>>
    BY <1>8 DEF ThreatMoves
  <2>2. QED
    BY <1>1, <1>2, <2>1, HarnessStays DEF IInv, GuardHolds
<1>9. CASE UNCHANGED harness
  <2>1. UNCHANGED <<agent, policies, quiet, gained, unseen, committed>>
    BY <1>9 DEF harness
  <2>2. QED
    BY <1>1, <1>2, <2>1, HarnessStays DEF IInv, GuardHolds
<1>10. QED
  BY <1>3, <1>4, <1>5, <1>6, <1>7, <1>8, <1>9
     DEF Next, Sense, TickWorker, AssignRoles, Leave, Join, vars, harness

\* The inductive invariant: the types, the four properties that follow, and
\* that no worker with orders to harvest has a longer way left than there is
\* time (OnTheWay), which needs that nobody strays from the map (OnTheMap).
THEOREM WorkersInvariant == Spec => []IInv
<1>1. Init => IInv
  BY BodyStarts, HarnessStarts DEF IInv
<1>2. IInv /\ [Next]_vars => IInv'
  BY InvariantKept
<1>3. QED
  BY <1>1, <1>2, PTL DEF Spec

\* After every pass of the dispatcher a worker that is an object fights if and
\* only if a hostile is near, and one that is a dict does not fight
\* (worker_ai_system.py, tick_worker and default_triggers).
THEOREM FightsAreHostile == Spec => []FightAsHostile
<1>1. IInv => FightAsHostile
  BY DEF IInv, BodyInv
<1>2. QED
  BY <1>1, WorkersInvariant, PTL

\* Workers whose group has intents are in a state that these allow, for any
\* agents and any answers of the model (_tick_workers_via_fsm).
THEOREM PoliciesAreFollowed == Spec => []PolicyFollowed
<1>1. IInv => PolicyFollowed
  BY DEF IInv, HarnessInv
<1>2. QED
  BY <1>1, WorkersInvariant, PTL

\* Whoever is ordered to harvest earns something in every tick once there was
\* time for the longest way, for any places of the scenario and any priorities
\* (_pick_target_tile, the move and the yield rule).
THEOREM OrdersPay == Spec => []HarvestPays
<1>1. IInv => HarvestPays
  BY DEF IInv, HarnessInv
<1>2. QED
  BY <1>1, WorkersInvariant, PTL

\* Whatever document the model answers with, what is committed satisfies the
\* schema and a second guard leaves it alone (guardrails.py).
THEOREM GuardsHold == Spec => []GuardHolds
<1>1. IInv => GuardHolds
  BY DEF IInv
<1>2. QED
  BY <1>1, WorkersInvariant, PTL

-----------------------------------------------------------------------------
(***************************************************************************)
(* The roles.  A pass is six promotions, one after the other.              *)
(***************************************************************************)

Start == [role |-> role, age |-> age, quota |-> Quota(Cardinality(DOMAIN role))]

Promoted(st, k) == Promote(st, RoleOrder[k])

Second(st) == Promoted(Promoted(st, 1), 2)

Fourth(st) == Promoted(Promoted(st, 3), 4)

Sixth(st) == Promoted(Promoted(st, 5), 6)

Passed(st) == Sixth(Fourth(Second(st)))

LEMMA PassIs ==
  ASSUME AssignRoles
  PROVE  role' = Passed(Start).role /\ age' = Older(Passed(Start).age)
<1> DEFINE Passes(f) == [k \in 0 .. Len(RoleOrder) |->
                         IF k = 0 THEN {Start}
                         ELSE {Promote(st, RoleOrder[k]) : st \in f[k - 1]}]
           after == CHOOSE f : f = Passes(f)
<1>1. \E done \in after[Len(RoleOrder)] : role' = done.role /\ age' = Older(done.age)
  BY DEF AssignRoles, Start
<1>2. Len(RoleOrder) = 6
  BY DEF RoleOrder
<1>3. \E f : f = Passes(f)
  <2> DEFINE s1 == Promoted(Start, 1)
             s2 == Promoted(s1, 2)
             s3 == Promoted(s2, 3)
             s4 == Promoted(s3, 4)
             s5 == Promoted(s4, 5)
             s6 == Promoted(s5, 6)
             g == [k \in 0 .. 6 |-> CASE k = 0 -> {Start} [] k = 1 -> {s1} [] k = 2 -> {s2}
                                      [] k = 3 -> {s3} [] k = 4 -> {s4} [] k = 5 -> {s5}
                                      [] OTHER -> {s6}]
  <2>1. /\ g[0] = {Start} /\ g[1] = {s1} /\ g[2] = {s2} /\ g[3] = {s3}
        /\ g[4] = {s4} /\ g[5] = {s5} /\ g[6] = {s6}
    OBVIOUS
  <2>2. /\ s1 = Promoted(Start, 1) /\ s2 = Promoted(s1, 2) /\ s3 = Promoted(s2, 3)
        /\ s4 = Promoted(s3, 4) /\ s5 = Promoted(s4, 5) /\ s6 = Promoted(s5, 6)
    OBVIOUS
  <2>3. g = [k \in 0 .. 6 |-> g[k]]
    OBVIOUS
  <2> HIDE DEF s1, s2, s3, s4, s5, s6, g
  <2>4. ASSUME NEW k \in 0 .. 6
        PROVE  g[k] = IF k = 0 THEN {Start} ELSE {Promote(st, RoleOrder[k]) : st \in g[k - 1]}
    <3>1. k \in {0, 1, 2, 3, 4, 5, 6}
      OBVIOUS
    <3>2. \A x, y : {Promote(st, RoleOrder[y]) : st \in {x}} = {Promoted(x, y)}
      BY DEF Promoted
    <3>3. CASE k = 0
      BY <2>1, <3>3
    <3>4. CASE k = 1
      <4>1. g[k] = {Promoted(Start, k)} /\ g[k - 1] = {Start} /\ k # 0
        BY <2>1, <2>2, <3>4
      <4>2. QED
        BY <3>2, <4>1
    <3>5. CASE k = 2
      <4>1. g[k] = {Promoted(s1, k)} /\ g[k - 1] = {s1} /\ k # 0
        BY <2>1, <2>2, <3>5
      <4>2. QED
        BY <3>2, <4>1
    <3>6. CASE k = 3
      <4>1. g[k] = {Promoted(s2, k)} /\ g[k - 1] = {s2} /\ k # 0
        BY <2>1, <2>2, <3>6
      <4>2. QED
        BY <3>2, <4>1
    <3>7. CASE k = 4
      <4>1. g[k] = {Promoted(s3, k)} /\ g[k - 1] = {s3} /\ k # 0
        BY <2>1, <2>2, <3>7
      <4>2. QED
        BY <3>2, <4>1
    <3>8. CASE k = 5
      <4>1. g[k] = {Promoted(s4, k)} /\ g[k - 1] = {s4} /\ k # 0
        BY <2>1, <2>2, <3>8
      <4>2. QED
        BY <3>2, <4>1
    <3>9. CASE k = 6
      <4>1. g[k] = {Promoted(s5, k)} /\ g[k - 1] = {s5} /\ k # 0
        BY <2>1, <2>2, <3>9
      <4>2. QED
        BY <3>2, <4>1
    <3>10. QED
      BY <3>1, <3>3, <3>4, <3>5, <3>6, <3>7, <3>8, <3>9
  <2>5. g = Passes(g)
    BY <1>2, <2>3, <2>4
  <2>6. QED
    BY <2>5
<1>4. after = Passes(after)
  BY <1>3
<1> HIDE DEF after
<1>5. /\ after[0] = {Start}
      /\ \A k \in 1 .. 6 : after[k] = {Promoted(st, k) : st \in after[k - 1]}
  BY <1>2, <1>4 DEF Promoted
<1>6. /\ after[1] = {Promoted(st, 1) : st \in after[0]}
      /\ after[2] = {Promoted(st, 2) : st \in after[1]}
      /\ after[3] = {Promoted(st, 3) : st \in after[2]}
      /\ after[4] = {Promoted(st, 4) : st \in after[3]}
      /\ after[5] = {Promoted(st, 5) : st \in after[4]}
      /\ after[6] = {Promoted(st, 6) : st \in after[5]}
  BY <1>5
<1>7. after[6] = {Passed(Start)}
  BY <1>5, <1>6 DEF Passed, Second, Fourth, Sixth
<1>8. QED
  BY <1>1, <1>2, <1>7

-----------------------------------------------------------------------------

\* What a pass works on: the roles and the ages of the same staff.
Staffed(st) ==
  /\ IsFiniteSet(DOMAIN st.role) /\ DOMAIN st.role \subseteq Nat
  /\ st.role \in [DOMAIN st.role -> Roles]
  /\ st.age = [i \in DOMAIN st.role |-> st.age[i]]
  /\ st.quota \in [Roles -> Int]

LEMMA RoleOrderRoles == \A k \in 1 .. 6 : RoleOrder[k] \in Roles
  BY DEF Roles, RoleOrder

LEMMA TurnsDiffer == \A r \in Roles : Turn(r) \in 1 .. 6
  BY DEF Turn, Roles, RoleOrder

\* A worker that is given a role loses its old one, and nobody else is moved.
LEMMA GivenIs ==
  ASSUME NEW st, Staffed(st), NEW taken, NEW r \in Roles
  PROVE  LET new == Given(st, taken, r)
         IN  /\ Staffed(new) /\ new.quota = st.quota
             /\ DOMAIN new.role = DOMAIN st.role
             /\ \A i \in DOMAIN st.role : new.role[i] = IF i \in taken THEN r ELSE st.role[i]
             /\ \A i \in DOMAIN st.role : i \notin taken => new.age[i] = st.age[i]
             /\ taken = {} => new.role = st.role /\ new.age = st.age
<1> DEFINE ro == [i \in DOMAIN st.role |-> IF i \in taken THEN r ELSE st.role[i]]
           ag == [i \in DOMAIN st.role |-> IF i \in taken THEN 0 ELSE st.age[i]]
           new == Given(st, taken, r)
<1>1. new.role = ro /\ new.age = ag /\ new.quota = st.quota
  BY DEF Given
<1>2. ro \in [DOMAIN st.role -> Roles] /\ DOMAIN ro = DOMAIN st.role
  BY DEF Staffed
<1>3. ag = [i \in DOMAIN st.role |-> ag[i]]
  OBVIOUS
<1>4. taken = {} => ro = st.role /\ ag = st.age
  BY DEF Staffed
<1>5. \A i \in DOMAIN st.role :
        /\ ro[i] = IF i \in taken THEN r ELSE st.role[i]
        /\ i \notin taken => ag[i] = st.age[i]
  OBVIOUS
<1> HIDE DEF ro, ag, new
<1>6. Staffed(new)
  BY <1>1, <1>2, <1>3 DEF Staffed
<1>7. QED
  BY <1>1, <1>2, <1>4, <1>5, <1>6 DEF new

\* Whom a role takes.
Before(st, r, i) == {j \in Donors(st, r) : Earlier(st, j, i)}

Taken(st, r) == {i \in Donors(st, r) : Cardinality(Before(st, r, i)) < Lacks(st, r)}

LEMMA PromoteGives ==
  ASSUME NEW st, NEW r
  PROVE  Promote(st, r) = Given(st, Taken(st, r), r)
  BY DEF Promote, Taken, Before

LEMMA DonorsFinite ==
  ASSUME NEW st, Staffed(st), NEW r
  PROVE  /\ IsFiniteSet(Donors(st, r)) /\ Donors(st, r) \subseteq DOMAIN st.role
         /\ \A i : IsFiniteSet(Before(st, r, i)) /\ Cardinality(Before(st, r, i)) \in Nat
         /\ IsFiniteSet(HeadsOf(st, r)) /\ Cardinality(HeadsOf(st, r)) \in Nat
<1>1. IsFiniteSet(Donors(st, r)) /\ Donors(st, r) \subseteq DOMAIN st.role
  BY FS_Subset DEF Staffed, Donors
<1>2. ASSUME NEW i
      PROVE  IsFiniteSet(Before(st, r, i)) /\ Cardinality(Before(st, r, i)) \in Nat
  BY <1>1, FS_Subset, FS_CardinalityType DEF Before
<1>3. IsFiniteSet(HeadsOf(st, r)) /\ Cardinality(HeadsOf(st, r)) \in Nat
  BY FS_Subset, FS_CardinalityType DEF Staffed, HeadsOf
<1>4. QED
  BY <1>1, <1>2, <1>3

\* The donors stand in a line, so each has its own number before it ...
LEMMA DonorsInLine ==
  ASSUME NEW st, Staffed(st), NEW r, NEW i \in Donors(st, r), NEW j \in Donors(st, r), i # j
  PROVE  Cardinality(Before(st, r, i)) # Cardinality(Before(st, r, j))
<1>1. ASSUME NEW x \in Donors(st, r), NEW y \in Donors(st, r), Earlier(st, x, y)
      PROVE  Cardinality(Before(st, r, x)) < Cardinality(Before(st, r, y))
  <2>1. \A z \in Donors(st, r) : z \in Nat /\ st.role[z] \in Roles /\ Turn(st.role[z]) \in 1 .. 6
    BY TurnsDiffer, DonorsFinite DEF Staffed
  <2>2. ~ Earlier(st, x, x)
    BY <2>1 DEF Earlier
  <2>3. \A z \in Donors(st, r) : Earlier(st, z, x) => Earlier(st, z, y)
    BY <1>1, <2>1 DEF Earlier
  <2>4. Before(st, r, x) \subseteq Before(st, r, y)
    BY <2>3 DEF Before
  <2>5. x \in Before(st, r, y) /\ x \notin Before(st, r, x)
    BY <1>1, <2>2 DEF Before
  <2>6. /\ Cardinality(Before(st, r, x)) <= Cardinality(Before(st, r, y))
        /\ Cardinality(Before(st, r, x)) # Cardinality(Before(st, r, y))
    BY <2>4, <2>5, DonorsFinite, FS_Subset
  <2>7. QED
    BY <2>6, DonorsFinite
<1>2. Earlier(st, i, j) \/ Earlier(st, j, i)
  <2>1. /\ i \in Nat /\ Turn(st.role[i]) \in 1 .. 6
        /\ j \in Nat /\ Turn(st.role[j]) \in 1 .. 6
    BY TurnsDiffer, DonorsFinite DEF Staffed
  <2>2. QED
    BY <2>1 DEF Earlier
<1>3. QED
  BY <1>1, <1>2, DonorsFinite

\* ... and no more are taken than the role lacks.
LEMMA TakenBounded ==
  ASSUME NEW st, Staffed(st), NEW r \in Roles
  PROVE  /\ IsFiniteSet(Taken(st, r)) /\ Taken(st, r) \subseteq Donors(st, r)
         /\ Lacks(st, r) \in Int
         /\ Lacks(st, r) <= 0 => Taken(st, r) = {}
         /\ Lacks(st, r) > 0 => Cardinality(Taken(st, r)) <= Lacks(st, r)
<1>1. IsFiniteSet(Taken(st, r)) /\ Taken(st, r) \subseteq Donors(st, r)
  BY DonorsFinite, FS_Subset DEF Taken
<1>2. Lacks(st, r) \in Int
  BY DonorsFinite DEF Lacks, Staffed
<1>3. Lacks(st, r) <= 0 => Taken(st, r) = {}
  BY <1>2, DonorsFinite DEF Taken
<1>4. ASSUME Lacks(st, r) > 0
      PROVE  Cardinality(Taken(st, r)) <= Lacks(st, r)
  <2> DEFINE n == Lacks(st, r)
             f == [i \in Taken(st, r) |-> Cardinality(Before(st, r, i))]
  <2>1. \A i \in Taken(st, r) : f[i] \in 0 .. (n - 1)
    BY <1>2, DonorsFinite DEF Taken
  <2>2. \A i, j \in Taken(st, r) : f[i] = f[j] => i = j
    BY <1>1, DonorsInLine
  <2>3. f \in Injection(Taken(st, r), 0 .. (n - 1))
    BY <2>1, <2>2 DEF Injection, IsInjective
  <2>4. IsFiniteSet(0 .. (n - 1)) /\ Cardinality(0 .. (n - 1)) = n
    BY <1>2, <1>4, FS_Interval
  <2>5. QED
    BY <2>3, <2>4, FS_Injection
<1>5. QED
  BY <1>1, <1>2, <1>3, <1>4

-----------------------------------------------------------------------------

Full(st) == \A r \in Roles : Lacks(st, r) <= 0

\* What a promotion may do to the staff, and then any number of them.
Filled(a, b) ==
  /\ Staffed(a) /\ Staffed(b) /\ b.quota = a.quota
  /\ DOMAIN b.role = DOMAIN a.role
  /\ \A i \in DOMAIN a.role :
       b.role[i] # a.role[i] \/ b.age[i] # a.age[i] => a.age[i] = RoleCooldown
  /\ \A r \in Roles : \/ Cardinality(HeadsOf(b, r)) <= Cardinality(HeadsOf(a, r))
                      \/ Cardinality(HeadsOf(b, r)) <= a.quota[r]
  /\ Full(a) => b.role = a.role /\ b.age = a.age

LEMMA FilledComposes ==
  ASSUME NEW a, NEW b, NEW c, Filled(a, b), Filled(b, c)
  PROVE  Filled(a, c)
<1>1. ASSUME NEW i \in DOMAIN a.role, c.role[i] # a.role[i] \/ c.age[i] # a.age[i]
      PROVE  a.age[i] = RoleCooldown
  BY <1>1 DEF Filled
<1>2. ASSUME NEW r \in Roles
      PROVE  \/ Cardinality(HeadsOf(c, r)) <= Cardinality(HeadsOf(a, r))
             \/ Cardinality(HeadsOf(c, r)) <= a.quota[r]
  <2>1. /\ Cardinality(HeadsOf(a, r)) \in Nat
        /\ Cardinality(HeadsOf(b, r)) \in Nat
        /\ Cardinality(HeadsOf(c, r)) \in Nat
        /\ a.quota[r] \in Int
    BY DonorsFinite DEF Filled, Staffed
  <2>2. /\ \/ Cardinality(HeadsOf(b, r)) <= Cardinality(HeadsOf(a, r))
           \/ Cardinality(HeadsOf(b, r)) <= a.quota[r]
        /\ \/ Cardinality(HeadsOf(c, r)) <= Cardinality(HeadsOf(b, r))
           \/ Cardinality(HeadsOf(c, r)) <= a.quota[r]
    BY DEF Filled
  <2>3. QED
    BY <2>1, <2>2
<1>3. ASSUME Full(a)
      PROVE  c.role = a.role /\ c.age = a.age
  <2>1. b.role = a.role /\ b.age = a.age /\ b.quota = a.quota
    BY <1>3 DEF Filled
  <2>2. Full(b)
    BY <1>3, <2>1 DEF Full, Lacks, HeadsOf
  <2>3. QED
    BY <2>1, <2>2 DEF Filled
<1>4. QED
  BY <1>1, <1>2, <1>3 DEF Filled

LEMMA PromoteFills ==
  ASSUME NEW st, Staffed(st), NEW r \in Roles
  PROVE  Filled(st, Promote(st, r))
<1> DEFINE new == Promote(st, r)
           T == Taken(st, r)
<1>1. /\ Staffed(new) /\ new.quota = st.quota
      /\ DOMAIN new.role = DOMAIN st.role
      /\ \A i \in DOMAIN st.role : new.role[i] = IF i \in T THEN r ELSE st.role[i]
      /\ \A i \in DOMAIN st.role : i \notin T => new.age[i] = st.age[i]
      /\ T = {} => new.role = st.role /\ new.age = st.age
  BY GivenIs, PromoteGives
<1>2. /\ IsFiniteSet(T) /\ T \subseteq Donors(st, r) /\ Lacks(st, r) \in Int
      /\ Lacks(st, r) <= 0 => T = {}
      /\ Lacks(st, r) > 0 => Cardinality(T) <= Lacks(st, r)
  BY TakenBounded
<1> HIDE DEF new, T
<1>3. ASSUME NEW i \in DOMAIN st.role, new.role[i] # st.role[i] \/ new.age[i] # st.age[i]
      PROVE  st.age[i] = RoleCooldown
  BY <1>1, <1>2, <1>3 DEF Donors
<1>4. ASSUME NEW q \in Roles
      PROVE  \/ Cardinality(HeadsOf(new, q)) <= Cardinality(HeadsOf(st, q))
             \/ Cardinality(HeadsOf(new, q)) <= st.quota[q]
  <2>1. CASE q # r
    <3>1. HeadsOf(new, q) \subseteq HeadsOf(st, q)
      BY <1>1, <2>1 DEF HeadsOf
    <3>2. QED
      BY <3>1, DonorsFinite, FS_Subset
  <2>2. CASE q = r /\ Lacks(st, r) <= 0
    <3>1. HeadsOf(new, r) = HeadsOf(st, r)
      BY <1>1, <1>2, <2>2 DEF HeadsOf
    <3>2. QED
      BY <2>2, <3>1, DonorsFinite
  <2>3. CASE q = r /\ Lacks(st, r) > 0
    <3>1. HeadsOf(new, r) = HeadsOf(st, r) \cup T
      BY <1>1, <1>2 DEF HeadsOf, Donors
    <3>2. HeadsOf(st, r) \cap T = {}
      BY <1>2 DEF HeadsOf, Donors
    <3>3. Cardinality(HeadsOf(new, r)) = Cardinality(HeadsOf(st, r)) + Cardinality(T)
      <4>1. Cardinality(HeadsOf(new, r))
              = Cardinality(HeadsOf(st, r)) + Cardinality(T) - Cardinality(HeadsOf(st, r) \cap T)
        BY <1>2, <3>1, DonorsFinite, FS_Union
      <4>2. Cardinality(HeadsOf(st, r) \cap T) = 0
        BY <3>2, FS_EmptySet
      <4>3. Cardinality(HeadsOf(st, r)) \in Nat /\ Cardinality(T) \in Nat
        BY <1>2, DonorsFinite, FS_CardinalityType
      <4>4. QED
        BY <4>1, <4>2, <4>3
    <3>4. st.quota[r] \in Int /\ Cardinality(T) \in Nat
      BY <1>2, FS_CardinalityType DEF Staffed
    <3>5. QED
      BY <1>2, <2>3, <3>3, <3>4, DonorsFinite DEF Lacks
  <2>4. QED
    BY <1>2, <2>1, <2>2, <2>3
<1>5. Full(st) => new.role = st.role /\ new.age = st.age
  BY <1>1, <1>2 DEF Full
<1>6. QED
  BY <1>1, <1>3, <1>4, <1>5 DEF Filled, new

LEMMA PassFilled ==
  ASSUME NEW st, Staffed(st)
  PROVE  Filled(st, Passed(st))
<1>1. ASSUME NEW x, Filled(st, x), NEW k \in 1 .. 6
      PROVE  Filled(st, Promoted(x, k))
  <2>1. Staffed(x) /\ RoleOrder[k] \in Roles
    BY <1>1, RoleOrderRoles DEF Filled
  <2>2. Filled(x, Promoted(x, k))
    BY <2>1, PromoteFills DEF Promoted
  <2>3. QED
    BY <1>1, <2>2, FilledComposes
<1>2. ASSUME NEW k \in 1 .. 6
      PROVE  Filled(st, Promoted(st, k))
  BY RoleOrderRoles, PromoteFills DEF Promoted
<1>3. Filled(st, Second(st))
  BY <1>1, <1>2 DEF Second
<1>4. Filled(st, Fourth(Second(st)))
  BY <1>1, <1>3 DEF Fourth
<1>5. QED
  BY <1>1, <1>4 DEF Passed, Sixth

-----------------------------------------------------------------------------

\* The staff are finitely many, and a role and an age is kept of each.
RolesKept ==
  /\ IsFiniteSet(DOMAIN role) /\ DOMAIN role \subseteq Nat
  /\ role \in [DOMAIN role -> Roles]
  /\ age = [i \in DOMAIN role |-> age[i]]

LEMMA QuotaTyped ==
  ASSUME NEW n \in Nat
  PROVE  Quota(n) \in [Roles -> Int]
<1>1. Roles = {"FARM", "WOOD", "HAUL", "STONE", "GUARD", "BUILDER"}
  BY DEF Roles, RoleOrder
<1>2. (35 * n) \div 100 \in Int /\ (20 * n) \div 100 \in Int
      /\ (15 * n) \div 100 \in Int /\ (10 * n) \div 100 \in Int
  OBVIOUS
<1> DEFINE farm  == AtLeast(2, (35 * n) \div 100)
           wood  == AtLeast(1, (20 * n) \div 100)
           haul  == AtLeast(1, (15 * n) \div 100)
           stone == AtLeast(1, (10 * n) \div 100)
           guard == (10 * n) \div 100
<1>3. farm \in Int /\ wood \in Int /\ haul \in Int /\ stone \in Int /\ guard \in Int
  BY <1>2 DEF AtLeast
<1>4. Quota(n) = [FARM |-> farm, WOOD |-> wood, HAUL |-> haul, STONE |-> stone, GUARD |-> guard,
                  BUILDER |-> AtLeast(0, n - (farm + wood + haul + stone + guard))]
  BY DEF Quota
<1> HIDE DEF farm, wood, haul, stone, guard
<1>5. AtLeast(0, n - (farm + wood + haul + stone + guard)) \in Int
  BY <1>3 DEF AtLeast
<1>6. QED
  BY <1>1, <1>3, <1>4, <1>5

LEMMA StartStaffed ==
  ASSUME RolesKept
  PROVE  Staffed(Start)
<1>1. Quota(Cardinality(DOMAIN role)) \in [Roles -> Int]
  BY QuotaTyped, FS_CardinalityType DEF RolesKept
<1>2. QED
  BY <1>1 DEF Start, Staffed, RolesKept

LEMMA RolesStart ==
  ASSUME Init
  PROVE  RolesKept
<1>1. IsFiniteSet(Staff) /\ Staff \subseteq Nat
  BY WorkersAssumption
<1>2. "FARM" \in Roles
  BY DEF Roles, RoleOrder
<1>3. DOMAIN role = Staff /\ role = [i \in Staff |-> "FARM"] /\ age = [i \in Staff |-> RoleCooldown]
  BY DEF Init
<1>4. QED
  BY <1>1, <1>2, <1>3 DEF RolesKept

LEMMA PassIsFilled ==
  ASSUME RolesKept, AssignRoles
  PROVE  Filled(Start, Passed(Start)) /\ role' = Passed(Start).role
         /\ age' = [i \in DOMAIN role |-> age'[i]]
<1>1. Filled(Start, Passed(Start))
  BY StartStaffed, PassFilled
<1>2. DOMAIN Passed(Start).age = DOMAIN role
  BY <1>1 DEF Filled, Staffed, Start
<1>3. age' = [i \in DOMAIN role |-> age'[i]]
  BY <1>2, PassIs DEF Older
<1>4. QED
  BY <1>1, <1>3, PassIs

LEMMA RoleSteps ==
  [Next]_vars => AssignRoles \/ Leave \/ Join \/ UNCHANGED <<role, age>>
  BY DEF Next, vars, assignment, DecidePolicy, DecideOther, Tick, Die, Recruit, ThreatMoves,
         Sense, TickWorker

LEMMA RolesNext ==
  ASSUME RolesKept, [Next]_vars
  PROVE  RolesKept'
<1> DEFINE Good(ro, ag) ==
             /\ IsFiniteSet(DOMAIN ro) /\ DOMAIN ro \subseteq Nat
             /\ ro \in [DOMAIN ro -> Roles]
             /\ ag = [i \in DOMAIN ro |-> ag[i]]
<1>1. RolesKept' <=> Good(role', age')
  BY DEF RolesKept
<1>2. CASE AssignRoles
  <2> DEFINE done == Passed(Start)
  <2>1. Staffed(done) /\ DOMAIN done.role = DOMAIN role
    BY <1>2, PassIsFilled DEF Filled, Start
  <2>2. role' = done.role /\ age' = [i \in DOMAIN role |-> age'[i]]
    BY <1>2, PassIsFilled
  <2> HIDE DEF done
  <2>3. QED
    BY <1>1, <2>1, <2>2 DEF Staffed
<1>3. CASE Leave
  <2>1. PICK i \in DOMAIN role : /\ role' = [j \in DOMAIN role \ {i} |-> role[j]]
                                 /\ age' = [j \in DOMAIN role \ {i} |-> age[j]]
    BY <1>3 DEF Leave
  <2>2. IsFiniteSet(DOMAIN role \ {i})
    BY FS_RemoveElement DEF RolesKept
  <2>3. QED
    BY <1>1, <2>1, <2>2 DEF RolesKept
<1>4. CASE Join
  <2>1. PICK i \in 1..MaxStaff :
          /\ role' = [j \in DOMAIN role \cup {i} |-> IF j = i THEN "FARM" ELSE role[j]]
          /\ age' = [j \in DOMAIN role \cup {i} |-> IF j = i THEN RoleCooldown ELSE age[j]]
    BY <1>4 DEF Join
  <2>2. IsFiniteSet(DOMAIN role \cup {i}) /\ i \in Nat
    BY FS_AddElement DEF RolesKept
  <2>3. "FARM" \in Roles
    BY DEF Roles, RoleOrder
  <2>4. QED
    BY <1>1, <2>1, <2>2, <2>3 DEF RolesKept
<1>5. CASE UNCHANGED <<role, age>>
  BY <1>5 DEF RolesKept
<1>6. QED
  BY <1>2, <1>3, <1>4, <1>5, RoleSteps

-----------------------------------------------------------------------------

LEMMA StepFills ==
  ASSUME RolesKept, [Next]_vars, DOMAIN role' = DOMAIN role
  PROVE  PassFills
<1> DEFINE n == Cardinality(DOMAIN role)
<1>1. CASE AssignRoles
  <2> DEFINE done == Passed(Start)
  <2>1. Filled(Start, done) /\ role' = done.role
    BY <1>1, PassIsFilled
  <2>2. Start.role = role /\ Start.age = age /\ Start.quota = Quota(n)
    BY DEF Start
  <2>3. \A r : Cardinality(HeadsOf(Start, r)) = Heads(r) /\ Cardinality(HeadsOf(done, r)) = Heads(r)'
    BY <2>1, <2>2 DEF HeadsOf, Heads
  <2> HIDE DEF done
  <2>4. QuotaMet => Full(Start)
    <3>1. SUFFICES ASSUME QuotaMet, NEW r \in Roles
                   PROVE  Lacks(Start, r) <= 0
      BY DEF Full
    <3>2. Start.quota[r] = Heads(r) /\ Heads(r) \in Nat
      BY <2>2, <2>3, <3>1, DonorsFinite, StartStaffed DEF QuotaMet
    <3>3. QED
      BY <2>3, <3>2 DEF Lacks
  <2>5. QED
    BY <2>1, <2>2, <2>3, <2>4 DEF Filled, PassFills
<1>2. CASE UNCHANGED role
  <2>1. \A r : Heads(r) \in Nat /\ Heads(r)' = Heads(r)
    BY <1>2, FS_Subset, FS_CardinalityType DEF Heads, RolesKept
  <2>2. QED
    BY <1>2, <2>1 DEF PassFills
<1>3. ASSUME Leave \/ Join
      PROVE  FALSE
  <2>1. CASE Leave
    BY <2>1 DEF Leave
  <2>2. CASE Join
    BY <2>2 DEF Join
  <2>3. QED
    BY <1>3, <2>1, <2>2
<1>4. QED
  BY <1>1, <1>2, <1>3, RoleSteps

\* A pass of the roles moves only who may move, overfills no role and is over
\* once the quota is met, for any staff and any cooldown.
THEOREM RolesFill == Spec => PassesFill
<1>1. Init => RolesKept
  BY RolesStart
<1>2. RolesKept /\ [Next]_vars => RolesKept'
  BY RolesNext
<1>3. RolesKept /\ [Next]_vars => [DOMAIN role' = DOMAIN role => PassFills]_vars
  BY StepFills
<1>4. QED
  BY <1>1, <1>2, <1>3, PTL DEF Spec, PassesFill

=============================================================================
