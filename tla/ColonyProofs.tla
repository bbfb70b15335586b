----------------------------- MODULE ColonyProofs -----------------------------
(***************************************************************************)
(* The life of a colony of any size, stock and length: nobody is counted   *)
(* twice, nobody dies or lives against the rules, and the flow window      *)
(* accounts for the stock.                                                 *)
(***************************************************************************)
EXTENDS ColonyLife, FiniteSetTheorems, SequenceTheorems, WellFoundedInduction, TLAPS

AgentType ==
  [id : Nat, kind : Kinds, alive : BOOLEAN, hungry : BOOLEAN, starving : Nat,
   fed : Int, died : Int, carry : Goods \union {NoLoad}]

Turns == {"clock", "recruit", "work", "mortality", "resources", "observe"}

PopulationTypeOK ==
  /\ turn \in Turns /\ now \in Nat
  /\ agents \in Seq(AgentType)
  /\ metrics \in [births : Nat, deaths : Nat]
  /\ toll \in [EventTypes -> Nat]
  /\ recovery \in [on : BOOLEAN, entered : Int, times : Nat, endless : BOOLEAN]

EconomyTypeOK ==
  /\ stock \in [Goods -> Nat]
  /\ unrecorded \in [Goods -> Int]
  /\ flow \in [snapshot : [Goods -> Nat], consumed : Nat, spoiled : [Goods -> Nat],
               age : Nat, ready : BOOLEAN]

-----------------------------------------------------------------------------
(* Counting announcements *)

Count(types, t) == Cardinality({i \in DOMAIN types : types[i] = t})

LEMMA CountNone ==
  ASSUME NEW types, NEW t, \A i \in DOMAIN types : types[i] # t
  PROVE  Count(types, t) = 0
<1>1. {i \in DOMAIN types : types[i] = t} = {}
  OBVIOUS
<1>2. QED
  BY <1>1, FS_EmptySet DEF Count

\* n deaths are announced n times under either name.
LEMMA CountDeaths ==
  ASSUME NEW n \in Nat
  PROVE  LET types == [k \in 1..2 * n |-> IF k % 2 = 1 THEN "worker_died" ELSE "worker_starved"]
         IN  \A t \in EventTypes : Count(types, t) = IF t \in Deaths THEN n ELSE 0
<1> DEFINE types == [k \in 1..2 * n |-> IF k % 2 = 1 THEN "worker_died" ELSE "worker_starved"]
           Odd == {i \in 1..2 * n : i % 2 = 1}
           Even == {i \in 1..2 * n : i % 2 # 1}
           odd == [k \in 1..n |-> 2 * k - 1]
           even == [k \in 1..n |-> 2 * k]
<1>1. Cardinality(Odd) = n
  <2>1. odd \in [1..n -> Odd]
    OBVIOUS
  <2>2. \A i \in Odd : \E k \in 1..n : odd[k] = i
    <3> SUFFICES ASSUME NEW i \in Odd PROVE \E k \in 1..n : odd[k] = i
      OBVIOUS
    <3>1. (i + 1) \div 2 \in 1..n /\ 2 * ((i + 1) \div 2) - 1 = i
      OBVIOUS
    <3>2. QED
      BY <3>1
  <2>3. \A j, k \in 1..n : odd[j] = odd[k] => j = k
    OBVIOUS
  <2> HIDE DEF odd, Odd
  <2>4. odd \in Bijection(1..n, Odd)
    BY <2>1, <2>2, <2>3 DEF Bijection, Injection, Surjection, IsInjective
  <2>5. QED
    BY <2>4, FS_CountingElements DEF ExistsBijection
<1>2. Cardinality(Even) = n
  <2>1. even \in [1..n -> Even]
    OBVIOUS
  <2>2. \A i \in Even : \E k \in 1..n : even[k] = i
    <3> SUFFICES ASSUME NEW i \in Even PROVE \E k \in 1..n : even[k] = i
      OBVIOUS
    <3>1. i \div 2 \in 1..n /\ 2 * (i \div 2) = i
      OBVIOUS
    <3>2. QED
      BY <3>1
  <2>3. \A j, k \in 1..n : even[j] = even[k] => j = k
    OBVIOUS
  <2> HIDE DEF even, Even
  <2>4. even \in Bijection(1..n, Even)
    BY <2>1, <2>2, <2>3 DEF Bijection, Injection, Surjection, IsInjective
  <2>5. QED
    BY <2>4, FS_CountingElements DEF ExistsBijection
<1>3. /\ {i \in DOMAIN types : types[i] = "worker_died"} = Odd
      /\ {i \in DOMAIN types : types[i] = "worker_starved"} = Even
  OBVIOUS
<1>4. \A t \in EventTypes \ Deaths : Count(types, t) = 0
  <2>1. \A i \in DOMAIN types : types[i] \in Deaths
    BY DEF Deaths
  <2> HIDE DEF types
  <2>2. QED
    BY <2>1, CountNone
<1>5. QED
  BY <1>1, <1>2, <1>3, <1>4 DEF Count, Deaths

LEMMA CountTyped ==
  ASSUME NEW S, NEW types \in Seq(S), NEW t
  PROVE  Count(types, t) \in Nat
<1>1. Len(types) \in Nat /\ DOMAIN types = 1 .. Len(types)
  BY LenProperties
<1>2. IsFiniteSet({i \in DOMAIN types : types[i] = t})
  <2>1. {i \in DOMAIN types : types[i] = t} \subseteq 1 .. Len(types) /\ IsFiniteSet(1 .. Len(types))
    BY <1>1, FS_Interval
  <2>2. QED
    BY <2>1, FS_Subset
<1>3. QED
  BY <1>2, FS_CardinalityType DEF Count

LEMMA AlarmsTyped ==
  ASSUME NEW s
  PROVE  AlarmsOf(s) \in Seq({"food_shortage", "resource_surplus", "resource_depleted"})
<1> DEFINE Others == {"food_shortage", "resource_surplus", "resource_depleted"}
<1>1. \A g : BalanceAlarm(g, s) \in Seq(Others) /\ DepletionAlarm(g, s) \in Seq(Others)
  <2>1. <<>> \in Seq(Others) /\ \A o \in Others : <<o>> \in Seq(Others)
    OBVIOUS
  <2> HIDE DEF Others
  <2>2. \A g : /\ BalanceAlarm(g, s) \in {<<>>, <<"food_shortage">>, <<"resource_surplus">>}
               /\ DepletionAlarm(g, s) \in {<<>>, <<"resource_depleted">>}
    BY DEF BalanceAlarm, DepletionAlarm
  <2>3. {"food_shortage", "resource_surplus", "resource_depleted"} \subseteq Others
    BY DEF Others
  <2>4. QED
    BY <2>1, <2>2, <2>3
<1>2. AlarmsOf(s) \in Seq(Others)
  <2> HIDE DEF Others
  <2>1. BalanceAlarm("food", s) \o BalanceAlarm("wood", s) \in Seq(Others)
    BY <1>1, ConcatProperties
  <2>2. (BalanceAlarm("food", s) \o BalanceAlarm("wood", s)) \o DepletionAlarm("food", s) \in Seq(Others)
    BY <1>1, <2>1, ConcatProperties
  <2>3. ((BalanceAlarm("food", s) \o BalanceAlarm("wood", s)) \o DepletionAlarm("food", s))
          \o DepletionAlarm("wood", s) \in Seq(Others)
    BY <1>1, <2>2, ConcatProperties
  <2>4. QED
    BY <1>1, <2>3, ConcatProperties DEF AlarmsOf
<1>3. QED
  BY <1>2

\* The alarms of the stock announce neither births nor deaths.
LEMMA CountAlarms ==
  ASSUME NEW s
  PROVE  \A t \in Births \union Deaths : Count(AlarmsOf(s), t) = 0
<1> DEFINE Others == {"food_shortage", "resource_surplus", "resource_depleted"}
<1>1. AlarmsOf(s) \in Seq(Others)
  BY AlarmsTyped
<1>2. \A i \in DOMAIN AlarmsOf(s) : AlarmsOf(s)[i] \in Others
  BY <1>1, ElementOfSeq, LenProperties
<1>3. QED
  BY <1>2, CountNone DEF Births, Deaths

LEMMA AlarmsCounted ==
  ASSUME NEW s, NEW t
  PROVE  Count(AlarmsOf(s), t) \in Nat
<1>1. AlarmsOf(s) \in Seq({"food_shortage", "resource_surplus", "resource_depleted"})
  BY AlarmsTyped
<1>2. QED
  BY <1>1, CountTyped

LEMMA CountArrival ==
  \A t \in EventTypes : Count(<<"visitor_arrived", "worker_born">>, t) = IF t \in Births THEN 1 ELSE 0
<1> DEFINE types == <<"visitor_arrived", "worker_born">>
<1>1. {i \in DOMAIN types : types[i] = "visitor_arrived"} = {1}
  OBVIOUS
<1>2. {i \in DOMAIN types : types[i] = "worker_born"} = {2}
  OBVIOUS
<1>3. \A t \in EventTypes \ Births : {i \in DOMAIN types : types[i] = t} = {}
  BY DEF Births
<1>4. QED
  BY <1>1, <1>2, <1>3, FS_Singleton, FS_EmptySet DEF Count, Births

-----------------------------------------------------------------------------
(* The parts of the invariant *)

Dead == {i \in DOMAIN agents : ~ agents[i].alive}

Heads ==
  /\ \A i \in DOMAIN agents : agents[i].id = i
  /\ Len(agents) = Len(InitialKinds) + metrics.births
  /\ metrics.deaths = Cardinality(Dead)
  /\ \A t \in Births : toll[t] = metrics.births
  /\ \A t \in Deaths : toll[t] = metrics.deaths

\* The tick of the last pass over the agents.
LastPass == IF turn \in {"resources", "observe", "clock"} THEN now ELSE now - 1

RecoveryKnown ==
  recovery.on => recovery.times >= 1
                 /\ (~ recovery.endless => recovery.entered \in Nat /\ recovery.entered <= LastPass + 1)

\* The passes that recoveries may have granted so far.
Granted ==
  IF recovery.on
  THEN (recovery.times - 1) * GraceTime
       + Minimum(GraceTime, LastPass - recovery.entered + 1)
  ELSE recovery.times * GraceTime

\* An agent has starved since it was fed, and beyond its hold only as long as
\* recoveries allowed; the dead did for the whole hold.
Fair(a) ==
  /\ a.alive => a.starving = LastPass - a.fed
  /\ ~ a.alive => a.died - a.fed >= Hold[a.kind]
  /\ a.alive /\ ~ recovery.endless => a.starving < Hold[a.kind] + Granted

Spared ==
  turn = "resources" =>
    \A i \in DOMAIN agents :
      agents[i].alive /\ agents[i].starving >= Hold[agents[i].kind] => InGrace

AllFair == \A i \in DOMAIN agents : Fair(agents[i])

PopulationInv == PopulationTypeOK /\ Heads /\ RecoveryKnown /\ AllFair /\ Spared

\* The first update finds a window in which nothing is recorded.
WindowUnused == ~ flow.ready => flow.consumed = 0 /\ flow.spoiled = NoGoods

EconomyInv == EconomyTypeOK /\ StockAccounted /\ WindowUnused

IInv == PopulationInv /\ EconomyInv

-----------------------------------------------------------------------------
(* The population, step by step *)

LEMMA PopulationBasics ==
  ASSUME PopulationTypeOK
  PROVE  /\ Len(agents) \in Nat /\ DOMAIN agents = 1 .. Len(agents)
         /\ \A i \in DOMAIN agents : agents[i] \in AgentType /\ Hold[agents[i].kind] \in Nat \ {0}
         /\ \A S \in SUBSET DOMAIN agents : IsFiniteSet(S) /\ Cardinality(S) \in Nat
         /\ LastPass \in Int
<1>1. Len(agents) \in Nat /\ DOMAIN agents = 1 .. Len(agents) /\ \A i \in DOMAIN agents : agents[i] \in AgentType
  BY LenProperties, ElementOfSeq DEF PopulationTypeOK
<1>2. \A a \in AgentType : Hold[a.kind] \in Nat \ {0}
  BY LifeAssumption DEF AgentType
<1>3. IsFiniteSet(DOMAIN agents)
  BY <1>1, FS_Interval
<1>4. \A S \in SUBSET DOMAIN agents : IsFiniteSet(S) /\ Cardinality(S) \in Nat
  BY <1>3, FS_Subset, FS_CardinalityType
<1>5. LastPass \in Int
  BY DEF PopulationTypeOK, LastPass
<1>6. QED
  BY <1>1, <1>2, <1>4, <1>5

LEMMA GrantedTyped ==
  ASSUME PopulationTypeOK, RecoveryKnown
  PROVE  /\ ~ recovery.endless => Granted \in Nat /\ Granted <= recovery.times * GraceTime
         /\ recovery.times * GraceTime \in Nat
<1> DEFINE n == recovery.times
<1>1. n \in Nat /\ GraceTime \in Nat /\ recovery.on \in BOOLEAN
  BY LifeAssumption DEF PopulationTypeOK
<1>2. n * GraceTime \in Nat
  BY <1>1
<1>3. ASSUME recovery.on, ~ recovery.endless
      PROVE  Granted \in Nat /\ Granted <= n * GraceTime
  <2> DEFINE m == Minimum(GraceTime, LastPass - recovery.entered + 1)
             p == (n - 1) * GraceTime
  <2>1. m \in Nat /\ m <= GraceTime
    BY <1>1, <1>3, PopulationBasics DEF Minimum, RecoveryKnown
  <2>2. n - 1 \in Nat
    BY <1>1, <1>3 DEF RecoveryKnown
  <2>3. p \in Nat /\ n * GraceTime = p + GraceTime
    BY <1>1, <2>2
  <2>4. Granted = p + m
    BY <1>3 DEF Granted
  <2> HIDE DEF m, p
  <2>5. QED
    BY <1>1, <1>2, <2>1, <2>3, <2>4
<1>4. QED
  BY <1>1, <1>2, <1>3 DEF Granted

\* What all but the pass over the agents and an arrival leave alone.
Alike(a, b) ==
  /\ b.id = a.id /\ b.kind = a.kind /\ b.alive = a.alive
  /\ b.starving = a.starving /\ b.fed = a.fed /\ b.died = a.died

LEMMA AlikeKeeps ==
  ASSUME PopulationInv,
         turn' \in Turns, turn' # "resources", now' \in Nat, LastPass' = LastPass,
         agents' \in Seq(AgentType), Len(agents') = Len(agents),
         \A i \in DOMAIN agents : Alike(agents[i], agents'[i]),
         UNCHANGED metrics,
         toll' \in [EventTypes -> Nat], \A t \in Births \union Deaths : toll'[t] = toll[t],
         recovery' \in [on : BOOLEAN, entered : Int, times : Nat, endless : BOOLEAN],
         RecoveryKnown', recovery'.endless \/ (~ recovery.endless /\ Granted' >= Granted)
  PROVE  PopulationInv'
<1>1. PopulationTypeOK /\ DOMAIN agents' = DOMAIN agents
  BY PopulationBasics, LenProperties DEF PopulationInv
<1>2. PopulationTypeOK'
  BY <1>1 DEF PopulationTypeOK
<1>3. Heads'
  <2>1. Dead' = Dead
    BY <1>1 DEF Dead, Alike
  <2>2. QED
    BY <1>1, <2>1 DEF PopulationInv, Heads, Alike
<1>4. AllFair'
  <2> SUFFICES ASSUME NEW i \in DOMAIN agents PROVE Fair(agents[i])'
    BY <1>1 DEF AllFair
  <2>1. Fair(agents[i]) /\ Alike(agents[i], agents'[i]) /\ agents[i] \in AgentType
        /\ Hold[agents[i].kind] \in Nat
    BY <1>1, PopulationBasics DEF PopulationInv, AllFair
  <2>2. ASSUME ~ recovery'.endless
        PROVE  Granted \in Int /\ Granted' \in Int /\ Granted' >= Granted /\ ~ recovery.endless
    <3>1. (~ recovery.endless => Granted \in Nat)
      BY <1>1, GrantedTyped DEF PopulationInv
    <3>2. (~ recovery.endless => Granted \in Nat)'
      <4>1. PopulationTypeOK' /\ RecoveryKnown' => (~ recovery.endless => Granted \in Nat)'
        BY GrantedTyped, PTL
      <4>2. QED
        BY <1>2, <4>1
    <3>3. QED
      BY <2>2, <3>1, <3>2
  <2>3. agents[i].starving \in Int
    BY <2>1 DEF AgentType
  <2>4. QED
    BY <2>1, <2>2, <2>3 DEF Fair, Alike
<1>5. QED
  BY <1>2, <1>3, <1>4 DEF PopulationInv, Spared

\* A recovery that begins adds its window to what may be granted; one that ends
\* leaves the rest of it unused, but granted.
LEMMA RecoveryGrants ==
  ASSUME PopulationInv, turn = "work", RecoveryTurns, LastPass' = LastPass
  PROVE  /\ recovery' \in [on : BOOLEAN, entered : Int, times : Nat, endless : BOOLEAN]
         /\ RecoveryKnown'
         /\ recovery'.endless \/ (~ recovery.endless /\ Granted' >= Granted)
<1> DEFINE n == recovery.times
<1>1. /\ PopulationTypeOK /\ RecoveryKnown
      /\ n \in Nat /\ GraceTime \in Nat /\ now \in Nat /\ LastPass = now - 1 /\ NoTime \in Int
      /\ recovery \in [on : BOOLEAN, entered : Int, times : Nat, endless : BOOLEAN]
  BY LifeAssumption DEF PopulationInv, PopulationTypeOK, LastPass, NoTime
<1>2. CASE recovery.on
  <2>1. recovery' = [recovery EXCEPT !.on = FALSE]
    BY <1>2 DEF RecoveryTurns
  <2>2. /\ recovery' \in [on : BOOLEAN, entered : Int, times : Nat, endless : BOOLEAN]
        /\ recovery'.on = FALSE /\ recovery'.times = n /\ recovery'.endless = recovery.endless
    BY <1>1, <2>1
  <2>3. Granted' = n * GraceTime
    BY <2>2 DEF Granted
  <2>4. ~ recovery.endless => Granted' >= Granted
    BY <1>1, <2>3, GrantedTyped
  <2>5. QED
    BY <1>1, <2>2, <2>4 DEF RecoveryKnown
<1>3. CASE ~ recovery.on
  <2>1. PICK at \in {now, NoTime} :
          recovery' = [on |-> TRUE, entered |-> at, times |-> n + 1,
                       endless |-> recovery.endless \/ at = NoTime]
    BY <1>3 DEF RecoveryTurns
  <2> DEFINE e == recovery.endless \/ at = NoTime
  <2>2. /\ recovery' \in [on : BOOLEAN, entered : Int, times : Nat, endless : BOOLEAN]
        /\ recovery'.on = TRUE /\ recovery'.times = n + 1 /\ recovery'.entered = at
        /\ recovery'.endless <=> recovery.endless \/ at = NoTime
    <3>1. e \in BOOLEAN /\ at \in Int /\ n + 1 \in Nat
      BY <1>1, <2>1
    <3>2. recovery' = [on |-> TRUE, entered |-> at, times |-> n + 1, endless |-> e]
      BY <2>1
    <3>3. e <=> recovery.endless \/ at = NoTime
      OBVIOUS
    <3> HIDE DEF e
    <3>4. recovery'.endless = e
      BY <3>2
    <3>5. QED
      BY <3>1, <3>2, <3>3, <3>4
  <2>3. RecoveryKnown'
    BY <1>1, <2>1, <2>2 DEF RecoveryKnown
  <2>4. ASSUME ~ recovery'.endless PROVE Granted' = Granted
    <3>1. Granted = n * GraceTime
      BY <1>3 DEF Granted
    <3>2. n + 1 - 1 = n /\ LastPass - now + 1 = 0 /\ n * GraceTime \in Nat
      BY <1>1
    <3>3. Minimum(GraceTime, 0) = 0
      BY <1>1 DEF Minimum
    <3>4. at = now
      BY <2>1, <2>2, <2>4
    <3>5. Granted' = (recovery'.times - 1) * GraceTime
                     + Minimum(GraceTime, LastPass - recovery'.entered + 1)
      <4>1. LastPass' = LastPass /\ recovery'.on = TRUE
        BY <2>2
      <4>2. Granted' = IF recovery'.on
                       THEN (recovery'.times - 1) * GraceTime
                            + Minimum(GraceTime, LastPass' - recovery'.entered + 1)
                       ELSE recovery'.times * GraceTime
        BY DEF Granted, Minimum
      <4>3. QED
        BY <4>1, <4>2
    <3>6. QED
      BY <1>1, <2>2, <3>1, <3>2, <3>3, <3>4, <3>5
  <2>5. ~ recovery'.endless => Granted \in Nat /\ ~ recovery.endless
    BY <1>1, <2>2, GrantedTyped
  <2>6. QED
    BY <1>1, <2>2, <2>3, <2>4, <2>5
<1>4. QED
  BY <1>2, <1>3

\* Nothing about recoveries or the last pass changes.
LEMMA RecoveryStays ==
  ASSUME PopulationInv, UNCHANGED recovery, LastPass' = LastPass
  PROVE  /\ recovery' \in [on : BOOLEAN, entered : Int, times : Nat, endless : BOOLEAN]
         /\ RecoveryKnown'
         /\ recovery'.endless \/ (~ recovery.endless /\ Granted' >= Granted)
<1>1. /\ recovery \in [on : BOOLEAN, entered : Int, times : Nat, endless : BOOLEAN]
      /\ PopulationTypeOK /\ RecoveryKnown
  BY DEF PopulationInv, PopulationTypeOK
<1>2. RecoveryKnown' /\ Granted' = Granted
  BY <1>1 DEF RecoveryKnown, Granted
<1>3. ~ recovery.endless => Granted \in Nat
  BY <1>1, GrantedTyped
<1>4. QED
  BY <1>1, <1>2, <1>3

LEMMA AllAlike ==
  ASSUME PopulationInv, UNCHANGED agents
  PROVE  /\ agents' \in Seq(AgentType) /\ Len(agents') = Len(agents)
         /\ \A i \in DOMAIN agents : Alike(agents[i], agents'[i])
  BY DEF PopulationInv, PopulationTypeOK, Alike

\* Work changes hunger or the load of one agent.
LEMMA OneAlike ==
  ASSUME PopulationInv, NEW i \in DOMAIN agents, NEW b \in AgentType, Alike(agents[i], b),
         agents' = [agents EXCEPT ![i] = b]
  PROVE  /\ agents' \in Seq(AgentType) /\ Len(agents') = Len(agents)
         /\ \A j \in DOMAIN agents : Alike(agents[j], agents'[j])
<1>1. i \in 1 .. Len(agents) /\ agents \in Seq(AgentType) /\ DOMAIN agents = 1 .. Len(agents)
  BY PopulationBasics DEF PopulationInv, PopulationTypeOK
<1>2. QED
  BY <1>1, ExceptSeq DEF Alike

LEMMA WorkAlike ==
  ASSUME PopulationInv, HungerTurns \/ PicksUp \/ Delivers
  PROVE  /\ agents' \in Seq(AgentType) /\ Len(agents') = Len(agents)
         /\ \A i \in DOMAIN agents : Alike(agents[i], agents'[i])
<1>1. \A i \in DOMAIN agents : agents[i] \in AgentType
  BY PopulationBasics DEF PopulationInv
<1>2. ASSUME NEW i \in DOMAIN agents, agents' = [agents EXCEPT ![i].hungry = ~ agents[i].hungry]
      PROVE  \E b \in AgentType : Alike(agents[i], b) /\ agents' = [agents EXCEPT ![i] = b]
  <2> DEFINE b == [agents[i] EXCEPT !.hungry = ~ agents[i].hungry]
  <2>1. b \in AgentType /\ Alike(agents[i], b)
    BY <1>1 DEF AgentType, Alike
  <2>2. agents' = [agents EXCEPT ![i] = b]
    BY <1>2
  <2>3. QED
    BY <2>1, <2>2
<1>3. ASSUME NEW i \in DOMAIN agents, NEW g \in Goods \union {NoLoad},
             agents' = [agents EXCEPT ![i].carry = g]
      PROVE  \E b \in AgentType : Alike(agents[i], b) /\ agents' = [agents EXCEPT ![i] = b]
  <2> DEFINE b == [agents[i] EXCEPT !.carry = g]
  <2>1. b \in AgentType /\ Alike(agents[i], b)
    BY <1>1 DEF AgentType, Alike
  <2>2. agents' = [agents EXCEPT ![i] = b]
    BY <1>3
  <2>3. QED
    BY <2>1, <2>2
<1>4. \E i \in DOMAIN agents, b \in AgentType :
        Alike(agents[i], b) /\ agents' = [agents EXCEPT ![i] = b]
  BY <1>2, <1>3 DEF HungerTurns, PicksUp, Delivers
<1>5. QED
  BY <1>4, OneAlike

\* Nothing the population is counted by changes.
LEMMA QuietSteps ==
  ASSUME PopulationInv,
         \/ Clock \/ Work \/ Resources \/ Observe \/ UNCHANGED vars
         \/ Recruit /\ UNCHANGED <<agents, metrics, news>>
  PROVE  PopulationInv'
<1> USE DEF population, economy, news, mind, outside, vars
<1>1. /\ PopulationTypeOK /\ turn \in Turns /\ now \in Nat
      /\ toll \in [EventTypes -> Nat]
  BY DEF PopulationInv, PopulationTypeOK
<1>2. CASE Clock
  <2>1. turn' = "recruit" /\ now' \in Nat /\ LastPass' = LastPass
    BY <1>1, <1>2 DEF Clock, LastPass
  <2>2. UNCHANGED <<agents, metrics, toll, recovery>>
    BY <1>2 DEF Clock
  <2>3. QED
    BY <1>1, <2>1, <2>2, AllAlike, RecoveryStays, AlikeKeeps DEF Turns
<1>3. CASE Recruit /\ UNCHANGED <<agents, metrics, news>>
  <2>1. turn' = "work" /\ now' = now /\ LastPass' = LastPass
    BY <1>1, <1>3 DEF Recruit, LastPass
  <2>2. UNCHANGED <<agents, metrics, toll, recovery>>
    BY <1>3 DEF Recruit
  <2>3. QED
    BY <1>1, <2>1, <2>2, AllAlike, RecoveryStays, AlikeKeeps DEF Turns
<1>4. CASE Work
  <2>1. turn = "work" /\ turn' = "mortality" /\ now' = now /\ LastPass' = LastPass
        /\ UNCHANGED <<metrics, toll>>
    BY <1>1, <1>4 DEF Work, LastPass, Calm, HungerTurns, PicksUp, Delivers, Rebuilds,
       RecoveryTurns, ScenesTurn
  <2>2. /\ agents' \in Seq(AgentType) /\ Len(agents') = Len(agents)
        /\ \A i \in DOMAIN agents : Alike(agents[i], agents'[i])
    <3>1. UNCHANGED agents \/ HungerTurns \/ PicksUp \/ Delivers
      BY <1>4 DEF Work, Calm, Rebuilds, RecoveryTurns, ScenesTurn
    <3>2. QED
      BY <3>1, AllAlike, WorkAlike
  <2>3. /\ recovery' \in [on : BOOLEAN, entered : Int, times : Nat, endless : BOOLEAN]
        /\ RecoveryKnown'
        /\ recovery'.endless \/ (~ recovery.endless /\ Granted' >= Granted)
    <3>1. RecoveryTurns \/ UNCHANGED recovery
      BY <1>4 DEF Work, Calm, HungerTurns, PicksUp, Delivers, Rebuilds, ScenesTurn
    <3>2. QED
      BY <2>1, <3>1, RecoveryStays, RecoveryGrants
  <2>4. QED
    BY <1>1, <2>1, <2>2, <2>3, AlikeKeeps DEF Turns
<1>5. CASE Resources
  <2>1. turn' = "observe" /\ now' = now /\ LastPass' = LastPass
    BY <1>1, <1>5 DEF Resources, LastPass
  <2>2. UNCHANGED <<agents, metrics, recovery>>
    BY <1>5 DEF Resources
  <2> DEFINE types == AlarmsOf(StockAfter)
  <2>3. toll' = [t \in EventTypes |-> toll[t] + Count(types, t)]
    BY <1>5 DEF Resources, Emitted, Count
  <2>4. \A t \in EventTypes : Count(types, t) \in Nat
    BY AlarmsCounted
  <2>5. \A t \in Births \union Deaths : Count(types, t) = 0
    BY CountAlarms
  <2> HIDE DEF types
  <2>6. toll' \in [EventTypes -> Nat] /\ \A t \in Births \union Deaths : toll'[t] = toll[t]
    BY <1>1, <2>3, <2>4, <2>5 DEF EventTypes
  <2>7. QED
    BY <1>1, <2>1, <2>2, <2>6, AllAlike, RecoveryStays, AlikeKeeps DEF Turns
<1>6. CASE Observe
  <2>1. turn' = "clock" /\ now' = now /\ LastPass' = LastPass
    BY <1>1, <1>6 DEF Observe, LastPass
  <2>2. UNCHANGED <<agents, metrics, toll, recovery>>
    BY <1>6 DEF Observe
  <2>3. QED
    BY <1>1, <2>1, <2>2, AllAlike, RecoveryStays, AlikeKeeps DEF Turns
<1>7. CASE UNCHANGED vars
  <2>1. UNCHANGED <<turn, now, agents, metrics, toll, recovery>>
    BY <1>7
  <2>2. PopulationTypeOK' /\ Heads' /\ RecoveryKnown' /\ AllFair' /\ Spared'
    BY <2>1 DEF PopulationInv, PopulationTypeOK, Heads, Dead, RecoveryKnown, AllFair, Fair, Spared,
       InGrace, LastPass, Granted
  <2>3. QED
    BY <2>2 DEF PopulationInv
<1>8. QED
  BY <1>2, <1>3, <1>4, <1>5, <1>6, <1>7

\* A recruit takes the next number and is fed.
LEMMA ArrivalSteps ==
  ASSUME PopulationInv, Recruit, ~ UNCHANGED <<agents, metrics, news>>
  PROVE  PopulationInv'
<1> DEFINE b == NewAgent(WorkerId, "WORKER")
           types == <<"visitor_arrived", "worker_born">>
<1>1. /\ PopulationTypeOK /\ Heads /\ AllFair /\ RecoveryKnown
      /\ agents \in Seq(AgentType) /\ Len(agents) \in Nat /\ DOMAIN agents = 1 .. Len(agents)
      /\ now \in Nat /\ NoTime \in Int
      /\ metrics \in [births : Nat, deaths : Nat] /\ toll \in [EventTypes -> Nat]
  BY PopulationBasics DEF PopulationInv, PopulationTypeOK, NoTime
<1>2. /\ agents' = Append(agents, b)
      /\ metrics' = [metrics EXCEPT !.births = metrics.births + 1]
      /\ Emitted(types)
      /\ turn = "recruit" /\ turn' = "work" /\ now' = now /\ UNCHANGED recovery
  BY DEF Recruit, RecruitIdle, RecruitRuns, outside
<1>3. LastPass' = LastPass /\ LastPass = now - 1
  BY <1>1, <1>2 DEF LastPass
<1>4. b \in AgentType /\ b.alive = TRUE /\ b.id = Len(agents) + 1 /\ b.kind \in Kinds
      /\ b.starving = 0 /\ b.fed = now - 1
  BY <1>1 DEF NewAgent, WorkerId, AgentType, Kinds
<1> HIDE DEF b, types
<1>5. /\ agents' \in Seq(AgentType) /\ Len(agents') = Len(agents) + 1
      /\ DOMAIN agents' = 1 .. (Len(agents) + 1)
      /\ \A i \in 1 .. Len(agents) : agents'[i] = agents[i]
      /\ agents'[Len(agents) + 1] = b
  <2>1. agents' = Append(agents, b) /\ agents \in Seq(AgentType) /\ b \in AgentType
    BY <1>1, <1>2, <1>4
  <2>2. /\ agents' \in Seq(AgentType) /\ Len(agents') = Len(agents) + 1
        /\ \A i \in 1 .. Len(agents) : agents'[i] = agents[i]
        /\ agents'[Len(agents) + 1] = b
    BY <2>1, AppendProperties
  <2>3. QED
    BY <2>2, LenProperties
<1>6. /\ toll' \in [EventTypes -> Nat]
      /\ \A t \in Births : toll'[t] = toll[t] + 1
      /\ \A t \in Deaths : toll'[t] = toll[t]
  <2>1. toll' = [t \in EventTypes |-> toll[t] + Count(types, t)]
    BY <1>2 DEF Emitted, Count
  <2>2. \A t \in EventTypes : Count(types, t) = IF t \in Births THEN 1 ELSE 0
    BY CountArrival DEF types
  <2>3. QED
    BY <1>1, <2>1, <2>2 DEF EventTypes, Births, Deaths
<1>7. /\ metrics' \in [births : Nat, deaths : Nat]
      /\ metrics'.births = metrics.births + 1 /\ metrics'.deaths = metrics.deaths
  <2>1. metrics' = [metrics EXCEPT !.births = metrics.births + 1]
    BY <1>2
  <2>2. metrics.births + 1 \in Nat
    BY <1>1
  <2>3. QED
    BY <1>1, <2>1, <2>2
<1>8. PopulationTypeOK'
  BY <1>1, <1>2, <1>5, <1>6, <1>7 DEF PopulationTypeOK, Turns
<1>9. Heads'
  <2>1. Dead' = Dead
    BY <1>1, <1>4, <1>5 DEF Dead
  <2>2. \A i \in DOMAIN agents' : agents'[i].id = i
    BY <1>1, <1>4, <1>5 DEF Heads
  <2>3. Len(agents') = Len(InitialKinds) + metrics'.births
    <3>1. Len(InitialKinds) \in Nat /\ Len(agents) = Len(InitialKinds) + metrics.births
          /\ metrics.births \in Nat
      BY <1>1, LifeAssumption, LenProperties DEF Heads
    <3>2. QED
      BY <1>5, <1>7, <3>1
  <2>4. /\ metrics'.deaths = Cardinality(Dead')
        /\ \A t \in Births : toll'[t] = metrics'.births
        /\ \A t \in Deaths : toll'[t] = metrics'.deaths
    BY <1>1, <1>6, <1>7, <2>1 DEF Heads
  <2>5. QED
    BY <2>2, <2>3, <2>4 DEF Heads
<1>10. RecoveryKnown' /\ Granted' = Granted
  BY <1>1, <1>2, <1>3 DEF RecoveryKnown, Granted
<1>11. AllFair'
  <2> SUFFICES ASSUME NEW i \in DOMAIN agents' PROVE Fair(agents[i])'
    BY DEF AllFair
  <2>1. CASE i \in DOMAIN agents
    <3>1. Fair(agents[i]) /\ agents'[i] = agents[i]
      BY <1>1, <1>5, <2>1 DEF AllFair
    <3>2. recovery' = recovery
      BY <1>2
    <3>3. QED
      BY <1>3, <1>10, <3>1, <3>2 DEF Fair
  <2>2. CASE i = Len(agents) + 1
    <3>1. Hold[b.kind] \in Nat \ {0}
      BY <1>4, LifeAssumption
    <3>2. ~ recovery.endless => Granted \in Nat
      BY <1>1, GrantedTyped
    <3>3. agents'[i] = b /\ recovery' = recovery
      BY <1>2, <1>5, <2>2
    <3>4. b.starving = LastPass - b.fed
      BY <1>1, <1>3, <1>4
    <3>5. ~ recovery.endless => b.starving < Hold[b.kind] + Granted
      BY <1>4, <3>1, <3>2
    <3>6. QED
      BY <1>3, <1>4, <1>10, <3>3, <3>4, <3>5 DEF Fair
  <2>3. QED
    BY <1>1, <1>5, <2>1, <2>2
<1>12. Spared'
  BY <1>2 DEF Spared
<1>13. QED
  BY <1>8, <1>9, <1>10, <1>11, <1>12 DEF PopulationInv

-----------------------------------------------------------------------------
(* The pass over the agents *)

\* The fields of an agent after the pass.
LEMMA AfterFields ==
  ASSUME NEW a \in AgentType, now \in Nat
  PROVE  LET b == AgentAfter(a)
         IN /\ b \in AgentType /\ b.id = a.id /\ b.kind = a.kind
            /\ ~ a.alive => b = a
            /\ a.alive => /\ b.alive <=> ~ Dies(a)
                          /\ b.starving = StarvingAfter(a)
                          /\ b.fed = IF a.hungry THEN a.fed ELSE now
                          /\ Dies(a) => b.died = now
<1> DEFINE s == StarvingAfter(a)
           f == IF a.hungry THEN a.fed ELSE now
<1>1. s \in Nat /\ f \in Int
  BY DEF AgentType, StarvingAfter
<1>2. CASE ~ a.alive
  BY <1>2 DEF AgentAfter
<1>3. CASE a.alive /\ Dies(a)
  <2>1. AgentAfter(a) = [a EXCEPT !.alive = FALSE, !.starving = s, !.died = now,
                           !.carry = NoLoad, !.fed = f]
    BY <1>3 DEF AgentAfter
  <2> HIDE DEF s, f
  <2> DEFINE a1 == [a EXCEPT !.alive = FALSE]
             a2 == [a1 EXCEPT !.starving = s]
             a3 == [a2 EXCEPT !.died = now]
             a4 == [a3 EXCEPT !.carry = NoLoad]
             a5 == [a4 EXCEPT !.fed = f]
  <2>2. a1 \in AgentType /\ a1.alive = FALSE /\ a1.id = a.id /\ a1.kind = a.kind
    BY DEF AgentType
  <2>3. a2 \in AgentType /\ a2.starving = s /\ a2.alive = FALSE /\ a2.id = a.id /\ a2.kind = a.kind
    <3> HIDE DEF a1
    <3>1. QED
      BY <1>1, <2>2 DEF AgentType
  <2>4. a3 \in AgentType /\ a3.died = now /\ a3.starving = s /\ a3.alive = FALSE
        /\ a3.id = a.id /\ a3.kind = a.kind
    <3> HIDE DEF a2
    <3>1. QED
      BY <2>3 DEF AgentType
  <2>5. a4 \in AgentType /\ a4.died = now /\ a4.starving = s /\ a4.alive = FALSE
        /\ a4.id = a.id /\ a4.kind = a.kind
    <3> HIDE DEF a3
    <3>1. QED
      BY <2>4 DEF AgentType
  <2>6. a5 \in AgentType /\ a5.fed = f /\ a5.died = now /\ a5.starving = s /\ a5.alive = FALSE
        /\ a5.id = a.id /\ a5.kind = a.kind
    <3> HIDE DEF a4
    <3>1. QED
      BY <1>1, <2>5 DEF AgentType
  <2>7. AgentAfter(a) = a5
    BY <2>1
  <2> HIDE DEF a5
  <2>8. QED
    BY <1>3, <2>6, <2>7 DEF s, f
<1>4. CASE a.alive /\ ~ Dies(a)
  <2>1. AgentAfter(a) = [a EXCEPT !.starving = s, !.fed = f]
    BY <1>4 DEF AgentAfter
  <2> HIDE DEF s, f
  <2> DEFINE a1 == [a EXCEPT !.starving = s]
             a2 == [a1 EXCEPT !.fed = f]
  <2>2. a1 \in AgentType /\ a1.starving = s /\ a1.alive = a.alive /\ a1.id = a.id /\ a1.kind = a.kind
    BY <1>1 DEF AgentType
  <2>3. a2 \in AgentType /\ a2.fed = f /\ a2.starving = s /\ a2.alive = a.alive
        /\ a2.id = a.id /\ a2.kind = a.kind
    <3> HIDE DEF a1
    <3>1. QED
      BY <1>1, <2>2 DEF AgentType
  <2>4. AgentAfter(a) = a2
    BY <2>1
  <2> HIDE DEF a2
  <2>5. QED
    BY <1>4, <2>3, <2>4 DEF s, f
<1>5. QED
  BY <1>2, <1>3, <1>4

LEMMA MortalitySteps ==
  ASSUME PopulationInv, Mortality
  PROVE  PopulationInv'
<1> DEFINE n == Cardinality(Dying)
           types == [k \in 1..2 * n |-> IF k % 2 = 1 THEN "worker_died" ELSE "worker_starved"]
<1>1. /\ PopulationTypeOK /\ Heads /\ AllFair /\ RecoveryKnown
      /\ agents \in Seq(AgentType) /\ Len(agents) \in Nat /\ DOMAIN agents = 1 .. Len(agents)
      /\ now \in Nat /\ NoTime = -1 /\ GraceTime \in Nat
      /\ metrics \in [births : Nat, deaths : Nat] /\ toll \in [EventTypes -> Nat]
  BY PopulationBasics, LifeAssumption DEF PopulationInv, PopulationTypeOK, NoTime
<1>2. /\ agents' = [i \in DOMAIN agents |-> AgentAfter(agents[i])]
      /\ turn = "mortality" /\ turn' = "resources" /\ now' = now /\ UNCHANGED recovery
  BY DEF Mortality, outside
<1>3. LastPass' = now /\ LastPass = now - 1
  BY <1>1, <1>2 DEF LastPass
<1>4. \A i \in DOMAIN agents : agents[i] \in AgentType /\ Hold[agents[i].kind] \in Nat \ {0}
  BY <1>1, PopulationBasics
<1>5. /\ agents' \in Seq(AgentType) /\ DOMAIN agents' = DOMAIN agents /\ Len(agents') = Len(agents)
      /\ \A i \in DOMAIN agents : agents'[i] = AgentAfter(agents[i])
  <2>1. \A i \in DOMAIN agents : AgentAfter(agents[i]) \in AgentType
    BY <1>1, <1>4, AfterFields
  <2>2. agents' = [i \in 1 .. Len(agents) |-> AgentAfter(agents[i])]
    BY <1>1, <1>2
  <2>3. QED
    BY <1>1, <2>1, <2>2, LenProperties
<1>6. Dead' = Dead \union Dying /\ Dead \intersect Dying = {}
  <2>1. \A i \in DOMAIN agents : ~ agents'[i].alive <=> ~ agents[i].alive \/ Dies(agents[i])
    BY <1>1, <1>4, <1>5, AfterFields
  <2>2. \A i \in DOMAIN agents : Dies(agents[i]) => agents[i].alive
    BY DEF Dies
  <2>3. QED
    BY <1>5, <2>1, <2>2 DEF Dead, Dying
<1>7. n \in Nat /\ Cardinality(Dead) \in Nat /\ Cardinality(Dead') = Cardinality(Dead) + n
  <2>1. Dead \subseteq DOMAIN agents /\ Dying \subseteq DOMAIN agents
    BY DEF Dead, Dying
  <2>2. IsFiniteSet(Dead) /\ IsFiniteSet(Dying) /\ n \in Nat /\ Cardinality(Dead) \in Nat
    BY <1>1, <2>1, PopulationBasics
  <2>3. Cardinality(Dead \union Dying)
          = Cardinality(Dead) + Cardinality(Dying) - Cardinality(Dead \intersect Dying)
    BY <2>2, FS_Union
  <2>4. Cardinality(Dead \intersect Dying) = 0
    BY <1>6, FS_EmptySet
  <2>5. QED
    BY <1>6, <2>2, <2>3, <2>4
<1>8. /\ metrics' \in [births : Nat, deaths : Nat]
      /\ metrics'.births = metrics.births /\ metrics'.deaths = metrics.deaths + n
  <2>1. metrics' = [metrics EXCEPT !.deaths = metrics.deaths + n]
    BY DEF Mortality
  <2>2. metrics.deaths + n \in Nat
    BY <1>1, <1>7
  <2> HIDE DEF n
  <2>3. QED
    BY <1>1, <2>1, <2>2
<1>9. /\ toll' \in [EventTypes -> Nat]
      /\ \A t \in Births : toll'[t] = toll[t]
      /\ \A t \in Deaths : toll'[t] = toll[t] + n
  <2>1. toll' = [t \in EventTypes |-> toll[t] + Count(types, t)]
    BY DEF Mortality, Emitted, Count
  <2>2. \A t \in EventTypes : Count(types, t) = IF t \in Deaths THEN n ELSE 0
    BY <1>7, CountDeaths
  <2> HIDE DEF types, n
  <2>3. QED
    BY <1>1, <1>7, <2>1, <2>2 DEF EventTypes, Births, Deaths
<1> HIDE DEF n, types
<1>10. PopulationTypeOK'
  BY <1>1, <1>2, <1>5, <1>8, <1>9 DEF PopulationTypeOK, Turns
<1>11. Heads'
  <2>1. \A i \in DOMAIN agents' : agents'[i].id = i
    BY <1>1, <1>4, <1>5, AfterFields DEF Heads
  <2>2. /\ Len(agents') = Len(InitialKinds) + metrics'.births
        /\ metrics'.deaths = Cardinality(Dead')
        /\ \A t \in Births : toll'[t] = metrics'.births
        /\ \A t \in Deaths : toll'[t] = metrics'.deaths
    BY <1>1, <1>5, <1>7, <1>8, <1>9 DEF Heads
  <2>3. QED
    BY <2>1, <2>2 DEF Heads
<1>12. RecoveryKnown'
  BY <1>1, <1>2, <1>3 DEF RecoveryKnown
\* In the window every pass adds one to what is granted; never does one take.
<1>13. ~ recovery.endless => /\ Granted \in Nat /\ Granted' \in Nat /\ Granted' >= Granted
                             /\ InGrace => Granted' = Granted + 1
  <2> SUFFICES ASSUME ~ recovery.endless
               PROVE  /\ Granted \in Nat /\ Granted' \in Nat /\ Granted' >= Granted
                      /\ InGrace => Granted' = Granted + 1
    OBVIOUS
  <2>1. Granted \in Nat
    BY <1>1, GrantedTyped
  <2>2. CASE ~ recovery.on
    BY <1>2, <2>1, <2>2 DEF Granted, InGrace
  <2>3. CASE recovery.on
    <3> DEFINE p == (recovery.times - 1) * GraceTime
               e == recovery.entered
    <3>1. e \in Nat /\ e <= now /\ recovery.times \in Nat /\ recovery.times - 1 \in Nat
      BY <1>1, <1>3, <2>3 DEF RecoveryKnown, PopulationTypeOK
    <3>2. p \in Nat
      BY <1>1, <3>1
    <3>3. Granted = p + Minimum(GraceTime, now - 1 - e + 1)
      BY <1>3, <2>3 DEF Granted
    <3>4. Granted' = p + Minimum(GraceTime, now - e + 1)
      <4>1. LastPass' = now /\ recovery' = recovery
        BY <1>2, <1>3
      <4>2. Granted' = IF recovery'.on
                       THEN (recovery'.times - 1) * GraceTime
                            + Minimum(GraceTime, LastPass' - recovery'.entered + 1)
                       ELSE recovery'.times * GraceTime
        BY DEF Granted, Minimum
      <4>3. QED
        BY <2>3, <4>1, <4>2
    <3>5. InGrace => now - e < GraceTime
      BY <1>1, <3>1 DEF InGrace
    <3> HIDE DEF p, e
    <3>6. QED
      BY <1>1, <3>1, <3>2, <3>3, <3>4, <3>5 DEF Minimum
  <2>4. QED
    BY <2>2, <2>3
<1>14. InGrace' = InGrace
  BY <1>2 DEF InGrace
<1>15. ASSUME NEW i \in DOMAIN agents
       PROVE  /\ Fair(agents[i])'
              /\ agents'[i].alive /\ agents'[i].starving >= Hold[agents'[i].kind] => InGrace
  <2> DEFINE a == agents[i]
             b == agents'[i]
             h == Hold[a.kind]
  <2>1. /\ a \in AgentType /\ h \in Nat \ {0} /\ Fair(a) /\ b = AgentAfter(a)
        /\ recovery' = recovery
    BY <1>1, <1>2, <1>4, <1>5 DEF AllFair
  <2>2. /\ b \in AgentType /\ b.kind = a.kind
        /\ ~ a.alive => b = a
        /\ a.alive => /\ b.alive <=> ~ Dies(a)
                      /\ b.starving = StarvingAfter(a)
                      /\ b.fed = IF a.hungry THEN a.fed ELSE now
                      /\ Dies(a) => b.died = now
    BY <1>1, <2>1, AfterFields
  <2>3. /\ a.starving \in Nat /\ a.fed \in Int
        /\ a.alive => a.starving = now - 1 - a.fed
        /\ a.alive /\ ~ recovery.endless => a.starving < h + Granted
    BY <1>3, <2>1 DEF Fair, AgentType
  <2>4. CASE ~ a.alive
    <3>1. ~ b.alive /\ b.died - b.fed >= h
      BY <2>1, <2>2, <2>4 DEF Fair
    <3>2. QED
      BY <2>2, <3>1 DEF Fair
  <2>5. CASE a.alive /\ a.hungry
    <3>1. b.starving = a.starving + 1 /\ b.fed = a.fed
      BY <2>2, <2>5 DEF StarvingAfter
    <3>2. Dies(a) <=> a.starving + 1 >= h /\ ~ InGrace
      BY <2>5 DEF Dies, StarvingAfter
    <3>3. b.alive => b.starving = now - b.fed
      BY <1>1, <2>3, <2>5, <3>1
    <3>4. ~ b.alive => b.died - b.fed >= h
      BY <1>1, <2>1, <2>2, <2>3, <2>5, <3>1, <3>2
    <3>5. b.alive /\ ~ recovery.endless => b.starving < h + Granted'
      <4> SUFFICES ASSUME b.alive, ~ recovery.endless PROVE b.starving < h + Granted'
        OBVIOUS
      <4>1. Granted \in Nat /\ Granted' \in Nat /\ (InGrace => Granted' = Granted + 1)
        BY <1>13
      <4>2. h \in Nat /\ a.starving \in Nat /\ b.starving = a.starving + 1 /\ a.starving < h + Granted
        BY <2>1, <2>3, <2>5, <3>1
      <4>3. a.starving + 1 < h \/ InGrace
        BY <2>1, <2>2, <2>3, <2>5, <3>2
      <4> HIDE DEF a, b, h
      <4>4. QED
        BY <4>1, <4>2, <4>3
    <3>6. b.alive /\ b.starving >= h => InGrace
      BY <2>2, <2>5, <3>1, <3>2
    <3>7. QED
      BY <1>3, <2>1, <2>2, <3>3, <3>4, <3>5, <3>6 DEF Fair
  <2>6. CASE a.alive /\ ~ a.hungry
    <3>1. b.starving = 0 /\ b.fed = now /\ ~ Dies(a)
      BY <2>1, <2>2, <2>6 DEF StarvingAfter, Dies
    <3>2. b.alive /\ b.starving = now - b.fed
      BY <1>1, <2>2, <2>6, <3>1
    <3>3. b.alive /\ ~ recovery.endless => b.starving < h + Granted'
      <4>1. ~ recovery.endless => Granted' \in Nat
        BY <1>13
      <4>2. h \in Nat \ {0} /\ b.starving = 0
        BY <2>1, <3>1
      <4> HIDE DEF h, b
      <4>3. QED
        BY <4>1, <4>2
    <3>4. ~ (b.starving >= h)
      BY <2>1, <3>1
    <3>5. QED
      BY <1>3, <2>1, <2>2, <3>2, <3>3, <3>4 DEF Fair
  <2>7. QED
    BY <2>4, <2>5, <2>6
<1>16. AllFair' /\ Spared'
  BY <1>5, <1>14, <1>15 DEF AllFair, Spared
<1>17. QED
  BY <1>10, <1>11, <1>12, <1>16 DEF PopulationInv

LEMMA PopulationKept ==
  ASSUME PopulationInv, [LifeNext]_vars
  PROVE  PopulationInv'
<1>1. CASE Recruit
  BY <1>1, QuietSteps, ArrivalSteps
<1>2. CASE Mortality
  BY <1>2, MortalitySteps
<1>3. CASE Clock \/ Work \/ Resources \/ Observe \/ UNCHANGED vars
  BY <1>3, QuietSteps
<1>4. QED
  BY <1>1, <1>2, <1>3 DEF LifeNext, Over

LEMMA PopulationStarts ==
  ASSUME LifeInit
  PROVE  PopulationInv
<1> DEFINE n == Len(InitialKinds)
<1>1. n \in Nat /\ DOMAIN InitialKinds = 1 .. n /\ \A i \in 1 .. n : InitialKinds[i] \in Kinds
  BY LifeAssumption, LenProperties, ElementOfSeq
<1>2. \A i \in 1 .. n :
        [id |-> i, kind |-> InitialKinds[i], alive |-> TRUE, hungry |-> FALSE,
         starving |-> 0, fed |-> 0, died |-> NoTime, carry |-> NoLoad] \in AgentType
  BY <1>1 DEF AgentType, NoTime
<1>3. /\ agents \in Seq(AgentType) /\ Len(agents) = n /\ DOMAIN agents = 1 .. n
      /\ \A i \in 1 .. n : /\ agents[i].id = i /\ agents[i].kind = InitialKinds[i]
                           /\ agents[i].alive = TRUE
                           /\ agents[i].starving = 0 /\ agents[i].fed = 0
  <2>1. agents = [i \in 1 .. n |->
                   [id |-> i, kind |-> InitialKinds[i], alive |-> TRUE, hungry |-> FALSE,
                    starving |-> 0, fed |-> 0, died |-> NoTime, carry |-> NoLoad]]
    BY <1>1 DEF LifeInit
  <2>2. QED
    BY <1>1, <1>2, <2>1, LenProperties
<1>4. /\ turn = "clock" /\ now = 0
      /\ recovery = [on |-> FALSE, entered |-> NoTime, times |-> 0, endless |-> FALSE]
      /\ metrics = [births |-> 0, deaths |-> 0]
      /\ toll = [t \in EventTypes |-> 0]
  BY DEF LifeInit
<1>5. PopulationTypeOK
  BY <1>3, <1>4 DEF PopulationTypeOK, Turns, NoTime
<1>6. Heads
  <2>1. Dead = {}
    BY <1>3 DEF Dead
  <2>2. QED
    BY <1>1, <1>3, <1>4, <2>1, FS_EmptySet DEF Heads, EventTypes, Births, Deaths
<1>7. AllFair
  <2>1. LastPass = 0 /\ Granted \in Nat
    BY <1>4, LifeAssumption DEF LastPass, Granted
  <2>2. \A i \in 1 .. n : Hold[agents[i].kind] \in Nat \ {0}
    BY <1>1, <1>3, LifeAssumption
  <2>3. QED
    BY <1>3, <2>1, <2>2 DEF AllFair, Fair
<1>8. RecoveryKnown /\ Spared
  BY <1>4 DEF RecoveryKnown, Spared
<1>9. QED
  BY <1>5, <1>6, <1>7, <1>8 DEF PopulationInv

-----------------------------------------------------------------------------
(* The stock, step by step *)

\* One unit in so many, rounded up, is never more than there is.
LEMMA RoundedUp ==
  ASSUME NEW s \in Nat, NEW e \in Nat \ {0}
  PROVE  (s + e - 1) \div e \in Nat /\ (s + e - 1) \div e <= s
<1> DEFINE q == (s + e - 1) \div e
           x == s + e - 1
<1>1. x \in Nat
  OBVIOUS
<1>2. q \in Int /\ e * q <= x /\ x < e * q + e
  <2> HIDE DEF x
  <2>1. x \div e \in Nat /\ e * (x \div e) <= x /\ x < e * (x \div e) + e
    BY <1>1, Z3
  <2>2. QED
    BY <2>1 DEF x
<1>3. e * q <= s + e - 1 /\ e * q > s - 1
  <2>1. e * q \in Int
    BY <1>2
  <2> HIDE DEF q
  <2>2. QED
    BY <1>2, <2>1
<1> HIDE DEF q
<1>4. CASE q >= s + 1
  <2>1. e * q >= e * (s + 1)
    BY <1>2, <1>4
  <2>2. e * (s + 1) = e * s + e
    OBVIOUS
  <2>3. e * s >= s
    OBVIOUS
  <2>4. QED
    BY <1>2, <1>3, <2>1, <2>2, <2>3
<1>5. CASE q < 0
  <2>1. e * q <= e * (-1)
    BY <1>2, <1>5
  <2>2. QED
    BY <1>2, <1>3, <2>1
<1>6. QED
  BY <1>2, <1>4, <1>5 DEF q

LEMMA SpoiledBound ==
  ASSUME EconomyTypeOK, NEW g \in Goods
  PROVE  Spoiled(g) \in Nat /\ Spoiled(g) <= stock[g]
<1>1. stock[g] \in Nat /\ SpoilEvery[g] \in Nat
  BY LifeAssumption DEF EconomyTypeOK
<1>2. CASE SpoilEvery[g] = 0
  BY <1>1, <1>2 DEF Spoiled
<1>3. CASE SpoilEvery[g] # 0
  <2>1. /\ (stock[g] + SpoilEvery[g] - 1) \div SpoilEvery[g] \in Nat
        /\ (stock[g] + SpoilEvery[g] - 1) \div SpoilEvery[g] <= stock[g]
    BY <1>1, <1>3, RoundedUp
  <2>2. Spoiled(g) = (stock[g] + SpoilEvery[g] - 1) \div SpoilEvery[g]
    BY <1>3 DEF Spoiled
  <2>3. QED
    BY <2>1, <2>2
<1>4. QED
  BY <1>2, <1>3

LEMMA DrainedBound ==
  ASSUME PopulationTypeOK, EconomyTypeOK
  PROVE  Drained \in Nat /\ Drained <= stock["food"] - Spoiled("food")
<1>1. Workers \in Nat
  <2>1. Living("WORKER") \subseteq DOMAIN agents
    BY DEF Living
  <2>2. QED
    BY <2>1, PopulationBasics DEF Workers
<1>2. Wanted \in Nat
  BY <1>1, LifeAssumption DEF Wanted
<1>3. stock["food"] \in Nat /\ Spoiled("food") \in Nat /\ Spoiled("food") <= stock["food"]
  BY SpoiledBound, LifeAssumption DEF EconomyTypeOK
<1>4. QED
  BY <1>2, <1>3 DEF Drained, Minimum

\* What is brought or taken outside the window is entered beside it.
LEMMA EnteredBeside ==
  ASSUME EconomyInv, NEW d \in [Goods -> Int],
         stock' \in [Goods -> Int], \A g \in Goods : stock'[g] = stock[g] + d[g],
         unrecorded' \in [Goods -> Int], \A g \in Goods : unrecorded'[g] = unrecorded[g] + d[g],
         UNCHANGED flow,
         \A g \in Goods : stock[g] + d[g] >= 0
  PROVE  EconomyInv'
<1>1. EconomyTypeOK'
  BY DEF EconomyInv, EconomyTypeOK
<1>2. StockAccounted'
  <2> SUFFICES ASSUME flow.ready, NEW g \in Goods
               PROVE  stock'[g] = flow.snapshot[g] + unrecorded'[g] - flow.spoiled[g]
                                  - (IF g = "food" THEN flow.consumed ELSE 0)
    BY DEF StockAccounted
  <2> DEFINE c == IF g = "food" THEN flow.consumed ELSE 0
  <2>1. stock[g] = flow.snapshot[g] + unrecorded[g] - flow.spoiled[g] - c
    BY DEF EconomyInv, StockAccounted
  <2>2. /\ stock[g] \in Int /\ unrecorded[g] \in Int /\ flow.snapshot[g] \in Int
        /\ flow.spoiled[g] \in Int /\ c \in Int /\ d[g] \in Int
    BY DEF EconomyInv, EconomyTypeOK
  <2>3. stock'[g] = stock[g] + d[g] /\ unrecorded'[g] = unrecorded[g] + d[g]
    OBVIOUS
  <2> HIDE DEF c
  <2>4. stock'[g] = flow.snapshot[g] + unrecorded'[g] - flow.spoiled[g] - c
    BY <2>1, <2>2, <2>3
  <2>5. QED
    BY <2>4 DEF c
<1>3. WindowUnused'
  BY DEF EconomyInv, WindowUnused
<1>4. QED
  BY <1>1, <1>2, <1>3 DEF EconomyInv

LEMMA RefundTyped ==
  ASSUME PopulationTypeOK, NEW g \in Goods
  PROVE  Refund(g) \in Nat
<1>1. {i \in Dying : agents[i].carry = g} \subseteq DOMAIN agents
  BY DEF Dying
<1>2. Cardinality({i \in Dying : agents[i].carry = g}) \in Nat
  BY <1>1, PopulationBasics
<1>3. QED
  BY <1>2, LifeAssumption DEF Refund

\* The update of the resources: what is eaten and spoiled is entered in the
\* window, or the window begins anew.
LEMMA ResourcesAccount ==
  ASSUME PopulationTypeOK, EconomyInv, Resources
  PROVE  EconomyInv'
<1> DEFINE eaten(g) == IF g = "food" THEN Drained ELSE 0
<1>1. /\ EconomyTypeOK /\ StockAccounted /\ WindowUnused
      /\ stock \in [Goods -> Nat] /\ unrecorded \in [Goods -> Int]
      /\ flow \in [snapshot : [Goods -> Nat], consumed : Nat, spoiled : [Goods -> Nat],
                    age : Nat, ready : BOOLEAN]
  BY DEF EconomyInv, EconomyTypeOK
<1>2. /\ \A g \in Goods : Spoiled(g) \in Nat /\ Spoiled(g) <= stock[g]
      /\ Drained \in Nat /\ Drained <= stock["food"] - Spoiled("food")
  BY <1>1, SpoiledBound, DrainedBound
<1>3. \A g \in Goods : /\ eaten(g) \in Nat
                        /\ StockAfter[g] = stock[g] - Spoiled(g) - eaten(g)
                        /\ StockAfter[g] \in Nat
  <2> SUFFICES ASSUME NEW g \in Goods
               PROVE  /\ eaten(g) \in Nat
                      /\ StockAfter[g] = stock[g] - Spoiled(g) - eaten(g)
                      /\ StockAfter[g] \in Nat
    OBVIOUS
  <2>1. StockAfter[g] = stock[g] - Spoiled(g) - eaten(g)
    BY DEF StockAfter
  <2>2. stock[g] \in Nat /\ Spoiled(g) \in Nat /\ Spoiled(g) <= stock[g]
        /\ eaten(g) \in Nat /\ eaten(g) <= stock[g] - Spoiled(g)
    BY <1>1, <1>2
  <2> HIDE DEF eaten
  <2>3. QED
    BY <2>1, <2>2
<1>4. StockAfter \in [Goods -> Nat] /\ stock' = StockAfter
  BY <1>3 DEF StockAfter, Resources
<1>5. NoGoods \in [Goods -> Nat] /\ \A g \in Goods : NoGoods[g] = 0
  BY DEF NoGoods
<1>6. CASE Flushes
  <2>1. /\ flow' = [snapshot |-> StockAfter, consumed |-> 0, spoiled |-> NoGoods, age |-> 0,
                    ready |-> TRUE]
        /\ unrecorded' = NoGoods
    BY <1>6 DEF Resources
  <2>2. EconomyTypeOK'
    BY <1>4, <1>5, <2>1 DEF EconomyTypeOK
  <2>3. StockAccounted'
    BY <1>4, <1>5, <2>1 DEF StockAccounted
  <2>4. WindowUnused'
    BY <2>1 DEF WindowUnused
  <2>5. QED
    BY <2>2, <2>3, <2>4 DEF EconomyInv
<1>7. CASE ~ Flushes
  <2> DEFINE w == Window
             sp == [g \in Goods |-> w.spoiled[g] + Spoiled(g)]
             w1 == [w EXCEPT !.consumed = w.consumed + Recorded]
             w2 == [w1 EXCEPT !.spoiled = sp]
             w3 == [w2 EXCEPT !.age = w.age + 1]
             u == IF flow.ready THEN unrecorded ELSE NoGoods
  <2>1. /\ w \in [snapshot : [Goods -> Nat], consumed : Nat, spoiled : [Goods -> Nat],
                   age : Nat, ready : BOOLEAN]
        /\ w.ready = TRUE
        /\ u \in [Goods -> Int]
        /\ \A g \in Goods : stock[g] = w.snapshot[g] + u[g] - w.spoiled[g]
                                        - (IF g = "food" THEN w.consumed ELSE 0)
    <3>1. CASE flow.ready
      BY <1>1, <3>1 DEF Window, StockAccounted
    <3>2. CASE ~ flow.ready
      <4> DEFINE v == [flow EXCEPT !.snapshot = stock]
      <4>1. v \in [snapshot : [Goods -> Nat], consumed : Nat, spoiled : [Goods -> Nat],
                   age : Nat, ready : BOOLEAN]
            /\ v.snapshot = stock /\ v.consumed = 0 /\ v.spoiled = NoGoods
        BY <1>1, <3>2 DEF WindowUnused
      <4>2. w = [v EXCEPT !.ready = TRUE]
        BY <3>2 DEF Window
      <4> HIDE DEF v, w
      <4>3. w \in [snapshot : [Goods -> Nat], consumed : Nat, spoiled : [Goods -> Nat],
                   age : Nat, ready : BOOLEAN]
            /\ w.snapshot = stock /\ w.consumed = 0 /\ w.spoiled = NoGoods /\ w.ready = TRUE
        BY <4>1, <4>2
      <4>4. u = NoGoods
        BY <3>2
      <4> HIDE DEF u
      <4>5. \A g \in Goods : stock[g] = w.snapshot[g] + u[g] - w.spoiled[g]
                                        - (IF g = "food" THEN w.consumed ELSE 0)
        BY <1>1, <1>5, <4>3, <4>4
      <4>6. QED
        BY <1>5, <4>3, <4>4, <4>5
    <3>3. QED
      BY <3>1, <3>2
  <2>2. flow' = w3 /\ unrecorded' = u
    BY <1>7 DEF Resources
  <2> HIDE DEF w, u
  <2>3. sp \in [Goods -> Nat] /\ \A g \in Goods : sp[g] = w.spoiled[g] + Spoiled(g)
    BY <1>2, <2>1
  <2> HIDE DEF sp
  <2>4. /\ w1 \in [snapshot : [Goods -> Nat], consumed : Nat, spoiled : [Goods -> Nat],
                    age : Nat, ready : BOOLEAN]
        /\ w1.snapshot = w.snapshot /\ w1.consumed = w.consumed + Drained /\ w1.ready = TRUE
    BY <1>2, <2>1 DEF Recorded
  <2> HIDE DEF w1
  <2>5. /\ w2 \in [snapshot : [Goods -> Nat], consumed : Nat, spoiled : [Goods -> Nat],
                    age : Nat, ready : BOOLEAN]
        /\ w2.snapshot = w.snapshot /\ w2.consumed = w.consumed + Drained /\ w2.ready = TRUE
        /\ w2.spoiled = sp
    BY <2>3, <2>4
  <2> HIDE DEF w2
  <2>6. /\ w3 \in [snapshot : [Goods -> Nat], consumed : Nat, spoiled : [Goods -> Nat],
                    age : Nat, ready : BOOLEAN]
        /\ w3.snapshot = w.snapshot /\ w3.consumed = w.consumed + Drained /\ w3.ready = TRUE
        /\ w3.spoiled = sp
    BY <2>1, <2>5
  <2> HIDE DEF w3
  <2>7. EconomyTypeOK'
    BY <1>4, <2>1, <2>2, <2>6 DEF EconomyTypeOK
  <2>8. StockAccounted'
    <3> SUFFICES ASSUME NEW g \in Goods
                 PROVE  stock'[g] = w3.snapshot[g] + u[g] - w3.spoiled[g]
                                    - (IF g = "food" THEN w3.consumed ELSE 0)
      BY <2>2 DEF StockAccounted
    <3> DEFINE c == IF g = "food" THEN w.consumed ELSE 0
               c3 == IF g = "food" THEN w3.consumed ELSE 0
               e == eaten(g)
    <3>1. stock'[g] = stock[g] - Spoiled(g) - e
      BY <1>3, <1>4
    <3>2. stock[g] = w.snapshot[g] + u[g] - w.spoiled[g] - c
      BY <2>1
    <3>3. w3.snapshot[g] = w.snapshot[g] /\ w3.spoiled[g] = w.spoiled[g] + Spoiled(g)
      BY <2>3, <2>6
    <3>4. c3 = c + e
      BY <1>2, <2>1, <2>6
    <3>5. /\ stock[g] \in Int /\ w.snapshot[g] \in Int /\ u[g] \in Int /\ w.spoiled[g] \in Int
          /\ c \in Int /\ e \in Int /\ Spoiled(g) \in Int
      BY <1>1, <1>2, <2>1
    <3> HIDE DEF c, c3, e
    <3>6. stock'[g] = w3.snapshot[g] + u[g] - w3.spoiled[g] - c3
      BY <3>1, <3>2, <3>3, <3>4, <3>5
    <3>7. QED
      BY <3>6 DEF c3
  <2>9. WindowUnused'
    BY <2>2, <2>6 DEF WindowUnused
  <2>10. QED
    BY <2>7, <2>8, <2>9 DEF EconomyInv
<1>8. QED
  BY <1>6, <1>7

LEMMA EconomyKept ==
  ASSUME PopulationInv, EconomyInv, [LifeNext]_vars
  PROVE  EconomyInv'
<1> USE DEF population, economy, news, mind, outside
<1>1. /\ PopulationTypeOK
      /\ stock \in [Goods -> Nat] /\ unrecorded \in [Goods -> Int]
  BY DEF PopulationInv, EconomyInv, EconomyTypeOK
<1>2. ASSUME UNCHANGED <<stock, unrecorded, flow>> PROVE EconomyInv'
  BY <1>2 DEF EconomyInv, EconomyTypeOK, StockAccounted, WindowUnused
<1>3. CASE Clock \/ Observe \/ UNCHANGED vars
  BY <1>2, <1>3 DEF Clock, Observe, vars
<1>4. CASE Recruit
  <2>1. CASE UNCHANGED <<stock, unrecorded>>
    BY <1>2, <1>4, <2>1 DEF Recruit
  <2>2. CASE ~ UNCHANGED <<stock, unrecorded>>
    <3>1. /\ stock' = [stock EXCEPT !["food"] = stock["food"] - RecruitCost]
          /\ unrecorded' = [unrecorded EXCEPT !["food"] = unrecorded["food"] - RecruitCost]
          /\ stock["food"] >= RecruitCost /\ UNCHANGED flow
      BY <1>4, <2>2 DEF Recruit, RecruitIdle, RecruitRuns, Spawns
    <3> DEFINE d == [g \in Goods |-> IF g = "food" THEN - RecruitCost ELSE 0]
    <3>2. RecruitCost \in Nat /\ "food" \in Goods /\ stock["food"] \in Nat /\ unrecorded["food"] \in Int
      BY <1>1, LifeAssumption
    <3>3. d \in [Goods -> Int]
      BY <3>2
    <3>4. /\ stock' \in [Goods -> Int] /\ \A g \in Goods : stock'[g] = stock[g] + d[g]
          /\ unrecorded' \in [Goods -> Int]
          /\ \A g \in Goods : unrecorded'[g] = unrecorded[g] + d[g]
      BY <1>1, <3>1, <3>2
    <3>5. \A g \in Goods : stock[g] + d[g] >= 0
      BY <1>1, <3>1, <3>2
    <3> HIDE DEF d
    <3>6. QED
      BY <3>1, <3>3, <3>4, <3>5, EnteredBeside
  <2>3. QED
    BY <2>1, <2>2
<1>5. CASE Work
  <2>1. CASE UNCHANGED economy
    BY <1>2, <2>1
  <2>2. CASE Delivers
    <3>1. PICK i \in DOMAIN agents :
            /\ agents[i].carry # NoLoad
            /\ stock' = [stock EXCEPT ![agents[i].carry] = stock[agents[i].carry] + Load]
            /\ unrecorded' = [unrecorded EXCEPT ![agents[i].carry] = unrecorded[agents[i].carry] + Load]
            /\ UNCHANGED flow
      BY <2>2 DEF Delivers
    <3> DEFINE h == agents[i].carry
               d == [g \in Goods |-> IF g = h THEN Load ELSE 0]
    <3>2. h \in Goods /\ Load \in Nat
      BY <1>1, <3>1, PopulationBasics, LifeAssumption DEF AgentType
    <3> HIDE DEF h
    <3>3. d \in [Goods -> Int] /\ \A g \in Goods : stock[g] + d[g] >= 0
      BY <1>1, <3>2
    <3>4. /\ stock' \in [Goods -> Int] /\ \A g \in Goods : stock'[g] = stock[g] + d[g]
          /\ unrecorded' \in [Goods -> Int]
          /\ \A g \in Goods : unrecorded'[g] = unrecorded[g] + d[g]
      <4>1. /\ stock' = [stock EXCEPT ![h] = stock[h] + Load]
            /\ unrecorded' = [unrecorded EXCEPT ![h] = unrecorded[h] + Load]
        BY <3>1 DEF h
      <4>2. QED
        BY <1>1, <3>2, <4>1
    <3> HIDE DEF d
    <3>5. QED
      BY <3>1, <3>3, <3>4, EnteredBeside
  <2>3. QED
    BY <1>5, <2>1, <2>2 DEF Work, Calm, HungerTurns, PicksUp, Rebuilds, RecoveryTurns, ScenesTurn
<1>6. CASE Mortality
  <2> DEFINE d == [g \in Goods |-> Refund(g)]
  <2>1. \A g \in Goods : Refund(g) \in Nat
    BY <1>1, RefundTyped
  <2>2. d \in [Goods -> Int] /\ \A g \in Goods : stock[g] + d[g] >= 0
    BY <1>1, <2>1
  <2>3. /\ stock' \in [Goods -> Int] /\ \A g \in Goods : stock'[g] = stock[g] + d[g]
        /\ unrecorded' \in [Goods -> Int]
        /\ \A g \in Goods : unrecorded'[g] = unrecorded[g] + d[g]
        /\ UNCHANGED flow
    BY <1>1, <1>6, <2>1 DEF Mortality
  <2> HIDE DEF d
  <2>4. QED
    BY <2>2, <2>3, EnteredBeside
<1>7. CASE Resources
  BY <1>1, <1>7, ResourcesAccount
<1>8. QED
  BY <1>3, <1>4, <1>5, <1>6, <1>7 DEF LifeNext, Over

LEMMA EconomyStarts ==
  ASSUME LifeInit
  PROVE  EconomyInv
<1>1. NoGoods \in [Goods -> Nat]
  BY DEF NoGoods
<1>2. QED
  BY <1>1, LifeAssumption DEF LifeInit, EconomyInv, EconomyTypeOK, StockAccounted, WindowUnused

-----------------------------------------------------------------------------
(* Memory *)

Memories ==
  [tag : {"death", "resource_critical", "objective", "weather"}, importance : Int, at : Int, anchor : BOOLEAN]

Healthy(s) == s \in Seq(Memories) /\ Cardinality(Routine(s)) <= Capacity

\* How many anchors there are up to position i.
AnchorRank(s, i) == Cardinality({j \in 1 .. i : s[j].anchor})

\* Each anchor of s is in t too, with as many before it.
Outlives(s, t) ==
  \A i \in DOMAIN s :
    s[i].anchor => \E j \in DOMAIN t : t[j] = s[i] /\ AnchorRank(t, j) = AnchorRank(s, i)

\* In a nonempty set of finite sets some set has no strict subset in it.
LEMMA SmallestSet ==
  ASSUME NEW S, IsFiniteSet(S), NEW X, X \subseteq SUBSET S, X # {}
  PROVE  \E s \in X : \A r \in X : r \subseteq s => r = s
<1>1. X \subseteq FiniteSubsetsOf(S)
  <2>1. \A s \in SUBSET S : IsFiniteSet(s)
    BY FS_Subset
  <2>2. QED
    BY <2>1 DEF FiniteSubsetsOf
<1>2. PICK s \in X : \A r \in X : ~ (<<r, s>> \in StrictSubsetOrdering(S))
  BY <1>1, WFMin, FS_StrictSubsetOrderingWellFounded
<1>3. ASSUME NEW r \in X, r \subseteq s, r # s PROVE FALSE
  <2>1. <<r, s>> \in StrictSubsetOrdering(S)
    BY <1>3 DEF StrictSubsetOrdering
  <2>2. QED
    BY <1>2, <2>1
<1>4. QED
  BY <1>3

\* Of finitely many scored positions one is the first of the lowest.
LEMMA FirstOfLowest ==
  ASSUME NEW S, IsFiniteSet(S), S \subseteq Int, S # {}, NEW f, \A i \in S : f[i] \in Int
  PROVE  \E i \in S : \A j \in S : f[i] < f[j] \/ (f[i] = f[j] /\ i <= j)
<1> DEFINE First(P, i) == \A j \in P : f[i] < f[j] \/ (f[i] = f[j] /\ i <= j)
           X == {P \in SUBSET S : P # {} /\ ~ \E i \in P : First(P, i)}
<1> SUFFICES ASSUME X # {} PROVE FALSE
  <2>1. S \in SUBSET S
    OBVIOUS
  <2>2. QED
    BY <2>1
<1>1. PICK P \in X : \A r \in X : r \subseteq P => r = P
  <2>1. X \subseteq SUBSET S /\ X # {} /\ IsFiniteSet(S)
    OBVIOUS
  <2> HIDE DEF X
  <2>2. QED
    BY ONLY <2>1, SmallestSet
<1>2. P \in SUBSET S /\ P # {} /\ ~ \E i \in P : First(P, i)
  OBVIOUS
<1>3. PICK i \in P : TRUE
  BY <1>2
<1> DEFINE Q == P \ {i}
<1>4. Q \in SUBSET S /\ Q \subseteq P /\ Q # P
  BY <1>2, <1>3
<1>5. Q = {} \/ \E m \in Q : First(Q, m)
  BY <1>1, <1>4
<1>6. i \in S /\ f[i] \in Int /\ i \in Int
  BY <1>2
<1>7. CASE Q = {}
  <2>1. First(P, i)
    BY <1>6, <1>7
  <2>2. QED
    BY <1>2, <2>1
<1>8. CASE \E m \in Q : First(Q, m)
  <2>1. PICK m \in Q : First(Q, m)
    BY <1>8
  <2>2. m \in P /\ m \in Int /\ f[m] \in Int
    BY <1>2
  <2>3. \A j \in P : j # i => j \in Q /\ j \in Int /\ f[j] \in Int
    BY <1>2
  <2> HIDE DEF Q
  <2>4. CASE f[i] < f[m] \/ (f[i] = f[m] /\ i <= m)
    <3>1. First(P, i)
      BY <1>6, <2>1, <2>2, <2>3, <2>4
    <3>2. QED
      BY <1>2, <3>1
  <2>5. CASE ~ (f[i] < f[m] \/ (f[i] = f[m] /\ i <= m))
    <3>1. First(P, m)
      BY <1>6, <2>1, <2>2, <2>3, <2>5
    <3>2. QED
      BY <1>2, <2>2, <3>1
  <2>6. QED
    BY <2>4, <2>5
<1>9. QED
  BY <1>5, <1>7, <1>8

LEMMA StoreFinite ==
  ASSUME NEW s \in Seq(Memories)
  PROVE  /\ Len(s) \in Nat /\ DOMAIN s = 1 .. Len(s)
         /\ \A i \in DOMAIN s : s[i] \in Memories
         /\ IsFiniteSet(DOMAIN s) /\ IsFiniteSet(Routine(s))
         /\ Cardinality(Routine(s)) \in Nat
<1>1. Len(s) \in Nat /\ DOMAIN s = 1 .. Len(s) /\ \A i \in DOMAIN s : s[i] \in Memories
  BY ElementOfSeq, LenProperties
<1>2. IsFiniteSet(DOMAIN s)
  BY <1>1, FS_Interval
<1>3. Routine(s) \in SUBSET DOMAIN s
  BY DEF Routine
<1>4. QED
  BY <1>1, <1>2, <1>3, FS_Subset, FS_CardinalityType

LEMMA LatestTyped ==
  ASSUME NEW s \in Seq(Memories), NEW at \in Int
  PROVE  LatestOf(s, at) \in Int
<1> DEFINE times == {s[i].at : i \in DOMAIN s} \union {at}
           f == [t \in times |-> -t]
<1>1. IsFiniteSet(times) /\ times \subseteq Int
  <2>1. IsFiniteSet(DOMAIN s) /\ \A i \in DOMAIN s : s[i].at \in Int
    BY StoreFinite DEF Memories
  <2> DEFINE T == {s[i].at : i \in DOMAIN s}
             g == [i \in DOMAIN s |-> s[i].at]
  <2>2. g \in Surjection(DOMAIN s, T)
    BY DEF Surjection
  <2> HIDE DEF g, T
  <2>3. IsFiniteSet(T)
    BY <2>1, <2>2, FS_Surjection
  <2>4. IsFiniteSet(T \union {at})
    BY <2>3, FS_AddElement
  <2>5. QED
    BY <2>1, <2>4 DEF T
<1>2. times # {}
  OBVIOUS
<1>3. LatestOf(s, at) = CHOOSE t \in times : \A u \in times : u <= t
  BY DEF LatestOf
<1> HIDE DEF times
<1>4. \A t \in times : f[t] = -t
  OBVIOUS
<1> HIDE DEF f
<1>5. \A t \in times : f[t] \in Int
  BY <1>1, <1>4
<1>6. PICK t \in times : \A u \in times : f[t] < f[u] \/ (f[t] = f[u] /\ t <= u)
  BY <1>1, <1>2, <1>5, FirstOfLowest
<1>7. \A u \in times : u <= t
  BY <1>1, <1>4, <1>6
<1>8. QED
  BY <1>1, <1>3, <1>7

LEMMA WorstIsRoutine ==
  ASSUME NEW s \in Seq(Memories), NEW at \in Int, Routine(s) # {}
  PROVE  WorstOf(s, at) \in Routine(s)
<1> DEFINE f == [i \in Routine(s) |-> Score(s[i], at)]
<1>1. Routine(s) \subseteq DOMAIN s /\ IsFiniteSet(Routine(s)) /\ Routine(s) \subseteq Int
  BY StoreFinite DEF Routine
<1>2. \A i \in Routine(s) : f[i] \in Int
  <2> SUFFICES ASSUME NEW i \in Routine(s) PROVE Score(s[i], at) \in Int
    OBVIOUS
  <2>1. s[i].importance \in Int /\ s[i].at \in Int
    BY <1>1, StoreFinite DEF Memories
  <2>2. AgeWeight \in Int
    BY MemoryAssumption
  <2> DEFINE p == AgeWeight * s[i].importance
             q == IF at > s[i].at THEN at - s[i].at ELSE 0
  <2>3. p \in Int /\ q \in Int
    BY <2>1, <2>2
  <2>4. Score(s[i], at) = p - q
    BY DEF Score
  <2> HIDE DEF p, q
  <2>5. QED
    BY <2>3, <2>4
<1>3. \A i \in Routine(s) : f[i] = Score(s[i], at)
  OBVIOUS
<1> HIDE DEF f
<1>4. PICK i \in Routine(s) : \A j \in Routine(s) : f[i] < f[j] \/ (f[i] = f[j] /\ i <= j)
  BY <1>1, <1>2, FirstOfLowest
<1>5. \A j \in Routine(s) :
        \/ Score(s[i], at) < Score(s[j], at)
        \/ Score(s[i], at) = Score(s[j], at) /\ i <= j
  BY <1>3, <1>4
<1>6. QED
  BY <1>5 DEF WorstOf

LEMMA OutlivesItself ==
  ASSUME NEW s PROVE Outlives(s, s)
  BY DEF Outlives

LEMMA OutlivesOn ==
  ASSUME NEW s, NEW t, NEW u, Outlives(s, t), Outlives(t, u)
  PROVE  Outlives(s, u)
<1> SUFFICES ASSUME NEW i \in DOMAIN s, s[i].anchor
             PROVE  \E k \in DOMAIN u : u[k] = s[i] /\ AnchorRank(u, k) = AnchorRank(s, i)
  BY DEF Outlives
<1>1. PICK j \in DOMAIN t : t[j] = s[i] /\ AnchorRank(t, j) = AnchorRank(s, i)
  BY DEF Outlives
<1>2. PICK k \in DOMAIN u : u[k] = t[j] /\ AnchorRank(u, k) = AnchorRank(t, j)
  BY <1>1 DEF Outlives
<1>3. QED
  BY <1>1, <1>2

\* What follows moves up by one place.
Shift(w, i) == IF i < w THEN i ELSE i - 1

LEMMA RemovedAt ==
  ASSUME NEW s \in Seq(Memories), NEW w \in DOMAIN s
  PROVE  LET t == RemoveAt(s, w)
         IN  /\ t \in Seq(Memories) /\ Len(t) = Len(s) - 1
             /\ \A i \in DOMAIN s : i # w => Shift(w, i) \in DOMAIN t /\ t[Shift(w, i)] = s[i]
             /\ \A j \in DOMAIN t : \E i \in DOMAIN s : i # w /\ Shift(w, i) = j
<1> DEFINE a == SubSeq(s, 1, w - 1)
           b == SubSeq(s, w + 1, Len(s))
           t == a \o b
<1>1. Len(s) \in Nat /\ DOMAIN s = 1 .. Len(s) /\ w \in 1 .. Len(s)
  BY StoreFinite
<1>2. /\ a \in Seq(Memories) /\ Len(a) = w - 1
      /\ \A i \in 1 .. w - 1 : a[i] = s[i]
  BY <1>1, SubSeqProperties
<1>3. /\ b \in Seq(Memories) /\ Len(b) = Len(s) - w
      /\ \A i \in 1 .. Len(s) - w : b[i] = s[w + i]
  BY <1>1, SubSeqProperties
<1> HIDE DEF a, b
<1>4. /\ t \in Seq(Memories) /\ Len(t) = Len(s) - 1
      /\ \A i \in 1 .. Len(t) : t[i] = IF i <= w - 1 THEN a[i] ELSE b[i - (w - 1)]
  <2>1. /\ t \in Seq(Memories) /\ Len(t) = Len(a) + Len(b)
        /\ \A i \in 1 .. Len(a) + Len(b) : t[i] = IF i <= Len(a) THEN a[i] ELSE b[i - Len(a)]
    BY <1>2, <1>3, ConcatProperties
  <2>2. Len(a) + Len(b) = Len(s) - 1 /\ Len(a) = w - 1
    BY <1>1, <1>2, <1>3
  <2> HIDE DEF t
  <2>3. QED
    BY <2>1, <2>2
<1>5. DOMAIN t = 1 .. Len(s) - 1
  BY <1>4, LenProperties
<1>6. t = RemoveAt(s, w)
  BY DEF RemoveAt, a, b
<1> HIDE DEF t
<1>7. \A i \in DOMAIN s : i # w => Shift(w, i) \in DOMAIN t /\ t[Shift(w, i)] = s[i]
  <2> SUFFICES ASSUME NEW i \in DOMAIN s, i # w
               PROVE  Shift(w, i) \in DOMAIN t /\ t[Shift(w, i)] = s[i]
    OBVIOUS
  <2>1. CASE i < w
    BY <1>1, <1>2, <1>4, <1>5, <2>1 DEF Shift
  <2>2. CASE i > w
    <3>1. Shift(w, i) = i - 1 /\ i - 1 \in 1 .. Len(s) - 1 /\ ~ (i - 1 <= w - 1)
      BY <1>1, <2>2 DEF Shift
    <3>2. t[i - 1] = b[i - w]
      BY <1>1, <1>4, <3>1
    <3>3. i - w \in 1 .. Len(s) - w /\ w + (i - w) = i
      BY <1>1, <2>2
    <3>4. QED
      BY <1>3, <1>5, <3>1, <3>2, <3>3
  <2>3. QED
    BY <1>1, <2>1, <2>2
<1>8. \A j \in DOMAIN t : \E i \in DOMAIN s : i # w /\ Shift(w, i) = j
  <2> SUFFICES ASSUME NEW j \in DOMAIN t PROVE \E i \in DOMAIN s : i # w /\ Shift(w, i) = j
    OBVIOUS
  <2>1. CASE j < w
    BY <1>1, <1>5, <2>1 DEF Shift
  <2>2. CASE j >= w
    <3>1. j + 1 \in DOMAIN s /\ j + 1 # w /\ Shift(w, j + 1) = j
      BY <1>1, <1>5, <2>2 DEF Shift
    <3>2. QED
      BY <3>1
  <2>3. QED
    BY <1>1, <1>5, <2>1, <2>2
<1>9. QED
  BY <1>4, <1>6, <1>7, <1>8

LEMMA SubsetCounted ==
  ASSUME NEW s \in Seq(Memories), NEW P \in SUBSET DOMAIN s
  PROVE  IsFiniteSet(P) /\ Cardinality(P) \in Nat
  BY StoreFinite, FS_Subset, FS_CardinalityType

Shifted(P, Q, w) == \A q : q \in Q <=> \E i \in P : Shift(w, i) = q

\* The places before and after a removal, matched.
LEMMA ShiftMatches ==
  ASSUME NEW s \in Seq(Memories), NEW w \in DOMAIN s,
         NEW P \in SUBSET DOMAIN s, w \notin P,
         NEW Q, Shifted(P, Q, w)
  PROVE  Cardinality(Q) = Cardinality(P)
<1> DEFINE f == [i \in P |-> Shift(w, i)]
<1>1. \A i, j \in P : Shift(w, i) = Shift(w, j) => i = j
  BY StoreFinite DEF Shift
<1>2. f \in Bijection(P, Q)
  BY <1>1 DEF Shifted, Bijection, Injection, Surjection, IsInjective
<1>3. ExistsBijection(P, Q)
  BY <1>2 DEF ExistsBijection
<1>4. QED
  BY <1>3, SubsetCounted, FS_Bijection

LEMMA RemovalOutlived ==
  ASSUME NEW s \in Seq(Memories), NEW w \in Routine(s)
  PROVE  LET t == RemoveAt(s, w)
         IN  /\ t \in Seq(Memories)
             /\ Outlives(s, t)
             /\ Cardinality(Routine(t)) = Cardinality(Routine(s)) - 1
<1> DEFINE t == RemoveAt(s, w)
<1>1. w \in DOMAIN s /\ ~ s[w].anchor /\ Len(s) \in Nat /\ DOMAIN s = 1 .. Len(s)
  BY StoreFinite DEF Routine
<1>2. /\ t \in Seq(Memories) /\ Len(t) = Len(s) - 1
      /\ \A i \in DOMAIN s : i # w => Shift(w, i) \in DOMAIN t /\ t[Shift(w, i)] = s[i]
      /\ \A j \in DOMAIN t : \E i \in DOMAIN s : i # w /\ Shift(w, i) = j
  BY <1>1, RemovedAt
<1>3. DOMAIN t = 1 .. Len(t)
  BY <1>2, StoreFinite
<1> HIDE DEF t
<1>4. Outlives(s, t)
  <2> SUFFICES ASSUME NEW i \in DOMAIN s, s[i].anchor
               PROVE  \E j \in DOMAIN t : t[j] = s[i] /\ AnchorRank(t, j) = AnchorRank(s, i)
    BY DEF Outlives
  <2> DEFINE j == Shift(w, i)
             P == {k \in 1 .. i : s[k].anchor}
             Q == {k \in 1 .. j : t[k].anchor}
  <2>1. i # w
    BY <1>1
  <2>2. P \in SUBSET DOMAIN s /\ w \notin P
    BY <1>1
  <2>3. Shifted(P, Q, w)
    <3>1. ASSUME NEW k \in P PROVE Shift(w, k) \in Q
      <4>1. k \in DOMAIN s /\ k # w /\ k <= i /\ s[k].anchor
        BY <1>1, <2>2
      <4>2. Shift(w, k) \in DOMAIN t /\ t[Shift(w, k)] = s[k]
        BY <1>2, <4>1
      <4>3. Shift(w, k) \in 1 .. j
        BY <1>1, <1>3, <2>1, <4>1, <4>2 DEF Shift
      <4>4. QED
        BY <4>1, <4>2, <4>3
    <3>2. ASSUME NEW q \in Q PROVE \E k \in P : Shift(w, k) = q
      <4>1. j \in DOMAIN t
        BY <1>2, <2>1
      <4>2. q \in DOMAIN t /\ q <= j /\ t[q].anchor
        BY <1>2, <1>3, <4>1
      <4>3. PICK k \in DOMAIN s : k # w /\ Shift(w, k) = q
        BY <1>2, <4>2
      <4>4. t[q] = s[k]
        BY <1>2, <4>3
      <4>5. k \in 1 .. i
        BY <1>1, <2>1, <4>2, <4>3 DEF Shift
      <4>6. QED
        BY <4>2, <4>3, <4>4, <4>5
    <3>3. QED
      BY <3>1, <3>2 DEF Shifted
  <2>4. j \in DOMAIN t /\ t[j] = s[i]
    BY <1>2, <2>1
  <2>5. AnchorRank(t, j) = Cardinality(Q) /\ AnchorRank(s, i) = Cardinality(P)
    BY DEF AnchorRank
  <2> HIDE DEF P, Q, j
  <2>6. Cardinality(Q) = Cardinality(P)
    BY <1>1, <2>2, <2>3, ShiftMatches
  <2>7. QED
    BY <2>4, <2>5, <2>6
<1>5. Cardinality(Routine(t)) = Cardinality(Routine(s)) - 1
  <2> DEFINE P == Routine(s) \ {w}
  <2>1. P \in SUBSET DOMAIN s /\ w \notin P
    BY DEF Routine
  <2>2. Shifted(P, Routine(t), w)
    <3>1. ASSUME NEW k \in P PROVE Shift(w, k) \in Routine(t)
      BY <1>2, <2>1 DEF Routine
    <3>2. ASSUME NEW q \in Routine(t) PROVE \E k \in P : Shift(w, k) = q
      <4>1. q \in DOMAIN t /\ ~ t[q].anchor
        BY DEF Routine
      <4>2. PICK k \in DOMAIN s : k # w /\ Shift(w, k) = q
        BY <1>2, <4>1
      <4>3. t[q] = s[k]
        BY <1>2, <4>2
      <4>4. k \in P
        BY <4>1, <4>2, <4>3 DEF Routine
      <4>5. QED
        BY <4>2, <4>4
    <3>3. QED
      BY <3>1, <3>2 DEF Shifted
  <2>3. Cardinality(P) = Cardinality(Routine(s)) - 1
    BY StoreFinite, FS_RemoveElement
  <2> HIDE DEF P
  <2>4. Cardinality(Routine(t)) = Cardinality(P)
    BY <1>1, <2>1, <2>2, ShiftMatches
  <2>5. QED
    BY <2>3, <2>4
<1>6. QED
  BY <1>2, <1>4, <1>5 DEF t

LEMMA AppendOutlived ==
  ASSUME NEW s \in Seq(Memories), NEW e \in Memories
  PROVE  LET t == Append(s, e)
         IN  /\ t \in Seq(Memories)
             /\ Outlives(s, t)
             /\ Cardinality(Routine(t)) = Cardinality(Routine(s)) + IF e.anchor THEN 0 ELSE 1
<1> DEFINE t == Append(s, e)
           n == Len(s) + 1
<1>1. Len(s) \in Nat /\ DOMAIN s = 1 .. Len(s) /\ IsFiniteSet(Routine(s)) /\ Cardinality(Routine(s)) \in Nat
  BY StoreFinite
<1>2. /\ t \in Seq(Memories) /\ Len(t) = n /\ t[n] = e
      /\ \A i \in 1 .. Len(s) : t[i] = s[i]
  BY <1>1, AppendProperties
<1>3. DOMAIN t = 1 .. n
  BY <1>2, StoreFinite
<1> HIDE DEF t
<1>4. Outlives(s, t)
  <2> SUFFICES ASSUME NEW i \in DOMAIN s, s[i].anchor
               PROVE  \E j \in DOMAIN t : t[j] = s[i] /\ AnchorRank(t, j) = AnchorRank(s, i)
    BY DEF Outlives
  <2>1. {k \in 1 .. i : t[k].anchor} = {k \in 1 .. i : s[k].anchor}
    BY <1>1, <1>2
  <2>2. i \in DOMAIN t /\ t[i] = s[i]
    BY <1>1, <1>2, <1>3
  <2>3. QED
    BY <2>1, <2>2 DEF AnchorRank
<1>5. Routine(t) = Routine(s) \union IF e.anchor THEN {} ELSE {n}
  <2>1. n \notin 1 .. Len(s) /\ 1 .. n = (1 .. Len(s)) \union {n}
    BY <1>1
  <2>2. QED
    BY <1>1, <1>2, <1>3, <2>1 DEF Routine
<1>6. n \notin Routine(s)
  BY <1>1 DEF Routine
<1>7. Cardinality(Routine(t)) = Cardinality(Routine(s)) + IF e.anchor THEN 0 ELSE 1
  <2>1. CASE e.anchor
    BY <1>1, <1>5, <2>1
  <2>2. CASE ~ e.anchor
    BY <1>1, <1>5, <1>6, <2>2, FS_AddElement
  <2>3. QED
    BY <2>1, <2>2
<1>8. QED
  BY <1>2, <1>4, <1>7 DEF t

LEMMA InsertOutlived ==
  ASSUME NEW s, Healthy(s), NEW e \in Memories
  PROVE  Healthy(Insert(s, e)) /\ Outlives(s, Insert(s, e))
<1> DEFINE full == Cardinality(Routine(s)) >= Capacity
           at == LatestOf(s, e.at)
           kept == IF ~ e.anchor /\ full THEN Evict(s, at) ELSE s
<1>1. s \in Seq(Memories) /\ Cardinality(Routine(s)) \in Nat /\ Cardinality(Routine(s)) <= Capacity
  BY StoreFinite DEF Healthy
<1>2. at \in Int
  BY <1>1, LatestTyped DEF Memories
<1>3. Insert(s, e) = Append(kept, e)
  BY DEF Insert
<1> HIDE DEF at
<1>4. /\ kept \in Seq(Memories) /\ Outlives(s, kept)
      /\ Cardinality(Routine(kept)) + (IF e.anchor THEN 0 ELSE 1) <= Capacity
  <2>1. CASE ~ e.anchor /\ full
    <3>1. Routine(s) # {}
      <4>1. Cardinality(Routine(s)) # 0
        BY <1>1, <2>1, MemoryAssumption
      <4>2. QED
        BY <4>1, FS_EmptySet
    <3>2. WorstOf(s, at) \in Routine(s)
      BY <1>1, <1>2, <3>1, WorstIsRoutine
    <3>3. kept = RemoveAt(s, WorstOf(s, at))
      BY <2>1, <3>1 DEF Evict
    <3> HIDE DEF kept
    <3>4. /\ kept \in Seq(Memories) /\ Outlives(s, kept)
          /\ Cardinality(Routine(kept)) = Cardinality(Routine(s)) - 1
      BY <1>1, <3>2, <3>3, RemovalOutlived
    <3>5. QED
      BY <1>1, <2>1, <3>4, MemoryAssumption
  <2>2. CASE ~ e.anchor /\ ~ full
    BY <1>1, <2>2, MemoryAssumption, OutlivesItself
  <2>3. CASE e.anchor
    BY <1>1, <2>3, MemoryAssumption, OutlivesItself
  <2>4. QED
    BY <2>1, <2>2, <2>3
<1> HIDE DEF kept
<1>5. /\ Append(kept, e) \in Seq(Memories) /\ Outlives(kept, Append(kept, e))
      /\ Cardinality(Routine(Append(kept, e))) = Cardinality(Routine(kept)) + IF e.anchor THEN 0 ELSE 1
  BY <1>4, AppendOutlived
<1>6. QED
  BY <1>3, <1>4, <1>5, OutlivesOn DEF Healthy

\* One more memory, or none.
LEMMA NewsOutlived ==
  ASSUME NEW s, Healthy(s), NEW t, t = s \/ \E e \in Memories : t = Insert(s, e)
  PROVE  Healthy(t) /\ Outlives(s, t)
<1>1. CASE t = s
  BY <1>1, OutlivesItself
<1>2. ASSUME NEW e \in Memories, t = Insert(s, e) PROVE Healthy(t) /\ Outlives(s, t)
  BY <1>2, InsertOutlived
<1>3. QED
  BY <1>1, <1>2

LEMMA LookOutlived ==
  ASSUME Healthy(memory), now \in Nat, Look
  PROVE  Healthy(memory') /\ Outlives(memory, memory')
<1>1. /\ Entry("death", 3, now, FALSE) \in Memories
      /\ Entry("resource_critical", 2, now, FALSE) \in Memories
      /\ Entry("objective", 3, now, TRUE) \in Memories
      /\ Entry("weather", 1, now, FALSE) \in Memories
  BY DEF Entry, Memories
<1> DEFINE One(s, t) == t = s \/ \E e \in Memories : t = Insert(s, e)
<1>2. \A s : One(s, DeathNews(s)) /\ One(s, FoodNews(s)) /\ One(s, GoalNews(s)) /\ One(s, WeatherNews(s))
  BY <1>1 DEF DeathNews, FoodNews, GoalNews, WeatherNews
<1> DEFINE a == DeathNews(memory)
           b == FoodNews(a)
           c == GoalNews(b)
           d == WeatherNews(c)
<1>3. One(memory, a) /\ One(a, b) /\ One(b, c) /\ One(c, d)
  BY <1>2
<1>4. memory' = d
  BY DEF Look
<1> HIDE DEF a, b, c, d
<1>5. Healthy(a) /\ Outlives(memory, a)
  BY <1>3, NewsOutlived
<1>6. Healthy(b) /\ Outlives(a, b)
  BY <1>3, <1>5, NewsOutlived
<1>7. Healthy(c) /\ Outlives(b, c)
  BY <1>3, <1>6, NewsOutlived
<1>8. Healthy(d) /\ Outlives(c, d)
  BY <1>3, <1>7, NewsOutlived
<1>9. QED
  BY <1>4, <1>5, <1>6, <1>7, <1>8, OutlivesOn

LEMMA MemoryStarts ==
  ASSUME LifeInit PROVE Healthy(memory)
<1>1. memory = <<>>
  BY DEF LifeInit
<1>2. Routine(memory) = {}
  BY <1>1 DEF Routine
<1>3. QED
  BY <1>1, <1>2, MemoryAssumption, FS_EmptySet DEF Healthy

LEMMA MemoryKept ==
  ASSUME Healthy(memory), now \in Nat, [LifeNext]_vars
  PROVE  Healthy(memory') /\ Outlives(memory, memory')
<1>1. CASE Look
  BY <1>1, LookOutlived
<1>2. CASE memory' = memory
  BY <1>2, OutlivesItself
<1>3. Look \/ memory' = memory
  <2>1. CASE Observe
    BY <2>1 DEF Observe, FirstLook, mind
  <2>2. CASE Over \/ UNCHANGED vars
    BY <2>2 DEF Over, vars
  <2>3. CASE Clock
    BY <2>3 DEF Clock, mind
  <2>4. CASE Recruit
    BY <2>4 DEF Recruit, mind
  <2>5. CASE Work
    BY <2>5 DEF Work, mind
  <2>6. CASE Mortality
    BY <2>6 DEF Mortality, mind
  <2>7. CASE Resources
    BY <2>7 DEF Resources, mind
  <2>8. QED
    BY <2>1, <2>2, <2>3, <2>4, <2>5, <2>6, <2>7 DEF LifeNext
<1>4. QED
  BY <1>1, <1>2, <1>3

-----------------------------------------------------------------------------
(* Theorems *)

\* Whatever the colony starts with and however long it lives: the parts of the
\* invariant hold in every state; no good of the stock is ever negative.
THEOREM ColonyInvariant == LifeSpec => []IInv
<1>1. LifeInit => IInv
  BY PopulationStarts, EconomyStarts DEF IInv
<1>2. IInv /\ [LifeNext]_vars => IInv'
  BY PopulationKept, EconomyKept DEF IInv
<1>3. QED
  BY <1>1, <1>2, PTL DEF LifeSpec

\* The living of both kinds and the dead are all there are.
LEMMA HeadsPartition ==
  ASSUME PopulationTypeOK, Heads
  PROVE  HeadsCounted
<1> DEFINE W == Living("WORKER")
           V == Living("VISITOR")
<1>1. /\ Len(agents) \in Nat /\ DOMAIN agents = 1 .. Len(agents)
      /\ \A i \in DOMAIN agents : agents[i] \in AgentType
  BY PopulationBasics
<1>2. W \subseteq DOMAIN agents /\ V \subseteq DOMAIN agents /\ Dead \subseteq DOMAIN agents
  BY DEF Living, Dead
<1>3. /\ IsFiniteSet(W) /\ IsFiniteSet(V) /\ IsFiniteSet(Dead)
      /\ Cardinality(W) \in Nat /\ Cardinality(V) \in Nat /\ Cardinality(Dead) \in Nat
  BY <1>2, PopulationBasics
<1>4. W \intersect V = {} /\ (W \union V) \intersect Dead = {}
  BY DEF Living, Dead
<1>5. (W \union V) \union Dead = DOMAIN agents
  BY <1>1 DEF Living, Dead, AgentType, Kinds
<1>6. Cardinality(DOMAIN agents) = Len(agents)
  BY <1>1, FS_Interval
<1> HIDE DEF W, V
<1>7. IsFiniteSet(W \union V) /\ Cardinality(W \union V) = Cardinality(W) + Cardinality(V)
  <2>1. Cardinality(W \intersect V) = 0
    BY <1>4, FS_EmptySet
  <2>2. /\ IsFiniteSet(W \union V)
        /\ Cardinality(W \union V) = Cardinality(W) + Cardinality(V) - Cardinality(W \intersect V)
    BY <1>3, FS_Union, Zenon
  <2>3. QED
    BY <1>3, <2>1, <2>2
<1>8. Cardinality(W \union V \union Dead) = Cardinality(W \union V) + Cardinality(Dead)
  <2>1. Cardinality((W \union V) \intersect Dead) = 0
    BY <1>4, FS_EmptySet
  <2>2. Cardinality(W \union V \union Dead)
          = Cardinality(W \union V) + Cardinality(Dead) - Cardinality((W \union V) \intersect Dead)
    BY <1>3, <1>7, FS_Union, Zenon
  <2>3. QED
    BY <1>3, <1>7, <2>1, <2>2
<1>9. Cardinality(W) + Cardinality(V) + Cardinality(Dead) = Len(agents)
  BY <1>5, <1>6, <1>7, <1>8
<1>10. /\ PopulationStats.workers = Cardinality(W) /\ PopulationStats.visitors = Cardinality(V)
       /\ PopulationStats.dead = Cardinality(Dead)
  BY DEF PopulationStats, Workers, W, V, Dead
<1>11. \A i, j \in DOMAIN agents : agents[i].id = agents[j].id => i = j
  BY DEF Heads
<1>12. QED
  BY <1>9, <1>10, <1>11 DEF Heads, HeadsCounted

\* Nobody is counted twice or lost: recruits get ids nobody had although the
\* dead stay in the list (_make_worker_id), births and deaths match the list,
\* and each was announced exactly once (RecruitmentSystem, MortalitySystem).
THEOREM HeadsAreCounted == LifeSpec => []HeadsCounted
<1>1. IInv => HeadsCounted
  BY HeadsPartition DEF IInv, PopulationInv
<1>2. QED
  BY <1>1, ColonyInvariant, PTL

\* Who starved had starved for the whole hold of its kind without a break; who
\* has starved that long lives only in the grace window, and recoveries whose
\* beginning is known delay a death by less than their windows together
\* (MortalitySystem, _is_within_recovery_grace).
THEOREM DeathsAreFair == LifeSpec => []StarvationFair
<1>1. ASSUME IInv PROVE StarvationFair
  <2> SUFFICES ASSUME NEW i \in DOMAIN agents
               PROVE  LET a == agents[i]
                      IN /\ ~ a.alive => a.died - a.fed >= Hold[a.kind]
                         /\ a.alive /\ turn = "resources" /\ a.starving >= Hold[a.kind] => InGrace
                         /\ a.alive /\ ~ recovery.endless
                              => a.starving < Hold[a.kind] + recovery.times * GraceTime
    BY DEF StarvationFair
  <2> DEFINE a == agents[i]
             h == Hold[a.kind]
             w == recovery.times * GraceTime
  <2>1. PopulationTypeOK /\ RecoveryKnown /\ Fair(a) /\ Spared
    BY <1>1 DEF IInv, PopulationInv, AllFair
  <2>2. a \in AgentType /\ h \in Nat
    BY <2>1, PopulationBasics
  <2>3. ~ recovery.endless => Granted \in Nat /\ w \in Nat /\ Granted <= w
    BY <2>1, GrantedTyped
  <2>4. a.alive /\ ~ recovery.endless => a.starving < h + w
    <3>1. a.starving \in Nat
      BY <2>2 DEF AgentType
    <3>2. a.alive /\ ~ recovery.endless => a.starving < h + Granted
      BY <2>1 DEF Fair
    <3> HIDE DEF a, h, w
    <3>3. QED
      BY <2>2, <2>3, <3>1, <3>2
  <2>5. QED
    BY <2>1, <2>4 DEF Fair, Spared
<1>2. QED
  BY <1>1, ColonyInvariant, PTL

\* The flow window accounts for the stock: what is there is what was there at
\* the snapshot, with what the other systems brought and took, without what
\* the window has as eaten and spoiled (record_resource_flow, ResourceSystem).
THEOREM StockIsAccounted == LifeSpec => []StockAccounted
<1>1. IInv => StockAccounted
  BY DEF IInv, EconomyInv
<1>2. QED
  BY <1>1, ColonyInvariant, PTL


\* Whatever is remembered and forgotten, the nth anchor stays the nth, and the
\* routine entries stay within the capacity (MemoryStore.insert).
THEOREM AnchorsOutliveRoutine == LifeSpec => AnchorsSurvive
<1> DEFINE Well == Healthy(memory)
<1>1. LifeInit => Well
  BY MemoryStarts
<1>2. IInv => now \in Nat
  BY DEF IInv, PopulationInv, PopulationTypeOK
<1>3. IInv /\ Well /\ [LifeNext]_vars => Well' /\ [Outlived]_vars
  <2> SUFFICES ASSUME IInv, Well, [LifeNext]_vars PROVE Well' /\ Outlived
    OBVIOUS
  <2>1. Healthy(memory') /\ Outlives(memory, memory')
    BY <1>2, MemoryKept
  <2>2. Outlived
    BY <2>1 DEF Outlived, Healthy, Outlives, AnchorRank, Routine
  <2>3. QED
    BY <2>1, <2>2
<1> HIDE DEF Well
<1>4. QED
  BY <1>1, <1>3, ColonyInvariant, PTL DEF LifeSpec, AnchorsSurvive

=============================================================================
