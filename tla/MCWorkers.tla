----------------------------- MODULE MCWorkers -----------------------------
(***************************************************************************)
(* Small instances of the workers for TLC.                                 *)
(***************************************************************************)
EXTENDS Workers, TLC

CONSTANTS w1, w2

TwoAgents == {w1, w2}

SameGroup == [a \in TwoAgents |-> "workers"]

\* Two of the three anchors: the lumber camp is not on this map.
TwoAnchors == ("coreWarehouse" :> 2) @@ ("eastDepot" :> 5)

SixStaff == 1..6

(***************************************************************************)
(* Answers of each channel: in range, out of range, with names the schema  *)
(* does not know, repeated groups, and texts cut at a blank.               *)
(***************************************************************************)
Long(limit) == [len |-> limit + 20, blank |-> limit]

Policy(group, intents, targets) ==
  [group |-> group, intents |-> intents, targets |-> targets, risk |-> 5, ttl |-> 240,
   summary |-> NoText]

Envelope(entries, wanted) == [channel |-> "policy", policies |-> entries, states |-> wanted]

State(group, state) == [group |-> group, state |-> state, priority |-> 20, ttl |-> -5]

Harvest == Policy("workers", [farm |-> 10, quarry |-> 4], [warehouse |-> 90, quarry |-> 8, wood |-> 12])

\* The weights of this one are out of range, its texts too long.
Rest ==
  [Policy("workers", [rest |-> 95, build |-> 0, wander |-> -3], [safety |-> Junk])
   EXCEPT !.risk = Junk, !.ttl = 9000, !.summary = Long(140)]

Nobody == Policy(Nameless, [fight |-> 10], <<>>)

Idle == Policy("workers", <<>>, <<>>)

Fight == Policy("workers", [fight |-> 20, evade |-> 29], [safety |-> 15])

PolicyAnswers ==
  {Envelope(<<Harvest>>, <<>>),
   Envelope(<<Nobody, Rest, Fight>>, <<State("workers", "rest"), State("workers", "rest"),
                                       State("traders", "trade")>>),
   Envelope(<<Idle>>, <<>>),
   Envelope(<<Fight>>, <<State("workers", Nameless)>>)}

Spawn1(type, intensity) == [type |-> type, intensity |-> intensity, duration |-> 140]

OtherAnswers ==
  {[channel |-> "environment", weather |-> "fog", duration |-> 5, tension |-> Junk,
    spawns |-> <<Spawn1("earthquake", 10), Spawn1("wildfire", 90), Spawn1("banditRaid", 1),
                 Spawn1("tradeCaravan", 10)>>,
    focus |-> Long(72), summary |-> NoText],
   [channel |-> "environment", weather |-> "rain", duration |-> 9000, tension |-> 12,
    spawns |-> <<>>, focus |-> NoText, summary |-> Long(140)],
   [channel |-> "plan", goal |-> NoText, budget |-> [food |-> 20000, wood |-> -1],
    posture |-> "meek", risk |-> Absent],
   [channel |-> "plan", goal |-> Long(160), budget |-> <<>>, posture |-> "aggressive",
    risk |-> 11]}

MCAnswers == PolicyAnswers \cup OtherAnswers

=============================================================================
