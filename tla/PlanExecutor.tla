---------------------------- MODULE PlanExecutor ----------------------------
(***************************************************************************)
(* A multi-step build plan driven through BuildSystem, on top of the       *)
(* construction subsystem it shares with every other caller.  The executor *)
(* never hears how a job ended: it looks at the index of sites only.       *)
(***************************************************************************)
EXTENDS Construction

CONSTANT Plans    \* the plans load_plan may be given

\* Steps that build on the map, each with an id of its own.
ASSUME PlansAssumption ==
  \A p \in Plans :
    /\ p \in Seq({p[i] : i \in DOMAIN p})
    /\ \A i \in DOMAIN p : p[i].tool \in Tools /\ p[i].at \in Tiles
    /\ \A i, j \in DOMAIN p : p[i].id = p[j].id => i = j

VARIABLES
  plan,       \* _plan: a sequence of [id, tool, at, depends_on]
  status,     \* _status, by step id
  next        \* the step update() examines next, 0 outside update()

planVars == <<plan, status, next>>

allVars == <<vars, planVars>>

Ids(p) == {p[i].id : i \in DOMAIN p}

PlanInit ==
  /\ Init
  /\ plan = << >>
  /\ status = << >>
  /\ next = 0

\* load_plan replaces the plan and forgets every status; the jobs the old
\* plan opened stay where they are.
LoadPlan(p) ==
  /\ ~Running /\ next = 0
  /\ p # plan
  /\ plan' = p
  /\ status' = [id \in Ids(p) |-> "pending"]
  /\ UNCHANGED <<vars, next>>

\* _refresh_status: a submitted step whose tile has no site is complete.
Refreshed ==
  [id \in DOMAIN status |->
     IF /\ status[id] = "submitted"
        /\ \E i \in DOMAIN plan :
             plan[i].id = id /\ SiteIndex(plan[i].at) = {}
     THEN "complete"
     ELSE status[id]]

BeginPlan ==
  /\ ~Running /\ next = 0
  /\ plan # << >>
  /\ status' = Refreshed
  /\ next' = 1
  /\ UNCHANGED <<vars, plan>>

\* Fault: a dependency only has to be submitted.
ReadyEarly(s) ==
  /\ status[s.id] = "pending"
  /\ \A d \in s.depends_on :
       d \in DOMAIN status /\ status[d] \in {"submitted", "complete"}

\* _dependencies_complete: an id the plan does not have is never complete.
Ready(s) ==
  /\ status[s.id] = "pending"
  /\ \A d \in s.depends_on : d \in DOMAIN status /\ status[d] = "complete"

Advance == next' = IF next = Len(plan) THEN 0 ELSE next + 1

\* Fault: the loop returns at a step that is not ready.
SkipAll ==
  /\ next > 0
  /\ ~Ready(plan[next])
  /\ next' = 0
  /\ UNCHANGED <<vars, plan, status>>

Skip ==
  /\ next > 0
  /\ ~Ready(plan[next])
  /\ Advance
  /\ UNCHANGED <<vars, plan, status>>

\* A placement that is refused fails the step for good.
FailStep ==
  LET s == plan[next] IN
  /\ next > 0
  /\ Ready(s)
  /\ ~Placeable(s.tool, s.at)
  /\ ~(s.tool = "erase" /\ overlay[s.at] # None)
  /\ status' = [status EXCEPT ![s.id] = "failed"]
  /\ Advance
  /\ UNCHANGED <<vars, plan>>

\* One blueprint is submitted per tick: the loop returns.
SubmitStep ==
  LET s == plan[next] IN
  /\ next > 0
  /\ Ready(s)
  /\ PlaceBlueprint(s.tool, s.at)
  /\ status' = [status EXCEPT ![s.id] = "submitted"]
  /\ next' = 0
  /\ UNCHANGED plan

\* An erase over an open job cancels it, whoever opened it; the phase is
\* unknown to the executor, and the step stays pending.
CancelInStep ==
  LET s == plan[next] IN
  /\ next > 0
  /\ Ready(s)
  /\ s.tool = "erase"
  /\ CancelBlueprint(s.at)
  /\ Advance
  /\ UNCHANGED <<plan, status>>

PlanTick == BeginPlan \/ Skip \/ FailStep \/ SubmitStep \/ CancelInStep

\* Builders and the construction system, between two calls of the executor.
Building ==
  /\ next = 0
  /\ \/ \E w \in Workers : ReserveSite(w)
     \/ \E w \in Workers : ReleaseSite(w)
     \/ \E w \in Workers, d \in WorkSteps : ApplyWork(w, d)
     \/ Update
  /\ UNCHANGED planVars

PlanNext == PlanTick \/ Building \/ \E p \in Plans : LoadPlan(p)

\* Both update() methods are called again and again, and a call that began
\* runs to its end.  The two never overlap, so a call of the executor can
\* begin between any two of the other, not at every moment: strong fairness.
PlanFairness ==
  /\ SF_allVars(BeginPlan)
  /\ WF_allVars(Skip \/ FailStep \/ SubmitStep \/ CancelInStep)
  /\ WF_allVars(next = 0 /\ Update /\ UNCHANGED planVars)

PlanSpec == PlanInit /\ [][PlanNext]_allVars /\ PlanFairness

-----------------------------------------------------------------------------

\* A step k waits for step i, maybe through others: every set of steps that
\* has i, and with a step those that depend on it, has k.
WaitsFor(p, k, i) ==
  \A S \in SUBSET Ids(p) :
    /\ p[i].id \in S
    /\ \A m \in DOMAIN p : p[m].depends_on \intersect S # {} => p[m].id \in S
    => p[k].id \in S

\* No step but i and j is to use the tile of j before i is through.
Undisturbed(p, i, j) ==
  \A k \in DOMAIN p \ {i, j} : p[k].at = p[j].at => WaitsFor(p, k, i)

\* What the tile of a step is to become; a bridge leaves the water it spans.
Result(s) ==
  IF s.tool # "erase" THEN ToolToTile[s.tool]
  ELSE IF InitTile[s.at] \in {"WATER", "BRIDGE"} THEN "WATER" ELSE "GRASS"

\* "A step transitions pending -> submitted only after every dependency has
\* reached complete": and when it does, what it depends on stands on the map,
\* although the executor only ever sees that a site is gone.
DependenciesBuilt ==
  [][\A i, j \in DOMAIN plan :
       /\ plan' = plan
       /\ status[plan[i].id] = "pending"
       /\ status'[plan[i].id] = "submitted"
       /\ plan[j].id \in plan[i].depends_on
       /\ Undisturbed(plan, i, j)
       => tile[plan[j].at] = Result(plan[j])]_allVars

\* A step whose dependencies are complete is tried: it does not wait for
\* ever behind steps that failed, or that wait themselves.
ReadyStepTried ==
  \A p \in Plans : \A i \in DOMAIN p :
    (plan = p /\ Ready(p[i])) ~> ~(plan = p /\ Ready(p[i]))

=============================================================================
