--------------------------- MODULE MCPlanExecutor ---------------------------
(***************************************************************************)
(* Plans for TLC: a chain, a plan with steps that cannot be placed or wait *)
(* for a step that does not exist, and one that erases what a step of it   *)
(* builds and another depends on.                                          *)
(***************************************************************************)
EXTENDS PlanExecutor, TLC

CONSTANTS w1, s0, s1, s2, ghost

OneWorker == {w1}

NoEntities == {}

ThreeTiles == {0, 1, 2}

GrassRuinsWater == (0 :> "GRASS") @@ (1 :> "RUINS") @@ (2 :> "WATER")

Stock == Amount(5, 1)

NoPaths == {}

Step(id, tool, at, deps) ==
  [id |-> id, tool |-> tool, at |-> at, depends_on |-> deps]

Chain == << Step(s0, "wall", 0, {}),
            Step(s1, "road", 1, {s0}),
            Step(s2, "erase", 0, {s1}) >>

Troubled == << Step(s0, "bridge", 1, {}),
               Step(s1, "road", 0, {s0}),
               Step(s2, "road", 1, {}),
               Step(ghost, "wall", 0, {s2, None}) >>

Erasing == << Step(s0, "road", 0, {}),
              Step(s1, "erase", 0, {}),
              Step(s2, "road", 1, {s0}) >>

SmallPlans == {Chain, Troubled, Erasing}

=============================================================================
