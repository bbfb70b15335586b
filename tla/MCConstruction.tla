--------------------------- MODULE MCConstruction ---------------------------
(***************************************************************************)
(* Small colonies for TLC: a grass tile next to a bridge, so that walls,   *)
(* bridges, water and ruins all come about.                                *)
(***************************************************************************)
EXTENDS Construction, TLC

CONSTANTS w1, w2

TwoTiles == {0, 1}

TwoWorkers == {w1, w2}

OneWorker == {w1}

OneEntity == {w2}

NoEntities == {}

GrassAndBridge == (0 :> "GRASS") @@ (1 :> "BRIDGE")

TinyStock == Amount(3, 1)

MicroStock == Amount(2, 1)

NoPaths == {}

AcrossBridge == {{1}}

WorkerSymmetry == Permutations(TwoWorkers)

=============================================================================
