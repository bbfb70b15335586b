---------------------------- MODULE MCColonyLife ----------------------------
(***************************************************************************)
(* A colony of a worker and a visitor, food and wood, a few ticks.         *)
(***************************************************************************)
EXTENDS ColonyLife

WorkerAndVisitor == <<"WORKER", "VISITOR">>

ShortHolds == [WORKER |-> 1, VISITOR |-> 2]

Thresholds == [food |-> 1, wood |-> 1]

FoodSpoils == [food |-> 4, wood |-> 0]

FirstStock == [food |-> 4, wood |-> 0]

=============================================================================
