--------------------------- MODULE MCModelRequests ---------------------------
(***************************************************************************)
(* Two coroutines with two questions, over two processes, for TLC.         *)
(***************************************************************************)
EXTENDS ModelRequests

CONSTANTS k1, k2

TwoChannels == [k \in Keys |-> IF k = k1 THEN "npc-policy" ELSE "colony-agent"]

=============================================================================
