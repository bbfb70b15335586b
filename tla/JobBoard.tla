------------------------------ MODULE JobBoard ------------------------------
(***************************************************************************)
(* What the construction-site index promises the agents that build: a      *)
(* board with at most one job per tile.  A job is taken by one agent at a  *)
(* time, an agent takes one job at a time, only a taken job makes          *)
(* progress, progress is never lost while the job is posted, and nothing   *)
(* happens to two jobs at once.  Construction implements it.               *)
(***************************************************************************)
EXTENDS Integers

CONSTANTS Tiles, Workers, None

VARIABLE board    \* for each tile, None or [builder, applied]

Init == board = [t \in Tiles |-> None]

Posted(t) == board[t] # None

Post(t) ==
  /\ ~Posted(t)
  /\ board' = [board EXCEPT ![t] = [builder |-> None, applied |-> 0]]

Take(t, w) ==
  /\ Posted(t) /\ board[t].builder = None
  /\ \A u \in Tiles : Posted(u) => board[u].builder # w
  /\ board' = [board EXCEPT ![t].builder = w]

Leave(t) ==
  /\ Posted(t)
  /\ board' = [board EXCEPT ![t].builder = None]

Progress(t) ==
  /\ Posted(t) /\ board[t].builder # None
  /\ Posted(t)'
  /\ board'[t].applied >= board[t].applied
  /\ board' = [board EXCEPT ![t].applied = board'[t].applied]

Close(t) ==
  /\ Posted(t)
  /\ board' = [board EXCEPT ![t] = None]

Next ==
  \E t \in Tiles :
    \/ Post(t) \/ Leave(t) \/ Progress(t) \/ Close(t)
    \/ \E w \in Workers : Take(t, w)

Spec == Init /\ [][Next]_board

=============================================================================
