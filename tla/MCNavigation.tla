---------------------------- MODULE MCNavigation ----------------------------
(***************************************************************************)
(* A map of six tiles for TLC.  Costs are in twentieths.                   *)
(***************************************************************************)
EXTENDS Navigation

MCKinds == {"farm", "road", "warehouse", "ruins", "wall"}
MCPassable == MCKinds \ {"wall"}
MCRoads == {"road", "warehouse"}

MCBaseCost ==
  [farm |-> 20, road |-> 13, warehouse |-> 20, ruins |-> 32, wall |-> 20000]

Map(rows) == [t \in Tiles |-> rows[t[2] + 1][t[1] + 1]]

MCStart == <<0, 0>>

(* Three by two: ruins on the short way; the warehouse comes and goes. *)

MCLayouts ==
  {Map(<< <<"road", "ruins", "warehouse">>,
          <<"farm", "road", "road">> >>)}

MCChanges ==
  {[tile |-> <<2, 0>>, kind |-> "wall"], [tile |-> <<2, 0>>, kind |-> "warehouse"]}

MCGoals == {<<2, 0>>}

MCSpots == {MCStart}

MCAsked == {{"warehouse"}}

=============================================================================
