----------------------------- MODULE MCCampaign -----------------------------
(***************************************************************************)
(* Three cells of two models, two at a time.                               *)
(***************************************************************************)
EXTENDS Campaign, TLC

CONSTANTS c1, c2, c3

TwoModels == (c1 :> "small") @@ (c2 :> "small") @@ (c3 :> "large")

=============================================================================
