--------------------------- MODULE MCSaveService ---------------------------
(***************************************************************************)
(* The save service on a small instance: two campaigns, and a slot whose   *)
(* rolling set of autosaves is smaller than the captures made.             *)
(***************************************************************************)
EXTENDS SaveService, TLC

CONSTANTS c1, c2

MCCampaigns == {c1, c2}

CampaignSymmetry == Permutations(MCCampaigns)

=============================================================================
