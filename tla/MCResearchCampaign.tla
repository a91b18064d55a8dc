------------------------- MODULE MCResearchCampaign -------------------------
(***************************************************************************)
(* Instances of ResearchCampaign for TLC.                                  *)
(***************************************************************************)
EXTENDS ResearchCampaign, TLC
=============================================================================
