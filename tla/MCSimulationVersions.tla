------------------------ MODULE MCSimulationVersions ------------------------
(***************************************************************************)
(* Instances of SimulationVersions for TLC.                                *)
(***************************************************************************)
EXTENDS SimulationVersions, TLC
=============================================================================
