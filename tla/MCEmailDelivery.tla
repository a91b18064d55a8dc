-------------------------- MODULE MCEmailDelivery --------------------------
(***************************************************************************)
(* Instances of EmailDelivery for TLC.                                     *)
(***************************************************************************)
EXTENDS EmailDelivery, TLC
=============================================================================
