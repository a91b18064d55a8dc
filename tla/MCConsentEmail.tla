--------------------------- MODULE MCConsentEmail ---------------------------
(***************************************************************************)
(* Instances of ConsentEmail for TLC.                                      *)
(***************************************************************************)
EXTENDS ConsentEmail, TLC
=============================================================================
