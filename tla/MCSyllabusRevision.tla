------------------------- MODULE MCSyllabusRevision -------------------------
(***************************************************************************)
(* Instances of SyllabusRevision for TLC.                                  *)
(***************************************************************************)
EXTENDS SyllabusRevision, TLC
=============================================================================
