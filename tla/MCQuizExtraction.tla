-------------------------- MODULE MCQuizExtraction --------------------------
(***************************************************************************)
(* Instances of QuizExtraction for TLC.                                    *)
(***************************************************************************)
EXTENDS QuizExtraction, TLC
=============================================================================
