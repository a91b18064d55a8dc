--------------------------- MODULE MCQuizAttempt ---------------------------
(***************************************************************************)
(* Instances of QuizAttempt for TLC.                                       *)
(***************************************************************************)
EXTENDS QuizAttempt, TLC

Symmetry == Permutations(Attempts) \cup Permutations(Requests)
=============================================================================
