---------------------------- MODULE MCStageDialog ---------------------------
(* StageDialog for TLC: the questions are alike.                           *)
EXTENDS StageDialog, TLC

CONSTANTS q1, q2

MCQuestions == {q1, q2}
Symmetry == Permutations(MCQuestions)
=============================================================================
