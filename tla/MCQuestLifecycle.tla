-------------------------- MODULE MCQuestLifecycle --------------------------
(***************************************************************************)
(* The quest lifecycle for TLC: callers and objectives differ only in name.*)
(***************************************************************************)
EXTENDS QuestLifecycle, TLC

MCDeltas == {-1, 1}

Symmetry == Permutations(Callers) \cup Permutations(Objectives)

=============================================================================
