-------------------------- MODULE MCDialogueMemory --------------------------
(***************************************************************************)
(* Dialogue memory for TLC: players, events and jobs differ only in name.  *)
(***************************************************************************)
EXTENDS DialogueMemory, TLC

Symmetry == Permutations(Players) \cup Permutations(Events) \cup Permutations(Jobs)

=============================================================================
