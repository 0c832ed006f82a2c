------------------------------ MODULE MCBarter ------------------------------
(***************************************************************************)
(* Two NPCs, two items, two trade calls: enough for a trade confirmed      *)
(* again while the first call still runs, and for a session that follows   *)
(* the wrong item.                                                         *)
(***************************************************************************)
EXTENDS Barter, TLC

Symmetry == Permutations(Npcs) \cup Permutations(Items) \cup Permutations(Calls)

=============================================================================
