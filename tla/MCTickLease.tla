---------------------------- MODULE MCTickLease ----------------------------
(***************************************************************************)
(* The lease protocol for TLC: workers differ in no way but their names.   *)
(***************************************************************************)
EXTENDS TickLease, TLC

MCTicks == 1..1

Symmetry == Permutations(Workers)

=============================================================================
