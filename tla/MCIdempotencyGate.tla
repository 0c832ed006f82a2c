------------------------- MODULE MCIdempotencyGate -------------------------
(***************************************************************************)
(* The idempotency gate for TLC.  The clients of an instance differ in no  *)
(* way but their names, nor do the slots or the payloads.                  *)
(***************************************************************************)
EXTENDS IdempotencyGate, TLC

Symmetry == Permutations(Requests) \cup Permutations(Payloads)

=============================================================================
