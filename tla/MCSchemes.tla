------------------------------ MODULE MCSchemes ------------------------------
(***************************************************************************)
(* Three schemes for batches of two, so that one owner without a location  *)
(* leaves a place for the others and two leave none.                       *)
(***************************************************************************)
EXTENDS Schemes

=============================================================================
