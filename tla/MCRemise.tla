------------------------------ MODULE MCRemise ------------------------------
(***************************************************************************)
(* Small instances of Remise for TLC.  Drains are model values; no         *)
(* symmetry, because the run checks a liveness property.           *)
(***************************************************************************)
EXTENDS Remise

=============================================================================
