--------------------------- MODULE MCSubstitution ---------------------------
(***************************************************************************)
(* A small instance of Substitution for TLC: prices in hundreds.           *)
(***************************************************************************)
EXTENDS Substitution

=============================================================================
