----------------------------- MODULE MCPaiement -----------------------------
(***************************************************************************)
(* Small instances of Paiement for TLC.  No symmetry: sessions are ordered *)
(* by their numbers and liveness is checked.                               *)
(***************************************************************************)
EXTENDS Paiement

=============================================================================
