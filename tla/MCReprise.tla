----------------------------- MODULE MCReprise -----------------------------
(***************************************************************************)
(* Instances of module Reprise for TLC.                                    *)
(***************************************************************************)
EXTENDS Reprise

=============================================================================
