----------------------------- MODULE MCSession -----------------------------
(***************************************************************************)
(* Instances of module Session for TLC.                                    *)
(***************************************************************************)
EXTENDS Session

=============================================================================
