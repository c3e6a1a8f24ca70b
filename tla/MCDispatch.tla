----------------------------- MODULE MCDispatch -----------------------------
(***************************************************************************)
(* Instances of module Dispatch for TLC.                                   *)
(***************************************************************************)
EXTENDS Dispatch, TLC

Symetrie == Permutations(Coursiers)

=============================================================================
