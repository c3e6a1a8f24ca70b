------------------------------ MODULE MCCaisse ------------------------------
(***************************************************************************)
(* Two stops, two couriers, one worker.                                    *)
(***************************************************************************)
EXTENDS Caisse
=============================================================================
