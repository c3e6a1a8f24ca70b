----------------------------- MODULE MCCollecte -----------------------------
(***************************************************************************)
(* Small instance of Collecte and Sanctions for TLC: a stop is collected,  *)
(* or an order fails.  The two modules share no variable and every         *)
(* property speaks of one of them, so that a behaviour of one is looked at *)
(* with the other not yet begun; their product would add nothing but       *)
(* states.  The uuids of the collection come in order: no symmetry.        *)
(***************************************************************************)
EXTENDS Collecte, Sanctions

InitCoursier == InitCollecte /\ InitSanctions

\* Of the initial states of the other module one is enough.
CollecterArret == InitSanctions /\ NextCollecte /\ UNCHANGED varsSanctions
DeclarerEchecs == InitCollecte /\ autresOuverts /\ NextSanctions /\ UNCHANGED varsCollecte

NextCoursier == CollecterArret \/ DeclarerEchecs

SpecCoursier == InitCoursier /\ [][NextCoursier]_<<varsCollecte, varsSanctions>>

=============================================================================
