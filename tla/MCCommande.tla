----------------------------- MODULE MCCommande -----------------------------
(***************************************************************************)
(* Small instances of Commande for TLC.                                    *)
(***************************************************************************)
EXTENDS Commande, TLC

\* Vendors are interchangeable, and so are couriers and declarations: no
\* definition of Commande names one of them.
Symetrie == Permutations(Collectes) \cup Permutations(Coursiers) \cup Permutations(Declarations)

=============================================================================
