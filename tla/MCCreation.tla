----------------------------- MODULE MCCreation -----------------------------
(***************************************************************************)
(* Small instance of Creation and Commande for TLC: an order is created,   *)
(* then lives.  The two modules share no variable and every property       *)
(* speaks of one of them, so that a behaviour of one is looked at with the *)
(* other not yet begun; their product would add nothing but states.        *)
(***************************************************************************)
EXTENDS Creation, Commande, TLC

\* No definition of either module names one of them; the couriers who report a
\* shortage are those who carry orders.
Symetrie == Permutations(Coursiers) \cup Permutations(Demandes)

InitClient == InitCreation /\ Init

\* Of the initial states of the other module one is enough.
AuPlusBas == \A a \in Articles, p \in Prix : article[a].prix <= p
CreerCommandes == Init /\ mode = "cash" /\ NextCreation /\ UNCHANGED vars
VivreCommande == InitCreation /\ AuPlusBas /\ Next /\ UNCHANGED varsCreation

NextClient == CreerCommandes \/ VivreCommande

SpecClient == InitClient /\ [][NextClient]_<<varsCreation, vars>>

=============================================================================
