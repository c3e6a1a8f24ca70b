--------------------------- MODULE EtatsCommande ---------------------------
(***************************************************************************)
(* The closed state tables of the order domain and the one guard that      *)
(* every state change of the crate `commandes` goes through                *)
(* (crates/commandes/src/etats.rs, modele.rs).                             *)
(*                                                                         *)
(* A table is indexed by the actor who asks, and lists the pairs           *)
(* <<from, to>> that this actor may take.  An actor without an entry in a  *)
(* level's table has the empty set.  The code's rows with depuis = None    *)
(* are creations: they are the initial states of module Commande.          *)
(***************************************************************************)

Acteurs == {"client", "coursier", "systeme", "admin"}

EtatsTronc == {"nouvelle", "en_attente_paiement", "en_attente_coursier",
               "en_cours", "terminee", "annulee", "echouee"}
EtatsLivraison == {"assignee", "en_collecte", "en_livraison", "livree",
                   "annulee", "echouee"}
StatutsArret == {"a_collecter", "en_route", "arrive", "collecte", "indisponible"}
ModesPaiement == {"cash", "mobile_money"}
EtatsPaiement == {"du", "en_attente", "regle", "rembourse"}

\* States no row of the table leaves.
TroncTermine == {"terminee", "annulee", "echouee"}
\* The states in which a delivery is work for a courier (course_active).
LivraisonActive == {"assignee", "en_collecte", "en_livraison"}
\* A stop that no longer holds the collection back (StatutArret::est_resolu).
EstResolu == {"collecte", "indisponible"}

AbandonsTronc == {<<"en_attente_paiement", "annulee">>,
                  <<"en_attente_coursier", "annulee">>,
                  <<"nouvelle", "annulee">>,
                  <<"en_cours", "annulee">>}

TableTronc ==
  [client   |-> AbandonsTronc,
   admin    |-> AbandonsTronc \cup {<<"en_cours", "echouee">>},
   coursier |-> {<<"en_cours", "terminee">>, <<"en_cours", "echouee">>},
   systeme  |-> {<<"en_attente_paiement", "nouvelle">>,
                 <<"en_attente_paiement", "annulee">>,
                 <<"nouvelle", "en_attente_coursier">>,
                 <<"nouvelle", "en_attente_paiement">>,
                 <<"nouvelle", "en_cours">>,
                 <<"en_attente_coursier", "en_cours">>,
                 <<"en_cours", "en_attente_coursier">>}]

AbandonsLivraison == {<<"assignee", "annulee">>,
                      <<"en_collecte", "annulee">>,
                      <<"en_livraison", "annulee">>}

TableLivraison ==
  [client   |-> AbandonsLivraison,
   systeme  |-> AbandonsLivraison,
   admin    |-> AbandonsLivraison \cup {<<"en_livraison", "echouee">>},
   coursier |-> {<<"assignee", "en_collecte">>,
                 <<"en_collecte", "en_livraison">>,
                 <<"en_livraison", "livree">>,
                 <<"en_livraison", "echouee">>}]

TableArret ==
  [client   |-> {}, systeme |-> {}, admin |-> {},
   coursier |-> {<<"a_collecter", "en_route">>,
                 <<"en_route", "arrive">>,
                 <<"arrive", "collecte">>,
                 <<"a_collecter", "collecte">>,
                 <<"arrive", "indisponible">>,
                 <<"a_collecter", "indisponible">>,
                 <<"en_route", "indisponible">>}]

\* verifier_transition: the requested change is a row of the table, and the
\* actor is one of the row's actors.
VerifierTransition(table, depuis, vers, acteur) == <<depuis, vers>> \in table[acteur]

=============================================================================
