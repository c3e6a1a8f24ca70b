---------------------------- MODULE ArbreEchecs ----------------------------
(***************************************************************************)
(* The decision tree of failed deliveries (cadrage 7.5, `resoudre` of      *)
(* crates/commandes/src/echec.rs): who holds the money, who holds the      *)
(* goods, whether a dispute is opened, whether the courier is compensated, *)
(* and which sanction is asked for against the client.                     *)
(***************************************************************************)

TypesIssue == {"refus_non_perissable", "refus_reprise_vendeur", "refus_perissable",
               "contestation_montant", "sans_appoint", "faux_billet",
               "non_conformite", "casse_transport", "annulation_apres_achat",
               "vendeur_ferme_consigne", "suspicion_faux_refus"}
Detenteurs == {"client", "coursier", "vendeur", "mefali", "consigne"}

\* ResolutionIssue: the tree asks at most for the first rung of the sanctions.
Decisions == [argent : Detenteurs, marchandise : Detenteurs, litige : BOOLEAN,
              indemnisation : BOOLEAN, sanction : {"aucune", "prepaiement_impose"}]

\* Faulty variant: an open dispute suspends the compensation.
DecisionSuspendue(argent, marchandise, litige, indemnisation, sanction) ==
  [argent |-> argent, marchandise |-> marchandise, litige |-> litige,
   indemnisation |-> indemnisation /\ ~litige, sanction |-> sanction]

Decision(argent, marchandise, litige, indemnisation, sanction) ==
  [argent |-> argent, marchandise |-> marchandise, litige |-> litige,
   indemnisation |-> indemnisation, sanction |-> sanction]

\* The three issues that follow the rules of a refusal: the nature of the
\* goods decides (7.5-4, 7.5-5 and 7.5-9).
CommeUnRefus == {"contestation_montant", "sans_appoint", "annulation_apres_achat"}

Ramener(type, perissable) ==
  IF type \notin CommeUnRefus THEN type
  ELSE IF perissable THEN "refus_perissable" ELSE "refus_non_perissable"

Resoudre(type, perissable, preuvesCompletes) ==
  CASE Ramener(type, perissable) = "refus_non_perissable" ->
         Decision("vendeur", "vendeur", FALSE, FALSE, "aucune")
    [] Ramener(type, perissable) \in {"refus_reprise_vendeur", "casse_transport"} ->
         Decision("mefali", "coursier", TRUE, TRUE, "aucune")
    [] Ramener(type, perissable) = "refus_perissable" ->
         Decision("mefali", "coursier", TRUE, TRUE, "prepaiement_impose")
    [] Ramener(type, perissable) = "faux_billet" ->
         Decision("mefali", "client", TRUE, TRUE, "aucune")
    [] Ramener(type, perissable) = "non_conformite" ->
         Decision("vendeur", "vendeur", TRUE, FALSE, "aucune")
    [] Ramener(type, perissable) = "vendeur_ferme_consigne" ->
         Decision("mefali", "consigne", FALSE, TRUE, "aucune")
    [] Ramener(type, perissable) = "suspicion_faux_refus" ->
         Decision(IF preuvesCompletes THEN "mefali" ELSE "client", "coursier",
                  TRUE, preuvesCompletes, "aucune")

=============================================================================
