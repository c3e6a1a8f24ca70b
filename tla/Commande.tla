------------------------------ MODULE Commande ------------------------------
(***************************************************************************)
(* The life of ONE order of Mefali: the trunk `commande`, its `livraison`  *)
(* and the stops of that delivery, as the crate `commandes` keeps them in  *)
(* PostgreSQL, with the concurrent callers that read a row, decide, and    *)
(* write later: the dispatch pipeline, the courier's app, the client's and *)
(* the admin's cancellation, the payment session, the failure form.        *)
(*                                                                         *)
(* Every handler is one or two steps.  The transactions run in READ        *)
(* COMMITTED: what is read without a lock is a step of its own, and what   *)
(* is written under row locks is one step, taken at the commit.  (With     *)
(* two-phase row locks the locked part of a transaction is equivalent to   *)
(* one step at its commit; the unlocked reads are not.)  A transaction in  *)
(* flight may always be abandoned: crash, network, deadlock victim or a    *)
(* refusal by the state tables all roll it back.                           *)
(***************************************************************************)
EXTENDS FiniteSets, EtatsCommande

CONSTANTS
  Collectes,      \* the collection stops of the delivery (one per vendor)
  Remise,         \* the hand-over stop, at the client's
  Coursiers,      \* the couriers
  Personne,       \* livraison.coursier_id IS NULL
  Declarations    \* the uuid_client of the failure declarations

ASSUME CollectesAssumption == IsFiniteSet(Collectes) /\ Collectes # {} /\ Remise \notin Collectes
ASSUME CoursiersAssumption == Personne \notin Coursiers

Arrets == Collectes \cup {Remise}

VARIABLES
  \* -- table commandes.commande
  etat,         \* commande.etat
  mode,         \* commande.mode_paiement
  paiement,     \* commande.etat_paiement
  frais,        \* what the event commande.annulee announced (sans_frais)
  \* -- table commandes.livraison
  livraison,    \* livraison.etat
  coursier,     \* livraison.coursier_id
  \* -- table commandes.arret, and the courier's requests in flight
  statut,       \* arret.statut, per stop
  scans,        \* scans that passed the pre-check arret_de_coursier
  travail,      \* the transaction that holds the row lock of a stop
  \* -- the other callers, between their reads and their writes
  passage,      \* contexte.etat read by the dispatch pipeline
  demande,      \* some request to open a session has passed its checks
  session,      \* the prepayment session opened on the order
  annulation,   \* the cancellation in flight: what it read
  \* -- failure declarations
  preuves,      \* the external port PreuvesEchec says yes
  declarations  \* commandes.issue_echec, per issue_uuid_client

tronc == <<etat, mode, paiement, frais>>
course == <<livraison, coursier>>
collecte == <<statut, scans, travail>>
paiements == <<demande, session>>
appelants == <<passage, paiements, annulation>>
echec == <<preuves, declarations>>
vars == <<tronc, course, collecte, appelants, echec>>

-----------------------------------------------------------------------------
(* The requests in flight. *)

\* A stop's transaction: the status it writes, whether it also opens the
\* collection, and whether its count concluded that all is collected.
SansTravail == [cible |-> "aucune", ouvrir |-> FALSE, basculer |-> FALSE]
Travaux == {SansTravail} \cup [cible : StatutsArret, ouvrir : BOOLEAN, basculer : BOOLEAN]

\* A cancellation: who asks, and the columns it read without a lock.
PasDAnnulation == [phase |-> "repos", par |-> "systeme", livraison |-> "assignee",
                   paiement |-> "du", sansFrais |-> TRUE]
Annulations == [phase : {"repos", "lue", "comptee"}, par : Acteurs,
                livraison : EtatsLivraison, paiement : EtatsPaiement, sansFrais : BOOLEAN]

\* A failure declaration: the two states it read.  Its issue and the sanction of
\* the client, written in the same transaction, are module Sanctions.
Vierge == [phase |-> "vierge", livraison |-> "assignee", etat |-> "nouvelle"]
Issues == [phase : {"vierge", "lue", "enregistree"}, livraison : EtatsLivraison,
           etat : EtatsTronc]

TypeOK ==
  /\ etat \in EtatsTronc
  /\ mode \in ModesPaiement
  /\ paiement \in EtatsPaiement
  /\ frais \in {"aucune_annulation", "sans_frais", "part_due"}
  /\ livraison \in EtatsLivraison
  /\ coursier \in Coursiers \cup {Personne}
  /\ statut \in [Arrets -> StatutsArret]
  /\ scans \subseteq Collectes \X Coursiers
  /\ travail \in [Arrets -> Travaux]
  /\ passage \in {"repos", "nouvelle", "en_attente_coursier"}
  /\ demande \in BOOLEAN
  /\ session \in {"aucune", "ouverte", "payee", "appliquee", "expiree"}
  /\ annulation \in Annulations
  /\ preuves \in BOOLEAN
  /\ declarations \in [Declarations -> Issues]

Init ==
  /\ \/ etat = "nouvelle" /\ mode = "cash" /\ paiement = "du"
     \/ etat = "en_attente_paiement" /\ mode = "mobile_money" /\ paiement = "en_attente"
  /\ frais = "aucune_annulation"
  /\ livraison = "assignee"
  /\ coursier = Personne
  /\ statut = [a \in Arrets |-> "a_collecter"]
  /\ scans = {}
  /\ travail = [a \in Arrets |-> SansTravail]
  /\ passage = "repos"
  /\ demande = FALSE
  /\ session = "aucune"
  /\ annulation = PasDAnnulation
  /\ preuves = FALSE
  /\ declarations = [d \in Declarations |-> Vierge]

-----------------------------------------------------------------------------
(* Dispatch: the pipeline reads the order, works (pool, scoring, notices), *)
(* and only then asks `commandes` for a guarded change.                    *)

AssignerCoursier(c) ==
  /\ VerifierTransition(TableTronc, etat, "en_cours", "systeme")
  /\ etat' = "en_cours"
  /\ coursier' = c
  /\ UNCHANGED <<mode, paiement, frais, livraison, collecte, appelants, echec>>

LireContexteDispatch ==
  /\ passage = "repos"
  /\ etat \in {"nouvelle", "en_attente_coursier"}
  /\ passage' = etat
  /\ UNCHANGED <<tronc, course, collecte, paiements, annulation, echec>>

\* The pool is empty for any reason but the advance: queue the order.  Only a
\* pass that read `nouvelle` writes; the guard is the table's.
MettreEnAttenteCoursier ==
  /\ passage = "nouvelle"
  /\ VerifierTransition(TableTronc, etat, "en_attente_coursier", "systeme")
  /\ etat' = "en_attente_coursier"
  /\ passage' = "repos"
  /\ UNCHANGED <<mode, paiement, frais, course, collecte, paiements, annulation, echec>>

\* The advance is the only obstacle: require a prepayment.
ExigerPrepaiement ==
  /\ passage # "repos"
  /\ VerifierTransition(TableTronc, etat, "en_attente_paiement", "systeme")
  /\ etat' = "en_attente_paiement"
  /\ mode' = "mobile_money"
  /\ passage' = "repos"
  /\ UNCHANGED <<paiement, frais, course, collecte, paiements, annulation, echec>>

\* The pass ends otherwise: an offer is made, or the guard refuses.
FinirPassage ==
  /\ passage # "repos"
  /\ passage' = "repos"
  /\ UNCHANGED <<tronc, course, collecte, paiements, annulation, echec>>

\* The table is the only guard; the recovery sweep read "stuck, nothing bought"
\* without a lock, and may be wrong by now.
RetirerCoursier ==
  /\ VerifierTransition(TableTronc, etat, "en_attente_coursier", "systeme")
  /\ etat' = "en_attente_coursier"
  /\ coursier' = Personne
  /\ UNCHANGED <<mode, paiement, frais, livraison, collecte, appelants, echec>>

-----------------------------------------------------------------------------
(* Prepayment: the session of crate `paiements`, as the order sees it.     *)

\* ouvrir_session: the three conditions of attend_un_paiement and the absence of
\* an earlier session, read without a lock.
DemanderSession ==
  /\ session = "aucune" /\ ~demande
  /\ mode = "mobile_money" /\ etat = "en_attente_paiement" /\ paiement # "regle"
  /\ demande' = TRUE
  /\ UNCHANGED <<tronc, course, collecte, passage, session, annulation, echec>>

\* Faulty variant: the WHERE etat_paiement = 'du' is gone.
MarquerSansGarde ==
  /\ demande
  /\ paiement' = "en_attente"
  /\ demande' \in BOOLEAN
  /\ session' \in IF session = "aucune" THEN {"ouverte", "aucune"} ELSE {session}
  /\ UNCHANGED <<etat, mode, frais, course, collecte, passage, annulation, echec>>

\* One request goes on, and others may be in flight behind it.  The guard of the
\* mark is in its WHERE.  The provider may then refuse the checkout: the mark
\* stays and no session lives.
MarquerPaiementEnAttente ==
  /\ demande
  /\ paiement' = IF paiement = "du" THEN "en_attente" ELSE paiement
  /\ demande' \in BOOLEAN
  /\ session' \in IF session = "aucune" THEN {"ouverte", "aucune"} ELSE {session}
  /\ UNCHANGED <<etat, mode, frais, course, collecte, passage, annulation, echec>>

\* The transaction table of `paiements` settles the session first ...
ConclureSession ==
  /\ session = "ouverte"
  /\ session' \in {"payee", "expiree"}
  /\ UNCHANGED <<tronc, course, collecte, passage, demande, annulation, echec>>

\* ... and the order learns of it in a transaction of its own.
ConfirmerPrepaiement ==
  /\ session = "payee"
  /\ VerifierTransition(TableTronc, etat, "nouvelle", "systeme")
  /\ etat' = "nouvelle"
  /\ paiement' = "regle"
  /\ session' = "appliquee"
  /\ UNCHANGED <<mode, frais, course, collecte, passage, demande, annulation, echec>>

-----------------------------------------------------------------------------
(* Collection: each stop's transaction locks its own row, counts the other *)
(* stops as committed, and may have to change the delivery at its commit.  *)

Resolu(a) == statut[a] \in EstResolu

\* Faulty variant: one resolved collection is enough.
UnResoluAvec(a) == \E b \in Collectes : b = a \/ Resolu(b)

\* gating_livraison: every COLLECTION resolved, the caller's own included.
TousResolusAvec(a) == \A b \in Collectes : b = a \/ Resolu(b)

\* Faulty variant: the gating ignores a delivery it has just opened.
PlanifierSansBasculer(a, cible) ==
  [cible    |-> cible,
   ouvrir   |-> cible # "arrive" /\ livraison = "assignee",
   basculer |-> cible \in EstResolu /\ livraison = "en_collecte" /\ TousResolusAvec(a)]

\* The plan of a transaction on stop a: ouvrir_collecte_si_besoin, then, when
\* the new status resolves the stop, the count of gating_livraison.
Planifier(a, cible) ==
  [cible    |-> cible,
   ouvrir   |-> cible # "arrive" /\ livraison = "assignee",
   basculer |-> /\ cible \in EstResolu
                /\ livraison \in {"assignee", "en_collecte"}
                /\ TousResolusAvec(a)]

\* qr/depot.rs: arret_de_coursier is a read on the pool, before the proof of
\* presence, the photo and the transaction.
PresenterScan(a, c) ==
  /\ coursier = c
  /\ livraison \in {"assignee", "en_collecte"}
  /\ scans' = scans \cup {<<a, c>>}
  /\ UNCHANGED <<tronc, course, statut, travail, appelants, echec>>

\* Faulty variant: a scan overwrites whatever the stop became.
MarquerArretDejaResolu(a, c) ==
  /\ <<a, c>> \in scans
  /\ travail[a] = SansTravail
  /\ travail' = [travail EXCEPT ![a] = Planifier(a, "collecte")]
  /\ scans' = scans \ {<<a, c>>}
  /\ UNCHANGED <<tronc, course, statut, appelants, echec>>

\* marquer_arret_collecte: the stop's status only; neither the courier nor the
\* state of the delivery is checked again.
MarquerArretCollecte(a, c) ==
  /\ <<a, c>> \in scans
  /\ travail[a] = SansTravail
  /\ statut[a] \in {"a_collecter", "arrive"}
  /\ travail' = [travail EXCEPT ![a] = Planifier(a, "collecte")]
  /\ scans' = scans \ {<<a, c>>}
  /\ UNCHANGED <<tronc, course, statut, appelants, echec>>

\* transiter_sous_verrou: the courier's other changes, of the hand-over stop too.
TransiterArret(a, c, cible) ==
  /\ travail[a] = SansTravail
  /\ coursier = c
  /\ VerifierTransition(TableArret, statut[a], cible, "coursier")
  /\ travail' = [travail EXCEPT ![a] = Planifier(a, cible)]
  /\ UNCHANGED <<tronc, course, statut, scans, appelants, echec>>

MarquerArretEnRoute(a, c) == TransiterArret(a, c, "en_route")
MarquerArretArrive(a, c) == TransiterArret(a, c, "arrive")
MarquerArretIndisponible(a, c) == TransiterArret(a, c, "indisponible")

\* The commit of a stop's transaction, with its guarded changes of the delivery.
ValiderArret(a) ==
  LET t == travail[a]
      ouverte == IF t.ouvrir THEN "en_collecte" ELSE livraison
  IN  /\ t # SansTravail
      /\ t.ouvrir => VerifierTransition(TableLivraison, livraison, "en_collecte", "coursier")
      /\ t.basculer => VerifierTransition(TableLivraison, ouverte, "en_livraison", "coursier")
      /\ livraison' = IF t.basculer THEN "en_livraison" ELSE ouverte
      /\ statut' = [statut EXCEPT ![a] = t.cible]
      /\ travail' = [travail EXCEPT ![a] = SansTravail]
      /\ UNCHANGED <<tronc, coursier, scans, appelants, echec>>

\* Rolled back, or lost before the transaction began.
AbandonnerArret(a) ==
  /\ travail[a] # SansTravail
  /\ travail' = [travail EXCEPT ![a] = SansTravail]
  /\ UNCHANGED <<tronc, course, statut, scans, appelants, echec>>

AbandonnerScan(a, c) ==
  /\ <<a, c>> \in scans
  /\ scans' = scans \ {<<a, c>>}
  /\ UNCHANGED <<tronc, course, statut, travail, appelants, echec>>

\* Faulty variant: a cash order is closed without being settled.
ValiderRemiseSansRegler(c) ==
  /\ coursier = c
  /\ VerifierTransition(TableLivraison, livraison, "livree", "coursier")
  /\ VerifierTransition(TableTronc, etat, "terminee", "coursier")
  /\ livraison' = "livree"
  /\ etat' = "terminee"
  /\ UNCHANGED <<mode, paiement, frais, coursier, collecte, appelants, echec>>

\* valider_remise with a valid proof, cloturer_livraison_prouvee: both rows are
\* locked FOR UPDATE before anything is read, so one step.
ValiderRemise(c) ==
  /\ coursier = c
  /\ VerifierTransition(TableLivraison, livraison, "livree", "coursier")
  /\ VerifierTransition(TableTronc, etat, "terminee", "coursier")
  /\ livraison' = "livree"
  /\ etat' = "terminee"
  /\ paiement' = IF paiement = "rembourse" THEN paiement ELSE "regle"
  /\ UNCHANGED <<mode, frais, coursier, collecte, appelants, echec>>

-----------------------------------------------------------------------------
(* Cancellation (annuler_commande): two unlocked reads, then the writes.   *)

LireAnnulation(par) ==
  /\ annulation.phase = "repos"
  /\ par = "systeme" => session = "expiree"
  /\ annulation' = [PasDAnnulation EXCEPT !.phase = "lue", !.par = par,
                                          !.livraison = livraison, !.paiement = paiement]
  /\ UNCHANGED <<tronc, course, collecte, passage, paiements, echec>>

CompterCollectes ==
  /\ annulation.phase = "lue"
  /\ annulation' = [annulation EXCEPT !.phase = "comptee",
                       !.sansFrais = \A a \in Collectes : statut[a] # "collecte"]
  /\ UNCHANGED <<tronc, course, collecte, passage, paiements, echec>>

\* Faulty variant: only a delivery that had not started is cancelled.
AnnulerCommandeAssignee ==
  LET n == annulation IN
  /\ n.phase = "comptee"
  /\ livraison' = IF n.livraison = "assignee" THEN "annulee" ELSE livraison
  /\ VerifierTransition(TableTronc, etat, "annulee", n.par)
  /\ etat' = "annulee"
  /\ paiement' = IF n.paiement = "regle" THEN "rembourse" ELSE paiement
  /\ frais' = IF n.sansFrais THEN "sans_frais" ELSE "part_due"
  /\ annulation' = PasDAnnulation
  /\ UNCHANGED <<mode, coursier, collecte, passage, paiements, echec>>

AnnulerCommande ==
  LET n == annulation IN
  /\ n.phase = "comptee"
  /\ \/ /\ n.livraison \in LivraisonActive
        /\ VerifierTransition(TableLivraison, livraison, "annulee", n.par)
        /\ livraison' = "annulee"
     \/ /\ n.livraison \notin LivraisonActive
        /\ UNCHANGED livraison
  /\ VerifierTransition(TableTronc, etat, "annulee", n.par)
  /\ etat' = "annulee"
  /\ paiement' = IF n.paiement = "regle" THEN "rembourse" ELSE paiement
  /\ frais' = IF n.sansFrais THEN "sans_frais" ELSE "part_due"
  /\ annulation' = PasDAnnulation
  /\ UNCHANGED <<mode, coursier, collecte, passage, paiements, echec>>

AbandonnerAnnulation ==
  /\ annulation.phase # "repos"
  /\ annulation' = PasDAnnulation
  /\ UNCHANGED <<tronc, course, collecte, passage, paiements, echec>>

-----------------------------------------------------------------------------
(* Failure (declarer_echec): the proofs and the two states are read on the *)
(* pool, then one transaction writes.                                      *)

\* Calls, presence and photos recorded by the crate `coursier` for a delivery
\* that has a courier; once gathered they stay.
ReunirPreuves ==
  /\ ~preuves
  /\ coursier # Personne
  /\ preuves' = TRUE
  /\ UNCHANGED <<tronc, course, collecte, appelants, declarations>>

LireEchec(d) ==
  /\ declarations[d].phase = "vierge"
  /\ preuves
  /\ declarations' = [declarations EXCEPT ![d] =
                       [phase |-> "lue", livraison |-> livraison, etat |-> etat]]
  /\ UNCHANGED <<tronc, course, collecte, appelants, preuves>>

\* Faulty variant: the trunk is written from the state read before.
EnregistrerIssueSansTable(d) ==
  LET i == declarations[d] IN
  /\ i.phase = "lue"
  /\ livraison' = IF i.livraison = "en_livraison" THEN "echouee" ELSE livraison
  /\ etat' = IF i.etat = "en_cours" THEN "echouee" ELSE etat
  /\ declarations' = [declarations EXCEPT ![d].phase = "enregistree"]
  /\ UNCHANGED <<mode, paiement, frais, coursier, collecte, appelants, preuves>>

EnregistrerIssue(d) ==
  LET i == declarations[d] IN
  /\ i.phase = "lue"
  /\ \/ /\ i.livraison = "en_livraison"
        /\ VerifierTransition(TableLivraison, livraison, "echouee", "coursier")
        /\ livraison' = "echouee"
     \/ i.livraison # "en_livraison" /\ UNCHANGED livraison
  /\ \/ /\ i.etat = "en_cours"
        /\ VerifierTransition(TableTronc, etat, "echouee", "coursier")
        /\ etat' = "echouee"
     \/ i.etat # "en_cours" /\ UNCHANGED etat
  /\ declarations' = [declarations EXCEPT ![d].phase = "enregistree"]
  /\ UNCHANGED <<mode, paiement, frais, coursier, collecte, appelants, preuves>>

AbandonnerEchec(d) ==
  /\ declarations[d].phase = "lue"
  /\ declarations' = [declarations EXCEPT ![d] = Vierge]
  /\ UNCHANGED <<tronc, course, collecte, appelants, preuves>>

-----------------------------------------------------------------------------
Dispatch ==
  \/ \E c \in Coursiers : AssignerCoursier(c)
  \/ LireContexteDispatch \/ MettreEnAttenteCoursier \/ ExigerPrepaiement \/ FinirPassage
  \/ RetirerCoursier
Prepaiement ==
  DemanderSession \/ MarquerPaiementEnAttente \/ ConclureSession \/ ConfirmerPrepaiement
Collecter ==
  \/ \E a \in Collectes, c \in Coursiers :
        PresenterScan(a, c) \/ MarquerArretCollecte(a, c) \/ AbandonnerScan(a, c)
  \/ \E a \in Arrets, c \in Coursiers :
        MarquerArretEnRoute(a, c) \/ MarquerArretArrive(a, c) \/ MarquerArretIndisponible(a, c)
  \/ \E a \in Arrets : ValiderArret(a) \/ AbandonnerArret(a)
Remettre == \E c \in Coursiers : ValiderRemise(c)
Annuler ==
  \/ \E par \in {"client", "admin", "systeme"} : LireAnnulation(par)
  \/ CompterCollectes \/ AnnulerCommande \/ AbandonnerAnnulation
Echouer ==
  \/ ReunirPreuves
  \/ \E d \in Declarations : LireEchec(d) \/ EnregistrerIssue(d) \/ AbandonnerEchec(d)

Next == Dispatch \/ Prepaiement \/ Collecter \/ Remettre \/ Annuler \/ Echouer

Spec == Init /\ [][Next]_vars

-----------------------------------------------------------------------------
(* What holds.                                                             *)

\* The courier heads for the client, or has handed over, or has failed at the
\* door, only when every collection is resolved (gating_livraison), whatever
\* scans, withdrawals and cancellations were in flight.
CollectesAvantLivraison ==
  livraison \in {"en_livraison", "livree", "echouee"} => \A a \in Collectes : Resolu(a)

\* A resolved stop has opened the collection: a delivery left `assignee` by a
\* direct scan would stay outside the gating for ever (ouvrir_collecte_si_besoin).
AchatOuvreLaCollecte ==
  (\E a \in Collectes : Resolu(a)) => livraison # "assignee"

\* The trunk and the delivery close together, and a closed order is paid: the
\* constraint commande_terminee_payee, with the delivery actually carried by
\* somebody (cloturer_livraison_prouvee).
TermineeEstLivreeEtPayee ==
  /\ etat = "terminee" <=> livraison = "livree"
  /\ etat = "terminee" => paiement = "regle" /\ coursier # Personne

\* No ghost course: a cancelled order leaves no delivery at work in a courier's
\* app, even when the cancellation raced with scans and hand-over
\* (annuler_commande).
PasDeCourseFantome == etat = "annulee" => livraison \notin LivraisonActive

\* Nothing leaves before a required prepayment is settled: a mobile-money order
\* that dispatch or a courier may touch is paid (exiger_prepaiement,
\* confirmer_prepaiement, marquer_paiement_en_attente).
PrepayeeAvantDepart ==
  mode = "mobile_money" /\ etat \in {"nouvelle", "en_attente_coursier", "en_cours", "terminee"}
    => paiement = "regle"

\* A refund is only ever announced on a cancelled, prepaid order.
RemboursementFonde ==
  paiement = "rembourse" => etat = "annulee" /\ mode = "mobile_money"

\* The courier's share is only billed to a cancellation that follows a purchase.
PartDueApresAchat ==
  frais = "part_due" => \E a \in Collectes : statut[a] = "collecte"

\* An order under way has a courier (assigner_coursier, retirer_coursier).
EnCoursPortee == etat = "en_cours" => coursier # Personne

\* With one vendor the gating never forgets: once its stop is resolved and no
\* transaction is in flight, the delivery is no longer in collection.
CollecteJamaisOubliee ==
  (\A a \in Collectes : Resolu(a)) /\ (\A a \in Arrets : travail[a] = SansTravail)
    => livraison # "en_collecte"

\* Money that was advanced stays advanced: no step undoes the resolution of a
\* stop, and a purchase is never turned into an absence.
ResolutionDefinitive ==
  [][\A a \in Arrets : Resolu(a) => statut'[a] = statut[a]]_vars

Fige == etat' = etat /\ coursier' = coursier /\ frais' = frais
PaiementFige == paiement \in {"regle", "rembourse"} => paiement' = paiement

\* The end is the end: after it no caller with stale reads changes the outcome,
\* the courier who carried it, the refund or what was announced.
FinDefinitive ==
  [][(etat \in TroncTermine) => Fige /\ PaiementFige]_vars

-----------------------------------------------------------------------------
(* The inductive invariant behind them: what the requests in flight know.  *)

\* A stop's transaction starts from an unresolved stop (it holds its row), and
\* what it concluded about the other stops and the delivery stays true.
TravauxFondes ==
  \A a \in Arrets :
    LET t == travail[a] IN
    /\ t # SansTravail => ~Resolu(a)
    /\ t.basculer => t.cible \in EstResolu /\ TousResolusAvec(a)
    /\ t.cible \in EstResolu => t.ouvrir \/ livraison # "assignee"

\* What a cancellation read is stale, but never about what cannot be undone.
AnnulationFondee ==
  /\ annulation.livraison \notin LivraisonActive => livraison \notin LivraisonActive
  /\ annulation.paiement = "regle" => mode = "mobile_money" \/ etat = "terminee"
  /\ ~annulation.sansFrais => \E a \in Collectes : statut[a] = "collecte"

\* Only prepaid orders are settled before the hand-over.
PaiementFonde ==
  /\ etat = "en_attente_paiement" => mode = "mobile_money"
  /\ paiement = "regle" => mode = "mobile_money" \/ etat = "terminee"

IInv ==
  /\ TypeOK
  /\ TravauxFondes
  /\ AnnulationFondee
  /\ PaiementFonde
  /\ CollectesAvantLivraison
  /\ AchatOuvreLaCollecte
  /\ TermineeEstLivreeEtPayee
  /\ PasDeCourseFantome
  /\ PrepayeeAvantDepart
  /\ RemboursementFonde
  /\ PartDueApresAchat
  /\ EnCoursPortee

=============================================================================
