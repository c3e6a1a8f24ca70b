--------------------------- MODULE CommandeProofs ---------------------------
(***************************************************************************)
(* Proofs about module Commande, for every set of vendors, couriers and    *)
(* failure declarations.                                                   *)
(***************************************************************************)
EXTENDS Commande, TLAPS

(***************************************************************************)
(* What the tables allow, read once, so that the proofs below cite the     *)
(* rows they need and never the whole table.                               *)
(***************************************************************************)
LEMMA SystemeTronc ==
  ASSUME NEW d, NEW v, VerifierTransition(TableTronc, d, v, "systeme")
  PROVE  /\ d \notin TroncTermine
         /\ v = "nouvelle" => d = "en_attente_paiement"
         /\ v = "en_attente_coursier" => d \in {"nouvelle", "en_cours"}
         /\ v = "en_attente_paiement" => d = "nouvelle"
         /\ v = "en_cours" => d \in {"nouvelle", "en_attente_coursier"}
BY DEF VerifierTransition, TableTronc, TroncTermine

LEMMA CoursierTronc ==
  ASSUME NEW d, NEW v, VerifierTransition(TableTronc, d, v, "coursier")
  PROVE  d = "en_cours"
BY DEF VerifierTransition, TableTronc

LEMMA AnnulerTronc ==
  ASSUME NEW d, NEW p \in Acteurs, VerifierTransition(TableTronc, d, "annulee", p)
  PROVE  d \notin TroncTermine
BY DEF VerifierTransition, TableTronc, AbandonsTronc, TroncTermine, Acteurs

LEMMA CoursierLivraison ==
  ASSUME NEW d, NEW v, VerifierTransition(TableLivraison, d, v, "coursier")
  PROVE  /\ v = "en_collecte" => d = "assignee"
         /\ v = "en_livraison" => d = "en_collecte"
         /\ v \in {"livree", "echouee"} => d = "en_livraison"
BY DEF VerifierTransition, TableLivraison

LEMMA AnnulerLivraison ==
  ASSUME NEW d, NEW p \in Acteurs, VerifierTransition(TableLivraison, d, "annulee", p)
  PROVE  d \in LivraisonActive
BY DEF VerifierTransition, TableLivraison, AbandonsLivraison, LivraisonActive, Acteurs

LEMMA CoursierArret ==
  ASSUME NEW d, NEW v, VerifierTransition(TableArret, d, v, "coursier")
  PROVE  d \notin EstResolu
BY DEF VerifierTransition, TableArret, EstResolu

-----------------------------------------------------------------------------
(* Type correctness.                                                       *)

\* Every state a table can be asked to write is a state of its level.
LEMMA EtatsEcrits ==
  /\ {"nouvelle", "en_attente_paiement", "en_attente_coursier", "en_cours",
      "terminee", "annulee", "echouee"} \subseteq EtatsTronc
  /\ {"assignee", "en_collecte", "en_livraison", "livree", "annulee", "echouee"}
        \subseteq EtatsLivraison
  /\ EstResolu \cup {"a_collecter", "en_route", "arrive"} \subseteq StatutsArret
  /\ {"du", "en_attente", "regle", "rembourse"} \subseteq EtatsPaiement
  /\ {"client", "admin", "systeme", "coursier"} \subseteq Acteurs
BY DEF EtatsTronc, EtatsLivraison, StatutsArret, EstResolu, EtatsPaiement, Acteurs

\* The records of callers at rest are records of their type.
LEMMA AuRepos ==
  SansTravail \in Travaux /\ PasDAnnulation \in Annulations /\ Vierge \in Issues
<1>1. SansTravail \in Travaux
  BY DEF SansTravail, Travaux
<1>2. PasDAnnulation \in Annulations
  BY DEF PasDAnnulation, Annulations, Acteurs, EtatsLivraison, EtatsPaiement
<1>3. Vierge \in Issues
  BY DEF Vierge, Issues, EtatsLivraison, EtatsTronc
<1> QED
  BY <1>1, <1>2, <1>3

LEMMA TypeInit == Init => TypeOK
<1> SUFFICES ASSUME Init PROVE TypeOK
  OBVIOUS
<1>1. statut \in [Arrets -> StatutsArret]
  BY DEF Init, StatutsArret
<1>2. travail \in [Arrets -> Travaux] /\ declarations \in [Declarations -> Issues]
  BY AuRepos DEF Init
<1>3. annulation \in Annulations
  BY AuRepos DEF Init
<1> QED
  BY <1>1, <1>2, <1>3
  DEF Init, TypeOK, EtatsTronc, ModesPaiement, EtatsPaiement, EtatsLivraison

LEMMA PlanType ==
  ASSUME NEW a, NEW cible \in StatutsArret
  PROVE  Planifier(a, cible) \in Travaux
BY DEF Planifier, Travaux

\* A step of any caller keeps every column in its type.
LEMMA TypeStep == TypeOK /\ [Next]_vars => TypeOK'
<1> SUFFICES ASSUME TypeOK, [Next]_vars PROVE TypeOK'
  OBVIOUS
<1> USE EtatsEcrits DEF tronc, course, collecte, appelants, paiements, echec
<1>1. CASE Dispatch
  BY <1>1 DEF Dispatch, TypeOK, AssignerCoursier, LireContexteDispatch,
     MettreEnAttenteCoursier, ExigerPrepaiement, FinirPassage, RetirerCoursier,
     ModesPaiement
<1>2. CASE Prepaiement
  BY <1>2 DEF Prepaiement, TypeOK, DemanderSession, MarquerPaiementEnAttente,
     ConclureSession, ConfirmerPrepaiement
<1>3. CASE Collecter
  <2>1. ASSUME NEW a \in Collectes, NEW c \in Coursiers, PresenterScan(a, c)
        PROVE  TypeOK'
    BY <2>1 DEF PresenterScan, TypeOK
  <2>2. ASSUME NEW a \in Collectes, NEW c \in Coursiers, MarquerArretCollecte(a, c)
        PROVE  TypeOK'
    <3>1. "collecte" \in StatutsArret
      BY DEF StatutsArret
    <3> QED
      BY <2>2, <3>1, PlanType DEF MarquerArretCollecte, TypeOK
  <2>3. ASSUME NEW a \in Collectes, NEW c \in Coursiers, AbandonnerScan(a, c)
        PROVE  TypeOK'
    BY <2>3 DEF AbandonnerScan, TypeOK
  <2>4. ASSUME NEW a \in Arrets, NEW c \in Coursiers,
               NEW cible \in {"en_route", "arrive", "indisponible"},
               TransiterArret(a, c, cible)
        PROVE  TypeOK'
    <3>1. cible \in StatutsArret
      BY DEF StatutsArret
    <3> QED
      BY <2>4, <3>1, PlanType DEF TransiterArret, TypeOK
  <2>5. ASSUME NEW a \in Arrets, ValiderArret(a) PROVE TypeOK'
    <3>1. travail[a].cible \in StatutsArret
      BY <2>5 DEF ValiderArret, TypeOK, Travaux
    <3> QED
      BY <2>5, <3>1, AuRepos DEF ValiderArret, TypeOK
  <2>6. ASSUME NEW a \in Arrets, AbandonnerArret(a) PROVE TypeOK'
    BY <2>6, AuRepos DEF AbandonnerArret, TypeOK
  <2> QED
    BY <1>3, <2>1, <2>2, <2>3, <2>4, <2>5, <2>6 DEF Collecter, MarquerArretEnRoute,
       MarquerArretArrive, MarquerArretIndisponible
<1>4. CASE Remettre
  BY <1>4 DEF Remettre, ValiderRemise, TypeOK
<1>5. CASE Annuler
  <2>1. ASSUME NEW par \in {"client", "admin", "systeme"}, LireAnnulation(par)
        PROVE  TypeOK'
    <3>1. annulation' \in Annulations
      BY <2>1 DEF LireAnnulation, TypeOK, PasDAnnulation, Annulations
    <3> QED
      BY <2>1, <3>1 DEF LireAnnulation, TypeOK
  <2>2. CASE CompterCollectes
    <3>1. annulation' \in Annulations
      BY <2>2 DEF CompterCollectes, TypeOK, Annulations
    <3> QED
      BY <2>2, <3>1 DEF CompterCollectes, TypeOK
  <2>3. CASE AnnulerCommande
    BY <2>3, AuRepos DEF AnnulerCommande, TypeOK
  <2>4. CASE AbandonnerAnnulation
    BY <2>4, AuRepos DEF AbandonnerAnnulation, TypeOK
  <2> QED
    BY <1>5, <2>1, <2>2, <2>3, <2>4 DEF Annuler
<1>6. CASE Echouer
  <2>1. CASE ReunirPreuves
    BY <2>1 DEF ReunirPreuves, TypeOK
  <2>2. ASSUME NEW d \in Declarations, LireEchec(d) PROVE TypeOK'
    BY <2>2 DEF LireEchec, TypeOK, Issues
  <2>3. ASSUME NEW d \in Declarations, EnregistrerIssue(d) PROVE TypeOK'
    <3>1. declarations' \in [Declarations -> Issues]
      BY <2>3 DEF EnregistrerIssue, TypeOK, Issues
    <3> QED
      BY <2>3, <3>1 DEF EnregistrerIssue, TypeOK
  <2>4. ASSUME NEW d \in Declarations, AbandonnerEchec(d) PROVE TypeOK'
    BY <2>4, AuRepos DEF AbandonnerEchec, TypeOK
  <2> QED
    BY <1>6, <2>1, <2>2, <2>3, <2>4 DEF Echouer
<1>7. CASE UNCHANGED vars
  BY <1>7 DEF vars, TypeOK
<1> QED
  BY <1>1, <1>2, <1>3, <1>4, <1>5, <1>6, <1>7 DEF Next

\* Every reachable state is well typed: no race of callers writes a state, a
\* status or a payment that the schema does not know.
THEOREM TypeCorrect == Spec => []TypeOK
BY TypeInit, TypeStep, PTL DEF Spec

-----------------------------------------------------------------------------
(* The inductive invariant.                                                *)

LEMMA InitIInv == Init => IInv
<1> SUFFICES ASSUME Init PROVE IInv
  OBVIOUS
<1>1. TypeOK
  BY TypeInit
<1>2. TravauxFondes
  BY DEF Init, TravauxFondes, SansTravail, EstResolu
<1>3. \A a \in Collectes : ~Resolu(a)
  BY DEF Init, Resolu, Arrets, EstResolu
<1>4. AnnulationFondee
  BY DEF Init, AnnulationFondee, PasDAnnulation, LivraisonActive
<1> QED
  BY <1>1, <1>2, <1>3, <1>4
  DEF Init, IInv, PaiementFonde, CollectesAvantLivraison, AchatOuvreLaCollecte,
      TermineeEstLivreeEtPayee, PasDeCourseFantome, PrepayeeAvantDepart,
      RemboursementFonde, PartDueApresAchat, EnCoursPortee

\* A step that leaves the rows and the transactions of IInv alone keeps it.
LEMMA StepAilleurs ==
  ASSUME IInv, TypeOK', UNCHANGED <<tronc, course, statut, travail, annulation>>
  PROVE  IInv'
BY DEF IInv, tronc, course, TravauxFondes, AnnulationFondee, PaiementFonde,
   CollectesAvantLivraison, AchatOuvreLaCollecte, TermineeEstLivreeEtPayee,
   PasDeCourseFantome, PrepayeeAvantDepart, RemboursementFonde, PartDueApresAchat,
   EnCoursPortee, Resolu, TousResolusAvec

\* A step on the trunk and the courier only, that neither enters nor leaves the
\* closed states: what the stops and the delivery owe each other is untouched.
LEMMA StepTronc ==
  ASSUME IInv, TypeOK', UNCHANGED <<frais, livraison, statut, travail, annulation>>,
         etat \notin TroncTermine, etat' \notin TroncTermine,
         mode = "mobile_money" => mode' = "mobile_money",
         PaiementFonde', PrepayeeAvantDepart', EnCoursPortee',
         paiement' = "rembourse" => paiement = "rembourse"
  PROVE  IInv'
<1> USE DEF TroncTermine
<1>1. TravauxFondes'
  BY DEF IInv, TravauxFondes, Resolu, TousResolusAvec
<1>2. AnnulationFondee'
  BY DEF IInv, AnnulationFondee
<1>3. CollectesAvantLivraison' /\ AchatOuvreLaCollecte' /\ PartDueApresAchat'
  BY DEF IInv, CollectesAvantLivraison, AchatOuvreLaCollecte, PartDueApresAchat, Resolu
<1>4. TermineeEstLivreeEtPayee' /\ PasDeCourseFantome' /\ RemboursementFonde'
  BY DEF IInv, TermineeEstLivreeEtPayee, PasDeCourseFantome, RemboursementFonde
<1> QED
  BY <1>1, <1>2, <1>3, <1>4 DEF IInv

LEMMA StepDispatch ==
  ASSUME IInv, TypeOK', Dispatch
  PROVE  IInv'
<1> USE DEF tronc, course, collecte, appelants, paiements, echec, TroncTermine
<1>1. ASSUME NEW c \in Coursiers, AssignerCoursier(c) PROVE IInv'
  BY <1>1, SystemeTronc, StepTronc, CoursiersAssumption
  DEF AssignerCoursier, IInv, PaiementFonde, PrepayeeAvantDepart, EnCoursPortee
<1>2. CASE MettreEnAttenteCoursier
  BY <1>2, SystemeTronc, StepTronc
  DEF MettreEnAttenteCoursier, IInv, PaiementFonde, PrepayeeAvantDepart, EnCoursPortee
<1>3. CASE ExigerPrepaiement
  BY <1>3, SystemeTronc, StepTronc
  DEF ExigerPrepaiement, IInv, PaiementFonde, PrepayeeAvantDepart, EnCoursPortee
<1>4. CASE RetirerCoursier
  BY <1>4, SystemeTronc, StepTronc
  DEF RetirerCoursier, IInv, PaiementFonde, PrepayeeAvantDepart, EnCoursPortee
<1>5. CASE LireContexteDispatch \/ FinirPassage
  BY <1>5, StepAilleurs DEF LireContexteDispatch, FinirPassage
<1> QED
  BY <1>1, <1>2, <1>3, <1>4, <1>5 DEF Dispatch

LEMMA StepPrepaiement ==
  ASSUME IInv, TypeOK', Prepaiement
  PROVE  IInv'
<1> USE DEF tronc, course, collecte, appelants, paiements, echec, TroncTermine
<1>1. CASE DemanderSession \/ ConclureSession
  BY <1>1, StepAilleurs DEF DemanderSession, ConclureSession
<1>2. CASE MarquerPaiementEnAttente
  BY <1>2 DEF MarquerPaiementEnAttente, IInv, TravauxFondes, AnnulationFondee,
     PaiementFonde, CollectesAvantLivraison, AchatOuvreLaCollecte,
     TermineeEstLivreeEtPayee, PasDeCourseFantome, PrepayeeAvantDepart,
     RemboursementFonde, PartDueApresAchat, EnCoursPortee, Resolu, TousResolusAvec
<1>3. CASE ConfirmerPrepaiement
  BY <1>3, SystemeTronc, StepTronc
  DEF ConfirmerPrepaiement, IInv, PaiementFonde, PrepayeeAvantDepart, EnCoursPortee
<1> QED
  BY <1>1, <1>2, <1>3 DEF Prepaiement

\* A transaction that takes the row of an unresolved stop and plans its writes.
LEMMA StepPlan ==
  ASSUME IInv, TypeOK', NEW a \in Arrets, NEW cible \in StatutsArret, ~Resolu(a),
         travail' = [travail EXCEPT ![a] = Planifier(a, cible)],
         UNCHANGED <<tronc, course, statut, annulation>>
  PROVE  IInv'
<1> USE DEF tronc, course
<1>1. travail \in [Arrets -> Travaux]
  BY DEF IInv, TypeOK
<1>2. TravauxFondes'
  <2> SUFFICES ASSUME NEW b \in Arrets
               PROVE  /\ travail'[b] # SansTravail => ~Resolu(b)'
                      /\ travail'[b].basculer =>
                           travail'[b].cible \in EstResolu /\ TousResolusAvec(b)'
                      /\ travail'[b].cible \in EstResolu =>
                           travail'[b].ouvrir \/ livraison' # "assignee"
    BY DEF TravauxFondes
  <2>1. CASE b = a
    BY <1>1, <2>1 DEF Planifier, Resolu, TousResolusAvec, EstResolu
  <2>2. CASE b # a
    BY <1>1, <2>2 DEF IInv, TravauxFondes, Resolu, TousResolusAvec
  <2> QED
    BY <2>1, <2>2
<1> QED
  BY <1>2 DEF IInv, AnnulationFondee, PaiementFonde, CollectesAvantLivraison,
     AchatOuvreLaCollecte, TermineeEstLivreeEtPayee, PasDeCourseFantome,
     PrepayeeAvantDepart, RemboursementFonde, PartDueApresAchat, EnCoursPortee, Resolu

LEMMA StepValiderArret ==
  ASSUME IInv, TypeOK', NEW a \in Arrets, ValiderArret(a)
  PROVE  IInv'
<1> USE DEF tronc, course, appelants, paiements, echec
<1>1. /\ statut \in [Arrets -> StatutsArret] /\ travail \in [Arrets -> Travaux]
      /\ Collectes \subseteq Arrets
  BY DEF IInv, TypeOK, Arrets
<1>2. /\ ~Resolu(a)
      /\ travail[a].basculer => travail[a].cible \in EstResolu /\ TousResolusAvec(a)
      /\ travail[a].cible \in EstResolu => travail[a].ouvrir \/ livraison # "assignee"
  BY DEF ValiderArret, IInv, TravauxFondes
\* The other stops keep their status, this one takes the planned one.
<1>3. /\ \A b \in Arrets : b # a => statut'[b] = statut[b]
      /\ statut'[a] = travail[a].cible
      /\ \A b \in Arrets : b # a => travail'[b] = travail[b]
      /\ travail'[a] = SansTravail
  BY <1>1 DEF ValiderArret
<1>4. \A b \in Arrets : Resolu(b) => Resolu(b)' /\ statut'[b] = statut[b]
  BY <1>2, <1>3 DEF Resolu
\* The three things the commit may do to the delivery.
<1>5. \/ livraison' = livraison /\ ~travail[a].ouvrir /\ ~travail[a].basculer
      \/ livraison = "assignee" /\ livraison' = "en_collecte" /\ ~travail[a].basculer
      \/ /\ livraison \in {"assignee", "en_collecte"} /\ livraison' = "en_livraison"
         /\ travail[a].basculer
  BY CoursierLivraison DEF ValiderArret
<1>6. TravauxFondes'
  <2> SUFFICES ASSUME NEW b \in Arrets
               PROVE  /\ travail'[b] # SansTravail => ~Resolu(b)'
                      /\ travail'[b].basculer =>
                           travail'[b].cible \in EstResolu /\ TousResolusAvec(b)'
                      /\ travail'[b].cible \in EstResolu =>
                           travail'[b].ouvrir \/ livraison' # "assignee"
    BY DEF TravauxFondes
  <2>1. CASE b = a
    BY <1>3, <2>1 DEF SansTravail, EstResolu
  <2>2. CASE b # a
    <3>1. TousResolusAvec(b) => TousResolusAvec(b)'
      BY <1>1, <1>4 DEF TousResolusAvec
    <3> QED
      BY <1>3, <1>5, <2>2, <3>1 DEF IInv, TravauxFondes, Resolu
  <2> QED
    BY <2>1, <2>2
<1>7. AnnulationFondee'
  BY <1>1, <1>4, <1>5 DEF IInv, AnnulationFondee, ValiderArret, LivraisonActive, Resolu,
     EstResolu
<1>8. CollectesAvantLivraison'
  <2>1. CASE travail[a].basculer
    BY <1>1, <1>2, <1>3, <1>4, <2>1 DEF CollectesAvantLivraison, TousResolusAvec, Resolu
  <2>2. CASE ~travail[a].basculer
    BY <1>1, <1>4, <1>5, <2>2 DEF IInv, CollectesAvantLivraison
  <2> QED
    BY <2>1, <2>2
<1>9. AchatOuvreLaCollecte'
  BY <1>1, <1>2, <1>3, <1>5 DEF IInv, AchatOuvreLaCollecte, Resolu
<1>10. PartDueApresAchat'
  BY <1>1, <1>4 DEF IInv, PartDueApresAchat, ValiderArret, Resolu, EstResolu
<1>11. TermineeEstLivreeEtPayee' /\ PasDeCourseFantome'
  BY <1>5 DEF IInv, TermineeEstLivreeEtPayee, PasDeCourseFantome, ValiderArret,
     LivraisonActive
<1> QED
  BY <1>6, <1>7, <1>8, <1>9, <1>10, <1>11
  DEF IInv, PaiementFonde, PrepayeeAvantDepart, RemboursementFonde, EnCoursPortee,
      ValiderArret

LEMMA StepCollecter ==
  ASSUME IInv, TypeOK', Collecter
  PROVE  IInv'
<1> USE DEF tronc, course, appelants, paiements, echec
<1>1. ASSUME NEW a \in Collectes, NEW c \in Coursiers,
             PresenterScan(a, c) \/ AbandonnerScan(a, c)
      PROVE  IInv'
  BY <1>1, StepAilleurs DEF PresenterScan, AbandonnerScan
<1>2. ASSUME NEW a \in Collectes, NEW c \in Coursiers, MarquerArretCollecte(a, c)
      PROVE  IInv'
  BY <1>2, StepPlan DEF MarquerArretCollecte, Resolu, EstResolu, StatutsArret, Arrets
<1>3. ASSUME NEW a \in Arrets, NEW c \in Coursiers,
             NEW cible \in {"en_route", "arrive", "indisponible"},
             TransiterArret(a, c, cible)
      PROVE  IInv'
  BY <1>3, StepPlan, CoursierArret DEF TransiterArret, Resolu, StatutsArret
<1>4. ASSUME NEW a \in Arrets, ValiderArret(a) PROVE IInv'
  BY <1>4, StepValiderArret
<1>5. ASSUME NEW a \in Arrets, AbandonnerArret(a) PROVE IInv'
  <2>1. TravauxFondes'
    BY <1>5 DEF AbandonnerArret, IInv, TypeOK, TravauxFondes, SansTravail, EstResolu,
       Resolu, TousResolusAvec
  <2> QED
    BY <1>5, <2>1 DEF AbandonnerArret, IInv, AnnulationFondee, PaiementFonde,
       CollectesAvantLivraison, AchatOuvreLaCollecte, TermineeEstLivreeEtPayee,
       PasDeCourseFantome, PrepayeeAvantDepart, RemboursementFonde, PartDueApresAchat,
       EnCoursPortee, Resolu
<1> QED
  BY <1>1, <1>2, <1>3, <1>4, <1>5 DEF Collecter, MarquerArretEnRoute, MarquerArretArrive,
     MarquerArretIndisponible

LEMMA StepRemettre ==
  ASSUME IInv, TypeOK', Remettre
  PROVE  IInv'
<1> PICK c \in Coursiers : ValiderRemise(c)
  BY DEF Remettre
<1>1. /\ livraison = "en_livraison" /\ livraison' = "livree"
      /\ etat = "en_cours" /\ etat' = "terminee" /\ paiement' = "regle"
      /\ coursier' # Personne
      /\ UNCHANGED <<mode, frais, statut, travail, annulation>>
  BY CoursierLivraison, CoursierTronc, CoursiersAssumption
  DEF ValiderRemise, IInv, RemboursementFonde, collecte, appelants, paiements
<1> QED
  BY <1>1 DEF IInv, TravauxFondes, AnnulationFondee, PaiementFonde,
     CollectesAvantLivraison, AchatOuvreLaCollecte, TermineeEstLivreeEtPayee,
     PasDeCourseFantome, PrepayeeAvantDepart, RemboursementFonde, PartDueApresAchat,
     EnCoursPortee, Resolu, TousResolusAvec, LivraisonActive

LEMMA StepAnnuler ==
  ASSUME IInv, TypeOK', Annuler
  PROVE  IInv'
<1> USE DEF tronc, course, collecte, appelants, paiements, echec
\* The reads and the abandon: only what the cancellation knows changes.
<1>1. ASSUME UNCHANGED <<tronc, course, statut, travail>>, AnnulationFondee'
      PROVE  IInv'
  BY <1>1 DEF IInv, TravauxFondes, PaiementFonde, CollectesAvantLivraison,
     AchatOuvreLaCollecte, TermineeEstLivreeEtPayee, PasDeCourseFantome,
     PrepayeeAvantDepart, RemboursementFonde, PartDueApresAchat, EnCoursPortee,
     Resolu, TousResolusAvec
<1>2. ASSUME NEW par \in {"client", "admin", "systeme"}, LireAnnulation(par)
      PROVE  IInv'
  BY <1>1, <1>2 DEF LireAnnulation, IInv, AnnulationFondee, PaiementFonde, PasDAnnulation,
     TypeOK, Annulations
<1>3. CASE CompterCollectes
  BY <1>1, <1>3 DEF CompterCollectes, IInv, AnnulationFondee, TypeOK, Annulations
<1>4. CASE AbandonnerAnnulation
  BY <1>1, <1>4 DEF AbandonnerAnnulation, IInv, AnnulationFondee, PasDAnnulation,
     LivraisonActive
<1>5. CASE AnnulerCommande
  <2>1. /\ etat \notin TroncTermine /\ etat' = "annulee"
        /\ annulation.par \in Acteurs /\ annulation' = PasDAnnulation
        /\ UNCHANGED <<mode, coursier, statut, travail>>
    BY <1>5, AnnulerTronc DEF AnnulerCommande, IInv, TypeOK, Annulations
  <2>2. \/ livraison \in LivraisonActive /\ livraison' = "annulee"
        \/ livraison \notin LivraisonActive /\ livraison' = livraison
    BY <1>5, <2>1, AnnulerLivraison DEF AnnulerCommande, IInv, AnnulationFondee
  <2>3. paiement' = "rembourse" => mode = "mobile_money"
    BY <1>5, <2>1 DEF AnnulerCommande, IInv, AnnulationFondee, RemboursementFonde,
       TroncTermine
  <2>4. TravauxFondes' /\ CollectesAvantLivraison' /\ AchatOuvreLaCollecte'
    BY <2>1, <2>2 DEF IInv, TravauxFondes, CollectesAvantLivraison, AchatOuvreLaCollecte,
       Resolu, TousResolusAvec
  <2>5. AnnulationFondee'
    BY <2>1 DEF AnnulationFondee, PasDAnnulation, LivraisonActive
  <2>6. PartDueApresAchat'
    BY <1>5, <2>1 DEF AnnulerCommande, IInv, AnnulationFondee, PartDueApresAchat
  <2>7. paiement' = "regle" => mode = "mobile_money"
    BY <1>5, <2>1 DEF AnnulerCommande, IInv, PaiementFonde, TroncTermine
  <2>8. TermineeEstLivreeEtPayee' /\ PasDeCourseFantome'
    BY <2>1, <2>2 DEF IInv, TermineeEstLivreeEtPayee, PasDeCourseFantome, TroncTermine,
       LivraisonActive
  <2> QED
    BY <2>1, <2>3, <2>4, <2>5, <2>6, <2>7, <2>8
    DEF IInv, PaiementFonde, PrepayeeAvantDepart, RemboursementFonde, EnCoursPortee
<1> QED
  BY <1>2, <1>3, <1>4, <1>5 DEF Annuler

LEMMA StepEchouer ==
  ASSUME IInv, TypeOK', Echouer
  PROVE  IInv'
<1> USE DEF tronc, course, collecte, appelants, paiements
<1>1. ASSUME NEW d \in Declarations, EnregistrerIssue(d) PROVE IInv'
  <2>1. /\ \/ livraison = "en_livraison" /\ livraison' = "echouee"
           \/ livraison' = livraison
        /\ \/ etat = "en_cours" /\ etat' = "echouee"
           \/ etat' = etat
        /\ UNCHANGED <<mode, paiement, frais, coursier, statut, travail, annulation>>
    BY <1>1, CoursierLivraison, CoursierTronc DEF EnregistrerIssue
  <2>2. TravauxFondes' /\ CollectesAvantLivraison' /\ AchatOuvreLaCollecte'
    BY <2>1 DEF IInv, TravauxFondes, CollectesAvantLivraison, AchatOuvreLaCollecte,
       Resolu, TousResolusAvec
  <2>3. AnnulationFondee' /\ PartDueApresAchat'
    BY <2>1 DEF IInv, AnnulationFondee, PartDueApresAchat, LivraisonActive
  <2> QED
    BY <2>1, <2>2, <2>3 DEF IInv, PaiementFonde, TermineeEstLivreeEtPayee,
       PasDeCourseFantome, PrepayeeAvantDepart, RemboursementFonde, EnCoursPortee,
       LivraisonActive
<1>2. ASSUME NEW d \in Declarations, LireEchec(d) \/ AbandonnerEchec(d) PROVE IInv'
  BY <1>2, StepAilleurs DEF LireEchec, AbandonnerEchec
<1>3. CASE ReunirPreuves
  BY <1>3, StepAilleurs DEF ReunirPreuves
<1> QED
  BY <1>1, <1>2, <1>3 DEF Echouer

LEMMA StepIInv == IInv /\ [Next]_vars => IInv'
<1> SUFFICES ASSUME IInv, [Next]_vars PROVE IInv'
  OBVIOUS
<1>1. TypeOK'
  BY TypeStep DEF IInv
<1>2. CASE UNCHANGED vars
  BY <1>1, <1>2, StepAilleurs DEF vars, collecte, appelants, paiements
<1> QED
  BY <1>1, <1>2, StepDispatch, StepPrepaiement, StepCollecter, StepRemettre, StepAnnuler,
     StepEchouer DEF Next

\* Whatever the number of vendors, couriers and declarations, and however the
\* dispatch, the courier, the payment, the cancellation and the failure form
\* interleave, the inductive invariant holds.
THEOREM Invariance == Spec => []IInv
BY InitIInv, StepIInv, PTL DEF Spec

-----------------------------------------------------------------------------
(* What follows from it.                                                   *)

\* No courier heads for the client, delivers or fails at the door while a
\* collection is unresolved (gating_livraison).
THEOREM GatingSur == Spec => []CollectesAvantLivraison
BY Invariance, PTL DEF IInv

\* A delivery with a resolved stop has left `assignee`, so that no direct scan
\* escapes the gating (ouvrir_collecte_si_besoin).
THEOREM OuvertureSure == Spec => []AchatOuvreLaCollecte
BY Invariance, PTL DEF IInv

\* Trunk and delivery are closed together, paid and carried
\* (cloturer_livraison_prouvee).
THEOREM ClotureSure == Spec => []TermineeEstLivreeEtPayee
BY Invariance, PTL DEF IInv

\* A cancelled order leaves no work in a courier's app (annuler_commande).
THEOREM AnnulationSure == Spec => []PasDeCourseFantome
BY Invariance, PTL DEF IInv

\* No mobile-money order is searched, assigned or delivered unpaid
\* (exiger_prepaiement, confirmer_prepaiement).
THEOREM PrepaiementSur == Spec => []PrepayeeAvantDepart
BY Invariance, PTL DEF IInv

\* Only cancelled, prepaid orders are marked refunded (annuler_commande).
THEOREM RemboursementSur == Spec => []RemboursementFonde
BY Invariance, PTL DEF IInv

\* The courier's share is billed only after a purchase (annuler_commande).
THEOREM PartDueSure == Spec => []PartDueApresAchat
BY Invariance, PTL DEF IInv

\* An order under way is carried by somebody (assigner_coursier,
\* retirer_coursier).
THEOREM PorteurSur == Spec => []EnCoursPortee
BY Invariance, PTL DEF IInv

\* Only the commit of a stop's transaction writes a status, and it found the
\* stop unresolved: what was bought or found missing stays so.
THEOREM ResolutionSure == Spec => ResolutionDefinitive
<1>1. IInv /\ [Next]_vars => [\A a \in Arrets : Resolu(a) => statut'[a] = statut[a]]_vars
  <2> SUFFICES ASSUME IInv, Next, NEW a \in Arrets, Resolu(a)
               PROVE  statut'[a] = statut[a]
    OBVIOUS
  <2> USE DEF collecte
  <2>1. ASSUME NEW b \in Arrets, ValiderArret(b) PROVE statut'[a] = statut[a]
    BY <2>1 DEF ValiderArret, IInv, TypeOK, TravauxFondes
  <2>2. CASE Dispatch
    BY <2>2 DEF Dispatch, AssignerCoursier, LireContexteDispatch, MettreEnAttenteCoursier,
       ExigerPrepaiement, FinirPassage, RetirerCoursier
  <2>3. CASE Prepaiement
    BY <2>3 DEF Prepaiement, DemanderSession, MarquerPaiementEnAttente, ConclureSession,
       ConfirmerPrepaiement
  <2>4. CASE Collecter
    BY <2>1, <2>4 DEF Collecter, PresenterScan, MarquerArretCollecte, AbandonnerScan,
       MarquerArretEnRoute, MarquerArretArrive, MarquerArretIndisponible, TransiterArret,
       AbandonnerArret
  <2>5. CASE Remettre
    BY <2>5 DEF Remettre, ValiderRemise
  <2>6. CASE Annuler
    BY <2>6 DEF Annuler, LireAnnulation, CompterCollectes, AnnulerCommande,
       AbandonnerAnnulation
  <2>7. CASE Echouer
    BY <2>7 DEF Echouer, ReunirPreuves, LireEchec, EnregistrerIssue, AbandonnerEchec
  <2> QED
    BY <2>2, <2>3, <2>4, <2>5, <2>6, <2>7 DEF Next
<1> QED
  BY <1>1, Invariance, PTL DEF Spec, ResolutionDefinitive

\* No stale caller reopens a closed order, changes its courier, its payment once
\* settled or refunded, or what its cancellation announced.
THEOREM FinSure == Spec => FinDefinitive
<1>1. TypeOK /\ [Next]_vars => [(etat \in TroncTermine) => Fige /\ PaiementFige]_vars
  <2> SUFFICES ASSUME TypeOK, Next, etat \in TroncTermine PROVE Fige /\ PaiementFige
    OBVIOUS
  <2> USE DEF Fige, PaiementFige, tronc, course
  <2>1. CASE Dispatch
    BY <2>1, SystemeTronc DEF Dispatch, AssignerCoursier, LireContexteDispatch,
       MettreEnAttenteCoursier, ExigerPrepaiement, FinirPassage, RetirerCoursier
  <2>2. CASE Prepaiement
    BY <2>2, SystemeTronc DEF Prepaiement, DemanderSession, MarquerPaiementEnAttente,
       ConclureSession, ConfirmerPrepaiement
  <2>3. CASE Collecter
    BY <2>3 DEF Collecter, PresenterScan, MarquerArretCollecte, AbandonnerScan,
       MarquerArretEnRoute, MarquerArretArrive, MarquerArretIndisponible, TransiterArret,
       ValiderArret, AbandonnerArret
  <2>4. CASE Remettre
    BY <2>4, CoursierTronc DEF Remettre, ValiderRemise, TroncTermine
  <2>5. CASE Annuler
    <3>1. ~AnnulerCommande
      BY AnnulerTronc DEF AnnulerCommande, TypeOK, Annulations
    <3> QED
      BY <2>5, <3>1 DEF Annuler, LireAnnulation, CompterCollectes, AbandonnerAnnulation
  <2>6. CASE Echouer
    BY <2>6, CoursierTronc DEF Echouer, ReunirPreuves, LireEchec, EnregistrerIssue,
       AbandonnerEchec, TroncTermine
  <2> QED
    BY <2>1, <2>2, <2>3, <2>4, <2>5, <2>6 DEF Next
<1> QED
  BY <1>1, TypeCorrect, PTL DEF Spec, FinDefinitive

------------------------------------------------------------------------------
\* With one vendor its stop decides alone: planned or committed as resolved, it
\* leaves no delivery behind in collection.
SeulArretDecide ==
  \A a \in Collectes :
    /\ Resolu(a) => livraison \notin {"assignee", "en_collecte"}
    /\ travail[a].cible \in EstResolu =>
         travail[a].basculer \/ livraison \notin {"assignee", "en_collecte"}

\* A delivery that has left the collection does not come back to it.
LEMMA LivraisonAvance ==
  ASSUME TypeOK, [Next]_vars, \A a \in Arrets : ~ValiderArret(a)
  PROVE  livraison' \in {"assignee", "en_collecte"} => livraison' = livraison
<1> USE DEF course
<1>1. CASE Dispatch
  BY <1>1 DEF Dispatch, AssignerCoursier, LireContexteDispatch, MettreEnAttenteCoursier,
     ExigerPrepaiement, FinirPassage, RetirerCoursier
<1>2. CASE Prepaiement
  BY <1>2 DEF Prepaiement, DemanderSession, MarquerPaiementEnAttente, ConclureSession,
     ConfirmerPrepaiement
<1>3. CASE Collecter
  BY <1>3 DEF Collecter, PresenterScan, MarquerArretCollecte, AbandonnerScan,
     MarquerArretEnRoute, MarquerArretArrive, MarquerArretIndisponible, TransiterArret,
     AbandonnerArret
<1>4. CASE Remettre
  BY <1>4 DEF Remettre, ValiderRemise
<1>5. CASE Annuler
  BY <1>5 DEF Annuler, LireAnnulation, CompterCollectes, AnnulerCommande, AbandonnerAnnulation
<1>6. CASE Echouer
  BY <1>6 DEF Echouer, ReunirPreuves, LireEchec, EnregistrerIssue, AbandonnerEchec
<1>7. CASE UNCHANGED vars
  BY <1>7 DEF vars
<1> QED
  BY <1>1, <1>2, <1>3, <1>4, <1>5, <1>6, <1>7 DEF Next

\* The stops as a step other than a commit leaves them.
LEMMA ArretsAuRepos ==
  ASSUME TypeOK, [Next]_vars, \A a \in Arrets : ~ValiderArret(a), NEW b \in Arrets
  PROVE  /\ statut' = statut
         /\ \/ travail'[b] = travail[b]
            \/ travail'[b] = SansTravail
            \/ \E cible : travail'[b] = Planifier(b, cible) /\ livraison' = livraison
<1> USE DEF collecte, course
<1>1. CASE Collecter
  <2>1. ASSUME NEW a \in Arrets, NEW cible,
               travail' = [travail EXCEPT ![a] = Planifier(a, cible)], livraison' = livraison
        PROVE  \/ travail'[b] = travail[b]
               \/ \E x : travail'[b] = Planifier(b, x) /\ livraison' = livraison
    BY <2>1 DEF TypeOK
  <2>2. ASSUME NEW a \in Arrets, AbandonnerArret(a)
        PROVE  travail'[b] = travail[b] \/ travail'[b] = SansTravail
    BY <2>2 DEF AbandonnerArret, TypeOK
  <2>3. statut' = statut
    BY <1>1 DEF Collecter, PresenterScan, MarquerArretCollecte, AbandonnerScan,
     MarquerArretEnRoute, MarquerArretArrive, MarquerArretIndisponible, TransiterArret,
     AbandonnerArret
  <2>4. \/ travail' = travail
        \/ \E a \in Arrets : AbandonnerArret(a)
        \/ \E a \in Arrets, cible \in StatutsArret :
             travail' = [travail EXCEPT ![a] = Planifier(a, cible)] /\ livraison' = livraison
    BY <1>1 DEF Collecter, PresenterScan, MarquerArretCollecte, AbandonnerScan,
     MarquerArretEnRoute, MarquerArretArrive, MarquerArretIndisponible, TransiterArret,
     Arrets, StatutsArret
  <2> QED
    BY <2>1, <2>2, <2>3, <2>4
<1>2. CASE Dispatch \/ Prepaiement
  BY <1>2 DEF Dispatch, AssignerCoursier, LireContexteDispatch, MettreEnAttenteCoursier,
     ExigerPrepaiement, FinirPassage, RetirerCoursier, Prepaiement, DemanderSession,
     MarquerPaiementEnAttente, ConclureSession, ConfirmerPrepaiement
<1>3. CASE Remettre \/ Annuler
  BY <1>3 DEF Remettre, ValiderRemise, Annuler, LireAnnulation, CompterCollectes,
     AnnulerCommande, AbandonnerAnnulation
<1>4. CASE Echouer
  BY <1>4 DEF Echouer, ReunirPreuves, LireEchec, EnregistrerIssue, AbandonnerEchec
<1>5. CASE UNCHANGED vars
  BY <1>5 DEF vars
<1> QED
  BY <1>1, <1>2, <1>3, <1>4, <1>5 DEF Next

LEMMA StepSeulArret ==
  ASSUME IInv, SeulArretDecide, [Next]_vars, \A a, b \in Collectes : a = b
  PROVE  SeulArretDecide'
<1> SUFFICES ASSUME NEW v \in Collectes
             PROVE  /\ Resolu(v)' => livraison' \notin {"assignee", "en_collecte"}
                    /\ travail'[v].cible \in EstResolu =>
                         \/ travail'[v].basculer
                         \/ livraison' \notin {"assignee", "en_collecte"}
  BY DEF SeulArretDecide
<1>0. v \in Arrets /\ TypeOK
  BY DEF Arrets, IInv
<1>1. CASE \A a \in Arrets : ~ValiderArret(a)
  <2>1. livraison' \in {"assignee", "en_collecte"} => livraison' = livraison
    BY <1>0, <1>1, LivraisonAvance
  <2>2. ASSUME NEW cible, travail'[v] = Planifier(v, cible), travail'[v].cible \in EstResolu,
               livraison' = livraison
        PROVE  travail'[v].basculer \/ livraison' \notin {"assignee", "en_collecte"}
    BY <2>2 DEF Planifier, TousResolusAvec
  <2>3. SansTravail.cible \notin EstResolu
    BY DEF SansTravail, EstResolu
  <2> QED
    BY <1>0, <1>1, <2>1, <2>2, <2>3, ArretsAuRepos DEF SeulArretDecide, Resolu
<1>2. ASSUME NEW a \in Arrets, ValiderArret(a)
      PROVE  /\ Resolu(v)' => livraison' \notin {"assignee", "en_collecte"}
             /\ travail'[v].cible \in EstResolu =>
                  travail'[v].basculer \/ livraison' \notin {"assignee", "en_collecte"}
  <2>1. statut \in [Arrets -> StatutsArret] /\ travail \in [Arrets -> Travaux]
    BY <1>0 DEF TypeOK
  <2>2. /\ statut'[a] = travail[a].cible /\ travail'[a] = SansTravail
        /\ v # a => statut'[v] = statut[v] /\ travail'[v] = travail[v]
    BY <1>0, <1>2, <2>1 DEF ValiderArret
  <2>3. \/ livraison' = livraison
        \/ livraison = "assignee" /\ livraison' = "en_collecte" /\ ~travail[a].basculer
        \/ livraison' = "en_livraison"
    BY <1>2, CoursierLivraison DEF ValiderArret
  <2>4. travail[a].basculer => livraison' = "en_livraison"
    BY <1>2 DEF ValiderArret
  <2>5. CASE v = a
    <3>1. SansTravail.cible \notin EstResolu
      BY DEF SansTravail, EstResolu
    <3> QED
      BY <2>2, <2>3, <2>4, <2>5, <3>1 DEF SeulArretDecide, Resolu
  <2>6. CASE v # a
    BY <2>2, <2>3, <2>6 DEF SeulArretDecide, Resolu
  <2> QED
    BY <2>5, <2>6
<1> QED
  BY <1>1, <1>2

\* The order of one vendor is never left in collection with nothing to collect
\* (gating_livraison): the transaction that resolves the stop sends it off.
THEOREM CollecteConclue ==
  ASSUME \A a, b \in Collectes : a = b
  PROVE  Spec => []CollecteJamaisOubliee
<1>1. Init => SeulArretDecide
  BY DEF Init, SeulArretDecide, Resolu, EstResolu, SansTravail, Arrets
<1>2. IInv /\ SeulArretDecide /\ [Next]_vars => SeulArretDecide'
  BY StepSeulArret
<1>3. SeulArretDecide => CollecteJamaisOubliee
  BY CollectesAssumption DEF SeulArretDecide, CollecteJamaisOubliee
<1> QED
  BY <1>1, <1>2, <1>3, Invariance, PTL DEF Spec

=============================================================================
