--------------------------- MODULE PaiementProofs ---------------------------
(***************************************************************************)
(* Proofs about module Paiement, for any number of openings, of bodies the *)
(* provider sends and of crashes: money settled stays in sight, and the    *)
(* requests, notifications, sweep and crashes implement EncaissementIdeal. *)
(***************************************************************************)
EXTENDS Paiement, TLAPS

\* A payment that is asked for: only then do sessions exist, each inserted by
\* the request that names it.
SessionsFondees ==
  /\ etat = "en_attente_paiement" => mode = "mobile_money"
  /\ mode = "cash" => \A s \in Sessions : requete[s] \in {"repos", "refusee"}
  /\ \A s \in Sessions : Existe(s) => requete[s] = "rendue"

\* Who confirms holds a settled session, and a refund ends the order.
ConfirmationsFondees ==
  /\ \A s \in aConfirmer : session[s] = "reglee"
  /\ \A s \in Sessions : ALEtape(s, "a_confirmer") => session[s] = "reglee"
  /\ paiement = "rembourse" => etat = "annulee"

\* What a cancellation has read of the payment still holds, or is known overtaken.
Fidele(lu) ==
  /\ lu = "sans_remboursement" => paiement # "regle"
  /\ lu \in {"a_rembourser", "depassee"} => paiement \in {"regle", "rembourse"}

LecturesFideles ==
  /\ Fidele(annulation) /\ Fidele(balayage.etape)
  /\ remboursement = "omis" => etat = "annulee" /\ paiement = "regle"

IInv == TypeOK /\ EncaissementVisible /\ SessionsFondees /\ ConfirmationsFondees /\ LecturesFideles

USE DEF ModesPaiement, EtatsPaiement, EtatsTransaction, PhasesRequete, TypesDossier,
        EtapesBalayage, Lectures

\* What the trunk's table lets each writer of this module do.
LEMMA Tronc ==
  /\ Confirmable <=> etat = "en_attente_paiement"
  /\ VerifierTransition(TableTronc, etat, "annulee", "systeme") <=> etat = "en_attente_paiement"
  /\ VerifierTransition(TableTronc, etat, "en_attente_paiement", "systeme") <=> etat = "nouvelle"
  /\ VerifierTransition(TableTronc, etat, "en_cours", "systeme")
       <=> etat \in {"nouvelle", "en_attente_coursier"}
  /\ \A par \in {"client", "admin"} :
       VerifierTransition(TableTronc, etat, "annulee", par) => etat # "annulee"
BY DEF Confirmable, VerifierTransition, TableTronc, AbandonsTronc

LEMMA PassagesTypes ==
  ASSUME NEW s \in Sessions, NEW e \in EtapesBalayage
  PROVE  /\ [session |-> s, etape |-> e] \in Passages
         /\ \A t, f : [session |-> s, etape |-> e] = [session |-> t, etape |-> f] <=> s = t /\ e = f
         /\ \A t, f : f \in EtapesBalayage => Repos # [session |-> t, etape |-> f]
<1>1. [session |-> s, etape |-> e] \in Passages
  BY DEF Passages
<1>2. ASSUME NEW t, NEW f
      PROVE  [session |-> s, etape |-> e] = [session |-> t, etape |-> f] <=> s = t /\ e = f
  <2>1. [session |-> s, etape |-> e].session = s /\ [session |-> s, etape |-> e].etape = e
    OBVIOUS
  <2>2. [session |-> t, etape |-> f].session = t /\ [session |-> t, etape |-> f].etape = f
    OBVIOUS
  <2> QED
    BY <2>1, <2>2
<1>3. ASSUME NEW t, NEW f \in EtapesBalayage
      PROVE  Repos # [session |-> t, etape |-> f]
  <2>1. Repos.etape = "repos" /\ [session |-> t, etape |-> f].etape = f
    BY DEF Repos
  <2> QED
    BY <2>1
<1> QED
  BY <1>1, <1>2, <1>3

\* A confirmation overtakes what the sweep has read, and leaves the rest of it.
LEMMA BalayageDepasse ==
  ASSUME TypeOK, Passer(balayage.session, Depassee(balayage.etape))
  PROVE  /\ balayage' \in Passages \cup {Repos}
         /\ balayage'.etape = Depassee(balayage.etape)
         /\ \A t \in Sessions : ALEtape(t, "a_confirmer")' <=> ALEtape(t, "a_confirmer")
<1> DEFINE apres == Depassee(balayage.etape)
<1>1. balayage' = [session |-> balayage.session, etape |-> apres]
  BY DEF Passer
<1>2. balayage'.etape = apres
  BY <1>1
<1>3. CASE balayage = Repos
  <2>1. apres = "repos" /\ balayage.session = 0
    BY <1>3 DEF Depassee, Repos
  <2>2. balayage' = Repos
    BY <1>1, <2>1 DEF Repos
  <2> QED
    BY <1>2, <1>3, <2>2 DEF ALEtape
<1>4. CASE balayage \in Passages
  <2>1. balayage = [session |-> balayage.session, etape |-> balayage.etape]
        /\ balayage.session \in Sessions /\ balayage.etape \in EtapesBalayage
    BY <1>4 DEF Passages
  <2>2. apres \in EtapesBalayage /\ (apres = "a_confirmer" <=> balayage.etape = "a_confirmer")
    BY <2>1 DEF Depassee
  <2> HIDE DEF apres
  <2>3. balayage' \in Passages
    BY <1>1, <2>1, <2>2 DEF Passages
  <2>4. \A t \in Sessions :
          ALEtape(t, "a_confirmer") <=> balayage.session = t /\ balayage.etape = "a_confirmer"
    BY <2>1, PassagesTypes DEF ALEtape
  <2>5. \A t \in Sessions :
          ALEtape(t, "a_confirmer")' <=> balayage.session = t /\ apres = "a_confirmer"
    BY <1>1, <2>1, <2>2, PassagesTypes DEF ALEtape
  <2>6. \A t \in Sessions : ALEtape(t, "a_confirmer")' <=> ALEtape(t, "a_confirmer")
    BY <2>2, <2>4, <2>5
  <2>7. balayage'.etape = Depassee(balayage.etape)
    BY <1>2 DEF apres
  <2> QED
    BY <2>3, <2>6, <2>7
<1> QED
  BY <1>3, <1>4 DEF TypeOK

-----------------------------------------------------------------------------
\* Types.
LEMMA InitTypeOK == Init => TypeOK
BY NbSessionsAssumption, ArretsMaxAssumption DEF Init, TypeOK

LEMMA OuvrirTypeOK ==
  ASSUME TypeOK, NEW s \in Sessions, Ouvrir(s)
  PROVE  TypeOK'
<1> USE DEF TypeOK, Avancer, commande, table, dehors
<1>1. CASE LireCommande(s)
  BY <1>1 DEF LireCommande
<1>2. CASE LireSessions(s)
  BY <1>2 DEF LireSessions
<1>3. CASE MarquerPaiementEnAttente(s)
  BY <1>3 DEF MarquerPaiementEnAttente
<1>4. CASE CheckoutRefuse(s)
  BY <1>4 DEF CheckoutRefuse
<1>5. CASE InsererSession(s)
  BY <1>5 DEF InsererSession
<1> QED
  BY <1>1, <1>2, <1>3, <1>4, <1>5 DEF Ouvrir

LEMMA NotifierTypeOK ==
  ASSUME TypeOK, NEW n \in Notifications, Notifier(n)
  PROVE  TypeOK'
<1>1. n.session \in Sessions
  BY DEF Notifications
<1> USE DEF TypeOK, EnregistrerNotification, Devenir, HorsDelai, commande, dehors, memoire
<1>2. CASE NotifierDivergence(n)
  BY <1>1, <1>2 DEF NotifierDivergence
<1>3. CASE NotifierEchec(n)
  BY <1>1, <1>3 DEF NotifierEchec
<1>4. CASE NotifierSucces(n)
  <2> USE DEF NotifierSucces
  <2>1. /\ recues' \subseteq Notifications
        /\ session' \in [Sessions -> EtatsTransaction \cup {"absente"}]
        /\ dossiers' \subseteq TypesDossier \X Sessions
        /\ aConfirmer' \subseteq Sessions
    BY <1>1, <1>4
  <2> QED
    BY <2>1, <1>4
<1> QED
  BY <1>2, <1>3, <1>4 DEF Notifier

LEMMA BalayerTypeOK ==
  ASSUME TypeOK, NEW s \in Sessions, Balayer(s) \/ ConfirmerLaCommande(s)
  PROVE  TypeOK'
<1> USE DEF TypeOK, Devenir, AppliquerConfirmation, commande, table, dehors, Passer, Relacher
<1>0. \A e \in EtapesBalayage : [session |-> s, etape |-> e] \in Passages
  BY PassagesTypes
<1>9. CASE LirePourExpiration(s)
  BY <1>0, <1>9 DEF LirePourExpiration, Lecture
<1>1. CASE ChoisirSession(s)
  BY <1>0, <1>1 DEF ChoisirSession
<1>2. CASE ConsulterFournisseur(s)
  BY <1>0, <1>2 DEF ConsulterFournisseur
<1>3. CASE FournisseurInjoignable(s)
  BY <1>3 DEF FournisseurInjoignable
<1>4. CASE Rattraper(s)
  BY <1>0, <1>4 DEF Rattraper
<1>5. CASE ConfirmerRattrapage(s)
  BY <1>5 DEF ConfirmerRattrapage, Depassee
<1>6. CASE Expirer(s)
  BY <1>0, <1>6 DEF Expirer
<1>7. CASE AnnulerPourExpiration(s)
  BY <1>7 DEF AnnulerPourExpiration, ConclureAnnulation, AppliquerAnnulation
<1>8. CASE ConfirmerLaCommande(s)
  <2>1. balayage' \in Passages \cup {Repos}
    BY <1>8, BalayageDepasse DEF ConfirmerLaCommande
  <2>2. annulation' \in Lectures \cup {"aucune"}
    BY <1>8 DEF ConfirmerLaCommande, Depassee
  <2> QED
    BY <1>8, <2>1, <2>2 DEF ConfirmerLaCommande
<1> QED
  BY <1>1, <1>2, <1>3, <1>4, <1>5, <1>6, <1>7, <1>8, <1>9 DEF Balayer

LEMMA EntourerTypeOK ==
  ASSUME TypeOK,
         \/ \E s \in Sessions : Payer(s) \/ FranchirEcheance(s)
         \/ ConsommerAnnulation \/ Entourer
  PROVE  TypeOK'
<1> USE DEF TypeOK, commande, table, dehors, memoire
<1>1. CASE \E s \in Sessions : Payer(s) \/ FranchirEcheance(s)
  BY <1>1 DEF Payer, FranchirEcheance
<1>2. CASE ConsommerAnnulation
  BY <1>2 DEF ConsommerAnnulation
<1>3. CASE ExigerPrepaiement \/ AssignerCoursier
  BY <1>3 DEF ExigerPrepaiement, AssignerCoursier
<1>4. CASE \E par \in {"client", "admin"} : AnnulerCommande(par)
  BY <1>4 DEF AnnulerCommande, ConclureAnnulation, AppliquerAnnulation
<1>5. CASE Arreter
  BY <1>5, ArretsMaxAssumption DEF Arreter, Relacher
<1>6. CASE LirePourAnnulation
  BY <1>6 DEF LirePourAnnulation, Lecture
<1> QED
  BY <1>1, <1>2, <1>3, <1>4, <1>5, <1>6 DEF Entourer

LEMMA NextTypeOK == TypeOK /\ [Next]_vars => TypeOK'
<1> SUFFICES ASSUME TypeOK, [Next]_vars PROVE TypeOK'
  OBVIOUS
<1>1. CASE Next
  BY <1>1, OuvrirTypeOK, NotifierTypeOK, BalayerTypeOK, EntourerTypeOK DEF Next
<1>2. CASE UNCHANGED vars
  BY <1>2 DEF vars, commande, table, memoire, dehors, TypeOK
<1> QED
  BY <1>1, <1>2

\* Every variable of Paiement keeps its type.
THEOREM TypesCorrects == Spec => []TypeOK
<1> QED
  BY InitTypeOK, NextTypeOK, PTL DEF Spec

-----------------------------------------------------------------------------
\* The inductive invariant.
LEMMA InitIInv == Init => IInv
<1> SUFFICES ASSUME Init PROVE IInv
  OBVIOUS
<1>1. \A s \in Sessions : ~ALEtape(s, "a_confirmer")
  BY PassagesTypes DEF Init, ALEtape
<1> QED
  BY <1>1, InitTypeOK DEF Init, IInv, EncaissementVisible, SessionsFondees,
     ConfirmationsFondees, LecturesFideles, Fidele, Repos, EnConfirmation, Existe

\* An opening writes its own session, and says at most that a payment is under way.
LEMMA OuvrirIInv ==
  ASSUME IInv, NEW a \in Sessions, Ouvrir(a)
  PROVE  IInv'
<1> USE DEF IInv, Avancer, commande, table, dehors
<1>0. TypeOK'
  BY OuvrirTypeOK
<1>1. /\ UNCHANGED <<mode, etat, remboursement, aConfirmer, annulation, balayage>>
      /\ paiement' = paiement \/ (paiement = "du" /\ paiement' = "en_attente")
  BY DEF Ouvrir, LireCommande, LireSessions, MarquerPaiementEnAttente, CheckoutRefuse, InsererSession
<1>2. /\ \A s \in Sessions : s # a => requete'[s] = requete[s] /\ session'[s] = session[s]
      /\ requete[a] # "rendue"
      /\ session'[a] = session[a] \/ (session'[a] = "ouverte" /\ requete'[a] = "rendue")
      /\ mode = "cash" => requete'[a] = "refusee"
  BY DEF Ouvrir, LireCommande, LireSessions, MarquerPaiementEnAttente, CheckoutRefuse, InsererSession,
     TypeOK, SessionsFondees, AttendUnPaiement
<1>3. session[a] = "absente"
  BY <1>2 DEF SessionsFondees, Existe
<1>4. \A s \in Sessions : session'[s] = "reglee" <=> session[s] = "reglee"
  BY <1>2, <1>3
<1>5. EncaissementVisible'
  BY <1>1, <1>4 DEF EncaissementVisible, EnConfirmation, ALEtape
<1>6. SessionsFondees'
  BY <1>1, <1>2, <1>3 DEF SessionsFondees, Existe
<1>7. ConfirmationsFondees'
  BY <1>1, <1>4 DEF ConfirmationsFondees, ALEtape, TypeOK
<1>8. LecturesFideles'
  BY <1>1 DEF LecturesFideles, Fidele
<1> QED
  BY <1>0, <1>5, <1>6, <1>7, <1>8

\* A settled session is never written again; one that becomes settled is being
\* confirmed.
LEMMA NotifierIInv ==
  ASSUME IInv, NEW n \in Notifications, Notifier(n)
  PROVE  IInv'
<1> USE DEF IInv, commande, dehors, memoire
<1>0. TypeOK'
  BY NotifierTypeOK
<1>1. n.session \in Sessions
  BY DEF Notifications
<1>2. UNCHANGED <<commande, requete, annulation, balayage>>
  BY DEF Notifier, NotifierDivergence, NotifierEchec, NotifierSucces
<1>3. /\ \A s \in Sessions : Existe(s)' => Existe(s)
      /\ \A s \in Sessions : session[s] = "reglee" => session'[s] = "reglee"
      /\ \A s \in Sessions : session'[s] = "reglee" => session[s] = "reglee" \/ s \in aConfirmer'
      /\ \A s \in aConfirmer : s \in aConfirmer'
      /\ \A s \in aConfirmer' : s \in aConfirmer \/ session'[s] = "reglee"
  <2> USE DEF EnregistrerNotification, Devenir, HorsDelai, TypeOK, Existe, TransitionPermise,
          TransitionExiste, Transitions
  <2>1. CASE NotifierDivergence(n)
    BY <1>1, <2>1 DEF NotifierDivergence
  <2>2. CASE NotifierEchec(n)
    BY <1>1, <2>2 DEF NotifierEchec
  <2>3. CASE NotifierSucces(n)
    BY <1>1, <2>3 DEF NotifierSucces
  <2> QED
    BY <2>1, <2>2, <2>3 DEF Notifier
<1>4. EncaissementVisible'
  BY <1>2, <1>3 DEF EncaissementVisible, EnConfirmation, ALEtape
<1>5. SessionsFondees'
  BY <1>2, <1>3 DEF SessionsFondees
<1>6. ConfirmationsFondees'
  BY <1>2, <1>3 DEF ConfirmationsFondees, ALEtape, TypeOK
<1>7. LecturesFideles'
  BY <1>2 DEF LecturesFideles, Fidele
<1> QED
  BY <1>0, <1>4, <1>5, <1>6, <1>7

\* An order that has left its wait is either in cash, without a session, or paid.
LEMMA SortieDAttente ==
  ASSUME IInv, etat # "en_attente_paiement", NEW s \in Sessions, session[s] = "reglee"
  PROVE  paiement \in {"regle", "rembourse"} \/ etat = "annulee"
BY DEF IInv, EncaissementVisible, SessionsFondees, Existe, TypeOK

LEMMA ConfirmerIInv ==
  ASSUME IInv, NEW s \in Sessions, ConfirmerLaCommande(s) \/ ConfirmerRattrapage(s)
  PROVE  IInv'
<1> USE DEF IInv, commande, table, dehors
<1>0. TypeOK'
  BY BalayerTypeOK DEF Balayer
<1>1. /\ UNCHANGED <<mode, session, requete, remboursement>>
      /\ \/ etat = "en_attente_paiement" /\ etat' = "nouvelle" /\ paiement' = "regle"
         \/ etat # "en_attente_paiement" /\ UNCHANGED <<etat, paiement>>
  BY Tronc DEF ConfirmerLaCommande, ConfirmerRattrapage, AppliquerConfirmation
<1>2. /\ aConfirmer' \subseteq aConfirmer
      /\ \A t \in Sessions : ALEtape(t, "a_confirmer")' => ALEtape(t, "a_confirmer")
      /\ annulation' = Depassee(annulation)
      /\ balayage'.etape \in {Depassee(balayage.etape), "repos"}
  <2>1. CASE ConfirmerLaCommande(s)
    BY <2>1, BalayageDepasse DEF ConfirmerLaCommande
  <2>2. CASE ConfirmerRattrapage(s)
    BY <2>2, PassagesTypes DEF ConfirmerRattrapage, Relacher, Repos, ALEtape
  <2> QED
    BY <2>1, <2>2
<1>3. EncaissementVisible'
  BY <1>1, SortieDAttente DEF EncaissementVisible, ConfirmationsFondees, LecturesFideles
<1>4. SessionsFondees'
  BY <1>1 DEF SessionsFondees, Existe
<1>5. ConfirmationsFondees'
  BY <1>1, <1>2 DEF ConfirmationsFondees
<1>6. \A lu \in {annulation, balayage.etape} :
        /\ Depassee(lu) = "sans_remboursement" => paiement' # "regle"
        /\ Depassee(lu) \in {"a_rembourser", "depassee"} => paiement' \in {"regle", "rembourse"}
  BY <1>1, Tronc DEF LecturesFideles, Fidele, Depassee
<1>8. Fidele(annulation)' /\ Fidele(balayage.etape)'
  BY <1>2, <1>6 DEF Fidele
<1>9. LecturesFideles'
  BY <1>1, <1>8 DEF LecturesFideles
<1> QED
  BY <1>0, <1>3, <1>4, <1>5, <1>9

\* The sweep settles or closes the session it is at, and confirms what it settles.
LEMMA PasserIInv ==
  ASSUME IInv, NEW s \in Sessions,
         \/ ChoisirSession(s) \/ ConsulterFournisseur(s) \/ FournisseurInjoignable(s)
         \/ Rattraper(s) \/ Expirer(s)
  PROVE  IInv'
<1> USE DEF IInv, commande, table, dehors
<1>0. TypeOK'
  BY BalayerTypeOK DEF Balayer
<1>1. UNCHANGED <<commande, requete, aConfirmer, annulation>>
  BY DEF ChoisirSession, ConsulterFournisseur, FournisseurInjoignable, Rattraper, Expirer
<1>2. \A t \in Sessions : ~ALEtape(t, "a_confirmer")
  <2>1. balayage = Repos \/ \E e \in {"a_consulter", "payee", "impayee"} : ALEtape(s, e)
    BY DEF ChoisirSession, ConsulterFournisseur, FournisseurInjoignable, Rattraper, Expirer
  <2>2. CASE balayage = Repos
    BY <2>2, PassagesTypes DEF ALEtape
  <2>3. CASE \E e \in {"a_consulter", "payee", "impayee"} : ALEtape(s, e)
    <3>1. PICK e \in {"a_consulter", "payee", "impayee"} : ALEtape(s, e)
      BY <2>3
    <3>2. e \in EtapesBalayage /\ e # "a_confirmer"
      BY <3>1
    <3> QED
      BY <3>1, <3>2, PassagesTypes DEF ALEtape
  <2> QED
    BY <2>1, <2>2, <2>3
<1>3. /\ \A t \in Sessions : Existe(t)' => Existe(t)
      /\ \A t \in Sessions : session[t] = "reglee" => session'[t] = "reglee"
      /\ \A t \in Sessions :
           session'[t] = "reglee" => session[t] = "reglee" \/ ALEtape(t, "a_confirmer")'
      /\ \A t \in Sessions : ALEtape(t, "a_confirmer")' => session'[t] = "reglee"
  <2> USE DEF Devenir, TypeOK, Existe, TransitionPermise, TransitionExiste, Transitions, Passer
  <2>0. ASSUME NEW e \in EtapesBalayage, Passer(s, e)
        PROVE  \A t \in Sessions : ALEtape(t, "a_confirmer")' <=> t = s /\ e = "a_confirmer"
    BY <2>0, PassagesTypes DEF ALEtape
  <2>00. ASSUME Relacher PROVE \A t \in Sessions : ~ALEtape(t, "a_confirmer")'
    BY <2>00, PassagesTypes DEF ALEtape, Relacher
  <2>1. CASE ChoisirSession(s) \/ ConsulterFournisseur(s) \/ FournisseurInjoignable(s)
    BY <2>1, <2>0, <2>00, <1>2 DEF ChoisirSession, ConsulterFournisseur, FournisseurInjoignable
  <2>2. CASE Rattraper(s)
    <3>1. CASE TransitionPermise(session[s], "reglee")
      <4>1. session' = [session EXCEPT ![s] = "reglee"] /\ Passer(s, "a_confirmer")
        BY <2>2, <3>1 DEF Rattraper
      <4> QED
        BY <4>1, <2>0, <3>1
    <3>2. CASE ~TransitionPermise(session[s], "reglee")
      BY <2>2, <3>2, <2>00 DEF Rattraper
    <3> QED
      BY <3>1, <3>2
  <2>3. CASE Expirer(s)
    <3>1. CASE TransitionPermise(session[s], "expiree")
      <4>1. session' = [session EXCEPT ![s] = "expiree"] /\ Passer(s, "a_annuler")
        BY <2>3, <3>1 DEF Expirer
      <4> QED
        BY <4>1, <2>0, <3>1
    <3>2. CASE ~TransitionPermise(session[s], "expiree")
      BY <2>3, <3>2, <2>00 DEF Expirer
    <3> QED
      BY <3>1, <3>2
  <2> QED
    BY <2>1, <2>2, <2>3
<1>4. EncaissementVisible'
  BY <1>1, <1>2, <1>3 DEF EncaissementVisible, EnConfirmation
<1>5. SessionsFondees'
  BY <1>1, <1>3 DEF SessionsFondees
<1>6. ConfirmationsFondees'
  BY <1>1, <1>3 DEF ConfirmationsFondees, TypeOK
<1>7. balayage'.etape \notin Lectures
  BY DEF ChoisirSession, ConsulterFournisseur, FournisseurInjoignable, Rattraper, Expirer,
     Passer, Relacher, Repos
<1>8. LecturesFideles'
  BY <1>1, <1>7 DEF LecturesFideles, Fidele
<1> QED
  BY <1>0, <1>4, <1>5, <1>6, <1>8

\* A read of the payment is faithful when it is made.
LEMMA LireIInv ==
  ASSUME IInv, LirePourAnnulation \/ \E s \in Sessions : LirePourExpiration(s)
  PROVE  IInv'
<1> USE DEF IInv, commande, table, dehors
<1>0. TypeOK'
  BY BalayerTypeOK, EntourerTypeOK DEF Balayer, Entourer
<1>1. UNCHANGED <<commande, session, requete, aConfirmer>>
  BY DEF LirePourAnnulation, LirePourExpiration
<1>2. /\ Lecture \in Lectures
      /\ annulation' \in {annulation, Lecture}
      /\ balayage'.etape \in {balayage.etape, Lecture}
  BY DEF LirePourAnnulation, LirePourExpiration, Lecture, Passer
<1>3. ASSUME NEW t \in Sessions PROVE ALEtape(t, "a_confirmer")' <=> ALEtape(t, "a_confirmer")
  <2>1. CASE LirePourAnnulation
    BY <2>1 DEF LirePourAnnulation, ALEtape
  <2>2. CASE \E s \in Sessions : LirePourExpiration(s)
    <3>1. PICK s \in Sessions : LirePourExpiration(s)
      BY <2>2
    <3>2. ~ALEtape(t, "a_confirmer")
      BY <3>1, PassagesTypes DEF LirePourExpiration, ALEtape
    <3>3. balayage' = [session |-> s, etape |-> Lecture]
      BY <3>1 DEF LirePourExpiration, Passer
    <3>4. Lecture \in EtapesBalayage /\ Lecture # "a_confirmer"
      BY DEF Lecture
    <3>5. ~ALEtape(t, "a_confirmer")'
      BY <3>3, <3>4, PassagesTypes DEF ALEtape
    <3> QED
      BY <3>2, <3>5
  <2> QED
    BY <2>1, <2>2
<1>4. EncaissementVisible'
  BY <1>1, <1>3 DEF EncaissementVisible, EnConfirmation
<1>5. SessionsFondees'
  BY <1>1 DEF SessionsFondees, Existe
<1>6. ConfirmationsFondees'
  BY <1>1, <1>3 DEF ConfirmationsFondees
<1>7. Fidele(Lecture)
  BY DEF Fidele, Lecture
<1>8. LecturesFideles'
  BY <1>1, <1>2, <1>7 DEF LecturesFideles, Fidele, commande
<1> QED
  BY <1>0, <1>4, <1>5, <1>6, <1>8

LEMMA AnnulerIInv ==
  ASSUME IInv,
         \/ \E s \in Sessions : AnnulerPourExpiration(s)
         \/ \E par \in {"client", "admin"} : AnnulerCommande(par)
  PROVE  IInv'
<1> USE DEF IInv, commande, table, dehors, memoire
<1>0. TypeOK'
  BY BalayerTypeOK, EntourerTypeOK DEF Balayer, Entourer
<1>1. /\ UNCHANGED <<mode, session, requete, aConfirmer>>
      /\ \/ etat # "annulee" /\ \E lu \in Lectures : Fidele(lu) /\ AppliquerAnnulation(lu)
         \/ UNCHANGED <<etat, paiement, remboursement>>
      /\ annulation' \in {annulation, "aucune"}
      /\ balayage'.etape \in {balayage.etape, "repos"}
  <2>1. CASE \E s \in Sessions : AnnulerPourExpiration(s)
    <3>1. PICK s \in Sessions, lu \in Lectures :
            AnnulerPourExpiration(s) /\ ALEtape(s, lu) /\ ConclureAnnulation(lu, "systeme")
      BY <2>1 DEF AnnulerPourExpiration
    <3>2. balayage.etape = lu
      BY <3>1 DEF ALEtape
    <3>3. Fidele(lu)
      BY <3>2 DEF LecturesFideles
    <3> QED
      BY <3>1, <3>3, Tronc DEF AnnulerPourExpiration, ConclureAnnulation, Relacher, Repos
  <2>2. CASE \E par \in {"client", "admin"} : AnnulerCommande(par)
    <3>1. PICK par \in {"client", "admin"} : AnnulerCommande(par)
      BY <2>2
    <3>2. annulation \in Lectures /\ Fidele(annulation)
      BY <3>1 DEF AnnulerCommande, LecturesFideles, TypeOK
    <3> QED
      BY <3>1, <3>2, Tronc DEF AnnulerCommande, ConclureAnnulation
  <2> QED
    BY <2>1, <2>2
<1>2. \A t \in Sessions : ALEtape(t, "a_confirmer")' => ALEtape(t, "a_confirmer")
  <2>1. CASE balayage' = balayage
    BY <2>1 DEF ALEtape
  <2>2. CASE balayage' = Repos
    <3>1. \A t \in Sessions : Repos # [session |-> t, etape |-> "a_confirmer"]
      BY DEF Repos
    <3> QED
      BY <2>2, <3>1 DEF ALEtape
  <2> QED
    BY <2>1, <2>2 DEF AnnulerPourExpiration, AnnulerCommande, Relacher
<1>3. \A t \in Sessions : ALEtape(t, "a_confirmer") => ALEtape(t, "a_confirmer")'
  <2>1. ASSUME NEW s \in Sessions, AnnulerPourExpiration(s), NEW t \in Sessions
        PROVE  ~ALEtape(t, "a_confirmer")
    <3>1. PICK lu \in Lectures : ALEtape(s, lu)
      BY <2>1 DEF AnnulerPourExpiration
    <3> QED
      BY <3>1, PassagesTypes DEF ALEtape
  <2>2. ASSUME NEW par \in {"client", "admin"}, AnnulerCommande(par)
        PROVE  balayage' = balayage
    BY <2>2 DEF AnnulerCommande
  <2> QED
    BY <2>1, <2>2 DEF ALEtape
<1>4. EncaissementVisible'
  BY <1>1, <1>3 DEF EncaissementVisible, EnConfirmation, AppliquerAnnulation, ConfirmationsFondees,
     Fidele, LecturesFideles, TypeOK
<1>5. SessionsFondees'
  BY <1>1 DEF SessionsFondees, Existe, AppliquerAnnulation
<1>6. ConfirmationsFondees'
  BY <1>1, <1>2 DEF ConfirmationsFondees, AppliquerAnnulation
<1>7. LecturesFideles'
  BY <1>1 DEF LecturesFideles, Fidele, AppliquerAnnulation, ConfirmationsFondees, EncaissementVisible
<1> QED
  BY <1>0, <1>4, <1>5, <1>6, <1>7

LEMMA EntourerIInv ==
  ASSUME IInv,
         \/ \E s \in Sessions : Payer(s) \/ FranchirEcheance(s)
         \/ ConsommerAnnulation \/ ExigerPrepaiement \/ AssignerCoursier
  PROVE  IInv'
<1> USE DEF IInv, commande, table, dehors, memoire
<1>0. TypeOK'
  BY EntourerTypeOK DEF Entourer
<1>1. /\ UNCHANGED <<session, requete, aConfirmer, annulation, balayage, paiement>>
      /\ remboursement' = remboursement \/ (remboursement = "annonce" /\ remboursement' = "vu")
      /\ \/ UNCHANGED <<mode, etat>>
         \/ etat = "nouvelle" /\ etat' = "en_attente_paiement" /\ mode' = "mobile_money"
         \/ etat = "nouvelle" /\ etat' = "en_cours" /\ mode' = mode
  BY Tronc DEF TypeOK, Payer, FranchirEcheance, ConsommerAnnulation, ExigerPrepaiement, AssignerCoursier
<1>2. EncaissementVisible'
  BY <1>1, SortieDAttente DEF EncaissementVisible, EnConfirmation, ALEtape, ConfirmationsFondees
<1>3. SessionsFondees'
  BY <1>1 DEF SessionsFondees, Existe
<1>4. ConfirmationsFondees'
  BY <1>1 DEF ConfirmationsFondees, ALEtape
<1>5. LecturesFideles'
  BY <1>1 DEF LecturesFideles, Fidele
<1> QED
  BY <1>0, <1>2, <1>3, <1>4, <1>5

\* A crash forgets the confirmations to make: their orders still wait, or are over.
LEMMA ArreterIInv ==
  ASSUME IInv, Arreter
  PROVE  IInv'
<1> USE DEF IInv, commande, table, Arreter
<1>0. TypeOK'
  BY EntourerTypeOK DEF Entourer
<1>1. UNCHANGED <<mode, etat, paiement, remboursement, session>>
  OBVIOUS
<1>2. \A s \in Sessions : ~ALEtape(s, "a_confirmer")'
  BY PassagesTypes DEF ALEtape, Relacher
<1>3. EncaissementVisible'
  BY <1>1, SortieDAttente DEF EncaissementVisible
<1>4. SessionsFondees'
  BY <1>1 DEF SessionsFondees, Existe, TypeOK
<1>5. ConfirmationsFondees'
  BY <1>1, <1>2 DEF ConfirmationsFondees
<1>6. LecturesFideles'
  BY <1>1 DEF LecturesFideles, Fidele, Relacher, Repos
<1> QED
  BY <1>0, <1>3, <1>4, <1>5, <1>6

LEMMA NextIInv == IInv /\ [Next]_vars => IInv'
<1> SUFFICES ASSUME IInv, [Next]_vars PROVE IInv'
  OBVIOUS
<1>1. CASE Next
  BY <1>1, OuvrirIInv, NotifierIInv, ConfirmerIInv, PasserIInv, LireIInv, AnnulerIInv, EntourerIInv,
     ArreterIInv DEF Next, Balayer, Entourer
<1>2. CASE UNCHANGED vars
  BY <1>2 DEF vars, commande, table, memoire, dehors, IInv, TypeOK, EncaissementVisible, EnConfirmation,
     SessionsFondees, ConfirmationsFondees, LecturesFideles, Fidele, ALEtape, Existe
<1> QED
  BY <1>1, <1>2

LEMMA SpecIInv == Spec => []IInv
<1> QED
  BY InitIInv, NextIInv, PTL DEF Spec

\* Settled money stays in sight whatever crashes between the two commits, and
\* nothing leaves for the dispatch unpaid.
THEOREM ArgentVisible == Spec => []EncaissementVisible
<1>1. IInv => EncaissementVisible
  BY DEF IInv
<1> QED
  BY <1>1, SpecIInv, PTL

-----------------------------------------------------------------------------
\* The refinement: each step is one step of EncaissementIdeal, or none.

LEMMA SortDe ==
  ASSUME NEW s \in Sessions
  PROVE  /\ session[s] = "absente" => Sort(s) = "aucune"
         /\ session[s] \in {"ouverte", "echouee"} => Sort(s) = "payable"
         /\ session[s] = "reglee" => Sort(s) = "encaissee"
         /\ session[s] = "expiree" => Sort(s) = "close"
         /\ session[s] = "payee_hors_delai" => Sort(s) = "tardive"
         /\ session'[s] = "absente" => Sort(s)' = "aucune"
         /\ session'[s] \in {"ouverte", "echouee"} => Sort(s)' = "payable"
         /\ session'[s] = "reglee" => Sort(s)' = "encaissee"
         /\ session'[s] = "expiree" => Sort(s)' = "close"
         /\ session'[s] = "payee_hors_delai" => Sort(s)' = "tardive"
         /\ session'[s] = session[s] => Sort(s)' = Sort(s)
BY DEF Sort, AcceptePaiement

\* A step that moves no fate, no order and no late file is a stutter.
LEMMA Begaie ==
  ASSUME \A s \in Sessions : Sort(s)' = Sort(s),
         Ordre' = Ordre,
         \A s \in Sessions : <<"paiement_hors_delai", s>> \in dossiers'
                               <=> <<"paiement_hors_delai", s>> \in dossiers
  PROVE  UNCHANGED Ideal!vars
BY DEF Ideal!vars

\* The fate of one session changes.
LEMMA Change ==
  ASSUME NEW a \in Sessions, NEW de, NEW vers, Sort(a) = de, Sort(a)' = vers,
         \A s \in Sessions : s # a => Sort(s)' = Sort(s)
  PROVE  Ideal!Changer(a, de, vers)
BY DEF Ideal!Changer

LEMMA OrdreInchange ==
  UNCHANGED <<mode, etat>> => Ordre' = Ordre
BY DEF Ordre

LEMMA InitRaffine == Init => Ideal!Init
<1> SUFFICES ASSUME Init PROVE Ideal!Init
  OBVIOUS
<1>1. \A s \in Sessions : Sort(s) = "aucune"
  BY SortDe DEF Init
<1>2. Ordre \in {"libre", "attend"}
  BY DEF Init, Ordre
<1> QED
  BY <1>1, <1>2 DEF Init, Ideal!Init

\* Inserting a session opens it; the rest of an opening is not seen.
LEMMA OuvrirRaffine ==
  ASSUME IInv, NEW a \in Sessions, Ouvrir(a)
  PROVE  Ideal!Ouvrir(a) \/ UNCHANGED Ideal!vars
<1> USE DEF commande, table, dehors
<1>1. UNCHANGED <<mode, etat, dossiers>>
  BY DEF Ouvrir, LireCommande, LireSessions, MarquerPaiementEnAttente, CheckoutRefuse, InsererSession
<1>2. CASE UNCHANGED session
  BY <1>1, <1>2, SortDe, OrdreInchange, Begaie
<1>3. CASE ~UNCHANGED session
  <2>1. requete[a] = "marquee" /\ session' = [session EXCEPT ![a] = "ouverte"]
    BY <1>3 DEF Ouvrir, LireCommande, LireSessions, MarquerPaiementEnAttente, CheckoutRefuse,
       InsererSession, Avancer
  <2>2. session[a] = "absente" /\ session'[a] = "ouverte"
    BY <2>1 DEF IInv, TypeOK, SessionsFondees, Existe
  <2>3. \A s \in Sessions : s # a => session'[s] = session[s]
    BY <2>1 DEF IInv, TypeOK
  <2>4. Ideal!Changer(a, "aucune", "payable")
    BY <2>2, <2>3, SortDe, Change
  <2> QED
    BY <1>1, <2>4, OrdreInchange DEF Ideal!Ouvrir
<1> QED
  BY <1>2, <1>3

\* A session becomes settled, closed or late, or its fate does not change.
LEMMA DevenirRaffine ==
  ASSUME IInv, NEW a \in Sessions, NEW vers \in EtatsTransaction,
         Devenir(a, vers), TransitionPermise(session[a], vers), UNCHANGED <<mode, etat>>
  PROVE  /\ vers = "echouee" => \A s \in Sessions : Sort(s)' = Sort(s)
         /\ vers = "reglee" /\ UNCHANGED dossiers => Ideal!Encaisser(a)
         /\ vers = "expiree" /\ UNCHANGED dossiers => Ideal!Clore(a)
         /\ vers = "payee_hors_delai" /\ dossiers' = dossiers \cup {<<"paiement_hors_delai", a>>}
              => Ideal!RecevoirTard(a)
<1> USE DEF Devenir, TransitionPermise, TransitionExiste, Transitions
<1>1. session'[a] = vers /\ \A s \in Sessions : s # a => session'[s] = session[s]
  BY DEF IInv, TypeOK
<1>2. \A s \in Sessions : s # a => Sort(s)' = Sort(s)
  BY <1>1, SortDe
<1>3. ASSUME vers = "echouee" PROVE \A s \in Sessions : Sort(s)' = Sort(s)
  <2>1. Sort(a)' = Sort(a)
    BY <1>1, <1>3, SortDe
  <2> QED
    BY <1>2, <2>1
<1>4. ASSUME vers = "reglee" PROVE Ideal!Changer(a, "payable", "encaissee")
  <2>1. Sort(a) = "payable" /\ Sort(a)' = "encaissee"
    BY <1>1, <1>4, SortDe
  <2> QED
    BY <1>2, <2>1, Change
<1>5. ASSUME vers = "expiree" PROVE Ideal!Changer(a, "payable", "close")
  <2>1. Sort(a) = "payable" /\ Sort(a)' = "close"
    BY <1>1, <1>5, SortDe
  <2> QED
    BY <1>2, <2>1, Change
<1>6. ASSUME vers = "payee_hors_delai" PROVE Ideal!Changer(a, "close", "tardive")
  <2>1. Sort(a) = "close" /\ Sort(a)' = "tardive"
    BY <1>1, <1>6, SortDe
  <2> QED
    BY <1>2, <2>1, Change
<1>7. Ordre' = Ordre
  BY OrdreInchange
<1> QED
  BY <1>3, <1>4, <1>5, <1>6, <1>7 DEF Ideal!Encaisser, Ideal!Clore, Ideal!RecevoirTard

LEMMA NotifierRaffine ==
  ASSUME IInv, NEW n \in Notifications, Notifier(n)
  PROVE  [Ideal!Next]_Ideal!vars
<1> USE DEF commande, dehors, memoire
<1>1. n.session \in Sessions
  BY DEF Notifications
<1>2. UNCHANGED <<mode, etat>>
  BY DEF Notifier, NotifierDivergence, NotifierEchec, NotifierSucces
<1>3. CASE NotifierDivergence(n)
  BY <1>2, <1>3, SortDe, OrdreInchange, Begaie DEF NotifierDivergence
<1>4. CASE NotifierEchec(n)
  <2>1. UNCHANGED dossiers
    BY <1>4 DEF NotifierEchec
  <2>2. \A s \in Sessions : Sort(s)' = Sort(s)
    BY <1>1, <1>2, <1>4, DevenirRaffine, SortDe DEF NotifierEchec
  <2> QED
    BY <1>2, <2>1, <2>2, OrdreInchange, Begaie
<1>5. CASE NotifierSucces(n)
  <2>1. CASE session[n.session] = "expiree" /\ HorsDelai(n.session)
    <3>1. TransitionPermise(session[n.session], "payee_hors_delai")
      BY <2>1 DEF TransitionPermise, TransitionExiste, Transitions
    <3>2. Ideal!RecevoirTard(n.session)
      BY <1>1, <1>2, <2>1, <3>1, DevenirRaffine DEF HorsDelai
    <3> QED
      BY <1>1, <3>2 DEF Ideal!Next
  <2>2. CASE TransitionPermise(session[n.session], "reglee") /\ Devenir(n.session, "reglee")
             /\ UNCHANGED dossiers
    <3>1. Ideal!Encaisser(n.session)
      BY <1>1, <1>2, <2>2, DevenirRaffine
    <3> QED
      BY <1>1, <3>1 DEF Ideal!Next
  <2>3. CASE UNCHANGED <<session, dossiers>>
    BY <1>2, <2>3, SortDe, OrdreInchange, Begaie
  <2> QED
    BY <1>5, <2>1, <2>2, <2>3 DEF NotifierSucces
<1> QED
  BY <1>3, <1>4, <1>5 DEF Notifier

\* The order is confirmed only by who holds a settled session.
LEMMA ConfirmerRaffine ==
  ASSUME IInv, NEW s \in Sessions, ConfirmerLaCommande(s) \/ ConfirmerRattrapage(s)
  PROVE  Ideal!Confirmer \/ UNCHANGED Ideal!vars
<1> USE DEF commande, table, dehors
<1>1. /\ UNCHANGED <<mode, session, dossiers>>
      /\ \/ etat = "en_attente_paiement" /\ etat' = "nouvelle"
         \/ UNCHANGED etat
  BY Tronc DEF ConfirmerLaCommande, ConfirmerRattrapage, AppliquerConfirmation
<1>2. \A t \in Sessions : Sort(t)' = Sort(t)
  BY <1>1, SortDe
<1>3. session[s] = "reglee"
  BY DEF IInv, ConfirmationsFondees, ConfirmerLaCommande, ConfirmerRattrapage
<1>4. CASE UNCHANGED etat
  BY <1>1, <1>2, <1>4, OrdreInchange, Begaie
<1>5. CASE etat = "en_attente_paiement" /\ etat' = "nouvelle"
  <2>1. mode = "mobile_money" /\ mode' = mode
    BY <1>1, <1>5 DEF IInv, SessionsFondees
  <2>2. Ordre = "attend" /\ Ordre' = "confirmee"
    BY <1>5, <2>1 DEF Ordre
  <2>3. [t \in Sessions |-> Sort(t)][s] = "encaissee"
    BY <1>3, SortDe
  <2> QED
    BY <1>1, <1>2, <2>2, <2>3 DEF Ideal!Confirmer
<1> QED
  BY <1>1, <1>4, <1>5

LEMMA PasserRaffine ==
  ASSUME IInv, NEW s \in Sessions,
         \/ ChoisirSession(s) \/ ConsulterFournisseur(s) \/ FournisseurInjoignable(s)
         \/ Rattraper(s) \/ Expirer(s)
  PROVE  Ideal!Encaisser(s) \/ Ideal!Clore(s) \/ UNCHANGED Ideal!vars
<1> USE DEF commande, table, dehors
<1>1. /\ UNCHANGED <<mode, etat, dossiers>>
      /\ \/ TransitionPermise(session[s], "reglee") /\ Devenir(s, "reglee")
         \/ TransitionPermise(session[s], "expiree") /\ Devenir(s, "expiree")
         \/ UNCHANGED session
  BY DEF ChoisirSession, ConsulterFournisseur, FournisseurInjoignable, Rattraper, Expirer
<1>2. CASE UNCHANGED session
  BY <1>1, <1>2, SortDe, OrdreInchange, Begaie
<1>3. CASE TransitionPermise(session[s], "reglee") /\ Devenir(s, "reglee")
  BY <1>1, <1>3, DevenirRaffine
<1>4. CASE TransitionPermise(session[s], "expiree") /\ Devenir(s, "expiree")
  BY <1>1, <1>4, DevenirRaffine
<1> QED
  BY <1>1, <1>2, <1>3, <1>4

\* What the rest of the system does to the order.
LEMMA CommandeRaffine ==
  ASSUME IInv,
         \/ \E s \in Sessions : \/ LirePourExpiration(s) \/ AnnulerPourExpiration(s)
                              \/ Payer(s) \/ FranchirEcheance(s)
         \/ ConsommerAnnulation \/ Entourer
  PROVE  Ideal!Abandonner \/ Ideal!Exiger \/ UNCHANGED Ideal!vars
<1> USE DEF commande, table, dehors, memoire
<1>1. /\ UNCHANGED <<session, dossiers>>
      /\ \/ UNCHANGED <<mode, etat>>
         \/ etat # "annulee" /\ etat' = "annulee"
         \/ etat = "nouvelle" /\ etat' = "en_attente_paiement"
         \/ etat = "nouvelle" /\ etat' = "en_cours" /\ mode' = mode
  <2>1. CASE \E s \in Sessions : AnnulerPourExpiration(s)
    BY <2>1, Tronc DEF AnnulerPourExpiration, ConclureAnnulation, AppliquerAnnulation
  <2>2. CASE \E par \in {"client", "admin"} : AnnulerCommande(par)
    <3>1. PICK par \in {"client", "admin"} : AnnulerCommande(par)
      BY <2>2
    <3> QED
      BY <3>1, Tronc DEF AnnulerCommande, ConclureAnnulation, AppliquerAnnulation
  <2>3. CASE \/ \E s \in Sessions : LirePourExpiration(s) \/ Payer(s) \/ FranchirEcheance(s)
             \/ ConsommerAnnulation \/ LirePourAnnulation \/ Arreter
    BY <2>3 DEF LirePourExpiration, Payer, FranchirEcheance, ConsommerAnnulation, LirePourAnnulation,
       Arreter
  <2>4. CASE ExigerPrepaiement
    BY <2>4, Tronc DEF ExigerPrepaiement
  <2>5. CASE AssignerCoursier
    BY <2>5, Tronc DEF AssignerCoursier, IInv, TypeOK
  <2> QED
    BY <2>1, <2>2, <2>3, <2>4, <2>5 DEF Entourer
<1>2. \A s \in Sessions : Sort(s)' = Sort(s)
  BY <1>1, SortDe
<1>3. CASE UNCHANGED <<mode, etat>>
  BY <1>1, <1>2, <1>3, OrdreInchange, Begaie
<1>4. CASE etat # "annulee" /\ etat' = "annulee"
  <2>1. Ordre # "annulee" /\ Ordre' = "annulee"
    BY <1>4 DEF Ordre
  <2> QED
    BY <1>1, <1>2, <2>1 DEF Ideal!Abandonner
<1>5. CASE etat = "nouvelle" /\ etat' = "en_attente_paiement"
  <2>1. Ordre \in {"libre", "confirmee"} /\ Ordre' = "attend"
    BY <1>5 DEF Ordre
  <2> QED
    BY <1>1, <1>2, <2>1 DEF Ideal!Exiger
<1>6. CASE etat = "nouvelle" /\ etat' = "en_cours" /\ mode' = mode
  <2>1. Ordre' = Ordre
    BY <1>6 DEF Ordre
  <2> QED
    BY <1>1, <1>2, <2>1, Begaie
<1> QED
  BY <1>1, <1>3, <1>4, <1>5, <1>6

LEMMA NextRaffine == IInv /\ [Next]_vars => [Ideal!Next]_Ideal!vars
<1> SUFFICES ASSUME IInv, [Next]_vars PROVE [Ideal!Next]_Ideal!vars
  OBVIOUS
<1>1. CASE Next
  <2>1. CASE \E s \in Sessions : Ouvrir(s)
    BY <2>1, OuvrirRaffine DEF Ideal!Next
  <2>2. CASE \E s \in Sessions : ConfirmerLaCommande(s) \/ ConfirmerRattrapage(s)
    BY <2>2, ConfirmerRaffine DEF Ideal!Next
  <2>3. CASE \E s \in Sessions : \/ ChoisirSession(s) \/ ConsulterFournisseur(s)
                                  \/ FournisseurInjoignable(s) \/ Rattraper(s) \/ Expirer(s)
    BY <2>3, PasserRaffine DEF Ideal!Next
  <2>4. CASE \E n \in Notifications : Notifier(n)
    BY <2>4, NotifierRaffine
  <2>5. CASE \/ \E s \in Sessions : \/ LirePourExpiration(s) \/ AnnulerPourExpiration(s)
                                  \/ Payer(s) \/ FranchirEcheance(s)
             \/ ConsommerAnnulation \/ Entourer
    BY <2>5, CommandeRaffine DEF Ideal!Next
  <2> QED
    BY <1>1, <2>1, <2>2, <2>3, <2>4, <2>5 DEF Next, Balayer
<1>2. CASE UNCHANGED vars
  BY <1>2, SortDe, OrdreInchange, Begaie DEF vars, commande, table, memoire, dehors
<1> QED
  BY <1>1, <1>2

\* The detailed payments domain keeps the promise of EncaissementIdeal: only a
\* settled session confirms the order, a settled session never lapses, and
\* late money always leaves a file.
THEOREM PromesseTenue == Spec => TientLaPromesse
<1> QED
  BY InitRaffine, NextRaffine, SpecIInv, PTL DEF Spec, TientLaPromesse, Ideal!Spec

=============================================================================
