--------------------------- MODULE DispatchProofs ---------------------------
(***************************************************************************)
(* Proofs about module Dispatch, for any number of orders, couriers,       *)
(* offers and crashes: the outcome of an offer is final, and passes,       *)
(* answers, withdrawals and crashes implement AttributionIdeale.           *)
(***************************************************************************)
EXTENDS Dispatch, TLAPS

\* A request or a relaunch names an offer that was made, and who confirms an
\* acceptance has been assigned the order.
Fondees ==
  /\ \A o \in Offres : acceptation[o] # "repos" \/ refus[o] # "repos" \/ o \in relances
                         => o \in Ecrites
  /\ \A o \in Offres : acceptation[o] = "affectee"
                         => <<offre[o].commande, offre[o].coursier>> \in affectees

\* An order under way has its courier.
CoursePortee == \A c \in Commandes : etat[c] = "en_cours" => coursier[c] \in Coursiers

IInv == TypeOK /\ Fondees /\ CoursePortee

USE DEF Executants, Modes, Issues, Dispatchables, Etats

\* What the trunk's table lets each writer of this module do.
LEMMA Tronc ==
  ASSUME NEW t
  PROVE  /\ VerifierTransition(TableTronc, t, "en_cours", "systeme")
              <=> t \in {"nouvelle", "en_attente_coursier"}
         /\ VerifierTransition(TableTronc, t, "en_attente_coursier", "systeme")
              <=> t \in {"nouvelle", "en_cours"}
         /\ VerifierTransition(TableTronc, t, "en_attente_paiement", "systeme") <=> t = "nouvelle"
         /\ VerifierTransition(TableTronc, t, "nouvelle", "systeme") <=> t = "en_attente_paiement"
         /\ VerifierTransition(TableTronc, t, "annulee", "client")
              <=> t \in {"nouvelle", "en_attente_paiement", "en_attente_coursier", "en_cours"}
         /\ VerifierTransition(TableTronc, t, "terminee", "coursier") <=> t = "en_cours"
BY DEF VerifierTransition, TableTronc, AbandonsTronc

Lignes == [commande : Commandes, coursier : Coursiers, mode : Modes,
           issue : Issues \ {"absente"}]

Courses == [commande : Commandes, etape : {"choix", "file", "fini"},
            mode : Modes, reste : SUBSET Coursiers]

\* A row is not the empty one, and keeps its order and its courier when its
\* outcome is written.
LEMMA Ligne ==
  ASSUME TypeOK, NEW o \in Offres
  PROVE  /\ o \in Ecrites <=> offre[o] \in Lignes
         /\ o \in Ecrites <=> offre[o].issue # "absente"
         /\ offre[o] = Vide \/ offre[o] \in Lignes
         /\ EnVol(o) => o \in Ecrites
<1>1. Vide.issue = "absente"
  BY DEF Vide
<1>2. offre[o] = Vide \/ offre[o] \in Lignes
  BY DEF TypeOK, Lignes
<1>3. offre[o] \in Lignes => offre[o].issue # "absente"
  BY DEF Lignes
<1> QED
  BY <1>1, <1>2, <1>3 DEF Ecrites, EnVol

LEMMA PassageTypes ==
  ASSUME TypeOK, NEW e \in Executants
  PROVE  /\ passage[e] = Repos \/ passage[e] \in Courses
         /\ passage[e].etape # "repos" => passage[e] \in Courses
         /\ passage[e] \in Courses => Fin(e) \in Courses \cup {Repos}
<1>1. passage[e] = Repos \/ passage[e] \in Courses
  BY DEF TypeOK, Courses
<1>2. passage[e].etape # "repos" => passage[e] \in Courses
  BY <1>1 DEF Repos
<1>3. passage[e] \in Courses => Fin(e) \in Courses \cup {Repos}
  BY DEF Fin, Repos, Courses
<1> QED
  BY <1>1, <1>2, <1>3

-----------------------------------------------------------------------------
\* Types.
LEMMA InitTypeOK == Init => TypeOK
BY BornesAssumption DEF Init, TypeOK

LEMMA CommencerTypeOK ==
  ASSUME TypeOK, NEW e \in Executants, NEW c \in Commandes, NEW presents \in SUBSET Coursiers,
         CommencerPassage(e, c, presents)
  PROVE  TypeOK'
<1>1. Filtrer(c, presents) \subseteq Coursiers
  BY DEF Filtrer
<1>2. \E p \in Courses \cup {Repos} : Passer(e, p)
  <2> DEFINE mode == IF Cardinality(OffresDe(c)) >= Seuil \/ c \in tardives
                     THEN "broadcast" ELSE "cascade"
  <2>1. mode \in Modes
    OBVIOUS
  <2>2. /\ Ouvrir(c, "fini", "cascade", {}) \in Courses
        /\ Ouvrir(c, "file", "cascade", {}) \in Courses
        /\ Ouvrir(c, "choix", mode, Filtrer(c, presents)) \in Courses
    BY <1>1, <2>1 DEF Ouvrir, Courses
  <2> HIDE DEF mode
  <2> QED
    BY <2>2 DEF CommencerPassage, mode
<1>3. passage' \in [Executants -> Courses \cup {Repos}]
  BY <1>2 DEF Passer, TypeOK, Courses
<1>4. relances' \subseteq Offres
  BY DEF CommencerPassage, Declencher, TypeOK
<1> QED
  BY <1>3, <1>4 DEF CommencerPassage, TypeOK, Courses, base, registre

LEMMA PassageTypeOK ==
  ASSUME TypeOK, NEW e \in Executants, Passage(e)
  PROVE  TypeOK'
<1>1. CASE \E c \in Commandes, presents \in SUBSET Coursiers : CommencerPassage(e, c, presents)
  BY <1>1, CommencerTypeOK
<1>2. CASE MettreEnAttente(e) \/ ExigerPrepaiement(e)
  <2> USE DEF MettreEnAttente, ExigerPrepaiement
  <2>1. passage[e] \in Courses /\ Fin(e) \in Courses \cup {Repos}
    BY <1>2, PassageTypes
  <2>2. passage' \in [Executants -> Courses \cup {Repos}]
    BY <1>2, <2>1 DEF Passer, TypeOK, Courses
  <2>3. etat' \in [Commandes -> Etats]
    BY <1>2 DEF TypeOK
  <2> QED
    BY <1>2, <2>2, <2>3 DEF TypeOK, Courses, registre, requetes
<1>3. CASE EpuiserCandidats(e) \/ AbandonnerPassage(e)
  <2>1. passage[e] \in Courses /\ Fin(e) \in Courses \cup {Repos}
    BY <1>3, PassageTypes DEF EpuiserCandidats, AbandonnerPassage
  <2>2. passage' \in [Executants -> Courses \cup {Repos}]
    BY <1>3, <2>1 DEF EpuiserCandidats, AbandonnerPassage, Passer, TypeOK, Courses
  <2> QED
    BY <1>3, <2>2 DEF EpuiserCandidats, AbandonnerPassage, TypeOK, Courses, base, registre, requetes
<1>4. CASE \E l \in Coursiers : PasserAuSuivant(e, l)
  <2>1. PICK l \in Coursiers : PasserAuSuivant(e, l)
    BY <1>4
  <2>2. passage[e] \in Courses
    BY <2>1, PassageTypes DEF PasserAuSuivant
  <2>3. [passage[e] EXCEPT !.reste = @ \ {l}] \in Courses
    BY <2>2 DEF Courses
  <2>4. passage' \in [Executants -> Courses \cup {Repos}]
    BY <2>1, <2>3 DEF PasserAuSuivant, Passer, TypeOK, Courses
  <2> QED
    BY <2>1, <2>4 DEF PasserAuSuivant, TypeOK, Courses, base, registre, requetes
<1>5. CASE \E l \in Coursiers, o \in Offres : EmettreOffre(e, l, o)
  <2>1. PICK l \in Coursiers, o \in Offres : EmettreOffre(e, l, o)
    BY <1>5
  <2>2. passage[e] \in Courses /\ Fin(e) \in Courses \cup {Repos}
    BY <2>1, PassageTypes DEF EmettreOffre
  <2>3. [passage[e] EXCEPT !.reste = @ \ {l}] \in Courses
    BY <2>2 DEF Courses
  <2>4. passage' \in [Executants -> Courses \cup {Repos}]
    BY <2>1, <2>2, <2>3 DEF EmettreOffre, Passer, TypeOK, Courses
  <2>5. [commande |-> passage[e].commande, coursier |-> l,
         mode |-> passage[e].mode, issue |-> "en_vol"] \in Lignes
    BY <2>2 DEF Courses, Lignes
  <2>6. offre' \in [Offres -> Lignes \cup {Vide}]
    BY <2>1, <2>5 DEF EmettreOffre, TypeOK, Lignes
  <2> QED
    BY <2>1, <2>4, <2>6 DEF EmettreOffre, TypeOK, Courses, Lignes, base, requetes
<1> QED
  BY <1>1, <1>2, <1>3, <1>4, <1>5 DEF Passage

LEMMA RepondreTypeOK ==
  ASSUME TypeOK, Fondees, NEW o \in Offres, Repondre(o) \/ ConclureNonReponse(o) \/ Echoir(o)
  PROVE  TypeOK'
<1> USE DEF base, registre, requetes
<1>0. ASSUME o \in Ecrites
      PROVE  /\ offre[o].commande \in Commandes /\ offre[o].coursier \in Coursiers
             /\ \A i \in Issues \ {"absente"} : [offre[o] EXCEPT !.issue = i] \in Lignes
  BY <1>0, Ligne DEF Lignes
<1>1. CASE LireAcceptation(o)
  BY <1>1 DEF LireAcceptation, TypeOK
<1>2. CASE Affecter(o)
  <2>1. o \in Ecrites
    BY <1>2 DEF Affecter, Fondees
  <2>2. /\ etat' \in [Commandes -> Etats]
        /\ coursier' \in [Commandes -> Coursiers \cup {Personne}]
        /\ affectees' \subseteq Commandes \X Coursiers
        /\ acceptation' \in [Offres -> {"repos", "lue", "affectee"}]
    BY <1>0, <1>2, <2>1 DEF Affecter, TypeOK
  <2> QED
    BY <1>2, <2>2 DEF Affecter, TypeOK
<1>3. CASE ConfirmerAcceptation(o)
  <2>1. o \in Ecrites
    BY <1>3 DEF ConfirmerAcceptation, Fondees
  <2>2. offre' \in [Offres -> Lignes \cup {Vide}]
    BY <1>0, <1>3, <2>1 DEF ConfirmerAcceptation, TypeOK, Lignes
  <2> QED
    BY <1>3, <2>2 DEF ConfirmerAcceptation, TypeOK, Lignes
<1>4. CASE LireRefus(o)
  BY <1>4 DEF LireRefus, TypeOK
<1>5. CASE Refuser(o)
  <2>1. EnVol(o) => o \in Ecrites
    BY Ligne
  <2>2. offre' \in [Offres -> Lignes \cup {Vide}]
    BY <1>0, <1>5, <2>1 DEF Refuser, TypeOK, Lignes
  <2> QED
    BY <1>5, <2>2 DEF Refuser, TypeOK, Lignes
<1>6. CASE ConclureNonReponse(o)
  <2>1. o \in Ecrites
    BY <1>6, Ligne DEF ConclureNonReponse
  <2>2. offre' \in [Offres -> Lignes \cup {Vide}]
    BY <1>0, <1>6, <2>1 DEF ConclureNonReponse, TypeOK, Lignes
  <2> QED
    BY <1>6, <2>2 DEF ConclureNonReponse, TypeOK, Lignes
<1>7. CASE Echoir(o)
  BY <1>7 DEF Echoir, TypeOK
<1> QED
  BY <1>1, <1>2, <1>3, <1>4, <1>5, <1>6, <1>7 DEF Repondre

\* The order's other writers, and time.
Entourer(c) == ConfirmerPrepaiement(c) \/ RetirerCoursier(c) \/ Clore(c) \/ Tarder(c)

LEMMA EntourerTypeOK ==
  ASSUME TypeOK,
         Acquitter \/ Arreter \/ \E c \in Commandes : Entourer(c)
  PROVE  TypeOK'
<1> USE DEF base, registre, requetes, Courses
<1>1. CASE Acquitter
  BY <1>1 DEF Acquitter, Passer, TypeOK
<1>2. CASE Arreter
  BY <1>2, BornesAssumption DEF Arreter, TypeOK
<1>3. CASE \E c \in Commandes : RetirerCoursier(c)
  BY <1>3 DEF RetirerCoursier, TypeOK
<1>4. CASE \E c \in Commandes : Clore(c)
  BY <1>4 DEF Clore, TypeOK
<1>5. CASE \E c \in Commandes : Tarder(c)
  BY <1>5 DEF Tarder, TypeOK
<1>6. CASE \E c \in Commandes : ConfirmerPrepaiement(c)
  BY <1>6 DEF ConfirmerPrepaiement, TypeOK
<1> QED
  BY <1>1, <1>2, <1>3, <1>4, <1>5, <1>6 DEF Entourer

LEMMA NextTypeOK == IInv /\ [Next]_vars => TypeOK'
<1> SUFFICES ASSUME IInv, [Next]_vars PROVE TypeOK'
  OBVIOUS
<1> USE DEF IInv
<1>1. CASE \E e \in Executants : Passage(e)
  BY <1>1, PassageTypeOK
<1>2. CASE \E o \in Offres : Repondre(o) \/ ConclureNonReponse(o) \/ Echoir(o)
  BY <1>2, RepondreTypeOK
<1>3. CASE Acquitter \/ Arreter
           \/ \E c \in Commandes : Entourer(c)
  BY <1>3, EntourerTypeOK
<1>4. CASE UNCHANGED vars
  BY <1>4 DEF vars, base, registre, requetes, TypeOK
<1> QED
  BY <1>1, <1>2, <1>3, <1>4 DEF Next, Entourer

-----------------------------------------------------------------------------
(* Offers are only added, and a row keeps its order and its courier.        *)

EmetUne ==
  \E o \in Offres, c \in Commandes, l \in Coursiers, m \in Modes :
    /\ offre[o] = Vide
    /\ offre' = [offre EXCEPT ![o] = [commande |-> c, coursier |-> l,
                                      mode |-> m, issue |-> "en_vol"]]

Conclut(o, i) == o \in Ecrites /\ offre' = [offre EXCEPT ![o].issue = i]

LEMMA EmetUneEcrit ==
  ASSUME TypeOK, EmetUne
  PROVE  \E o \in Offres :
           /\ offre[o] = Vide /\ offre'[o] \in Lignes /\ offre'[o] # Vide
           /\ offre'[o].issue = "en_vol"
           /\ \A p \in Offres \ {o} : offre'[p] = offre[p]
<1>1. PICK o \in Offres, c \in Commandes, l \in Coursiers, m \in Modes :
        /\ offre[o] = Vide
        /\ offre' = [offre EXCEPT ![o] = [commande |-> c, coursier |-> l,
                                          mode |-> m, issue |-> "en_vol"]]
  BY DEF EmetUne
<1>2. offre'[o] = [commande |-> c, coursier |-> l, mode |-> m, issue |-> "en_vol"]
  BY <1>1 DEF TypeOK
<1>3. offre'[o] \in Lignes /\ offre'[o].issue = "en_vol" /\ offre'[o] # Vide
  BY <1>2 DEF Lignes, Vide
<1> QED
  BY <1>1, <1>3 DEF TypeOK

LEMMA ConclutGarde ==
  ASSUME TypeOK, NEW o \in Offres, NEW i \in Issues \ {"absente"}, Conclut(o, i)
  PROVE  /\ Ecrites' = Ecrites
         /\ \A p \in Offres :
              /\ offre'[p].commande = offre[p].commande
              /\ offre'[p].coursier = offre[p].coursier
         /\ offre'[o].issue = i
         /\ offre'[o] = [offre[o] EXCEPT !.issue = i]
         /\ \A p \in Offres \ {o} : offre'[p] = offre[p]
<1>1. offre[o] \in Lignes
  BY Ligne DEF Conclut
<1>2. offre'[o] = [offre[o] EXCEPT !.issue = i] /\ \A p \in Offres \ {o} : offre'[p] = offre[p]
  BY DEF Conclut, TypeOK
<1>3. offre'[o].issue = i /\ offre'[o].commande = offre[o].commande
      /\ offre'[o].coursier = offre[o].coursier
  BY <1>1, <1>2 DEF Lignes
<1>4. offre'[o] # Vide /\ offre[o] # Vide
  BY <1>3 DEF Vide, Conclut, Ecrites
<1>5. Ecrites' = Ecrites
  BY <1>2, <1>4 DEF Ecrites
<1> QED
  BY <1>2, <1>3, <1>5

\* What a step does to the offers and to the requests about them.
LEMMA PasSurOffres ==
  ASSUME IInv, [Next]_vars
  PROVE  \/ EmetUne /\ UNCHANGED <<base, acceptation, refus, relances>>
         \/ \E o \in Offres :
              \/ acceptation[o] = "affectee" /\ Conclut(o, "acceptee")
              \/ EnVol(o) /\ Conclut(o, "refusee")
              \/ EnVol(o) /\ Conclut(o, "non_repondue")
         \/ UNCHANGED offre
<1> USE DEF IInv
<1>1. CASE \E e \in Executants : Passage(e)
  <2>1. PICK e \in Executants : Passage(e)
    BY <1>1
  <2>2. CASE \E l \in Coursiers, o \in Offres : EmettreOffre(e, l, o)
    <3>1. PICK l \in Coursiers, o \in Offres : EmettreOffre(e, l, o)
      BY <2>2
    <3>2. passage[e].commande \in Commandes /\ passage[e].mode \in Modes
      BY <3>1, PassageTypes DEF EmettreOffre, Courses
    <3>3. /\ offre[o] = Vide
          /\ offre' = [offre EXCEPT ![o] = [commande |-> passage[e].commande, coursier |-> l,
                                            mode |-> passage[e].mode, issue |-> "en_vol"]]
          /\ UNCHANGED <<base, acceptation, refus, relances>>
      BY <3>1 DEF EmettreOffre, requetes
    <3>4. EmetUne
      BY <3>2, <3>3 DEF EmetUne
    <3> QED
      BY <3>3, <3>4
  <2>3. CASE ~ \E l \in Coursiers, o \in Offres : EmettreOffre(e, l, o)
    <3>1. \/ ExigerPrepaiement(e) \/ MettreEnAttente(e) \/ EpuiserCandidats(e) \/ AbandonnerPassage(e)
          \/ \E l \in Coursiers : PasserAuSuivant(e, l)
          \/ \E c \in Commandes, presents \in SUBSET Coursiers : CommencerPassage(e, c, presents)
      BY <2>1, <2>3 DEF Passage
    <3> QED
      BY <3>1 DEF ExigerPrepaiement, MettreEnAttente, EpuiserCandidats, AbandonnerPassage, PasserAuSuivant,
                  CommencerPassage, registre
  <2> QED
    BY <2>2, <2>3
<1>2. ASSUME NEW o \in Offres, Repondre(o) \/ ConclureNonReponse(o) \/ Echoir(o)
      PROVE  \/ acceptation[o] = "affectee" /\ Conclut(o, "acceptee")
             \/ EnVol(o) /\ Conclut(o, "refusee")
             \/ EnVol(o) /\ Conclut(o, "non_repondue")
             \/ UNCHANGED offre
  <2>1. CASE ConfirmerAcceptation(o)
    BY <2>1 DEF ConfirmerAcceptation, Conclut, Fondees
  <2>2. CASE Refuser(o)
    BY <2>2, Ligne DEF Refuser, Conclut
  <2>3. CASE ConclureNonReponse(o)
    BY <2>3, Ligne DEF ConclureNonReponse, Conclut
  <2>4. CASE LireAcceptation(o) \/ Affecter(o) \/ LireRefus(o) \/ Echoir(o)
    BY <2>4 DEF LireAcceptation, Affecter, LireRefus, Echoir, registre
  <2> QED
    BY <1>2, <2>1, <2>2, <2>3, <2>4 DEF Repondre
<1>3. CASE \/ Acquitter \/ Arreter
           \/ \E c \in Commandes : Entourer(c)
  BY <1>3 DEF Entourer, Acquitter, Arreter, ConfirmerPrepaiement, RetirerCoursier, Clore, Tarder,
              registre
<1>4. CASE UNCHANGED vars
  BY <1>4 DEF vars, registre
<1>5. CASE \E o \in Offres : Repondre(o) \/ ConclureNonReponse(o) \/ Echoir(o)
  <2>1. PICK o \in Offres : Repondre(o) \/ ConclureNonReponse(o) \/ Echoir(o)
    BY <1>5
  <2> QED
    BY <1>2, <2>1
<1>6. \/ \E e \in Executants : Passage(e)
      \/ \E o \in Offres : Repondre(o) \/ ConclureNonReponse(o) \/ Echoir(o)
      \/ Acquitter \/ Arreter
      \/ \E c \in Commandes : Entourer(c)
      \/ UNCHANGED vars
  BY DEF Next, Entourer
<1> QED
  BY <1>1, <1>3, <1>4, <1>5, <1>6

\* An offer that was made keeps its row, its order and its courier.
LEMMA OffresGardees ==
  ASSUME IInv, [Next]_vars, NEW o \in Offres, o \in Ecrites
  PROVE  /\ o \in Ecrites' /\ offre'[o].commande = offre[o].commande
         /\ offre'[o].coursier = offre[o].coursier
<1> USE DEF IInv
<1>1. CASE EmetUne
  BY <1>1, EmetUneEcrit DEF Ecrites
<1>2. CASE \E p \in Offres, i \in Issues \ {"absente"} : Conclut(p, i)
  BY <1>2, ConclutGarde
<1>3. CASE UNCHANGED offre
  BY <1>3 DEF Ecrites
<1> QED
  BY <1>1, <1>2, <1>3, PasSurOffres

-----------------------------------------------------------------------------
(* The strengthening.                                                       *)

LEMMA AffecteesGardees == IInv /\ [Next]_vars => affectees \subseteq affectees'
BY DEF Next, Passage, Repondre, CommencerPassage, MettreEnAttente, EpuiserCandidats,
       AbandonnerPassage, PasserAuSuivant, EmettreOffre, Acquitter, Arreter, LireAcceptation,
       Affecter, ConfirmerAcceptation, LireRefus, Refuser, ConclureNonReponse, Echoir,
       ExigerPrepaiement, ConfirmerPrepaiement, RetirerCoursier, Clore, Tarder, vars, base

\* Who is waiting for something about an offer, after a step: who was, or who
\* has just read it in flight, or refused it, or been assigned its order.
LEMMA RequetesSuivies ==
  ASSUME IInv, [Next]_vars, NEW o \in Offres
  PROVE  /\ acceptation'[o] # "repos" \/ refus'[o] # "repos" \/ o \in relances' => o \in Ecrites
         /\ acceptation'[o] = "affectee" => <<offre[o].commande, offre[o].coursier>> \in affectees'
<1> USE DEF IInv, Fondees
<1>1. ASSUME NEW p \in Offres, Repondre(p)
      PROVE  /\ acceptation'[o] # "repos" \/ refus'[o] # "repos" \/ o \in relances' => o \in Ecrites
             /\ acceptation'[o] = "affectee"
                  => <<offre[o].commande, offre[o].coursier>> \in affectees'
  <2> USE DEF TypeOK, base
  <2>1. CASE LireAcceptation(p)
    BY <2>1, Ligne DEF LireAcceptation
  <2>2. CASE Affecter(p)
    BY <2>2 DEF Affecter
  <2>3. CASE ConfirmerAcceptation(p)
    BY <2>3 DEF ConfirmerAcceptation
  <2>4. CASE LireRefus(p)
    BY <2>4, Ligne DEF LireRefus
  <2>5. CASE Refuser(p)
    BY <2>5 DEF Refuser
  <2> QED
    BY <1>1, <2>1, <2>2, <2>3, <2>4, <2>5 DEF Repondre
<1>2. CASE \E e \in Executants : Passage(e)
  BY <1>2 DEF Passage, CommencerPassage, Declencher, ExigerPrepaiement, MettreEnAttente, EpuiserCandidats,
              AbandonnerPassage, PasserAuSuivant, EmettreOffre, base, requetes
<1>3. CASE \E p \in Offres : ConclureNonReponse(p) \/ Echoir(p)
  BY <1>3 DEF ConclureNonReponse, Echoir, base, requetes
<1>4. CASE Acquitter \/ \E c \in Commandes : Entourer(c)
  BY <1>4 DEF Entourer, Acquitter, ConfirmerPrepaiement, RetirerCoursier, Clore, Tarder, base,
              requetes
<1>5. CASE Arreter
  BY <1>5 DEF Arreter
<1>6. CASE UNCHANGED vars
  BY <1>6 DEF vars, base, requetes
<1>7. CASE \E p \in Offres : Repondre(p)
  BY <1>1, <1>7
<1> QED
  BY <1>2, <1>3, <1>4, <1>5, <1>6, <1>7 DEF Next, Entourer

LEMMA NextFondees == IInv /\ [Next]_vars => Fondees'
<1> SUFFICES ASSUME IInv, [Next]_vars, NEW o \in Offres
             PROVE  /\ \/ acceptation'[o] # "repos" \/ refus'[o] # "repos" \/ o \in relances'
                       => o \in Ecrites'
                    /\ acceptation'[o] = "affectee"
                         => <<offre'[o].commande, offre'[o].coursier>> \in affectees'
  BY DEF Fondees, Offres
<1> QED
  BY RequetesSuivies, OffresGardees

LEMMA NextCoursePortee == IInv /\ [Next]_vars => CoursePortee'
<1> SUFFICES ASSUME IInv, [Next]_vars PROVE CoursePortee'
  OBVIOUS
<1> USE DEF IInv, CoursePortee
<1>1. ASSUME NEW e \in Executants, Passage(e)
      PROVE  CoursePortee'
  <2>1. CASE MettreEnAttente(e) \/ ExigerPrepaiement(e)
    BY <2>1 DEF MettreEnAttente, ExigerPrepaiement, TypeOK
  <2>2. CASE \/ EpuiserCandidats(e) \/ AbandonnerPassage(e)
             \/ \E l \in Coursiers : PasserAuSuivant(e, l)
             \/ \E l \in Coursiers, o \in Offres : EmettreOffre(e, l, o)
             \/ \E c \in Commandes, presents \in SUBSET Coursiers : CommencerPassage(e, c, presents)
    BY <2>2 DEF EpuiserCandidats, AbandonnerPassage, PasserAuSuivant, EmettreOffre,
                CommencerPassage, base
  <2> QED
    BY <1>1, <2>1, <2>2 DEF Passage
<1>2. ASSUME NEW o \in Offres, Repondre(o) \/ ConclureNonReponse(o) \/ Echoir(o)
      PROVE  CoursePortee'
  <2>1. CASE Affecter(o)
    <3>1. offre[o].coursier \in Coursiers
      BY <2>1, Ligne DEF Affecter, Fondees, Lignes
    <3> QED
      BY <2>1, <3>1 DEF Affecter, TypeOK, base
  <2>2. CASE \/ LireAcceptation(o) \/ ConfirmerAcceptation(o) \/ LireRefus(o)
             \/ Refuser(o) \/ ConclureNonReponse(o) \/ Echoir(o)
    BY <2>2 DEF LireAcceptation, ConfirmerAcceptation, LireRefus, Refuser, ConclureNonReponse,
                Echoir, base
  <2> QED
    BY <1>2, <2>1, <2>2 DEF Repondre
<1>3. CASE \E c \in Commandes : Entourer(c)
  BY <1>3 DEF Entourer, ConfirmerPrepaiement, RetirerCoursier, Clore, Tarder, TypeOK, base
<1>4. CASE Acquitter \/ Arreter \/ UNCHANGED vars
  BY <1>4 DEF Acquitter, Arreter, vars, base
<1> QED
  BY <1>1, <1>2, <1>3, <1>4 DEF Next, Entourer

LEMMA InitIInv == Init => IInv
<1>1. Init => Fondees
  BY DEF Init, Fondees
<1>2. Init => CoursePortee
  BY DEF Init, CoursePortee
<1> QED
  BY <1>1, <1>2, InitTypeOK DEF IInv

LEMMA SpecIInv == Spec => []IInv
<1>1. IInv /\ [Next]_vars => IInv'
  BY NextTypeOK, NextFondees, NextCoursePortee DEF IInv
<1> QED
  BY <1>1, InitIInv, PTL DEF Spec

\* Orders, couriers, offers, passes and requests keep their types, whatever
\* the numbers of offers and crashes.
THEOREM TypesCorrects == Spec => []TypeOK
BY SpecIInv, PTL DEF IInv

\* The outcome of an offer is final (refuser_offre, conclure_non_reponse and
\* the second transaction of accepter_offre, in any order).
THEOREM IssuesDefinitives == Spec => IssueDefinitive
<1> DEFINE P == \A o \in Offres :
                  offre[o].issue \notin {"absente", "en_vol"} /\ offre'[o] # offre[o]
                    => /\ offre'[o] = [offre[o] EXCEPT !.issue = "acceptee"]
                       /\ <<offre[o].commande, offre[o].coursier>> \in affectees
<1>1. ASSUME IInv, [Next]_vars, NEW o \in Offres,
             offre[o].issue \notin {"absente", "en_vol"}, offre'[o] # offre[o]
      PROVE  /\ offre'[o] = [offre[o] EXCEPT !.issue = "acceptee"]
             /\ <<offre[o].commande, offre[o].coursier>> \in affectees
  <2> USE DEF IInv
  <2>1. CASE EmetUne
    BY <1>1, <2>1, EmetUneEcrit DEF Vide
  <2>2. CASE \E p \in Offres : acceptation[p] = "affectee" /\ Conclut(p, "acceptee")
    <3>1. PICK p \in Offres : acceptation[p] = "affectee" /\ Conclut(p, "acceptee")
      BY <2>2
    <3>2. "acceptee" \in Issues \ {"absente"}
      BY DEF Issues
    <3>3. p = o
      BY <1>1, <3>1, <3>2, ConclutGarde
    <3>4. offre'[o] = [offre[o] EXCEPT !.issue = "acceptee"]
      BY <1>1, <3>1, <3>2, <3>3, ConclutGarde
    <3>5. <<offre[o].commande, offre[o].coursier>> \in affectees
      BY <1>1, <3>1, <3>3 DEF Fondees
    <3> QED
      BY <3>4, <3>5
  <2>3. CASE \E p \in Offres, i \in {"refusee", "non_repondue"} : EnVol(p) /\ Conclut(p, i)
    BY <1>1, <2>3, ConclutGarde DEF EnVol
  <2> QED
    BY <1>1, <2>1, <2>2, <2>3, PasSurOffres
<1>2. IInv /\ [Next]_vars => [P]_vars
  BY <1>1
<1> QED
  BY <1>2, SpecIInv, PTL DEF Spec, IssueDefinitive

-----------------------------------------------------------------------------
(* The refinement: each step is a step of AttributionIdeale, or stutters.   *)

Preneur == [c \in Commandes |-> IF etat[c] = "en_cours" THEN coursier[c] ELSE Personne]
Sollicites == {<<offre[o].commande, offre[o].coursier>> : o \in Ecrites}
Confirmes == {<<offre[o].commande, offre[o].coursier>> :
                o \in {p \in Offres : offre[p].issue = "acceptee"}}

LEMMA IdealVars ==
  /\ Ideal!vars = <<Preneur, Closes, Sollicites, affectees, Confirmes>>
  /\ Ideal!vars' = <<Preneur', Closes', Sollicites', affectees', Confirmes'>>
BY DEF Ideal!vars, Preneur, Sollicites, Confirmes

LEMMA InitIdeal == Init => Ideal!Init
<1> SUFFICES ASSUME Init PROVE Ideal!Init
  OBVIOUS
<1>1. Ecrites = {} /\ Closes = {}
  BY DEF Init, Ecrites, Closes, TroncTermine
<1>2. {p \in Offres : offre[p].issue = "acceptee"} = {}
  BY DEF Init, Vide
<1>3. Preneur = [c \in Commandes |-> Personne]
  BY DEF Init, Preneur
<1> QED
  BY <1>1, <1>2, <1>3 DEF Ideal!Init, Preneur, Init

\* A step on the offers alone: an offer is made, its outcome is written.
LEMMA OffresIdeal ==
  ASSUME IInv, [Next]_vars, UNCHANGED base
  PROVE  [Ideal!Next]_(Ideal!vars)
<1> USE DEF IInv
<1>1. Preneur' = Preneur /\ Closes' = Closes /\ affectees' = affectees
  BY DEF base, Preneur, Closes
<1>2. CASE EmetUne
  <2>1. PICK o \in Offres :
          /\ offre[o] = Vide /\ offre'[o] \in Lignes /\ offre'[o] # Vide
          /\ offre'[o].issue = "en_vol"
          /\ \A p \in Offres \ {o} : offre'[p] = offre[p]
    BY <1>2, EmetUneEcrit
  <2>2. PICK c \in Commandes, l \in Coursiers : offre'[o].commande = c /\ offre'[o].coursier = l
    BY <2>1 DEF Lignes
  <2>3. Ecrites' = Ecrites \cup {o} /\ o \notin Ecrites
    BY <2>1 DEF Ecrites, Offres
  <2>4. Sollicites' = Sollicites \cup {<<c, l>>}
    BY <2>1, <2>2, <2>3 DEF Sollicites, Ecrites
  <2>5. {p \in Offres : offre'[p].issue = "acceptee"} = {p \in Offres : offre[p].issue = "acceptee"}
    BY <2>1 DEF Vide
  <2>6. Confirmes' = Confirmes
    BY <2>1, <2>5 DEF Confirmes
  <2> QED
    BY <1>1, <2>4, <2>6 DEF Ideal!Next, Ideal!Solliciter, Preneur, Sollicites, Confirmes
<1>3. ASSUME NEW o \in Offres, acceptation[o] = "affectee", Conclut(o, "acceptee")
      PROVE  [Ideal!Next]_(Ideal!vars)
  <2>1. PICK c \in Commandes, l \in Coursiers :
          offre[o].commande = c /\ offre[o].coursier = l /\ <<c, l>> \in affectees
    BY <1>3, Ligne DEF Conclut, Lignes, Fondees
  <2>2. /\ Ecrites' = Ecrites
        /\ \A p \in Offres : offre'[p].commande = offre[p].commande
                             /\ offre'[p].coursier = offre[p].coursier
        /\ {p \in Offres : offre'[p].issue = "acceptee"}
             = {p \in Offres : offre[p].issue = "acceptee"} \cup {o}
    BY <1>3, ConclutGarde
  <2>3. Sollicites' = Sollicites
    BY <2>2 DEF Sollicites, Ecrites
  <2>4. Confirmes' = Confirmes \cup {<<c, l>>}
    BY <2>1, <2>2 DEF Confirmes
  <2> QED
    BY <1>1, <2>1, <2>3, <2>4 DEF Ideal!Next, Ideal!Confirmer, Preneur, Sollicites, Confirmes
<1>4. ASSUME NEW o \in Offres, NEW i \in {"refusee", "non_repondue"}, EnVol(o), Conclut(o, i)
      PROVE  [Ideal!Next]_(Ideal!vars)
  <2>1. /\ Ecrites' = Ecrites
        /\ \A p \in Offres : offre'[p].commande = offre[p].commande
                             /\ offre'[p].coursier = offre[p].coursier
        /\ {p \in Offres : offre'[p].issue = "acceptee"}
             = {p \in Offres : offre[p].issue = "acceptee"}
    BY <1>4, ConclutGarde DEF EnVol
  <2>2. Sollicites' = Sollicites
    BY <2>1 DEF Sollicites, Ecrites
  <2>3. Confirmes' = Confirmes
    BY <2>1 DEF Confirmes
  <2> QED
    BY <1>1, <2>2, <2>3, IdealVars
<1>5. CASE UNCHANGED offre
  <2>1. Sollicites' = Sollicites /\ Confirmes' = Confirmes
    BY <1>5 DEF Sollicites, Confirmes, Ecrites
  <2> QED
    BY <1>1, <2>1, IdealVars
<1> QED
  BY <1>2, <1>3, <1>4, <1>5, PasSurOffres

\* A step on the orders alone.
LEMMA CommandesIdeal ==
  ASSUME IInv, [Next]_vars, UNCHANGED offre,
         \/ \E e \in Executants : MettreEnAttente(e) \/ ExigerPrepaiement(e)
         \/ \E o \in Offres : Affecter(o)
         \/ \E c \in Commandes : ConfirmerPrepaiement(c) \/ RetirerCoursier(c) \/ Clore(c)
  PROVE  [Ideal!Next]_(Ideal!vars)
<1> USE DEF IInv
<1>1. Sollicites' = Sollicites /\ Confirmes' = Confirmes
  BY DEF Sollicites, Confirmes, Ecrites
<1>2. ASSUME NEW c \in Commandes, etat[c] \notin TroncTermine,
             NEW t \in {"nouvelle", "en_attente_coursier", "en_attente_paiement"},
             etat' = [etat EXCEPT ![c] = t],
             \A d \in Commandes \ {c} : coursier'[d] = coursier[d],
             affectees' = affectees
      PROVE  [Ideal!Next]_(Ideal!vars)
  <2>1. Closes' = Closes
    BY <1>2 DEF Closes, TypeOK, TroncTermine
  <2>2. Preneur' = [Preneur EXCEPT ![c] = Personne]
    BY <1>2 DEF Preneur, TypeOK
  <2>3. CASE Preneur[c] = Personne
    <3>1. Preneur' = Preneur
      BY <2>2, <2>3 DEF Preneur
    <3> QED
      BY <1>1, <1>2, <2>1, <3>1, IdealVars
  <2>4. CASE Preneur[c] # Personne
    BY <1>1, <1>2, <2>1, <2>2, <2>4 DEF Ideal!Next, Ideal!Reprendre, Preneur, Sollicites, Confirmes
  <2> QED
    BY <2>3, <2>4
<1>3. ASSUME NEW e \in Executants, MettreEnAttente(e) \/ ExigerPrepaiement(e)
      PROVE  [Ideal!Next]_(Ideal!vars)
  <2> USE DEF MettreEnAttente, ExigerPrepaiement
  <2>1. PICK c \in Commandes : passage[e].commande = c
    BY <1>3, PassageTypes DEF Courses
  <2>2. UNCHANGED <<coursier, affectees>>
    BY <1>3
  <2>3. \/ UNCHANGED etat
        \/ /\ etat[c] \in {"nouvelle", "en_cours"}
           /\ \E t \in {"en_attente_coursier", "en_attente_paiement"} : etat' = [etat EXCEPT ![c] = t]
    BY <1>3, <2>1, Tronc
  <2>4. CASE UNCHANGED etat
    BY <1>1, <2>2, <2>4, IdealVars DEF Preneur, Closes
  <2> HIDE DEF MettreEnAttente, ExigerPrepaiement
  <2> QED
    BY <1>2, <2>2, <2>3, <2>4 DEF TroncTermine
<1>4. ASSUME NEW o \in Offres, Affecter(o)
      PROVE  [Ideal!Next]_(Ideal!vars)
  <2>1. PICK c \in Commandes, l \in Coursiers :
          o \in Ecrites /\ offre[o].commande = c /\ offre[o].coursier = l
    BY <1>4, Ligne DEF Affecter, Lignes, Fondees
  <2>2. CASE VerifierTransition(TableTronc, etat[c], "en_cours", "systeme")
    <3>1. /\ etat[c] \in {"nouvelle", "en_attente_coursier"}
          /\ etat' = [etat EXCEPT ![c] = "en_cours"] /\ coursier' = [coursier EXCEPT ![c] = l]
          /\ affectees' = affectees \cup {<<c, l>>}
      BY <1>4, <2>1, <2>2, Tronc DEF Affecter
    <3>2. Closes' = Closes /\ c \notin Closes
      BY <3>1 DEF Closes, TroncTermine, TypeOK
    <3>3. Preneur' = [Preneur EXCEPT ![c] = l] /\ Preneur[c] = Personne
      BY <3>1 DEF Preneur, TypeOK
    <3>4. <<c, l>> \in Sollicites
      BY <2>1 DEF Sollicites
    <3> QED
      BY <1>1, <3>1, <3>2, <3>3, <3>4 DEF Ideal!Next, Ideal!Prendre, Preneur, Sollicites, Confirmes
  <2>3. CASE ~VerifierTransition(TableTronc, etat[c], "en_cours", "systeme")
    BY <1>1, <1>4, <2>1, <2>3, IdealVars DEF Affecter, Preneur, Closes, base
  <2> QED
    BY <2>2, <2>3
<1>5. ASSUME NEW c \in Commandes, RetirerCoursier(c)
      PROVE  [Ideal!Next]_(Ideal!vars)
  <2>1. \A d \in Commandes \ {c} : coursier'[d] = coursier[d]
    BY <1>5 DEF RetirerCoursier, TypeOK
  <2> QED
    BY <1>2, <1>5, <2>1, Tronc DEF RetirerCoursier, TroncTermine
<1>6. ASSUME NEW c \in Commandes, Clore(c)
      PROVE  [Ideal!Next]_(Ideal!vars)
  <2>1. /\ etat[c] \notin TroncTermine
        /\ \E t \in {"annulee", "terminee"} : etat' = [etat EXCEPT ![c] = t]
        /\ UNCHANGED <<coursier, affectees>>
    BY <1>6, Tronc DEF Clore, TroncTermine
  <2>2. Closes' = Closes \cup {c} /\ c \notin Closes
    BY <2>1 DEF Closes, TroncTermine, TypeOK
  <2>3. Preneur' = [Preneur EXCEPT ![c] = Personne]
    BY <2>1 DEF Preneur, TypeOK
  <2> QED
    BY <1>1, <2>1, <2>2, <2>3 DEF Ideal!Next, Ideal!Clore, Preneur, Sollicites, Confirmes
<1>7. ASSUME NEW c \in Commandes, ConfirmerPrepaiement(c)
      PROVE  [Ideal!Next]_(Ideal!vars)
  BY <1>2, <1>7, Tronc DEF ConfirmerPrepaiement, TroncTermine
<1> QED
  BY <1>3, <1>4, <1>5, <1>6, <1>7

LEMMA NextIdeal == IInv /\ [Next]_vars => [Ideal!Next]_(Ideal!vars)
<1> SUFFICES ASSUME IInv, [Next]_vars PROVE [Ideal!Next]_(Ideal!vars)
  OBVIOUS
<1>1. CASE \/ \E e \in Executants : MettreEnAttente(e) \/ ExigerPrepaiement(e)
           \/ \E o \in Offres : Affecter(o)
           \/ \E c \in Commandes : ConfirmerPrepaiement(c) \/ RetirerCoursier(c) \/ Clore(c)
  <2>1. UNCHANGED offre
    BY <1>1 DEF MettreEnAttente, ExigerPrepaiement, Affecter, ConfirmerPrepaiement,
                RetirerCoursier, Clore, registre
  <2> QED
    BY <1>1, <2>1, CommandesIdeal
<1>2. CASE ~ \/ \E e \in Executants : MettreEnAttente(e) \/ ExigerPrepaiement(e)
             \/ \E o \in Offres : Affecter(o)
             \/ \E c \in Commandes : ConfirmerPrepaiement(c) \/ RetirerCoursier(c) \/ Clore(c)
  <2>1. ASSUME NEW e \in Executants, Passage(e)
        PROVE  UNCHANGED base
    BY <1>2, <2>1 DEF Passage, EpuiserCandidats, AbandonnerPassage, PasserAuSuivant, EmettreOffre,
                      CommencerPassage, base
  <2>2. ASSUME NEW o \in Offres, Repondre(o) \/ ConclureNonReponse(o) \/ Echoir(o)
        PROVE  UNCHANGED base
    <3>1. ~Affecter(o)
      BY <1>2
    <3> QED
      BY <2>2, <3>1 DEF Repondre, LireAcceptation, ConfirmerAcceptation, LireRefus, Refuser,
                        ConclureNonReponse, Echoir, base
  <2>3. Acquitter \/ Arreter \/ UNCHANGED vars \/ (\E c \in Commandes : Tarder(c)) => UNCHANGED base
    BY DEF Acquitter, Arreter, Tarder, vars
  <2>4. (\E e \in Executants : Passage(e)) => UNCHANGED base
    BY <2>1
  <2>5. (\E o \in Offres : Repondre(o) \/ ConclureNonReponse(o) \/ Echoir(o)) => UNCHANGED base
    BY <2>2
  <2>6. UNCHANGED base
    BY <1>2, <2>3, <2>4, <2>5 DEF Next
  <2> QED
    BY <2>6, OffresIdeal
<1> QED
  BY <1>1, <1>2

\* The dispatch keeps its promise: an order is held by one courier at a time,
\* among those it was offered to; "it is yours" is said to one who has taken
\* it; a closed order is never taken (pipeline.rs, offre.rs, depot.rs).
THEOREM PromesseTenue == Spec => AttributionTenue
<1>1. Spec => Ideal!Init /\ [][Ideal!Next]_(Ideal!vars)
  BY InitIdeal, NextIdeal, SpecIInv, PTL DEF Spec
<1> QED
  BY <1>1 DEF AttributionTenue, Ideal!Spec

=============================================================================
