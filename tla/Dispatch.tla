------------------------------ MODULE Dispatch ------------------------------
(***************************************************************************)
(* The offers of the crate `dispatch`: passes of the pipeline that run at  *)
(* the same time (the outbox consumer, the tick, the relaunch that follows *)
(* a refusal), the partial unique indexes on the offers in flight, and the *)
(* answers of couriers that race with each other and with the deadline.    *)
(*                                                                         *)
(* The double lock in Redis expires, leaks after a crash and is lost with  *)
(* its server: it is modelled by the answers it may give, all of them at   *)
(* any time.  A step is one transaction or one read on the pool; the reads *)
(* of one pass are one step, since what matters is that they are old when  *)
(* the offer is made.                                                      *)
(***************************************************************************)
EXTENDS EtatsCommande, FiniteSets, Integers

CONSTANTS
  Commandes, Coursiers,
  Personne,    \* no courier, no order
  Seuil,       \* offers after which the cascade becomes a broadcast
  OffresMax,   \* bound on the offers
  ArretsMax    \* bound on the crashes of the process

ASSUME PersonneAssumption == Personne \notin Coursiers \cup Commandes
ASSUME BornesAssumption == Seuil \in Nat /\ OffresMax \in Nat /\ ArretsMax \in Nat

Offres == 1..OffresMax
Executants == {"worker", "tic", "refus"}
Modes == {"cascade", "broadcast"}
Issues == {"absente", "en_vol", "acceptee", "refusee", "non_repondue"}

\* Orders the pipeline looks at.
Dispatchables == {"nouvelle", "en_attente_coursier"}
Etats == Dispatchables \cup {"en_attente_paiement", "en_cours", "terminee", "annulee"}

Vide == [commande |-> Personne, coursier |-> Personne, mode |-> "cascade", issue |-> "absente"]
Repos == [commande |-> Personne, etape |-> "repos", mode |-> "cascade", reste |-> {}]

VARIABLES
  etat, coursier, \* the order's trunk, its delivery's courier
  affectees,      \* livraison.affectee written: <<order, courier>>
  tardives,       \* orders past the delay of the broadcast
  annonce,        \* orders with an event for the pipeline in the outbox
  offre,          \* the rows of dispatch.offre
  echues,         \* offers past their deadline
  passage,        \* the passes in flight
  acceptation, refus, \* the requests of couriers in flight, per offer
  relances,       \* refused offers whose order is to be dispatched at once
  arrets          \* crashes so far

base == <<etat, coursier, affectees>>
registre == <<offre, echues>>
requetes == <<acceptation, refus, relances>>
vars == <<base, tardives, annonce, registre, passage, requetes, arrets>>

TypeOK ==
  /\ etat \in [Commandes -> Etats]
  /\ coursier \in [Commandes -> Coursiers \cup {Personne}]
  /\ affectees \subseteq Commandes \X Coursiers
  /\ tardives \subseteq Commandes /\ annonce \subseteq Commandes
  /\ offre \in [Offres -> [commande : Commandes, coursier : Coursiers, mode : Modes,
                           issue : Issues \ {"absente"}] \cup {Vide}]
  /\ echues \subseteq Offres
  /\ passage \in [Executants -> [commande : Commandes, etape : {"choix", "file", "fini"},
                                 mode : Modes, reste : SUBSET Coursiers] \cup {Repos}]
  /\ acceptation \in [Offres -> {"repos", "lue", "affectee"}]
  /\ refus \in [Offres -> {"repos", "lue"}]
  /\ relances \subseteq Offres /\ arrets \in 0..ArretsMax

\* Only an order that waits for no payment is announced at its creation.
Init ==
  /\ etat \in [Commandes -> {"nouvelle", "en_attente_paiement"}]
  /\ coursier = [c \in Commandes |-> Personne] /\ affectees = {}
  /\ tardives = {} /\ annonce = {c \in Commandes : etat[c] = "nouvelle"}
  /\ offre = [o \in Offres |-> Vide] /\ echues = {}
  /\ passage = [e \in Executants |-> Repos]
  /\ acceptation = [o \in Offres |-> "repos"] /\ refus = [o \in Offres |-> "repos"]
  /\ relances = {} /\ arrets = 0

-----------------------------------------------------------------------------
(* What the queries answer.                                                 *)

\* course_active reads the delivery, which leaves work when the order closes.
Closes == {c \in Commandes : etat[c] \in TroncTermine}
CourseActive(l) == \E c \in Commandes \ Closes : coursier[c] = l

EnVol(o) == offre[o].issue = "en_vol"
Ecrites == {o \in Offres : offre[o] # Vide}
OffresDe(c) == {o \in Ecrites : offre[o].commande = c}

\* deja_sollicites: whoever has a row for this order, whatever its outcome.
DejaSollicites(c) == {offre[o].coursier : o \in OffresDe(c)}
AvecOffreEnVol == {offre[o].coursier : o \in {p \in Offres : EnVol(p) /\ p \notin echues}}

\* filtrer; presence, distance, capacities, advance and blocked pairs are the
\* set of couriers that they let through.
Filtrer(c, presents) ==
  {l \in presents : ~CourseActive(l)} \ (AvecOffreEnVol \cup DejaSollicites(c))

\* The partial unique indexes on the offers in flight.
IndexLibre(c, l, mode) ==
  \A o \in Offres : EnVol(o) =>
    /\ offre[o].coursier # l
    /\ ~(offre[o].commande = c /\ offre[o].mode = "cascade" /\ mode = "cascade")

-----------------------------------------------------------------------------
(* A pass of the pipeline.                                                  *)

Passer(e, champs) == passage' = [passage EXCEPT ![e] = champs]

\* The worker marks the event published after its pass; the others are done.
Fin(e) == IF e = "worker" THEN [Repos EXCEPT !.commande = passage[e].commande, !.etape = "fini"]
          ELSE Repos

\* What starts a pass: the event, the waiting list, a refusal.
Declencher(e, c) ==
  /\ passage[e] = Repos
  /\ \/ e = "worker" /\ c \in annonce /\ UNCHANGED relances
     \/ e = "tic" /\ etat[c] = "en_attente_coursier" /\ UNCHANGED relances
     \/ /\ e = "refus"
        /\ \E o \in relances : offre[o].commande = c /\ relances' = relances \ {o}

Ouvrir(c, etape, mode, reste) ==
  [commande |-> c, etape |-> etape, mode |-> mode, reste |-> reste]

\* contexte_dispatch, filtrer, nb_offres_emises.
CommencerPassage(e, c, presents) ==
  /\ Declencher(e, c)
  /\ LET eligibles == Filtrer(c, presents)
         mode == IF Cardinality(OffresDe(c)) >= Seuil \/ c \in tardives
                 THEN "broadcast" ELSE "cascade"
         sansEffet == \/ etat[c] \notin Dispatchables
                      \/ eligibles = {} /\ etat[c] # "nouvelle"
     IN Passer(e, IF sansEffet
                  THEN IF e = "worker" THEN Ouvrir(c, "fini", "cascade", {}) ELSE Repos
                  ELSE IF eligibles = {} THEN Ouvrir(c, "file", "cascade", {})
                  ELSE Ouvrir(c, "choix", mode, eligibles))
  /\ UNCHANGED <<base, tardives, annonce, registre, acceptation, refus, arrets>>

\* conclure_vivier_vide, on an order that was read `nouvelle` (on a waiting one
\* the table refuses the prepayment and nothing else is written): money is the
\* only obstacle, or the order waits for a courier.  In both branches the table
\* decides, from the state it finds.
ExigerPrepaiement(e) ==
  /\ passage[e].etape = "file"
  /\ LET c == passage[e].commande
     IN IF VerifierTransition(TableTronc, etat[c], "en_attente_paiement", "systeme")
        THEN etat' = [etat EXCEPT ![c] = "en_attente_paiement"]
        ELSE UNCHANGED etat
  /\ Passer(e, Fin(e))
  /\ UNCHANGED <<coursier, affectees, tardives, annonce, registre, requetes, arrets>>

MettreEnAttente(e) ==
  /\ passage[e].etape = "file"
  /\ LET c == passage[e].commande
     IN IF VerifierTransition(TableTronc, etat[c], "en_attente_coursier", "systeme")
        THEN etat' = [etat EXCEPT ![c] = "en_attente_coursier"]
        ELSE UNCHANGED etat
  /\ Passer(e, Fin(e))
  /\ UNCHANGED <<coursier, affectees, tardives, annonce, registre, requetes, arrets>>

\* emettre_offre: the locks are obtained, then the row decides.
EmettreOffre(e, l, o) ==
  /\ passage[e].etape = "choix" /\ l \in passage[e].reste
  /\ passage[e].mode = "broadcast" => ~CourseActive(l)
  /\ offre[o] = Vide /\ \A p \in 1..(o - 1) : offre[p] # Vide
  /\ LET c == passage[e].commande
         mode == passage[e].mode
     IN /\ IndexLibre(c, l, mode)
        /\ offre' = [offre EXCEPT ![o] = [commande |-> c, coursier |-> l,
                                          mode |-> mode, issue |-> "en_vol"]]
        /\ Passer(e, IF mode = "cascade" THEN Fin(e) ELSE [passage[e] EXCEPT !.reste = @ \ {l}])
  /\ UNCHANGED <<base, tardives, annonce, echues, requetes, arrets>>

\* CoursierIndisponible: his lock is held, the index refuses the row, or a
\* broadcast finds him busy.  The next candidate, at once.
PasserAuSuivant(e, l) ==
  /\ passage[e].etape = "choix" /\ l \in passage[e].reste
  /\ Passer(e, [passage[e] EXCEPT !.reste = @ \ {l}])
  /\ UNCHANGED <<base, tardives, annonce, registre, requetes, arrets>>

\* CommandeDejaTenue: a cascade gives the pass up.
AbandonnerPassage(e) ==
  /\ passage[e].etape = "choix" /\ passage[e].mode = "cascade" /\ passage[e].reste # {}
  /\ Passer(e, Fin(e))
  /\ UNCHANGED <<base, tardives, annonce, registre, requetes, arrets>>

\* Every candidate was tried: broadcast opened, or a MiseEnFile that nothing
\* writes.
EpuiserCandidats(e) ==
  /\ passage[e].etape = "choix" /\ passage[e].reste = {}
  /\ Passer(e, Fin(e))
  /\ UNCHANGED <<base, tardives, annonce, registre, requetes, arrets>>

Acquitter ==
  /\ passage["worker"].etape = "fini"
  /\ annonce' = annonce \ {passage["worker"].commande}
  /\ Passer("worker", Repos)
  /\ UNCHANGED <<base, tardives, registre, requetes, arrets>>

-----------------------------------------------------------------------------
(* The couriers' answers.                                                   *)

\* accepter_offre up to the barrier: the offer is his, in flight, in time, and
\* he has no course.
LireAcceptation(o) ==
  /\ EnVol(o) /\ o \notin echues /\ ~CourseActive(offre[o].coursier)
  /\ acceptation[o] = "repos"
  /\ acceptation' = [acceptation EXCEPT ![o] = "lue"]
  /\ UNCHANGED <<base, tardives, annonce, registre, passage, refus, relances, arrets>>

\* Faulty variant: the courier is written whatever the trunk says.
AffecterSansTable(o) ==
  /\ acceptation[o] = "lue"
  /\ LET c == offre[o].commande
     IN /\ etat' = [etat EXCEPT ![c] = "en_cours"]
        /\ coursier' = [coursier EXCEPT ![c] = offre[o].coursier]
        /\ affectees' = affectees \cup {<<c, offre[o].coursier>>}
        /\ acceptation' = [acceptation EXCEPT ![o] = "affectee"]
  /\ UNCHANGED <<tardives, annonce, registre, passage, refus, relances, arrets>>

\* assigner_coursier_tx: the delivery's row is locked, the table decides, a
\* refusal undoes the whole transaction.
Affecter(o) ==
  /\ acceptation[o] = "lue"
  /\ LET c == offre[o].commande
     IN IF VerifierTransition(TableTronc, etat[c], "en_cours", "systeme")
        THEN /\ etat' = [etat EXCEPT ![c] = "en_cours"]
             /\ coursier' = [coursier EXCEPT ![c] = offre[o].coursier]
             /\ affectees' = affectees \cup {<<c, offre[o].coursier>>}
             /\ acceptation' = [acceptation EXCEPT ![o] = "affectee"]
        ELSE /\ acceptation' = [acceptation EXCEPT ![o] = "repos"]
             /\ UNCHANGED base
  /\ UNCHANGED <<tardives, annonce, registre, passage, refus, relances, arrets>>

\* The second transaction writes the outcome whatever it was.
ConfirmerAcceptation(o) ==
  /\ acceptation[o] = "affectee"
  /\ offre' = [offre EXCEPT ![o].issue = "acceptee"]
  /\ acceptation' = [acceptation EXCEPT ![o] = "repos"]
  /\ UNCHANGED <<base, tardives, annonce, echues, passage, refus, relances, arrets>>

LireRefus(o) ==
  /\ EnVol(o) /\ refus[o] = "repos"
  /\ refus' = [refus EXCEPT ![o] = "lue"]
  /\ UNCHANGED <<base, tardives, annonce, registre, passage, acceptation, relances, arrets>>

\* Faulty variant: the update does not ask that the offer be in flight.
RefuserSansFiltre(o) ==
  /\ refus[o] = "lue"
  /\ offre' = [offre EXCEPT ![o].issue = "refusee"]
  /\ refus' = [refus EXCEPT ![o] = "repos"]
  /\ relances' = relances \cup {o}
  /\ UNCHANGED <<base, tardives, annonce, echues, passage, acceptation, arrets>>

\* Whether or not the update found its row, the order is dispatched again.
Refuser(o) ==
  /\ refus[o] = "lue"
  /\ offre' = IF EnVol(o) THEN [offre EXCEPT ![o].issue = "refusee"] ELSE offre
  /\ refus' = [refus EXCEPT ![o] = "repos"]
  /\ relances' = relances \cup {o}
  /\ UNCHANGED <<base, tardives, annonce, echues, passage, acceptation, arrets>>

\* conclure_non_reponse, by the tick.
ConclureNonReponse(o) ==
  /\ EnVol(o) /\ o \in echues
  /\ offre' = [offre EXCEPT ![o].issue = "non_repondue"]
  /\ UNCHANGED <<base, tardives, annonce, echues, passage, requetes, arrets>>

-----------------------------------------------------------------------------
(* Around the dispatch: the order's other writers, time, crashes.          *)

\* confirmer_prepaiement, with its event.  One event of an order is in the
\* outbox at a time (bound): a payment takes longer than a publication.
ConfirmerPrepaiement(c) ==
  /\ VerifierTransition(TableTronc, etat[c], "nouvelle", "systeme") /\ c \notin annonce
  /\ etat' = [etat EXCEPT ![c] = "nouvelle"]
  /\ annonce' = annonce \cup {c}
  /\ UNCHANGED <<coursier, affectees, tardives, registre, passage, requetes, arrets>>

\* retirer_coursier, by a recovery.
RetirerCoursier(c) ==
  /\ VerifierTransition(TableTronc, etat[c], "en_attente_coursier", "systeme")
  /\ coursier[c] # Personne
  /\ etat' = [etat EXCEPT ![c] = "en_attente_coursier"]
  /\ coursier' = [coursier EXCEPT ![c] = Personne]
  /\ UNCHANGED <<affectees, tardives, annonce, registre, passage, requetes, arrets>>

Clore(c) ==
  /\ \/ VerifierTransition(TableTronc, etat[c], "annulee", "client")
        /\ etat' = [etat EXCEPT ![c] = "annulee"]
     \/ VerifierTransition(TableTronc, etat[c], "terminee", "coursier")
        /\ etat' = [etat EXCEPT ![c] = "terminee"]
  /\ UNCHANGED <<coursier, affectees, tardives, annonce, registre, passage, requetes, arrets>>

Tarder(c) ==
  /\ c \notin tardives /\ tardives' = tardives \cup {c}
  /\ UNCHANGED <<base, annonce, registre, passage, requetes, arrets>>

Echoir(o) ==
  /\ EnVol(o) /\ o \notin echues /\ echues' = echues \cup {o}
  /\ UNCHANGED <<base, tardives, annonce, offre, passage, requetes, arrets>>

\* The process dies: passes, requests and relaunches are lost; the rows and
\* the outbox stay.
Arreter ==
  /\ arrets < ArretsMax /\ arrets' = arrets + 1
  /\ passage' = [e \in Executants |-> Repos]
  /\ acceptation' = [o \in Offres |-> "repos"] /\ refus' = [o \in Offres |-> "repos"]
  /\ relances' = {}
  /\ UNCHANGED <<base, tardives, annonce, registre>>

-----------------------------------------------------------------------------
Passage(e) ==
  \/ \E c \in Commandes, presents \in SUBSET Coursiers : CommencerPassage(e, c, presents)
  \/ ExigerPrepaiement(e) \/ MettreEnAttente(e) \/ EpuiserCandidats(e) \/ AbandonnerPassage(e)
  \/ \E l \in Coursiers : PasserAuSuivant(e, l) \/ \E o \in Offres : EmettreOffre(e, l, o)

Repondre(o) == LireAcceptation(o) \/ Affecter(o) \/ ConfirmerAcceptation(o)
               \/ LireRefus(o) \/ Refuser(o)

Next ==
  \/ \E e \in Executants : Passage(e)
  \/ Acquitter \/ Arreter
  \/ \E o \in Offres : Repondre(o) \/ ConclureNonReponse(o) \/ Echoir(o)
  \/ \E c \in Commandes : ConfirmerPrepaiement(c) \/ RetirerCoursier(c) \/ Clore(c) \/ Tarder(c)

\* The tick comes every five seconds, the outbox is retried, a request ends,
\* time passes; nothing is asked of clients and couriers.
Fairness ==
  /\ \A e \in Executants : WF_vars(Passage(e))
  /\ WF_vars(Acquitter)
  /\ \A o \in Offres : /\ WF_vars(ConclureNonReponse(o)) /\ WF_vars(Echoir(o))
                        /\ WF_vars(Affecter(o)) /\ WF_vars(ConfirmerAcceptation(o))
                        /\ WF_vars(Refuser(o))

Spec == Init /\ [][Next]_vars /\ Fairness

-----------------------------------------------------------------------------
(* What holds.                                                              *)

\* A concluded offer stays concluded, whichever of the two answers and the
\* tick comes second; only an acceptance that has assigned the order overrides
\* a refusal or a silence written meanwhile.
IssueDefinitive ==
  [][\A o \in Offres :
       offre[o].issue \notin {"absente", "en_vol"} /\ offre'[o] # offre[o]
         => /\ offre'[o] = [offre[o] EXCEPT !.issue = "acceptee"]
            /\ <<offre[o].commande, offre[o].coursier>> \in affectees]_vars

Ideal == INSTANCE AttributionIdeale
  WITH preneur <- [c \in Commandes |-> IF etat[c] = "en_cours" THEN coursier[c] ELSE Personne],
       closes <- Closes,
       sollicites <- {<<offre[o].commande, offre[o].coursier>> : o \in Ecrites},
       preneurs <- affectees,
       confirmes <- {<<offre[o].commande, offre[o].coursier>> :
                       o \in {p \in Offres : offre[p].issue = "acceptee"}}

\* Passes, offers, answers, crashes and the loss of Redis implement the promise
\* on who holds an order.
AttributionTenue == Ideal!Spec

=============================================================================
