------------------------------- MODULE Caisse -------------------------------
(***************************************************************************)
(* The courier's cash book (crates/coursier: caisse.rs, creance.rs,        *)
(* indemnisation.rs) and the worker of the outbox that feeds it            *)
(* (crates/socle/src/outbox/worker.rs), for one order.                     *)
(*                                                                         *)
(* The order's transactions write events in the journal.  A worker locks   *)
(* the pending events it finds, gives them one by one to the consumers and *)
(* marks those that went through when it commits.  A consumer reads on the *)
(* pool and writes in a transaction of its own, which the worker's         *)
(* rollback does not undo: an event is consumed at least once, and what    *)
(* makes a replay harmless is the unique key of each row it writes.        *)
(***************************************************************************)
EXTENDS FiniteSetsExt, Integers

CONSTANTS
  Arrets,            \* the collection stops
  Trajets,           \* the sets of stops an order may have
  Drapeaux,          \* the sets of flags and offers its quote may meet
  Coursiers,
  Personne,          \* no courier: coursier_id is null
  Workers,           \* the instances of the worker
  PrixArticles,      \* what the articles of a stop may cost
  Part,              \* the courier's part of the quote, rounding included
  Marge,             \* the margin of the rule
  AffectationsMax,   \* bound on the assignments
  ArretsEchecMax,    \* bound on the stops of an order that meets the failure tree
  PannesMax          \* bound on the failures of the worker

ASSUME PersonneAssumption == Personne \notin Coursiers
ASSUME ArretsAssumption ==
  IsFiniteSet(Arrets) /\ Arrets \cap {"livree", "echec", "annulation"} = {}
ASSUME TrajetsAssumption == Trajets \subseteq (SUBSET Arrets) \ {{}}
ASSUME MontantsAssumption == PrixArticles \subseteq Nat /\ Part \in Nat /\ Marge \in Nat
ASSUME BornesAssumption ==
  AffectationsMax \in Nat /\ ArretsEchecMax \in Nat /\ PannesMax \in Nat

\* The events the book listens to: arret.collecte of each stop, livraison.livree,
\* indemnisation.due of the failure tree and of a cancellation.
Charges == {"echec", "annulation"}
Evenements == Arrets \cup {"livree"} \cup Charges
Natures == {"avance_prepayee", "part_course"}

VARIABLES
  devis,           \* the stops and amounts frozen at the creation, the way to pay
  coursier,        \* livraison.coursier_id
  statut,          \* how the delivery stands
  affectations,    \* assignments so far
  journal,         \* outbox.evenement: absent, pending or published
  charge,          \* the payloads of indemnisation.due
  lot,             \* what each worker holds, has still to consume, has consumed
  lu,              \* and what its consumer has read for the current event
  livre,           \* ecriture_caisse
  creances,        \* creance
  indemnisation,   \* indemnisation.etat, by event
  orphelines,      \* the stops consumed while nobody was on the delivery
  bilan,           \* whether the delivery was settled with every advance in the book
  pannes           \* failures so far

commande == <<devis, coursier, statut, affectations>>
caisse == <<livre, creances, indemnisation, orphelines, bilan>>
vars == <<commande, journal, charge, lot, lu, caisse, pannes>>

Neant == [qui |-> Personne, montant |-> 0]
SansLot == [tenus |-> {}, reste |-> {}, faits |-> {}]
SansLecture == [evt |-> {}, qui |-> Personne, avances |-> 0]

\* The amounts that come from sums are left out.
TypeOK ==
  /\ devis \in [arrets : SUBSET Arrets, articles : Nat, mode : {"cash", "mobile_money"},
                marge : Nat, prix : Nat, retenue : Nat]
  /\ coursier \in Coursiers \cup {Personne}
  /\ statut \in {"en_cours", "livree", "annulee"}
  /\ affectations \in 0..AffectationsMax /\ pannes \in 0..PannesMax
  /\ journal \in [Evenements -> {"absent", "attente", "publie"}]
  /\ charge \in [Charges -> [qui : Coursiers \cup {Personne}, montant : Int]]
  /\ lot \in [Workers -> [tenus : SUBSET Evenements, reste : SUBSET Evenements,
                          faits : SUBSET Evenements]]
  /\ DOMAIN lu = Workers
  /\ indemnisation \in [Charges -> {"aucune", "demandee", "validee", "refusee"}]
  /\ orphelines \subseteq Arrets /\ bilan \in {"aucun", "complet", "partiel"}

-----------------------------------------------------------------------------
(* Amounts.                                                                 *)

Positif(n) == IF n > 0 THEN n ELSE 0
Plafonner(n, max) == IF n > max THEN max ELSE n

\* The pipeline of the quote, from the rounding on: the zone's flags, then the
\* vendor's offer, which only plays on an order of one vendor.
Devis(arrets, articles, mode, drapeaux) ==
  LET marge == IF "gratuite_commissions" \in drapeaux THEN 0 ELSE Marge
      prix == IF "livraison_offerte_mefali" \in drapeaux THEN 0 ELSE Part + marge
      retenue == IF "offre_vendeur" \in drapeaux /\ Cardinality(arrets) = 1
                 THEN prix ELSE 0 IN
    [arrets |-> arrets, articles |-> articles, mode |-> mode, marge |-> marge,
     prix |-> prix - retenue, retenue |-> retenue]

\* What the courier pays at a stop (marquer_arret_collecte): the vendor's
\* retention is taken off, as far as the articles go.
Avance == devis.articles - Plafonner(devis.retenue, devis.articles)

Total == devis.articles * Cardinality(devis.arrets) + devis.prix

FraisEncaisses(total, avances) == Positif(total - avances)

PartCourse(part, frais, marge) == Positif(part - Positif(frais - marge))

Somme(ecritures) == MapThenSumSet(LAMBDA e : e.montant, ecritures)
DeType(type) == {e \in livre : e.type = type}

\* avances_de_livraison: the advances in the book at that moment, whoever's.
AvancesPortees == 0 - Somme(DeType("avance"))

Init ==
  /\ \E arrets \in Trajets, articles \in PrixArticles,
        mode \in {"cash", "mobile_money"}, drapeaux \in Drapeaux :
       devis = Devis(arrets, articles, mode, drapeaux)
  /\ coursier = Personne /\ statut = "en_cours" /\ affectations = 0
  /\ journal = [e \in Evenements |-> "absent"] /\ charge = [e \in Charges |-> Neant]
  /\ lot = [w \in Workers |-> SansLot] /\ lu = [w \in Workers |-> SansLecture]
  /\ livre = {} /\ creances = {} /\ indemnisation = [e \in Charges |-> "aucune"]
  /\ orphelines = {} /\ bilan = "aucun" /\ pannes = 0

-----------------------------------------------------------------------------
(* The order: each transaction writes its event.                            *)

Emettre(e) == journal' = [journal EXCEPT ![e] = "attente"]
Collectes == {a \in devis.arrets : journal[a] # "absent"}

Affecter(c) ==
  /\ statut = "en_cours" /\ coursier = Personne /\ affectations < AffectationsMax
  /\ coursier' = c /\ affectations' = affectations + 1
  /\ UNCHANGED <<devis, statut, journal, charge, lot, lu, caisse, pannes>>

\* retirer_coursier: the recovery before the first collection, an administrator's
\* after it (reprendre_manuellement).
Retirer ==
  /\ statut = "en_cours" /\ coursier # Personne
  /\ coursier' = Personne
  /\ UNCHANGED <<devis, statut, affectations, journal, charge, lot, lu, caisse, pannes>>

Collecter(a) ==
  /\ statut = "en_cours" /\ coursier # Personne
  /\ a \in devis.arrets /\ journal[a] = "absent"
  /\ Emettre(a)
  /\ UNCHANGED <<commande, charge, lot, lu, caisse, pannes>>

Livrer ==
  /\ statut = "en_cours" /\ coursier # Personne
  /\ Collectes = devis.arrets
  /\ statut' = "livree" /\ Emettre("livree")
  /\ UNCHANGED <<devis, coursier, affectations, charge, lot, lu, caisse, pannes>>

\* arret.montant_avance: the articles, until the stop is paid for.
MontantAvance(a) == IF journal[a] = "absent" THEN devis.articles ELSE Avance

\* declarer_echec, on one of the issues that compensate: the advance of the stop
\* it names or else the whole total, and the part.  The delivery goes on.  The
\* bound ArretsEchecMax keeps this case to the short orders.
Echouer(enJeu) ==
  /\ statut = "en_cours" /\ coursier # Personne /\ journal["echec"] = "absent"
  /\ Cardinality(devis.arrets) <= ArretsEchecMax
  /\ charge' = [charge EXCEPT !["echec"] = [qui |-> coursier, montant |-> enJeu + Part]]
  /\ Emettre("echec")
  /\ UNCHANGED <<commande, lot, lu, caisse, pannes>>

\* annuler_commande: the part is due once something was bought, and the event
\* names no courier.
Annuler ==
  /\ statut = "en_cours" /\ statut' = "annulee"
  /\ IF Collectes # {}
     THEN /\ Emettre("annulation")
          /\ charge' = [charge EXCEPT !["annulation"] = [qui |-> Personne, montant |-> Part]]
     ELSE UNCHANGED <<journal, charge>>
  /\ UNCHANGED <<devis, coursier, affectations, lot, lu, caisse, pannes>>

-----------------------------------------------------------------------------
(* The book.                                                                *)

\* Faulty variant: the fees take the key of the refund.
CleDeLEvenement(e, discriminant) == <<e, "evenement">>

\* evenement_derive: a key of its own for each row born of the same event.
Cle(e, discriminant) == <<e, discriminant>>

Ecriture(type, qui, montant, cle) ==
  [type |-> type, qui |-> qui, montant |-> montant, cle |-> cle]
Creance(nature, qui, montant, cle, etat) ==
  [nature |-> nature, qui |-> qui, montant |-> montant, cle |-> cle, etat |-> etat]

\* ecrire_caisse: nothing for nothing, and one row per key.
Porter(e, ecritures) ==
  IF e.montant = 0 \/ \E x \in ecritures : x.cle = e.cle THEN ecritures
  ELSE ecritures \cup {e}

\* ouvrir_creance: unique by key, and by nature on a delivery.
Ouvrir(c, ouvertes) ==
  IF c.montant <= 0 \/ \E x \in ouvertes : x.cle = c.cle \/ x.nature = c.nature
  THEN ouvertes ELSE ouvertes \cup {c}

\* avance_sur_collecte: to whoever was on the delivery when it was read.
PorterAvance(a, qui) ==
  /\ livre' = IF qui = Personne THEN livre
              ELSE Porter(Ecriture("avance", qui, 0 - Avance, Cle(a, "evenement")), livre)
  /\ orphelines' = IF qui = Personne THEN orphelines \cup {a} ELSE orphelines
  /\ UNCHANGED <<creances, indemnisation, bilan>>

\* remboursement_sur_remise, prepaid: no cash has moved, two claims are born.
Crediter(qui, avances) ==
  /\ creances' = Ouvrir(Creance("part_course", qui, PartCourse(Part, 0, devis.marge),
                                Cle("livree", "part_course"), "due"),
                   Ouvrir(Creance("avance_prepayee", qui, avances,
                                  Cle("livree", "evenement"), "due"), creances))
  /\ UNCHANGED livre

\* In cash: the refund, the fees, and what the fees leave due of the part.
Rembourser(qui, avances) ==
  LET frais == FraisEncaisses(Total, avances) IN
    /\ livre' = Porter(Ecriture("frais_encaisses", qui, frais, Cle("livree", "frais_encaisses")),
                  Porter(Ecriture("remboursement", qui, avances, Cle("livree", "evenement")),
                         livre))
    /\ creances' = Ouvrir(Creance("part_course", qui, PartCourse(Part, frais, devis.marge),
                                  Cle("livree", "part_course"), "due"), creances)

Avances == Avance * Cardinality(devis.arrets)

Solder(qui, avances) ==
  /\ qui # Personne
  /\ IF devis.mode = "cash" THEN Rembourser(qui, avances) ELSE Crediter(qui, avances)
  /\ bilan' = IF bilan # "aucun" THEN bilan
              ELSE IF avances = Avances THEN "complet" ELSE "partiel"
  /\ UNCHANGED <<indemnisation, orphelines>>

\* indemnisation_demandee: nothing for nothing, nor for nobody, and one per event.
Demander(e) ==
  /\ indemnisation' = IF charge[e].montant > 0 /\ charge[e].qui # Personne
                         /\ indemnisation[e] = "aucune"
                      THEN [indemnisation EXCEPT ![e] = "demandee"] ELSE indemnisation
  /\ UNCHANGED <<livre, creances, orphelines, bilan>>

Consommer(r) ==
  \/ \E a \in Arrets : r.evt = {a} /\ PorterAvance(a, r.qui)
  \/ r.evt = {"livree"} /\ Solder(r.qui, r.avances)
  \/ \E e \in Charges : r.evt = {e} /\ Demander(e)

\* regler_creance, under the lock of the claim's row.
Regler(c) ==
  /\ c \in creances /\ c.etat = "due"
  /\ creances' = (creances \ {c}) \cup {Creance(c.nature, c.qui, c.montant, c.cle, "reglee")}
  /\ livre' = livre \cup {Ecriture("reglement", c.qui, c.montant, Cle(c.nature, "reglement"))}
  /\ UNCHANGED <<commande, journal, charge, lot, lu, indemnisation, orphelines, bilan, pannes>>

\* valider_indemnisation, refuser_indemnisation: the state guards the entry.
Decider(e, decision) ==
  /\ indemnisation[e] = "demandee"
  /\ indemnisation' = [indemnisation EXCEPT ![e] = decision]
  /\ livre' = IF decision = "refusee" THEN livre
              ELSE livre \cup {Ecriture("indemnisation", charge[e].qui, charge[e].montant,
                                        Cle(e, "indemnisation"))}
  /\ UNCHANGED <<commande, journal, charge, lot, lu, creances, orphelines, bilan, pannes>>

-----------------------------------------------------------------------------
(* The worker (traiter_un_lot).                                             *)

Verrouilles == UNION {lot[w].tenus : w \in Workers}
EnAttente == {e \in Evenements : journal[e] = "attente"} \ Verrouilles

Tenir(w, evenements) ==
  /\ lot[w] = SansLot /\ evenements # {}
  /\ lot' = [lot EXCEPT ![w] = [tenus |-> evenements, reste |-> evenements, faits |-> {}]]
  /\ UNCHANGED <<commande, journal, charge, lu, caisse, pannes>>

\* Faulty variant: only the events of an order still in progress.
PrendreEnCours(w) == statut = "en_cours" /\ Tenir(w, EnAttente)

\* SELECT ... FOR UPDATE SKIP LOCKED.
Prendre(w) == Tenir(w, EnAttente)

\* In the order of their creation: the delivery comes after its stops.
Lire(w, e) ==
  /\ lu[w] = SansLecture /\ e \in lot[w].reste
  /\ e = "livree" => lot[w].reste \cap Arrets = {}
  /\ lu' = [lu EXCEPT ![w] = [evt |-> {e}, qui |-> coursier, avances |-> AvancesPortees]]
  /\ UNCHANGED <<commande, journal, charge, lot, caisse, pannes>>

\* The worker goes on to its next event, with what is to be marked of this one.
Quitter(w, faits) ==
  /\ lot' = [lot EXCEPT ![w] = [tenus |-> @.tenus, reste |-> @.reste \ lu[w].evt,
                                faits |-> @.faits \cup faits]]
  /\ lu' = [lu EXCEPT ![w] = SansLecture]

\* The consumer's own transaction; the consumer after it may still fail.
Ecrire(w, ensuite) ==
  /\ lu[w] # SansLecture /\ Consommer(lu[w])
  /\ ensuite \/ pannes < PannesMax
  /\ Quitter(w, IF ensuite THEN lu[w].evt ELSE {})
  /\ pannes' = IF ensuite THEN pannes ELSE pannes + 1
  /\ UNCHANGED <<commande, journal, charge>>

\* Faulty variant: the error of the database is taken for a refusal, and the
\* event for consumed.
ManquerEtMarquer(w) ==
  /\ lu[w] # SansLecture /\ pannes < PannesMax
  /\ Quitter(w, lu[w].evt) /\ pannes' = pannes + 1
  /\ UNCHANGED <<commande, journal, charge, caisse>>

\* An error of the database: the event stays pending, the lot goes on.
Manquer(w) ==
  /\ lu[w] # SansLecture /\ pannes < PannesMax
  /\ Quitter(w, {}) /\ pannes' = pannes + 1
  /\ UNCHANGED <<commande, journal, charge, caisse>>

Conclure(w) ==
  /\ lot[w] # SansLot /\ lot[w].reste = {}
  /\ journal' = [e \in Evenements |-> IF e \in lot[w].faits THEN "publie" ELSE journal[e]]
  /\ lot' = [lot EXCEPT ![w] = SansLot]
  /\ UNCHANGED <<commande, charge, lu, caisse, pannes>>

\* The process dies or its transaction is rolled back: what the consumers have
\* committed stays.
Perdre(w) ==
  /\ lot[w] # SansLot /\ pannes < PannesMax
  /\ lot' = [lot EXCEPT ![w] = SansLot] /\ lu' = [lu EXCEPT ![w] = SansLecture]
  /\ pannes' = pannes + 1
  /\ UNCHANGED <<commande, journal, charge, caisse>>

-----------------------------------------------------------------------------
Commande ==
  \/ \E c \in Coursiers : Affecter(c)
  \/ \E a \in Arrets : Collecter(a)
  \/ Retirer \/ Livrer \/ Annuler
  \/ \E a \in devis.arrets : Echouer(MontantAvance(a))
  \/ Echouer(Total)

Exploitation ==
  \/ \E c \in creances : Regler(c)
  \/ \E e \in Charges : Decider(e, "validee") \/ Decider(e, "refusee")

Travailler(w) ==
  \/ Prendre(w) \/ Conclure(w) \/ Ecrire(w, TRUE)
  \/ \E e \in Evenements : Lire(w, e)

Tomber(w) == Ecrire(w, FALSE) \/ Manquer(w) \/ Perdre(w)

Next ==
  \/ Commande \/ Exploitation
  \/ \E w \in Workers : Travailler(w) \/ Tomber(w)

\* The worker's loop ticks every second.  Nobody else has to act.
Fairness == \A w \in Workers : WF_vars(Travailler(w))

Spec == Init /\ [][Next]_vars /\ Fairness

-----------------------------------------------------------------------------
(* What holds.                                                              *)

Porte(e) == \E x \in livre : x.cle = Cle(e, "evenement")

\* A collection marked as published is in somebody's book, whatever lots were
\* lost, replayed or shared (avance_sur_collecte, traiter_un_lot), but for those
\* read while nobody was on the delivery.
PublieDoncPorte ==
  \A a \in Arrets :
    journal[a] = "publie" /\ Avance > 0 => Porte(a) \/ a \in orphelines

\* A row's key is its own (caisse.rs, "une écriture par événement, jamais deux";
\* a claim is paid once, a compensation decided once): no replay, no second
\* decision books the same fact under another amount or for another courier.
UneEcritureParFait ==
  \A x, y \in livre : x.cle = y.cle => x = y

Dus == {c \in creances : c.etat = "due"}

\* detenu_pour_mefali, whose payments back are not written by any code yet.
Detenu ==
  MapThenSumSet(LAMBDA e : Plafonner(e.montant, devis.marge), DeType("frais_encaisses"))

\* The positions of the couriers of the delivery, compensations apart.
Gain == (Somme(livre \ DeType("indemnisation")) + Somme(Dus)) - Detenu

\* The ways to pay a delivery converge (creance.rs, part_course): once the
\* delivery is settled with every advance in the book, what it leaves to its
\* couriers is the part of the quote, before and after the claims are paid.
GainJuste == bilan = "complet" => Gain = Part

\* An event committed with its fact ends up published.
JournalVide == \A e \in Evenements : journal[e] = "attente" ~> journal[e] = "publie"

=============================================================================
