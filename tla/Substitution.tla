---------------------------- MODULE Substitution ----------------------------
(***************************************************************************)
(* What happens to an order's lines when an article is missing             *)
(* (substitution.rs): the courier withdraws a line or proposes another     *)
(* article, the client answers within a window, a sweep closes what nobody *)
(* answered, a stop found closed loses its lines, a stop is paid for; and  *)
(* after each change the amounts of the order and of its stops are         *)
(* computed again from the lines that live.                                *)
(*                                                                         *)
(* The courier, the client and the sweep are at most one transaction each. *)
(* A transaction that changes lines takes three steps here: its rows are   *)
(* locked and written, the order's total is summed, and the rest is        *)
(* written and committed.  The others see its writes at the commit.  The   *)
(* quote of the delivery is a constant added to the total and left out.    *)
(***************************************************************************)
EXTENDS FiniteSetsExt, Integers

CONSTANTS
  Arrets,        \* the collection stops
  NbLignes,      \* lines of the order at each stop
  Propositions,  \* the uuid_client of the courier's proposals
  Prix,          \* the frozen price of a line
  Proposes,      \* the prices the courier may propose
  EcartMax,      \* substitution.ecart_prix_max_pourcent
  Retenue,       \* what the frozen quote has the vendor pay of the delivery
  PannesMax      \* bound on the transactions rolled back

ASSUME PrixAssumption ==
  Prix \in Nat /\ Proposes \subseteq Nat /\ EcartMax \in Nat /\ Retenue \in Nat
ASSUME BornesAssumption == NbLignes \in Nat /\ PannesMax \in Nat

Lignes == Arrets \X (1..NbLignes)
LignesDe(a) == {l \in Lignes : l[1] = a}
Acteurs == {"coursier", "client", "balayage"}

VARIABLES
  ligne,     \* ligne_commande: its status, and its price, replaced or frozen
  sub,       \* substitution, by uuid_client
  echues,    \* the proposals whose deadline has passed
  articles,  \* commande.montant_articles_unites
  statut,    \* arret.statut; `a_collecter` stands for the open ones
  avance,    \* arret.montant_avance
  tx,        \* each actor's request, then transaction
  sommes,    \* and the total it has computed
  releve,    \* what the sweep has still to close
  depassee,  \* the total was written after a commit its sum had not seen
  pannes     \* transactions rolled back so far

tables == <<ligne, sub, articles, statut, avance>>
requetes == <<tx, sommes, releve>>
vars == <<tables, echues, requetes, depassee, pannes>>

Vide == [issue |-> "aucune", lignes |-> {}, prix |-> 0]
Issues == {"aucune", "en_attente", "acceptee", "refusee", "expiree_appel"}
Gestes == {"retirer", "accepter", "refuser", "expirer", "indisponible"}

Repos == [phase |-> "repos", geste |-> "retirer", lignes |-> {}, sub |-> {}, prix |-> 0,
          doublee |-> FALSE]
Requete(geste, lignes) == [Repos EXCEPT !.phase = "lue", !.geste = geste, !.lignes = lignes]
RequeteSur(geste, p) ==
  [Requete(geste, sub[p].lignes) EXCEPT !.sub = {p}, !.prix = sub[p].prix]

TypeOK ==
  /\ ligne \in [Lignes -> [statut : {"presente", "retiree", "remplacee"}, prix : Nat]]
  /\ sub \in [Propositions -> [issue : Issues, lignes : SUBSET Lignes, prix : Nat]]
  /\ echues \subseteq Propositions /\ releve \subseteq Propositions
  /\ articles \in Nat
  /\ statut \in [Arrets -> {"a_collecter", "collecte", "indisponible"}]
  /\ avance \in [Arrets -> Nat]
  /\ tx \in [Acteurs -> [phase : {"repos", "lue", "ecrite", "sommee"}, geste : Gestes,
                         lignes : SUBSET Lignes, sub : SUBSET Propositions, prix : Nat,
                         doublee : BOOLEAN]]
  /\ sommes \in [Acteurs -> Nat]
  /\ depassee \in BOOLEAN
  /\ pannes \in 0..PannesMax

-----------------------------------------------------------------------------
(* The amounts (reviser_montants).                                          *)

Vivantes(lignes) == {l \in Lignes : lignes[l].statut # "retiree"}

Montant(lignes, parmi) ==
  MapThenSumSet(LAMBDA l : lignes[l].prix, parmi \cap Vivantes(lignes))

Init ==
  /\ ligne = [l \in Lignes |-> [statut |-> "presente", prix |-> Prix]]
  /\ sub = [p \in Propositions |-> Vide] /\ echues = {} /\ releve = {}
  /\ articles = Montant(ligne, Lignes)
  /\ statut = [a \in Arrets |-> "a_collecter"]
  /\ avance = [a \in Arrets |-> Montant(ligne, LignesDe(a))]
  /\ tx = [q \in Acteurs |-> Repos] /\ sommes = [q \in Acteurs |-> 0]
  /\ depassee = FALSE /\ pannes = 0

\* Faulty variant: a client who does not refuse accepts.
VueParDefaut(q) ==
  [l \in Lignes |->
     IF l \notin tx[q].lignes THEN ligne[l]
     ELSE IF tx[q].geste \in {"accepter", "expirer"}
          THEN [statut |-> "remplacee", prix |-> tx[q].prix]
          ELSE [ligne[l] EXCEPT !.statut = "retiree"]]

\* The lines as the transaction of q sees them, its writes included: replaced if
\* the client accepts, out of the order in every other case.
Vue(q) ==
  [l \in Lignes |->
     IF l \notin tx[q].lignes THEN ligne[l]
     ELSE IF tx[q].geste = "accepter" THEN [statut |-> "remplacee", prix |-> tx[q].prix]
     ELSE [ligne[l] EXCEPT !.statut = "retiree"]]

-----------------------------------------------------------------------------
(* One transaction over lines.                                              *)

EnVol(q) == tx[q].phase \in {"ecrite", "sommee"}

\* A stop found closed keeps its row locked from its first statement.
ArretTenu == tx["coursier"].geste = "indisponible" /\ tx["coursier"].phase # "repos"

\* The rows that q is about to write are free.
Libres(q) ==
  \A r \in Acteurs \ {q} :
    EnVol(r) => tx[r].lignes \cap tx[q].lignes = {} /\ tx[r].sub \cap tx[q].sub = {}

\* The client's answer is the only one to look at the issue under its lock.
EcrireLignes(q) ==
  /\ tx[q].phase = "lue" /\ Libres(q)
  /\ tx' = [tx EXCEPT ![q] = IF q = "client" /\ \E p \in @.sub : sub[p].issue # "en_attente"
                             THEN Repos ELSE [@ EXCEPT !.phase = "ecrite"]]
  /\ UNCHANGED <<tables, echues, sommes, releve, depassee, pannes>>

\* Faulty variant: summed before the lines are written.
SommerAvant(q) ==
  /\ tx[q].phase = "ecrite"
  /\ tx' = [tx EXCEPT ![q].phase = "sommee"]
  /\ sommes' = [sommes EXCEPT ![q] = Montant(ligne, Lignes)]
  /\ UNCHANGED <<tables, echues, releve, depassee, pannes>>

Sommer(q) ==
  /\ tx[q].phase = "ecrite"
  /\ tx' = [tx EXCEPT ![q].phase = "sommee"]
  /\ sommes' = [sommes EXCEPT ![q] = Montant(Vue(q), Lignes)]
  /\ UNCHANGED <<tables, echues, releve, depassee, pannes>>

IssueDe(q, p) ==
  IF p \notin tx[q].sub THEN sub[p].issue
  ELSE CASE tx[q].geste = "accepter" -> "acceptee"
         [] tx[q].geste = "refuser" -> "refusee"
         [] OTHER -> "expiree_appel"

\* The stop that q has found closed.
Ferme(q, a) == tx[q].geste = "indisponible" /\ tx[q].lignes \cap LignesDe(a) # {}

\* Faulty variant: the stops keep the amounts of the creation.
AvanceSansRevision(q) == [a \in Arrets |-> IF Ferme(q, a) THEN 0 ELSE avance[a]]

\* Faulty variant: the stops already collected follow too.
AvanceSansFiltre(q) ==
  [a \in Arrets |-> IF Ferme(q, a) THEN 0 ELSE Montant(Vue(q), LignesDe(a))]

\* What the stops of the order are to cost after the revision of q: only the
\* open ones are computed again, from the lines as they are by then.
AvanceRevisee(q) ==
  [a \in Arrets |-> IF Ferme(q, a) THEN 0
                    ELSE IF statut[a] # "a_collecter" THEN avance[a]
                    ELSE Montant(Vue(q), LignesDe(a))]

\* The order's row is locked by then: nobody else commits a line.
Valider(q) ==
  /\ tx[q].phase = "sommee"
  /\ q # "coursier" => ~ArretTenu
  /\ ligne' = Vue(q)
  /\ sub' = [p \in Propositions |-> [sub[p] EXCEPT !.issue = IssueDe(q, p)]]
  /\ articles' = sommes[q] /\ depassee' = tx[q].doublee
  /\ statut' = [a \in Arrets |-> IF Ferme(q, a) THEN "indisponible" ELSE statut[a]]
  /\ avance' = AvanceRevisee(q)
  /\ tx' = [r \in Acteurs |-> IF r = q THEN Repos
                              ELSE [tx[r] EXCEPT !.doublee = @ \/ tx[r].phase = "sommee"]]
  /\ sommes' = [sommes EXCEPT ![q] = 0]
  /\ UNCHANGED <<echues, releve, pannes>>

-----------------------------------------------------------------------------
(* The courier.                                                             *)

CoursierLibre == tx["coursier"].phase = "repos"

\* ligne_en_rupture, on the pool: the line is looked at here, and only here.
LireLigne(l) ==
  /\ CoursierLibre
  /\ ligne[l].statut = "presente"
  /\ tx' = [tx EXCEPT !["coursier"] = Requete("retirer", {l})]
  /\ UNCHANGED <<tables, echues, sommes, releve, depassee, pannes>>

\* Percent, truncated towards zero; nothing is measured against a null price.
EcartPourcent(origine, propose) ==
  IF origine = 0 THEN 0
  ELSE IF propose >= origine THEN ((propose - origine) * 100) \div origine
  ELSE 0 - (((origine - propose) * 100) \div origine)

\* ouvrir_proposition, against the frozen price; its uuid makes a row once.
OuvrirProposition(p, prix) ==
  /\ tx["coursier"].phase = "lue" /\ tx["coursier"].geste = "retirer"
  /\ sub[p].issue = "aucune"
  /\ EcartPourcent(Prix, prix) \in (0 - EcartMax)..EcartMax
  /\ sub' = [sub EXCEPT ![p] = [issue |-> "en_attente", lignes |-> tx["coursier"].lignes,
                                prix |-> prix]]
  /\ tx' = [tx EXCEPT !["coursier"] = Repos]
  /\ UNCHANGED <<ligne, articles, statut, avance, echues, sommes, releve, depassee, pannes>>

\* marquer_arret_indisponible: the lines still present are read, then written;
\* without any, no amount is revised but the stop's.  PannesMax bounds it: after
\* the last rollback no deadlock is begun.
ConstaterFerme(a) ==
  /\ CoursierLibre /\ pannes < PannesMax
  /\ statut[a] = "a_collecter"
  /\ LET presentes == {l \in LignesDe(a) : ligne[l].statut = "presente"} IN
       IF presentes = {}
       THEN /\ statut' = [statut EXCEPT ![a] = "indisponible"]
            /\ avance' = [avance EXCEPT ![a] = 0]
            /\ UNCHANGED tx
       ELSE /\ tx' = [tx EXCEPT !["coursier"] = Requete("indisponible", presentes)]
            /\ UNCHANGED <<statut, avance>>
  /\ UNCHANGED <<ligne, sub, articles, echues, sommes, releve, depassee, pannes>>

\* What the vendor keeps of the delivery, on an order with one stop.
RetenueApplicable == IF Cardinality(Arrets) = 1 THEN Retenue ELSE 0

Plafonner(n, max) == IF n > max THEN max ELSE n

\* marquer_arret_collecte: the lines are summed under the stop's lock, which
\* every revision wants before it commits.
Collecter(a) ==
  /\ CoursierLibre
  /\ statut[a] = "a_collecter"
  /\ LET brut == Montant(ligne, LignesDe(a)) IN
       avance' = [avance EXCEPT ![a] = brut - Plafonner(RetenueApplicable, brut)]
  /\ statut' = [statut EXCEPT ![a] = "collecte"]
  /\ UNCHANGED <<ligne, sub, articles, echues, requetes, depassee, pannes>>

-----------------------------------------------------------------------------
(* The client, the sweep, time and what goes wrong.                         *)

\* The hour of an answer is that of its request; late, it changes nothing.
DemanderDecision(p, geste) ==
  /\ tx["client"].phase = "repos"
  /\ sub[p].issue = "en_attente" /\ p \notin echues
  /\ tx' = [tx EXCEPT !["client"] = RequeteSur(geste, p)]
  /\ UNCHANGED <<tables, echues, sommes, releve, depassee, pannes>>

\* Faulty variant: a proposal whose line has left the order is not selected.
ReleverPresentes ==
  /\ tx["balayage"].phase = "repos" /\ releve = {}
  /\ releve' = {p \in echues : sub[p].issue = "en_attente"
                               /\ \A l \in sub[p].lignes : ligne[l].statut = "presente"}
  /\ UNCHANGED <<tables, echues, tx, sommes, depassee, pannes>>

\* expirer_substitutions_echues reads on the pool, then closes one by one.
Relever ==
  /\ tx["balayage"].phase = "repos" /\ releve = {}
  /\ releve' = {p \in echues : sub[p].issue = "en_attente"}
  /\ UNCHANGED <<tables, echues, tx, sommes, depassee, pannes>>

Expirer(p) ==
  /\ tx["balayage"].phase = "repos" /\ p \in releve
  /\ releve' = releve \ {p}
  /\ tx' = [tx EXCEPT !["balayage"] = RequeteSur("expirer", p)]
  /\ UNCHANGED <<tables, echues, sommes, depassee, pannes>>

Echoir(p) ==
  /\ sub[p].issue = "en_attente" /\ p \notin echues
  /\ echues' = echues \cup {p}
  /\ UNCHANGED <<tables, requetes, depassee, pannes>>

\* The first error of a sweep ends it.
Annuler(q) ==
  /\ tx' = [tx EXCEPT ![q] = Repos] /\ sommes' = [sommes EXCEPT ![q] = 0]
  /\ releve' = IF q = "balayage" THEN {} ELSE releve
  /\ pannes' = IF pannes < PannesMax THEN pannes + 1 ELSE pannes
  /\ UNCHANGED <<tables, echues, depassee>>

\* A crash, a lost connection.
Abandonner(q) == tx[q].phase # "repos" /\ pannes < PannesMax /\ Annuler(q)

\* The stop is locked before the lines and the order, or after: the database
\* takes a victim.
Interblocage(q, victime) ==
  /\ ArretTenu /\ q # "coursier" /\ tx[q].phase = "sommee"
  /\ victime \in {q, "coursier"} /\ Annuler(victime)

-----------------------------------------------------------------------------
Coursier ==
  \/ \E l \in Lignes : LireLigne(l)
  \/ \E p \in Propositions, prix \in Proposes : OuvrirProposition(p, prix)
  \/ \E a \in Arrets : ConstaterFerme(a) \/ Collecter(a)

Client == \E p \in Propositions : DemanderDecision(p, "accepter") \/ DemanderDecision(p, "refuser")

Balayage == Relever \/ \E p \in Propositions : Expirer(p)

Victime(q) == \E v \in Acteurs : Interblocage(q, v)

Incident == \E q \in Acteurs : Abandonner(q) \/ Victime(q)

Temps == \E p \in Propositions : Echoir(p)

Avancer(q) == EcrireLignes(q) \/ Sommer(q) \/ Valider(q)

Next ==
  \/ \E q \in Acteurs : Avancer(q)
  \/ Coursier \/ Client \/ Balayage \/ Temps \/ Incident

\* Time passes, the sweep comes every few seconds, a transaction that has begun
\* goes on, the waiters of a row are served in turn and those who wait for each
\* other are found.  Nobody has to answer.
Fairness ==
  /\ \A p \in Propositions : WF_vars(Echoir(p))
  /\ WF_vars(Balayage)
  /\ \A q \in Acteurs : WF_vars(Avancer(q)) /\ WF_vars(Victime(q))
  /\ SF_vars(EcrireLignes("coursier"))

Spec == Init /\ [][Next]_vars /\ Fairness

-----------------------------------------------------------------------------
(* What holds.                                                              *)

\* Nothing is billed at another price than the frozen one unless the client has
\* accepted that price (clore_substitution), whatever answers, sweeps and
\* withdrawals cross.
ConsentementAuPrix ==
  \A l \in Lignes :
    ligne[l].statut = "remplacee" =>
      \E p \in Propositions : /\ sub[p].issue = "acceptee"
                              /\ sub[p].lignes = {l} /\ sub[p].prix = ligne[l].prix

\* The total is that of the living lines (reviser_montants), but for one case:
\* two revisions at once, when the last to commit had not seen the other.
TotalDesLignesVivantes == ~depassee => articles = Montant(ligne, Lignes)

\* What an open stop is to cost is always that of its living lines, even then:
\* the stops are summed after the order's row is locked.
AvanceExacte ==
  \A a \in Arrets : statut[a] = "a_collecter" => avance[a] = Montant(ligne, LignesDe(a))

\* What the courier has paid is never written again, nor what he has not paid at
\* a closed stop.
AvanceFigee ==
  [][\A a \in Arrets : statut[a] # "a_collecter" => avance'[a] = avance[a]]_vars

\* A proposal does not outlive its window for ever: it is decided.
PropositionConclue ==
  \A p \in Propositions : sub[p].issue = "en_attente" ~> sub[p].issue # "en_attente"

=============================================================================
