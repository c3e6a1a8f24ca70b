-------------------------- MODULE SubstitutionProofs --------------------------
(***************************************************************************)
(* Proofs about module Substitution, for any stops, lines, proposals and   *)
(* prices.  Sums stay opaque: what is proved is when an amount is the sum  *)
(* of the living lines, not what that sum is.                              *)
(***************************************************************************)
EXTENDS Substitution, TLAPS

\* A row of `substitution` is about one line, for ever.
LignesFormees == ligne \in [Lignes -> [statut : {"presente", "retiree", "remplacee"}, prix : Nat]]
SubsFormees ==
  /\ sub \in [Propositions -> [issue : Issues, lignes : SUBSET Lignes, prix : Nat]]
  /\ \A p \in Propositions :
       sub[p].issue # "aucune" => \E l \in Lignes : sub[p].lignes = {l}

Decisions == {"accepter", "refuser", "expirer"}

\* A request is about its proposal's line, at its price, or about no proposal;
\* what is found closed is open, and held by the courier.
Formee(q) ==
  /\ tx[q].geste \in Decisions =>
       \E p \in Propositions : /\ tx[q].sub = {p} /\ sub[p].issue # "aucune"
                               /\ tx[q].lignes = sub[p].lignes /\ tx[q].prix = sub[p].prix
  /\ tx[q].geste \notin Decisions => tx[q].sub = {}
  /\ tx[q].geste = "retirer" /\ tx[q].phase # "repos" =>
       \E l \in Lignes : tx[q].lignes = {l}
  /\ tx[q].geste = "indisponible" =>
       /\ q = "coursier" /\ tx[q].phase # "repos"
       /\ \A a \in Arrets : tx[q].lignes \cap LignesDe(a) # {} => statut[a] = "a_collecter"

Demandes ==
  [phase : {"repos", "lue", "ecrite", "sommee"}, geste : Gestes, lignes : SUBSET Lignes,
   sub : SUBSET Propositions, prix : Nat, doublee : BOOLEAN]

TxFormees ==
  /\ tx \in [Acteurs -> Demandes]
  /\ \A q \in Acteurs : Formee(q)

MontantsFormes ==
  /\ sommes = [q \in Acteurs |-> sommes[q]]
  /\ avance = [a \in Arrets |-> avance[a]] /\ statut = [a \in Arrets |-> statut[a]]

\* A sum that no commit has overtaken is that of the lines its transaction sees.
SommeFondee ==
  \A q \in Acteurs :
    tx[q].phase = "sommee" /\ ~tx[q].doublee => sommes[q] = Montant(Vue(q), Lignes)

Formes == LignesFormees /\ SubsFormees /\ TxFormees /\ MontantsFormes
IInv ==
  Formes /\ SommeFondee /\ ConsentementAuPrix /\ TotalDesLignesVivantes /\ AvanceExacte

-----------------------------------------------------------------------------
LEMMA ReposForme == Repos \in Demandes
BY DEF Repos, Demandes, Gestes

LEMMA InitFormes == Init => Formes
<1> SUFFICES ASSUME Init PROVE Formes
  OBVIOUS
<1>1. LignesFormees
  BY PrixAssumption DEF Init, LignesFormees
<1>2. SubsFormees
  BY DEF Init, SubsFormees, Vide, Issues
<1>3. TxFormees
  BY ReposForme DEF Init, TxFormees, Formee, Repos, Decisions
<1>4. MontantsFormes
  BY DEF Init, MontantsFormes
<1> QED
  BY <1>1, <1>2, <1>3, <1>4 DEF Formes

LEMMA InitIInv == Init => IInv
<1> SUFFICES ASSUME Init PROVE IInv
  OBVIOUS
<1>1. SommeFondee
  BY DEF Init, SommeFondee, Repos
<1>2. ConsentementAuPrix
  BY DEF Init, ConsentementAuPrix
<1>3. TotalDesLignesVivantes /\ AvanceExacte
  BY DEF Init, TotalDesLignesVivantes, AvanceExacte
<1> QED
  BY <1>1, <1>2, <1>3, InitFormes DEF IInv

-----------------------------------------------------------------------------
(* The forms are kept.                                                      *)

\* Once a transaction commits, its lines are replaced with the client's consent
\* or out of the order.
LEMMA VueFormee ==
  ASSUME Formes, NEW q \in Acteurs
  PROVE  /\ Vue(q) \in [Lignes -> [statut : {"presente", "retiree", "remplacee"}, prix : Nat]]
         /\ \A l \in Lignes \ tx[q].lignes : Vue(q)[l] = ligne[l]
         /\ \A l \in tx[q].lignes :
              IF tx[q].geste = "accepter"
              THEN Vue(q)[l] = [statut |-> "remplacee", prix |-> tx[q].prix]
              ELSE Vue(q)[l].statut = "retiree"
BY DEF Formes, LignesFormees, TxFormees, Demandes, Vue

LEMMA ValiderSubs ==
  ASSUME Formes, NEW q \in Acteurs, Valider(q)
  PROVE  /\ sub' \in [Propositions -> [issue : Issues, lignes : SUBSET Lignes, prix : Nat]]
         /\ \A p \in Propositions : /\ sub'[p].lignes = sub[p].lignes
                                    /\ sub'[p].prix = sub[p].prix
                                    /\ sub'[p].issue = IssueDe(q, p)
<1>1. \A p \in Propositions : IssueDe(q, p) \in Issues
  BY DEF Formes, SubsFormees, IssueDe, Issues
<1> QED
  BY <1>1 DEF Formes, SubsFormees, Valider

Memes(q) ==
  /\ tx'[q].geste = tx[q].geste /\ tx'[q].lignes = tx[q].lignes
  /\ tx'[q].sub = tx[q].sub /\ tx'[q].prix = tx[q].prix
  /\ tx'[q].phase = "repos" <=> tx[q].phase = "repos"

SubsDurent ==
  \A p \in Propositions : sub[p].issue # "aucune" =>
    /\ sub'[p].issue # "aucune"
    /\ sub'[p].lignes = sub[p].lignes /\ sub'[p].prix = sub[p].prix

LEMMA FormeeGardee ==
  ASSUME NEW q \in Acteurs, Formee(q), Memes(q), SubsDurent,
         q = "coursier" /\ tx[q].geste = "indisponible" => statut' = statut
  PROVE  Formee(q)'
<1>1. tx'[q].geste \in Decisions =>
        \E p \in Propositions : /\ tx'[q].sub = {p} /\ sub'[p].issue # "aucune"
                                /\ tx'[q].lignes = sub'[p].lignes /\ tx'[q].prix = sub'[p].prix
  BY DEF Formee, Memes, SubsDurent
<1>2. /\ tx'[q].geste \notin Decisions => tx'[q].sub = {}
      /\ tx'[q].geste = "retirer" /\ tx'[q].phase # "repos" =>
           \E l \in Lignes : tx'[q].lignes = {l}
  BY DEF Formee, Memes
<1>3. tx'[q].geste = "indisponible" =>
        /\ q = "coursier" /\ tx'[q].phase # "repos"
        /\ \A a \in Arrets : tx'[q].lignes \cap LignesDe(a) # {} => statut'[a] = "a_collecter"
  BY DEF Formee, Memes
<1> QED
  BY <1>1, <1>2, <1>3 DEF Formee

LEMMA FormeeRepos ==
  ASSUME NEW q \in Acteurs, tx'[q] = Repos
  PROVE  Formee(q)'
BY DEF Formee, Repos, Decisions

\* A step of one transaction that leaves the tables alone.
LEMMA AvancerFormes ==
  ASSUME Formes, NEW q \in Acteurs,
         EcrireLignes(q) \/ Sommer(q) \/ Annuler(q)
  PROVE  Formes'
<1> USE DEF Formes
<1>1. UNCHANGED tables
  BY DEF EcrireLignes, Sommer, Annuler
<1>2. LignesFormees' /\ SubsFormees' /\ SubsDurent /\ statut' = statut
  BY <1>1 DEF LignesFormees, SubsFormees, SubsDurent, tables
<1>3. MontantsFormes'
  BY <1>1 DEF MontantsFormes, tables, EcrireLignes, Sommer, Annuler
<1>4. tx' \in [Acteurs -> Demandes]
  <2>1. CASE EcrireLignes(q)
    <3>1. \/ tx' = [tx EXCEPT ![q] = Repos]
          \/ tx' = [tx EXCEPT ![q] = [@ EXCEPT !.phase = "ecrite"]]
      BY <2>1 DEF EcrireLignes
    <3> QED
      BY <3>1, ReposForme DEF TxFormees, Demandes
  <2>2. CASE Sommer(q)
    BY <2>2 DEF TxFormees, Sommer, Demandes
  <2>3. CASE Annuler(q)
    BY <2>3, ReposForme DEF TxFormees, Annuler
  <2> QED
    BY <2>1, <2>2, <2>3
<1>5. ASSUME NEW r \in Acteurs PROVE tx'[r] = Repos \/ Memes(r)
  BY DEF TxFormees, Demandes, EcrireLignes, Sommer, Annuler, Memes
<1>6. ASSUME NEW r \in Acteurs PROVE Formee(r)'
  BY <1>2, <1>5, FormeeRepos, FormeeGardee DEF TxFormees
<1> QED
  BY <1>2, <1>3, <1>4, <1>6 DEF TxFormees

LEMMA ValiderFormes == ASSUME Formes, NEW q \in Acteurs, Valider(q) PROVE Formes'
<1> USE DEF Formes
<1>1. LignesFormees'
  BY VueFormee DEF Valider, LignesFormees
<1>2. SubsDurent /\ SubsFormees'
  <2>1. \A p \in Propositions : IssueDe(q, p) = "aucune" => sub[p].issue = "aucune"
    BY DEF IssueDe
  <2>2. SubsDurent
    BY <2>1, ValiderSubs DEF SubsDurent
  <2>3. \A p \in Propositions : p \in tx[q].sub => sub[p].issue # "aucune"
    BY DEF TxFormees, Formee
  <2>4. \A p \in Propositions : sub'[p].issue # "aucune" => sub[p].issue # "aucune"
    BY <2>3, ValiderSubs DEF IssueDe
  <2> QED
    BY <2>2, <2>4, ValiderSubs DEF SubsFormees
<1>3. MontantsFormes'
  BY DEF MontantsFormes, Valider, AvanceRevisee
<1>4. tx' \in [Acteurs -> Demandes]
  <2>1. ASSUME NEW r \in Acteurs, r # q
        PROVE  tx'[r] = [tx[r] EXCEPT !.doublee = tx[r].doublee \/ tx[r].phase = "sommee"]
    BY <2>1 DEF Valider
  <2>2. ASSUME NEW r \in Acteurs
        PROVE  (tx[r].doublee \/ tx[r].phase = "sommee") \in BOOLEAN
    OBVIOUS
  <2>3. ASSUME NEW r \in Acteurs
        PROVE  tx'[r] \in Demandes
    <3>1. CASE r = q
      BY <3>1, ReposForme DEF Valider
    <3>2. CASE r # q
      BY <2>1, <2>2, <3>2 DEF TxFormees, Demandes
    <3> QED
      BY <3>1, <3>2
  <2> QED
    BY <2>3 DEF Valider
<1>5. ASSUME NEW r \in Acteurs PROVE Formee(r)'
  <2>1. CASE r = q
    BY <2>1, FormeeRepos DEF Valider
  <2>2. CASE r # q
    <3>1. Memes(r)
      BY <2>2 DEF Valider, Memes, TxFormees, Demandes
    <3>2. r = "coursier" => statut' = statut
      BY <2>2 DEF TxFormees, Formee, Valider, Ferme, MontantsFormes
    <3> QED
      BY <1>2, <3>1, <3>2, FormeeGardee DEF TxFormees
  <2> QED
    BY <2>1, <2>2
<1> QED
  BY <1>1, <1>2, <1>3, <1>4, <1>5 DEF TxFormees

\* The courier's requests, the client's and the sweep's, and time.
LEMMA RequetesFormees ==
  ASSUME Formes, NEW g \in Gestes,
         NEW p \in Propositions, sub[p].issue # "aucune", g \in Decisions
  PROVE  /\ RequeteSur(g, p) \in Demandes
         /\ RequeteSur(g, p).geste = g /\ RequeteSur(g, p).lignes = sub[p].lignes
         /\ RequeteSur(g, p).sub = {p} /\ RequeteSur(g, p).prix = sub[p].prix
BY DEF Formes, SubsFormees, RequeteSur, Requete, Repos, Demandes

LEMMA DemandesFormees ==
  ASSUME NEW g \in Gestes \ Decisions, NEW lignes \in SUBSET Lignes
  PROVE  /\ Requete(g, lignes) \in Demandes
         /\ Requete(g, lignes).phase = "lue"
         /\ Requete(g, lignes).geste = g /\ Requete(g, lignes).lignes = lignes
         /\ Requete(g, lignes).sub = {}
BY DEF Requete, Repos, Demandes

LEMMA LireFormes == ASSUME Formes, NEW l \in Lignes, LireLigne(l) PROVE Formes'
<1> USE DEF Formes
<1>1. LignesFormees' /\ SubsFormees' /\ SubsDurent /\ MontantsFormes' /\ statut' = statut
  BY DEF LireLigne, tables, LignesFormees, SubsFormees, SubsDurent, MontantsFormes
<1>2. "retirer" \in Gestes \ Decisions /\ {l} \in SUBSET Lignes
  BY DEF Gestes, Decisions
<1>3. tx' \in [Acteurs -> Demandes]
  BY <1>2, DemandesFormees DEF LireLigne, TxFormees
<1>4. ASSUME NEW r \in Acteurs PROVE Formee(r)'
  <2>1. CASE r = "coursier"
    BY <1>2, <2>1, DemandesFormees DEF LireLigne, TxFormees, Formee
  <2>2. CASE r # "coursier"
    BY <1>1, <2>2, FormeeGardee DEF LireLigne, TxFormees, Memes
  <2> QED
    BY <2>1, <2>2
<1> QED
  BY <1>1, <1>3, <1>4 DEF TxFormees

LEMMA OuvrirFormes ==
  ASSUME Formes, NEW p \in Propositions, NEW prix \in Proposes, OuvrirProposition(p, prix)
  PROVE  Formes'
<1> USE DEF Formes
<1>1. LignesFormees' /\ MontantsFormes' /\ statut' = statut
  BY DEF OuvrirProposition, LignesFormees, MontantsFormes
<1>2. [issue |-> "en_attente", lignes |-> tx["coursier"].lignes, prix |-> prix]
        \in [issue : Issues, lignes : SUBSET Lignes, prix : Nat]
  BY PrixAssumption DEF TxFormees, Demandes, Issues, Acteurs
<1>3. SubsFormees' /\ SubsDurent
  <2>1. \E l \in Lignes : tx["coursier"].lignes = {l}
    BY DEF OuvrirProposition, TxFormees, Formee, Acteurs
  <2> QED
    BY <1>2, <2>1 DEF OuvrirProposition, SubsFormees, SubsDurent
<1>4. tx' \in [Acteurs -> Demandes]
  BY ReposForme DEF OuvrirProposition, TxFormees
<1>5. ASSUME NEW r \in Acteurs PROVE Formee(r)'
  <2>1. CASE r = "coursier"
    BY <2>1, FormeeRepos DEF OuvrirProposition, TxFormees
  <2>2. CASE r # "coursier"
    BY <1>1, <1>3, <2>2, FormeeGardee DEF OuvrirProposition, TxFormees, Memes
  <2> QED
    BY <2>1, <2>2
<1> QED
  BY <1>1, <1>3, <1>4, <1>5 DEF TxFormees

LEMMA FermeFormes == ASSUME Formes, NEW a \in Arrets, ConstaterFerme(a) PROVE Formes'
<1> USE DEF Formes
<1> DEFINE presentes == {l \in LignesDe(a) : ligne[l].statut = "presente"}
<1>1. LignesFormees' /\ SubsFormees' /\ SubsDurent /\ MontantsFormes'
  BY DEF ConstaterFerme, LignesFormees, SubsFormees, SubsDurent, MontantsFormes
<1>2. "indisponible" \in Gestes \ Decisions /\ presentes \in SUBSET Lignes
  BY DEF Gestes, Decisions, LignesDe
<1>3. CASE tx' = tx
  <2>1. ASSUME NEW r \in Acteurs PROVE Formee(r)'
    <3>1. ~(r = "coursier" /\ tx[r].geste = "indisponible")
      BY <1>3 DEF ConstaterFerme, CoursierLibre, TxFormees, Formee
    <3> QED
      BY <1>1, <1>3, <3>1, FormeeGardee DEF TxFormees, Memes
  <2> QED
    BY <1>1, <1>3, <2>1 DEF TxFormees
<1>4. CASE tx' = [tx EXCEPT !["coursier"] = Requete("indisponible", presentes)] /\ statut' = statut
  <2>1. tx' \in [Acteurs -> Demandes]
    BY <1>2, <1>4, DemandesFormees DEF TxFormees
  <2>2. \A b \in Arrets : presentes \cap LignesDe(b) # {} => b = a
    BY DEF LignesDe
  <2>3. ASSUME NEW r \in Acteurs PROVE Formee(r)'
    <3>1. CASE r = "coursier"
      <4>1. /\ tx'[r].geste = "indisponible" /\ tx'[r].phase = "lue"
            /\ tx'[r].lignes = presentes /\ tx'[r].sub = {}
        BY <1>2, <1>4, <3>1, DemandesFormees DEF TxFormees
      <4>2. statut'[a] = "a_collecter"
        BY <1>4 DEF ConstaterFerme
      <4> QED
        BY <2>2, <3>1, <4>1, <4>2 DEF Formee, Decisions
    <3>2. CASE r # "coursier"
      BY <1>1, <1>4, <3>2, FormeeGardee DEF TxFormees, Memes
    <3> QED
      BY <3>1, <3>2
  <2> QED
    BY <1>1, <2>1, <2>3 DEF TxFormees
<1> QED
  BY <1>3, <1>4 DEF ConstaterFerme

LEMMA CollecterFormes == ASSUME Formes, NEW a \in Arrets, Collecter(a) PROVE Formes'
<1> USE DEF Formes
<1>1. LignesFormees' /\ SubsFormees' /\ SubsDurent /\ MontantsFormes' /\ tx' = tx
  BY DEF Collecter, requetes, LignesFormees, SubsFormees, SubsDurent, MontantsFormes
<1>2. ASSUME NEW r \in Acteurs PROVE Formee(r)'
  <2>1. CASE r = "coursier" /\ tx[r].geste = "indisponible"
    BY <1>1, <2>1 DEF Collecter, CoursierLibre, TxFormees, Formee
  <2>2. CASE ~(r = "coursier" /\ tx[r].geste = "indisponible")
    BY <1>1, <2>2, FormeeGardee DEF TxFormees, Memes
  <2> QED
    BY <2>1, <2>2
<1> QED
  BY <1>1, <1>2 DEF TxFormees

LEMMA DeciderFormes ==
  ASSUME Formes, NEW p \in Propositions, NEW g \in Decisions, NEW q \in Acteurs,
         sub[p].issue # "aucune",
         tx' = [tx EXCEPT ![q] = RequeteSur(g, p)], UNCHANGED <<tables, sommes>>
  PROVE  Formes'
<1> USE DEF Formes
<1>1. LignesFormees' /\ SubsFormees' /\ SubsDurent /\ MontantsFormes' /\ statut' = statut
  BY DEF tables, LignesFormees, SubsFormees, SubsDurent, MontantsFormes
<1>2. g \in Gestes
  BY DEF Decisions, Gestes
<1>3. tx' \in [Acteurs -> Demandes]
  BY <1>2, RequetesFormees DEF TxFormees
<1>4. ASSUME NEW r \in Acteurs PROVE Formee(r)'
  <2>1. CASE r = q
    BY <1>1, <1>2, <2>1, RequetesFormees DEF TxFormees, Formee, SubsDurent, Decisions
  <2>2. CASE r # q
    BY <1>1, <2>2, FormeeGardee DEF TxFormees, Memes
  <2> QED
    BY <2>1, <2>2
<1> QED
  BY <1>1, <1>3, <1>4 DEF TxFormees

\* The sweep reads, time passes.
LEMMA TempsFormes == ASSUME Formes, UNCHANGED <<tables, tx, sommes>> PROVE Formes'
BY DEF Formes, LignesFormees, SubsFormees, TxFormees, Formee, MontantsFormes, tables

-----------------------------------------------------------------------------
(* The amounts and the consent, where nothing commits.                      *)

\* No line and no total is written; who has summed stays as he was, and a stop
\* that is still open too.
Calme ==
  /\ UNCHANGED <<ligne, articles, depassee>>
  /\ \A p \in Propositions : sub[p].issue = "acceptee" => sub'[p] = sub[p]
  /\ \A q \in Acteurs : \/ tx'[q].phase # "sommee"
                        \/ tx'[q] = tx[q] /\ sommes'[q] = sommes[q]
  /\ \A a \in Arrets : statut'[a] = "a_collecter" =>
                         statut[a] = "a_collecter" /\ avance'[a] = avance[a]

LEMMA VueGardee ==
  ASSUME NEW q, ligne' = ligne, tx'[q].lignes = tx[q].lignes, tx'[q].geste = tx[q].geste,
         tx'[q].prix = tx[q].prix
  PROVE  Vue(q)' = Vue(q)
BY DEF Vue

LEMMA CalmeIInv == ASSUME IInv, Formes', Calme PROVE IInv'
<1> USE DEF IInv, Calme
<1>1. SommeFondee'
  <2>1. SUFFICES ASSUME NEW q \in Acteurs, tx'[q].phase = "sommee", ~tx'[q].doublee
                 PROVE  sommes'[q] = Montant(Vue(q)', Lignes)
    BY DEF SommeFondee
  <2>2. tx'[q] = tx[q] /\ sommes'[q] = sommes[q]
    BY <2>1
  <2>3. Vue(q)' = Vue(q)
    BY <2>2, VueGardee
  <2> QED
    BY <2>1, <2>2, <2>3 DEF SommeFondee
<1>2. ConsentementAuPrix'
  BY DEF ConsentementAuPrix
<1>3. TotalDesLignesVivantes' /\ AvanceExacte'
  BY DEF TotalDesLignesVivantes, AvanceExacte
<1> QED
  BY <1>1, <1>2, <1>3

LEMMA SommerIInv == ASSUME IInv, Formes', NEW q \in Acteurs, Sommer(q) PROVE IInv'
<1> USE DEF IInv
<1>1. SommeFondee'
  <2>1. SUFFICES ASSUME NEW r \in Acteurs, tx'[r].phase = "sommee", ~tx'[r].doublee
                 PROVE  sommes'[r] = Montant(Vue(r)', Lignes)
    BY DEF SommeFondee
  <2>2. Vue(r)' = Vue(r)
    <3>1. /\ tx'[r].lignes = tx[r].lignes /\ tx'[r].geste = tx[r].geste
          /\ tx'[r].prix = tx[r].prix
      BY DEF Sommer, Formes, TxFormees, Demandes
    <3> QED
      BY <3>1, VueGardee DEF Sommer, tables
  <2>3. CASE r = q
    BY <2>2, <2>3 DEF Sommer, Formes, MontantsFormes
  <2>4. CASE r # q
    BY <2>1, <2>2, <2>4 DEF Sommer, Formes, MontantsFormes, TxFormees, SommeFondee
  <2> QED
    BY <2>3, <2>4
<1>2. ConsentementAuPrix' /\ TotalDesLignesVivantes' /\ AvanceExacte'
  BY DEF ConsentementAuPrix, TotalDesLignesVivantes, AvanceExacte, Sommer, tables
<1> QED
  BY <1>1, <1>2

-----------------------------------------------------------------------------
(* The commit.                                                              *)

\* Whoever had summed is now overtaken.
LEMMA ValiderSomme == ASSUME IInv, NEW q \in Acteurs, Valider(q) PROVE SommeFondee'
<1> SUFFICES ASSUME NEW r \in Acteurs, tx'[r].phase = "sommee", ~tx'[r].doublee PROVE FALSE
  BY DEF SommeFondee
<1>1. CASE r = q
  BY <1>1 DEF Valider, Repos
<1>2. CASE r # q
  <2>1. tx'[r] = [tx[r] EXCEPT !.doublee = tx[r].doublee \/ tx[r].phase = "sommee"]
    BY <1>2 DEF Valider
  <2>2. tx[r] \in Demandes
    BY DEF IInv, Formes, TxFormees
  <2>3. tx'[r].phase = tx[r].phase /\ (tx[r].phase = "sommee" => tx'[r].doublee)
    BY <2>1, <2>2 DEF Demandes
  <2> QED
    BY <2>3
<1> QED
  BY <1>1, <1>2

\* The lines of the transaction are the line of its proposal, or leave the order.
LEMMA ValiderConsentement ==
  ASSUME IInv, NEW q \in Acteurs, Valider(q)
  PROVE  ConsentementAuPrix'
<1> USE DEF IInv, Formes
<1> SUFFICES ASSUME NEW l \in Lignes, ligne'[l].statut = "remplacee"
             PROVE  \E p \in Propositions : /\ sub'[p].issue = "acceptee"
                                            /\ sub'[p].lignes = {l}
                                            /\ sub'[p].prix = ligne'[l].prix
  BY DEF ConsentementAuPrix
<1>1. ligne' = Vue(q)
  BY DEF Valider
<1>2. CASE l \in tx[q].lignes
  <2>1. tx[q].geste = "accepter" /\ ligne'[l].prix = tx[q].prix
    <3>1. IF tx[q].geste = "accepter"
          THEN Vue(q)[l] = [statut |-> "remplacee", prix |-> tx[q].prix]
          ELSE Vue(q)[l].statut = "retiree"
      BY <1>2, VueFormee
    <3>2. Vue(q)[l].statut = "remplacee" /\ ligne'[l].prix = Vue(q)[l].prix
      BY <1>1
    <3> QED
      BY <3>1, <3>2
  <2>2. PICK p \in Propositions : /\ tx[q].sub = {p} /\ sub[p].issue # "aucune"
                                  /\ tx[q].lignes = sub[p].lignes /\ tx[q].prix = sub[p].prix
    BY <2>1 DEF TxFormees, Formee, Decisions
  <2>3. sub[p].lignes = {l}
    BY <1>2, <2>2 DEF SubsFormees
  <2>4. IssueDe(q, p) = "acceptee"
    BY <2>1, <2>2 DEF IssueDe
  <2> QED
    BY <2>1, <2>2, <2>3, <2>4, ValiderSubs
<1>3. CASE l \notin tx[q].lignes
  <2>1. ligne'[l] = ligne[l]
    BY <1>1, <1>3, VueFormee
  <2>2. PICK p \in Propositions : /\ sub[p].issue = "acceptee" /\ sub[p].lignes = {l}
                                  /\ sub[p].prix = ligne[l].prix
    BY <2>1 DEF ConsentementAuPrix
  <2>3. p \notin tx[q].sub
    BY <1>3, <2>2 DEF TxFormees, Formee
  <2>4. IssueDe(q, p) = "acceptee"
    BY <2>2, <2>3 DEF IssueDe
  <2> QED
    BY <2>1, <2>2, <2>4, ValiderSubs
<1> QED
  BY <1>2, <1>3

LEMMA ValiderMontants ==
  ASSUME IInv, NEW q \in Acteurs, Valider(q)
  PROVE  TotalDesLignesVivantes' /\ AvanceExacte'
<1> USE DEF IInv, Formes
<1>1. TotalDesLignesVivantes'
  <2>1. ~tx[q].doublee => sommes[q] = Montant(Vue(q), Lignes)
    BY DEF Valider, SommeFondee
  <2> QED
    BY <2>1 DEF Valider, TotalDesLignesVivantes
<1>2. AvanceExacte'
  <2> SUFFICES ASSUME NEW a \in Arrets, statut'[a] = "a_collecter"
               PROVE  avance'[a] = Montant(ligne', LignesDe(a))
    BY DEF AvanceExacte
  <2>1. ~Ferme(q, a) /\ statut[a] = "a_collecter"
    BY DEF Valider
  <2> QED
    BY <2>1 DEF Valider, AvanceRevisee
<1> QED
  BY <1>1, <1>2

-----------------------------------------------------------------------------
(* Every step.                                                              *)

\* What the sweep has still to close, and what has run out, has been proposed.
Releves ==
  /\ releve \subseteq Propositions /\ echues \subseteq Propositions
  /\ \A p \in releve : sub[p].issue # "aucune"

SInv == IInv /\ Releves

\* A request that begins or ends, time, a sweep that reads: nothing is written
\* that the amounts depend on.
LEMMA DemandeCalme ==
  ASSUME TxFormees, NEW q \in Acteurs, tx'[q].phase # "sommee",
         \A r \in Acteurs \ {q} : tx'[r] = tx[r] /\ sommes'[r] = sommes[r],
         UNCHANGED <<tables, depassee>>
  PROVE  Calme
BY DEF Calme, tables

LEMMA EcrireIInv == ASSUME IInv, NEW q \in Acteurs, EcrireLignes(q) PROVE IInv'
<1>1. Formes'
  BY AvancerFormes DEF IInv
<1>2. tx'[q].phase # "sommee"
  BY DEF IInv, Formes, TxFormees, Demandes, EcrireLignes, Repos
<1>3. Calme
  BY <1>2, DemandeCalme DEF IInv, Formes, TxFormees, EcrireLignes
<1> QED
  BY <1>1, <1>3, CalmeIInv

LEMMA AnnulerIInv == ASSUME IInv, NEW q \in Acteurs, Annuler(q) PROVE IInv'
<1>1. Formes'
  BY AvancerFormes DEF IInv
<1>2. tx'[q].phase # "sommee"
  BY DEF IInv, Formes, TxFormees, Annuler, Repos
<1>3. Calme
  BY <1>2, DemandeCalme DEF IInv, Formes, TxFormees, MontantsFormes, Annuler
<1> QED
  BY <1>1, <1>3, CalmeIInv

LEMMA ValiderIInv == ASSUME IInv, NEW q \in Acteurs, Valider(q) PROVE IInv'
<1>1. Formes'
  BY ValiderFormes DEF IInv
<1> QED
  BY <1>1, ValiderSomme, ValiderConsentement, ValiderMontants DEF IInv

LEMMA CoursierIInv == ASSUME IInv, Coursier PROVE IInv'
<1> USE DEF IInv
<1>0. "coursier" \in Acteurs /\ TxFormees /\ tx \in [Acteurs -> Demandes]
  BY DEF Acteurs, Formes, TxFormees
<1>1. ASSUME NEW l \in Lignes, LireLigne(l) PROVE IInv'
  <2>1. tx'["coursier"].phase # "sommee"
    BY <1>0, <1>1 DEF LireLigne, Requete, Repos
  <2>2. Calme
    BY <1>0, <1>1, <2>1, DemandeCalme DEF LireLigne
  <2> QED
    BY <1>1, <2>2, LireFormes, CalmeIInv
<1>2. ASSUME NEW p \in Propositions, NEW prix \in Proposes, OuvrirProposition(p, prix)
      PROVE  IInv'
  <2>1. tx'["coursier"].phase # "sommee"
    BY <1>0, <1>2 DEF OuvrirProposition, Repos
  <2>2. \A r \in Propositions : sub[r].issue = "acceptee" => sub'[r] = sub[r]
    BY <1>2 DEF OuvrirProposition, Formes, SubsFormees
  <2>3. Calme
    BY <1>0, <1>2, <2>1, <2>2 DEF OuvrirProposition, Calme
  <2> QED
    BY <1>2, <2>3, OuvrirFormes, CalmeIInv
<1>3. ASSUME NEW a \in Arrets, ConstaterFerme(a) PROVE IInv'
  <2>1. \A r \in Acteurs : tx'[r].phase # "sommee" \/ tx'[r] = tx[r]
    BY <1>0, <1>3 DEF ConstaterFerme, Requete, Repos
  <2>2. \A b \in Arrets : statut'[b] = "a_collecter" =>
                            statut[b] = "a_collecter" /\ avance'[b] = avance[b]
    BY <1>3 DEF ConstaterFerme, Formes, MontantsFormes
  <2>3. Calme
    BY <1>3, <2>1, <2>2 DEF ConstaterFerme, Calme
  <2> QED
    BY <1>3, <2>3, FermeFormes, CalmeIInv
<1>4. ASSUME NEW a \in Arrets, Collecter(a) PROVE IInv'
  <2>1. \A b \in Arrets : statut'[b] = "a_collecter" =>
                            statut[b] = "a_collecter" /\ avance'[b] = avance[b]
    BY <1>4 DEF Collecter, Formes, MontantsFormes
  <2>2. Calme
    BY <1>4, <2>1 DEF Collecter, requetes, Calme
  <2> QED
    BY <1>4, <2>2, CollecterFormes, CalmeIInv
<1> QED
  BY <1>1, <1>2, <1>3, <1>4 DEF Coursier

\* The client and the sweep, who ask about one proposal.
LEMMA DeciderIInv ==
  ASSUME IInv, NEW p \in Propositions, NEW g \in Decisions, NEW q \in Acteurs,
         sub[p].issue # "aucune",
         tx' = [tx EXCEPT ![q] = RequeteSur(g, p)], UNCHANGED <<tables, sommes, depassee>>
  PROVE  IInv'
<1>1. tx'[q].phase # "sommee"
  BY DEF IInv, Formes, TxFormees, RequeteSur, Requete, Repos
<1>2. Calme
  BY <1>1, DemandeCalme DEF IInv, Formes, TxFormees
<1> QED
  BY <1>2, DeciderFormes, CalmeIInv DEF IInv

\* Nobody's transaction moves.
LEMMA AttendreIInv ==
  ASSUME IInv, UNCHANGED <<tables, tx, sommes, depassee>> PROVE IInv'
<1>1. Formes'
  BY TempsFormes DEF IInv
<1>2. Calme
  BY DEF Calme, tables
<1> QED
  BY <1>1, <1>2, CalmeIInv

LEMMA PasIInv == ASSUME SInv, [Next]_vars PROVE IInv'
<1> USE DEF SInv
<1>1. ASSUME NEW q \in Acteurs, Avancer(q) PROVE IInv'
  <2>1. CASE EcrireLignes(q)
    BY <2>1, EcrireIInv
  <2>2. CASE Sommer(q)
    BY <2>2, AvancerFormes, SommerIInv DEF IInv
  <2>3. CASE Valider(q)
    BY <2>3, ValiderIInv
  <2> QED
    BY <1>1, <2>1, <2>2, <2>3 DEF Avancer
<1>2. CASE Coursier
  BY <1>2, CoursierIInv
<1>3. CASE Client
  <2>1. PICK p \in Propositions, g \in Decisions : DemanderDecision(p, g)
    BY <1>3 DEF Client, Decisions
  <2> QED
    BY <2>1, DeciderIInv DEF DemanderDecision, Acteurs
<1>4. CASE Balayage
  <2>1. CASE Relever
    BY <2>1, AttendreIInv DEF Relever
  <2>2. ASSUME NEW p \in Propositions, Expirer(p) PROVE IInv'
    BY <2>2, DeciderIInv DEF Expirer, Releves, Acteurs, Decisions
  <2> QED
    BY <1>4, <2>1, <2>2 DEF Balayage
<1>5. CASE Temps
  BY <1>5, AttendreIInv DEF Temps, Echoir, requetes
<1>6. CASE Incident
  <2>1. PICK q \in Acteurs : Annuler(q)
    BY <1>6 DEF Incident, Abandonner, Victime, Interblocage, Acteurs
  <2> QED
    BY <2>1, AnnulerIInv
<1>7. CASE UNCHANGED vars
  BY <1>7, AttendreIInv DEF vars, requetes
<1> QED
  BY <1>1, <1>2, <1>3, <1>4, <1>5, <1>6, <1>7 DEF Next

\* A proposal that has been made stays made.
LEMMA PasSubs == ASSUME SInv, [Next]_vars PROVE SubsDurent
<1> USE DEF SInv, IInv, Formes
<1>1. CASE sub' = sub
  BY <1>1 DEF SubsDurent
<1>2. ASSUME NEW p \in Propositions, NEW prix \in Proposes, OuvrirProposition(p, prix)
      PROVE  SubsDurent
  BY <1>2 DEF OuvrirProposition, SubsFormees, SubsDurent
<1>3. ASSUME NEW q \in Acteurs, Valider(q) PROVE SubsDurent
  <2>1. \A p \in Propositions : IssueDe(q, p) = "aucune" => sub[p].issue = "aucune"
    BY DEF IssueDe
  <2> QED
    BY <1>3, <2>1, ValiderSubs DEF SubsDurent
<1>4. CASE \E q \in Acteurs : Avancer(q)
  BY <1>1, <1>3, <1>4 DEF Avancer, EcrireLignes, Sommer, tables
<1>5. CASE Coursier
  BY <1>1, <1>2, <1>5 DEF Coursier, LireLigne, ConstaterFerme, Collecter, tables
<1>6. CASE Client \/ Balayage \/ Temps
  BY <1>1, <1>6 DEF Client, DemanderDecision, Balayage, Relever, Expirer, Temps, Echoir, tables
<1>7. CASE Incident
  BY <1>1, <1>7 DEF Incident, Abandonner, Victime, Interblocage, Annuler, tables
<1>8. CASE UNCHANGED vars
  BY <1>1, <1>8 DEF vars, tables
<1> QED
  BY <1>4, <1>5, <1>6, <1>7, <1>8 DEF Next

LEMMA PasReleves == ASSUME SInv, [Next]_vars PROVE Releves'
<1>1. SubsDurent
  BY PasSubs
<1>2. releve' \subseteq releve \/ Relever
  BY DEF Next, Avancer, EcrireLignes, Sommer, Valider, Coursier, LireLigne, OuvrirProposition,
         ConstaterFerme, Collecter, Client, DemanderDecision, Balayage, Expirer, Temps, Echoir,
         Incident, Abandonner, Victime, Interblocage, Annuler, vars, requetes
<1>3. \/ echues' = echues
      \/ \E p \in Propositions : echues' = echues \cup {p}
  BY DEF Next, Avancer, EcrireLignes, Sommer, Valider, Coursier, LireLigne, OuvrirProposition,
         ConstaterFerme, Collecter, Client, DemanderDecision, Balayage, Relever, Expirer, Temps,
         Echoir, Incident, Abandonner, Victime, Interblocage, Annuler, vars
<1>4. echues' \subseteq Propositions
  BY <1>3 DEF SInv, Releves
<1>5. CASE releve' \subseteq releve
  BY <1>1, <1>4, <1>5 DEF SInv, Releves, SubsDurent
<1>6. CASE Relever
  BY <1>4, <1>6 DEF SInv, Relever, Releves, tables
<1> QED
  BY <1>2, <1>5, <1>6

-----------------------------------------------------------------------------
(* The theorems.                                                            *)

LEMMA InitSInv == Init => SInv
BY InitIInv DEF SInv, Init, Releves

LEMMA SpecSInv == Spec => []SInv
<1>1. SInv /\ [Next]_vars => SInv'
  BY PasIInv, PasReleves DEF SInv
<1> QED
  BY <1>1, InitSInv, PTL DEF Spec

\* An article is billed at the price of a proposal the client accepted, or at
\* the frozen one (clore_substitution), for any orders and proposals.
THEOREM PrixConsentis == Spec => []ConsentementAuPrix
BY SpecSInv, PTL DEF SInv, IInv

\* But for a revision overtaken between its sum and its commit, the total of
\* the order is that of its living lines (reviser_montants).
THEOREM TotalJuste == Spec => []TotalDesLignesVivantes
BY SpecSInv, PTL DEF SInv, IInv

\* What an open stop is to cost is the sum of its living lines
\* (reviser_montants, under the lock of the order).
THEOREM AvancesExactes == Spec => []AvanceExacte
BY SpecSInv, PTL DEF SInv, IInv

\* The amount of a stop that is no longer open is never written again
\* (marquer_arret_collecte, marquer_arret_indisponible, reviser_montants).
THEOREM AvancesFigees == Spec => AvanceFigee
<1> DEFINE Figees == \A a \in Arrets : statut[a] # "a_collecter" => avance'[a] = avance[a]
<1>1. ASSUME SInv, [Next]_vars PROVE Figees
  <2> USE DEF SInv, IInv, Formes
  <2>1. CASE avance' = avance
    BY <2>1
  <2>2. ASSUME NEW q \in Acteurs, Valider(q) PROVE Figees
    <3>1. \A a \in Arrets : Ferme(q, a) => statut[a] = "a_collecter"
      BY <1>1 DEF TxFormees, Formee, Ferme
    <3> QED
      BY <2>2, <3>1 DEF Valider, AvanceRevisee
  <2>3. ASSUME NEW a \in Arrets, ConstaterFerme(a) \/ Collecter(a) PROVE Figees
    <3>1. statut[a] = "a_collecter"
      BY <2>3 DEF ConstaterFerme, Collecter
    <3>2. \A b \in Arrets \ {a} : avance'[b] = avance[b]
      BY <1>1, <2>3 DEF ConstaterFerme, Collecter, MontantsFormes
    <3> QED
      BY <3>1, <3>2
  <2>4. CASE \E q \in Acteurs : Avancer(q)
    BY <2>1, <2>2, <2>4 DEF Avancer, EcrireLignes, Sommer, tables
  <2>5. CASE Coursier
    BY <2>1, <2>3, <2>5 DEF Coursier, LireLigne, OuvrirProposition, tables
  <2>6. CASE Client \/ Balayage \/ Temps
    BY <2>1, <2>6 DEF Client, DemanderDecision, Balayage, Relever, Expirer, Temps, Echoir, tables
  <2>7. CASE Incident
    BY <2>1, <2>7 DEF Incident, Abandonner, Victime, Interblocage, Annuler, tables
  <2>8. CASE UNCHANGED vars
    BY <2>1, <2>8 DEF vars, tables
  <2> QED
    BY <1>1, <2>4, <2>5, <2>6, <2>7, <2>8 DEF Next
<1> QED
  BY <1>1, SpecSInv, PTL DEF Spec, AvanceFigee

=============================================================================
