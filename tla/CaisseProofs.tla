---------------------------- MODULE CaisseProofs ----------------------------
(***************************************************************************)
(* The proofs about the cash book: types, the collections that are         *)
(* published are booked, no fact is booked twice, and what a settled       *)
(* delivery leaves to its couriers.                                        *)
(***************************************************************************)
EXTENDS Caisse, FiniteSetTheorems, TLAPS

\* The amounts of a quote are natural numbers, whatever the flags and the offer.
LEMMA DevisType ==
  ASSUME NEW arrets \in SUBSET Arrets, NEW articles \in Nat,
         NEW mode \in {"cash", "mobile_money"}, NEW drapeaux
  PROVE  Devis(arrets, articles, mode, drapeaux) \in
           [arrets : SUBSET Arrets, articles : Nat, mode : {"cash", "mobile_money"},
            marge : Nat, prix : Nat, retenue : Nat]
<1> DEFINE marge == IF "gratuite_commissions" \in drapeaux THEN 0 ELSE Marge
<1> DEFINE prix == IF "livraison_offerte_mefali" \in drapeaux THEN 0 ELSE Part + marge
<1> DEFINE retenue == IF "offre_vendeur" \in drapeaux /\ Cardinality(arrets) = 1
                      THEN prix ELSE 0
<1>1. marge \in Nat
  BY MontantsAssumption
<1>2. prix \in Nat
  BY <1>1, MontantsAssumption
<1>3. retenue \in Nat /\ prix - retenue \in Nat
  <2>1. retenue = prix \/ retenue = 0
    OBVIOUS
  <2> QED
    BY <1>2, <2>1
<1> HIDE DEF marge, prix, retenue
<1>4. Devis(arrets, articles, mode, drapeaux)
        = [arrets |-> arrets, articles |-> articles, mode |-> mode, marge |-> marge,
           prix |-> prix - retenue, retenue |-> retenue]
  BY DEF Devis, marge, prix, retenue
<1> QED
  BY <1>1, <1>3, <1>4

\* An advance is an integer, and so is what the failure tree charges.
LEMMA MontantsEntiers ==
  ASSUME TypeOK
  PROVE  /\ Avance \in Int /\ Total \in Int
         /\ \A a \in Arrets : MontantAvance(a) \in Int
<1>1. devis.articles \in Nat /\ devis.retenue \in Nat /\ devis.prix \in Nat
      /\ devis.arrets \in SUBSET Arrets
  BY DEF TypeOK
<1>2. Cardinality(devis.arrets) \in Nat
  BY <1>1, ArretsAssumption, FS_Subset, FS_CardinalityType
<1>3. Avance \in Int
  BY <1>1 DEF Avance, Plafonner
<1>4. Total \in Int
  BY <1>1, <1>2 DEF Total
<1> QED
  BY <1>1, <1>3, <1>4 DEF MontantAvance

LEMMA InitTypeOK == Init => TypeOK
<1> SUFFICES ASSUME Init PROVE TypeOK
  OBVIOUS
<1>1. PICK arrets \in Trajets, articles \in PrixArticles, mode \in {"cash", "mobile_money"},
           drapeaux \in Drapeaux : devis = Devis(arrets, articles, mode, drapeaux)
  BY DEF Init
<1>2. arrets \in SUBSET Arrets /\ articles \in Nat
  BY TrajetsAssumption, MontantsAssumption
<1>3. devis \in [arrets : SUBSET Arrets, articles : Nat, mode : {"cash", "mobile_money"},
                 marge : Nat, prix : Nat, retenue : Nat]
  BY <1>1, <1>2, DevisType
<1>4. charge \in [Charges -> [qui : Coursiers \cup {Personne}, montant : Int]]
  BY DEF Init, Neant
<1>5. lot \in [Workers -> [tenus : SUBSET Evenements, reste : SUBSET Evenements,
                           faits : SUBSET Evenements]]
  BY DEF Init, SansLot
<1> QED
  BY <1>3, <1>4, <1>5, BornesAssumption DEF Init, TypeOK

\* What one event does to the compensations, the stops nobody owned, the outcome.
LEMMA ConsommerType ==
  ASSUME TypeOK, NEW r, Consommer(r)
  PROVE  /\ indemnisation' \in [Charges -> {"aucune", "demandee", "validee", "refusee"}]
         /\ orphelines' \subseteq Arrets /\ bilan' \in {"aucun", "complet", "partiel"}
<1>1. CASE \E a \in Arrets : r.evt = {a} /\ PorterAvance(a, r.qui)
  BY <1>1 DEF TypeOK, PorterAvance
<1>2. CASE r.evt = {"livree"} /\ Solder(r.qui, r.avances)
  BY <1>2 DEF TypeOK, Solder
<1>3. CASE \E e \in Charges : r.evt = {e} /\ Demander(e)
  BY <1>3 DEF TypeOK, Demander
<1> QED
  BY <1>1, <1>2, <1>3 DEF Consommer

LEMMA NextTypeOK == TypeOK /\ [Next]_vars => TypeOK'
<1> SUFFICES ASSUME TypeOK, [Next]_vars PROVE TypeOK'
  OBVIOUS
<1> USE DEF Evenements, Charges
<1>1. ASSUME NEW c \in Coursiers, Affecter(c) PROVE TypeOK'
  BY <1>1, BornesAssumption DEF TypeOK, Affecter, caisse
<1>2. ASSUME NEW a \in Arrets, Collecter(a) PROVE TypeOK'
  BY <1>2 DEF TypeOK, Collecter, Emettre, caisse, commande
<1>3. CASE Retirer
  BY <1>3 DEF TypeOK, Retirer, caisse
<1>4. CASE Livrer
  BY <1>4 DEF TypeOK, Livrer, Emettre, caisse
<1>5. CASE Annuler
  <2>1. charge' \in [Charges -> [qui : Coursiers \cup {Personne}, montant : Int]]
    BY <1>5, MontantsAssumption DEF TypeOK, Annuler
  <2>2. journal' \in [Evenements -> {"absent", "attente", "publie"}]
    BY <1>5 DEF TypeOK, Annuler, Emettre
  <2> QED
    BY <1>5, <2>1, <2>2 DEF TypeOK, Annuler, caisse
<1>6. ASSUME NEW n \in Int, Echouer(n) PROVE TypeOK'
  <2>1. charge' \in [Charges -> [qui : Coursiers \cup {Personne}, montant : Int]]
    BY <1>6, MontantsAssumption DEF TypeOK, Echouer
  <2> QED
    BY <1>6, <2>1 DEF TypeOK, Echouer, Emettre, caisse, commande
<1>7. ASSUME NEW c \in creances, Regler(c) PROVE TypeOK'
  BY <1>7 DEF TypeOK, Regler, commande
<1>8. ASSUME NEW e \in Charges, NEW d \in {"validee", "refusee"}, Decider(e, d) PROVE TypeOK'
  BY <1>8 DEF TypeOK, Decider, commande
<1>9. ASSUME NEW w \in Workers, Prendre(w) PROVE TypeOK'
  BY <1>9 DEF TypeOK, Prendre, Tenir, EnAttente, commande, caisse
<1>10. ASSUME NEW w \in Workers, NEW e \in Evenements, Lire(w, e) PROVE TypeOK'
  BY <1>10 DEF TypeOK, Lire, commande, caisse
<1>11. ASSUME NEW w \in Workers, NEW ok \in BOOLEAN, Ecrire(w, ok) PROVE TypeOK'
  <2>1. lot' \in [Workers -> [tenus : SUBSET Evenements, reste : SUBSET Evenements,
                              faits : SUBSET Evenements]]
    <3>1. lu[w].evt \subseteq Evenements
      BY <1>11 DEF Ecrire, Consommer
    <3> QED
      BY <1>11, <3>1 DEF TypeOK, Ecrire, Quitter
  <2>2. pannes' \in 0..PannesMax
    BY <1>11, BornesAssumption DEF TypeOK, Ecrire, Quitter
  <2> QED
    BY <1>11, <2>1, <2>2, ConsommerType DEF TypeOK, Ecrire, Quitter, commande
<1>12. ASSUME NEW w \in Workers, Manquer(w) PROVE TypeOK'
  BY <1>12, BornesAssumption DEF TypeOK, Manquer, Quitter, commande, caisse
<1>13. ASSUME NEW w \in Workers, Conclure(w) PROVE TypeOK'
  BY <1>13 DEF TypeOK, Conclure, SansLot, commande, caisse
<1>14. ASSUME NEW w \in Workers, Perdre(w) PROVE TypeOK'
  BY <1>14, BornesAssumption DEF TypeOK, Perdre, SansLot, commande, caisse
<1>15. CASE UNCHANGED vars
  BY <1>15 DEF TypeOK, vars, commande, caisse
<1>16. CASE Commande
  <2>1. CASE \E a \in devis.arrets : Echouer(MontantAvance(a))
    BY <2>1, <1>6, MontantsEntiers DEF TypeOK
  <2>2. CASE Echouer(Total)
    BY <2>2, <1>6, MontantsEntiers
  <2> QED
    BY <1>16, <1>1, <1>2, <1>3, <1>4, <1>5, <2>1, <2>2 DEF Commande
<1>17. CASE Exploitation
  BY <1>17, <1>7, <1>8 DEF Exploitation
<1>18. ASSUME NEW w \in Workers, Travailler(w) \/ Tomber(w) PROVE TypeOK'
  BY <1>18, <1>9, <1>10, <1>11, <1>12, <1>13, <1>14 DEF Travailler, Tomber
<1> QED
  BY <1>15, <1>16, <1>17, <1>18 DEF Next

\* The states of the order, of the journal, of the lots and of the decisions are
\* what the code's columns allow, from any quote.
THEOREM TypesCorrects == Spec => []TypeOK
<1> QED
  BY InitTypeOK, NextTypeOK, PTL DEF Spec

-----------------------------------------------------------------------------
\* A collection that has been consumed is booked, unless nobody was there.
Traitee(a) == Avance > 0 => Porte(a) \/ a \in orphelines

\* It is before the event is marked, from the moment a lot is to mark it.
Traites ==
  /\ \A w \in Workers, a \in Arrets : a \in lot[w].faits => Traitee(a)
  /\ \A a \in Arrets : journal[a] = "publie" => Traitee(a)

\* One event adds to the book and takes nothing from it.
LEMMA ConsommerCroissant ==
  ASSUME NEW r, Consommer(r)
  PROVE  livre \subseteq livre' /\ orphelines \subseteq orphelines'
<1>1. CASE \E a \in Arrets : r.evt = {a} /\ PorterAvance(a, r.qui)
  BY <1>1 DEF PorterAvance, Porter
<1>2. CASE r.evt = {"livree"} /\ Solder(r.qui, r.avances)
  BY <1>2 DEF Solder, Rembourser, Crediter, Porter
<1>3. CASE \E e \in Charges : r.evt = {e} /\ Demander(e)
  BY <1>3 DEF Demander
<1> QED
  BY <1>1, <1>2, <1>3 DEF Consommer

\* The book only grows, and the quote is frozen.
LEMMA LivreCroissant ==
  ASSUME [Next]_vars
  PROVE  livre \subseteq livre' /\ orphelines \subseteq orphelines' /\ devis' = devis
<1> USE DEF commande, caisse
<1>1. CASE Commande
  BY <1>1 DEF Commande, Affecter, Retirer, Collecter, Livrer, Annuler, Echouer
<1>2. CASE Exploitation
  BY <1>2 DEF Exploitation, Regler, Decider
<1>3. ASSUME NEW w \in Workers, NEW ok \in BOOLEAN, Ecrire(w, ok)
      PROVE  livre \subseteq livre' /\ orphelines \subseteq orphelines' /\ devis' = devis
  BY <1>3, ConsommerCroissant DEF Ecrire
<1>4. ASSUME NEW w \in Workers, Travailler(w) \/ Tomber(w)
      PROVE  livre \subseteq livre' /\ orphelines \subseteq orphelines' /\ devis' = devis
  BY <1>3, <1>4 DEF Travailler, Tomber, Prendre, Tenir, Lire, Conclure, Manquer, Perdre
<1>5. CASE UNCHANGED vars
  BY <1>5 DEF vars
<1> QED
  BY <1>1, <1>2, <1>4, <1>5 DEF Next

LEMMA TraiteeDurable ==
  ASSUME [Next]_vars, NEW a, Traitee(a)
  PROVE  Traitee(a)'
BY LivreCroissant DEF Traitee, Porte, Avance, Plafonner

\* Consuming a collection books it, or finds nobody.
LEMMA ConsommerTraite ==
  ASSUME TypeOK, NEW r, Consommer(r), UNCHANGED devis, NEW a \in Arrets, a \in r.evt
  PROVE  Traitee(a)'
<1>1. PICK b \in Arrets : r.evt = {b} /\ PorterAvance(b, r.qui)
  BY ArretsAssumption DEF Consommer, Charges
<1>2. a = b
  BY <1>1
<1>3. CASE r.qui = Personne
  BY <1>1, <1>2, <1>3 DEF PorterAvance, Traitee
<1>4. CASE r.qui # Personne
  <2> DEFINE e == Ecriture("avance", r.qui, 0 - Avance, Cle(a, "evenement"))
  <2>1. livre' = Porter(e, livre)
    BY <1>1, <1>2, <1>4 DEF PorterAvance
  <2>2. Avance' = Avance /\ Avance \in Int
    BY MontantsEntiers DEF Avance, Plafonner
  <2>3. e.cle = Cle(a, "evenement") /\ e.montant = 0 - Avance
    BY DEF Ecriture
  <2>4. ASSUME Avance > 0 PROVE \E x \in livre' : x.cle = Cle(a, "evenement")
    <3>1. e.montant # 0
      BY <2>2, <2>3, <2>4
    <3> HIDE DEF e
    <3> QED
      BY <2>1, <2>3, <3>1 DEF Porter
  <2> QED
    BY <2>2, <2>4 DEF Traitee, Porte, Cle
<1> QED
  BY <1>3, <1>4

LEMMA InitTraites == Init => Traites
BY DEF Init, Traites, SansLot, Evenements

LEMMA NextTraites == TypeOK /\ Traites /\ [Next]_vars => Traites'
<1> SUFFICES ASSUME TypeOK, Traites, [Next]_vars PROVE Traites'
  OBVIOUS
<1>1. \A a \in Arrets : Traitee(a) => Traitee(a)'
  BY TraiteeDurable
<1> USE DEF Evenements, Charges
<1>2. CASE Commande
  <2>1. lot' = lot
    BY <1>2 DEF Commande, Affecter, Retirer, Collecter, Livrer, Annuler, Echouer
  <2>2. \A a \in Arrets : journal'[a] = "publie" => journal[a] = "publie"
    BY <1>2 DEF Commande, Affecter, Retirer, Collecter, Livrer, Annuler, Echouer, Emettre, TypeOK
  <2> QED
    BY <1>1, <2>1, <2>2 DEF Traites
<1>3. CASE Exploitation
  BY <1>1, <1>3 DEF Exploitation, Regler, Decider, Traites
<1>4. ASSUME NEW w \in Workers, Prendre(w) \/ Perdre(w) PROVE Traites'
  BY <1>1, <1>4 DEF Prendre, Tenir, Perdre, Traites, TypeOK, SansLot
<1>5. ASSUME NEW w \in Workers, NEW e \in Evenements, Lire(w, e) PROVE Traites'
  BY <1>1, <1>5 DEF Lire, Traites
<1>6. ASSUME NEW w \in Workers, NEW ok \in BOOLEAN, Ecrire(w, ok) PROVE Traites'
  <2>1. journal' = journal /\ devis' = devis /\ Consommer(lu[w])
    BY <1>6 DEF Ecrire, commande
  <2>2. \A v \in Workers, a \in Arrets :
          a \in lot'[v].faits => a \in lot[v].faits \/ (v = w /\ a \in lu[w].evt)
    BY <1>6 DEF Ecrire, Quitter, TypeOK
  <2>3. \A a \in Arrets : a \in lu[w].evt => Traitee(a)'
    BY <2>1, ConsommerTraite
  <2> QED
    BY <1>1, <2>1, <2>2, <2>3 DEF Traites
<1>7. ASSUME NEW w \in Workers, Manquer(w) PROVE Traites'
  BY <1>1, <1>7 DEF Manquer, Quitter, Traites, TypeOK
<1>8. ASSUME NEW w \in Workers, Conclure(w) PROVE Traites'
  BY <1>1, <1>8 DEF Conclure, Traites, TypeOK, SansLot
<1>9. ASSUME NEW w \in Workers, Travailler(w) \/ Tomber(w) PROVE Traites'
  BY <1>4, <1>5, <1>6, <1>7, <1>8, <1>9 DEF Travailler, Tomber
<1>10. CASE UNCHANGED vars
  BY <1>1, <1>10 DEF vars, Traites
<1> QED
  BY <1>2, <1>3, <1>9, <1>10 DEF Next

\* Whatever the workers, the replays and the failures, a collection marked as
\* published is booked, unless it was read while nobody was on the delivery.
THEOREM PubliesPortes == Spec => []PublieDoncPorte
<1>1. TypeOK /\ Traites => PublieDoncPorte
  BY DEF Traites, Traitee, PublieDoncPorte
<1> QED
  BY <1>1, InitTypeOK, NextTypeOK, InitTraites, NextTraites, PTL DEF Spec

-----------------------------------------------------------------------------
\* One claim of each nature; what the administration books, it books of a claim
\* it has settled and of a compensation it has granted.
UneCreanceParNature == \A c, d \in creances : c.nature = d.nature => c = d
ReglementFonde ==
  \A x \in livre, n \in Natures :
    x.cle = Cle(n, "reglement") => \E c \in creances : c.nature = n /\ c.etat = "reglee"
IndemnisationFondee ==
  \A x \in livre, e \in Charges : x.cle = Cle(e, "indemnisation") => indemnisation[e] = "validee"

Uniques ==
  /\ \A c \in creances : c.nature \in Natures
  /\ UneEcritureParFait /\ UneCreanceParNature /\ ReglementFonde /\ IndemnisationFondee

\* A row goes in the book only if its key is free.
LEMMA PorterUnique ==
  ASSUME NEW ecritures, NEW e, \A x, y \in ecritures : x.cle = y.cle => x = y
  PROVE  /\ \A x, y \in Porter(e, ecritures) : x.cle = y.cle => x = y
         /\ Porter(e, ecritures) \subseteq ecritures \cup {e}
BY DEF Porter

LEMMA OuvrirUnique ==
  ASSUME NEW ouvertes, NEW c, \A x, y \in ouvertes : x.nature = y.nature => x = y
  PROVE  /\ \A x, y \in Ouvrir(c, ouvertes) : x.nature = y.nature => x = y
         /\ ouvertes \subseteq Ouvrir(c, ouvertes)
         /\ Ouvrir(c, ouvertes) \subseteq ouvertes \cup {c}
BY DEF Ouvrir

\* What the consumers book is neither a settlement nor a granted compensation.
LEMMA CleDesEvenements ==
  ASSUME NEW type, NEW qui, NEW n, NEW e, NEW d \in {"evenement", "frais_encaisses"}
  PROVE  \A k : /\ Ecriture(type, qui, n, Cle(e, d)).cle # Cle(k, "reglement")
                /\ Ecriture(type, qui, n, Cle(e, d)).cle # Cle(k, "indemnisation")
BY DEF Ecriture, Cle

\* A set of rows of the book to which only such rows were added.
LEMMA AjoutUnique ==
  ASSUME Uniques, NEW r, Consommer(r), creances \subseteq creances',
         \A c \in creances' : c.nature \in Natures,
         UneCreanceParNature', UneEcritureParFait',
         \A e \in Charges : indemnisation[e] = "validee" => indemnisation'[e] = "validee",
         \A x \in livre' \ livre : \A k : /\ x.cle # Cle(k, "reglement")
                                          /\ x.cle # Cle(k, "indemnisation")
  PROVE  Uniques'
<1>1. ReglementFonde'
  BY DEF Uniques, ReglementFonde, Cle
<1>2. IndemnisationFondee'
  BY DEF Uniques, IndemnisationFondee, Cle
<1> QED
  BY <1>1, <1>2 DEF Uniques

LEMMA ConsommerUnique ==
  ASSUME TypeOK, Uniques, NEW r, Consommer(r)
  PROVE  Uniques'
<1>1. ASSUME NEW a \in Arrets, PorterAvance(a, r.qui) PROVE Uniques'
  <2> DEFINE e == Ecriture("avance", r.qui, 0 - Avance, Cle(a, "evenement"))
  <2>1. livre' = livre \/ livre' = Porter(e, livre)
    BY <1>1 DEF PorterAvance
  <2>2. UneEcritureParFait' /\ livre' \subseteq livre \cup {e}
    BY <2>1, PorterUnique DEF Uniques, UneEcritureParFait
  <2>3. \A k : e.cle # Cle(k, "reglement") /\ e.cle # Cle(k, "indemnisation")
    BY CleDesEvenements
  <2>4. creances' = creances /\ indemnisation' = indemnisation
    BY <1>1 DEF PorterAvance
  <2> HIDE DEF e
  <2> QED
    BY <2>2, <2>3, <2>4, AjoutUnique DEF Uniques, UneCreanceParNature
<1>2. CASE Solder(r.qui, r.avances)
  <2> DEFINE frais == FraisEncaisses(Total, r.avances)
             f == Ecriture("frais_encaisses", r.qui, frais, Cle("livree", "frais_encaisses"))
             b == Ecriture("remboursement", r.qui, r.avances, Cle("livree", "evenement"))
             c == Creance("avance_prepayee", r.qui, r.avances, Cle("livree", "evenement"), "due")
             p(n) == Creance("part_course", r.qui, n, Cle("livree", "part_course"), "due")
  <2>1. \/ creances' = Ouvrir(p(PartCourse(Part, 0, devis.marge)), Ouvrir(c, creances))
           /\ livre' = livre
        \/ creances' = Ouvrir(p(PartCourse(Part, frais, devis.marge)), creances)
           /\ livre' = Porter(f, Porter(b, livre))
    BY <1>2 DEF Solder, Rembourser, Crediter
  <2>2. \A n : p(n).nature \in Natures /\ c.nature \in Natures
    BY DEF Creance, Natures
  <2>3. \A k : /\ f.cle # Cle(k, "reglement") /\ f.cle # Cle(k, "indemnisation")
               /\ b.cle # Cle(k, "reglement") /\ b.cle # Cle(k, "indemnisation")
    BY CleDesEvenements
  <2>4. indemnisation' = indemnisation
    BY <1>2 DEF Solder
  <2> HIDE DEF frais, f, b, c, p
  <2>5. UneCreanceParNature' /\ creances \subseteq creances'
        /\ \A x \in creances' : x.nature \in Natures
    BY <2>1, <2>2, OuvrirUnique DEF Uniques, UneCreanceParNature
  <2>6. UneEcritureParFait' /\ livre' \subseteq livre \cup {f, b}
    BY <2>1, PorterUnique DEF Uniques, UneEcritureParFait
  <2> QED
    BY <2>3, <2>4, <2>5, <2>6, AjoutUnique
<1>3. ASSUME NEW e \in Charges, Demander(e) PROVE Uniques'
  <2>1. livre' = livre /\ creances' = creances
    BY <1>3 DEF Demander
  <2>2. \A d \in Charges : indemnisation[d] = "validee" => indemnisation'[d] = "validee"
    BY <1>3 DEF Demander, TypeOK
  <2> QED
    BY <2>1, <2>2, AjoutUnique DEF Uniques, UneCreanceParNature, UneEcritureParFait
<1> QED
  BY <1>1, <1>2, <1>3 DEF Consommer

LEMMA ReglerUnique ==
  ASSUME Uniques, NEW c \in creances, Regler(c)
  PROVE  Uniques'
<1> DEFINE e == Ecriture("reglement", c.qui, c.montant, Cle(c.nature, "reglement"))
           d == Creance(c.nature, c.qui, c.montant, c.cle, "reglee")
<1>1. livre' = livre \cup {e} /\ creances' = (creances \ {c}) \cup {d}
      /\ indemnisation' = indemnisation /\ c.etat = "due" /\ c.nature \in Natures
  BY DEF Regler, Uniques
<1>2. e.cle = Cle(c.nature, "reglement") /\ d.nature = c.nature /\ d.etat = "reglee"
  BY DEF Ecriture, Creance
<1> HIDE DEF e, d
<1>3. \A x \in livre : x.cle # Cle(c.nature, "reglement")
  BY <1>1 DEF Uniques, ReglementFonde, UneCreanceParNature
<1>4. UneEcritureParFait'
  BY <1>1, <1>2, <1>3 DEF Uniques, UneEcritureParFait
<1>5. UneCreanceParNature' /\ \A x \in creances' : x.nature \in Natures
  BY <1>1, <1>2 DEF Uniques, UneCreanceParNature
<1>6. ReglementFonde'
  <2> SUFFICES ASSUME NEW x \in livre', NEW n \in Natures, x.cle = Cle(n, "reglement")
               PROVE  \E y \in creances' : y.nature = n /\ y.etat = "reglee"
    BY DEF ReglementFonde, Cle
  <2>1. CASE n = c.nature
    BY <1>1, <1>2, <2>1
  <2>2. CASE n # c.nature
    <3>1. x \in livre
      BY <1>1, <1>2, <2>2 DEF Cle
    <3> QED
      BY <1>1, <2>2, <3>1 DEF Uniques, ReglementFonde
  <2> QED
    BY <2>1, <2>2
<1>7. IndemnisationFondee'
  BY <1>1, <1>2 DEF Uniques, IndemnisationFondee, Cle
<1> QED
  BY <1>4, <1>5, <1>6, <1>7 DEF Uniques

LEMMA DeciderUnique ==
  ASSUME TypeOK, Uniques, NEW k \in Charges, NEW d \in {"validee", "refusee"}, Decider(k, d)
  PROVE  Uniques'
<1> DEFINE e == Ecriture("indemnisation", charge[k].qui, charge[k].montant,
                         Cle(k, "indemnisation"))
<1>1. /\ livre' = IF d = "refusee" THEN livre ELSE livre \cup {e}
      /\ creances' = creances
      /\ indemnisation[k] = "demandee" /\ indemnisation'[k] = d
      /\ \A j \in Charges \ {k} : indemnisation'[j] = indemnisation[j]
  BY DEF Decider, TypeOK
<1>2. e.cle = Cle(k, "indemnisation")
  BY DEF Ecriture
<1> HIDE DEF e
<1>3. \A x \in livre : x.cle # Cle(k, "indemnisation")
  BY <1>1 DEF Uniques, IndemnisationFondee
<1>4. UneEcritureParFait'
  BY <1>1, <1>2, <1>3 DEF Uniques, UneEcritureParFait
<1>5. ReglementFonde'
  BY <1>1, <1>2 DEF Uniques, ReglementFonde, Cle
<1>6. IndemnisationFondee'
  <2> SUFFICES ASSUME NEW x \in livre', NEW j \in Charges, x.cle = Cle(j, "indemnisation")
               PROVE  indemnisation'[j] = "validee"
    BY DEF IndemnisationFondee, Cle
  <2>1. CASE x \in livre
    BY <1>1, <1>3, <2>1 DEF Uniques, IndemnisationFondee
  <2>2. CASE x \notin livre
    BY <1>1, <1>2, <2>2 DEF Cle
  <2> QED
    BY <2>1, <2>2
<1> QED
  BY <1>1, <1>4, <1>5, <1>6 DEF Uniques, UneCreanceParNature

LEMMA InitUniques == Init => Uniques
BY DEF Init, Uniques, UneEcritureParFait, UneCreanceParNature, ReglementFonde,
       IndemnisationFondee

LEMMA NextUniques == TypeOK /\ Uniques /\ [Next]_vars => Uniques'
<1> SUFFICES ASSUME TypeOK, Uniques, [Next]_vars PROVE Uniques'
  OBVIOUS
<1>1. ASSUME UNCHANGED caisse PROVE Uniques'
  BY <1>1 DEF caisse, Uniques, UneEcritureParFait, UneCreanceParNature, ReglementFonde,
              IndemnisationFondee, Cle
<1>2. CASE Commande
  BY <1>1, <1>2 DEF Commande, Affecter, Retirer, Collecter, Livrer, Annuler, Echouer
<1>3. CASE Exploitation
  BY <1>3, ReglerUnique, DeciderUnique DEF Exploitation
<1>4. ASSUME NEW w \in Workers, Travailler(w) \/ Tomber(w) PROVE Uniques'
  <2>1. ASSUME NEW ok \in BOOLEAN, Ecrire(w, ok) PROVE Uniques'
    BY <2>1, ConsommerUnique DEF Ecrire
  <2> QED
    BY <1>1, <1>4, <2>1 DEF Travailler, Tomber, Prendre, Tenir, Lire, Conclure, Manquer, Perdre
<1>5. CASE UNCHANGED vars
  BY <1>1, <1>5 DEF vars
<1> QED
  BY <1>2, <1>3, <1>4, <1>5 DEF Next

\* No replay and no second decision books a fact again, under another amount or
\* for another courier.
THEOREM EcrituresUniques == Spec => []UneEcritureParFait
<1>1. Uniques => UneEcritureParFait
  BY DEF Uniques
<1> QED
  BY <1>1, InitTypeOK, NextTypeOK, InitUniques, NextUniques, PTL DEF Spec

\* Whatever the replays, a payment in the book is that of a claim settled, and a
\* compensation in the book was granted (regler_creance, valider_indemnisation).
THEOREM DecisionsFondees == Spec => [](ReglementFonde /\ IndemnisationFondee)
<1>1. Uniques => ReglementFonde /\ IndemnisationFondee
  BY DEF Uniques
<1> QED
  BY <1>1, InitTypeOK, NextTypeOK, InitUniques, NextUniques, PTL DEF Spec

-----------------------------------------------------------------------------
(***************************************************************************)
(* Sums of rows.  The induction on finite sets is a minimal counterexample. *)
(***************************************************************************)
LEMMA PlusPetit ==
  ASSUME NEW S, IsFiniteSet(S), NEW B, B \subseteq SUBSET S, B # {}
  PROVE  \E s \in B : \A t \in B : t \subseteq s => t = s
<1>1. B \subseteq FiniteSubsetsOf(S)
  BY FS_Subset DEF FiniteSubsetsOf
<1>2. PICK s \in B : \A t \in B : ~(<<t, s>> \in StrictSubsetOrdering(S))
  BY <1>1, FS_StrictSubsetOrderingWellFounded, WFMin
<1> QED
  BY <1>2 DEF StrictSubsetOrdering

\* The row that the fold takes first.
Premier(S) == CHOOSE x \in S : TRUE

LEMMA PremierPris ==
  ASSUME NEW S, S # {}
  PROVE  Premier(S) \in S
BY DEF Premier

\* g gives each set of rows among S its sum.
Totalise(g, S) ==
  g = [T \in SUBSET S |->
         IF T = {} THEN 0 ELSE Premier(T).montant + g[T \ {Premier(T)}]]

LEMMA SommeParRecurrence ==
  ASSUME NEW S
  PROVE  Somme(S) = (CHOOSE g : Totalise(g, S))[S]
BY DEF Somme, MapThenSumSet, MapThenFoldSet, Premier, Totalise

LEMMA TotaliseUnSeul ==
  ASSUME NEW S, NEW T, IsFiniteSet(T), S \subseteq T,
         NEW g, Totalise(g, S), NEW h, Totalise(h, T)
  PROVE  \A R \in SUBSET S : g[R] = h[R]
<1> DEFINE B == {R \in SUBSET S : g[R] # h[R]}
<1> SUFFICES ASSUME B # {} PROVE FALSE
  OBVIOUS
<1>1. IsFiniteSet(S) /\ B \subseteq SUBSET S
  BY FS_Subset
<1> HIDE DEF B
<1>2. PICK R \in B : \A Q \in B : Q \subseteq R => Q = R
  BY <1>1, PlusPetit
<1> USE DEF B
<1>3. R \in SUBSET S /\ R \in SUBSET T
  OBVIOUS
<1>4. CASE R = {}
  BY <1>3, <1>4 DEF Totalise
<1>5. CASE R # {}
  <2>1. R \ {Premier(R)} # R /\ R \ {Premier(R)} \subseteq R
    BY <1>5, PremierPris
  <2>2. g[R \ {Premier(R)}] = h[R \ {Premier(R)}]
    BY <1>2, <2>1
  <2> QED
    BY <1>3, <1>5, <2>2 DEF Totalise
<1> QED
  BY <1>4, <1>5

LEMMA TotaliseExiste ==
  ASSUME NEW S, IsFiniteSet(S)
  PROVE  \E g : Totalise(g, S)
<1> DEFINE B == {R \in SUBSET S : ~\E g : Totalise(g, R)}
<1> SUFFICES ASSUME B # {} PROVE FALSE
  OBVIOUS
<1>0. B \subseteq SUBSET S
  OBVIOUS
<1> HIDE DEF B
<1>1. PICK R \in B : \A Q \in B : Q \subseteq R => Q = R
  BY <1>0, PlusPetit
<1> USE DEF B
<1>2. \A Q \in SUBSET R : Q # R => \E g : Totalise(g, Q)
  BY <1>1
<1>3. \A Q \in SUBSET R : IsFiniteSet(Q)
  BY FS_Subset
<1> DEFINE g == [Q \in SUBSET R |->
                   IF Q = {} THEN 0 ELSE Premier(Q).montant + Somme(Q \ {Premier(Q)})]
<1>4. ASSUME NEW Q \in SUBSET R, Q # R
      PROVE  g[Q] = Somme(Q)
  <2> DEFINE h == CHOOSE f : Totalise(f, Q)
             P == Q \ {Premier(Q)}
             k == CHOOSE f : Totalise(f, P)
  <2>1. Totalise(h, Q) /\ Somme(Q) = h[Q]
    BY <1>2, <1>4, SommeParRecurrence
  <2>2. CASE Q = {}
    BY <2>1, <2>2 DEF Totalise
  <2>3. CASE Q # {}
    <3>1. P \in SUBSET R /\ P # R /\ P \subseteq Q
      BY <1>4
    <3>2. Totalise(k, P) /\ Somme(P) = k[P]
      BY <1>2, <3>1, SommeParRecurrence
    <3> HIDE DEF h, k
    <3>3. h[P] = k[P]
      BY <1>3, <2>1, <3>1, <3>2, TotaliseUnSeul
    <3>4. h[Q] = Premier(Q).montant + h[P]
      BY <2>1, <2>3 DEF Totalise
    <3> QED
      BY <2>1, <2>3, <3>2, <3>3, <3>4
  <2> QED
    BY <2>2, <2>3
<1>5. \A Q \in SUBSET R : Q # {} => g[Q] = Premier(Q).montant + g[Q \ {Premier(Q)}]
  <2> SUFFICES ASSUME NEW Q \in SUBSET R, Q # {}
               PROVE  g[Q] = Premier(Q).montant + g[Q \ {Premier(Q)}]
    OBVIOUS
  <2>1. Q \ {Premier(Q)} \in SUBSET R /\ Q \ {Premier(Q)} # R
    BY PremierPris
  <2>2. g[Q \ {Premier(Q)}] = Somme(Q \ {Premier(Q)})
    BY <1>4, <2>1
  <2> QED
    BY <2>2
<1>6. Totalise(g, R)
  <2>1. \A Q \in SUBSET R : g[Q] = IF Q = {} THEN 0 ELSE Premier(Q).montant + g[Q \ {Premier(Q)}]
    BY <1>5
  <2>2. g = [Q \in SUBSET R |-> g[Q]]
    OBVIOUS
  <2> HIDE DEF g
  <2> QED
    BY <2>1, <2>2 DEF Totalise
<1> QED
  BY <1>1, <1>6

LEMMA SommeDeroulee ==
  ASSUME NEW S, IsFiniteSet(S)
  PROVE  /\ Somme({}) = 0
         /\ S # {} => Somme(S) = Premier(S).montant + Somme(S \ {Premier(S)})
<1> DEFINE g(R) == CHOOSE f : Totalise(f, R)
           P == S \ {Premier(S)}
<1>1. IsFiniteSet({}) /\ IsFiniteSet(P)
  BY FS_EmptySet, FS_Subset
<1>2. Totalise(g({}), {}) /\ Totalise(g(P), P) /\ Totalise(g(S), S)
  BY <1>1, TotaliseExiste
<1>3. Somme({}) = g({})[{}] /\ Somme(P) = g(P)[P] /\ Somme(S) = g(S)[S]
  BY SommeParRecurrence
<1> HIDE DEF g
<1>4. Somme({}) = 0
  BY <1>2, <1>3 DEF Totalise
<1>5. ASSUME S # {} PROVE Somme(S) = Premier(S).montant + Somme(P)
  <2>1. g(S)[S] = Premier(S).montant + g(S)[P]
    BY <1>2, <1>5 DEF Totalise
  <2>2. g(P)[P] = g(S)[P]
    BY <1>2, TotaliseUnSeul
  <2> QED
    BY <1>3, <2>1, <2>2
<1> QED
  BY <1>4, <1>5

\* Rows of integer amounts.
Lignes(S) == IsFiniteSet(S) /\ \A x \in S : x.montant \in Int

LEMMA SommeEntiere ==
  ASSUME NEW S, Lignes(S)
  PROVE  Somme(S) \in Int
<1> DEFINE B == {R \in SUBSET S : Somme(R) \notin Int}
<1> SUFFICES ASSUME B # {} PROVE FALSE
  BY DEF Lignes
<1>0. B \subseteq SUBSET S /\ IsFiniteSet(S)
  BY DEF Lignes
<1> HIDE DEF B
<1>1. PICK R \in B : \A Q \in B : Q \subseteq R => Q = R
  BY <1>0, PlusPetit
<1> USE DEF B
<1>2. IsFiniteSet(R) /\ Somme(R) \notin Int
  BY <1>1, FS_Subset DEF Lignes
<1>3. CASE R = {}
  <2>1. Somme({}) = 0
    BY <1>2, SommeDeroulee
  <2>2. Somme(R) = 0
    BY ONLY <1>3, <2>1
  <2> QED
    BY <1>2, <2>2
<1>4. CASE R # {}
  <2>1. Premier(R) \in S /\ Premier(R) \in R
    BY <1>4, PremierPris
  <2>2. Somme(R \ {Premier(R)}) \in Int
    BY <1>1, <2>1
  <2> QED
    BY <1>2, <1>4, <2>1, <2>2, SommeDeroulee DEF Lignes
<1> QED
  BY <1>3, <1>4

\* Adding a row adds its amount, whatever the order the fold takes them in.
LEMMA SommeAjout ==
  ASSUME NEW S, Lignes(S), NEW e, e \notin S, e.montant \in Int
  PROVE  Lignes(S \cup {e}) /\ Somme(S \cup {e}) = Somme(S) + e.montant
<1> DEFINE juste(R, x) == Somme(R \cup {x}) = Somme(R) + x.montant
           U == S \cup {e}
           B == {R \in SUBSET U : \E x \in U \ R : ~juste(R, x)}
<1>1. Lignes(U)
  BY FS_AddElement DEF Lignes
<1>2. \A R \in SUBSET U : Lignes(R) /\ Somme(R) \in Int
  BY <1>1, FS_Subset, SommeEntiere DEF Lignes
<1> SUFFICES ASSUME B # {} PROVE FALSE
  BY <1>1
<1>0. B \subseteq SUBSET U /\ IsFiniteSet(U)
  BY <1>1 DEF Lignes
<1> HIDE DEF B
<1>3. PICK R \in B : \A Q \in B : Q \subseteq R => Q = R
  BY <1>0, PlusPetit
<1> USE DEF B
<1>4. PICK x \in U \ R : ~juste(R, x)
  BY <1>3
<1> DEFINE V == R \cup {x}
           y == Premier(V)
<1>5. /\ V \in SUBSET U /\ V # {} /\ R \in SUBSET U /\ x \in U
      /\ y \in V /\ y \in U /\ x.montant \in Int /\ y.montant \in Int
  BY <1>1, PremierPris DEF Lignes
<1>6. Somme(V) = y.montant + Somme(V \ {y})
  BY <1>2, <1>5, SommeDeroulee DEF Lignes
<1>7. CASE y = x
  <2>1. V \ {y} = R
    BY <1>4, <1>7
  <2>2. Somme(R) \in Int
    BY <1>2, <1>5
  <2>3. Somme(V) = x.montant + Somme(R)
    BY <1>6, <1>7, <2>1
  <2> HIDE DEF V
  <2>4. Somme(V) = Somme(R) + x.montant
    BY <1>5, <2>2, <2>3
  <2> QED
    BY <1>4, <2>4 DEF V
<1>8. CASE y # x
  <2> DEFINE Q == R \ {y}
  <2>1. y \in R /\ Q \subseteq R /\ Q # R /\ Q \in SUBSET U
    BY <1>5, <1>8
  <2>2. Q \notin B
    BY <1>3, <2>1
  <2>3. juste(Q, x) /\ juste(Q, y)
    BY <1>5, <2>1, <2>2
  <2>4. V \ {y} = Q \cup {x} /\ R = Q \cup {y}
    BY <1>8, <2>1
  <2>5. Somme(R) \in Int /\ Somme(Q) \in Int
    BY <1>2, <1>5, <2>1
  <2>6. Somme(V) = y.montant + (Somme(Q) + x.montant) /\ Somme(R) = Somme(Q) + y.montant
    BY <1>6, <2>3, <2>4
  <2> QED
    BY <1>4, <1>5, <2>5, <2>6
<1> QED
  BY <1>7, <1>8



\* The lots: no event in two of them, and none of a stop off the order's way.
LotsFondes ==
  /\ \A a \in Arrets : journal[a] # "absent" => a \in devis.arrets
  /\ \A w \in Workers :
       /\ lu[w].evt \subseteq lot[w].reste /\ lot[w].reste \subseteq lot[w].tenus
       /\ (lot[w].tenus \cup lot[w].faits) \cap Arrets \subseteq devis.arrets
       /\ \A v \in Workers : v # w => lot[v].tenus \cap lot[w].tenus = {}

LEMMA InitLots == Init => LotsFondes
BY DEF Init, LotsFondes, SansLot, SansLecture, Evenements

LEMMA NextLots == TypeOK /\ LotsFondes /\ [Next]_vars => LotsFondes'
<1> SUFFICES ASSUME TypeOK, LotsFondes, [Next]_vars PROVE LotsFondes'
  OBVIOUS
<1>0. Arrets \subseteq Evenements /\ devis' = devis
  BY LivreCroissant DEF Evenements
<1>1. ASSUME UNCHANGED <<lot, lu>>,
             \A a \in Arrets : journal'[a] # "absent" => journal[a] # "absent" \/ a \in devis.arrets
      PROVE  LotsFondes'
  BY <1>0, <1>1 DEF LotsFondes
<1>2. CASE Commande
  <2>1. UNCHANGED <<lot, lu>>
    BY <1>2 DEF Commande, Affecter, Retirer, Collecter, Livrer, Annuler, Echouer
  <2>2. \A a \in Arrets : journal'[a] # "absent" => journal[a] # "absent" \/ a \in devis.arrets
    BY <1>0, <1>2, ArretsAssumption
       DEF Commande, Affecter, Retirer, Collecter, Livrer, Annuler, Echouer, Emettre, TypeOK
  <2> QED
    BY <1>1, <2>1, <2>2
<1>3. CASE Exploitation
  BY <1>1, <1>3 DEF Exploitation, Regler, Decider
<1>4. ASSUME NEW w \in Workers, Prendre(w) PROVE LotsFondes'
  <2>1. /\ lot'[w].tenus = EnAttente /\ lot'[w].reste = EnAttente /\ lot'[w].faits = {}
        /\ \A v \in Workers : v # w => lot'[v] = lot[v]
        /\ lu' = lu /\ journal' = journal
    BY <1>4 DEF Prendre, Tenir, TypeOK
  <2>2. lu[w].evt = {}
    BY <1>4 DEF Prendre, Tenir, LotsFondes, SansLot
  <2>3. EnAttente \cap Arrets \subseteq devis.arrets
    BY DEF EnAttente, LotsFondes
  <2>4. \A v \in Workers : lot[v].tenus \cap EnAttente = {}
    BY DEF EnAttente, Verrouilles
  <2> QED
    BY <1>0, <2>1, <2>2, <2>3, <2>4 DEF LotsFondes
<1>5. ASSUME NEW w \in Workers, NEW e \in Evenements, Lire(w, e) PROVE LotsFondes'
  <2>1. lu'[w].evt = {e} /\ e \in lot[w].reste
        /\ (\A v \in Workers : v # w => lu'[v] = lu[v])
        /\ lot' = lot /\ journal' = journal
    BY <1>5 DEF Lire, LotsFondes, TypeOK
  <2> QED
    BY <1>0, <2>1 DEF LotsFondes
<1>6. ASSUME NEW w \in Workers, NEW faits \in SUBSET lu[w].evt, Quitter(w, faits), journal' = journal PROVE LotsFondes'
  <2>1. lu'[w].evt = {} /\ lot'[w].reste \subseteq lot[w].reste /\ lot'[w].tenus = lot[w].tenus
        /\ lot'[w].faits \subseteq lot[w].faits \cup lu[w].evt
        /\ \A v \in Workers : v # w => lu'[v] = lu[v] /\ lot'[v] = lot[v]
    BY <1>6 DEF Quitter, LotsFondes, TypeOK, SansLecture
  <2> QED
    BY <1>0, <1>6, <2>1 DEF LotsFondes
<1>7. ASSUME NEW w \in Workers, NEW ok \in BOOLEAN, Ecrire(w, ok) \/ Manquer(w)
      PROVE  LotsFondes'
  BY <1>6, <1>7 DEF Ecrire, Manquer
<1>8. ASSUME NEW w \in Workers, Conclure(w) \/ Perdre(w) PROVE LotsFondes'
  <2>1. lot'[w] = SansLot /\ \A v \in Workers : v # w => lot'[v] = lot[v]
    BY <1>8 DEF Conclure, Perdre, TypeOK
  <2>2. lu'[w].evt = {} /\ \A v \in Workers : v # w => lu'[v] = lu[v]
    BY <1>8 DEF Conclure, Perdre, TypeOK, LotsFondes, SansLecture
  <2>3. \A a \in Arrets : journal'[a] # "absent" => a \in devis.arrets
    <3>1. CASE Perdre(w)
      BY <3>1 DEF Perdre, LotsFondes
    <3>2. CASE Conclure(w)
      <4>1. \A a \in Arrets : a \in lot[w].faits => a \in devis.arrets
        BY DEF LotsFondes
      <4> QED
        BY <1>0, <3>2, <4>1 DEF Conclure, LotsFondes
    <3> QED
      BY <1>8, <3>1, <3>2
  <2> QED
    BY <1>0, <2>1, <2>2, <2>3 DEF LotsFondes, SansLot
<1>9. CASE UNCHANGED vars
  BY <1>9 DEF vars, commande, LotsFondes
<1> QED
  BY <1>2, <1>3, <1>4, <1>5, <1>7, <1>8, <1>9 DEF Next, Travailler, Tomber

-----------------------------------------------------------------------------
\* A row says by its key what it is: the advances are those of the order's stops.
Portes == {a \in devis.arrets : Porte(a)}
EstAvance(x) == \E a \in devis.arrets : x.cle = Cle(a, "evenement")
Formee(x) ==
  /\ x.montant \in Int
  /\ EstAvance(x) <=> x.type = "avance"
  /\ x.type = "avance" => x.montant = 0 - Avance
LivreForme == IsFiniteSet(livre) /\ \A x \in livre : Formee(x)
CreancesFormees == Lignes(creances)

\* What the couriers are out of pocket for is counted once per stop.
AvancesComptees == AvancesPortees = Avance * Cardinality(Portes)

Comptes == LivreForme /\ CreancesFormees /\ AvancesComptees
           /\ \A w \in Workers : lu[w].avances \in Int

LEMMA CreancesPossibles ==
  ASSUME NEW S, Lignes(S), NEW c, c.montant \in Int
  PROVE  Lignes(Ouvrir(c, S)) /\ Lignes(Porter(c, S))
BY FS_AddElement DEF Ouvrir, Porter, Lignes

\* Rows that are no advance leave the advances as they are.
LEMMA AvancesInchangees ==
  ASSUME TypeOK, Comptes, devis' = devis, Lignes(creances'), IsFiniteSet(livre'),
         livre \subseteq livre',
         \A x \in livre' \ livre : x.montant \in Int /\ x.type # "avance" /\ ~EstAvance(x),
         \A w \in Workers : lu'[w].avances \in Int
  PROVE  Comptes' /\ AvancesPortees' = AvancesPortees
<1>1. Avance' = Avance
  BY DEF Avance, Plafonner
<1>2. LivreForme'
  BY <1>1 DEF Comptes, LivreForme, Formee, EstAvance, Cle
<1>3. DeType("avance")' = DeType("avance")
  BY DEF DeType
<1>4. Portes' = Portes
  BY DEF Portes, Porte, EstAvance, Cle
<1>5. AvancesPortees' = AvancesPortees
  BY <1>3 DEF AvancesPortees
<1> QED
  BY <1>1, <1>2, <1>4, <1>5 DEF Comptes, CreancesFormees, AvancesComptees

LEMMA PortesFinis ==
  ASSUME TypeOK
  PROVE  /\ IsFiniteSet(devis.arrets) /\ IsFiniteSet(Portes)
         /\ Cardinality(devis.arrets) \in Nat /\ Cardinality(Portes) \in Nat
         /\ Cardinality(Portes) <= Cardinality(devis.arrets)
         /\ Avance \in Nat
<1>1. IsFiniteSet(devis.arrets) /\ Portes \subseteq devis.arrets
  BY ArretsAssumption, FS_Subset DEF TypeOK, Portes
<1>2. Avance \in Nat
  <2>1. devis.articles \in Nat /\ devis.retenue \in Nat
    BY DEF TypeOK
  <2> QED
    BY <2>1 DEF Avance, Plafonner
<1> QED
  BY <1>1, <1>2, FS_Subset, FS_CardinalityType

\* A product grows with the number of the stops.
LEMMA ProduitCroissant ==
  ASSUME NEW p \in Nat, NEW k \in Nat, NEW n \in Nat, k <= n
  PROVE  p * k <= p * n /\ p * k \in Nat /\ p * n \in Nat /\ p * (k + 1) = p * k + p
<1>1. PICK d \in Nat : n = k + d
  <2>1. n - k \in Nat /\ n = k + (n - k)
    OBVIOUS
  <2> QED
    BY <2>1
<1>2. p * n = p * k + p * d /\ p * d \in Nat /\ p * k \in Nat
  BY <1>1
<1> QED
  BY <1>1, <1>2

\* Consuming a collection books one advance more, or none.
LEMMA AvancePortee ==
  ASSUME TypeOK, Comptes, NEW a \in devis.arrets, NEW qui, PorterAvance(a, qui), devis' = devis,
         \A w \in Workers : lu'[w].avances \in Int
  PROVE  Comptes' /\ AvancesPortees' \in Int /\ AvancesPortees <= AvancesPortees'
         /\ (livre' = livre \/ AvancesPortees < AvancesPortees')
<1> DEFINE e == Ecriture("avance", qui, 0 - Avance, Cle(a, "evenement"))
<1>1. Avance' = Avance
  BY DEF Avance, Plafonner
<1>2. creances' = creances /\ (livre' = livre \/ livre' = Porter(e, livre))
  BY DEF PorterAvance
<1>3. CASE livre' = livre
  <2>1. AvancesPortees' = AvancesPortees /\ Portes' = Portes /\ LivreForme'
    BY <1>1, <1>3 DEF AvancesPortees, DeType, Portes, Porte, Comptes, LivreForme, Formee, EstAvance, Cle
  <2>2. AvancesPortees \in Int
    BY PortesFinis, ProduitCroissant DEF Comptes, AvancesComptees
  <2> QED
    BY <1>1, <1>2, <2>1, <2>2, <1>3 DEF Comptes, CreancesFormees, AvancesComptees
<1>4. CASE livre' # livre
  <2>1. /\ e.type = "avance" /\ e.cle = Cle(a, "evenement") /\ e.montant = 0 - Avance
    BY DEF Ecriture
  <2> HIDE DEF e
  <2>2. livre' = livre \cup {e} /\ e.montant # 0 /\ ~Porte(a)
    BY <1>2, <1>4, <2>1 DEF Porter, Porte
  <2>3. e \notin livre /\ a \notin Portes /\ Portes' = Portes \cup {a}
    BY <2>1, <2>2 DEF Portes, Porte, Cle
  <2>4. Avance \in Nat /\ Avance # 0
    BY <2>1, <2>2, PortesFinis
  <2>5. LivreForme'
    <3>1. IsFiniteSet(livre')
      BY <2>2, FS_AddElement DEF Comptes, LivreForme
    <3>2. Formee(e)
      BY <2>1, <2>4 DEF Formee, EstAvance
    <3> QED
      BY <1>1, <2>2, <3>1, <3>2 DEF Comptes, LivreForme, Formee, EstAvance, Cle
  <2>6. Lignes(DeType("avance")) /\ DeType("avance")' = DeType("avance") \cup {e}
        /\ e \notin DeType("avance")
    BY <2>1, <2>2, <2>3, FS_Subset DEF DeType, Lignes, Comptes, LivreForme, Formee
  <2>7. Somme(DeType("avance")') = Somme(DeType("avance")) + e.montant
        /\ Somme(DeType("avance")) \in Int
    BY <2>1, <2>4, <2>6, SommeAjout, SommeEntiere
  <2>8. AvancesPortees' = AvancesPortees + Avance /\ AvancesPortees \in Int
    BY <2>1, <2>4, <2>7 DEF AvancesPortees
  <2>9. Cardinality(Portes') = Cardinality(Portes) + 1
    BY <2>3, PortesFinis, FS_AddElement
  <2>10. Avance * Cardinality(Portes') = Avance * Cardinality(Portes) + Avance
    BY <2>4, <2>9, PortesFinis, ProduitCroissant
  <2>11. AvancesComptees'
    BY <1>1, <2>8, <2>10 DEF Comptes, AvancesComptees
  <2> QED
    BY <1>2, <2>4, <2>5, <2>8, <2>11 DEF Comptes, CreancesFormees
<1> QED
  BY <1>3, <1>4

-----------------------------------------------------------------------------
\* The amounts of the settlement.
LEMMA MontantsDuSolde ==
  ASSUME TypeOK, NEW avances \in Int
  PROVE  LET frais == FraisEncaisses(Total, avances) IN
           /\ frais \in Nat /\ PartCourse(Part, frais, devis.marge) \in Nat
           /\ PartCourse(Part, 0, devis.marge) \in Nat
<1>1. Total \in Int /\ Part \in Nat /\ devis.marge \in Nat
  BY MontantsEntiers, MontantsAssumption DEF TypeOK
<1>2. FraisEncaisses(Total, avances) \in Nat
  BY <1>1 DEF FraisEncaisses, Positif
<1>3. \A f \in Nat : PartCourse(Part, f, devis.marge) \in Nat
  BY <1>1 DEF PartCourse, Positif
<1> QED
  BY <1>2, <1>3

\* The key of a stop's advance is nobody else's.
LEMMA CleDAvance ==
  ASSUME TypeOK, NEW x
  PROVE  /\ x.cle = Cle("livree", "evenement") => ~EstAvance(x)
         /\ \A k, d : x.cle = Cle(k, d) /\ d # "evenement" => ~EstAvance(x)
BY ArretsAssumption DEF EstAvance, Cle, TypeOK

LEMMA SolderComptes ==
  ASSUME TypeOK, Comptes, NEW qui, NEW avances \in Int, Solder(qui, avances), devis' = devis,
         \A w \in Workers : lu'[w].avances \in Int
  PROVE  Comptes' /\ AvancesPortees' = AvancesPortees
<1> DEFINE frais == FraisEncaisses(Total, avances)
           f == Ecriture("frais_encaisses", qui, frais, Cle("livree", "frais_encaisses"))
           b == Ecriture("remboursement", qui, avances, Cle("livree", "evenement"))
           c == Creance("avance_prepayee", qui, avances, Cle("livree", "evenement"), "due")
           p(n) == Creance("part_course", qui, n, Cle("livree", "part_course"), "due")
<1>1. \/ creances' = Ouvrir(p(PartCourse(Part, 0, devis.marge)), Ouvrir(c, creances))
         /\ livre' = livre
      \/ creances' = Ouvrir(p(PartCourse(Part, frais, devis.marge)), creances)
         /\ livre' = Porter(f, Porter(b, livre))
  BY DEF Solder, Rembourser, Crediter
<1>2. /\ PartCourse(Part, 0, devis.marge) \in Int /\ PartCourse(Part, frais, devis.marge) \in Int
      /\ frais \in Int
  BY MontantsDuSolde
<1>3. /\ b.montant = avances /\ c.montant = avances /\ f.montant = frais
      /\ \A n : p(n).montant = n
      /\ b.type # "avance" /\ f.type # "avance"
      /\ b.cle = Cle("livree", "evenement") /\ f.cle = Cle("livree", "frais_encaisses")
  BY DEF Ecriture, Creance
<1>4. ~EstAvance(b) /\ ~EstAvance(f)
  BY <1>3, CleDAvance
<1> HIDE DEF frais, f, b, c, p
<1>5. Lignes(creances) /\ Lignes(livre)
  BY DEF Comptes, CreancesFormees, LivreForme, Formee, Lignes
<1>6. Lignes(creances') /\ Lignes(livre')
  BY <1>1, <1>2, <1>3, <1>5, CreancesPossibles
<1>7. livre \subseteq livre' /\ livre' \subseteq livre \cup {f, b}
  BY <1>1 DEF Porter
<1> QED
  BY <1>2, <1>3, <1>4, <1>6, <1>7, AvancesInchangees DEF Lignes

LEMMA AdministrerComptes ==
  ASSUME TypeOK, Comptes, Exploitation
  PROVE  Comptes' /\ AvancesPortees' = AvancesPortees
<1>1. ASSUME NEW c \in creances, Regler(c) PROVE Comptes' /\ AvancesPortees' = AvancesPortees
  <2> DEFINE e == Ecriture("reglement", c.qui, c.montant, Cle(c.nature, "reglement"))
             d == Creance(c.nature, c.qui, c.montant, c.cle, "reglee")
  <2>1. livre' = livre \cup {e} /\ creances' = (creances \ {c}) \cup {d}
        /\ devis' = devis /\ lu' = lu
    BY <1>1 DEF Regler, commande
  <2>2. e.montant = c.montant /\ d.montant = c.montant /\ e.type # "avance"
        /\ e.cle = Cle(c.nature, "reglement")
    BY DEF Ecriture, Creance
  <2>3. ~EstAvance(e)
    BY <2>2, CleDAvance
  <2> HIDE DEF e, d
  <2>4. Lignes(creances')
    BY <2>1, <2>2, FS_AddElement, FS_RemoveElement DEF Comptes, CreancesFormees, Lignes
  <2>5. IsFiniteSet(livre') /\ c.montant \in Int
    BY <2>1, FS_AddElement DEF Comptes, CreancesFormees, LivreForme, Lignes
  <2> QED
    BY <2>1, <2>2, <2>3, <2>4, <2>5, AvancesInchangees DEF Comptes
<1>2. ASSUME NEW k \in Charges, NEW decision, Decider(k, decision)
      PROVE  Comptes' /\ AvancesPortees' = AvancesPortees
  <2> DEFINE e == Ecriture("indemnisation", charge[k].qui, charge[k].montant,
                           Cle(k, "indemnisation"))
  <2>1. livre' \in {livre, livre \cup {e}} /\ creances' = creances /\ devis' = devis /\ lu' = lu
    BY <1>2 DEF Decider, commande
  <2>2. e.montant \in Int /\ e.type # "avance" /\ e.cle = Cle(k, "indemnisation")
    BY DEF Ecriture, TypeOK
  <2>3. ~EstAvance(e)
    BY <2>2, CleDAvance
  <2> HIDE DEF e
  <2>4. IsFiniteSet(livre')
    BY <2>1, FS_AddElement DEF Comptes, LivreForme
  <2> QED
    BY <2>1, <2>2, <2>3, <2>4, AvancesInchangees DEF Comptes, CreancesFormees
<1> QED
  BY <1>1, <1>2 DEF Exploitation

LEMMA ConsommerComptes ==
  ASSUME TypeOK, LotsFondes, Comptes, NEW w \in Workers, Consommer(lu[w]), devis' = devis,
         \A v \in Workers : lu'[v].avances \in Int
  PROVE  Comptes' /\ AvancesPortees' \in Int /\ AvancesPortees <= AvancesPortees'
<1>0. AvancesPortees \in Int /\ lu[w].avances \in Int
  BY PortesFinis, ProduitCroissant DEF Comptes, AvancesComptees
<1>1. ASSUME NEW a \in Arrets, lu[w].evt = {a}, PorterAvance(a, lu[w].qui)
      PROVE  Comptes' /\ AvancesPortees' \in Int /\ AvancesPortees <= AvancesPortees'
  <2>1. a \in devis.arrets
    BY <1>1 DEF LotsFondes
  <2> QED
    BY <1>1, <2>1, AvancePortee
<1>2. CASE Solder(lu[w].qui, lu[w].avances)
  BY <1>0, <1>2, SolderComptes
<1>3. ASSUME NEW e \in Charges, Demander(e)
      PROVE  Comptes' /\ AvancesPortees' \in Int /\ AvancesPortees <= AvancesPortees'
  BY <1>0, <1>3, AvancesInchangees DEF Demander, Comptes, CreancesFormees, LivreForme
<1> QED
  BY <1>1, <1>2, <1>3 DEF Consommer

\* What a consumer has read of the advances is still there when it writes.
LecturesBornees == \A w \in Workers : lu[w].avances <= AvancesPortees

LEMMA NextComptes ==
  TypeOK /\ LotsFondes /\ Comptes /\ LecturesBornees /\ [Next]_vars => Comptes' /\ LecturesBornees'
<1> SUFFICES ASSUME TypeOK, LotsFondes, Comptes, LecturesBornees, [Next]_vars
             PROVE  Comptes' /\ LecturesBornees'
  OBVIOUS
<1>0. devis' = devis /\ AvancesPortees \in Nat
  BY LivreCroissant, PortesFinis, ProduitCroissant DEF Comptes, AvancesComptees
<1>1. ASSUME UNCHANGED <<livre, creances>>, \A w \in Workers : lu'[w].avances \in Int
      PROVE  Comptes' /\ AvancesPortees' = AvancesPortees
  BY <1>0, <1>1, AvancesInchangees DEF Comptes, CreancesFormees, LivreForme
<1>2. CASE Commande
  <2>1. UNCHANGED <<livre, creances, lu>>
    BY <1>2 DEF Commande, Affecter, Retirer, Collecter, Livrer, Annuler, Echouer, caisse
  <2> QED
    BY <1>1, <2>1 DEF Comptes, LecturesBornees
<1>3. CASE Exploitation
  <2>1. lu' = lu
    BY <1>3 DEF Exploitation, Regler, Decider
  <2> QED
    BY <1>3, <2>1, AdministrerComptes DEF LecturesBornees
<1>4. ASSUME NEW w \in Workers, NEW e \in Evenements, Lire(w, e)
      PROVE  Comptes' /\ LecturesBornees'
  <2>1. lu'[w].avances = AvancesPortees /\ UNCHANGED <<livre, creances>>
        /\ \A v \in Workers : v # w => lu'[v] = lu[v]
    BY <1>4 DEF Lire, TypeOK, caisse
  <2>2. \A v \in Workers : lu'[v].avances \in Int
    BY <1>0, <2>1 DEF Comptes
  <2> QED
    BY <1>0, <1>1, <2>1, <2>2 DEF LecturesBornees
<1>5. ASSUME NEW w \in Workers, NEW ok \in BOOLEAN, Ecrire(w, ok)
      PROVE  Comptes' /\ LecturesBornees'
  <2>1. Consommer(lu[w]) /\ lu'[w].avances = 0
        /\ \A v \in Workers : v # w => lu'[v] = lu[v]
    BY <1>5 DEF Ecrire, Quitter, TypeOK, SansLecture
  <2>2. \A v \in Workers : lu'[v].avances \in Int
    BY <2>1 DEF Comptes
  <2>3. Comptes' /\ AvancesPortees' \in Int /\ AvancesPortees <= AvancesPortees'
    BY <1>0, <2>1, <2>2, ConsommerComptes
  <2> QED
    BY <1>0, <2>1, <2>3 DEF Comptes, LecturesBornees
<1>6. ASSUME NEW w \in Workers, Prendre(w) \/ Conclure(w) \/ Manquer(w) \/ Perdre(w)
      PROVE  Comptes' /\ LecturesBornees'
  <2>1. UNCHANGED <<livre, creances>>
    BY <1>6 DEF Prendre, Tenir, Conclure, Manquer, Perdre, caisse
  <2>2. \A v \in Workers : lu'[v].avances \in {0, lu[v].avances}
    BY <1>6 DEF Prendre, Tenir, Conclure, Manquer, Perdre, Quitter, TypeOK, SansLecture
  <2> QED
    BY <1>0, <1>1, <2>1, <2>2 DEF Comptes, LecturesBornees
<1>7. CASE UNCHANGED vars
  BY <1>1, <1>7 DEF vars, caisse, Comptes, LecturesBornees
<1> QED
  BY <1>2, <1>3, <1>4, <1>5, <1>6, <1>7 DEF Next, Travailler, Tomber

LEMMA InitComptes == Init => Comptes /\ LecturesBornees
<1> SUFFICES ASSUME Init PROVE Comptes /\ LecturesBornees
  OBVIOUS
<1>1. Somme({}) = 0 /\ IsFiniteSet({}) /\ Cardinality({}) = 0
  BY SommeDeroulee, FS_EmptySet
<1>2. DeType("avance") = {} /\ Portes = {}
  BY DEF Init, DeType, Portes, Porte
<1>3. TypeOK
  BY InitTypeOK
<1>4. Avance \in Nat
  BY <1>3, PortesFinis
<1>5. AvancesPortees = 0
  BY <1>1, <1>2 DEF AvancesPortees
<1>6. \A w \in Workers : lu[w].avances = 0
  BY DEF Init, SansLecture
<1> QED
  BY <1>1, <1>2, <1>4, <1>5, <1>6
     DEF Init, Comptes, LivreForme, CreancesFormees, Lignes, AvancesComptees, LecturesBornees

-----------------------------------------------------------------------------
\* What a flag or an offer leaves of the price: all of it, or nothing.
DevisFonde ==
  /\ devis.prix + devis.retenue \in {0, Part + devis.marge}
  /\ devis.retenue # 0 => devis.prix = 0 /\ Cardinality(devis.arrets) = 1

LEMMA InitDevis == Init => DevisFonde
<1> SUFFICES ASSUME Init PROVE DevisFonde
  OBVIOUS
<1>1. PICK arrets \in Trajets, articles \in PrixArticles, mode \in {"cash", "mobile_money"},
           drapeaux \in Drapeaux : devis = Devis(arrets, articles, mode, drapeaux)
  BY DEF Init
<1> DEFINE marge == IF "gratuite_commissions" \in drapeaux THEN 0 ELSE Marge
           prix == IF "livraison_offerte_mefali" \in drapeaux THEN 0 ELSE Part + marge
           retenue == IF "offre_vendeur" \in drapeaux /\ Cardinality(arrets) = 1
                      THEN prix ELSE 0
<1>2. marge \in Nat /\ prix \in Nat /\ prix \in {0, Part + marge}
  BY MontantsAssumption
<1>3. retenue \in {0, prix} /\ (retenue # 0 => retenue = prix /\ Cardinality(arrets) = 1)
  OBVIOUS
<1>4. devis = [arrets |-> arrets, articles |-> articles, mode |-> mode, marge |-> marge,
               prix |-> prix - retenue, retenue |-> retenue]
  BY <1>1 DEF Devis
<1> HIDE DEF marge, prix, retenue
<1>5. (prix - retenue) + retenue = prix /\ (retenue = prix => prix - retenue = 0)
  BY <1>2, <1>3
<1> QED
  BY <1>2, <1>3, <1>4, <1>5 DEF DevisFonde

LEMMA NextDevis == DevisFonde /\ [Next]_vars => DevisFonde'
BY LivreCroissant DEF DevisFonde

\* The fees, less what is kept for the margin, and what they leave due, make the
\* part; so does what is due when no cash has moved.
LEMMA Partage ==
  ASSUME TypeOK, DevisFonde
  PROVE  LET frais == FraisEncaisses(Total, Avances) IN
           /\ frais + PartCourse(Part, frais, devis.marge) - Plafonner(frais, devis.marge) = Part
           /\ PartCourse(Part, 0, devis.marge) = Part
<1> DEFINE n == Cardinality(devis.arrets)
           frais == FraisEncaisses(Total, Avances)
<1>1. /\ devis.prix \in Nat /\ devis.retenue \in Nat /\ devis.marge \in Nat
      /\ devis.articles \in Nat /\ Part \in Nat /\ n \in Nat /\ Avance \in Nat
  BY PortesFinis, MontantsAssumption DEF TypeOK
<1>2. frais \in Nat /\ frais <= Part + devis.marge
      /\ frais - Plafonner(frais, devis.marge) <= Part
  <2>1. CASE devis.retenue = 0
    <3>1. Avance = devis.articles
      BY <1>1, <2>1 DEF Avance, Plafonner
    <3>2. Total = devis.articles * n + devis.prix /\ Avances = devis.articles * n
      BY <3>1 DEF Total, Avances
    <3>3. devis.articles * n \in Nat
      BY <1>1
    <3>4. Total - Avances = devis.prix
      BY <1>1, <3>2, <3>3
    <3>5. frais = devis.prix
      BY <1>1, <3>4 DEF FraisEncaisses, Positif
    <3> QED
      BY <1>1, <2>1, <3>5 DEF DevisFonde, Plafonner
  <2>2. CASE devis.retenue # 0
    <3>1. n = 1 /\ devis.prix = 0 /\ devis.retenue = Part + devis.marge
      BY <1>1, <2>2 DEF DevisFonde
    <3>2. Total = devis.articles /\ Avances = Avance
      BY <1>1, <3>1 DEF Total, Avances
    <3>3. frais = Plafonner(devis.retenue, devis.articles)
      BY <1>1, <3>2 DEF FraisEncaisses, Positif, Avance, Plafonner
    <3> QED
      BY <1>1, <3>1, <3>3 DEF Plafonner
  <2> QED
    BY <2>1, <2>2
<1> HIDE DEF frais
<1> QED
  BY <1>1, <1>2 DEF PartCourse, Positif, Plafonner, frais

\* What is held for the margin, on one row of fees at most.
DetenuSur(marge, S) == MapThenSumSet(LAMBDA e : Plafonner(e.montant, marge), S)

Plafonne(g, marge, S) ==
  g = [T \in SUBSET S |->
         IF T = {} THEN 0
         ELSE Plafonner(Premier(T).montant, marge) + g[T \ {Premier(T)}]]

LEMMA DetenuParRecurrence ==
  ASSUME NEW marge, NEW S
  PROVE  DetenuSur(marge, S) = (CHOOSE g : Plafonne(g, marge, S))[S]
BY DEF DetenuSur, MapThenSumSet, MapThenFoldSet, Premier, Plafonne

LEMMA DetenuSeul ==
  ASSUME NEW marge \in Int, NEW f, f.montant \in Int, NEW S \in SUBSET {f}
  PROVE  DetenuSur(marge, S) = IF S = {} THEN 0 ELSE Plafonner(f.montant, marge)
<1> DEFINE v == Plafonner(f.montant, marge)
           h == [T \in SUBSET S |-> IF T = {} THEN 0 ELSE v]
           g == CHOOSE k : Plafonne(k, marge, S)
<1>1. v \in Int
  BY DEF Plafonner
<1>2. \A T \in SUBSET S : T # {} => Premier(T) = f /\ T \ {Premier(T)} = {}
  BY PremierPris
<1>3. Plafonne(h, marge, S)
  <2>1. \A T \in SUBSET S :
          h[T] = IF T = {} THEN 0
                 ELSE Plafonner(Premier(T).montant, marge) + h[T \ {Premier(T)}]
    <3> SUFFICES ASSUME NEW T \in SUBSET S, T # {}
                 PROVE  h[T] = Plafonner(Premier(T).montant, marge) + h[T \ {Premier(T)}]
      OBVIOUS
    <3>1. Premier(T) = f /\ T \ {Premier(T)} = {} /\ h[T] = v /\ h[{}] = 0
      BY <1>2
    <3>2. Plafonner(Premier(T).montant, marge) = v /\ h[T \ {Premier(T)}] = 0
      BY <3>1
    <3>3. v = v + 0
      BY <1>1
    <3> QED
      BY ONLY <3>1, <3>2, <3>3
  <2>2. h = [T \in SUBSET S |-> h[T]]
    OBVIOUS
  <2> HIDE DEF h
  <2> QED
    BY <2>1, <2>2 DEF Plafonne
<1>4. Plafonne(g, marge, S)
  BY <1>3
<1> HIDE DEF g, h
<1>5. g[{}] = 0 /\ (S # {} => g[S] = Plafonner(Premier(S).montant, marge) + g[S \ {Premier(S)}])
  BY <1>4 DEF Plafonne
<1>6. DetenuSur(marge, S) = g[S]
  BY DetenuParRecurrence DEF g
<1>7. CASE S = {}
  BY <1>5, <1>6, <1>7
<1>8. CASE S # {}
  BY <1>1, <1>2, <1>5, <1>6, <1>8
<1> QED
  BY <1>7, <1>8

-----------------------------------------------------------------------------
\* The rows of the gain, and the claims not paid yet.
Hors(S) == {x \in S : x.type # "indemnisation"}
Dues(S) == {c \in S : c.etat = "due"}

LEMMA GainDeroule ==
  /\ Gain = (Somme(Hors(livre)) + Somme(Dues(creances)))
              - DetenuSur(devis.marge, DeType("frais_encaisses"))
  /\ Gain' = (Somme(Hors(livre')) + Somme(Dues(creances')))
               - DetenuSur(devis'.marge, DeType("frais_encaisses")')
<1>1. livre \ DeType("indemnisation") = Hors(livre) /\ Dus = Dues(creances)
  BY DEF DeType, Hors, Dus, Dues
<1>2. livre' \ DeType("indemnisation")' = Hors(livre') /\ Dus' = Dues(creances')
  BY DEF DeType, Hors, Dus, Dues
<1>3. Detenu = DetenuSur(devis.marge, DeType("frais_encaisses"))
  BY DEF Detenu, DetenuSur, MapThenSumSet, MapThenFoldSet
<1>4. Detenu' = DetenuSur(devis'.marge, DeType("frais_encaisses")')
  BY DEF Detenu, DetenuSur, MapThenSumSet, MapThenFoldSet
<1>5. Gain = (Somme(Hors(livre)) + Somme(Dues(creances))) - Detenu
  BY <1>1 DEF Gain
<1>6. Gain' = (Somme(Hors(livre')) + Somme(Dues(creances'))) - Detenu'
  BY <1>2 DEF Gain
<1> QED
  BY <1>3, <1>4, <1>5, <1>6

\* A row under a free key adds its amount to the gain, were it nothing.
LEMMA PorterSomme ==
  ASSUME NEW S, Lignes(S), NEW e, e.montant \in Int, e.type # "indemnisation",
         \A x \in S : x.cle # e.cle
  PROVE  Lignes(Porter(e, S)) /\ Somme(Hors(Porter(e, S))) = Somme(Hors(S)) + e.montant
<1>1. Lignes(Hors(S)) /\ Somme(Hors(S)) \in Int
  BY FS_Subset, SommeEntiere DEF Hors, Lignes
<1>2. Lignes(Porter(e, S))
  BY CreancesPossibles
<1>3. CASE e.montant = 0
  BY <1>1, <1>2, <1>3 DEF Porter
<1>4. CASE e.montant # 0
  <2>1. Hors(Porter(e, S)) = Hors(S) \cup {e} /\ e \notin Hors(S)
    BY <1>4 DEF Porter, Hors
  <2> QED
    BY <1>1, <1>2, <2>1, SommeAjout
<1> QED
  BY <1>3, <1>4

LEMMA OuvrirSomme ==
  ASSUME NEW S, Lignes(S), NEW c, c.montant \in Nat, c.etat = "due",
         \A x \in S : x.cle # c.cle /\ x.nature # c.nature
  PROVE  Lignes(Ouvrir(c, S)) /\ Somme(Dues(Ouvrir(c, S))) = Somme(Dues(S)) + c.montant
<1>1. Lignes(Dues(S)) /\ Somme(Dues(S)) \in Int
  BY FS_Subset, SommeEntiere DEF Dues, Lignes
<1>2. Lignes(Ouvrir(c, S))
  BY CreancesPossibles
<1>3. CASE c.montant = 0
  BY <1>1, <1>2, <1>3 DEF Ouvrir
<1>4. CASE c.montant # 0
  <2>1. Dues(Ouvrir(c, S)) = Dues(S) \cup {c} /\ c \notin Dues(S)
    BY <1>4 DEF Ouvrir, Dues
  <2> QED
    BY <1>1, <1>2, <2>1, SommeAjout
<1> QED
  BY <1>3, <1>4

\* Before any settlement, there are the advances and what was granted.
Vierge ==
  /\ creances = {}
  /\ \A x \in livre : EstAvance(x) \/ (x.type = "indemnisation"
                                        /\ \E k \in Charges : x.cle = Cle(k, "indemnisation"))

\* The rows and the claims of a settlement have their keys taken.
Inscrite(d) == \E x \in livre : x.cle = Cle("livree", d)
Ouverte(d) == \E c \in creances : c.cle = Cle("livree", d)
Close ==
  IF devis.mode = "cash"
  THEN LET frais == FraisEncaisses(Total, Avances) IN
         /\ Avances # 0 => Inscrite("evenement")
         /\ frais # 0 => Inscrite("frais_encaisses")
         /\ PartCourse(Part, frais, devis.marge) > 0 => Ouverte("part_course")
  ELSE /\ Avances > 0 => Ouverte("evenement")
       /\ PartCourse(Part, 0, devis.marge) > 0 => Ouverte("part_course")

LEMMA CloseDurable ==
  ASSUME Close, devis' = devis, livre \subseteq livre',
         \A c \in creances : \E d \in creances' : d.cle = c.cle
  PROVE  Close'
<1>1. Avances' = Avances /\ Total' = Total
  BY DEF Avances, Avance, Plafonner, Total
<1>2. \A d : (Inscrite(d) => Inscrite(d)') /\ (Ouverte(d) => Ouverte(d)')
  BY DEF Inscrite, Ouverte, Cle
<1> QED
  BY <1>1, <1>2 DEF Close, FraisEncaisses, PartCourse, Positif

\* A settlement done again does nothing.
LEMMA SolderRejoue ==
  ASSUME TypeOK, Close, NEW qui, Solder(qui, Avances)
  PROVE  UNCHANGED <<livre, creances>>
<1> DEFINE frais == FraisEncaisses(Total, Avances)
           f == Ecriture("frais_encaisses", qui, frais, Cle("livree", "frais_encaisses"))
           b == Ecriture("remboursement", qui, Avances, Cle("livree", "evenement"))
           c == Creance("avance_prepayee", qui, Avances, Cle("livree", "evenement"), "due")
           p(n) == Creance("part_course", qui, n, Cle("livree", "part_course"), "due")
<1>1. IF devis.mode = "cash"
      THEN /\ livre' = Porter(f, Porter(b, livre))
           /\ creances' = Ouvrir(p(PartCourse(Part, frais, devis.marge)), creances)
      ELSE /\ creances' = Ouvrir(p(PartCourse(Part, 0, devis.marge)), Ouvrir(c, creances))
           /\ livre' = livre
  BY DEF Solder, Rembourser, Crediter
<1>2. /\ b.montant = Avances /\ c.montant = Avances /\ f.montant = frais
      /\ \A n : p(n).montant = n /\ p(n).cle = Cle("livree", "part_course")
      /\ b.cle = Cle("livree", "evenement") /\ c.cle = Cle("livree", "evenement")
      /\ f.cle = Cle("livree", "frais_encaisses")
  BY DEF Ecriture, Creance
<1>3. /\ PartCourse(Part, 0, devis.marge) \in Nat /\ PartCourse(Part, frais, devis.marge) \in Nat
      /\ frais \in Nat /\ Avances \in Nat
  BY PortesFinis, ProduitCroissant, MontantsDuSolde DEF Avances
<1> DEFINE p0 == PartCourse(Part, 0, devis.marge)
           pf == PartCourse(Part, frais, devis.marge)
<1>4. IF devis.mode = "cash"
      THEN /\ Avances # 0 => Inscrite("evenement")
           /\ frais # 0 => Inscrite("frais_encaisses")
           /\ pf > 0 => Ouverte("part_course")
      ELSE /\ Avances > 0 => Ouverte("evenement")
           /\ p0 > 0 => Ouverte("part_course")
  BY DEF Close
<1> HIDE DEF frais, f, b, c, p, p0, pf
<1>5. CASE devis.mode = "cash"
  <2>1. Porter(b, livre) = livre
    BY <1>2, <1>4, <1>5 DEF Porter, Inscrite
  <2>2. Porter(f, livre) = livre
    BY <1>2, <1>4, <1>5 DEF Porter, Inscrite
  <2>3. Ouvrir(p(pf), creances) = creances
    BY <1>2, <1>3, <1>4, <1>5 DEF Ouvrir, Ouverte, pf
  <2> QED
    BY <1>1, <1>5, <2>1, <2>2, <2>3 DEF pf
<1>6. CASE devis.mode # "cash"
  <2>1. Ouvrir(c, creances) = creances
    BY <1>2, <1>3, <1>4, <1>6 DEF Ouvrir, Ouverte
  <2>2. Ouvrir(p(p0), creances) = creances
    BY <1>2, <1>3, <1>4, <1>6 DEF Ouvrir, Ouverte, p0
  <2> QED
    BY <1>1, <1>6, <2>1, <2>2 DEF p0
<1> QED
  BY <1>5, <1>6

-----------------------------------------------------------------------------
LEMMA LivreVierge ==
  ASSUME TypeOK, Comptes, Vierge, AvancesPortees = Avances
  PROVE  /\ Lignes(livre) /\ Somme(Hors(livre)) = 0 - Avances /\ Avances \in Nat
         /\ DeType("frais_encaisses") = {}
         /\ \A x \in livre : /\ x.cle # Cle("livree", "evenement")
                             /\ x.cle # Cle("livree", "frais_encaisses")
<1>1. \A x \in livre : Formee(x) /\ (x.type = "avance" \/ x.type = "indemnisation")
  BY DEF Comptes, LivreForme, Formee, Vierge
<1>2. Lignes(livre)
  BY <1>1 DEF Comptes, LivreForme, Formee, Lignes
<1>3. Hors(livre) = DeType("avance") /\ DeType("frais_encaisses") = {}
  BY <1>1 DEF Hors, DeType
<1>4. Avances \in Nat
  BY PortesFinis, ProduitCroissant DEF Avances
<1>5. Somme(DeType("avance")) \in Int
  BY <1>2, SommeEntiere, FS_Subset DEF Lignes, DeType
<1>6. Somme(Hors(livre)) = 0 - Avances
  BY <1>3, <1>4, <1>5 DEF AvancesPortees
<1>7. \A x \in livre : /\ x.cle # Cle("livree", "evenement")
                       /\ x.cle # Cle("livree", "frais_encaisses")
  BY ArretsAssumption DEF Vierge, EstAvance, Cle, TypeOK
<1> QED
  BY <1>2, <1>3, <1>4, <1>6, <1>7

\* In cash: the refund, the fees, and what the fees leave due.
LEMMA RembourserNeuf ==
  ASSUME TypeOK, Comptes, DevisFonde, Vierge, AvancesPortees = Avances, devis' = devis,
         devis.mode = "cash", NEW qui, Rembourser(qui, Avances)
  PROVE  Gain' = Part /\ Close'
<1> DEFINE frais == FraisEncaisses(Total, Avances)
           part == PartCourse(Part, frais, devis.marge)
           f == Ecriture("frais_encaisses", qui, frais, Cle("livree", "frais_encaisses"))
           b == Ecriture("remboursement", qui, Avances, Cle("livree", "evenement"))
           p == Creance("part_course", qui, part, Cle("livree", "part_course"), "due")
<1>1. livre' = Porter(f, Porter(b, livre)) /\ creances' = Ouvrir(p, {})
  BY DEF Rembourser, Vierge
<1>2. /\ b.montant = Avances /\ b.type = "remboursement" /\ b.cle = Cle("livree", "evenement")
      /\ f.montant = frais /\ f.type = "frais_encaisses"
      /\ f.cle = Cle("livree", "frais_encaisses") /\ b.cle # f.cle
      /\ p.montant = part /\ p.cle = Cle("livree", "part_course") /\ p.etat = "due"
  BY DEF Ecriture, Creance, Cle
<1>3. Avances \in Nat /\ frais \in Nat /\ part \in Nat
  BY LivreVierge, MontantsDuSolde
<1>4. frais + part - Plafonner(frais, devis.marge) = Part
  BY Partage
<1>5. /\ Avances' = Avances /\ FraisEncaisses(Total, Avances)' = frais
      /\ PartCourse(Part, frais, devis.marge)' = part
  BY DEF Avances, Avance, Plafonner, Total, FraisEncaisses, PartCourse, Positif
<1>6. devis.marge \in Nat /\ Part \in Nat
  BY MontantsAssumption DEF TypeOK
<1> HIDE DEF frais, part, f, b, p
<1> DEFINE L == Porter(b, livre)
<1>7. Lignes(L) /\ Somme(Hors(L)) = 0 /\ L \subseteq livre \cup {b} /\ (Avances # 0 => b \in L \/ Inscrite("evenement"))
  <2>1. Somme(Hors(L)) = (0 - Avances) + Avances /\ Lignes(L)
    BY <1>2, <1>3, LivreVierge, PorterSomme
  <2> QED
    BY <1>2, <1>3, <2>1 DEF Porter, Inscrite
<1>8. \A x \in L : x.cle # f.cle
  BY <1>2, <1>7, LivreVierge
<1>9. Somme(Hors(livre')) = frais
  <2>1. Somme(Hors(livre')) = 0 + frais
    BY <1>1, <1>2, <1>3, <1>7, <1>8, PorterSomme
  <2> QED
    BY <1>3, <2>1
<1>10. L \subseteq livre' /\ livre \subseteq L /\ livre' \subseteq livre \cup {b, f}
       /\ (frais # 0 => f \in livre')
  BY <1>1, <1>2, <1>7, <1>8 DEF Porter
<1>11. DeType("frais_encaisses")' = IF frais = 0 THEN {} ELSE {f}
  <2>1. CASE frais = 0
    <3>1. livre' = L
      BY <1>1, <1>2, <2>1 DEF Porter
    <3> QED
      BY <1>2, <1>7, <2>1, <3>1, LivreVierge DEF DeType
  <2>2. CASE frais # 0
    BY <1>2, <1>10, <2>2, LivreVierge DEF DeType
  <2> QED
    BY <2>1, <2>2
<1>12. DetenuSur(devis'.marge, DeType("frais_encaisses")') = Plafonner(frais, devis.marge)
  <2> DEFINE S == DeType("frais_encaisses")'
  <2>1. S \in SUBSET {f} /\ (S = {} <=> frais = 0)
    BY <1>11
  <2> HIDE DEF S
  <2>2. DetenuSur(devis.marge, S) = IF S = {} THEN 0 ELSE Plafonner(frais, devis.marge)
    BY <1>2, <1>3, <1>6, <2>1, DetenuSeul
  <2> QED
    BY <1>6, <2>1, <2>2 DEF Plafonner, S
<1>13. Somme(Dues(creances')) = part
  <2>1. Lignes({}) /\ Dues({}) = {} /\ Somme({}) = 0
    BY FS_EmptySet, SommeDeroulee DEF Lignes, Dues
  <2>2. Somme(Dues(creances')) = 0 + part
    BY <1>1, <1>2, <1>3, <2>1, OuvrirSomme
  <2> QED
    BY <1>3, <2>2
<1>14. Gain' = Part
  <2>1. Plafonner(frais, devis.marge) \in Int
    BY <1>3, <1>6 DEF Plafonner
  <2> QED
    BY <1>3, <1>4, <1>6, <1>9, <1>12, <1>13, <2>1, GainDeroule
<1>15. part > 0 => p \in creances'
  BY <1>1, <1>2, <1>3 DEF Ouvrir
<1>16. Avances # 0 => b \in livre'
  BY <1>2, <1>7, <1>10, LivreVierge DEF Inscrite
<1>17. /\ Avances # 0 => Inscrite("evenement")'
       /\ frais # 0 => Inscrite("frais_encaisses")'
       /\ part > 0 => Ouverte("part_course")'
  BY <1>2, <1>10, <1>15, <1>16 DEF Inscrite, Ouverte, Cle
<1>18. PartCourse(Part, FraisEncaisses(Total, Avances), devis.marge)' = part
  BY <1>5 DEF PartCourse, frais
<1> QED
  BY <1>5, <1>14, <1>17, <1>18 DEF Close

\* Prepaid: two claims.
LEMMA CrediterNeuf ==
  ASSUME TypeOK, Comptes, DevisFonde, Vierge, AvancesPortees = Avances, devis' = devis,
         devis.mode # "cash", NEW qui, Crediter(qui, Avances)
  PROVE  Gain' = Part /\ Close'
<1> DEFINE part == PartCourse(Part, 0, devis.marge)
           c == Creance("avance_prepayee", qui, Avances, Cle("livree", "evenement"), "due")
           p == Creance("part_course", qui, part, Cle("livree", "part_course"), "due")
           O == Ouvrir(c, {})
<1>1. livre' = livre /\ creances' = Ouvrir(p, O)
  BY DEF Crediter, Vierge
<1>2. /\ c.montant = Avances /\ c.cle = Cle("livree", "evenement") /\ c.etat = "due"
      /\ p.montant = part /\ p.cle = Cle("livree", "part_course") /\ p.etat = "due"
      /\ c.nature # p.nature /\ c.cle # p.cle
  BY DEF Creance, Cle
<1>3. Avances \in Nat /\ part \in Nat
  BY LivreVierge, MontantsDuSolde
<1>4. part = Part
  BY Partage
<1>5. Avances' = Avances /\ PartCourse(Part, 0, devis.marge)' = part
  BY DEF Avances, Avance, Plafonner, PartCourse, Positif
<1>6. devis.marge \in Nat
  BY DEF TypeOK
<1> HIDE DEF part, c, p, O
<1>7. Lignes({}) /\ Dues({}) = {} /\ Somme({}) = 0
  BY FS_EmptySet, SommeDeroulee DEF Lignes, Dues
<1>8. Lignes(O) /\ Somme(Dues(O)) = 0 + Avances
  BY <1>2, <1>3, <1>7, OuvrirSomme DEF O
<1>9. O \subseteq {c} /\ (Avances > 0 => c \in O)
  BY <1>2, <1>3 DEF O, Ouvrir
<1>10. Somme(Dues(creances')) = Avances + part
  <2>1. \A x \in O : x.cle # p.cle /\ x.nature # p.nature
    BY <1>2, <1>9
  <2>2. Somme(Dues(creances')) = Somme(Dues(O)) + part
    BY <1>1, <1>2, <1>3, <1>8, <2>1, OuvrirSomme
  <2> QED
    BY <1>3, <1>8, <2>2
<1>11. DetenuSur(devis'.marge, DeType("frais_encaisses")') = 0
  <2>1. DeType("frais_encaisses")' = {}
    BY <1>1, LivreVierge DEF DeType
  <2> QED
    BY <1>2, <1>3, <1>6, <2>1, DetenuSeul
<1>12. Gain' = Part
  BY <1>1, <1>3, <1>4, <1>10, <1>11, LivreVierge, GainDeroule
<1>13. (Avances > 0 => c \in creances') /\ (part > 0 => p \in creances')
  BY <1>1, <1>2, <1>3, <1>9 DEF Ouvrir
<1>14. (Avances > 0 => Ouverte("evenement")') /\ (part > 0 => Ouverte("part_course")')
  BY <1>2, <1>13 DEF Ouverte, Cle
<1> QED
  BY <1>5, <1>12, <1>14 DEF Close

-----------------------------------------------------------------------------
\* A claim that is paid leaves the dues and enters the book.
LEMMA ReglerNeutre ==
  ASSUME TypeOK, Comptes, Uniques, NEW c \in creances, Regler(c)
  PROVE  Gain' = Gain /\ (Close => Close') /\ AvancesPortees' = AvancesPortees
<1> DEFINE e == Ecriture("reglement", c.qui, c.montant, Cle(c.nature, "reglement"))
           d == Creance(c.nature, c.qui, c.montant, c.cle, "reglee")
<1>1. livre' = livre \cup {e} /\ creances' = (creances \ {c}) \cup {d} /\ c.etat = "due"
      /\ devis' = devis
  BY DEF Regler, commande
<1>2. /\ e.type = "reglement" /\ e.montant = c.montant /\ e.cle = Cle(c.nature, "reglement")
      /\ d.etat = "reglee" /\ d.cle = c.cle
  BY DEF Ecriture, Creance
<1> HIDE DEF e, d
<1>3. \A x \in livre : x.cle # Cle(c.nature, "reglement")
  BY <1>1 DEF Uniques, ReglementFonde, UneCreanceParNature
<1>4. c.montant \in Int /\ Lignes(livre) /\ Lignes(creances)
  BY DEF Comptes, CreancesFormees, LivreForme, Formee, Lignes
<1>5. Somme(Hors(livre')) = Somme(Hors(livre)) + c.montant
  <2>1. Hors(livre') = Hors(livre) \cup {e} /\ e \notin Hors(livre)
    BY <1>1, <1>2, <1>3 DEF Hors
  <2>2. Lignes(Hors(livre))
    BY <1>4, FS_Subset DEF Hors, Lignes
  <2> QED
    BY <1>2, <1>4, <2>1, <2>2, SommeAjout
<1>6. Somme(Dues(creances)) = Somme(Dues(creances')) + c.montant
  <2>1. Dues(creances) = Dues(creances') \cup {c} /\ c \notin Dues(creances')
    BY <1>1, <1>2 DEF Dues
  <2>2. Lignes(Dues(creances'))
    <3>1. Dues(creances') \subseteq creances
      BY <1>1, <1>2 DEF Dues
    <3> QED
      BY <1>4, <3>1, FS_Subset DEF Lignes
  <2> QED
    BY <1>4, <2>1, <2>2, SommeAjout
<1>7. /\ Somme(Hors(livre)) \in Int /\ Somme(Dues(creances)) \in Int
      /\ Somme(Dues(creances')) \in Int
  <2>1. Lignes(Hors(livre)) /\ Lignes(Dues(creances))
    BY <1>4, FS_Subset DEF Hors, Dues, Lignes
  <2>2. Lignes(Dues(creances'))
    <3>1. Dues(creances') \subseteq creances
      BY <1>1, <1>2 DEF Dues
    <3> QED
      BY <1>4, <3>1, FS_Subset DEF Lignes
  <2> QED
    BY <2>1, <2>2, SommeEntiere
<1>8. DeType("frais_encaisses")' = DeType("frais_encaisses")
      /\ DeType("avance")' = DeType("avance")
  BY <1>1, <1>2 DEF DeType
<1>9. Somme(Hors(livre')) + Somme(Dues(creances')) = Somme(Hors(livre)) + Somme(Dues(creances))
  BY <1>4, <1>5, <1>6, <1>7
<1>10. Gain' = Gain
  <2> DEFINE r == DetenuSur(devis.marge, DeType("frais_encaisses"))
  <2>1. DetenuSur(devis'.marge, DeType("frais_encaisses")') = r
    BY <1>1, <1>8
  <2> HIDE DEF r
  <2>2. Gain' = (Somme(Hors(livre')) + Somme(Dues(creances'))) - r
    BY <2>1, GainDeroule
  <2>3. Gain = (Somme(Hors(livre)) + Somme(Dues(creances))) - r
    BY GainDeroule DEF r
  <2> QED
    BY ONLY <1>9, <2>2, <2>3
<1>11. Close => Close'
  BY <1>1, <1>2, CloseDurable
<1> QED
  BY <1>8, <1>10, <1>11 DEF AvancesPortees

\* A compensation is apart.
LEMMA DeciderNeutre ==
  ASSUME NEW k, NEW decision, Decider(k, decision)
  PROVE  Gain' = Gain /\ (Close => Close') /\ AvancesPortees' = AvancesPortees
         /\ (Vierge /\ k \in Charges => Vierge')
<1> DEFINE e == Ecriture("indemnisation", charge[k].qui, charge[k].montant,
                         Cle(k, "indemnisation"))
<1>1. livre' \in {livre, livre \cup {e}} /\ creances' = creances /\ devis' = devis
  BY DEF Decider, commande
<1>2. e.type = "indemnisation" /\ e.cle = Cle(k, "indemnisation")
  BY DEF Ecriture
<1> HIDE DEF e
<1>3. Hors(livre') = Hors(livre) /\ DeType("frais_encaisses")' = DeType("frais_encaisses")
      /\ DeType("avance")' = DeType("avance")
  BY <1>1, <1>2 DEF Hors, DeType
<1>4. Gain' = Gain
  BY <1>1, <1>3, GainDeroule
<1>5. Close => Close'
  BY <1>1, CloseDurable
<1>6. Vierge /\ k \in Charges => Vierge'
  BY <1>1, <1>2 DEF Vierge, EstAvance, Cle
<1> QED
  BY <1>3, <1>4, <1>5, <1>6 DEF AvancesPortees

\* The settlement is what the first consumer with the whole of the advances did,
\* and it holds whatever happens next.
Soldee ==
  /\ bilan = "aucun" => Vierge
  /\ bilan = "complet" =>
       /\ AvancesPortees = Avances /\ Gain = Part /\ Close
       /\ \A w \in Workers : lu[w].evt = {"livree"} => lu[w].avances = Avances

LEMMA AvancesMajorees ==
  ASSUME TypeOK, devis' = devis
  PROVE  /\ Avances' = Avances
         /\ Comptes => AvancesPortees <= Avances /\ AvancesPortees \in Int /\ Avances \in Int
         /\ Comptes' => AvancesPortees' <= Avances
<1>1. Avance' = Avance /\ Avances' = Avances
  BY DEF Avances, Avance, Plafonner
<1>2. /\ Cardinality(Portes) \in Nat /\ Cardinality(Portes) <= Cardinality(devis.arrets)
      /\ Cardinality(devis.arrets) \in Nat /\ Avance \in Nat /\ IsFiniteSet(devis.arrets)
  BY PortesFinis
<1>3. Cardinality(Portes') \in Nat /\ Cardinality(Portes') <= Cardinality(devis.arrets)
  <2>1. Portes' \subseteq devis.arrets
    BY DEF Portes
  <2> QED
    BY <1>2, <2>1, FS_Subset, FS_CardinalityType
<1>4. Comptes => AvancesPortees <= Avances /\ AvancesPortees \in Int /\ Avances \in Int
  BY <1>2, ProduitCroissant DEF Comptes, AvancesComptees, Avances
<1>5. Comptes' => AvancesPortees' <= Avances
  <2>1. Avance * Cardinality(Portes') <= Avance * Cardinality(devis.arrets)
    BY <1>2, <1>3, ProduitCroissant
  <2> QED
    BY <1>1, <2>1 DEF Comptes, AvancesComptees, Avances
<1> QED
  BY <1>1, <1>4, <1>5

LEMMA SoldeeInchangee ==
  ASSUME Soldee, devis' = devis, UNCHANGED <<livre, creances, bilan>>,
         bilan = "complet" =>
           \A w \in Workers : lu'[w].evt = {"livree"} => lu'[w].avances = Avances
  PROVE  Soldee'
<1>1. Avances' = Avances /\ AvancesPortees' = AvancesPortees
  BY DEF Avances, Avance, Plafonner, AvancesPortees, DeType
<1>2. Gain' = Gain
  <2>1. DeType("frais_encaisses")' = DeType("frais_encaisses")
    BY DEF DeType
  <2> QED
    BY <2>1, GainDeroule
<1>3. (Close => Close') /\ (Vierge => Vierge')
  BY CloseDurable DEF Vierge, EstAvance, Cle
<1> QED
  BY <1>1, <1>2, <1>3 DEF Soldee

LEMMA ConsommerSoldee ==
  ASSUME TypeOK, LotsFondes, Comptes, Comptes', DevisFonde, Soldee, LecturesBornees,
         NEW w \in Workers, Consommer(lu[w]), devis' = devis, lu'[w].evt = {},
         \A v \in Workers : v # w => lu'[v] = lu[v]
  PROVE  Soldee'
<1>1. /\ Avances' = Avances /\ AvancesPortees <= Avances /\ AvancesPortees' <= Avances
      /\ AvancesPortees \in Int /\ Avances \in Int /\ lu[w].avances \in Int
      /\ \A v \in Workers : lu'[v].avances \in Int
  <2>1. \A v \in Workers : lu'[v].avances \in Int
    BY DEF Comptes
  <2> QED
    BY <2>1, AvancesMajorees DEF Comptes
<1>2. bilan = "complet" =>
        \A v \in Workers : lu'[v].evt = {"livree"} => lu'[v].avances = Avances
  BY DEF Soldee
<1>3. ASSUME NEW a \in Arrets, lu[w].evt = {a}, PorterAvance(a, lu[w].qui) PROVE Soldee'
  <2>1. a \in devis.arrets /\ creances' = creances /\ bilan' = bilan
    BY <1>3 DEF LotsFondes, PorterAvance
  <2>2. CASE bilan = "complet"
    <3>1. livre' = livre
      BY <1>1, <1>3, <2>1, <2>2, AvancePortee DEF Soldee
    <3> QED
      BY <1>2, <2>1, <3>1, SoldeeInchangee
  <2>3. CASE bilan # "complet"
    <3> DEFINE e == Ecriture("avance", lu[w].qui, 0 - Avance, Cle(a, "evenement"))
    <3>1. livre' = livre \/ livre' = Porter(e, livre)
      BY <1>3 DEF PorterAvance
    <3>2. e.cle = Cle(a, "evenement")
      BY DEF Ecriture
    <3> HIDE DEF e
    <3>3. livre' \subseteq livre \cup {e}
      BY <3>1 DEF Porter
    <3>4. Vierge => Vierge'
      BY <2>1, <3>2, <3>3 DEF Vierge, EstAvance, Cle
    <3> QED
      BY <2>1, <2>3, <3>4 DEF Soldee
  <2> QED
    BY <2>2, <2>3
<1>4. ASSUME lu[w].evt = {"livree"}, Solder(lu[w].qui, lu[w].avances) PROVE Soldee'
  <2>1. CASE bilan = "complet"
    <3>1. lu[w].avances = Avances
      BY <1>4, <2>1 DEF Soldee
    <3>2. UNCHANGED <<livre, creances>>
      BY <1>4, <2>1, <3>1, SolderRejoue DEF Soldee
    <3> QED
      BY <1>2, <1>4, <2>1, <3>2, SoldeeInchangee DEF Solder
  <2>2. CASE bilan = "aucun" /\ lu[w].avances = Avances
    <3>1. bilan' = "complet"
      BY <1>4, <2>2 DEF Solder
    <3>2. AvancesPortees = Avances
      BY <1>1, <2>2 DEF LecturesBornees
    <3>3. AvancesPortees' = Avances
      BY <1>1, <1>4, <3>2, SolderComptes
    <3>4. Gain' = Part /\ Close'
      BY <1>4, <2>2, <3>2, RembourserNeuf, CrediterNeuf DEF Solder, Soldee
    <3>5. \A v \in Workers : lu'[v].evt # {"livree"}
      BY <1>4 DEF LotsFondes
    <3> QED
      BY <1>1, <3>1, <3>3, <3>4, <3>5 DEF Soldee
  <2>3. CASE bilan # "complet" /\ ~(bilan = "aucun" /\ lu[w].avances = Avances)
    <3>1. bilan' # "aucun" /\ bilan' # "complet"
      BY <1>4, <2>3 DEF Solder
    <3> QED
      BY <3>1 DEF Soldee
  <2> QED
    BY <2>1, <2>2, <2>3
<1>5. ASSUME NEW e \in Charges, Demander(e) PROVE Soldee'
  BY <1>2, <1>5, SoldeeInchangee DEF Demander
<1> QED
  BY <1>3, <1>4, <1>5 DEF Consommer

LEMMA NextSoldee ==
  /\ TypeOK /\ LotsFondes /\ Comptes /\ LecturesBornees /\ Uniques /\ DevisFonde /\ Soldee
  /\ [Next]_vars
  => Soldee'
<1> SUFFICES ASSUME TypeOK, LotsFondes, Comptes, LecturesBornees, Uniques, DevisFonde, Soldee,
                    [Next]_vars
             PROVE  Soldee'
  OBVIOUS
<1>0. devis' = devis /\ Comptes'
  BY LivreCroissant, NextComptes
<1>1. Avances' = Avances
  BY <1>0, AvancesMajorees
<1>2. CASE Commande
  <2>1. UNCHANGED <<livre, creances, bilan, lu>>
    BY <1>2 DEF Commande, Affecter, Retirer, Collecter, Livrer, Annuler, Echouer, caisse
  <2> QED
    BY <1>0, <2>1, SoldeeInchangee DEF Soldee
<1>3. ASSUME NEW c \in creances, Regler(c) PROVE Soldee'
  <2>1. lu' = lu /\ bilan' = bilan /\ bilan # "aucun"
    BY <1>3 DEF Regler, Soldee, Vierge
  <2> QED
    BY <1>1, <1>3, <2>1, ReglerNeutre DEF Soldee
<1>4. ASSUME NEW k \in Charges, NEW decision, Decider(k, decision) PROVE Soldee'
  <2>1. lu' = lu /\ bilan' = bilan
    BY <1>4 DEF Decider
  <2> QED
    BY <1>1, <1>4, <2>1, DeciderNeutre DEF Soldee
<1>5. ASSUME NEW w \in Workers, NEW e \in Evenements, Lire(w, e) PROVE Soldee'
  <2>1. /\ lu'[w].avances = AvancesPortees /\ UNCHANGED <<livre, creances, bilan>>
        /\ \A v \in Workers : v # w => lu'[v] = lu[v]
    BY <1>5 DEF Lire, TypeOK, caisse
  <2> QED
    BY <1>0, <2>1, SoldeeInchangee DEF Soldee
<1>6. ASSUME NEW w \in Workers, NEW ok \in BOOLEAN, Ecrire(w, ok) PROVE Soldee'
  <2>1. Consommer(lu[w]) /\ lu'[w].evt = {} /\ \A v \in Workers : v # w => lu'[v] = lu[v]
    BY <1>6 DEF Ecrire, Quitter, TypeOK, SansLecture
  <2> QED
    BY <1>0, <2>1, ConsommerSoldee
<1>7. ASSUME NEW w \in Workers, Prendre(w) \/ Conclure(w) \/ Manquer(w) \/ Perdre(w)
      PROVE  Soldee'
  <2>1. UNCHANGED <<livre, creances, bilan>>
    BY <1>7 DEF Prendre, Tenir, Conclure, Manquer, Perdre, caisse
  <2>2. \A v \in Workers : lu'[v] = lu[v] \/ lu'[v].evt = {}
    BY <1>7 DEF Prendre, Tenir, Conclure, Manquer, Perdre, Quitter, TypeOK, SansLecture
  <2> QED
    BY <1>0, <2>1, <2>2, SoldeeInchangee DEF Soldee
<1>8. CASE UNCHANGED vars
  BY <1>0, <1>8, SoldeeInchangee DEF vars, caisse, Soldee
<1> QED
  BY <1>2, <1>3, <1>4, <1>5, <1>6, <1>7, <1>8 DEF Next, Exploitation, Travailler, Tomber

LEMMA InitSoldee == Init => Soldee
BY DEF Init, Soldee, Vierge

\* The book holds one advance for each stop that was booked, of the amount that
\* the courier paid there, however often its event is delivered.
THEOREM AvancesJustes == Spec => []AvancesComptees
<1>1. Comptes => AvancesComptees
  BY DEF Comptes
<1> QED
  BY <1>1, InitTypeOK, NextTypeOK, InitLots, NextLots, InitComptes, NextComptes, PTL DEF Spec

\* Whatever the way to pay, the flags, the replays and the failures, a delivery
\* settled with the whole of its advances leaves its couriers the part of the quote.
THEOREM GainSur == Spec => []GainJuste
<1>1. Soldee => GainJuste
  BY DEF Soldee, GainJuste
<1> QED
  BY <1>1, InitTypeOK, NextTypeOK, InitUniques, NextUniques, InitLots, NextLots,
     InitComptes, NextComptes, InitDevis, NextDevis, InitSoldee, NextSoldee, PTL DEF Spec

=============================================================================
