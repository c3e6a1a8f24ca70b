---------------------------- MODULE RemiseProofs ----------------------------
(***************************************************************************)
(* Proofs about module Remise, for every limit of tries, any number of     *)
(* runs of the application, of requests to unblock and of requests nobody  *)
(* awaits.                                                                 *)
(***************************************************************************)
EXTENDS Remise, TLAPS

USE DEF Aucun, Neuf, Uuids, Instants

\* What the server knows of the delivery and of its code.
Serveur == <<statut, essais, codeDebloqueLe>>

\* The uuid of a payload is a real one.
LEMMA UuidReel ==
  ASSUME NEW d \in Demandes
  PROVE  d.uuid # Aucun
BY DemarragesMaxAssumption DEF Demandes

\* An answer adds nothing but itself to the requests.
LEMMA ReponseSeule ==
  ASSUME TypeOK, NEW r \in requetes, NEW issue \in Issues, Repondre(r, issue)
  PROVE  /\ requetes' \subseteq Requetes
         /\ \A s \in requetes' : s \in requetes \/ (s.demande = r.demande /\ s.issue = issue)
<1>1. [r EXCEPT !.phase = "traitee", !.issue = issue] \in Requetes
  BY DEF TypeOK, Requetes
<1>2. requetes \subseteq Requetes /\ r \in Requetes
  BY DEF TypeOK
<1>3. /\ [r EXCEPT !.phase = "traitee", !.issue = issue].demande = r.demande
      /\ [r EXCEPT !.phase = "traitee", !.issue = issue].issue = issue
  BY <1>2 DEF Requetes
<1>4. requetes' \subseteq requetes \cup {[r EXCEPT !.phase = "traitee", !.issue = issue]}
  BY DEF Repondre
<1> QED
  BY <1>1, <1>2, <1>3, <1>4

\* Giving up on requests invents no answer.
LEMMA AbandonSeul ==
  ASSUME TypeOK, NEW R \in SUBSET requetes, NePlusAttendre(R)
  PROVE  /\ requetes' \subseteq Requetes
         /\ \A s \in requetes' : \E q \in requetes : s.demande = q.demande /\ s.issue = q.issue
<1>1. PICK suite \in SUBSET {r \in R : r.phase # "traitee"} :
        requetes' = (requetes \ R) \cup {[r EXCEPT !.par = "personne"] : r \in suite}
  BY DEF NePlusAttendre
<1>2. ASSUME NEW q \in requetes
      PROVE  /\ [q EXCEPT !.par = "personne"] \in Requetes
             /\ [q EXCEPT !.par = "personne"].demande = q.demande
             /\ [q EXCEPT !.par = "personne"].issue = q.issue
  <2>1. q \in Requetes
    BY DEF TypeOK
  <2> QED
    BY <2>1 DEF Requetes
<1>3. \A s \in requetes' : s \in requetes \/ \E q \in requetes : s = [q EXCEPT !.par = "personne"]
  BY <1>1
<1>4. requetes \subseteq Requetes
  BY DEF TypeOK
<1> QED
  BY <1>2, <1>3, <1>4

\* A payload sent says nothing yet.
LEMMA EnvoiMuet ==
  ASSUME NEW d \in Demandes, NEW par \in {"ecran", "signal"} \cup Drains
  PROVE  Envoi(d, par) \in Requetes /\ Envoi(d, par).issue = "sans"
<1>1. 0 \in Instants
  BY DeblocagesMaxAssumption
<1> QED
  BY <1>1 DEF Envoi, Requetes, Issues

\* While the server does nothing, the invariants survive as long as every answer
\* on the wire, every refusal kept and every confirmation was already there.
LEMMA ServeurImmobile ==
  ASSUME IInv, UNCHANGED Serveur, TypeOK',
         \A s \in requetes' : s.issue = "sans" \/
            \E q \in requetes : s.demande = q.demande /\ s.issue = q.issue,
         \A x \in refuses' : x \in refuses \/ x.motif = "ok" \/
            \E q \in requetes : x.demande = q.demande /\ x.motif = q.issue,
         confirmee' = "serveur" => confirmee = "serveur" \/ \E q \in requetes : q.issue = "ok"
  PROVE  IInv'
<1>1. livraison' = livraison /\ porteur' = porteur /\ cloture' = cloture
      /\ essaisCode' = essaisCode /\ codeBloqueLe' = codeBloqueLe /\ alertee' = alertee
      /\ codeDebloqueLe' = codeDebloqueLe
  BY DEF Serveur, statut, essais
<1>2. ClotureFondee' /\ VerrouAlerte'
  BY <1>1 DEF IInv, ClotureFondee, VerrouAlerte, CodeBloque
<1>3. AccusesFondes' /\ AccuseFonde'
  BY <1>1 DEF IInv, AccusesFondes, AccuseFonde
<1>4. QrJamaisRefuse'
  BY <1>1 DEF IInv, QrJamaisRefuse, RefusLicite
<1> QED
  BY <1>2, <1>3, <1>4 DEF IInv

LEMMA InitIInv == Init => IInv
<1> SUFFICES ASSUME Init PROVE IInv
  OBVIOUS
<1>1. TypeOK
  <2>1. 0 \in Instants /\ 1 \in Instants /\ 1 \in Uuids
    BY DemarragesMaxAssumption, DeblocagesMaxAssumption
  <2>2. cloture \in [uuid : Uuids \cup {Neuf, Aucun}, mode : Voies \cup {"aucun"}]
    BY DEF Init, SansCloture
  <2>3. cache \in [course : BOOLEAN, essais : Nat, bloque : BOOLEAN, depot : BOOLEAN]
    BY DEF Init, SansCourse
  <2>4. requetes \subseteq Requetes /\ file \subseteq Demandes
        /\ refuses \subseteq [demande : Demandes, motif : Issues]
    BY DEF Init
  <2> HIDE DEF Uuids, Instants, Aucun, Neuf
  <2> QED
    BY <2>1, <2>2, <2>3, <2>4 DEF Init, TypeOK
<1>2. ~CodeBloque /\ ~(essaisCode >= EssaisMax)
  BY EssaisMaxAssumption DEF Init, CodeBloque
<1>3. ClotureFondee /\ AccusesFondes /\ AccuseFonde
  BY DEF Init, ClotureFondee, AccusesFondes, AccuseFonde, SansCloture
<1>4. QrJamaisRefuse
  BY DEF Init, QrJamaisRefuse
<1> QED
  BY <1>1, <1>2, <1>3, <1>4 DEF IInv, VerrouAlerte

-----------------------------------------------------------------------------
(* The server.                                                             *)

\* The counter grows or stays, and whatever it makes blocked is announced.
LEMMA ConsignerSur ==
  ASSUME TypeOK, VerrouAlerte, NEW n \in Nat, NEW heure \in Instants,
         ConsignerEssais(n, heure), n >= essaisCode, UNCHANGED codeDebloqueLe
  PROVE  /\ essaisCode' \in Nat /\ codeBloqueLe' \in Instants /\ alertee' \in BOOLEAN
         /\ VerrouAlerte'
<1>1. CASE n > essaisCode /\ ~CodeBloque /\ n >= EssaisMax
  BY <1>1 DEF ConsignerEssais, TypeOK, VerrouAlerte
<1>2. CASE ~(n > essaisCode /\ ~CodeBloque /\ n >= EssaisMax)
  <2>1. essaisCode' = n /\ codeBloqueLe' = codeBloqueLe /\ alertee' = alertee
    BY <1>2 DEF ConsignerEssais, TypeOK
  <2>2. CodeBloque' = CodeBloque
    BY <2>1 DEF CodeBloque
  <2>3. CodeBloque' \/ essaisCode' >= EssaisMax => alertee
    BY <1>2, <2>1, <2>2, EssaisMaxAssumption DEF VerrouAlerte, TypeOK
  <2> QED
    BY <2>1, <2>3 DEF VerrouAlerte, TypeOK
<1> QED
  BY <1>1, <1>2

\* What an answer must satisfy for the invariants to survive it.
LEMMA ReponseSure ==
  ASSUME IInv, NEW r \in requetes, NEW issue \in Issues, Repondre(r, issue),
         UNCHANGED <<porteur, depotAutorise, horloge, levees, appli>>,
         livraison' \in {"en_livraison", "livree", "echouee"},
         livraison # "en_livraison" => livraison' = livraison,
         cloture' \in [uuid : Uuids \cup {Neuf, Aucun}, mode : Voies \cup {"aucun"}],
         essaisCode' \in Nat, codeBloqueLe' \in Instants, alertee' \in BOOLEAN,
         VerrouAlerte',
         cloture'.uuid # Aucun => livraison' = "livree",
         issue = "ok" => livraison' = "livree",
         r.demande.voie = "qr" /\ issue \notin {"sans", "ok", "erreur_interne"}
           => livraison # "en_livraison" \/ ~porteur
  PROVE  IInv'
<1>1. /\ requetes' \subseteq Requetes
      /\ \A s \in requetes' : s \in requetes \/ (s.demande = r.demande /\ s.issue = issue)
  BY ReponseSeule DEF IInv
<1>2. TypeOK'
  BY <1>1 DEF IInv, TypeOK, levees, appli
<1>3. ClotureFondee'
  BY DEF ClotureFondee
<1>4. AccusesFondes' /\ AccuseFonde'
  BY <1>1 DEF IInv, AccusesFondes, AccuseFonde, appli
<1>5. QrJamaisRefuse'
  <2>1. \A demande, motif : RefusLicite(demande, motif) => RefusLicite(demande, motif)'
    BY DEF RefusLicite
  <2>2. RefusLicite(r.demande, issue)'
    BY DEF RefusLicite
  <2>3. refuses' = refuses
    BY DEF appli
  <2>4. /\ \A x \in refuses : RefusLicite(x.demande, x.motif)'
        /\ \A s \in requetes : RefusLicite(s.demande, s.issue)'
    BY <2>1 DEF IInv, QrJamaisRefuse
  <2> QED
    BY <1>1, <2>2, <2>3, <2>4 DEF QrJamaisRefuse
<1> QED
  BY <1>2, <1>3, <1>4, <1>5 DEF IInv

LEMMA StepValiderRemise ==
  ASSUME IInv, NEW r \in requetes, ValiderRemise(r)
  PROVE  IInv'
<1> DEFINE d == r.demande
<1>1. /\ d \in Demandes /\ r.heure \in Instants
      /\ UNCHANGED <<depotAutorise, horloge, levees, appli>>
  BY DEF IInv, TypeOK, Requetes, ValiderRemise
<1>2. /\ d.essais \in Nat /\ d.uuid \in Uuids \cup {Neuf} /\ d.voie \in Voies
      /\ Consolides(d) \in Nat /\ Consolides(d) >= essaisCode
  BY <1>1 DEF Demandes, Consolides, PlusGrand, IInv, TypeOK
<1>3. UNCHANGED codeDebloqueLe /\ EssaisMax \in Nat
  BY <1>1, EssaisMaxAssumption DEF levees
<1>4. ASSUME UNCHANGED <<statut, essais>>
      PROVE  /\ UNCHANGED porteur /\ livraison' = livraison /\ cloture' = cloture
             /\ livraison' \in {"en_livraison", "livree", "echouee"}
             /\ cloture' \in [uuid : Uuids \cup {Neuf, Aucun}, mode : Voies \cup {"aucun"}]
             /\ essaisCode' \in Nat /\ codeBloqueLe' \in Instants /\ alertee' \in BOOLEAN
             /\ VerrouAlerte' /\ (cloture'.uuid # Aucun => livraison' = "livree")
  BY <1>3, <1>4 DEF IInv, TypeOK, statut, essais, VerrouAlerte, CodeBloque, ClotureFondee
<1>5. ASSUME NEW n \in Nat, n >= essaisCode, ConsignerEssais(n, r.heure)
      PROVE  /\ essaisCode' \in Nat /\ codeBloqueLe' \in Instants /\ alertee' \in BOOLEAN
             /\ VerrouAlerte'
  BY <1>1, <1>3, <1>5, ConsignerSur DEF IInv
<1>6. ASSUME UNCHANGED statut
      PROVE  /\ UNCHANGED porteur /\ livraison' = livraison /\ cloture' = cloture
             /\ livraison' \in {"en_livraison", "livree", "echouee"}
             /\ cloture' \in [uuid : Uuids \cup {Neuf, Aucun}, mode : Voies \cup {"aucun"}]
             /\ (cloture'.uuid # Aucun => livraison' = "livree")
  BY <1>6 DEF IInv, TypeOK, statut, ClotureFondee
<1>7. CASE RefuserNonProprietaire(r)
  BY <1>1, <1>4, <1>7, ReponseSure DEF RefuserNonProprietaire, Issues
<1>8. CASE Rejouer(r)
  <2>1. livraison = "livree"
    BY <1>1, <1>8, UuidReel DEF Rejouer, IInv, ClotureFondee
  <2> QED
    BY <1>1, <1>4, <1>8, <2>1, ReponseSure DEF Rejouer, Issues
<1>9. CASE RefuserDepot(r)
  BY <1>1, <1>4, <1>9, ReponseSure DEF RefuserDepot, DepotRefuse, Issues
<1>10. CASE EpuiserCode(r)
  <2>1. ConsignerEssais(Consolides(d), r.heure) /\ UNCHANGED statut
        /\ Repondre(r, "code_epuise") /\ d.voie = "code"
    BY <1>10 DEF EpuiserCode
  <2> QED
    BY <1>1, <1>2, <1>5, <1>6, <2>1, ReponseSure DEF Issues
<1>11. CASE CompterCodeFaux(r)
  <2> DEFINE issue == IF Consolides(d) + 1 >= EssaisMax THEN "code_epuise" ELSE "remise_incorrecte"
  <2>1. ConsignerEssais(Consolides(d) + 1, r.heure) /\ UNCHANGED statut
        /\ Repondre(r, issue) /\ d.voie = "code"
    BY <1>11 DEF CompterCodeFaux
  <2>2. Consolides(d) + 1 \in Nat /\ Consolides(d) + 1 >= essaisCode
    BY <1>2 DEF IInv, TypeOK
  <2>3. issue \in Issues /\ issue # "ok"
    BY DEF Issues
  <2> HIDE DEF issue
  <2> QED
    BY <1>1, <1>5, <1>6, <2>1, <2>2, <2>3, ReponseSure
<1>12. CASE Clore(r)
  <2>1. /\ livraison = "en_livraison" /\ livraison' = "livree" /\ UNCHANGED porteur
        /\ cloture' = [uuid |-> d.uuid, mode |-> d.voie]
        /\ ConsignerEssais(Consolides(d), r.heure) /\ Repondre(r, "ok")
    BY <1>12 DEF Clore
  <2>2. cloture' \in [uuid : Uuids \cup {Neuf, Aucun}, mode : Voies \cup {"aucun"}]
    BY <1>2, <2>1
  <2> QED
    BY <1>1, <1>2, <1>5, <2>1, <2>2, ReponseSure DEF Issues
<1>13. CASE RefuserTransition(r)
  BY <1>1, <1>4, <1>13, ReponseSure DEF RefuserTransition, Issues
<1>14. CASE Echouer(r)
  BY <1>1, <1>4, <1>14, ReponseSure DEF Echouer, Issues
<1> QED
  BY <1>7, <1>8, <1>9, <1>10, <1>11, <1>12, <1>13, <1>14 DEF ValiderRemise

LEMMA StepArriver ==
  ASSUME IInv, NEW r \in requetes, Arriver(r)
  PROVE  IInv'
<1> DEFINE s == [r EXCEPT !.phase = "arrivee", !.heure = horloge]
<1>1. r \in Requetes /\ horloge \in Instants /\ requetes' \subseteq requetes \cup {s}
  BY DEF IInv, TypeOK, Arriver
<1>2. s \in Requetes /\ s.demande = r.demande /\ s.issue = r.issue
  BY <1>1 DEF Requetes
<1> HIDE DEF s
<1>3. UNCHANGED <<statut, essais, levees, depotAutorise, horloge, appli>>
  BY DEF Arriver
<1>4. TypeOK'
  BY <1>1, <1>2, <1>3 DEF IInv, TypeOK, statut, essais, levees, appli
<1> QED
  BY <1>1, <1>2, <1>3, <1>4, ServeurImmobile DEF Serveur, levees, appli

-----------------------------------------------------------------------------
(* The operators.                                                          *)

LEMMA StepDemanderDeblocage ==
  ASSUME IInv, DemanderDeblocage
  PROVE  IInv'
<1>1. TypeOK'
  BY DeblocagesMaxAssumption DEF IInv, TypeOK, DemanderDeblocage, statut, essais, appli
<1> QED
  BY <1>1, ServeurImmobile DEF DemanderDeblocage, Serveur, appli

\* A lift that comes too late to lift leaves the alert of the block it missed;
\* one that lifts starts the count again below the threshold.
LEMMA StepDebloquerCode ==
  ASSUME IInv, DebloquerCode
  PROVE  IInv'
<1>1. UNCHANGED <<statut, codeBloqueLe, depotAutorise, horloge, requetes, appli>>
  BY DEF DebloquerCode
<1>2. TypeOK'
  <2>1. 0 \in Instants
    BY DeblocagesMaxAssumption
  <2>2. alertee \in BOOLEAN /\ deblocage \in Instants /\ codeDebloqueLe \in Instants
    BY DEF IInv, TypeOK
  <2> HIDE DEF Uuids, Instants, Aucun, Neuf
  <2>3. /\ deblocage' \in Instants /\ codeDebloqueLe' \in Instants
        /\ essaisCode' \in Nat
    BY <2>1, <2>2 DEF DebloquerCode, IInv, TypeOK
  <2>4. alertee' \in BOOLEAN
    BY <2>2 DEF DebloquerCode
  <2> QED
    BY <1>1, <2>3, <2>4 DEF IInv, TypeOK, statut, appli
<1>3. VerrouAlerte'
  <2>1. CASE CodeBloque
    <3>1. /\ codeDebloqueLe' = deblocage /\ essaisCode' = 0
          /\ alertee' = (alertee /\ deblocage < codeBloqueLe) /\ alertee /\ deblocage # 0
      BY <2>1 DEF DebloquerCode, IInv, VerrouAlerte
    <3>2. CodeBloque' => deblocage < codeBloqueLe
      BY <1>1, <3>1 DEF CodeBloque
    <3>3. ~(essaisCode' >= EssaisMax)
      BY <3>1, EssaisMaxAssumption
    <3>4. CodeBloque' => alertee'
      BY <3>1, <3>2, Zenon
    <3> QED
      BY <3>3, <3>4, Zenon DEF VerrouAlerte
  <2>2. CASE ~CodeBloque
    BY <1>1, <2>2 DEF DebloquerCode, IInv, VerrouAlerte, CodeBloque
  <2> QED
    BY <2>1, <2>2
<1> QED
  BY <1>1, <1>2, <1>3
  DEF IInv, ClotureFondee, AccusesFondes, AccuseFonde, QrJamaisRefuse, RefusLicite, statut, appli

LEMMA StepAutoriserDepot ==
  ASSUME IInv, AutoriserDepot
  PROVE  IInv'
<1>1. TypeOK'
  BY DEF IInv, TypeOK, AutoriserDepot, statut, essais, levees, appli
<1> QED
  BY <1>1, ServeurImmobile DEF AutoriserDepot, Serveur, levees, appli

\* Only an open delivery is lost, and nothing accepted was about an open one.
LEMMA StepPerdreLaCourse ==
  ASSUME IInv, PerdreLaCourse
  PROVE  IInv'
<1>1. /\ UNCHANGED <<cloture, essais, levees, depotAutorise, horloge, requetes, appli>>
      /\ livraison = "en_livraison"
      /\ \/ livraison' = "echouee" /\ porteur' = porteur
         \/ livraison' = livraison /\ porteur' = FALSE
  BY DEF PerdreLaCourse
<1>2. TypeOK'
  <2>1. livraison' \in {"en_livraison", "livree", "echouee"} /\ porteur' \in BOOLEAN
    BY <1>1 DEF IInv, TypeOK
  <2> HIDE DEF Uuids, Instants, Aucun, Neuf
  <2> QED
    BY <1>1, <2>1 DEF IInv, TypeOK, essais, levees, appli
<1>3. ClotureFondee' /\ AccusesFondes' /\ AccuseFonde'
  BY <1>1 DEF IInv, ClotureFondee, AccusesFondes, AccuseFonde, appli
<1>4. QrJamaisRefuse'
  BY <1>1 DEF IInv, QrJamaisRefuse, RefusLicite, appli
<1>5. VerrouAlerte'
  BY <1>1 DEF IInv, VerrouAlerte, CodeBloque, essais, levees
<1> QED
  BY <1>2, <1>3, <1>4, <1>5 DEF IInv

-----------------------------------------------------------------------------
(* The application.                                                        *)

LEMMA StepDicterCodeFaux ==
  ASSUME IInv, DicterCodeFaux
  PROVE  IInv'
<1> DEFINE d == [uuid |-> Neuf, voie |-> "code", juste |-> FALSE, essais |-> essaisLocaux + 1]
<1>1. d \in Demandes
  BY DEF IInv, TypeOK, Demandes, Voies
<1>2. /\ requetes' = requetes \cup {Envoi(d, "signal")}
      /\ essaisLocaux' = essaisLocaux + 1
      /\ UNCHANGED <<statut, essais, levees, depotAutorise, horloge,
                     cache, bloqueEcran, uuidRemise, file, refuses, confirmee>>
  BY DEF DicterCodeFaux
<1> HIDE DEF d
<1>3. Envoi(d, "signal") \in Requetes /\ Envoi(d, "signal").issue = "sans"
  BY <1>1, EnvoiMuet
<1>4. TypeOK'
  BY <1>2, <1>3 DEF IInv, TypeOK, statut, essais, levees
<1> QED
  BY <1>2, <1>3, <1>4, ServeurImmobile DEF Serveur, levees

LEMMA StepConfirmer ==
  ASSUME IInv, NEW voie \in Voies, Confirmer(voie)
  PROVE  IInv'
<1> DEFINE d == [uuid |-> uuidRemise, voie |-> voie, juste |-> TRUE, essais |-> essaisLocaux]
<1>1. d \in Demandes
  BY DEF IInv, TypeOK, Demandes
<1>2. /\ requetes' = requetes \cup {Envoi(d, "ecran")}
      /\ UNCHANGED <<statut, essais, levees, depotAutorise, horloge, appli>>
  BY DEF Confirmer
<1> HIDE DEF d
<1>3. Envoi(d, "ecran") \in Requetes /\ Envoi(d, "ecran").issue = "sans"
  BY <1>1, EnvoiMuet
<1>4. TypeOK'
  BY <1>2, <1>3 DEF IInv, TypeOK, statut, essais, levees, appli
<1> QED
  BY <1>2, <1>3, <1>4, ServeurImmobile DEF Serveur, levees, appli

LEMMA StepDrainer ==
  ASSUME IInv, NEW d \in file, NEW drain \in Drains, Drainer(d, drain)
  PROVE  IInv'
<1>1. d \in Demandes
  BY DEF IInv, TypeOK
<1>2. /\ requetes' = requetes \cup {Envoi(d, drain)}
      /\ UNCHANGED <<statut, essais, levees, depotAutorise, horloge, appli>>
  BY DEF Drainer
<1>3. Envoi(d, drain) \in Requetes /\ Envoi(d, drain).issue = "sans"
  BY <1>1, EnvoiMuet
<1>4. TypeOK'
  BY <1>2, <1>3 DEF IInv, TypeOK, statut, essais, levees, appli
<1> QED
  BY <1>2, <1>3, <1>4, ServeurImmobile DEF Serveur, levees, appli

LEMMA StepRecharger ==
  ASSUME IInv, Recharger
  PROVE  IInv'
<1>1. UNCHANGED <<statut, essais, levees, depotAutorise, horloge, requetes,
                  uuidRemise, file, refuses, confirmee>>
  BY DEF Recharger
<1>2. CodeBloque \in BOOLEAN
  BY DEF CodeBloque
<1>3. essaisLocaux' \in Nat /\ bloqueEcran' \in BOOLEAN
  <2>1. essaisLocaux' \in {essaisLocaux, 0} /\ essaisLocaux \in Nat
    BY DEF Recharger, IInv, TypeOK
  <2>2. bloqueEcran' = CodeBloque \/ bloqueEcran' = FALSE
    BY Zenon DEF Recharger
  <2>3. bloqueEcran' \in BOOLEAN
    BY <1>2, <2>2, Zenon
  <2> QED
    BY <2>1, <2>3
<1>4. cache' \in [course : BOOLEAN, essais : Nat, bloque : BOOLEAN, depot : BOOLEAN]
  <2>1. CASE porteur /\ livraison = "en_livraison"
    <3> DEFINE b == CodeBloque
    <3>1. cache' = [course |-> TRUE, essais |-> essaisCode, bloque |-> b, depot |-> depotAutorise]
      BY <2>1 DEF Recharger
    <3>2. b \in BOOLEAN
      BY <1>2
    <3> HIDE DEF b
    <3> QED
      BY <3>1, <3>2 DEF IInv, TypeOK
  <2>2. CASE ~(porteur /\ livraison = "en_livraison")
    <3>1. cache' = SansCourse
      BY <2>2 DEF Recharger
    <3> QED
      BY <3>1 DEF SansCourse
  <2> QED
    BY <2>1, <2>2
<1> HIDE DEF Uuids, Instants, Aucun, Neuf
<1>5. TypeOK'
  BY <1>1, <1>3, <1>4 DEF IInv, TypeOK, statut, essais, levees
<1> QED
  BY <1>1, <1>5, ServeurImmobile DEF Serveur, levees

\* The only confirmation by the server comes from a reply that accepts.
LEMMA StepRecevoirReponse ==
  ASSUME IInv, NEW r \in requetes, RecevoirReponse(r)
  PROVE  IInv'
<1>1. /\ UNCHANGED <<statut, essais, levees, depotAutorise, horloge,
                     cache, uuidRemise, file, refuses>>
      /\ requetes' = requetes \ {r}
      /\ confirmee' = confirmee \/ (confirmee' = "serveur" /\ r.issue = "ok")
      /\ essaisLocaux' \in {essaisLocaux, 0} /\ bloqueEcran' \in BOOLEAN
  BY DEF RecevoirReponse, IInv, TypeOK
<1>2. TypeOK'
  BY <1>1 DEF IInv, TypeOK, statut, essais, levees
<1> QED
  BY <1>1, <1>2, ServeurImmobile DEF Serveur, levees

LEMMA StepRetirerDeLaFile ==
  ASSUME IInv, NEW r \in requetes, RetirerDeLaFile(r)
  PROVE  IInv'
<1>1. /\ UNCHANGED <<statut, essais, levees, depotAutorise, horloge,
                     essaisLocaux, cache, bloqueEcran, uuidRemise, confirmee>>
      /\ requetes' = requetes \ {r} /\ file' \subseteq file
      /\ refuses' \subseteq refuses \cup {[demande |-> r.demande, motif |-> r.issue]}
  BY DEF RetirerDeLaFile
<1>2. [demande |-> r.demande, motif |-> r.issue] \in [demande : Demandes, motif : Issues]
  BY DEF IInv, TypeOK, Requetes
<1>3. TypeOK'
  BY <1>1, <1>2 DEF IInv, TypeOK, statut, essais, levees
<1> QED
  BY <1>1, <1>3, ServeurImmobile DEF Serveur, levees

\* A report or a drain without an answer.
LEMMA StepSansReponse ==
  ASSUME IInv, NEW r \in requetes, PerdreSignal(r) \/ ManquerDrain(r)
  PROVE  IInv'
<1>1. NePlusAttendre({r}) /\ UNCHANGED <<statut, essais, levees, depotAutorise, horloge, appli>>
  BY DEF PerdreSignal, ManquerDrain
<1>2. /\ requetes' \subseteq Requetes
      /\ \A s \in requetes' : \E q \in requetes : s.demande = q.demande /\ s.issue = q.issue
  BY <1>1, AbandonSeul DEF IInv
<1>3. TypeOK'
  BY <1>1, <1>2 DEF IInv, TypeOK, statut, essais, levees, appli
<1> QED
  BY <1>1, <1>2, <1>3, ServeurImmobile DEF Serveur, levees, appli

LEMMA StepMettreEnFile ==
  ASSUME IInv, NEW r \in requetes, MettreEnFile(r)
  PROVE  IInv'
<1>1. /\ NePlusAttendre({r}) /\ confirmee' = "locale"
      /\ file' \subseteq file \cup {r.demande}
      /\ UNCHANGED <<statut, essais, levees, depotAutorise, horloge,
                     essaisLocaux, cache, bloqueEcran, uuidRemise, refuses>>
  BY DEF MettreEnFile
<1>2. /\ requetes' \subseteq Requetes
      /\ \A s \in requetes' : \E q \in requetes : s.demande = q.demande /\ s.issue = q.issue
  BY <1>1, AbandonSeul DEF IInv
<1>3. r.demande \in Demandes
  BY DEF IInv, TypeOK, Requetes
<1>4. TypeOK'
  BY <1>1, <1>2, <1>3 DEF IInv, TypeOK, statut, essais, levees
<1> QED
  BY <1>1, <1>2, <1>4, ServeurImmobile DEF Serveur, levees

\* Another run of the application, the database kept or lost.
LEMMA StepQuitter ==
  ASSUME IInv, Redemarrer \/ Reinstaller
  PROVE  IInv'
<1>1. /\ Quitter
      /\ essaisLocaux' \in {essaisLocaux, 0} /\ cache' \in {cache, SansCourse}
      /\ bloqueEcran' \in {cache.bloque, FALSE}
      /\ file' \in {file, {}} /\ refuses' \in {refuses, {}}
      /\ confirmee' \in {"non", confirmee}
  BY DEF Redemarrer, Reinstaller
<1>2. /\ uuidRemise < DemarragesMax /\ uuidRemise' = uuidRemise + 1
      /\ NePlusAttendre(requetes \ Orphelines)
      /\ UNCHANGED <<statut, essais, levees, depotAutorise, horloge>>
  BY <1>1 DEF Quitter
<1>3. /\ requetes' \subseteq Requetes
      /\ \A s \in requetes' : \E q \in requetes : s.demande = q.demande /\ s.issue = q.issue
  BY <1>2, AbandonSeul DEF IInv
<1>4. TypeOK'
  <2>1. uuidRemise' \in Uuids
    BY <1>2, DemarragesMaxAssumption DEF IInv, TypeOK
  <2>2. cache \in [course : BOOLEAN, essais : Nat, bloque : BOOLEAN, depot : BOOLEAN]
        /\ cache.bloque \in BOOLEAN
    BY DEF IInv, TypeOK
  <2>3. SansCourse \in [course : BOOLEAN, essais : Nat, bloque : BOOLEAN, depot : BOOLEAN]
    BY DEF SansCourse
  <2>4. cache' \in [course : BOOLEAN, essais : Nat, bloque : BOOLEAN, depot : BOOLEAN]
    BY <1>1, <2>2, <2>3, Zenon
  <2>5. bloqueEcran' \in BOOLEAN
    BY <1>1, <2>2
  <2> HIDE DEF Uuids, Instants, Aucun, Neuf
  <2> QED
    BY <1>1, <1>2, <1>3, <2>1, <2>4, <2>5 DEF IInv, TypeOK, statut, essais, levees
<1> QED
  BY <1>1, <1>2, <1>3, <1>4, ServeurImmobile DEF Serveur, levees

-----------------------------------------------------------------------------
\* The inductive invariant: types, and the five facts that hold together.
THEOREM Invariance == Spec => []IInv
<1>1. IInv /\ [Next]_vars => IInv'
  <2> SUFFICES ASSUME IInv, [Next]_vars PROVE IInv'
    OBVIOUS
  <2>1. CASE Exploitation
    BY <2>1, StepDemanderDeblocage, StepDebloquerCode, StepAutoriserDepot, StepPerdreLaCourse
    DEF Exploitation
  <2>2. CASE Porte
    BY <2>2, StepDicterCodeFaux, StepConfirmer, StepRecharger, StepQuitter DEF Porte
  <2>3. CASE Reseau
    BY <2>3, StepArriver, StepValiderRemise, StepRecevoirReponse, StepSansReponse,
       StepMettreEnFile, StepRetirerDeLaFile, StepDrainer
    DEF Reseau
  <2>4. CASE UNCHANGED vars
    <3>1. TypeOK'
      BY <2>4 DEF vars, statut, essais, levees, appli, IInv, TypeOK
    <3> QED
      BY <2>4, <3>1, ServeurImmobile DEF vars, Serveur, levees, appli
  <2> QED
    BY <2>1, <2>2, <2>3, <2>4 DEF Next
<1> QED
  BY <1>1, InitIInv, PTL DEF Spec

\* What the courier was told is over is over.
THEOREM AccusesJustes == Spec => []AccuseFonde
<1>1. IInv => AccuseFonde
  BY DEF IInv
<1> QED
  BY <1>1, Invariance, PTL

\* The scan of the QR stays open, whatever the tries and the blocks.
THEOREM ScanOuvert == Spec => []QrJamaisRefuse
<1>1. IInv => QrJamaisRefuse
  BY DEF IInv
<1> QED
  BY <1>1, Invariance, PTL

\* Nobody is locked out in silence.
THEOREM AlerteAvecLeVerrou == Spec => []VerrouAlerte
<1>1. IInv => VerrouAlerte
  BY DEF IInv
<1> QED
  BY <1>1, Invariance, PTL

-----------------------------------------------------------------------------
\* The server closes an open delivery, once: no replay, no late request and no
\* second run of the application rewrites how it ended.
THEOREM UneSeuleRemise == Spec => RemiseUneFois
<1> DEFINE A == livraison # "en_livraison" => UNCHANGED <<livraison, cloture>>
<1>1. [Next]_vars => [A]_vars
  <2> SUFFICES ASSUME Next, livraison # "en_livraison" PROVE UNCHANGED <<livraison, cloture>>
    BY DEF vars
  <2>1. CASE Exploitation
    BY <2>1 DEF Exploitation, DemanderDeblocage, DebloquerCode, AutoriserDepot, PerdreLaCourse, statut
  <2>2. CASE Porte
    BY <2>2 DEF Porte, DicterCodeFaux, Confirmer, Recharger, Redemarrer, Reinstaller, Quitter, statut
  <2>3. ASSUME NEW r \in requetes, ValiderRemise(r) PROVE UNCHANGED <<livraison, cloture>>
    BY <2>3 DEF ValiderRemise, RefuserNonProprietaire, Rejouer, RefuserDepot, EpuiserCode,
                CompterCodeFaux, Clore, RefuserTransition, Echouer, statut
  <2>4. CASE Reseau
    BY <2>3, <2>4 DEF Reseau, Arriver, RecevoirReponse, PerdreSignal, MettreEnFile,
                      RetirerDeLaFile, ManquerDrain, Drainer, statut
  <2> QED
    BY <2>1, <2>2, <2>4 DEF Next
<1> QED
  BY <1>1, PTL DEF Spec, RemiseUneFois

\* Only a lift by an operator ends a block: a count that grows under a block does
\* not stamp it again.
THEOREM BlocageLeveParExploitation == Spec => BlocageDurable
<1> DEFINE A == CodeBloque /\ ~CodeBloque' => codeDebloqueLe' # codeDebloqueLe
<1>1. [Next]_vars => [A]_vars
  <2> SUFFICES ASSUME Next, CodeBloque, codeDebloqueLe' = codeDebloqueLe PROVE CodeBloque'
    BY DEF vars
  <2>1. SUFFICES codeBloqueLe' = codeBloqueLe
    BY <2>1 DEF CodeBloque
  <2>2. CASE Exploitation
    BY <2>2 DEF Exploitation, DemanderDeblocage, DebloquerCode, AutoriserDepot, PerdreLaCourse, essais
  <2>3. CASE Porte
    BY <2>3 DEF Porte, DicterCodeFaux, Confirmer, Recharger, Redemarrer, Reinstaller, Quitter, essais
  <2>4. ASSUME NEW r \in requetes, ValiderRemise(r) PROVE codeBloqueLe' = codeBloqueLe
    BY <2>4 DEF ValiderRemise, RefuserNonProprietaire, Rejouer, RefuserDepot, EpuiserCode,
                CompterCodeFaux, Clore, RefuserTransition, Echouer, ConsignerEssais, essais
  <2>5. CASE Reseau
    BY <2>4, <2>5 DEF Reseau, Arriver, RecevoirReponse, PerdreSignal, MettreEnFile,
                      RetirerDeLaFile, ManquerDrain, Drainer, essais
  <2> QED
    BY <2>2, <2>3, <2>5 DEF Next
<1> QED
  BY <1>1, PTL DEF Spec, BlocageDurable

=============================================================================
