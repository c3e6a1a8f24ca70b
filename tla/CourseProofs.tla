---------------------------- MODULE CourseProofs ----------------------------
(***************************************************************************)
(* Proofs about the courier's errand, for any number of stops, actions,    *)
(* copies and crashes: the recovery of an order (module Reprise, whose     *)
(* specification is Spec) and the collection at a stop (module Collecte).  *)
(***************************************************************************)
EXTENDS Reprise, Collecte, FiniteSetTheorems, TLAPS

(***************************************************************************)
(* The recovery.                                                           *)
(***************************************************************************)
\* The tick writes an escalation only when none is, and no other task does.
EscaladeFondee == tic.etape = "escalade" => escalades = 0

\* A tick about to withdraw has an incident of its own.
RetraitDu == IF tic.etape = "retrait" THEN 1 ELSE 0
RetraitsFondes ==
  IsFiniteSet(incidents) /\ retraits + RetraitDu <= Cardinality(incidents)

\* The incident about to be traced names a courier and a motive.
IncidentNomme == tic.etape = "incident" => tic.incident \in Incidents

IInv == TypeOK /\ UneAlerte /\ EscaladeFondee /\ RetraitsFondes /\ IncidentNomme

USE DEF course, temps, traces

-----------------------------------------------------------------------------
\* Types.
LEMMA TachesTypes ==
  ASSUME NEW e \in EtapesTic
  PROVE  /\ Tache(e) \in [etape : EtapesTic, incident : Incidents \cup {Sans}]
         /\ Tache(e).etape = e
BY DEF Tache

LEMMA InitTypeOK == Init => TypeOK
<1> SUFFICES ASSUME Init PROVE TypeOK
  OBVIOUS
<1>1. tic \in [etape : EtapesTic, incident : Incidents \cup {Sans}]
  BY TachesTypes DEF Init, EtapesTic
<1>2. cible \in 1..(NbArrets + 1) /\ affectations \in 0..AffectationsMax /\ arrets \in 0..ArretsMax
  BY BornesAssumption DEF Init
<1> QED
  BY <1>1, <1>2 DEF Init, TypeOK

LEMMA ReprisType == TypeOK => Repris \in Coursiers \cup {Personne}
<1> SUFFICES ASSUME TypeOK, tic.etape = "retrait", tic.incident # Sans
             PROVE  tic.incident[1] \in Coursiers
  BY DEF Repris, Sans
<1>1. tic.incident \in Incidents
  BY DEF TypeOK
<1> QED
  BY <1>1 DEF Incidents

LEMMA TicTypeOK == TypeOK /\ IncidentNomme /\ Tic => TypeOK'
<1> SUFFICES ASSUME TypeOK, IncidentNomme, Tic PROVE TypeOK'
  OBVIOUS
<1> USE TachesTypes DEF EtapesTic
<1>1. CASE LireAttente
  BY <1>1 DEF LireAttente, TypeOK
<1>2. CASE EcrireEscalade
  BY <1>2 DEF EcrireEscalade, TypeOK
<1>3. CASE ExaminerCourse
  <2>1. Surveillee => <<coursier, Motif>> \in Incidents
    BY DEF TypeOK, Surveillee, Incidents, Motif, Motifs
  <2>2. tic' \in [etape : EtapesTic, incident : Incidents \cup {Sans}]
    BY <1>3, <2>1 DEF ExaminerCourse
  <2> QED
    BY <1>3, <2>2 DEF ExaminerCourse, TypeOK
<1>4. CASE EscaladerBlocage
  BY <1>4 DEF EscaladerBlocage, TypeOK
<1>5. CASE EcrireIncident
  BY <1>5 DEF EcrireIncident, IncidentNomme, TypeOK
<1>6. CASE Retirer
  BY <1>6, ReprisType DEF Retirer, RetirerCoursier, TypeOK
<1>7. CASE Oublier
  BY <1>7 DEF Oublier, TypeOK
<1> QED
  BY <1>1, <1>2, <1>3, <1>4, <1>5, <1>6, <1>7 DEF Tic

LEMMA AutresTypeOK ==
  ASSUME TypeOK, Manuel \/ Entourer \/ Arreter
  PROVE  TypeOK'
<1>1. CASE TracerReprise
  <2>1. <<coursier, "sans_mouvement">> \in Incidents
    BY <1>1 DEF TracerReprise, TypeOK, Incidents, Motifs
  <2> QED
    BY <1>1, <2>1 DEF TracerReprise, TypeOK
<1>2. CASE RetirerManuel
  BY <1>2 DEF RetirerManuel, RetirerCoursier, TypeOK
<1>3. CASE OublierManuel
  BY <1>3 DEF OublierManuel, TypeOK
<1>4. CASE \E d \in Distances : Publier(d)
  BY <1>4 DEF Publier, TypeOK
<1>5. CASE EcrireObservation
  <2>1. observation \in Distances
    BY <1>5 DEF EcrireObservation, TypeOK
  <2>2. [distance_min |-> observation, recent |-> TRUE] \in Suivis
    BY <2>1 DEF Suivis
  <2>3. suivi' \in Suivis \cup {Absent}
    BY <1>5, <2>2 DEF EcrireObservation, Suite, TypeOK
  <2> QED
    BY <1>5, <2>3 DEF EcrireObservation, TypeOK
<1>6. CASE \E l \in Coursiers : Affecter(l)
  BY <1>6, BornesAssumption DEF Affecter, TypeOK
<1>7. CASE MettreEnAttente \/ Clore
  BY <1>7 DEF MettreEnAttente, Clore, TypeOK
<1>8. CASE ResoudreArret
  <2>1. cible' \in 1..(NbArrets + 1)
    BY <1>8, BornesAssumption DEF ResoudreArret, Surveillee, TypeOK
  <2>2. engage' \in BOOLEAN
    <3>1. engage \in BOOLEAN /\ engage' \in {engage, TRUE}
      BY <1>8 DEF ResoudreArret, TypeOK
    <3> QED
      BY <3>1, Zenon
  <2> QED
    BY <1>8, <2>1, <2>2 DEF ResoudreArret, TypeOK
<1>9. CASE Vieillir \/ Tarder
  BY <1>9 DEF Vieillir, Tarder, TypeOK
<1>10. CASE Stagner
  <2>1. suivi \in Suivis
    BY <1>10 DEF Stagner, TypeOK, Absent
  <2>2. suivi' \in Suivis
    BY <1>10, <2>1 DEF Stagner, Suivis
  <2> QED
    BY <1>10, <2>2 DEF Stagner, TypeOK
<1>11. CASE Arreter
  BY <1>11, ReprisType, BornesAssumption, TachesTypes DEF Arreter, TypeOK, EtapesTic
<1> QED
  BY <1>1, <1>2, <1>3, <1>4, <1>5, <1>6, <1>7, <1>8, <1>9, <1>10, <1>11 DEF Manuel, Entourer

LEMMA NextTypeOK == TypeOK /\ IncidentNomme /\ [Next]_vars => TypeOK'
<1>1. TypeOK /\ UNCHANGED vars => TypeOK'
  BY DEF vars, TypeOK
<1> QED
  BY <1>1, TicTypeOK, AutresTypeOK DEF Next

-----------------------------------------------------------------------------
(* What a step does to the tick, the incidents and the counts.              *)

Suivies == <<tic, incidents, escalades, bloquees, retraits>>

LEMMA EntourerGarde ==
  ASSUME Entourer
  PROVE  UNCHANGED Suivies
BY DEF Entourer, Publier, EcrireObservation, Affecter, MettreEnAttente, ResoudreArret, Clore,
       Vieillir, Stagner, Tarder, Suivies

LEMMA ManuelGarde ==
  ASSUME Manuel
  PROVE  /\ UNCHANGED <<tic, escalades, bloquees, retraits>>
         /\ \/ UNCHANGED incidents
            \/ \E i : incidents' = incidents \cup {i}
BY DEF Manuel, TracerReprise, RetirerManuel, OublierManuel

LEMMA PlusDIncidents ==
  ASSUME IsFiniteSet(incidents), NEW i, incidents' = incidents \cup {i}
  PROVE  /\ IsFiniteSet(incidents')
         /\ Cardinality(incidents) \in Nat /\ Cardinality(incidents') \in Nat
         /\ Cardinality(incidents') = IF i \in incidents THEN Cardinality(incidents)
                                      ELSE Cardinality(incidents) + 1
BY FS_AddElement, FS_CardinalityType

LEMMA InitIInv == Init => IInv
<1> SUFFICES ASSUME Init PROVE IInv
  OBVIOUS
<1>1. tic.etape = "attentes"
  BY TachesTypes DEF Init, EtapesTic
<1>2. IsFiniteSet(incidents) /\ Cardinality(incidents) = 0
  BY FS_EmptySet DEF Init
<1> QED
  BY <1>1, <1>2, InitTypeOK
  DEF Init, IInv, UneAlerte, EscaladeFondee, RetraitsFondes, RetraitDu, IncidentNomme

LEMMA NextAlertes == IInv /\ [Next]_vars => UneAlerte' /\ EscaladeFondee' /\ IncidentNomme'
<1> SUFFICES ASSUME IInv, [Next]_vars PROVE UneAlerte' /\ EscaladeFondee' /\ IncidentNomme'
  OBVIOUS
<1> USE TachesTypes DEF EtapesTic, IInv, UneAlerte, EscaladeFondee, IncidentNomme
<1>1. CASE Tic
  <2>1. CASE LireAttente
    BY <2>1 DEF LireAttente, AEscalader
  <2>2. CASE EcrireEscalade
    BY <2>2 DEF EcrireEscalade
  <2>3. CASE ExaminerCourse
    <3>1. Surveillee => <<coursier, Motif>> \in Incidents
      BY DEF TypeOK, Surveillee, Incidents, Motif, Motifs
    <3>2. UNCHANGED <<escalades, bloquees>> /\ tic'.etape # "escalade"
      BY <2>3 DEF ExaminerCourse
    <3>3. tic'.etape = "incident" => tic' = [etape |-> "incident", incident |-> <<coursier, Motif>>]
                                     /\ Surveillee
      BY <2>3 DEF ExaminerCourse
    <3>4. tic'.etape = "incident" => tic'.incident \in Incidents
      BY <3>1, <3>3
    <3> QED
      BY <3>2, <3>4 DEF Incidents
  <2>4. CASE EscaladerBlocage
    BY <2>4 DEF EscaladerBlocage
  <2>5. CASE EcrireIncident
    BY <2>5 DEF EcrireIncident
  <2>6. CASE Retirer \/ Oublier
    BY <2>6 DEF Retirer, Oublier
  <2> QED
    BY <1>1, <2>1, <2>2, <2>3, <2>4, <2>5, <2>6 DEF Tic
<1>2. CASE Manuel \/ Entourer
  BY <1>2, ManuelGarde, EntourerGarde DEF Suivies
<1>3. CASE Arreter
  BY <1>3 DEF Arreter
<1>4. CASE UNCHANGED vars
  BY <1>4 DEF vars
<1> QED
  BY <1>1, <1>2, <1>3, <1>4 DEF Next

LEMMA NextRetraits == IInv /\ [Next]_vars => RetraitsFondes'
<1> SUFFICES ASSUME IInv, [Next]_vars PROVE RetraitsFondes'
  OBVIOUS
<1> USE TachesTypes DEF EtapesTic, IInv, RetraitsFondes, RetraitDu
<1>0. Cardinality(incidents) \in Nat /\ retraits \in Nat
  BY FS_CardinalityType DEF TypeOK
<1>1. CASE Tic
  <2>1. CASE EcrireIncident
    <3>1. /\ incidents' = incidents \cup {tic.incident}
          /\ retraits' = retraits
          /\ tic.etape = "incident"
          /\ tic'.etape = "retrait" => tic.incident \notin incidents
      BY <2>1 DEF EcrireIncident
    <3> QED
      BY <1>0, <3>1, PlusDIncidents
  <2>2. CASE Retirer
    BY <1>0, <2>2 DEF Retirer
  <2>3. CASE LireAttente \/ EcrireEscalade \/ EscaladerBlocage \/ Oublier
    BY <1>0, <2>3 DEF LireAttente, EcrireEscalade, EscaladerBlocage, Oublier
  <2>4. CASE ExaminerCourse
    BY <1>0, <2>4 DEF ExaminerCourse
  <2> QED
    BY <1>1, <2>1, <2>2, <2>3, <2>4 DEF Tic
<1>2. CASE Manuel
  <2>1. UNCHANGED <<tic, retraits>>
    BY <1>2, ManuelGarde
  <2>2. CASE UNCHANGED incidents
    BY <2>1, <2>2
  <2>3. CASE \E i : incidents' = incidents \cup {i}
    BY <1>0, <2>1, <2>3, PlusDIncidents
  <2> QED
    BY <1>2, <2>2, <2>3, ManuelGarde
<1>3. CASE Entourer \/ UNCHANGED vars
  BY <1>3, EntourerGarde DEF Suivies, vars
<1>4. CASE Arreter
  BY <1>0, <1>4 DEF Arreter
<1> QED
  BY <1>1, <1>2, <1>3, <1>4 DEF Next

LEMMA SpecIInv == Spec => []IInv
<1>1. IInv /\ [Next]_vars => IInv'
  BY NextTypeOK, NextAlertes, NextRetraits DEF IInv
<1> QED
  BY <1>1, InitIInv, PTL DEF Spec

\* The tick, the requests and what they keep have their types, whatever the
\* numbers of stops, assignments and crashes.
THEOREM TypesCorrects == Spec => []TypeOK
BY SpecIInv, PTL DEF IInv

\* One alert per order and one per delivery (escalader_attentes,
\* escalader_course_bloquee), although their only mark is the event itself.
THEOREM AlertesUniques == Spec => []UneAlerte
BY SpecIInv, PTL DEF IInv

\* The automatic recovery does not loop (reprendre): each of its withdrawals
\* has an incident that no other one has.
THEOREM RepriseSansBoucle == Spec => []SansBoucle
<1>1. IInv => SansBoucle
  BY FS_CardinalityType DEF IInv, RetraitsFondes, RetraitDu, SansBoucle, TypeOK
<1> QED
  BY <1>1, SpecIInv, PTL

------------------------------------------------------------------------------
(***************************************************************************)
(* The collection at a stop.                                               *)
(***************************************************************************)
\* A request refused for good bears its motive.
RefusMotives == \A r \in requetes : r.phase = "refusee" => r.issue \in MotifsDefinitifs

\* An unavailability is declared in one step and, accepted, remembered under its uuid.
IndisponibleHonoree ==
  \A r \in requetes :
    r.action.genre = "indisponible" =>
      /\ r.phase \in {"envoyee", "traitee"}
      /\ r.issue = "ok" => r.action.uuid \in rejouees

\* A uuid names one action, on the wire as in the queue.
Emises == {r.action : r \in requetes} \cup file
UneActionParUuid ==
  /\ \A a \in Emises : a.uuid < prochain
  /\ \A a, b \in Emises : a.uuid = b.uuid => a = b

\* Every code compared, or about to be, was counted by a try of some window.
Comptees == {r \in requetes : r.phase = "comptee"}
EssaisComptes ==
  /\ IsFiniteSet(requetes)
  /\ comparaisons + Cardinality(Comptees)
       <= EssaisMax * (fenetre - 1) + (IF essais <= EssaisMax THEN essais ELSE EssaisMax)

IInvCollecte ==
  /\ TypesCollecte /\ CollecteHonoree /\ RefusMotives /\ IndisponibleHonoree
  /\ TraceUnique /\ UneActionParUuid /\ EssaisComptes

USE DEF commande, plaque, appli

-----------------------------------------------------------------------------
\* What a step of a request leaves of it.

Phases == {"envoyee", "inedite", "presente", "signalee", "comptee", "prete", "refusee", "traitee"}

\* r becomes q, or disappears: the same action, further on.
Devient(r, q) ==
  /\ q \in Requetes /\ q.action = r.action
  /\ requetes' \subseteq (requetes \ {r}) \cup {q}

LEMMA PasserDevient ==
  ASSUME NEW r \in Requetes, NEW phase \in Phases, Passer(r, phase)
  PROVE  \E q : Devient(r, q) /\ q.phase = phase /\ q.issue = r.issue
<1> DEFINE q == [r EXCEPT !.phase = phase]
<1>1. q \in Requetes /\ q.action = r.action /\ q.phase = phase /\ q.issue = r.issue
  BY DEF Requetes, Phases
<1> QED
  BY <1>1 DEF Passer, Devient

LEMMA RefuserDevient ==
  ASSUME NEW r \in Requetes, NEW motif \in MotifsDefinitifs, Refuser(r, motif)
  PROVE  \E q : Devient(r, q) /\ q.phase = "refusee" /\ q.issue = motif
<1> DEFINE q == [r EXCEPT !.phase = "refusee", !.issue = motif]
<1>1. q \in Requetes /\ q.action = r.action /\ q.phase = "refusee" /\ q.issue = motif
  BY DEF Requetes, Issues
<1> QED
  BY <1>1 DEF Refuser, Devient

LEMMA RepondreDevient ==
  ASSUME NEW r \in Requetes, NEW issue \in Issues, Repondre(r, issue)
  PROVE  \E q : Devient(r, q) /\ q.phase = "traitee" /\ q.issue = issue
<1> DEFINE q == [r EXCEPT !.phase = "traitee", !.issue = issue]
<1>1. q \in Requetes /\ q.action = r.action /\ q.phase = "traitee" /\ q.issue = issue
  BY DEF Requetes
<1> QED
  BY <1>1 DEF Repondre, Devient

LEMMA NePlusAttendreDevient ==
  ASSUME NEW r \in Requetes, NePlusAttendre(r)
  PROVE  \E q : Devient(r, q) /\ q.phase = r.phase /\ q.issue = r.issue
<1>1. CASE requetes' = requetes \ {r}
  BY <1>1 DEF Devient
<1>2. CASE \E i \in Libres :
             requetes' = (requetes \ {r}) \cup {[r EXCEPT !.par = "personne", !.copie = i]}
  <2>1. PICK i \in Libres :
             requetes' = (requetes \ {r}) \cup {[r EXCEPT !.par = "personne", !.copie = i]}
    BY <1>2
  <2> DEFINE q == [r EXCEPT !.par = "personne", !.copie = i]
  <2>2. i \in 0..OrphelinesMax
    BY OrphelinesMaxAssumption DEF Libres
  <2>3. q \in Requetes /\ q.action = r.action /\ q.phase = r.phase /\ q.issue = r.issue
    BY <2>2 DEF Requetes
  <2> QED
    BY <2>1, <2>3 DEF Devient
<1> QED
  BY <1>1, <1>2 DEF NePlusAttendre

\* The requests whose try is counted, once r has become q.
LEMMA CompterDevient ==
  ASSUME NEW r \in requetes, NEW q, IsFiniteSet(requetes), Devient(r, q)
  PROVE  /\ IsFiniteSet(requetes')
         /\ Cardinality(Comptees) \in Nat /\ Cardinality(Comptees') \in Nat
         /\ Cardinality(Comptees') <=
              (IF r.phase = "comptee" THEN Cardinality(Comptees) - 1 ELSE Cardinality(Comptees))
              + (IF q.phase = "comptee" THEN 1 ELSE 0)
<1> DEFINE C == Comptees
           D == (C \ {r}) \cup (IF q.phase = "comptee" THEN {q} ELSE {})
<1>1. IsFiniteSet(requetes')
  <2>1. IsFiniteSet(requetes \ {r})
    BY FS_RemoveElement
  <2>2. IsFiniteSet((requetes \ {r}) \cup {q})
    BY <2>1, FS_AddElement
  <2> QED
    BY <2>2, FS_Subset DEF Devient
<1>2. IsFiniteSet(C) /\ Cardinality(C) \in Nat
  BY FS_Subset, FS_CardinalityType DEF Comptees
<1>3. r \in C <=> r.phase = "comptee"
  BY DEF Comptees
<1>4. Comptees' \subseteq D
  BY DEF Comptees, Devient
<1> HIDE DEF C
<1>5. /\ IsFiniteSet(C \ {r})
      /\ Cardinality(C \ {r}) = IF r \in C THEN Cardinality(C) - 1 ELSE Cardinality(C)
  BY <1>2, FS_RemoveElement
<1>6. Cardinality(C \ {r}) \in Nat
  BY <1>5, FS_CardinalityType
<1>7. /\ IsFiniteSet(D) /\ Cardinality(D) \in Nat
      /\ Cardinality(D) <= Cardinality(C \ {r}) + (IF q.phase = "comptee" THEN 1 ELSE 0)
  <2>1. CASE q.phase = "comptee"
    <3>1. /\ IsFiniteSet((C \ {r}) \cup {q})
          /\ Cardinality((C \ {r}) \cup {q}) =
               IF q \in C \ {r} THEN Cardinality(C \ {r}) ELSE Cardinality(C \ {r}) + 1
      BY <1>5, FS_AddElement
    <3>2. D = (C \ {r}) \cup {q}
      BY <2>1
    <3> HIDE DEF D
    <3> QED
      BY <1>6, <2>1, <3>1, <3>2
  <2>2. CASE q.phase # "comptee"
    <3>1. D = C \ {r}
      BY <2>2
    <3> HIDE DEF D
    <3> QED
      BY <1>5, <1>6, <2>2, <3>1
  <2> QED
    BY <2>1, <2>2
<1> HIDE DEF D
<1>8. IsFiniteSet(Comptees') /\ Cardinality(Comptees') <= Cardinality(D)
  BY <1>4, <1>7, FS_Subset
<1>9. Cardinality(Comptees') \in Nat
  BY <1>8, FS_CardinalityType
<1> QED
  BY <1>1, <1>2, <1>3, <1>5, <1>6, <1>7, <1>8, <1>9 DEF C

\* No row of the table leaves a resolved stop.
LEMMA ArretResolu ==
  ASSUME NEW d, NEW v, VerifierTransition(TableArret, d, v, "coursier")
  PROVE  d \notin EstResolu /\ v \in StatutsArret
BY DEF VerifierTransition, TableArret, EstResolu, StatutsArret

\* A stop collected under a uuid, now or after the step.
Collectee(u) == arret = "collecte" /\ collectePar = u

\* The requests, the registry and the stop still agree once r has become q.
LEMMA AccordGarde ==
  ASSUME IInvCollecte, NEW r \in requetes, NEW q, Devient(r, q),
         q.phase = "refusee" => q.issue \in MotifsDefinitifs,
         q.issue = "ok" =>
           \/ q.issue = r.issue
           \/ IF r.action.genre = "indisponible" THEN r.action.uuid \in rejouees'
              ELSE Collectee(r.action.uuid)',
         r.action.genre = "indisponible" => q.phase \in {r.phase, "traitee"},
         arret = "collecte" => UNCHANGED <<arret, collectePar>>,
         rejouees \subseteq rejouees',
         \A u \in Uuids : registre'[u] = "collecte" => registre[u] = "collecte" \/ Collectee(u)',
         prochain' = prochain,
         file' \subseteq file \cup {r.action}
  PROVE  CollecteHonoree' /\ RefusMotives' /\ IndisponibleHonoree' /\ UneActionParUuid'
<1> USE DEF IInvCollecte, Devient
<1>1. RefusMotives'
  BY DEF RefusMotives
<1>2. UneActionParUuid'
  <2>1. Emises' \subseteq Emises
    BY DEF Emises
  <2> QED
    BY <2>1 DEF UneActionParUuid
<1>3. IndisponibleHonoree'
  BY DEF IndisponibleHonoree
<1>4. CollecteHonoree'
  <2> SUFFICES ASSUME NEW u \in Uuids,
                      \/ registre'[u] = "collecte"
                      \/ \E x \in requetes' :
                           x.action.uuid = u /\ x.action.genre # "indisponible" /\ x.issue = "ok"
               PROVE  Collectee(u)'
    BY DEF CollecteHonoree, Collectee
  <2>1. \A v \in Uuids : Collectee(v) => Collectee(v)'
    BY DEF Collectee
  <2>2. CASE registre'[u] = "collecte"
    BY <2>1, <2>2 DEF CollecteHonoree, Collectee
  <2>3. ASSUME NEW x \in requetes', x.action.uuid = u, x.action.genre # "indisponible", x.issue = "ok"
        PROVE  Collectee(u)'
    <3>1. CASE x \in requetes
      BY <2>1, <2>3, <3>1 DEF CollecteHonoree, Collectee
    <3>2. CASE x = q
      BY <2>1, <2>3, <3>2 DEF CollecteHonoree, Collectee
    <3> QED
      BY <3>1, <3>2
  <2> QED
    BY <2>2, <2>3
<1> QED
  BY <1>1, <1>2, <1>3, <1>4

\* Its part of the count of tries, when the step counts none and compares none.
LEMMA CompteGarde ==
  ASSUME IInvCollecte, NEW r \in requetes, NEW q, Devient(r, q),
         q.phase = "comptee" => r.phase = "comptee",
         UNCHANGED <<essais, fenetre, comparaisons>>
  PROVE  EssaisComptes'
<1>1. IsFiniteSet(requetes)
  BY DEF IInvCollecte, EssaisComptes
<1>2. /\ IsFiniteSet(requetes')
      /\ Cardinality(Comptees) \in Nat /\ Cardinality(Comptees') \in Nat
      /\ Cardinality(Comptees') <= Cardinality(Comptees)
  BY <1>1, CompterDevient
<1> DEFINE borne == EssaisMax * (fenetre - 1) + (IF essais <= EssaisMax THEN essais ELSE EssaisMax)
<1>3. comparaisons \in Nat /\ borne \in Int
  BY EssaisMaxAssumption DEF IInvCollecte, TypesCollecte
<1>4. comparaisons + Cardinality(Comptees) <= borne
  BY DEF IInvCollecte, EssaisComptes
<1>5. borne' = borne
  BY EssaisMaxAssumption DEF IInvCollecte, TypesCollecte
<1> HIDE DEF borne
<1>6. (comparaisons + Cardinality(Comptees) <= borne)'
  BY <1>2, <1>3, <1>4, <1>5
<1> QED
  BY <1>2, <1>6 DEF EssaisComptes, borne

\* A step that only moves the request on, and the queue with it.
LEMMA LectureSure ==
  ASSUME IInvCollecte, NEW r \in requetes, NEW q, Devient(r, q),
         q.phase = "refusee" => q.issue \in MotifsDefinitifs,
         q.phase = "comptee" => r.phase = "comptee",
         q.issue = "ok" =>
           \/ q.issue = r.issue
           \/ IF r.action.genre = "indisponible" THEN r.action.uuid \in rejouees
              ELSE Collectee(r.action.uuid),
         r.action.genre = "indisponible" => q.phase \in {r.phase, "traitee"},
         UNCHANGED <<commande, plaque, prochain>>,
         file' \subseteq file \cup {r.action}, refuses' \subseteq Uuids
  PROVE  IInvCollecte'
<1>1. CollecteHonoree' /\ RefusMotives' /\ IndisponibleHonoree' /\ UneActionParUuid'
  BY AccordGarde DEF Collectee
<1>2. EssaisComptes'
  BY CompteGarde
<1>3. TraceUnique'
  BY DEF IInvCollecte, TraceUnique
<1>4. TypesCollecte'
  <2>1. r.action \in Actions
    BY DEF IInvCollecte, TypesCollecte, Requetes
  <2> QED
    BY <2>1 DEF IInvCollecte, TypesCollecte, Devient
<1> QED
  BY <1>1, <1>2, <1>3, <1>4 DEF IInvCollecte

-----------------------------------------------------------------------------
\* The server, action by action.

LEMMA SeulLaCollecteAvance ==
  ASSUME IInvCollecte, NEW r \in requetes, r.phase \notin {"envoyee", "traitee"}
  PROVE  r.action.genre # "indisponible"
BY DEF IInvCollecte, IndisponibleHonoree

LEMMA StepLectures ==
  ASSUME IInvCollecte, NEW r \in requetes,
         LireRegistre(r) \/ LireArret(r) \/ VerifierJeton(r) \/ Echouer(r)
  PROVE  IInvCollecte'
<1> USE DEF Phases, Issues, MotifsDefinitifs
<1>1. r \in Requetes /\ r.action.uuid \in Uuids
  BY DEF IInvCollecte, TypesCollecte, Requetes, Actions
<1>2. CASE LireRegistre(r)
  <2>1. CASE registre[r.action.uuid] = "aucune" /\ Passer(r, "inedite")
    BY <1>1, <1>2, <2>1, PasserDevient, LectureSure DEF LireRegistre, IInvCollecte, TypesCollecte
  <2>2. CASE registre[r.action.uuid] = "collecte" /\ Repondre(r, "ok")
    <3>1. Collectee(r.action.uuid) /\ r.action.genre # "indisponible"
      BY <1>1, <1>2, <2>2 DEF IInvCollecte, CollecteHonoree, Collectee, LireRegistre
    <3> QED
      BY <1>1, <1>2, <2>2, <3>1, RepondreDevient, LectureSure
      DEF LireRegistre, IInvCollecte, TypesCollecte
  <2>3. CASE registre[r.action.uuid] \in MotifsDefinitifs /\ Repondre(r, registre[r.action.uuid])
    BY <1>1, <1>2, <2>3, RepondreDevient, LectureSure DEF LireRegistre, IInvCollecte, TypesCollecte
  <2> QED
    BY <1>2, <2>1, <2>2, <2>3 DEF LireRegistre
<1>3. CASE LireArret(r) \/ VerifierJeton(r) \/ Echouer(r)
  <2>1. UNCHANGED <<commande, plaque, appli>> /\ refuses' \subseteq Uuids
    BY <1>3 DEF LireArret, VerifierJeton, Echouer, IInvCollecte, TypesCollecte
  <2>2. CASE r.phase \in {"inedite", "presente"} /\ \E phase \in {"presente", "prete"} : Passer(r, phase)
    <3>1. PICK phase \in {"presente", "prete"} : Passer(r, phase)
      BY <2>2
    <3> QED
      BY <1>1, <2>1, <2>2, <3>1, SeulLaCollecteAvance, PasserDevient, LectureSure
  <2>3. CASE r.phase \in {"inedite", "presente"} /\ \E motif \in MotifsDefinitifs : Refuser(r, motif)
    <3>1. PICK motif \in MotifsDefinitifs : Refuser(r, motif)
      BY <2>3
    <3> QED
      BY <1>1, <2>1, <2>3, <3>1, SeulLaCollecteAvance, RefuserDevient, LectureSure
  <2>4. CASE \E issue \in Issues \ {"ok"} : Repondre(r, issue)
    <3>1. PICK issue \in Issues \ {"ok"} : Repondre(r, issue)
      BY <2>4
    <3> QED
      BY <1>1, <2>1, <3>1, RepondreDevient, LectureSure
  <2> QED
    BY <1>3, <2>2, <2>3, <2>4 DEF LireArret, VerifierJeton, Accepter, Echouer
<1> QED
  BY <1>2, <1>3

LEMMA StepIncident ==
  ASSUME IInvCollecte, NEW r \in requetes, ConsignerIncident(r)
  PROVE  IInvCollecte'
<1>1. r \in Requetes /\ "signalee" \in Phases
  BY DEF IInvCollecte, TypesCollecte, Phases
<1>2. PICK q : Devient(r, q) /\ q.phase = "signalee" /\ q.issue = r.issue
  BY <1>1, PasserDevient DEF ConsignerIncident
<1>0. r.action.genre # "indisponible"
  BY DEF ConsignerIncident, IInvCollecte, IndisponibleHonoree
<1>3. CollecteHonoree' /\ RefusMotives' /\ IndisponibleHonoree' /\ UneActionParUuid'
  BY <1>0, <1>2, AccordGarde DEF ConsignerIncident
<1>4. EssaisComptes'
  BY <1>2, CompteGarde DEF ConsignerIncident
<1>5. TraceUnique' /\ TypesCollecte'
  BY <1>2 DEF ConsignerIncident, IInvCollecte, TraceUnique, TypesCollecte, Devient
<1> QED
  BY <1>3, <1>4, <1>5 DEF IInvCollecte

\* A try is counted before a code is compared, and none past the limit.
LEMMA StepEssai ==
  ASSUME IInvCollecte, NEW r \in requetes, IncrementerEssai(r)
  PROVE  IInvCollecte'
<1>1. r \in Requetes /\ "comptee" \in Phases /\ "code_epuise" \in MotifsDefinitifs
  BY DEF IInvCollecte, TypesCollecte, Phases, MotifsDefinitifs
<1>0. r.action.genre # "indisponible"
  BY SeulLaCollecteAvance DEF IncrementerEssai
<1>2. PICK q : /\ Devient(r, q)
               /\ IF essais + 1 > EssaisMax
                  THEN q.phase = "refusee" /\ q.issue = "code_epuise"
                  ELSE q.phase = "comptee" /\ q.issue = r.issue
  BY <1>1, PasserDevient, RefuserDevient DEF IncrementerEssai
<1>3. CollecteHonoree' /\ RefusMotives' /\ IndisponibleHonoree' /\ UneActionParUuid'
  <2>1. UNCHANGED <<commande, registre, appli>>
    BY DEF IncrementerEssai
  <2>2. q.phase = "refusee" => q.issue \in MotifsDefinitifs
    BY <1>1, <1>2
  <2>3. q.issue = "ok" => q.issue = r.issue
    BY <1>2
  <2> QED
    BY <1>0, <1>2, <2>1, <2>2, <2>3, AccordGarde
<1>4. /\ essais \in 0..EssaisMax + 1 /\ EssaisMax \in Nat \ {0}
      /\ essais' = IF essais + 1 > EssaisMax THEN EssaisMax + 1 ELSE essais + 1
      /\ UNCHANGED <<fenetre, comparaisons>> /\ r.phase = "signalee"
      /\ comparaisons \in Nat /\ fenetre \in Nat
  BY EssaisMaxAssumption DEF IncrementerEssai, IInvCollecte, TypesCollecte
<1>5. EssaisComptes'
  <2>1. IsFiniteSet(requetes)
    BY DEF IInvCollecte, EssaisComptes
  <2>2. /\ IsFiniteSet(requetes')
        /\ Cardinality(Comptees) \in Nat /\ Cardinality(Comptees') \in Nat
        /\ Cardinality(Comptees') <= Cardinality(Comptees)
             + (IF essais + 1 > EssaisMax THEN 0 ELSE 1)
    BY <1>2, <1>4, <2>1, CompterDevient
  <2> DEFINE base == EssaisMax * (fenetre - 1)
  <2>3. base \in Int /\ base' = base
    BY <1>4
  <2>4. comparaisons + Cardinality(Comptees)
          <= base + (IF essais <= EssaisMax THEN essais ELSE EssaisMax)
    BY DEF IInvCollecte, EssaisComptes
  <2> HIDE DEF base
  <2>5. comparaisons' + Cardinality(Comptees')
          <= base' + (IF essais' <= EssaisMax THEN essais' ELSE EssaisMax)
    BY <1>4, <2>2, <2>3, <2>4
  <2> QED
    BY <2>2, <2>5 DEF EssaisComptes, base
<1>6. TraceUnique'
  BY DEF IncrementerEssai, IInvCollecte, TraceUnique
<1>7. TypesCollecte'
  BY <1>2, <1>4 DEF IncrementerEssai, IInvCollecte, TypesCollecte, Devient
<1> QED
  BY <1>3, <1>5, <1>6, <1>7 DEF IInvCollecte

LEMMA StepCode ==
  ASSUME IInvCollecte, NEW r \in requetes, VerifierCode(r)
  PROVE  IInvCollecte'
<1> USE DEF Phases, Issues, MotifsDefinitifs
<1>0. r.action.genre # "indisponible"
  BY SeulLaCollecteAvance DEF VerifierCode
<1>1. r \in Requetes /\ r.phase = "comptee" /\ UNCHANGED <<commande, appli>>
      /\ UNCHANGED <<agree, registre, rejets, incident, remplacements, essais, fenetre>>
  BY DEF IInvCollecte, TypesCollecte, VerifierCode
<1>2. CASE ~agree /\ Refuser(r, "jeton_revoque") /\ UNCHANGED comparaisons
  BY <1>0, <1>1, <1>2, RefuserDevient, LectureSure DEF IInvCollecte, TypesCollecte
<1>3. CASE comparaisons' = comparaisons + 1 /\ ~UNCHANGED comparaisons
  <2>1. \/ Passer(r, "prete")
        \/ \E issue \in Issues \ {"ok"} : Repondre(r, issue)
    BY <1>3 DEF VerifierCode, Accepter
  <2>2. PICK q : Devient(r, q) /\ q.phase \in {"prete", "traitee"} /\ (q.issue = "ok" => q.issue = r.issue)
    BY <1>1, <2>1, PasserDevient, RepondreDevient
  <2>3. CollecteHonoree' /\ RefusMotives' /\ IndisponibleHonoree' /\ UneActionParUuid'
    BY <1>0, <1>1, <2>2, AccordGarde
  <2>4. EssaisComptes'
    <3>1. IsFiniteSet(requetes)
      BY DEF IInvCollecte, EssaisComptes
    <3>2. /\ IsFiniteSet(requetes')
          /\ Cardinality(Comptees) \in Nat /\ Cardinality(Comptees') \in Nat
          /\ Cardinality(Comptees') <= Cardinality(Comptees) - 1
      BY <1>1, <2>2, <3>1, CompterDevient
    <3> DEFINE borne == EssaisMax * (fenetre - 1) + (IF essais <= EssaisMax THEN essais ELSE EssaisMax)
    <3>3. comparaisons \in Nat /\ borne \in Int /\ borne' = borne
      BY <1>1, EssaisMaxAssumption DEF IInvCollecte, TypesCollecte
    <3>4. comparaisons + Cardinality(Comptees) <= borne
      BY DEF IInvCollecte, EssaisComptes
    <3> HIDE DEF borne
    <3>5. (comparaisons + Cardinality(Comptees) <= borne)'
      BY <1>3, <3>2, <3>3, <3>4
    <3> QED
      BY <3>2, <3>5 DEF EssaisComptes, borne
  <2>5. TraceUnique' /\ TypesCollecte'
    BY <1>1, <1>3, <2>2 DEF IInvCollecte, TraceUnique, TypesCollecte, Devient
  <2> QED
    BY <2>3, <2>4, <2>5 DEF IInvCollecte
<1> QED
  BY <1>1, <1>2, <1>3 DEF VerifierCode, IInvCollecte, TypesCollecte

LEMMA StepRejet ==
  ASSUME IInvCollecte, NEW r \in requetes, Rejeter(r)
  PROVE  IInvCollecte'
<1> DEFINE u == r.action.uuid
<1>1. /\ r \in Requetes /\ u \in Uuids /\ r.issue \in MotifsDefinitifs
      /\ r.issue \in Issues \ {"ok"} /\ r.issue # "collecte" /\ r.issue # "aucune"
      /\ UNCHANGED <<commande, agree, incident, remplacements, essais, fenetre, comparaisons, appli>>
      /\ registre' = IF registre[u] = "aucune" THEN [registre EXCEPT ![u] = r.issue] ELSE registre
      /\ rejets' = IF registre[u] = "aucune" THEN [rejets EXCEPT ![u] = @ + 1] ELSE rejets
  BY DEF IInvCollecte, TypesCollecte, Requetes, Actions, RefusMotives, Rejeter, Enregistrer,
     MotifsDefinitifs, Issues
<1>2. PICK q : Devient(r, q) /\ q.phase = "traitee" /\ q.issue = r.issue
  BY <1>1, RepondreDevient DEF Rejeter
<1>3. CollecteHonoree' /\ RefusMotives' /\ IndisponibleHonoree' /\ UneActionParUuid'
  <2>1. \A v \in Uuids : registre'[v] = "collecte" => registre[v] = "collecte"
    BY <1>1 DEF IInvCollecte, TypesCollecte
  <2> QED
    BY <1>1, <1>2, <2>1, AccordGarde
<1>4. EssaisComptes'
  BY <1>1, <1>2, CompteGarde
<1>5. TypesCollecte'
  BY <1>1, <1>2 DEF IInvCollecte, TypesCollecte, Devient
<1>6. TraceUnique'
  BY <1>1 DEF IInvCollecte, TypesCollecte, TraceUnique, MotifsDefinitifs
<1> QED
  BY <1>3, <1>4, <1>5, <1>6 DEF IInvCollecte

\* The stop is collected once, under the uuid that the registry then holds.
LEMMA StepCollecte ==
  ASSUME IInvCollecte, NEW r \in requetes, Collecter(r)
  PROVE  IInvCollecte'
<1> DEFINE u == r.action.uuid
<1>1. /\ r \in Requetes /\ u \in Uuids /\ r.phase = "prete"
      /\ "ok" \in Issues /\ "etat_incompatible" \in MotifsDefinitifs
      /\ UNCHANGED <<agree, rejets, incident, remplacements, essais, fenetre, comparaisons,
                     appli, rejouees, porteur, autresOuverts>>
  BY DEF IInvCollecte, TypesCollecte, Requetes, Actions, Collecter, MotifsDefinitifs, Issues
<1>2. CASE Refuser(r, "etat_incompatible") /\ UNCHANGED <<commande, registre>>
  <2>1. PICK q : Devient(r, q) /\ q.phase = "refusee" /\ q.issue = "etat_incompatible"
    BY <1>1, <1>2, RefuserDevient
  <2> QED
    BY <1>1, <1>2, <2>1, SeulLaCollecteAvance, LectureSure DEF IInvCollecte, TypesCollecte
<1>3. CASE /\ Repondre(r, "ok") /\ Enregistrer(u, "collecte")
           /\ \/ arret = "collecte" /\ collectePar = u /\ UNCHANGED commande
              \/ /\ VerifierTransition(TableArret, arret, "collecte", "coursier")
                 /\ arret' = "collecte" /\ collectePar' = u
  <2>1. PICK q : Devient(r, q) /\ q.phase = "traitee" /\ q.issue = "ok"
    BY <1>1, <1>3, RepondreDevient
  <2>2. Collectee(u)' /\ (arret = "collecte" => UNCHANGED <<arret, collectePar>>)
    BY <1>3, ArretResolu DEF Collectee, EstResolu
  <2>3. registre' = IF registre[u] = "aucune" THEN [registre EXCEPT ![u] = "collecte"] ELSE registre
    BY <1>3 DEF Enregistrer
  <2>4. CollecteHonoree' /\ RefusMotives' /\ IndisponibleHonoree' /\ UneActionParUuid'
    <3>1. \A v \in Uuids : registre'[v] = "collecte" => registre[v] = "collecte" \/ Collectee(v)'
      BY <2>2, <2>3 DEF IInvCollecte, TypesCollecte
    <3>2. r.action.genre # "indisponible"
      BY <1>1, SeulLaCollecteAvance
    <3> QED
      BY <1>1, <2>1, <2>2, <3>1, <3>2, AccordGarde
  <2>5. EssaisComptes'
    BY <1>1, <2>1, CompteGarde
  <2>6. TypesCollecte'
    BY <1>1, <1>3, <2>1, <2>3 DEF IInvCollecte, TypesCollecte, Devient, StatutsArret
  <2>7. TraceUnique'
    BY <1>1, <2>3 DEF IInvCollecte, TypesCollecte, TraceUnique, MotifsDefinitifs
  <2> QED
    BY <2>4, <2>5, <2>6, <2>7 DEF IInvCollecte
<1> QED
  BY <1>2, <1>3 DEF Collecter

LEMMA StepIndisponible ==
  ASSUME IInvCollecte, NEW r \in requetes, DeclarerIndisponible(r)
  PROVE  IInvCollecte'
<1> DEFINE u == r.action.uuid
<1>1. /\ r \in Requetes /\ u \in Uuids /\ r.action.genre = "indisponible"
      /\ {"ok", "non_proprietaire", "transition_interdite"} \subseteq Issues
      /\ UNCHANGED <<plaque, appli>>
  BY DEF IInvCollecte, TypesCollecte, Requetes, Actions, DeclarerIndisponible, Issues
<1>2. CASE UNCHANGED commande
  <2>1. \/ Repondre(r, "non_proprietaire") \/ Repondre(r, "transition_interdite")
        \/ Repondre(r, "ok") /\ u \in rejouees
    BY <1>2 DEF DeclarerIndisponible
  <2>2. PICK q : Devient(r, q) /\ q.phase = "traitee" /\ (q.issue = "ok" => u \in rejouees)
    BY <1>1, <2>1, RepondreDevient
  <2> QED
    BY <1>1, <1>2, <2>2, LectureSure DEF IInvCollecte, TypesCollecte
<1>3. CASE /\ VerifierTransition(TableArret, arret, "indisponible", "coursier")
           /\ arret' = "indisponible" /\ rejouees' = rejouees \cup {u}
           /\ Repondre(r, "ok") /\ UNCHANGED <<collectePar, porteur, autresOuverts>>
  <2>1. PICK q : Devient(r, q) /\ q.phase = "traitee" /\ q.issue = "ok"
    BY <1>1, <1>3, RepondreDevient
  <2>2. arret # "collecte"
    BY <1>3, ArretResolu DEF EstResolu
  <2>3. CollecteHonoree' /\ RefusMotives' /\ IndisponibleHonoree' /\ UneActionParUuid'
    BY <1>1, <1>3, <2>1, <2>2, AccordGarde
  <2>4. EssaisComptes'
    BY <1>1, <2>1, CompteGarde
  <2>5. TypesCollecte' /\ TraceUnique'
    BY <1>1, <1>3, <2>1 DEF IInvCollecte, TypesCollecte, TraceUnique, Devient, StatutsArret
  <2> QED
    BY <2>3, <2>4, <2>5 DEF IInvCollecte
<1> QED
  BY <1>2, <1>3 DEF DeclarerIndisponible

-----------------------------------------------------------------------------
\* Around the request, and the application.

LEMMA StepEnvironnement ==
  ASSUME IInvCollecte, Environnement
  PROVE  IInvCollecte'
<1>1. UNCHANGED <<registre, rejets, incident, remplacements, comparaisons, requetes, appli, rejouees>>
  BY DEF Environnement, ChangerDePorteur, CollecterParUnAutre, ResoudreAutres, ChangerAgrement,
     ExpirerEssais
<1>2. arret = "collecte" => UNCHANGED <<arret, collectePar>>
  BY ArretResolu DEF Environnement, ChangerDePorteur, CollecterParUnAutre, ResoudreAutres,
     ChangerAgrement, ExpirerEssais, EstResolu
<1>3. CollecteHonoree' /\ RefusMotives' /\ IndisponibleHonoree' /\ UneActionParUuid' /\ TraceUnique'
  BY <1>1, <1>2 DEF IInvCollecte, CollecteHonoree, RefusMotives, IndisponibleHonoree,
     UneActionParUuid, Emises, TraceUnique
<1>4. TypesCollecte'
  <2>1. CASE CollecterParUnAutre
    BY <2>1 DEF CollecterParUnAutre, IInvCollecte, TypesCollecte, StatutsArret
  <2>2. CASE ExpirerEssais
    BY <2>2, EssaisMaxAssumption, FenetresMaxAssumption
    DEF ExpirerEssais, IInvCollecte, TypesCollecte
  <2>3. CASE ChangerDePorteur \/ ResoudreAutres \/ ChangerAgrement
    BY <2>3 DEF ChangerDePorteur, ResoudreAutres, ChangerAgrement, IInvCollecte, TypesCollecte
  <2> QED
    BY <2>1, <2>2, <2>3 DEF Environnement
<1>5. EssaisComptes'
  <2>1. Comptees' = Comptees
    BY <1>1 DEF Comptees
  <2>2. CASE ExpirerEssais
    <3>1. Cardinality(Comptees) \in Nat
      BY FS_Subset, FS_CardinalityType DEF IInvCollecte, EssaisComptes, Comptees
    <3>2. /\ essais' = 0 /\ fenetre' = fenetre + 1 /\ comparaisons' = comparaisons
          /\ comparaisons \in Nat /\ fenetre \in Nat /\ EssaisMax \in Nat /\ essais \in Nat
      BY <1>1, <2>2, EssaisMaxAssumption, FenetresMaxAssumption
      DEF ExpirerEssais, IInvCollecte, TypesCollecte
    <3>3. EssaisMax * (fenetre' - 1) = EssaisMax * (fenetre - 1) + EssaisMax
      BY <3>2
    <3> DEFINE base == EssaisMax * (fenetre - 1)
    <3>4. base \in Int /\ base' = base + EssaisMax
      BY <3>2, <3>3
    <3>5. comparaisons + Cardinality(Comptees)
            <= base + (IF essais <= EssaisMax THEN essais ELSE EssaisMax)
      BY DEF IInvCollecte, EssaisComptes
    <3> HIDE DEF base
    <3>6. comparaisons' + Cardinality(Comptees')
            <= base' + (IF essais' <= EssaisMax THEN essais' ELSE EssaisMax)
      BY <2>1, <3>1, <3>2, <3>4, <3>5
    <3> QED
      BY <1>1, <3>6 DEF IInvCollecte, EssaisComptes, base
  <2>3. CASE ~ExpirerEssais
    <3>1. UNCHANGED <<essais, fenetre>>
      BY <2>3 DEF Environnement, ChangerDePorteur, CollecterParUnAutre, ResoudreAutres,
         ChangerAgrement
    <3> QED
      BY <1>1, <2>1, <3>1 DEF IInvCollecte, EssaisComptes
  <2> QED
    BY <2>2, <2>3
<1> QED
  BY <1>3, <1>4, <1>5 DEF IInvCollecte

\* A request that enters: a tap, under a uuid nobody bears, or the queue's oldest.
LEMMA StepEnvoi ==
  ASSUME IInvCollecte, NEW a \in Actions, NEW par \in Drains \cup {"ecran", "personne"},
         requetes' = requetes \cup {Envoi(a, par)},
         \/ a.uuid = prochain /\ prochain' = prochain + 1
         \/ a \in file /\ prochain' = prochain,
         UNCHANGED <<commande, plaque, file, refuses>>
  PROVE  IInvCollecte'
<1> DEFINE e == Envoi(a, par)
<1>1. e \in Requetes /\ e.action = a /\ e.phase = "envoyee" /\ e.issue = "sans"
  BY OrphelinesMaxAssumption DEF Envoi, Requetes, Issues
<1> HIDE DEF e
<1>2. CollecteHonoree' /\ RefusMotives' /\ IndisponibleHonoree' /\ TraceUnique'
  BY <1>1 DEF IInvCollecte, CollecteHonoree, RefusMotives, IndisponibleHonoree, TraceUnique, e
<1>3. EssaisComptes'
  <2>1. Comptees' = Comptees
    BY <1>1 DEF Comptees, e
  <2>2. IsFiniteSet(requetes')
    BY FS_AddElement DEF IInvCollecte, EssaisComptes
  <2> QED
    BY <2>1, <2>2 DEF IInvCollecte, EssaisComptes
<1>4. TypesCollecte'
  BY <1>1, ActionsMaxAssumption DEF IInvCollecte, TypesCollecte, Actions, Uuids, e
<1>5. UneActionParUuid'
  <2>1. Emises' = Emises \cup {a}
    BY <1>1 DEF Emises, e
  <2>2. Emises \subseteq Actions
    BY DEF Emises, IInvCollecte, TypesCollecte, Requetes
  <2>3. \A x \in Actions : x.uuid \in Nat
    BY DEF Actions, Uuids
  <2>4. prochain \in Nat
    BY ActionsMaxAssumption DEF IInvCollecte, TypesCollecte
  <2>5. CASE a \in file /\ prochain' = prochain
    <3>1. Emises' = Emises
      BY <2>1, <2>5 DEF Emises
    <3> QED
      BY <2>5, <3>1 DEF IInvCollecte, UneActionParUuid
  <2>6. CASE a.uuid = prochain /\ prochain' = prochain + 1
    <3>1. \A x \in Emises : x.uuid < prochain /\ x.uuid \in Nat
      BY <2>2, <2>3 DEF IInvCollecte, UneActionParUuid
    <3>2. \A x \in Emises' : x = a \/ x \in Emises
      BY <2>1
    <3>3. \A x \in Emises' : x.uuid < prochain'
      BY <2>4, <2>6, <3>1, <3>2
    <3>4. \A x, y \in Emises' : x.uuid = y.uuid => x = y
      BY <2>4, <2>6, <3>1, <3>2 DEF IInvCollecte, UneActionParUuid
    <3> QED
      BY <3>3, <3>4 DEF UneActionParUuid
  <2> QED
    BY <2>5, <2>6
<1> QED
  BY <1>2, <1>3, <1>4, <1>5 DEF IInvCollecte

\* A request that leaves, its reply taken or nobody awaiting it any more.
LEMMA StepRetour ==
  ASSUME IInvCollecte, NEW r \in requetes,
         RecevoirReponse(r) \/ MettreEnFile(r) \/ RetirerDeLaFile(r) \/ ManquerDrain(r)
  PROVE  IInvCollecte'
<1>1. r \in Requetes /\ r.action.uuid \in Uuids
  BY DEF IInvCollecte, TypesCollecte, Requetes, Actions
<1>2. \E q : Devient(r, q) /\ q.phase = r.phase /\ q.issue = r.issue
  <2>1. CASE requetes' = requetes \ {r}
    BY <1>1, <2>1 DEF Devient
  <2>2. CASE NePlusAttendre(r)
    BY <1>1, <2>2, NePlusAttendreDevient
  <2> QED
    BY <2>1, <2>2 DEF RecevoirReponse, MettreEnFile, RetirerDeLaFile, ManquerDrain
<1>3. UNCHANGED <<commande, plaque, prochain>>
      /\ file' \subseteq file \cup {r.action} /\ refuses' \subseteq Uuids
  BY <1>1 DEF RecevoirReponse, MettreEnFile, RetirerDeLaFile, ManquerDrain, IInvCollecte,
     TypesCollecte
<1> QED
  BY <1>2, <1>3, LectureSure DEF IInvCollecte, RefusMotives

LEMMA StepAppareil ==
  ASSUME IInvCollecte, Appareil
  PROVE  IInvCollecte'
<1>1. CASE \E a \in Actions : Agir(a)
  BY <1>1, StepEnvoi DEF Agir
<1>2. CASE \E d \in Drains : Drainer(d)
  <2>1. PICK d \in Drains, a \in file :
          requetes' = requetes \cup {Envoi(a, d)} /\ UNCHANGED <<commande, plaque, appli>>
    BY <1>2 DEF Drainer
  <2>2. a \in Actions
    BY DEF IInvCollecte, TypesCollecte
  <2> QED
    BY <2>1, <2>2, StepEnvoi
<1>3. CASE EffacerRefus
  BY <1>3 DEF EffacerRefus, IInvCollecte, TypesCollecte, CollecteHonoree, RefusMotives,
     IndisponibleHonoree, TraceUnique, UneActionParUuid, Emises, EssaisComptes, Comptees
<1> QED
  BY <1>1, <1>2, <1>3, StepRetour DEF Appareil

-----------------------------------------------------------------------------
\* The theorems.

LEMMA InitIInvCollecte == InitCollecte => IInvCollecte
<1> SUFFICES ASSUME InitCollecte PROVE IInvCollecte
  OBVIOUS
<1>1. TypesCollecte
  <2>1. /\ registre \in [Uuids -> MotifsDefinitifs \cup {"aucune", "collecte"}]
        /\ rejets \in [Uuids -> Nat]
    BY DEF InitCollecte
  <2>2. essais \in 0..EssaisMax + 1 /\ fenetre \in 1..FenetresMax /\ prochain \in 1..ActionsMax + 1
    BY EssaisMaxAssumption, FenetresMaxAssumption, ActionsMaxAssumption DEF InitCollecte
  <2> QED
    BY <2>1, <2>2 DEF InitCollecte, TypesCollecte, StatutsArret
<1>2. EssaisComptes
  <2>1. Comptees = {} /\ IsFiniteSet({}) /\ Cardinality({}) = 0
    BY FS_EmptySet DEF InitCollecte, Comptees
  <2> QED
    BY <2>1, EssaisMaxAssumption DEF InitCollecte, EssaisComptes
<1> QED
  BY <1>1, <1>2 DEF InitCollecte, IInvCollecte, CollecteHonoree, RefusMotives,
     IndisponibleHonoree, TraceUnique, UneActionParUuid, Emises, MotifsDefinitifs

LEMMA StepIInvCollecte == IInvCollecte /\ [NextCollecte]_varsCollecte => IInvCollecte'
<1> SUFFICES ASSUME IInvCollecte, [NextCollecte]_varsCollecte PROVE IInvCollecte'
  OBVIOUS
<1>1. CASE UNCHANGED varsCollecte
  BY <1>1 DEF varsCollecte, IInvCollecte, TypesCollecte, CollecteHonoree, RefusMotives,
     IndisponibleHonoree, TraceUnique, UneActionParUuid, Emises, EssaisComptes, Comptees
<1>2. CASE \E r \in requetes : Servir(r) \/ Echouer(r)
  BY <1>2, StepLectures, StepIncident, StepEssai, StepCode, StepRejet, StepCollecte,
     StepIndisponible DEF Servir
<1> QED
  BY <1>1, <1>2, StepEnvironnement, StepAppareil DEF NextCollecte

\* Whatever the order in which requests, replays and the device's queue come, the
\* inductive invariant of the collection holds.
THEOREM InvarianceCollecte == SpecCollecte => []IInvCollecte
BY InitIInvCollecte, StepIInvCollecte, PTL DEF SpecCollecte

\* An answer that the server gave on a collection is honoured (collecte.rs): the
\* stop is collected and the action remembered under its uuid.
THEOREM CollecteSure == SpecCollecte => []CollecteHonoree
BY InvarianceCollecte, PTL DEF IInvCollecte

\* A refusal recorded for good has one event (rejeter_definitif) and the stop asks
\* once for a new plate (incident_si_absent), however many copies are at work.
THEOREM TraceSure == SpecCollecte => []TraceUnique
BY InvarianceCollecte, PTL DEF IInvCollecte

\* No more codes are compared than the window lets tries be counted
\* (essais_code), whatever requests and windows cross.
THEOREM CodeSur == SpecCollecte => []CodeBorne
<1>1. IInvCollecte => CodeBorne
  <2> SUFFICES ASSUME IInvCollecte PROVE CodeBorne
    OBVIOUS
  <2>1. Cardinality(Comptees) \in Nat
    BY FS_Subset, FS_CardinalityType DEF IInvCollecte, EssaisComptes, Comptees
  <2>2. comparaisons \in Nat /\ EssaisMax \in Nat /\ fenetre \in Nat /\ essais \in Nat
    BY EssaisMaxAssumption, FenetresMaxAssumption DEF IInvCollecte, TypesCollecte
  <2>3. EssaisMax * fenetre = EssaisMax * (fenetre - 1) + EssaisMax
    BY <2>2
  <2>4. EssaisMax * (fenetre - 1) \in Int
    BY <2>2
  <2>5. comparaisons + Cardinality(Comptees)
          <= EssaisMax * (fenetre - 1) + (IF essais <= EssaisMax THEN essais ELSE EssaisMax)
    BY DEF IInvCollecte, EssaisComptes
  <2> QED
    BY <2>1, <2>2, <2>3, <2>4, <2>5 DEF CodeBorne
<1> QED
  BY <1>1, InvarianceCollecte, PTL

\* An action leaves the queue of the device (_drainerFile) only applied under its
\* uuid or as a refusal that can be read: an answer lost, or a failure of the
\* server, keeps it there.
THEOREM SortieSure == SpecCollecte => SortieFondee
<1>1. ASSUME IInvCollecte, [NextCollecte]_varsCollecte, NEW u \in Uuids, EnFile(u), ~EnFile(u)'
      PROVE  Conclue(u)'
  <2>1. PICK a \in file : a.uuid = u
    BY <1>1 DEF EnFile
  <2>2. a \notin file'
    BY <1>1, <2>1 DEF EnFile
  <2>3. PICK r \in requetes : RetirerDeLaFile(r)
    <3>1. ASSUME NEW r \in requetes, Servir(r) \/ Echouer(r)
          PROVE  file' = file
      BY <3>1 DEF Servir, Echouer, LireRegistre, LireArret, VerifierJeton, ConsignerIncident,
         IncrementerEssai, VerifierCode, Rejeter, Collecter, DeclarerIndisponible
    <3>2. ASSUME Environnement PROVE file' = file
      BY <3>2 DEF Environnement, ChangerDePorteur, CollecterParUnAutre, ResoudreAutres,
         ChangerAgrement, ExpirerEssais
    <3>3. ASSUME Appareil, \A r \in requetes : ~RetirerDeLaFile(r)
          PROVE  file \subseteq file'
      BY <3>3 DEF Appareil, Agir, Drainer, EffacerRefus, RecevoirReponse, MettreEnFile, ManquerDrain
    <3> QED
      BY <1>1, <2>1, <2>2, <3>1, <3>2, <3>3 DEF NextCollecte, varsCollecte
  <2>4. /\ file' = {b \in file : b.uuid # r.action.uuid}
        /\ UNCHANGED <<collectePar, rejouees>>
        /\ r.issue # "ok" /\ r.action \in file => r.action.uuid \in refuses'
    BY <2>3 DEF RetirerDeLaFile
  <2>5. r.action = a
    <3>1. a.uuid = r.action.uuid
      BY <2>1, <2>2, <2>4
    <3>2. a \in Emises /\ r.action \in Emises
      BY DEF Emises
    <3> QED
      BY <1>1, <3>1, <3>2 DEF IInvCollecte, UneActionParUuid
  <2>6. r.issue = "ok" => collectePar = u \/ u \in rejouees
    BY <1>1, <2>1, <2>5 DEF IInvCollecte, CollecteHonoree, IndisponibleHonoree
  <2> QED
    BY <2>1, <2>4, <2>5, <2>6 DEF Conclue
<1>2. IInvCollecte /\ [NextCollecte]_varsCollecte
        => [\A u \in Uuids : EnFile(u) /\ ~EnFile(u)' => Conclue(u)']_varsCollecte
  BY <1>1
<1> QED
  BY <1>2, InvarianceCollecte, PTL DEF SpecCollecte, SortieFondee

=============================================================================
