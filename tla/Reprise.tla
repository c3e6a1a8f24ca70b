------------------------------ MODULE Reprise ------------------------------
(***************************************************************************)
(* The two watches of the dispatch's tick over one order (reprise.rs): the *)
(* escalation of an order that nobody takes, and the recovery of a course  *)
(* that does not move, with the trace of progress that the couriers'       *)
(* positions write, the recovery an administrator asks for, and crashes    *)
(* between the transactions of each.                                       *)
(*                                                                         *)
(* Distances count in multiples of the zone's movement threshold, and a    *)
(* position is any of them.  The tick is one task of one process, each     *)
(* request another.  A step of the tick or of a position is one            *)
(* transaction, or the reads before it, which matter by being old when it  *)
(* comes; an administrator's reads are part of his first transaction.      *)
(***************************************************************************)
EXTENDS EtatsCommande, FiniteSets, Integers

CONSTANTS
  Coursiers,
  Personne,         \* no courier
  NbArrets,         \* vendors to collect from
  Portee,           \* the farthest a courier may be from a stop
  AffectationsMax,  \* bound on the assignments of the order
  ArretsMax         \* bound on the crashes of the process

ASSUME PersonneAssumption == Personne \notin Coursiers
ASSUME BornesAssumption ==
  NbArrets \in Nat /\ Portee \in Nat /\ AffectationsMax \in Nat /\ ArretsMax \in Nat

Motifs == {"sans_mouvement", "sans_scan"}
Distances == 0..Portee
Suivis == [distance_min : Distances, recent : BOOLEAN]
Aucune == 0 - 1
Absent == [distance_min |-> Aucune, recent |-> FALSE]

\* The tick looks at the waiting orders, then at the courses, and so on.
EtapesTic == {"attentes", "escalade", "courses", "blocage", "incident", "retrait", "oubli"}
Incidents == Coursiers \X Motifs
Sans == <<Personne, "sans_mouvement">>
Tache(etape) == [etape |-> etape, incident |-> Sans]

VARIABLES
  etat, coursier,  \* the order's trunk, its delivery's courier
  affectations,    \* assignments so far
  cible,           \* the first stop that is not resolved
  engage,          \* a stop is collected: the courier has paid
  agees,           \* criteria whose delay has passed since the assignment
  tardive,         \* the order has waited past the zone's threshold
  suivi,           \* dispatch.suivi_progression
  observation,     \* the position being handled: the distance measured
  incidents,       \* dispatch.incident_reassignation: <<courier, motive>>
  tic, manuel,     \* where the tick is, and an administrator's request
  escalades, bloquees, retraits, \* alerts sent, withdrawals by the tick
  coupee,          \* whose recovery for no movement has just been cut short
  arrets           \* crashes so far

course == <<cible, engage>>
temps == <<agees, tardive>>
traces == <<escalades, bloquees, retraits, coupee>>
vars == <<etat, coursier, affectations, course, temps, suivi, observation, incidents,
          tic, manuel, traces, arrets>>

TypeOK ==
  /\ etat \in {"nouvelle", "en_attente_coursier", "en_cours", "annulee"}
  /\ coursier \in Coursiers \cup {Personne}
  /\ affectations \in 0..AffectationsMax
  /\ cible \in 1..(NbArrets + 1) /\ engage \in BOOLEAN
  /\ agees \subseteq Motifs /\ tardive \in BOOLEAN
  /\ suivi \in Suivis \cup {Absent}
  /\ observation \in Distances \cup {Aucune}
  /\ incidents \subseteq Incidents
  /\ tic \in [etape : EtapesTic, incident : Incidents \cup {Sans}]
  /\ manuel \in {"repos", "retrait", "oubli"}
  /\ escalades \in Nat /\ bloquees \in Nat /\ retraits \in Nat
  /\ coupee \in Coursiers \cup {Personne}
  /\ arrets \in 0..ArretsMax

Init ==
  /\ etat = "nouvelle" /\ coursier = Personne /\ affectations = 0
  /\ cible = 1 /\ engage = FALSE
  /\ agees = {} /\ tardive = FALSE
  /\ suivi = Absent /\ observation = Aucune
  /\ incidents = {} /\ tic = Tache("attentes") /\ manuel = "repos"
  /\ escalades = 0 /\ bloquees = 0 /\ retraits = 0 /\ coupee = Personne /\ arrets = 0

-----------------------------------------------------------------------------
(* The escalation (escalader_attentes).                                     *)

NonAssignee == etat \in {"nouvelle", "en_attente_coursier"}

\* Faulty variant: only the orders of the waiting list are looked at.
AEscaladerDeLaFile == etat = "en_attente_coursier" /\ tardive /\ escalades = 0

\* The mark of an escalation is its event in the outbox (NOT EXISTS).
AEscalader == NonAssignee /\ tardive /\ escalades = 0

LireAttente ==
  /\ tic.etape = "attentes"
  /\ tic' = IF AEscalader THEN Tache("escalade") ELSE Tache("courses")
  /\ coupee' = Personne
  /\ UNCHANGED <<etat, coursier, affectations, course, temps, suivi, observation, incidents,
                 manuel, escalades, bloquees, retraits, arrets>>

EcrireEscalade ==
  /\ tic.etape = "escalade"
  /\ escalades' = escalades + 1
  /\ tic' = Tache("courses")
  /\ UNCHANGED <<etat, coursier, affectations, course, temps, suivi, observation, incidents,
                 manuel, bloquees, retraits, coupee, arrets>>

-----------------------------------------------------------------------------
(* The recovery (reprendre_courses_immobiles).                              *)

\* A delivery with a courier, `assignee` or `en_collecte`: the resolution of the
\* last stop moves it on, the end of the order too.  The trunk is not asked.
Surveillee == coursier # Personne /\ etat \notin TroncTermine /\ cible <= NbArrets

\* No position received since the assignment counts as no movement.
SansMouvement == IF suivi = Absent THEN "sans_mouvement" \in agees ELSE ~suivi.recent

SansScan == ~engage /\ "sans_scan" \in agees

Motif == IF SansMouvement THEN "sans_mouvement" ELSE "sans_scan"

\* Faulty variant: the trace of progress is joined, and must exist.
ExaminerCourseSuivie ==
  /\ tic.etape = "courses"
  /\ tic' = IF ~Surveillee \/ suivi = Absent \/ ~(SansMouvement \/ SansScan)
            THEN Tache("attentes")
            ELSE IF engage THEN Tache("blocage")
            ELSE [etape |-> "incident", incident |-> <<coursier, Motif>>]
  /\ UNCHANGED <<etat, coursier, affectations, course, temps, suivi, observation, incidents,
                 manuel, traces, arrets>>

\* The candidates, then etat_progression: what was collected decides between an
\* alert and a recovery.
ExaminerCourse ==
  /\ tic.etape = "courses"
  /\ tic' = IF ~Surveillee \/ ~(SansMouvement \/ SansScan) THEN Tache("attentes")
            ELSE IF engage THEN Tache("blocage")
            ELSE [etape |-> "incident", incident |-> <<coursier, Motif>>]
  /\ UNCHANGED <<etat, coursier, affectations, course, temps, suivi, observation, incidents,
                 manuel, traces, arrets>>

\* Faulty variant: the events already written are not counted.
EscaladerBlocageEncore ==
  /\ tic.etape = "blocage"
  /\ bloquees' = bloquees + 1
  /\ tic' = Tache("attentes")
  /\ UNCHANGED <<etat, coursier, affectations, course, temps, suivi, observation, incidents,
                 manuel, escalades, retraits, coupee, arrets>>

\* escalader_course_bloquee: once per delivery, the outbox tells.
EscaladerBlocage ==
  /\ tic.etape = "blocage"
  /\ bloquees' = IF bloquees = 0 THEN 1 ELSE bloquees
  /\ tic' = Tache("attentes")
  /\ UNCHANGED <<etat, coursier, affectations, course, temps, suivi, observation, incidents,
                 manuel, escalades, retraits, coupee, arrets>>

\* Faulty variant: the conflict on the index is not looked at.
EcrireIncidentToujours ==
  /\ tic.etape = "incident"
  /\ incidents' = incidents \cup {tic.incident}
  /\ tic' = [tic EXCEPT !.etape = "retrait"]
  /\ UNCHANGED <<etat, coursier, affectations, course, temps, suivi, observation,
                 manuel, traces, arrets>>

\* The first transaction of reprendre: the unique index stops a second one for
\* the same courier and motive.
EcrireIncident ==
  /\ tic.etape = "incident"
  /\ incidents' = incidents \cup {tic.incident}
  /\ tic' = IF tic.incident \in incidents THEN Tache("attentes")
            ELSE [tic EXCEPT !.etape = "retrait"]
  /\ UNCHANGED <<etat, coursier, affectations, course, temps, suivi, observation,
                 manuel, traces, arrets>>

\* retirer_coursier: the delivery's courier, whoever he is, if the trunk's table
\* lets the order wait again; otherwise nothing is written and the sweep ends.
Retirable == VerifierTransition(TableTronc, etat, "en_attente_coursier", "systeme")

RetirerCoursier ==
  IF Retirable THEN etat' = "en_attente_coursier" /\ coursier' = Personne
               ELSE UNCHANGED <<etat, coursier>>

\* The courier whose incident for no movement still waits for its withdrawal.
Repris == IF tic.etape = "retrait" /\ tic.incident[2] = "sans_mouvement"
          THEN tic.incident[1] ELSE Personne

Retirer ==
  /\ tic.etape = "retrait"
  /\ RetirerCoursier
  /\ retraits' = IF Retirable THEN retraits + 1 ELSE retraits
  /\ coupee' = IF Retirable THEN coupee ELSE Repris
  /\ tic' = IF Retirable THEN Tache("oubli") ELSE Tache("attentes")
  /\ UNCHANGED <<affectations, course, temps, suivi, observation, incidents, manuel,
                 escalades, bloquees, arrets>>

\* oublier_progression.
Oublier ==
  /\ tic.etape = "oubli"
  /\ suivi' = Absent /\ tic' = Tache("attentes")
  /\ UNCHANGED <<etat, coursier, affectations, course, temps, observation, incidents,
                 manuel, traces, arrets>>

-----------------------------------------------------------------------------
(* The recovery an administrator asks for (reprendre_manuellement).         *)

\* Only where something was collected; an incident that is already there takes
\* the administrator's name and motive.
TracerReprise ==
  /\ manuel = "repos"
  /\ engage /\ coursier # Personne
  /\ incidents' = incidents \cup {<<coursier, "sans_mouvement">>}
  /\ manuel' = "retrait"
  /\ UNCHANGED <<etat, coursier, affectations, course, temps, suivi, observation,
                 tic, traces, arrets>>

RetirerManuel ==
  /\ manuel = "retrait"
  /\ RetirerCoursier
  /\ manuel' = IF Retirable THEN "oubli" ELSE "repos"
  /\ UNCHANGED <<affectations, course, temps, suivi, observation, incidents, tic,
                 traces, arrets>>

OublierManuel ==
  /\ manuel = "oubli"
  /\ suivi' = Absent /\ manuel' = "repos"
  /\ UNCHANGED <<etat, coursier, affectations, course, temps, observation, incidents,
                 tic, traces, arrets>>

-----------------------------------------------------------------------------
(* The positions (observer_progression).                                    *)

\* The stop is read, and the distance measured, before the trace is.
Publier(d) ==
  /\ Surveillee /\ observation = Aucune
  /\ observation' = d
  /\ UNCHANGED <<etat, coursier, affectations, course, temps, suivi, incidents, tic, manuel,
                 traces, arrets>>

\* Progress is measured against the best distance, one threshold at least.
Suite(d) ==
  IF suivi = Absent THEN [distance_min |-> d, recent |-> TRUE]
  ELSE IF suivi.distance_min - d >= 1 THEN [distance_min |-> d, recent |-> TRUE]
  ELSE suivi

EcrireObservation ==
  /\ observation # Aucune
  /\ suivi' = Suite(observation)
  /\ observation' = Aucune
  /\ UNCHANGED <<etat, coursier, affectations, course, temps, incidents, tic, manuel,
                 traces, arrets>>

-----------------------------------------------------------------------------
(* Around the tick: the courier, the dispatch, the client, time, crashes.   *)

\* assigner_coursier_tx.  A courier may come back to an order: his offers are
\* not looked at again when he accepts.
Affecter(l) ==
  /\ affectations < AffectationsMax /\ affectations' = affectations + 1
  /\ VerifierTransition(TableTronc, etat, "en_cours", "systeme")
  /\ etat' = "en_cours" /\ coursier' = l /\ agees' = {}
  /\ UNCHANGED <<course, tardive, suivi, observation, incidents, tic, manuel,
                 traces, arrets>>

\* mettre_en_attente_coursier, by a pass of the pipeline.
MettreEnAttente ==
  /\ Retirable /\ etat' = "en_attente_coursier"
  /\ UNCHANGED <<coursier, affectations, course, temps, suivi, observation, incidents,
                 tic, manuel, traces, arrets>>

\* A stop is collected, or found closed.
ResoudreArret ==
  /\ Surveillee
  /\ engage' \in {engage, TRUE}
  /\ cible' = cible + 1
  /\ UNCHANGED <<etat, coursier, affectations, temps, suivi, observation, incidents,
                 tic, manuel, traces, arrets>>

\* The order ends, by an annulation or a hand-over that nothing here tells apart.
Clore ==
  /\ VerifierTransition(TableTronc, etat, "annulee", "client")
  /\ etat' = "annulee"
  /\ UNCHANGED <<coursier, affectations, course, temps, suivi, observation, incidents,
                 tic, manuel, traces, arrets>>

\* Time passes where it is looked at.
Vieillir ==
  /\ Surveillee
  /\ \E m \in Motifs \ agees : agees' = agees \cup {m}
  /\ UNCHANGED <<etat, coursier, affectations, course, tardive, suivi, observation,
                 incidents, tic, manuel, traces, arrets>>

Stagner ==
  /\ Surveillee /\ suivi.recent
  /\ suivi' = [suivi EXCEPT !.recent = FALSE]
  /\ UNCHANGED <<etat, coursier, affectations, course, temps, observation, incidents,
                 tic, manuel, traces, arrets>>

Tarder ==
  /\ NonAssignee /\ ~tardive /\ tardive' = TRUE
  /\ UNCHANGED <<etat, coursier, affectations, course, agees, suivi, observation, incidents,
                 tic, manuel, traces, arrets>>

\* The process dies with what it was doing; the tables stay.  An incident that
\* waits for its withdrawal waits for ever: the next tick finds the row.
Arreter ==
  /\ arrets < ArretsMax /\ arrets' = arrets + 1
  /\ coupee' = Repris
  /\ tic' = Tache("attentes") /\ manuel' = "repos" /\ observation' = Aucune
  /\ UNCHANGED <<etat, coursier, affectations, course, temps, suivi, incidents,
                 escalades, bloquees, retraits>>

-----------------------------------------------------------------------------
Tic == LireAttente \/ EcrireEscalade \/ ExaminerCourse \/ EscaladerBlocage
       \/ EcrireIncident \/ Retirer \/ Oublier

Manuel == TracerReprise \/ RetirerManuel \/ OublierManuel

Entourer ==
  \/ \E d \in Distances : Publier(d)
  \/ \E l \in Coursiers : Affecter(l)
  \/ EcrireObservation \/ MettreEnAttente \/ ResoudreArret \/ Clore
  \/ Vieillir \/ Stagner \/ Tarder

Next == Tic \/ Manuel \/ Entourer \/ Arreter

\* The tick comes every five seconds and goes through both watches.  Nothing is
\* asked of people, nor of time.
Fairness == WF_vars(Tic)

Spec == Init /\ [][Next]_vars /\ Fairness

-----------------------------------------------------------------------------
(* What holds.                                                              *)

\* An order is alerted on once, and a delivery once (escalader_attentes and
\* escalader_course_bloquee, whose only mark is the event), crashes included.
UneAlerte == escalades <= 1 /\ bloquees <= 1

\* The tick withdraws no more couriers than there are incidents: never twice
\* for the same courier and motive, even one who comes back (reprendre).
SansBoucle == retraits <= Cardinality(incidents)

\* An order that waits past the threshold is alerted on, or taken, or closed
\* (escalader_attentes), whichever of its two waiting states it is in.
AttenteEscaladee == (NonAssignee /\ tardive) ~> (escalades = 1 \/ ~NonAssignee)

\* A courier who does not move, seen or silent, and whom the tick has not recovered
\* for it before, ends withdrawn, reported, or moving (reprendre_courses_immobiles).
\* The incident alone is not enough.  Exempted are the incidents that a crash, or a
\* refused withdrawal, leaves without effect for good: reprendre commits the
\* incident first, and takes its row for the mark of a recovery.
ImmobileTraitee ==
  (Surveillee /\ SansMouvement /\ <<coursier, "sans_mouvement">> \notin incidents)
    ~> (\/ bloquees = 1 \/ ~Surveillee \/ ~SansMouvement
        \/ coupee = coursier)

=============================================================================
