------------------------------ MODULE Collecte ------------------------------
(***************************************************************************)
(* The collection of one stop by its vendor's plate: the courier's         *)
(* application with its offline queue (etat_course.dart), `collecter` of   *)
(* the crate qr with its registry of uuids, the row of the stop in the     *)
(* crate commandes, and the same stop declared unavailable (collecte.rs).  *)
(* The registry, the stop and the plate are read on the pool, one after    *)
(* the other, before the transaction that writes: a request that nobody    *)
(* awaits any more and its replay by the queue interleave there.           *)
(* What the whole order does of the stop is module Commande; the           *)
(* application declares no way to a vendor's stop, only to the door        *)
(* (ecran_course_active.dart), so the stop starts, and waits, a_collecter. *)
(***************************************************************************)
EXTENDS EtatsCommande, FiniteSets, Naturals

CONSTANTS
  EssaisMax,      \* tries of the fallback code in a window (3 in depot.rs)
  ActionsMax,     \* bound: actions of the courier, one uuid_client each
  FenetresMax,    \* bound: windows of the counter of tries
  OrphelinesMax,  \* bound: requests at work that nobody awaits any more
  Drains          \* bound: drains of the queue at once

ASSUME EssaisMaxAssumption == EssaisMax \in Nat \ {0}
ASSUME ActionsMaxAssumption == ActionsMax \in Nat \ {0}
ASSUME FenetresMaxAssumption == FenetresMax \in Nat \ {0}
ASSUME OrphelinesMaxAssumption == OrphelinesMax \in Nat
ASSUME DrainsAssumption == Drains # {} /\ Drains \cap {"ecran", "personne"} = {}

VARIABLES
  arret,           \* commandes.arret.statut
  collectePar,     \* commandes.arret.collecte_uuid_client
  rejouees,        \* commandes.transition_arret_rejouee
  porteur,         \* is livraison.coursier_id this courier?
  autresOuverts,   \* another stop of the delivery waits to be collected
  agree,           \* is the vendor approved (resolution_plaque: valide)?
  registre,        \* qr.action_traitee, by uuid
  rejets,          \* arret.collecte_rejetee written to the outbox, by uuid
  incident,        \* qr.incident_plaque has a row for the stop
  remplacements,   \* plaque.remplacement_requis written to the outbox
  essais,          \* Redis qr:essais:{arret}
  fenetre,         \* windows of the counter opened so far
  comparaisons,    \* codes compared with the vendor's
  requetes,        \* requests on the wire or in the server, and replies
  prochain,        \* the next uuid_client
  file,            \* pending actions of the offline queue
  refuses          \* actions the server refused for good, kept as a trace

commande == <<arret, collectePar, rejouees, porteur, autresOuverts>>
plaque == <<agree, registre, rejets, incident, remplacements, essais, fenetre, comparaisons>>
appli == <<prochain, file, refuses>>
varsCollecte == <<commande, plaque, requetes, appli>>

Aucun == 0
Uuids == 1..ActionsMax
\* Another courier's collection, under a uuid of his.
Autre == ActionsMax + 1

\* What the proof of an action is worth: right, too far from the site, of
\* another plate (or a wrong code), or without the photo the policy asks for.
\* The distance is looked at before the mode and the photo after it, in the same
\* way for both modes: a far scan, or one without a photo, stands for both.
Actions ==
  [uuid : Uuids, genre : {"scan", "code"}, preuve : {"bonne", "fausse"}]
    \cup [uuid : Uuids, genre : {"scan"}, preuve : {"loin", "sans_photo"}]
    \cup [uuid : Uuids, genre : {"indisponible"}, preuve : {"bonne"}]

MotifsDefinitifs == {"hors_zone", "jeton_revoque", "code_epuise", "etat_incompatible"}
Issues == MotifsDefinitifs \cup
  {"sans", "ok", "arret_hors_course", "plaque_invalide", "code_incorrect",
   "photo_requise", "non_proprietaire", "transition_interdite", "erreur_interne"}

\* `phase` is what `collecter` has done: read the registry (inedite), the stop
\* (presente), recorded the incident (signalee), counted the try (comptee),
\* accepted (prete) or refused (refusee) before it writes, answered (traitee).
Requetes ==
  [action : Actions, par : Drains \cup {"ecran", "personne"}, copie : 0..OrphelinesMax,
   phase : {"envoyee", "inedite", "presente", "signalee", "comptee", "prete",
            "refusee", "traitee"},
   issue : Issues]

TypesCollecte ==
  /\ arret \in StatutsArret
  /\ collectePar \in Uuids \cup {Aucun, Autre}
  /\ rejouees \subseteq Uuids
  /\ porteur \in BOOLEAN /\ autresOuverts \in BOOLEAN /\ agree \in BOOLEAN
  /\ registre \in [Uuids -> MotifsDefinitifs \cup {"aucune", "collecte"}]
  /\ rejets \in [Uuids -> Nat]
  /\ incident \in BOOLEAN /\ remplacements \in Nat
  /\ essais \in 0..EssaisMax + 1 /\ fenetre \in 1..FenetresMax
  /\ comparaisons \in Nat
  /\ requetes \subseteq Requetes
  /\ prochain \in 1..ActionsMax + 1
  /\ file \subseteq Actions
  /\ refuses \subseteq Uuids

InitCollecte ==
  /\ arret = "a_collecter" /\ collectePar = Aucun /\ rejouees = {}
  /\ porteur = TRUE /\ autresOuverts \in BOOLEAN
  /\ agree = TRUE
  /\ registre = [u \in Uuids |-> "aucune"] /\ rejets = [u \in Uuids |-> 0]
  /\ incident = FALSE /\ remplacements = 0
  /\ essais = 0 /\ fenetre = 1 /\ comparaisons = 0
  /\ requetes = {}
  /\ prochain = 1 /\ file = {} /\ refuses = {}

-----------------------------------------------------------------------------
(* What a request does between two of its own reads and writes.            *)

Passer(r, phase) == requetes' = (requetes \ {r}) \cup {[r EXCEPT !.phase = phase]}

Refuser(r, motif) ==
  requetes' = (requetes \ {r}) \cup {[r EXCEPT !.phase = "refusee", !.issue = motif]}

\* The reply goes to whoever still awaits it.
Repondre(r, issue) ==
  requetes' = (requetes \ {r}) \cup
    (IF r.par = "personne" THEN {} ELSE {[r EXCEPT !.phase = "traitee", !.issue = issue]})

-----------------------------------------------------------------------------
(* `collecter`: the reads.                                                 *)

\* A uuid already in the registry is answered as it was, and writes nothing.
LireRegistre(r) ==
  LET connue == registre[r.action.uuid] IN
  /\ r.phase = "envoyee" /\ r.action.genre # "indisponible"
  /\ \/ connue = "aucune" /\ Passer(r, "inedite")
     \/ connue = "collecte" /\ Repondre(r, "ok")
     \/ connue \in MotifsDefinitifs /\ Repondre(r, connue)
  /\ UNCHANGED <<commande, plaque, appli>>

\* The delivery has left for the client: gating_livraison moves it in the
\* transaction that resolves the last stop (two at once are module Commande's).  It
\* is read off the stop: one collected by a courier just withdrawn counts as left.
EnLivraison == arret \in EstResolu /\ ~autresOuverts

\* arret_de_coursier: the stop is on a delivery this courier collects.
DeLaCourse == porteur /\ ~EnLivraison

\* Then the distance, before the proof is looked at.
LireArret(r) ==
  /\ r.phase = "inedite"
  /\ \/ ~DeLaCourse /\ Repondre(r, "arret_hors_course")
     \/ DeLaCourse /\ r.action.preuve = "loin" /\ Refuser(r, "hors_zone")
     \/ DeLaCourse /\ r.action.preuve # "loin" /\ Passer(r, "presente")
  /\ UNCHANGED <<commande, plaque, appli>>

\* The photo is asked for last; its absence, like a wrong plate or code, is
\* answered without being recorded: the courier may try again.
Accepter(r) ==
  IF r.action.preuve = "sans_photo" THEN Repondre(r, "photo_requise") ELSE Passer(r, "prete")

VerifierJeton(r) ==
  /\ r.phase = "presente" /\ r.action.genre = "scan"
  /\ \/ r.action.preuve = "fausse" /\ Repondre(r, "plaque_invalide")
     \/ r.action.preuve # "fausse" /\ ~agree /\ Refuser(r, "jeton_revoque")
     \/ r.action.preuve # "fausse" /\ agree /\ Accepter(r)
  /\ UNCHANGED <<commande, plaque, appli>>

\* incident_si_absent: one incident per stop, in a transaction of its own.
ConsignerIncident(r) ==
  /\ r.phase = "presente" /\ r.action.genre = "code"
  /\ incident' = TRUE
  /\ remplacements' = IF incident THEN remplacements ELSE remplacements + 1
  /\ Passer(r, "signalee")
  /\ UNCHANGED <<commande, agree, registre, rejets, essais, fenetre, comparaisons, appli>>

\* Faulty variant: the count is judged before it is raised.
IncrementerEssaiApres(r) ==
  LET n == essais + 1 IN
  /\ r.phase = "signalee"
  /\ essais' = IF n > EssaisMax THEN EssaisMax + 1 ELSE n
  /\ IF essais > EssaisMax THEN Refuser(r, "code_epuise") ELSE Passer(r, "comptee")
  /\ UNCHANGED <<commande, agree, registre, rejets, incident, remplacements, fenetre,
                 comparaisons, appli>>

\* INCR is atomic; past the limit its exact value no longer matters.
IncrementerEssai(r) ==
  LET n == essais + 1 IN
  /\ r.phase = "signalee"
  /\ essais' = IF n > EssaisMax THEN EssaisMax + 1 ELSE n
  /\ IF n > EssaisMax THEN Refuser(r, "code_epuise") ELSE Passer(r, "comptee")
  /\ UNCHANGED <<commande, agree, registre, rejets, incident, remplacements, fenetre,
                 comparaisons, appli>>

VerifierCode(r) ==
  /\ r.phase = "comptee"
  /\ \/ ~agree /\ Refuser(r, "jeton_revoque") /\ UNCHANGED comparaisons
     \/ /\ agree
        /\ comparaisons' = comparaisons + 1
        /\ IF r.action.preuve = "fausse" THEN Repondre(r, "code_incorrect") ELSE Accepter(r)
  /\ UNCHANGED <<commande, agree, registre, rejets, incident, remplacements, essais, fenetre,
                 appli>>

-----------------------------------------------------------------------------
(* `collecter` and `transiter_arret`: the transactions.                    *)

\* ON CONFLICT (uuid_client) DO NOTHING.
Enregistrer(u, issue) ==
  registre' = IF registre[u] = "aucune" THEN [registre EXCEPT ![u] = issue] ELSE registre

\* Faulty variant: the event does not look at the row the insertion skipped.
RejeterEncore(r) ==
  LET u == r.action.uuid IN
  /\ r.phase = "refusee"
  /\ Enregistrer(u, r.issue)
  /\ rejets' = [rejets EXCEPT ![u] = @ + 1]
  /\ Repondre(r, r.issue)
  /\ UNCHANGED <<commande, agree, incident, remplacements, essais, fenetre, comparaisons, appli>>

\* rejeter_definitif: the row and its event, or neither.
Rejeter(r) ==
  LET u == r.action.uuid IN
  /\ r.phase = "refusee"
  /\ Enregistrer(u, r.issue)
  /\ rejets' = IF registre[u] = "aucune" THEN [rejets EXCEPT ![u] = @ + 1] ELSE rejets
  /\ Repondre(r, r.issue)
  /\ UNCHANGED <<commande, agree, incident, remplacements, essais, fenetre, comparaisons, appli>>

\* Faulty variant: a stop already collected is accepted whoever collected it.
CollecterDejaFait(r) ==
  LET u == r.action.uuid IN
  /\ r.phase = "prete"
  /\ \/ /\ arret = "collecte"
        /\ Enregistrer(u, "collecte")
        /\ Repondre(r, "ok")
        /\ UNCHANGED commande
     \/ /\ VerifierTransition(TableArret, arret, "collecte", "coursier")
        /\ arret' = "collecte" /\ collectePar' = u
        /\ Enregistrer(u, "collecte")
        /\ Repondre(r, "ok")
        /\ UNCHANGED <<rejouees, porteur, autresOuverts>>
     \/ /\ arret \in {"indisponible", "en_route"}
        /\ Refuser(r, "etat_incompatible")
        /\ UNCHANGED <<commande, registre>>
  /\ UNCHANGED <<agree, rejets, incident, remplacements, essais, fenetre, comparaisons, appli>>

\* marquer_arret_collecte under the row's lock, with the registry: the same
\* uuid again, the collection, or a stop somebody else resolved (rolled back,
\* the refusal is then recorded apart).  Who holds the course is not read again.
Collecter(r) ==
  LET u == r.action.uuid IN
  /\ r.phase = "prete"
  /\ \/ /\ arret = "collecte" /\ collectePar = u
        /\ Enregistrer(u, "collecte")
        /\ Repondre(r, "ok")
        /\ UNCHANGED commande
     \/ /\ VerifierTransition(TableArret, arret, "collecte", "coursier")
        /\ arret' = "collecte" /\ collectePar' = u
        /\ Enregistrer(u, "collecte")
        /\ Repondre(r, "ok")
        /\ UNCHANGED <<rejouees, porteur, autresOuverts>>
     \/ /\ arret \in {"indisponible", "en_route"} \/ (arret = "collecte" /\ collectePar # u)
        /\ Refuser(r, "etat_incompatible")
        /\ UNCHANGED <<commande, registre>>
  /\ UNCHANGED <<agree, rejets, incident, remplacements, essais, fenetre, comparaisons, appli>>

\* transiter_arret("indisponible"): everything in one transaction, the row
\* locked before the owner and the replay are looked at.  The event that traces a
\* courier who is no longer the owner is left out.
DeclarerIndisponible(r) ==
  LET u == r.action.uuid
      permise == VerifierTransition(TableArret, arret, "indisponible", "coursier") IN
  /\ r.phase = "envoyee" /\ r.action.genre = "indisponible"
  /\ \/ ~porteur /\ Repondre(r, "non_proprietaire") /\ UNCHANGED commande
     \/ porteur /\ u \in rejouees /\ Repondre(r, "ok") /\ UNCHANGED commande
     \/ /\ porteur /\ u \notin rejouees /\ permise
        /\ arret' = "indisponible" /\ rejouees' = rejouees \cup {u}
        /\ Repondre(r, "ok")
        /\ UNCHANGED <<collectePar, porteur, autresOuverts>>
     \/ /\ porteur /\ u \notin rejouees /\ ~permise
        /\ Repondre(r, "transition_interdite")
        /\ UNCHANGED commande
  /\ UNCHANGED <<plaque, appli>>

\* A statement, Redis or the object store fails: 500, what was committed stays.
Echouer(r) ==
  /\ r.phase # "traitee"
  /\ Repondre(r, "erreur_interne")
  /\ UNCHANGED <<commande, plaque, appli>>

-----------------------------------------------------------------------------
(* Around the request.                                                     *)

\* The courier is withdrawn from the delivery, or assigned to it again.
ChangerDePorteur ==
  /\ ~EnLivraison
  /\ porteur' = ~porteur
  /\ UNCHANGED <<arret, collectePar, rejouees, autresOuverts, plaque, requetes, appli>>

\* The courier who took the course over collects the stop.
CollecterParUnAutre ==
  /\ ~porteur
  /\ VerifierTransition(TableArret, arret, "collecte", "coursier")
  /\ arret' = "collecte" /\ collectePar' = Autre
  /\ UNCHANGED <<rejouees, porteur, autresOuverts, plaque, requetes, appli>>

\* The last of the other stops is resolved.
ResoudreAutres ==
  /\ autresOuverts
  /\ autresOuverts' = FALSE
  /\ UNCHANGED <<arret, collectePar, rejouees, porteur, plaque, requetes, appli>>

\* The vendor is suspended, or approved again.
ChangerAgrement ==
  /\ agree' = ~agree
  /\ UNCHANGED <<commande, registre, rejets, incident, remplacements, essais, fenetre,
                 comparaisons, requetes, appli>>

\* The key set by the first try of the window expires.
ExpirerEssais ==
  /\ essais > 0 /\ fenetre < FenetresMax
  /\ essais' = 0 /\ fenetre' = fenetre + 1
  /\ UNCHANGED <<commande, agree, registre, rejets, incident, remplacements, comparaisons,
                 requetes, appli>>

-----------------------------------------------------------------------------
(* The application and the network.                                        *)

Envoi(a, par) ==
  [action |-> a, par |-> par, copie |-> 0, phase |-> "envoyee", issue |-> "sans"]

\* Requests that nobody awaits are told apart by a number.
Libres == {i \in 1..OrphelinesMax : \A r \in requetes : r.copie # i}

\* Nobody awaits r any more: its reply is lost; the request is lost too, or
\* goes on in the server.
NePlusAttendre(r) ==
  \/ requetes' = requetes \ {r}
  \/ /\ r.phase # "traitee"
     /\ \E i \in Libres :
          requetes' = (requetes \ {r}) \cup {[r EXCEPT !.par = "personne", !.copie = i]}

\* A tap on a screen that awaits nothing (_enCours), under a new uuid.  The tick
\* of the cache decides what the screen shows; it may be stale (another device, a
\* cache rebuilt beside a drain), so that the tap may come whatever the stop is.
Agir(a) ==
  /\ a.uuid = prochain /\ \A r \in requetes : r.par # "ecran"
  /\ prochain' = prochain + 1
  /\ requetes' = requetes \cup {Envoi(a, "ecran")}
  /\ UNCHANGED <<commande, plaque, file, refuses>>

\* The reply to the screen: a refusal is shown, and kept nowhere.
RecevoirReponse(r) ==
  /\ r.phase = "traitee" /\ r.par = "ecran"
  /\ requetes' = requetes \ {r}
  /\ UNCHANGED <<commande, plaque, appli>>

\* No answer: the action joins the queue under the same uuid.  A collection is
\* checked on the device first, against the fingerprints and the radius, if the
\* stop is in the loaded course; what fails there is shown and not queued.
MettreEnFile(r) ==
  /\ r.par = "ecran"
  /\ NePlusAttendre(r)
  /\ \/ file' = file \cup {r.action}
     \/ r.action.preuve \in {"loin", "fausse"} /\ UNCHANGED file
  /\ UNCHANGED <<commande, plaque, prochain, refuses>>

\* _drainerFile sends the oldest pending action and awaits: the uuids follow the
\* order in which the actions were queued.
Drainer(drain) ==
  /\ \A r \in requetes : r.par # drain
  /\ \E a \in file : /\ \A b \in file : a.uuid <= b.uuid
                     /\ requetes' = requetes \cup {Envoi(a, drain)}
  /\ UNCHANGED <<commande, plaque, appli>>

\* Faulty variant: a refusal leaves the queue without a trace.
RetirerSansTrace(r) ==
  LET u == r.action.uuid IN
  /\ r.phase = "traitee" /\ r.par \in Drains
  /\ requetes' = requetes \ {r}
  /\ file' = {a \in file : a.uuid # u}
  /\ UNCHANGED <<commande, plaque, prochain, refuses>>

\* Accepted, the row is deleted, be it a trace by now; refused, it becomes a trace
\* the courier can read.
RetirerDeLaFile(r) ==
  LET u == r.action.uuid IN
  /\ r.phase = "traitee" /\ r.par \in Drains
  /\ requetes' = requetes \ {r}
  /\ file' = {a \in file : a.uuid # u}
  /\ refuses' = IF r.issue = "ok" THEN refuses \ {u}
                ELSE IF r.action \in file THEN refuses \cup {u} ELSE refuses
  /\ UNCHANGED <<commande, plaque, prochain>>

\* The courier has read his refusals and clears them.
EffacerRefus ==
  /\ refuses # {} /\ refuses' = {}
  /\ UNCHANGED <<commande, plaque, requetes, prochain, file>>

\* marquerEchec: no answer, the action stays pending for the next drain.
ManquerDrain(r) ==
  /\ r.par \in Drains
  /\ NePlusAttendre(r)
  /\ UNCHANGED <<commande, plaque, appli>>

-----------------------------------------------------------------------------
Servir(r) ==
  \/ LireRegistre(r) \/ LireArret(r) \/ VerifierJeton(r)
  \/ ConsignerIncident(r) \/ IncrementerEssai(r) \/ VerifierCode(r)
  \/ Rejeter(r) \/ Collecter(r) \/ DeclarerIndisponible(r)

Environnement ==
  ChangerDePorteur \/ CollecterParUnAutre \/ ResoudreAutres \/ ChangerAgrement \/ ExpirerEssais

Appareil ==
  \/ \E a \in Actions : Agir(a)
  \/ \E d \in Drains : Drainer(d)
  \/ EffacerRefus
  \/ \E r \in requetes :
       RecevoirReponse(r) \/ MettreEnFile(r) \/ RetirerDeLaFile(r) \/ ManquerDrain(r)

NextCollecte == Environnement \/ Appareil \/ \E r \in requetes : Servir(r) \/ Echouer(r)

SpecCollecte == InitCollecte /\ [][NextCollecte]_varsCollecte

-----------------------------------------------------------------------------
(* What holds.                                                             *)

\* What is accepted is done, and done by this action: a uuid the registry says
\* collected, like any answer "ok" to a collection, the answer to a replay or to
\* a request its drain no longer awaits included, stands for a stop collected
\* under that uuid, never for a stop somebody else collected (collecter).
CollecteHonoree ==
  \A u \in Uuids :
    \/ registre[u] = "collecte"
    \/ \E r \in requetes : r.action.uuid = u /\ r.action.genre # "indisponible" /\ r.issue = "ok"
    => arret = "collecte" /\ collectePar = u

\* However many copies of a request are at work, a refusal recorded for good has
\* one event and no other does (rejeter_definitif), and a stop collected or tried
\* by the code asks once for a new plate (incident_si_absent).
TraceUnique ==
  /\ \A u \in Uuids : rejets[u] = IF registre[u] \in MotifsDefinitifs THEN 1 ELSE 0
  /\ remplacements = IF incident THEN 1 ELSE 0

\* Three tries per window of the counter, whose key expires thirty minutes after
\* its first try (infra_redis.rs): in all the windows of a stop together, neither
\* replays, nor requests at once, nor a try counted in one window and compared in
\* the next, get one more code compared.  It bounds no stop: the next formula does.
CodeBorne == comparaisons <= EssaisMax * fenetre

\* Three tries per stop, once and for all, as FR-023 has it: what the code does not
\* do, since a counter that expires reopens the tries of the same stop.
TroisEssaisParArret == comparaisons <= EssaisMax

\* Behind a queued action there is money the courier has paid: it leaves the queue
\* applied by the server under its uuid, or as a refusal he can read (FR-086),
\* whichever copy of the request was answered, and never in silence.
Conclue(u) == collectePar = u \/ u \in rejouees \/ u \in refuses
EnFile(u) == \E a \in file : a.uuid = u
SortieFondee == [][\A u \in Uuids : EnFile(u) /\ ~EnFile(u)' => Conclue(u)']_varsCollecte

=============================================================================
