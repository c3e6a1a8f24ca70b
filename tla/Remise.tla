------------------------------- MODULE Remise -------------------------------
(***************************************************************************)
(* The hand-over at the client's door: the courier's application with its  *)
(* offline queue (etat_remise.dart, etat_course.dart), the server's        *)
(* `valider_remise`, and the operators who unblock the code or open the    *)
(* deposit (exploitation.rs).  Requests and replies are lost or late, the  *)
(* application restarts or is reinstalled, the queue sends again until it  *)
(* is answered.  How the order reaches the door is module Commande.        *)
(***************************************************************************)
EXTENDS Naturals, FiniteSets

CONSTANTS
  EssaisMax,      \* commande.essais_code_livraison, a zone parameter
  DemarragesMax,  \* bound: runs of the application
  DeblocagesMax,  \* bound: requests of operators to unblock
  OrphelinesMax,  \* bound: requests at work that nobody awaits any more
  Drains          \* bound: drains of the queue at once (an invalidation of the
                  \* provider starts another one while the first awaits)

ASSUME EssaisMaxAssumption == EssaisMax \in Nat \ {0}
ASSUME DemarragesMaxAssumption == DemarragesMax \in Nat \ {0}
ASSUME DeblocagesMaxAssumption == DeblocagesMax \in Nat
ASSUME OrphelinesMaxAssumption == OrphelinesMax \in Nat
ASSUME DrainsAssumption == Drains # {} /\ Drains \cap {"ecran", "signal", "personne"} = {}

VARIABLES
  livraison,       \* commandes.livraison.etat
  porteur,         \* is livraison.coursier_id still this courier?
  cloture,         \* remise_uuid_client and mode_remise
  essaisCode,      \* commande.essais_code
  codeBloqueLe,    \* commande.code_bloque_le (0 is NULL)
  codeDebloqueLe,  \* commande.code_debloque_le (0 is NULL)
  depotAutorise,   \* commande.depot_autorise
  alertee,         \* remise.code_epuise emitted since a block was last really lifted
  deblocage,       \* stamp of a request to unblock that waits for the row (0: none)
  horloge,         \* Utc::now(), in periods between two requests to unblock
  requetes,        \* hand-over requests on the wire or in the server, and replies
  essaisLocaux,    \* table essais_remise of the application's database
  cache,           \* the course cached by the last GET /courses/active
  bloqueEcran,     \* EtatRemise.bloqueServeur
  uuidRemise,      \* the uuid reserved for the hand-over
  file,            \* pending actions of the offline queue
  refuses,         \* actions the server refused for good, kept as a trace
  confirmee        \* EtatRemise.confirmee, and whether only locally

statut == <<livraison, porteur, cloture>>
essais == <<essaisCode, codeBloqueLe, alertee>>
levees == <<codeDebloqueLe, deblocage>>
appli == <<essaisLocaux, cache, bloqueEcran, uuidRemise, file, refuses, confirmee>>
vars == <<statut, essais, levees, depotAutorise, horloge, requetes, appli>>

Voies == {"qr", "code", "depot"}
Issues == {"sans", "ok", "non_proprietaire", "depot_non_autorise", "code_epuise",
           "remise_incorrecte", "transition_interdite", "erreur_interne"}
\* The stamps of blocks are only ever compared with the stamps of lifts: the
\* clock counts the requests to unblock.  A block stamped in period p is earlier
\* than the lift p, and later than the lift p - 1; 0 is NULL.
Instants == 0..DeblocagesMax + 1

\* Each run of the application reserves one uuid_client for the hand-over (v7:
\* they come in order); the report of a wrong code has a new one, never seen twice.
Uuids == 1..DemarragesMax
Aucun == 0
Neuf == DemarragesMax + 1

\* A hand-over as its payload carries it.
Demandes == [uuid : Uuids \cup {Neuf}, voie : Voies, juste : BOOLEAN, essais : Nat]
\* `par` is who awaits the reply: the screen, the report of a wrong code, a
\* drain of the queue, or nobody any more.
Requetes == [demande : Demandes, par : {"ecran", "signal", "personne"} \cup Drains,
             phase : {"envoyee", "arrivee", "traitee"}, heure : Instants, issue : Issues]

\* No course on the device: before the first GET, or after a 204.
SansCourse == [course |-> FALSE, essais |-> 0, bloque |-> FALSE, depot |-> FALSE]
SansCloture == [uuid |-> Aucun, mode |-> "aucun"]

TypeOK ==
  /\ livraison \in {"en_livraison", "livree", "echouee"}
  /\ porteur \in BOOLEAN
  /\ cloture \in [uuid : Uuids \cup {Neuf, Aucun}, mode : Voies \cup {"aucun"}]
  /\ essaisCode \in Nat
  /\ codeBloqueLe \in Instants /\ codeDebloqueLe \in Instants /\ deblocage \in Instants
  /\ depotAutorise \in BOOLEAN /\ alertee \in BOOLEAN
  /\ horloge \in Instants
  /\ requetes \subseteq Requetes
  /\ essaisLocaux \in Nat
  /\ cache \in [course : BOOLEAN, essais : Nat, bloque : BOOLEAN, depot : BOOLEAN]
  /\ bloqueEcran \in BOOLEAN
  /\ uuidRemise \in Uuids
  /\ file \subseteq Demandes /\ refuses \subseteq [demande : Demandes, motif : Issues]
  /\ confirmee \in {"non", "locale", "serveur"}

Init ==
  /\ livraison = "en_livraison" /\ porteur = TRUE /\ cloture = SansCloture
  /\ essaisCode = 0 /\ codeBloqueLe = 0 /\ alertee = FALSE
  /\ codeDebloqueLe = 0 /\ deblocage = 0
  /\ depotAutorise = FALSE
  /\ horloge = 1
  /\ requetes = {}
  /\ essaisLocaux = 0
  /\ cache = SansCourse /\ bloqueEcran = FALSE
  /\ uuidRemise = 1
  /\ file = {} /\ refuses = {}
  /\ confirmee = "non"

PlusGrand(a, b) == IF a >= b THEN a ELSE b

-----------------------------------------------------------------------------
(* The server: one transaction, both rows locked FOR UPDATE before the     *)
(* read, so each outcome of valider_remise is one step.                    *)

\* The predicate shared by valider_remise, debloquer_code, course_active and
\* remises_bloquees: a lift earlier than the last block does not lift it.
CodeBloque == codeBloqueLe # 0 /\ (codeDebloqueLe = 0 \/ codeDebloqueLe < codeBloqueLe)

\* The tries that count: the greater of the server's and the application's.
Consolides(d) == PlusGrand(essaisCode, d.essais)

BloqueApres(d) == CodeBloque \/ (d.essais > essaisCode /\ d.essais >= EssaisMax)

\* Faulty variant: a block already there is stamped again.
ConsignerEssaisEncore(n, heure) ==
  LET bloqueMaintenant == n > essaisCode /\ n >= EssaisMax IN
  /\ essaisCode' = n
  /\ codeBloqueLe' = IF bloqueMaintenant THEN heure ELSE codeBloqueLe
  /\ alertee' = (alertee \/ bloqueMaintenant)

\* Faulty variant: the threshold is passed before anybody is told.
ConsignerEssaisAuDela(n, heure) ==
  LET bloqueMaintenant == n > essaisCode /\ ~CodeBloque /\ n >= EssaisMax IN
  /\ essaisCode' = n
  /\ codeBloqueLe' = IF bloqueMaintenant THEN heure ELSE codeBloqueLe
  /\ alertee' = (alertee \/ (bloqueMaintenant /\ n > EssaisMax))

\* consigner_essais, called only when the count grew: the counter, and at the
\* threshold the durable block with its alert, unless the code is blocked already.
ConsignerEssais(n, heure) ==
  LET bloqueMaintenant == n > essaisCode /\ ~CodeBloque /\ n >= EssaisMax IN
  /\ essaisCode' = n
  /\ codeBloqueLe' = IF bloqueMaintenant THEN heure ELSE codeBloqueLe
  /\ alertee' = (alertee \/ bloqueMaintenant)

\* The reply goes to whoever still awaits it.
Repondre(r, issue) ==
  requetes' = (requetes \ {r}) \cup
    (IF r.par = "personne" THEN {} ELSE {[r EXCEPT !.phase = "traitee", !.issue = issue]})

\* Ownership is checked first, even before the replay.
RefuserNonProprietaire(r) ==
  /\ ~porteur
  /\ Repondre(r, "non_proprietaire")
  /\ UNCHANGED <<statut, essais>>

\* The same uuid_client again: the current state, and no write.
Rejouer(r) ==
  /\ porteur /\ cloture.uuid = r.demande.uuid
  /\ Repondre(r, "ok")
  /\ UNCHANGED <<statut, essais>>

\* Past the ownership and the replay.
ADecider(r) == porteur /\ cloture.uuid # r.demande.uuid

DepotRefuse(d) == d.voie = "depot" /\ ~depotAutorise

RefuserDepot(r) ==
  /\ ADecider(r) /\ DepotRefuse(r.demande)
  /\ Repondre(r, "depot_non_autorise")
  /\ UNCHANGED <<statut, essais>>

\* Faulty variant: the block closes the three ways (cycle 008).
EpuiserToutesLesVoies(r) ==
  /\ ADecider(r) /\ BloqueApres(r.demande)
  /\ ConsignerEssais(Consolides(r.demande), r.heure)
  /\ Repondre(r, "code_epuise")
  /\ UNCHANGED statut

\* The block closes the code only; the tries that came with it are kept.
EpuiserCode(r) ==
  /\ ADecider(r) /\ r.demande.voie = "code" /\ BloqueApres(r.demande)
  /\ ConsignerEssais(Consolides(r.demande), r.heure)
  /\ Repondre(r, "code_epuise")
  /\ UNCHANGED statut

CompterCodeFaux(r) ==
  LET n == Consolides(r.demande) + 1 IN
  /\ ADecider(r) /\ r.demande.voie = "code" /\ ~r.demande.juste /\ ~BloqueApres(r.demande)
  /\ ConsignerEssais(n, r.heure)
  /\ Repondre(r, IF n >= EssaisMax THEN "code_epuise" ELSE "remise_incorrecte")
  /\ UNCHANGED statut

\* The block protects the code; the token of the QR is not guessed.
PreuveRecevable(d) ==
  /\ d.juste /\ ~DepotRefuse(d) /\ (d.voie = "code" => ~BloqueApres(d))

\* Faulty variant: the uuid is written in a transaction of its own.
CloreEnDeuxTemps(r) ==
  /\ ADecider(r) /\ PreuveRecevable(r.demande)
  /\ livraison' = IF livraison = "en_livraison" THEN "livree" ELSE livraison
  /\ cloture' = [uuid |-> r.demande.uuid, mode |-> r.demande.voie]
  /\ ConsignerEssais(Consolides(r.demande), r.heure)
  /\ Repondre(r, IF livraison = "en_livraison" THEN "ok" ELSE "transition_interdite")
  /\ UNCHANGED porteur

\* Faulty variant: the transition is not checked against the table.
CloreSansGarde(r) ==
  /\ ADecider(r) /\ PreuveRecevable(r.demande)
  /\ livraison' = "livree"
  /\ cloture' = [uuid |-> r.demande.uuid, mode |-> r.demande.voie]
  /\ ConsignerEssais(Consolides(r.demande), r.heure)
  /\ Repondre(r, "ok")
  /\ UNCHANGED porteur

\* cloturer_livraison_prouvee: the uuid, the mode and the transition together.
Clore(r) ==
  /\ ADecider(r) /\ PreuveRecevable(r.demande) /\ livraison = "en_livraison"
  /\ livraison' = "livree"
  /\ cloture' = [uuid |-> r.demande.uuid, mode |-> r.demande.voie]
  /\ ConsignerEssais(Consolides(r.demande), r.heure)
  /\ Repondre(r, "ok")
  /\ UNCHANGED porteur

\* The order ended otherwise: the transition is refused, the transaction falls
\* whole, the merged tries with it.
RefuserTransition(r) ==
  /\ ADecider(r) /\ PreuveRecevable(r.demande) /\ livraison # "en_livraison"
  /\ Repondre(r, "transition_interdite")
  /\ UNCHANGED <<statut, essais>>

\* A statement fails or the transaction is a deadlock's victim: rolled back, 500.
Echouer(r) ==
  /\ Repondre(r, "erreur_interne")
  /\ UNCHANGED <<statut, essais>>

ValiderRemise(r) ==
  /\ r.phase = "arrivee"
  /\ \/ RefuserNonProprietaire(r) \/ Rejouer(r) \/ RefuserDepot(r)
     \/ EpuiserCode(r) \/ CompterCodeFaux(r) \/ Clore(r) \/ RefuserTransition(r) \/ Echouer(r)
  /\ UNCHANGED <<levees, depotAutorise, horloge, appli>>

\* The handler of an operator's request to unblock takes its stamp.
DemanderDeblocage ==
  /\ deblocage = 0 /\ horloge <= DeblocagesMax
  /\ deblocage' = horloge
  /\ horloge' = horloge + 1
  /\ UNCHANGED <<statut, essais, codeDebloqueLe, depotAutorise, requetes, appli>>

\* debloquer_code, once it holds the row: refused when nothing is blocked.
DebloquerCode ==
  /\ deblocage # 0
  /\ deblocage' = 0
  /\ \/ /\ CodeBloque
        /\ codeDebloqueLe' = deblocage
        /\ essaisCode' = 0
        /\ alertee' = (alertee /\ deblocage < codeBloqueLe)
     \/ ~CodeBloque /\ UNCHANGED <<codeDebloqueLe, essaisCode, alertee>>
  /\ UNCHANGED <<statut, codeBloqueLe, depotAutorise, horloge, requetes, appli>>

\* autoriser_depot opens the way or closes it again.
AutoriserDepot ==
  /\ depotAutorise' = ~depotAutorise
  /\ UNCHANGED <<statut, essais, levees, horloge, requetes, appli>>

\* A failure declaration ends the delivery, or the course goes to another
\* courier (declarer_echec, retirer_coursier, assigner_coursier).
PerdreLaCourse ==
  /\ livraison = "en_livraison"
  /\ \/ livraison' = "echouee" /\ UNCHANGED porteur
     \/ porteur' = FALSE /\ UNCHANGED livraison
  /\ UNCHANGED <<cloture, essais, levees, depotAutorise, horloge, requetes, appli>>

-----------------------------------------------------------------------------
(* The network.                                                            *)

\* The handler takes the stamp of the request; the row lock comes later.
Arriver(r) ==
  /\ r.phase = "envoyee"
  /\ requetes' = (requetes \ {r}) \cup {[r EXCEPT !.phase = "arrivee", !.heure = horloge]}
  /\ UNCHANGED <<statut, essais, levees, depotAutorise, horloge, appli>>

Envoi(d, par) ==
  [demande |-> d, par |-> par, phase |-> "envoyee", heure |-> 0, issue |-> "sans"]

Orphelines == {r \in requetes : r.par = "personne"}

\* The application stops waiting for the requests R: a reply is lost; a request
\* is lost too, or goes on to be carried out by the server.
NePlusAttendre(R) ==
  \E suite \in SUBSET {r \in R : r.phase # "traitee"} :
    /\ Cardinality(Orphelines \cup suite) <= OrphelinesMax
    /\ requetes' = (requetes \ R) \cup {[r EXCEPT !.par = "personne"] : r \in suite}

-----------------------------------------------------------------------------
(* The application.                                                        *)

\* codeBloque: the server said so, or no try is left on either count.
SaisieBloquee == bloqueEcran \/ PlusGrand(essaisLocaux, cache.essais) >= EssaisMax

\* The screen of the door is open and awaits nothing (_enCours).
AlaPorte ==
  /\ cache.course /\ confirmee = "non"
  /\ \A r \in requetes : r.par \notin {"ecran", "signal"}

\* confirmer with a code the fingerprint denies: one more local try, reported
\* at once (_signalerCodeFaux) under a new uuid.
DicterCodeFaux ==
  LET n == essaisLocaux + 1
      d == [uuid |-> Neuf, voie |-> "code", juste |-> FALSE, essais |-> n] IN
  /\ AlaPorte /\ ~SaisieBloquee
  /\ essaisLocaux' = n
 
  /\ requetes' = requetes \cup {Envoi(d, "signal")}
  /\ UNCHANGED <<statut, essais, levees, depotAutorise, horloge,
                 cache, bloqueEcran, uuidRemise, file, refuses, confirmee>>

\* confirmer with a proof the device accepts (a wrong QR never leaves it).
Confirmer(voie) ==
  LET d == [uuid |-> uuidRemise, voie |-> voie, juste |-> TRUE, essais |-> essaisLocaux] IN
  /\ AlaPorte
  /\ voie = "code" => ~SaisieBloquee
  /\ voie = "depot" => cache.depot
  /\ requetes' = requetes \cup {Envoi(d, "ecran")}
  /\ UNCHANGED <<statut, essais, levees, depotAutorise, horloge, appli>>

\* The reply to the screen or to the report of a wrong code.
RecevoirReponse(r) ==
  /\ r.phase = "traitee" /\ r.par \in {"ecran", "signal"}
  /\ requetes' = requetes \ {r}
  /\ \/ /\ r.par = "ecran" /\ r.issue = "ok"
        /\ confirmee' = "serveur"
        /\ essaisLocaux' = 0
        /\ UNCHANGED bloqueEcran
     \/ /\ r.issue # "ok"
        /\ bloqueEcran' = (bloqueEcran \/ r.issue = "code_epuise")
        /\ UNCHANGED <<confirmee, essaisLocaux>>
  /\ UNCHANGED <<statut, essais, levees, depotAutorise, horloge,
                 cache, uuidRemise, file, refuses>>

\* A wrong code reported without network counts on the device only.
PerdreSignal(r) ==
  /\ r.par = "signal"
  /\ NePlusAttendre({r})
  /\ UNCHANGED <<statut, essais, levees, depotAutorise, horloge, appli>>

\* A row of the queue, pending or refused, has this uuid for its key.
EnTable(uuid) == \E d \in file \cup {x.demande : x \in refuses} : d.uuid = uuid

\* No answer: the proof was checked on the device, the action joins the queue
\* under the same uuid and the courier may leave.
MettreEnFile(r) ==
  /\ r.par = "ecran"
  /\ NePlusAttendre({r})
  /\ file' = IF EnTable(r.demande.uuid) THEN file ELSE file \cup {r.demande}
  /\ confirmee' = "locale"
  /\ UNCHANGED <<statut, essais, levees, depotAutorise, horloge,
                 essaisLocaux, cache, bloqueEcran, uuidRemise, refuses>>

\* _drainerFile sends the oldest pending action and awaits.
Drainer(d, drain) ==
  /\ \A e \in file : d.uuid <= e.uuid
  /\ \A r \in requetes : r.par # drain
  /\ requetes' = requetes \cup {Envoi(d, drain)}
  /\ UNCHANGED <<statut, essais, levees, depotAutorise, horloge, appli>>

\* Faulty variant: what the server refused stays pending.
RetirerDeLaFileSiAccepte(r) ==
  /\ r.phase = "traitee" /\ r.par \in Drains
  /\ requetes' = requetes \ {r}
  /\ file' = {d \in file : r.issue = "ok" => d.uuid # r.demande.uuid}
  /\ UNCHANGED <<statut, essais, levees, depotAutorise, horloge,
                 essaisLocaux, cache, bloqueEcran, uuidRemise, refuses, confirmee>>

\* Accepted, the row is deleted; refused, it becomes a trace the courier can
\* read (marquerRefusDefinitif), unless another drain has deleted it.
RetirerDeLaFile(r) ==
  LET autres == {x \in refuses : x.demande.uuid # r.demande.uuid} IN
  /\ r.phase = "traitee" /\ r.par \in Drains
  /\ requetes' = requetes \ {r}
  /\ file' = {d \in file : d.uuid # r.demande.uuid}
  /\ refuses' = IF r.issue = "ok" \/ ~EnTable(r.demande.uuid) THEN autres
                ELSE autres \cup {[demande |-> r.demande, motif |-> r.issue]}
  /\ UNCHANGED <<statut, essais, levees, depotAutorise, horloge,
                 essaisLocaux, cache, bloqueEcran, uuidRemise, confirmee>>

\* marquerEchec: no answer, the action stays pending for the next drain.
ManquerDrain(r) ==
  /\ r.par \in Drains
  /\ NePlusAttendre({r})
  /\ UNCHANGED <<statut, essais, levees, depotAutorise, horloge, appli>>

\* GET /courses/active, then charger: the server's counts, the local one kept.
\* Without an active course the device forgets it, local tries included.
Recharger ==
  /\ IF porteur /\ livraison = "en_livraison"
     THEN /\ cache' = [course |-> TRUE, essais |-> essaisCode,
                       bloque |-> CodeBloque, depot |-> depotAutorise]
          /\ bloqueEcran' = CodeBloque
          /\ UNCHANGED essaisLocaux
     ELSE cache' = SansCourse /\ bloqueEcran' = FALSE /\ essaisLocaux' = 0
  /\ UNCHANGED <<statut, essais, levees, depotAutorise, horloge, requetes,
                 uuidRemise, file, refuses, confirmee>>

\* A run of the application awaits nothing of the previous one and reserves
\* another uuid; the database survives a restart, not a reinstallation.
Quitter ==
  /\ uuidRemise < DemarragesMax
  /\ uuidRemise' = uuidRemise + 1
  /\ NePlusAttendre(requetes \ Orphelines)
  /\ UNCHANGED <<statut, essais, levees, depotAutorise, horloge>>

Redemarrer ==
  /\ Quitter
  /\ bloqueEcran' = cache.bloque
  /\ confirmee' = IF confirmee = "serveur" THEN "non" ELSE confirmee
  /\ UNCHANGED <<essaisLocaux, cache, file, refuses>>

Reinstaller ==
  /\ Quitter
  /\ essaisLocaux' = 0 /\ cache' = SansCourse /\ bloqueEcran' = FALSE
  /\ file' = {} /\ refuses' = {}
  /\ confirmee' = "non"

-----------------------------------------------------------------------------
Exploitation == DemanderDeblocage \/ DebloquerCode \/ AutoriserDepot \/ PerdreLaCourse
Porte ==
  \/ DicterCodeFaux \/ (\E v \in Voies : Confirmer(v)) \/ Recharger
  \/ Redemarrer \/ Reinstaller
Reseau ==
  \/ \E r \in requetes :
        Arriver(r) \/ ValiderRemise(r) \/ RecevoirReponse(r) \/ PerdreSignal(r)
        \/ MettreEnFile(r) \/ RetirerDeLaFile(r) \/ ManquerDrain(r)
  \/ \E d \in file, drain \in Drains : Drainer(d, drain)

Next == Exploitation \/ Porte \/ Reseau

\* The application restarts finitely often (DemarragesMax).  The drain is rearmed
\* by its timer as long as something is pending; the server answers what reached
\* it; and the network, however often it fails, does not fail for ever.
Fairness ==
  /\ WF_vars(\E d \in file, drain \in Drains : Drainer(d, drain))
  /\ SF_vars(\E r \in requetes : r.par \in Drains /\ Arriver(r))
  /\ SF_vars(\E r \in requetes : r.par \in Drains /\ ValiderRemise(r))
  /\ SF_vars(\E r \in requetes : RetirerDeLaFile(r))

Spec == Init /\ [][Next]_vars /\ Fairness

-----------------------------------------------------------------------------
(* What holds.                                                             *)

\* What the courier was told is over is over: a confirmation by the server, the
\* first answer or the answer to a replay, stands for a closed delivery.  The
\* uuid is written with the transition or not at all (valider_remise).
AccuseFonde == confirmee = "serveur" => livraison = "livree"

\* A right QR token refused by the rules: only when the delivery is no longer
\* this courier's to close.
RefusLicite(demande, motif) ==
  demande.voie = "qr" /\ motif \notin {"sans", "ok", "erreur_interne"}
    => livraison # "en_livraison" \/ ~porteur

\* The scan is the way out: whatever the tries, the block and the deposit flag,
\* the rules refuse a right QR token only when the delivery is no longer this
\* courier's to close (FR-043), live or from the queue.
QrJamaisRefuse ==
  /\ \A x \in refuses : RefusLicite(x.demande, x.motif)
  /\ \A r \in requetes : RefusLicite(r.demande, r.issue)

\* The alert leaves with the lock: no code is blocked, and no threshold passed,
\* without remise.code_epuise since the last real unblocking (consigner_essais).
VerrouAlerte == CodeBloque \/ essaisCode >= EssaisMax => alertee

\* A delivered order stays delivered once, by the first proof: no replay, late
\* request or second run of the application closes it again or rewrites it.
RemiseUneFois ==
  [][livraison # "en_livraison" => UNCHANGED <<livraison, cloture>>]_vars

\* Only an operator lifts a block: no late request rewrites its stamp to an
\* instant that precedes an earlier lift.
BlocageDurable == [][CodeBloque /\ ~CodeBloque' => codeDebloqueLe' # codeDebloqueLe]_vars

\* What was validated without network is answered in the end, and leaves the queue.
FileVidee == file # {} ~> file = {}

-----------------------------------------------------------------------------
(* The inductive invariant behind them.                                    *)

\* The recorded uuid, like any answer that accepts, stands for a closed delivery.
ClotureFondee == cloture.uuid # Aucun => livraison = "livree"
AccusesFondes == \A r \in requetes : r.issue = "ok" => livraison = "livree"

IInv ==
  /\ TypeOK
  /\ ClotureFondee
  /\ AccusesFondes
  /\ AccuseFonde
  /\ QrJamaisRefuse
  /\ VerrouAlerte

=============================================================================
