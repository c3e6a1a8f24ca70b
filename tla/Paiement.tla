------------------------------ MODULE Paiement ------------------------------
(***************************************************************************)
(* The prepayment of one order (crate `paiements`): openings of payment    *)
(* sessions that race, notifications of the provider lost, repeated or     *)
(* late, the sweep of the lapsed sessions that first asks the provider,    *)
(* and the second commit, in the order's own transaction, that a crash or  *)
(* a refusal may keep from happening.                                      *)
(*                                                                         *)
(* A session is named by the request that would insert it, numbered in the *)
(* order in which the requests read the clock: the last session is the     *)
(* greatest one.  A step is one database transaction, one read on the pool *)
(* or one call to the provider.                                            *)
(***************************************************************************)
EXTENDS EtatsCommande, FiniteSets, Integers

CONSTANTS
  NbSessions,  \* bound on the requests that open a session
  Charges,     \* distinct bodies the provider may send for one outcome
  ArretsMax    \* bound on the crashes of the process

ASSUME NbSessionsAssumption == NbSessions \in Nat
ASSUME ArretsMaxAssumption == ArretsMax \in Nat

Sessions == 1..NbSessions

EtatsTransaction == {"ouverte", "reglee", "echouee", "expiree", "payee_hors_delai"}

\* A success that announces another amount or another currency is "divergent".
\* An "en_cours" has no effect beyond its own trace and is left out.
Notifications ==
  [session : Sessions, issue : {"reussi", "divergent", "echoue"}, charge : Charges]

\* Where an opening stands; "rendue" has an answer with a session.
PhasesRequete == {"repos", "commande_lue", "a_ouvrir", "marquee", "rendue", "refusee",
                  "interrompue"}
\* What a cancellation at work has read of the payment; "depassee" remembers
\* that the order was confirmed after it had been read unpaid.
Lectures == {"a_rembourser", "sans_remboursement", "depassee"}
EtapesBalayage == {"a_consulter", "payee", "impayee", "a_confirmer", "a_annuler"} \cup Lectures
Passages == [session : Sessions, etape : EtapesBalayage]
Repos == [session |-> 0, etape |-> "repos"]

TypesDossier == {"divergence", "paiement_hors_delai"}

VARIABLES
  mode, etat, paiement,  \* the order's row: payment mode, trunk, state of payment
  session,     \* the sessions' rows ("absente" before the insertion)
  echues,      \* sessions past their deadline
  recues,      \* the table of the notifications received
  dossiers,    \* the anomalies opened: <<type, session>>
  remboursement, \* commande.annulee with a refund due: in the outbox, then a file;
                 \* "omis" when the cancellation read before the confirmation
  requete,     \* the openings in flight
  aConfirmer,  \* handlers that have settled a session and confirm the order next
  annulation,  \* the client's or the administrator's cancellation at work
  balayage,    \* the session the sweep is at
  encaisse,    \* the provider's side: the sessions it has collected
  arrets       \* crashes so far

commande == <<mode, etat, paiement, remboursement>>
table == <<session, recues, dossiers>>
memoire == <<requete, aConfirmer, annulation, balayage>>
dehors == <<echues, encaisse, arrets>>
vars == <<commande, table, memoire, dehors>>

TypeOK ==
  /\ mode \in ModesPaiement /\ paiement \in EtatsPaiement
  /\ etat \in {"nouvelle", "en_attente_paiement", "en_cours", "annulee"}
  /\ remboursement \in {"aucun", "annonce", "vu", "omis"}
  /\ session \in [Sessions -> EtatsTransaction \cup {"absente"}]
  /\ echues \subseteq Sessions /\ encaisse \subseteq Sessions
  /\ recues \subseteq Notifications
  /\ dossiers \subseteq TypesDossier \X Sessions
  /\ requete \in [Sessions -> PhasesRequete]
  /\ aConfirmer \subseteq Sessions
  /\ annulation \in Lectures \cup {"aucune"}
  /\ balayage \in Passages \cup {Repos}
  /\ arrets \in 0..ArretsMax

\* A prepaid order waits for its payment from its creation; a cash order may
\* be made to wait later, by the dispatch.
Init ==
  /\ \/ mode = "mobile_money" /\ etat = "en_attente_paiement" /\ paiement = "en_attente"
     \/ mode = "cash" /\ etat = "nouvelle" /\ paiement = "du"
  /\ remboursement = "aucun"
  /\ session = [s \in Sessions |-> "absente"]
  /\ recues = {} /\ dossiers = {}
  /\ requete = [s \in Sessions |-> "repos"]
  /\ aConfirmer = {} /\ annulation = "aucune" /\ balayage = Repos
  /\ echues = {} /\ encaisse = {} /\ arrets = 0

-----------------------------------------------------------------------------
(* The closed table of the session, and what "live" means to the code.     *)

Transitions == {<<"ouverte", "reglee">>, <<"ouverte", "echouee">>, <<"ouverte", "expiree">>,
                <<"echouee", "reglee">>, <<"echouee", "echouee">>, <<"echouee", "expiree">>,
                <<"expiree", "payee_hors_delai">>}

TransitionExiste(depuis, vers) == <<depuis, vers>> \in Transitions

\* Faulty variant: the state read at the selection is trusted.
TransitionSansGarde(depuis, vers) == depuis # vers

\* verifier_transition
TransitionPermise(depuis, vers) == TransitionExiste(depuis, vers)

AcceptePaiement(s) == session[s] \in {"ouverte", "echouee"}
Existe(s) == session[s] # "absente"

\* transaction_vivante: the row the partial unique index keeps single.
Vivantes == {s \in Sessions : session[s] = "ouverte"}

\* derniere_transaction closes the door to a reopening.
DerniereClose ==
  \E s \in Sessions : /\ session[s] \in {"expiree", "payee_hors_delai"}
                      /\ \A t \in Sessions : Existe(t) => t <= s

AttendUnPaiement == mode = "mobile_money" /\ etat = "en_attente_paiement" /\ paiement # "regle"

-----------------------------------------------------------------------------
(* Opening a session.                                                       *)

Avancer(a, de, vers) == requete[a] = de /\ requete' = [requete EXCEPT ![a] = vers]

LireCommande(a) ==
  /\ Avancer(a, "repos", IF AttendUnPaiement THEN "commande_lue" ELSE "refusee")
  /\ UNCHANGED <<commande, table, aConfirmer, annulation, balayage, dehors>>

\* The clock is read here; the live session is then returned as it is, unless
\* it has lapsed.
LireSessions(a) ==
  /\ \A b \in 1..(a - 1) : requete[b] \notin {"repos", "commande_lue"}
  /\ Avancer(a, "commande_lue",
             IF Vivantes # {}
             THEN IF Vivantes \cap echues # {} THEN "refusee" ELSE "rendue"
             ELSE IF DerniereClose THEN "refusee" ELSE "a_ouvrir")
  /\ UNCHANGED <<commande, table, aConfirmer, annulation, balayage, dehors>>

MarquerPaiementEnAttente(a) ==
  /\ Avancer(a, "a_ouvrir", "marquee")
  /\ paiement' = IF paiement = "du" THEN "en_attente" ELSE paiement
  /\ UNCHANGED <<mode, etat, remboursement, table, aConfirmer, annulation, balayage, dehors>>

\* create_checkout fails: nothing was inserted.
CheckoutRefuse(a) ==
  /\ Avancer(a, "marquee", "refusee")
  /\ UNCHANGED <<commande, table, aConfirmer, annulation, balayage, dehors>>

\* The index decides between two openings; the loser answers with the session
\* of the winner.
InsererSession(a) ==
  /\ Avancer(a, "marquee", "rendue")
  /\ session' = IF Vivantes # {} THEN session ELSE [session EXCEPT ![a] = "ouverte"]
  /\ UNCHANGED <<commande, recues, dossiers, aConfirmer, annulation, balayage, dehors>>

-----------------------------------------------------------------------------
(* Notifications: one transaction under the lock of the session's row.     *)

\* The unique triple: a notification already seen has no effect.
EnregistrerNotification(n) == n \notin recues /\ recues' = recues \cup {n}

Devenir(s, vers) == session' = [session EXCEPT ![s] = vers]

NotifierDivergence(n) ==
  /\ n.issue = "divergent" /\ Existe(n.session)
  /\ EnregistrerNotification(n)
  /\ dossiers' = dossiers \cup {<<"divergence", n.session>>}
  /\ UNCHANGED <<commande, session, memoire, dehors>>

\* The operator refuses or the payer gives up: the session lives on.
NotifierEchec(n) ==
  /\ n.issue = "echoue" /\ Existe(n.session)
  /\ EnregistrerNotification(n)
  /\ IF TransitionPermise(session[n.session], "echouee")
     THEN Devenir(n.session, "echouee")
     ELSE UNCHANGED session
  /\ UNCHANGED <<commande, dossiers, memoire, dehors>>

HorsDelai(s) ==
  /\ Devenir(s, "payee_hors_delai")
  /\ dossiers' = dossiers \cup {<<"paiement_hors_delai", s>>}

\* Faulty variant: a success on a session that has lapsed is ignored.
NotifierSuccesEnCours(n) ==
  /\ n.issue = "reussi" /\ n.session \in encaisse
  /\ EnregistrerNotification(n)
  /\ IF TransitionPermise(session[n.session], "reglee")
     THEN Devenir(n.session, "reglee") /\ aConfirmer' = aConfirmer \cup {n.session}
     ELSE UNCHANGED <<session, aConfirmer>>
  /\ UNCHANGED <<commande, dossiers, requete, annulation, balayage, dehors>>

\* A success: late on a lapsed session, nominal when the table allows it,
\* without effect otherwise.
NotifierSucces(n) ==
  /\ n.issue = "reussi" /\ n.session \in encaisse
  /\ EnregistrerNotification(n)
  /\ \/ /\ session[n.session] = "expiree"
        /\ HorsDelai(n.session)
        /\ UNCHANGED aConfirmer
     \/ /\ TransitionPermise(session[n.session], "reglee")
        /\ Devenir(n.session, "reglee")
        /\ aConfirmer' = aConfirmer \cup {n.session}
        /\ UNCHANGED dossiers
     \/ /\ session[n.session] # "expiree"
        /\ ~TransitionPermise(session[n.session], "reglee")
        /\ UNCHANGED <<session, dossiers, aConfirmer>>
  /\ UNCHANGED <<commande, requete, annulation, balayage, dehors>>

Confirmable == VerifierTransition(TableTronc, etat, "nouvelle", "systeme")

\* Faulty variant: the trunk moves and the payment is forgotten.
AppliquerTroncSeul ==
  IF Confirmable
  THEN etat' = "nouvelle" /\ UNCHANGED paiement
  ELSE UNCHANGED <<etat, paiement>>

\* confirmer_prepaiement; its refusal is only written to the log.
AppliquerConfirmation ==
  IF Confirmable
  THEN etat' = "nouvelle" /\ paiement' = "regle"
  ELSE UNCHANGED <<etat, paiement>>

\* What a confirmation makes of the read of a cancellation at work.
Depassee(lu) == IF Confirmable /\ lu = "sans_remboursement" THEN "depassee" ELSE lu

Passer(s, etape) == balayage' = [session |-> s, etape |-> etape]

\* The second commit of a notification.
ConfirmerLaCommande(s) ==
  /\ s \in aConfirmer /\ aConfirmer' = aConfirmer \ {s}
  /\ AppliquerConfirmation
  /\ annulation' = Depassee(annulation)
  /\ Passer(balayage.session, Depassee(balayage.etape))
  /\ UNCHANGED <<mode, remboursement, table, requete, dehors>>

-----------------------------------------------------------------------------
(* The sweep: one session at a time, the oldest first.                     *)

ALEtape(s, etape) == balayage = [session |-> s, etape |-> etape]

Relacher == balayage' = Repos

\* sessions_echues selects the sessions still `ouverte`.
ChoisirSession(s) ==
  /\ balayage = Repos /\ session[s] = "ouverte" /\ s \in echues
  /\ Passer(s, "a_consulter")
  /\ UNCHANGED <<commande, table, requete, aConfirmer, annulation, dehors>>

\* Faulty variant: whatever is not a success is put off to the next pass.
ConsulterSansConclure(s) ==
  /\ ALEtape(s, "a_consulter")
  /\ IF s \in encaisse THEN Passer(s, "payee") ELSE Relacher
  /\ UNCHANGED <<commande, table, requete, aConfirmer, annulation, dehors>>

\* The settings are refused unless the window of the consultation fits in the
\* life of a session, and the reference is stored at the insertion: a lapsed
\* session is always asked about.
ConsulterFournisseur(s) ==
  /\ ALEtape(s, "a_consulter")
  /\ Passer(s, IF s \in encaisse THEN "payee" ELSE "impayee")
  /\ UNCHANGED <<commande, table, requete, aConfirmer, annulation, dehors>>

\* Unreachable provider or unreadable configuration: the session waits for the
\* next pass.
FournisseurInjoignable(s) ==
  /\ ALEtape(s, "a_consulter")
  /\ Relacher
  /\ UNCHANGED <<commande, table, requete, aConfirmer, annulation, dehors>>

Rattraper(s) ==
  /\ ALEtape(s, "payee")
  /\ IF TransitionPermise(session[s], "reglee")
     THEN Devenir(s, "reglee") /\ Passer(s, "a_confirmer")
     ELSE UNCHANGED session /\ Relacher
  /\ UNCHANGED <<commande, recues, dossiers, requete, aConfirmer, annulation, dehors>>

ConfirmerRattrapage(s) ==
  /\ ALEtape(s, "a_confirmer") /\ Relacher
  /\ AppliquerConfirmation
  /\ annulation' = Depassee(annulation)
  /\ UNCHANGED <<mode, remboursement, table, requete, aConfirmer, dehors>>

\* Under the lock, the closed table has the last word.
Expirer(s) ==
  /\ ALEtape(s, "impayee")
  /\ IF TransitionPermise(session[s], "expiree")
     THEN Devenir(s, "expiree") /\ Passer(s, "a_annuler")
     ELSE UNCHANGED session /\ Relacher
  /\ UNCHANGED <<commande, recues, dossiers, requete, aConfirmer, annulation, dehors>>

\* annuler_commande, whoever asks, first reads the payment, without a lock.
Lecture == IF paiement = "regle" THEN "a_rembourser" ELSE "sans_remboursement"

\* Then, the trunk's row being locked, what was read decides of the refund; the
\* event that announces it leaves with the cancellation.
AppliquerAnnulation(lu) ==
  /\ etat' = "annulee"
  /\ paiement' = IF lu = "a_rembourser" THEN "rembourse" ELSE paiement
  /\ remboursement' = CASE lu = "a_rembourser" -> "annonce"
                         [] lu = "depassee" -> "omis"
                         [] OTHER -> remboursement

\* The transition refused, the transaction is rolled back.
ConclureAnnulation(lu, par) ==
  IF VerifierTransition(TableTronc, etat, "annulee", par)
  THEN AppliquerAnnulation(lu)
  ELSE UNCHANGED <<etat, paiement, remboursement>>

LirePourExpiration(s) ==
  /\ ALEtape(s, "a_annuler")
  /\ Passer(s, Lecture)
  /\ UNCHANGED <<commande, table, requete, aConfirmer, annulation, dehors>>

AnnulerPourExpiration(s) ==
  /\ \E lu \in Lectures : ALEtape(s, lu) /\ ConclureAnnulation(lu, "systeme")
  /\ Relacher
  /\ UNCHANGED <<mode, table, requete, aConfirmer, annulation, dehors>>

\* The outbox consumer opens the file of the refund; a replay opens nothing.
ConsommerAnnulation ==
  /\ remboursement = "annonce" /\ remboursement' = "vu"
  /\ UNCHANGED <<mode, etat, paiement, table, memoire, dehors>>

-----------------------------------------------------------------------------
(* Around the domain: the order's other writers, the payer, time, crashes. *)

ExigerPrepaiement ==
  /\ VerifierTransition(TableTronc, etat, "en_attente_paiement", "systeme")
  /\ etat' = "en_attente_paiement" /\ mode' = "mobile_money"
  /\ UNCHANGED <<paiement, remboursement, table, memoire, dehors>>

AssignerCoursier ==
  /\ VerifierTransition(TableTronc, etat, "en_cours", "systeme")
  /\ etat' = "en_cours"
  /\ UNCHANGED <<mode, paiement, remboursement, table, memoire, dehors>>

\* One cancellation of the client or the administrator is at work at a time: of
\* two, the second write is refused, whatever it has read.
LirePourAnnulation ==
  /\ annulation = "aucune" /\ annulation' = Lecture
  /\ UNCHANGED <<commande, table, requete, aConfirmer, balayage, dehors>>

AnnulerCommande(par) ==
  /\ annulation # "aucune" /\ annulation' = "aucune"
  /\ ConclureAnnulation(annulation, par)
  /\ UNCHANGED <<mode, table, requete, aConfirmer, balayage, dehors>>

\* The payer holds the page of a session he was given, lapsed or not.
Payer(s) ==
  /\ Existe(s) /\ s \notin encaisse
  /\ encaisse' = encaisse \cup {s}
  /\ UNCHANGED <<commande, table, memoire, echues, arrets>>

FranchirEcheance(s) ==
  /\ AcceptePaiement(s) /\ s \notin echues
  /\ echues' = echues \cup {s}
  /\ UNCHANGED <<commande, table, memoire, encaisse, arrets>>

\* The process dies: what it had in hand is lost, the rows stay.
Arreter ==
  /\ arrets < ArretsMax /\ arrets' = arrets + 1
  /\ requete' = [a \in Sessions |-> IF requete[a] \in {"commande_lue", "a_ouvrir", "marquee"}
                                    THEN "interrompue" ELSE requete[a]]
  /\ aConfirmer' = {} /\ annulation' = "aucune" /\ Relacher
  /\ UNCHANGED <<commande, table, echues, encaisse>>

-----------------------------------------------------------------------------
Ouvrir(a) == \/ LireCommande(a) \/ LireSessions(a) \/ MarquerPaiementEnAttente(a)
             \/ CheckoutRefuse(a) \/ InsererSession(a)
Notifier(n) == NotifierDivergence(n) \/ NotifierEchec(n) \/ NotifierSucces(n)
Balayer(s) == \/ ChoisirSession(s) \/ ConsulterFournisseur(s) \/ FournisseurInjoignable(s)
              \/ Rattraper(s) \/ ConfirmerRattrapage(s) \/ Expirer(s)
              \/ LirePourExpiration(s) \/ AnnulerPourExpiration(s)
Entourer == \/ ExigerPrepaiement \/ AssignerCoursier \/ Arreter
            \/ LirePourAnnulation \/ \E par \in {"client", "admin"} : AnnulerCommande(par)

Next ==
  \/ \E s \in Sessions : Ouvrir(s) \/ Balayer(s) \/ ConfirmerLaCommande(s) \/ Payer(s)
                         \/ FranchirEcheance(s)
  \/ \E n \in Notifications : Notifier(n)
  \/ ConsommerAnnulation
  \/ Entourer

\* The sweep runs every ten seconds and the provider answers it now and then;
\* the provider repeats a success until it is received; the outbox is retried.
Fairness ==
  /\ \A s \in Sessions :
       /\ WF_vars(ChoisirSession(s)) /\ SF_vars(ConsulterFournisseur(s))
       /\ WF_vars(Rattraper(s)) /\ WF_vars(ConfirmerRattrapage(s))
       /\ WF_vars(Expirer(s)) /\ WF_vars(LirePourExpiration(s)) /\ WF_vars(AnnulerPourExpiration(s))
       /\ WF_vars(\E n \in Notifications : n.session = s /\ NotifierSucces(n))
  /\ WF_vars(ConsommerAnnulation)

Spec == Init /\ [][Next]_vars /\ Fairness

-----------------------------------------------------------------------------
(* What holds.                                                              *)

EnConfirmation(s) == s \in aConfirmer \/ ALEtape(s, "a_confirmer")

\* Money the provider has settled never disappears from sight between the two
\* commits: the order is paid for, or a process is about to say so, or the
\* order still waits and can be confirmed by hand, or it is cancelled and the
\* register shows the session as orphan.  Nothing leaves for the dispatch
\* unpaid, and what was refunded had been paid.  A paid order is cancelled with
\* its refund, save where the confirmation came between the read of the
\* cancellation and its write.
EncaissementVisible ==
  /\ \A s \in Sessions : session[s] = "reglee" =>
       \/ paiement \in {"regle", "rembourse"}
       \/ EnConfirmation(s)
       \/ etat \in {"en_attente_paiement", "annulee"}
  /\ mode = "mobile_money" /\ etat \in {"nouvelle", "en_cours"} => paiement = "regle"
  /\ remboursement \in {"annonce", "vu"} <=> paiement = "rembourse"
  /\ etat = "annulee" /\ paiement = "regle" => remboursement = "omis"

\* A session still open past its deadline is settled or closed in the end, unless
\* the operator refuses it, whatever crashes and however long the provider stays
\* out of reach, as long as it answers at times.  Once refused it is the sweep's
\* no more: see SessionsFinies.
SessionsConclues ==
  \A s \in Sessions :
    (session[s] = "ouverte" /\ s \in echues) ~> (~AcceptePaiement(s) \/ session[s] = "echouee")

\* What the comment of the closed table says, "La session refusée finit par expirer
\* comme les autres" (modele.rs): a session past its deadline, refused or not, no
\* longer accepts a payment in the end.  It does not hold: the sweep selects the
\* sessions `ouverte` alone.
SessionsFinies ==
  \A s \in Sessions : (AcceptePaiement(s) /\ s \in echues) ~> ~AcceptePaiement(s)

\* What the provider has collected ends settled, or late with a file open; and an
\* order written refunded ends with the file of its refund.
ArgentReconnu ==
  /\ \A s \in Sessions : s \in encaisse ~> session[s] \in {"reglee", "payee_hors_delai"}
  /\ paiement = "rembourse" ~> remboursement = "vu"

\* The fate of each session and of the order as their payment sees them.
Sort(s) == CASE session[s] = "absente" -> "aucune"
             [] AcceptePaiement(s) -> "payable"
             [] session[s] = "reglee" -> "encaissee"
             [] session[s] = "expiree" -> "close"
             [] OTHER -> "tardive"

Ordre == CASE etat = "annulee" -> "annulee"
           [] etat = "en_attente_paiement" -> "attend"
           [] OTHER -> IF mode = "cash" THEN "libre" ELSE "confirmee"

Ideal == INSTANCE EncaissementIdeal
  WITH sort <- [s \in Sessions |-> Sort(s)],
       ordre <- Ordre,
       tardives <- {s \in Sessions : <<"paiement_hors_delai", s>> \in dossiers}

\* The requests, the notifications, the sweep and the crashes implement the
\* promise about the money: a settled session never lapses, a closed one never
\* confirms an order, late money always leaves a file.
TientLaPromesse == Ideal!Spec

=============================================================================
