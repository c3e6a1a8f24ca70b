------------------------------ MODULE Session ------------------------------
(***************************************************************************)
(* The renewal of a session's tokens, from the application that shares one *)
(* renewal between all its refused requests (mefali_core, clients.dart,    *)
(* session.dart, stockage_jetons.dart) to the server that turns the opaque *)
(* token at each use and takes a token that comes back for a theft         *)
(* (comptes, session.rs), with the network, the revocation asked from      *)
(* another device, and the application killed between two writes.          *)
(*                                                                         *)
(* A token is <<session, rank>>: the server's row holds the current rank,  *)
(* and the previous one is the rank before.  An access token is the        *)
(* session it names, since it may expire at any time.  A step of the       *)
(* application is what it runs without waiting; a step of the server is    *)
(* one transaction.                                                        *)
(***************************************************************************)
EXTENDS FiniteSets, Integers

CONSTANTS
  Requetes,     \* requests of the application in flight together
  Personne,     \* no request
  SessionsMax,  \* bound on the sessions opened from the device
  RangMax,      \* bound on the rotations of one session
  ArretsMax     \* bound on the restarts of the application

ASSUME PersonneAssumption == Personne \notin Requetes
\* A session opens at rank 1.
ASSUME BornesAssumption == SessionsMax \in Nat /\ RangMax \in Nat \ {0} /\ ArretsMax \in Nat

Sessions == 1..SessionsMax
Jetons == Sessions \X (1..RangMax)
Aucun == <<0, 0>>
Paire(t) == [acces |-> t[1], refresh |-> t]
Vide == Paire(Aucun)

\* The user signs in and out; requests write and erase tokens as well.
Usager == "usager"
Acteurs == Requetes \cup {Usager}
Inactif == [geste |-> "repos", jeton |-> Aucun]
GestesDisque == {"ecrire_acces", "ecrire_refresh", "effacer_acces", "effacer_refresh"}

VARIABLES
  rang, revocation,  \* comptes.session: 0 when absent; who revoked it
  memoire, stockage, \* the pair the application uses, the pair on the device
  requete,           \* each request: where it is, the access token it bears
  suit,              \* the renewal it waits for, by the request that started it
  renouvellement,    \* the renewals: where they are, the token they present or got
  enCours,           \* the shared renewal (_enCours)
  disque,            \* the writes and erasures under way
  connexion,         \* the session opened whose answer is on its way
  orphelins,         \* tokens presented by a request that nobody awaits any more
  rechargees,        \* sessions reloaded with a token that had been presented
  arrets             \* restarts so far

serveur == <<rang, revocation>>
appareil == <<memoire, disque>>
file == <<requete, suit, renouvellement, enCours>>
varsSession == <<serveur, appareil, stockage, file, connexion, orphelins, rechargees, arrets>>

TypesSession ==
  /\ rang \in [Sessions -> 0..RangMax]
  /\ revocation \in [Sessions -> {"non", "a_distance", "reutilisation"}]
  /\ orphelins \subseteq Jetons
  /\ {memoire, stockage} \subseteq [acces : 0..SessionsMax, refresh : Jetons \cup {Aucun}]
  /\ requete \in [Requetes -> [phase : {"repos", "envoyee", "refusee", "attente", "rejouee",
                                        "fermeture"},
                               acces : 0..SessionsMax]]
  /\ suit \in [Requetes -> Requetes \cup {Personne}]
  /\ renouvellement \in [Requetes -> [phase : {"repos", "parti", "tourne", "refuse", "ecrit"},
                                      jeton : Jetons \cup {Aucun}]]
  /\ enCours \in Requetes \cup {Personne}
  /\ disque \in [Acteurs -> [geste : GestesDisque \cup {"repos"}, jeton : Jetons \cup {Aucun}]]
  /\ connexion \in 0..SessionsMax
  /\ rechargees \subseteq Sessions
  /\ arrets \in 0..ArretsMax

\* Only a request on its way bears a token that matters.
En(phase) == [phase |-> phase, acces |-> 0]
SansRenouvellement == [phase |-> "repos", jeton |-> Aucun]

InitSession ==
  /\ rang = [s \in Sessions |-> 0] /\ revocation = [s \in Sessions |-> "non"]
  /\ memoire = Vide /\ stockage = Vide
  /\ requete = [r \in Requetes |-> En("repos")]
  /\ suit = [r \in Requetes |-> Personne]
  /\ renouvellement = [r \in Requetes |-> SansRenouvellement]
  /\ enCours = Personne /\ connexion = 0 /\ orphelins = {}
  /\ disque = [x \in Acteurs |-> Inactif]
  /\ rechargees = {} /\ arrets = 0

------------------------------------------------------------------------------
(* The server (session.rs).                                                *)

Vivante(s) == rang[s] > 0 /\ revocation[s] = "non"

Creer(s) == rang' = [rang EXCEPT ![s] = 1] /\ UNCHANGED revocation

\* tourner_refresh: the update turns the current token once, another request
\* with the same token finds it on the previous rank.
Tournable(t) == Vivante(t[1]) /\ rang[t[1]] = t[2]
Tourner(t) ==
  \/ /\ Tournable(t) /\ t[2] < RangMax
     /\ rang' = [rang EXCEPT ![t[1]] = t[2] + 1]
     /\ UNCHANGED revocation
  \/ /\ ~Tournable(t)
     /\ revocation' = IF Vivante(t[1]) /\ rang[t[1]] = t[2] + 1
                      THEN [revocation EXCEPT ![t[1]] = "reutilisation"] ELSE revocation
     /\ UNCHANGED rang

\* From another device, or by the session itself (revoquer_dans_tx).
Revoquer(s) ==
  /\ Vivante(s)
  /\ revocation' = [revocation EXCEPT ![s] = "a_distance"]
  /\ UNCHANGED <<rang, appareil, stockage, file, connexion, orphelins, rechargees, arrets>>

------------------------------------------------------------------------------
(* The tokens on the device (stockage_jetons.dart): two keys, one after    *)
(* the other.                                                              *)

Ecriture(t) == [geste |-> "ecrire_acces", jeton |-> t]
Effacement == [geste |-> "effacer_acces", jeton |-> Aucun]
Suite(g) == CASE g = "ecrire_acces" -> "ecrire_refresh"
              [] g = "effacer_acces" -> "effacer_refresh"

Premiere(x) ==
  /\ disque[x].geste \in {"ecrire_acces", "effacer_acces"}
  /\ stockage' = [stockage EXCEPT !.acces = disque[x].jeton[1]]
  /\ disque' = [disque EXCEPT ![x].geste = Suite(@)]
  /\ UNCHANGED <<serveur, memoire, file, connexion, orphelins, rechargees, arrets>>

Seconde(x) ==
  /\ disque[x].geste \in {"ecrire_refresh", "effacer_refresh"}
  /\ stockage' = [stockage EXCEPT !.refresh = disque[x].jeton]

\* lire: nothing unless both are there.
Lu == IF stockage.acces = 0 \/ stockage.refresh = Aucun THEN Vide ELSE stockage

------------------------------------------------------------------------------
(* Requests and the shared renewal (clients.dart).                         *)

Poser(r, phase) == requete' = [requete EXCEPT ![r] = En(phase)]

Envoyer(r) ==
  /\ requete[r].phase = "repos" /\ memoire # Vide
  /\ requete' = [requete EXCEPT ![r] = [phase |-> "envoyee", acces |-> memoire.acces]]
  /\ UNCHANGED <<serveur, appareil, stockage, suit, renouvellement, enCours, connexion,
                 orphelins, rechargees, arrets>>

\* Faulty variant: the extractor trusts the signed token alone.
Admise_SansBase(s) == rang[s] > 0
\* contexte_auth: the database has the last word, at each request.
Admise(s) == Vivante(s)

\* An access token may have ended too (verifier_acces).  A replay is never
\* renewed again.
Repondre(r) ==
  /\ \/ requete[r].phase = "envoyee" /\ Admise(requete[r].acces) /\ Poser(r, "repos")
     \/ requete[r].phase = "envoyee" /\ Poser(r, "refusee")
     \/ requete[r].phase = "rejouee" /\ Poser(r, "repos")
  /\ UNCHANGED <<serveur, appareil, stockage, suit, renouvellement, enCours, connexion,
                 orphelins, rechargees, arrets>>

Perdre(r) ==
  /\ requete[r].phase \in {"envoyee", "refusee", "rejouee"} /\ Poser(r, "repos")
  /\ UNCHANGED <<serveur, appareil, stockage, suit, renouvellement, enCours, connexion,
                 orphelins, rechargees, arrets>>

\* Faulty variant: every refused request starts a renewal of its own.
Partage_SansVerrou == Personne
\* The renewal that a refused request joins, if there is one (`_enCours ??=`).
Partage == enCours

\* onError: without a token to renew, the refusal is handed on.
Recevoir401(r) ==
  /\ requete[r].phase = "refusee"
  /\ \/ memoire.refresh = Aucun /\ Poser(r, "repos")
        /\ UNCHANGED <<suit, renouvellement, enCours>>
     \/ /\ memoire.refresh # Aucun /\ Poser(r, "attente")
        /\ IF Partage = Personne
           THEN /\ suit' = [suit EXCEPT ![r] = r] /\ enCours' = r
                /\ renouvellement' =
                     [renouvellement EXCEPT ![r] = [phase |-> "parti", jeton |-> memoire.refresh]]
           ELSE /\ suit' = [suit EXCEPT ![r] = Partage]
                /\ UNCHANGED <<renouvellement, enCours>>
  /\ UNCHANGED <<serveur, appareil, stockage, connexion, orphelins, rechargees, arrets>>

TraiterRenouvellement(r) ==
  LET t == renouvellement[r].jeton IN
  /\ renouvellement[r].phase = "parti" /\ Tourner(t)
  /\ renouvellement' =
       [renouvellement EXCEPT ![r] = IF Tournable(t)
                                     THEN [phase |-> "tourne", jeton |-> <<t[1], t[2] + 1>>]
                                     ELSE [phase |-> "refuse", jeton |-> t]]
  /\ UNCHANGED <<appareil, stockage, requete, suit, enCours, connexion, orphelins,
                 rechargees, arrets>>

\* It may come at any time, or never.
TraiterOrphelin(t) ==
  /\ t \in orphelins /\ orphelins' = orphelins \ {t} /\ Tourner(t)
  /\ UNCHANGED <<appareil, stockage, file, connexion, rechargees, arrets>>

\* What every request that waited for the renewal of r does next, at once.
Attendent(r) == {q \in Requetes : suit[q] = r}

\* Faulty variant: the place of the shared renewal is not given back.
Conclure_SansLiberer(r) ==
  /\ renouvellement' = [renouvellement EXCEPT ![r] = SansRenouvellement]
  /\ suit' = [q \in Requetes |-> IF q \in Attendent(r) THEN Personne ELSE suit[q]]
  /\ UNCHANGED enCours
Conclure(r) ==
  /\ renouvellement' = [renouvellement EXCEPT ![r] = SansRenouvellement]
  /\ suit' = [q \in Requetes |-> IF q \in Attendent(r) THEN Personne ELSE suit[q]]
  /\ enCours' = Personne

\* Not renewed: each of them closes the session on the device (fermer), which
\* is once to forget and once to erase.
Echouer(r) ==
  /\ Conclure(r)
  /\ requete' = [q \in Requetes |-> CASE q = r -> En("fermeture")
                                     [] q \in Attendent(r) \ {r} -> En("repos")
                                     [] OTHER -> requete[q]]
  /\ memoire' = Vide
  /\ disque' = [disque EXCEPT ![r] = Effacement]

RecevoirRefus(r) ==
  /\ renouvellement[r].phase = "refuse" /\ Echouer(r)
  /\ UNCHANGED <<serveur, stockage, connexion, orphelins, rechargees, arrets>>

\* No answer in time, whatever happened to the request; or the device fails to write.
PerdreRenouvellement(r) ==
  /\ renouvellement[r].phase \in {"parti", "tourne", "refuse", "ecrit"} /\ Echouer(r)
  /\ orphelins' = orphelins \cup (IF renouvellement[r].phase = "parti"
                                  THEN {renouvellement[r].jeton} ELSE {})
  /\ UNCHANGED <<serveur, stockage, connexion, rechargees, arrets>>

\* The pair is used at once, then written; the renewal ends after the writes.
RecevoirJetons(r) ==
  LET t == renouvellement[r].jeton IN
  /\ renouvellement[r].phase = "tourne"
  /\ renouvellement' = [renouvellement EXCEPT ![r].phase = "ecrit"]
  /\ memoire' = Paire(t)
  /\ disque' = [disque EXCEPT ![r] = Ecriture(t)]
  /\ UNCHANGED <<serveur, stockage, requete, suit, enCours, connexion, orphelins,
                 rechargees, arrets>>

\* The last write of a renewal replays what waited for it; the last erasure
\* hands on the refusal.
Terminer(x) ==
  /\ Seconde(x)
  /\ disque' = [disque EXCEPT ![x] = Inactif]
  /\ IF disque[x].geste = "ecrire_refresh" /\ x # Usager
     THEN /\ Conclure(x)
          /\ requete' = [q \in Requetes |-> IF q \in Attendent(x)
                                            THEN En("rejouee")
                                            ELSE requete[q]]
     ELSE /\ requete' = [q \in Requetes |-> IF q = x THEN En("repos") ELSE requete[q]]
          /\ UNCHANGED <<suit, renouvellement, enCours>>
  /\ UNCHANGED <<serveur, memoire, connexion, orphelins, rechargees, arrets>>

------------------------------------------------------------------------------
(* The user and the device.                                                *)

\* A verified code opens a session (verifier_otp, inscrire, creer_session);
\* only an application without tokens shows the screen that asks for it.
OuvrirSession(s) ==
  /\ memoire = Vide /\ connexion = 0 /\ disque[Usager] = Inactif
  /\ rang[s] = 0 /\ \A p \in Sessions : p < s => rang[p] > 0
  /\ Creer(s) /\ connexion' = s
  /\ UNCHANGED <<appareil, stockage, file, orphelins, rechargees, arrets>>

\* Nobody takes the answer of a screen that is gone.
RecevoirSession ==
  /\ connexion # 0 /\ connexion' = 0
  /\ IF memoire = Vide
     THEN /\ memoire' = Paire(<<connexion, 1>>)
          /\ disque' = [disque EXCEPT ![Usager] = Ecriture(<<connexion, 1>>)]
     ELSE UNCHANGED <<memoire, disque>>
  /\ UNCHANGED <<serveur, stockage, file, orphelins, rechargees, arrets>>
PerdreSession ==
  /\ connexion # 0 /\ connexion' = 0
  /\ UNCHANGED <<serveur, appareil, stockage, file, orphelins, rechargees, arrets>>

\* The button only closes on the device: the server is not told.
SeDeconnecter ==
  /\ memoire # Vide /\ disque[Usager] = Inactif
  /\ memoire' = Vide
  /\ disque' = [disque EXCEPT ![Usager] = Effacement]
  /\ UNCHANGED <<serveur, stockage, file, connexion, orphelins, rechargees, arrets>>

\* Killed and started again (charger): what was in memory is lost, what was
\* sent goes on.
Redemarrer ==
  /\ arrets < ArretsMax /\ arrets' = arrets + 1
  /\ memoire' = Lu
  /\ orphelins' = orphelins \cup {renouvellement[r].jeton :
                                    r \in {q \in Requetes : renouvellement[q].phase = "parti"}}
  /\ rechargees' = rechargees \cup
       {s \in Sessions : s = Lu.refresh[1] /\ (Lu.refresh \in orphelins' \/ rang[s] # Lu.refresh[2])}
  /\ requete' = [r \in Requetes |-> En("repos")]
  /\ suit' = [r \in Requetes |-> Personne]
  /\ renouvellement' = [r \in Requetes |-> SansRenouvellement]
  /\ disque' = [x \in Acteurs |-> Inactif]
  /\ enCours' = Personne /\ connexion' = 0
  /\ UNCHANGED <<serveur, stockage>>

Appliquer(r) ==
  \/ Recevoir401(r) \/ RecevoirRefus(r) \/ RecevoirJetons(r)
  \/ PerdreRenouvellement(r) \/ Perdre(r)
NextSession ==
  \/ \E r \in Requetes : Envoyer(r) \/ Repondre(r) \/ TraiterRenouvellement(r) \/ Appliquer(r)
  \/ \E x \in Acteurs : Premiere(x) \/ Terminer(x)
  \/ \E t \in Jetons : TraiterOrphelin(t)
  \/ \E s \in Sessions : Revoquer(s) \/ OuvrirSession(s)
  \/ RecevoirSession \/ PerdreSession \/ SeDeconnecter \/ Redemarrer

\* The delays of the HTTP client end every wait and the device's writes end;
\* screens that poll keep on asking, and the network does not fail for ever.
Fairness ==
  /\ \A r \in Requetes : /\ WF_varsSession(Envoyer(r)) /\ WF_varsSession(Appliquer(r))
                          /\ SF_varsSession(Repondre(r)) /\ SF_varsSession(Recevoir401(r))
  /\ \A x \in Acteurs : WF_varsSession(Premiere(x)) /\ WF_varsSession(Terminer(x))

SpecSession == InitSession /\ [][NextSession]_varsSession /\ Fairness

------------------------------------------------------------------------------
(* What holds.                                                             *)

\* A session is taken for stolen (tourner_refresh, "vol présumé") only when a
\* killed application came back with a token it had already presented: never
\* because requests crossed, answers were lost or the user signed out and in.
VolFonde == \A s \in Sessions : revocation[s] = "reutilisation" => s \in rechargees

\* Nobody waits for ever on the shared renewal: lost, refused or turned, it
\* ends and leaves its place.
RenouvellementConclu == (enCours # Personne) ~> (enCours = Personne)

\* A device whose session was revoked elsewhere, or taken for stolen, ends
\* without its tokens, back at the sign-in.
SessionMorteQuittee ==
  (memoire # Vide /\ ~Vivante(memoire.acces))
    ~> (memoire = Vide \/ Vivante(memoire.acces))

=============================================================================
