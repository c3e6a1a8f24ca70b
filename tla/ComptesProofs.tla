---------------------------- MODULE ComptesProofs ----------------------------
(***************************************************************************)
(* Proofs about a client's account and orders, for every set of orders,    *)
(* requests, articles, couriers and sessions: the sanctions (module        *)
(* Sanctions), the tokens of a session (Session), the creation of orders   *)
(* and the catalogue they read (Creation and Catalogue).                   *)
(***************************************************************************)
EXTENDS Sanctions, Session, Creation, FiniteSetTheorems, TLAPS

(***************************************************************************)
(* The failure tree and the sanctions.                                     *)
(***************************************************************************)
\* The tree decides every type of issue, and asks at most for the first rung.
LEMMA ArbreTotal ==
  ASSUME NEW type \in TypesIssue, NEW perissable \in BOOLEAN, NEW preuves \in BOOLEAN
  PROVE  Resoudre(type, perissable, preuves) \in Decisions
BY DEF Resoudre, Ramener, Decision, CommeUnRefus, TypesIssue, Decisions, Detenteurs

\* What the tree owes the courier, whatever the issue: the proofs being complete,
\* Mefali carries the debt exactly when the compensation is due, always does when
\* the goods stay with the courier, and sanctions only then.
LEMMA ArbreEquitable ==
  ASSUME NEW type \in TypesIssue, NEW perissable \in BOOLEAN
  PROVE  Equitable(Resoudre(type, perissable, TRUE),
                   Resoudre(type, perissable, TRUE).sanction)
BY DEF Equitable, Resoudre, Ramener, Decision, CommeUnRefus, TypesIssue

LEMMA InitIInvSanctions == InitSanctions => IInvSanctions
<1> SUFFICES ASSUME InitSanctions PROVE IInvSanctions
  OBVIOUS
<1>1. Resoudre("refus_non_perissable", FALSE, TRUE) \in Decisions
  BY ArbreTotal DEF TypesIssue
<1>2. TypesSanctions
  BY <1>1 DEF InitSanctions, TypesSanctions, Vierge
<1> QED
  BY <1>2 DEF InitSanctions, IInvSanctions, Vierge, RangFonde, PoseesFondees, SanctionUnique,
     EchelleFondee

LEMMA StepLireEchec ==
  ASSUME IInvSanctions, NEW d \in Declarations, NEW c \in Commandes, NEW type \in TypesIssue,
         NEW perissable \in BOOLEAN, LireEchec(d, c, type, perissable)
  PROVE  IInvSanctions'
<1> DEFINE r == Resoudre(type, perissable, TRUE)
           i == [phase |-> "lue", commande |-> c, decision |-> r,
                 sanction |-> SanctionPosee(r)]
<1>1. /\ declarations[d].phase = "vierge"
      /\ declarations' = [declarations EXCEPT ![d] = i]
      /\ UNCHANGED <<prepaiementImpose, bloque, posees>>
  BY DEF LireEchec
<1>2. r \in Decisions
  BY ArbreTotal
<1>3. SanctionPosee(r) \in Echelle \cup {"aucune"}
      /\ (SanctionPosee(r) = "bloque" => prepaiementImpose)
  BY DEF SanctionPosee, Echelle
<1> HIDE DEF r
<1>4. TypesSanctions'
  BY <1>1, <1>2, <1>3 DEF IInvSanctions, TypesSanctions
<1>5. RangFonde'
  BY <1>1, <1>3 DEF IInvSanctions, TypesSanctions, RangFonde
<1>6. PoseesFondees' /\ SanctionUnique'
  BY <1>1 DEF IInvSanctions, PoseesFondees, SanctionUnique, DejaPosee
<1>7. Refus' = Refus
  BY <1>1 DEF IInvSanctions, TypesSanctions, Refus, Enregistrees
<1> QED
  BY <1>1, <1>4, <1>5, <1>6, <1>7 DEF IInvSanctions, EchelleFondee

LEMMA StepEnregistrer ==
  ASSUME IInvSanctions, NEW d \in Declarations, EnregistrerIssue(d)
  PROVE  IInvSanctions'
<1> DEFINE s == declarations[d].sanction
<1>1. /\ declarations[d].phase = "lue"
      /\ declarations' = [declarations EXCEPT ![d].phase = "enregistree"]
      /\ s \in Echelle \cup {"aucune"}
      /\ s = "bloque" => prepaiementImpose
  BY DEF EnregistrerIssue, IInvSanctions, TypesSanctions, RangFonde
<1>2. PoserRestriction(d, s)
  BY DEF EnregistrerIssue
<1>3. declarations'[d].sanction = s
      /\ \A e \in Declarations : declarations'[e].sanction = declarations[e].sanction
  BY <1>1 DEF IInvSanctions, TypesSanctions
<1>4. d \notin Refus /\ Refus' = IF s = "aucune" THEN Refus ELSE Refus \cup {d}
  BY <1>1, <1>3 DEF IInvSanctions, TypesSanctions, Refus, Enregistrees
<1> HIDE DEF s
<1>5. CASE UNCHANGED <<prepaiementImpose, bloque, posees>>
  <2>1. TypesSanctions'
    BY <1>1, <1>5 DEF IInvSanctions, TypesSanctions
  <2>2. RangFonde' /\ PoseesFondees' /\ SanctionUnique'
    BY <1>3, <1>5 DEF IInvSanctions, RangFonde, PoseesFondees, SanctionUnique, DejaPosee
  <2>3. EchelleFondee'
    BY <1>4, <1>5 DEF IInvSanctions, EchelleFondee
  <2> QED
    BY <2>1, <2>2, <2>3 DEF IInvSanctions
<1>6. CASE /\ s # "aucune" /\ ~DejaPosee(s)
           /\ prepaiementImpose' = TRUE
           /\ bloque' = IF s = "bloque" THEN TRUE ELSE bloque
           /\ posees' = [posees EXCEPT ![s] = @ \cup {d}]
  <2>1. TypesSanctions'
    BY <1>1, <1>6 DEF IInvSanctions, TypesSanctions
  <2>2. RangFonde'
    BY <1>6 DEF RangFonde
  <2>3. PoseesFondees'
    BY <1>1, <1>6 DEF IInvSanctions, TypesSanctions, PoseesFondees, DejaPosee, Echelle
  <2>4. SanctionUnique'
    BY <1>1, <1>6 DEF IInvSanctions, TypesSanctions, PoseesFondees, SanctionUnique, Echelle
  <2>5. EchelleFondee'
    <3>1. bloque' => s = "bloque" \/ bloque
      BY <1>6
    <3>2. s = "bloque" \/ bloque => \E e \in Refus : TRUE
      BY <1>1 DEF IInvSanctions, EchelleFondee
    <3>3. bloque' => \E e, f \in Refus' : e # f
      <4>1. CASE s = "bloque"
        BY <1>4, <1>6, <3>2, <4>1
      <4>2. CASE bloque
        BY <1>4, <1>6, <4>2 DEF IInvSanctions, EchelleFondee
      <4> QED
        BY <3>1, <4>1, <4>2
    <3> QED
      BY <1>4, <1>6, <3>3 DEF EchelleFondee
  <2> QED
    BY <2>1, <2>2, <2>3, <2>4, <2>5 DEF IInvSanctions
<1> QED
  BY <1>2, <1>5, <1>6 DEF PoserRestriction

LEMMA StepAbandonner ==
  ASSUME IInvSanctions, NEW d \in Declarations, AbandonnerEchec(d)
  PROVE  IInvSanctions'
<1>1. TypesSanctions'
  <2>1. Resoudre("refus_non_perissable", FALSE, TRUE) \in Decisions
    BY ArbreTotal DEF TypesIssue
  <2> QED
    BY <2>1 DEF AbandonnerEchec, IInvSanctions, TypesSanctions, Vierge
<1>2. RangFonde'
  BY DEF AbandonnerEchec, IInvSanctions, TypesSanctions, RangFonde, Vierge
<1>3. Refus' = Refus
  BY DEF AbandonnerEchec, IInvSanctions, TypesSanctions, Refus, Enregistrees, Vierge
<1> QED
  BY <1>1, <1>2, <1>3
  DEF AbandonnerEchec, IInvSanctions, PoseesFondees, SanctionUnique, EchelleFondee, DejaPosee

LEMMA StepIInvSanctions == IInvSanctions /\ [NextSanctions]_varsSanctions => IInvSanctions'
<1> SUFFICES ASSUME IInvSanctions, [NextSanctions]_varsSanctions PROVE IInvSanctions'
  OBVIOUS
<1>1. CASE UNCHANGED varsSanctions
  BY <1>1 DEF varsSanctions, IInvSanctions, TypesSanctions, RangFonde, PoseesFondees,
     SanctionUnique, EchelleFondee,
     Refus, Enregistrees, DejaPosee
<1> QED
  BY <1>1, StepLireEchec, StepEnregistrer, StepAbandonner DEF NextSanctions

\* However the declarations of a client's orders interleave, the inductive
\* invariant holds.
THEOREM InvarianceSanctions == SpecSanctions => []IInvSanctions
BY InitIInvSanctions, StepIInvSanctions, PTL DEF SpecSanctions

\* A block rests on two recorded refusals, an imposed prepayment on one.
THEOREM EchelleSure == SpecSanctions => []EchelleFondee
BY InvarianceSanctions, PTL DEF IInvSanctions

\* No sanction is put or announced twice by concurrent failures.
THEOREM SanctionSure == SpecSanctions => []SanctionUnique
BY InvarianceSanctions, PTL DEF IInvSanctions

\* No step lifts a sanction or skips a rung.
THEOREM EchelleMonte == SpecSanctions => EchelleMontante
<1>1. IInvSanctions /\ [NextSanctions]_varsSanctions =>
        [/\ prepaiementImpose => prepaiementImpose'
         /\ bloque => bloque'
         /\ bloque' => prepaiementImpose]_varsSanctions
  <2> SUFFICES ASSUME IInvSanctions, NextSanctions
               PROVE  /\ prepaiementImpose => prepaiementImpose'
                      /\ bloque => bloque'
                      /\ bloque' => prepaiementImpose
    OBVIOUS
  <2>1. bloque => prepaiementImpose
    BY DEF IInvSanctions, EchelleFondee
  <2>2. ASSUME NEW d \in Declarations, EnregistrerIssue(d)
        PROVE  /\ prepaiementImpose => prepaiementImpose'
               /\ bloque => bloque'
               /\ bloque' => prepaiementImpose
    <3>1. declarations[d].sanction = "bloque" => prepaiementImpose
      BY DEF IInvSanctions, RangFonde
    <3>2. PoserRestriction(d, declarations[d].sanction)
      BY <2>2 DEF EnregistrerIssue
    <3> QED
      BY <2>1, <3>1, <3>2 DEF PoserRestriction
  <2>3. ASSUME UNCHANGED <<prepaiementImpose, bloque>>
        PROVE  /\ prepaiementImpose => prepaiementImpose'
               /\ bloque => bloque'
               /\ bloque' => prepaiementImpose
    BY <2>1, <2>3
  <2>4. \/ \E d \in Declarations : EnregistrerIssue(d)
        \/ UNCHANGED <<prepaiementImpose, bloque>>
    BY DEF NextSanctions, LireEchec, AbandonnerEchec
  <2> QED
    BY <2>2, <2>3, <2>4
<1> QED
  BY <1>1, InvarianceSanctions, PTL DEF SpecSanctions, EchelleMontante

\* The courier never loses, whatever the issue declared and its race with others.
THEOREM CoursierSauf == SpecSanctions => []CoursierNePerdJamais
<1> DEFINE Toutes ==
      \A d \in Declarations : Equitable(declarations[d].decision, declarations[d].sanction)
<1>1. InitSanctions => Toutes
  <2>1. Equitable(Resoudre("refus_non_perissable", FALSE, TRUE), "aucune")
    BY ArbreEquitable DEF TypesIssue, Equitable
  <2> QED
    <3> SUFFICES ASSUME InitSanctions, NEW d \in Declarations
                 PROVE  Equitable(declarations[d].decision, declarations[d].sanction)
      OBVIOUS
    <3> HIDE DEF Toutes
    <3>1. declarations[d] = Vierge
      BY DEF InitSanctions
    <3>2. /\ Vierge.decision = Resoudre("refus_non_perissable", FALSE, TRUE)
          /\ Vierge.sanction = "aucune"
      BY DEF Vierge
    <3> QED
      BY <2>1, <3>1, <3>2
<1>2. TypesSanctions /\ Toutes /\ [NextSanctions]_varsSanctions => Toutes'
  <2> SUFFICES ASSUME TypesSanctions, Toutes, [NextSanctions]_varsSanctions, NEW e \in Declarations
               PROVE  Equitable(declarations'[e].decision, declarations'[e].sanction)
    OBVIOUS
  <2>1. ASSUME NEW d \in Declarations, NEW c \in Commandes, NEW type \in TypesIssue,
               NEW perissable \in BOOLEAN, LireEchec(d, c, type, perissable)
        PROVE  Equitable(declarations'[e].decision, declarations'[e].sanction)
    <3> DEFINE r == Resoudre(type, perissable, TRUE)
    <3>1. Equitable(r, r.sanction)
      BY ArbreEquitable
    <3>2. declarations' = [declarations EXCEPT ![d] =
            [phase |-> "lue", commande |-> c, decision |-> r,
             sanction |-> SanctionPosee(r)]]
      BY <2>1 DEF LireEchec
    <3>3. r.sanction = "aucune" => SanctionPosee(r) = "aucune"
      BY DEF SanctionPosee
    <3> HIDE DEF r
    <3>4. Equitable(r, SanctionPosee(r))
      BY <3>1, <3>3 DEF Equitable
    <3> QED
      BY <3>2, <3>4 DEF TypesSanctions
  <2>2. ASSUME NEW d \in Declarations, EnregistrerIssue(d)
        PROVE  Equitable(declarations'[e].decision, declarations'[e].sanction)
    BY <2>2 DEF EnregistrerIssue, TypesSanctions
  <2>3. ASSUME NEW d \in Declarations, AbandonnerEchec(d)
        PROVE  Equitable(declarations'[e].decision, declarations'[e].sanction)
    <3>1. Equitable(Resoudre("refus_non_perissable", FALSE, TRUE), "aucune")
      BY ArbreEquitable DEF TypesIssue, Equitable
    <3> QED
      BY <2>3, <3>1 DEF AbandonnerEchec, TypesSanctions, Vierge
  <2>4. CASE UNCHANGED varsSanctions
    BY <2>4 DEF varsSanctions
  <2> QED
    BY <2>1, <2>2, <2>3, <2>4 DEF NextSanctions
<1>3. IInvSanctions => TypesSanctions
  BY DEF IInvSanctions
<1>4. Toutes => CoursierNePerdJamais
  BY DEF CoursierNePerdJamais, Enregistrees
<1> QED
  BY <1>1, <1>2, <1>3, <1>4, InvarianceSanctions, PTL DEF SpecSanctions

------------------------------------------------------------------------------
(***************************************************************************)
(* A token presented once.                                                 *)
(***************************************************************************)
\* The server holds t as the current token, and nothing lost may come to turn it.
Saine(t) == rang[t[1]] = t[2] /\ \A o \in orphelins : o[1] # t[1]

\* The renewals that may have presented the token the memory holds.
SonJeton == {"parti", "tourne", "refuse"}

FormeSession ==
  /\ rang \in [Sessions -> Nat]
  /\ revocation \in [Sessions -> {"non", "a_distance", "reutilisation"}]
  /\ orphelins \subseteq Jetons
  /\ memoire.refresh \in Jetons \cup {Aucun}
  /\ memoire.refresh = Aucun => memoire = Vide
  /\ stockage \in [acces : Nat, refresh : Jetons \cup {Aucun}]
  /\ renouvellement \in [Requetes -> [phase : {"repos", "parti", "tourne", "refuse", "ecrit"},
                                      jeton : Jetons \cup {Aucun}]]
  /\ \A r \in Requetes : renouvellement[r].phase # "repos" => renouvellement[r].jeton \in Jetons
  /\ disque \in [Acteurs -> [geste : GestesDisque \cup {"repos"}, jeton : Jetons \cup {Aucun}]]
  /\ connexion \in Sessions \cup {0}

\* One renewal at a time, and only it writes its pair.
RenouvellementUnique ==
  /\ \A r \in Requetes : renouvellement[r].phase # "repos" => enCours = r
  /\ \A r \in Requetes \ {Usager} :
       disque[r].geste \in {"ecrire_acces", "ecrire_refresh"} => renouvellement[r].phase = "ecrit"

PresentationSaine ==
  \A r \in Requetes : renouvellement[r].phase \in {"parti", "tourne"} =>
    LET t == renouvellement[r].jeton IN t[1] \notin rechargees => Saine(t)

OrphelinsCourants == \A o \in orphelins : o[1] \notin rechargees => rang[o[1]] = o[2]

MemoireSaine ==
  LET t == memoire.refresh IN
    t # Aucun /\ t[1] \notin rechargees =>
      \/ \E r \in Requetes :
           renouvellement[r].phase \in SonJeton /\ renouvellement[r].jeton[1] = t[1]
      \/ Saine(t)

ConnexionNeuve ==
  connexion # 0 /\ connexion \notin rechargees =>
    /\ Saine(<<connexion, 1>>) /\ memoire.refresh[1] # connexion
    /\ \A r \in Requetes :
         renouvellement[r].phase \in {"parti", "tourne"} => renouvellement[r].jeton[1] # connexion

IInvSession ==
  /\ FormeSession /\ RenouvellementUnique /\ PresentationSaine /\ OrphelinsCourants
  /\ MemoireSaine /\ ConnexionNeuve /\ VolFonde

LEMMA InitIInvSession == InitSession => IInvSession
<1> SUFFICES ASSUME InitSession PROVE IInvSession
  OBVIOUS
<1>1. Aucun \notin Jetons /\ 0 \notin Sessions
  BY DEF Aucun, Jetons, Sessions
<1>2. /\ memoire = Vide /\ memoire.refresh = Aucun /\ stockage = [acces |-> 0, refresh |-> Aucun]
  BY DEF InitSession, Vide, Paire, Aucun
<1>3. FormeSession
  BY <1>2 DEF InitSession, FormeSession, SansRenouvellement, Inactif
<1>4. RenouvellementUnique /\ PresentationSaine /\ OrphelinsCourants
  BY DEF InitSession, RenouvellementUnique, PresentationSaine, OrphelinsCourants,
     SansRenouvellement, Inactif, Acteurs
<1>5. MemoireSaine /\ ConnexionNeuve /\ VolFonde
  BY <1>2 DEF InitSession, MemoireSaine, ConnexionNeuve, VolFonde
<1> QED
  BY <1>3, <1>4, <1>5 DEF IInvSession

\* What the server does with a token it holds as the current one.
LEMMA TournerCourant ==
  ASSUME IInvSession, NEW t \in Jetons, Tourner(t), t[1] \notin rechargees => rang[t[1]] = t[2]
  PROVE  /\ rang' \in [Sessions -> Nat]
         /\ revocation' \in [Sessions -> {"non", "a_distance", "reutilisation"}]
         /\ \A s \in Sessions : s # t[1] => rang'[s] = rang[s]
         /\ Tournable(t) => rang'[t[1]] = t[2] + 1
         /\ ~Tournable(t) => rang' = rang
         /\ \A s \in Sessions : revocation'[s] = "reutilisation" => s \in rechargees
<1>1. t[1] \in Sessions /\ t[2] \in Nat
  BY BornesAssumption DEF Jetons, Sessions
<1>2. CASE Tournable(t) /\ rang' = [rang EXCEPT ![t[1]] = t[2] + 1] /\ UNCHANGED revocation
  BY <1>1, <1>2 DEF IInvSession, FormeSession, VolFonde
<1>3. CASE ~Tournable(t) /\ UNCHANGED rang
           /\ revocation' = IF Vivante(t[1]) /\ rang[t[1]] = t[2] + 1
                            THEN [revocation EXCEPT ![t[1]] = "reutilisation"] ELSE revocation
  <2>1. rang[t[1]] = t[2] + 1 => t[1] \in rechargees
    BY <1>1
  <2> QED
    BY <1>1, <1>3, <2>1 DEF IInvSession, FormeSession, VolFonde
<1> QED
  BY <1>2, <1>3 DEF Tourner

\* What a request or the device does by itself.
LEMMA StepAlentour ==
  ASSUME IInvSession,
         UNCHANGED <<serveur, memoire, renouvellement, enCours, connexion, orphelins, rechargees>>,
         FormeSession',
         \A r \in Requetes \ {Usager} :
           disque'[r].geste \in {"ecrire_acces", "ecrire_refresh"} =>
             disque[r].geste \in {"ecrire_acces", "ecrire_refresh"}
  PROVE  IInvSession'
BY DEF IInvSession, RenouvellementUnique, PresentationSaine, OrphelinsCourants, MemoireSaine,
   ConnexionNeuve, VolFonde, Saine, serveur

LEMMA StepPremiere ==
  ASSUME IInvSession, NEW x \in Acteurs, Premiere(x)
  PROVE  IInvSession'
<1>1. disque[x].jeton \in Jetons \cup {Aucun} /\ disque[x].geste \in {"ecrire_acces", "effacer_acces"}
  BY DEF Premiere, IInvSession, FormeSession
<1>2. disque[x].jeton[1] \in Nat
  BY <1>1 DEF Jetons, Sessions, Aucun
<1>3. Suite(disque[x].geste) = IF disque[x].geste = "ecrire_acces" THEN "ecrire_refresh"
                               ELSE "effacer_refresh"
  BY <1>1 DEF Suite
<1>4. stockage' \in [acces : Nat, refresh : Jetons \cup {Aucun}]
  BY <1>2 DEF Premiere, IInvSession, FormeSession
<1>5. disque' \in [Acteurs -> [geste : GestesDisque \cup {"repos"}, jeton : Jetons \cup {Aucun}]]
  BY <1>1, <1>3 DEF Premiere, IInvSession, FormeSession, GestesDisque
<1>6. FormeSession'
  BY <1>4, <1>5 DEF Premiere, IInvSession, FormeSession, serveur, file
<1>7. \A r \in Requetes \ {Usager} :
        disque'[r].geste \in {"ecrire_acces", "ecrire_refresh"} =>
          disque[r].geste \in {"ecrire_acces", "ecrire_refresh"}
  BY <1>1, <1>3 DEF Premiere, IInvSession, FormeSession, Acteurs
<1> QED
  BY <1>6, <1>7, StepAlentour DEF Premiere, file

LEMMA StepRequete ==
  ASSUME IInvSession, NEW r \in Requetes, Envoyer(r) \/ Repondre(r) \/ Perdre(r)
  PROVE  IInvSession'
<1>1. UNCHANGED <<serveur, appareil, stockage, suit, renouvellement, enCours, connexion, orphelins,
                  rechargees>>
  BY DEF Envoyer, Repondre, Perdre
<1>2. FormeSession'
  BY <1>1 DEF IInvSession, FormeSession, serveur, appareil
<1> QED
  BY <1>1, <1>2, StepAlentour DEF appareil

LEMMA StepRecevoir401 ==
  ASSUME IInvSession, NEW r \in Requetes, Recevoir401(r)
  PROVE  IInvSession'
<1> DEFINE t == memoire.refresh
           n == [phase |-> "parti", jeton |-> t]
<1>1. UNCHANGED <<serveur, appareil, stockage, connexion, orphelins, rechargees>>
  BY DEF Recevoir401
<1>2. CASE UNCHANGED <<renouvellement, enCours>>
  <2>1. FormeSession'
    BY <1>1, <1>2 DEF IInvSession, FormeSession, serveur, appareil
  <2> QED
    BY <1>1, <1>2, <2>1, StepAlentour DEF appareil
<1>3. CASE /\ t # Aucun /\ enCours = Personne /\ enCours' = r
           /\ renouvellement' = [renouvellement EXCEPT ![r] = n]
  <2>1. \A q \in Requetes : renouvellement[q].phase = "repos"
    BY <1>3, PersonneAssumption DEF IInvSession, RenouvellementUnique
  <2>2. t \in Jetons /\ n \in [phase : {"parti"}, jeton : Jetons]
    BY <1>3 DEF IInvSession, FormeSession
  <2>3. /\ renouvellement'[r].phase = "parti" /\ renouvellement'[r].jeton = t
        /\ \A q \in Requetes : q # r => renouvellement'[q] = renouvellement[q]
    BY <1>3 DEF IInvSession, FormeSession
  <2>4. FormeSession'
    BY <1>1, <1>3, <2>2 DEF IInvSession, FormeSession, serveur, appareil
  <2>5. RenouvellementUnique'
    BY <1>1, <1>3, <2>1, <2>3 DEF IInvSession, RenouvellementUnique, appareil
  <2>6. t[1] \notin rechargees => Saine(t)
    BY <1>3, <2>1 DEF IInvSession, MemoireSaine, SonJeton
  <2>7. PresentationSaine' /\ OrphelinsCourants'
    BY <1>1, <2>1, <2>3, <2>6 DEF IInvSession, PresentationSaine, OrphelinsCourants, Saine, serveur
  <2>8. MemoireSaine'
    BY <1>1, <2>3 DEF MemoireSaine, SonJeton, appareil
  <2>9. ConnexionNeuve' /\ VolFonde'
    BY <1>1, <2>1, <2>3 DEF IInvSession, ConnexionNeuve, VolFonde, Saine, serveur, appareil
  <2> QED
    BY <2>4, <2>5, <2>7, <2>8, <2>9 DEF IInvSession
<1> QED
  BY <1>2, <1>3 DEF Recevoir401, Partage

LEMMA StepTraiterRenouvellement ==
  ASSUME IInvSession, NEW r \in Requetes, TraiterRenouvellement(r)
  PROVE  IInvSession'
<1> DEFINE t == renouvellement[r].jeton
           n == IF Tournable(t) THEN [phase |-> "tourne", jeton |-> <<t[1], t[2] + 1>>]
                                ELSE [phase |-> "refuse", jeton |-> t]
<1>1. /\ renouvellement[r].phase = "parti" /\ Tourner(t)
      /\ renouvellement' = [renouvellement EXCEPT ![r] = n]
      /\ UNCHANGED <<memoire, disque, stockage, enCours, connexion, orphelins, rechargees>>
  BY DEF TraiterRenouvellement, appareil
<1>2. t \in Jetons /\ t[1] \in Sessions /\ t[2] \in Nat
  BY <1>1, BornesAssumption DEF IInvSession, FormeSession, Jetons, Sessions
<1>3. t[1] \notin rechargees => Saine(t)
  BY <1>1 DEF IInvSession, PresentationSaine
<1>4. /\ rang' \in [Sessions -> Nat]
      /\ revocation' \in [Sessions -> {"non", "a_distance", "reutilisation"}]
      /\ \A s \in Sessions : s # t[1] => rang'[s] = rang[s]
      /\ Tournable(t) => rang'[t[1]] = t[2] + 1
      /\ ~Tournable(t) => rang' = rang
      /\ VolFonde'
  BY <1>1, <1>2, <1>3, TournerCourant DEF Saine, VolFonde
<1>5. Tournable(t) => t[2] < RangMax
  BY <1>1, <1>2 DEF Tourner
<1>6. /\ n.jeton \in Jetons /\ n.jeton[1] = t[1] /\ n.phase \in {"tourne", "refuse"}
      /\ n \in [phase : {"tourne", "refuse"}, jeton : Jetons]
      /\ n.phase = "tourne" => rang'[t[1]] = n.jeton[2]
  <2>1. CASE Tournable(t)
    <3>1. <<t[1], t[2] + 1>> \in Jetons
      BY <1>2, <1>5, <2>1, BornesAssumption DEF Jetons
    <3> QED
      BY <1>4, <2>1, <3>1
  <2>2. CASE ~Tournable(t)
    BY <1>2, <2>2
  <2> QED
    BY <2>1, <2>2
<1> HIDE DEF n
<1>7. /\ renouvellement'[r] = n
      /\ \A q \in Requetes : q # r => renouvellement'[q] = renouvellement[q]
      /\ \A q \in Requetes : q # r => renouvellement[q].phase = "repos"
  BY <1>1 DEF IInvSession, FormeSession, RenouvellementUnique
<1>8. FormeSession'
  BY <1>1, <1>4, <1>6, <1>7 DEF IInvSession, FormeSession
<1>9. RenouvellementUnique'
  BY <1>1, <1>6, <1>7 DEF IInvSession, RenouvellementUnique
<1>10. PresentationSaine'
  BY <1>1, <1>3, <1>6, <1>7 DEF PresentationSaine, Saine
<1>11. OrphelinsCourants'
  <2> SUFFICES ASSUME NEW o \in orphelins, o[1] \notin rechargees PROVE rang'[o[1]] = o[2]
    BY <1>1 DEF OrphelinsCourants
  <2>1. o[1] # t[1] /\ o[1] \in Sessions
    BY <1>3 DEF Saine, IInvSession, FormeSession, Jetons
  <2> QED
    BY <1>4, <2>1 DEF IInvSession, OrphelinsCourants
<1>12. MemoireSaine'
  <2> SUFFICES ASSUME memoire.refresh # Aucun, memoire.refresh[1] \notin rechargees,
                      \A q \in Requetes : renouvellement'[q].phase \in SonJeton =>
                        renouvellement'[q].jeton[1] # memoire.refresh[1]
               PROVE  Saine(memoire.refresh)'
    BY <1>1 DEF MemoireSaine
  <2>1. memoire.refresh[1] # t[1] /\ memoire.refresh[1] \in Sessions
    BY <1>6, <1>7 DEF SonJeton, IInvSession, FormeSession, Jetons
  <2>2. Saine(memoire.refresh)
    BY <1>7, <2>1 DEF IInvSession, MemoireSaine, SonJeton
  <2> QED
    BY <1>1, <1>4, <2>1, <2>2 DEF Saine
<1>13. ConnexionNeuve'
  <2> SUFFICES ASSUME connexion # 0, connexion \notin rechargees
               PROVE  /\ Saine(<<connexion, 1>>)' /\ memoire.refresh[1] # connexion
                      /\ \A q \in Requetes : renouvellement'[q].phase \in {"parti", "tourne"} =>
                           renouvellement'[q].jeton[1] # connexion
    BY <1>1 DEF ConnexionNeuve
  <2>1. /\ Saine(<<connexion, 1>>) /\ memoire.refresh[1] # connexion /\ t[1] # connexion
        /\ connexion \in Sessions
    BY <1>1 DEF IInvSession, ConnexionNeuve, FormeSession
  <2> QED
    BY <1>1, <1>4, <1>6, <1>7, <2>1 DEF Saine
<1> QED
  BY <1>4, <1>8, <1>9, <1>10, <1>11, <1>12, <1>13 DEF IInvSession

LEMMA StepTraiterOrphelin ==
  ASSUME IInvSession, NEW t \in Jetons, TraiterOrphelin(t)
  PROVE  IInvSession'
<1>1. /\ t \in orphelins /\ orphelins' = orphelins \ {t} /\ Tourner(t)
      /\ UNCHANGED <<memoire, disque, stockage, renouvellement, enCours, connexion, rechargees>>
  BY DEF TraiterOrphelin, appareil, file
<1>2. t[1] \notin rechargees => rang[t[1]] = t[2]
  BY <1>1 DEF IInvSession, OrphelinsCourants
<1>3. /\ rang' \in [Sessions -> Nat]
      /\ revocation' \in [Sessions -> {"non", "a_distance", "reutilisation"}]
      /\ \A s \in Sessions : s # t[1] => rang'[s] = rang[s]
      /\ VolFonde'
  BY <1>1, <1>2, TournerCourant DEF VolFonde
<1>4. ASSUME NEW u, u[1] \in Sessions, Saine(u) PROVE Saine(u)'
  <2>1. u[1] # t[1]
    BY <1>1, <1>4 DEF Saine
  <2> QED
    BY <1>1, <1>3, <1>4, <2>1 DEF Saine
<1>5. FormeSession' /\ RenouvellementUnique'
  BY <1>1, <1>3 DEF IInvSession, FormeSession, RenouvellementUnique
<1>6. PresentationSaine'
  <2> SUFFICES ASSUME NEW r \in Requetes, renouvellement[r].phase \in {"parti", "tourne"},
                      renouvellement[r].jeton[1] \notin rechargees
               PROVE  Saine(renouvellement[r].jeton)'
    BY <1>1 DEF PresentationSaine, Saine
  <2>1. renouvellement[r].jeton[1] \in Sessions /\ Saine(renouvellement[r].jeton)
    BY DEF IInvSession, FormeSession, PresentationSaine, Jetons
  <2> QED
    BY <1>1, <1>4, <2>1 DEF Saine
<1>7. OrphelinsCourants'
  <2> SUFFICES ASSUME NEW o \in orphelins', o[1] \notin rechargees PROVE rang'[o[1]] = o[2]
    BY <1>1 DEF OrphelinsCourants
  <2>1. /\ o \in Jetons /\ t \in Jetons /\ o # t /\ rang[o[1]] = o[2]
        /\ o[1] \in Sessions /\ o = <<o[1], o[2]>> /\ t = <<t[1], t[2]>>
    BY <1>1 DEF IInvSession, FormeSession, OrphelinsCourants, Jetons
  <2>2. o[1] # t[1]
    BY <1>2, <2>1
  <2> QED
    BY <1>3, <2>1, <2>2
<1>8. MemoireSaine'
  <2> SUFFICES ASSUME memoire.refresh # Aucun, memoire.refresh[1] \notin rechargees,
                      \A q \in Requetes : renouvellement[q].phase \in SonJeton =>
                        renouvellement[q].jeton[1] # memoire.refresh[1]
               PROVE  Saine(memoire.refresh)'
    BY <1>1 DEF MemoireSaine
  <2>1. memoire.refresh[1] \in Sessions /\ Saine(memoire.refresh)
    BY DEF IInvSession, FormeSession, MemoireSaine, Jetons
  <2> QED
    BY <1>1, <1>4, <2>1 DEF Saine
<1>9. ConnexionNeuve'
  <2> SUFFICES ASSUME connexion # 0, connexion \notin rechargees
               PROVE  /\ Saine(<<connexion, 1>>)' /\ memoire.refresh[1] # connexion
                      /\ \A q \in Requetes : renouvellement[q].phase \in {"parti", "tourne"} =>
                           renouvellement[q].jeton[1] # connexion
    BY <1>1 DEF ConnexionNeuve
  <2>1. connexion \in Sessions /\ Saine(<<connexion, 1>>)
    BY DEF IInvSession, FormeSession, ConnexionNeuve
  <2>2. Saine(<<connexion, 1>>)'
    BY <1>1, <1>3, <2>1 DEF Saine
  <2> QED
    BY <2>2 DEF IInvSession, ConnexionNeuve
<1> QED
  BY <1>3, <1>5, <1>6, <1>7, <1>8, <1>9 DEF IInvSession

\* A renewal that ends without a pair, and may leave its request behind.
LEMMA StepEchouer ==
  ASSUME IInvSession, NEW r \in Requetes, RecevoirRefus(r) \/ PerdreRenouvellement(r)
  PROVE  IInvSession'
<1>1. /\ renouvellement' = [renouvellement EXCEPT ![r] = SansRenouvellement]
      /\ enCours' = Personne /\ memoire' = Vide
      /\ disque' = [disque EXCEPT ![r] = Effacement]
      /\ UNCHANGED <<rang, revocation, stockage, connexion, rechargees>>
      /\ renouvellement[r].phase # "repos"
      /\ \/ orphelins' = orphelins
         \/ /\ orphelins' = orphelins \cup {renouvellement[r].jeton}
            /\ renouvellement[r].phase = "parti"
  <2>1. orphelins \cup {} = orphelins
    OBVIOUS
  <2> QED
    BY <2>1 DEF RecevoirRefus, PerdreRenouvellement, Echouer, Conclure, serveur
<1>2. /\ renouvellement'[r] = SansRenouvellement
      /\ \A q \in Requetes : q # r => renouvellement'[q] = renouvellement[q]
      /\ \A q \in Requetes : q # r => renouvellement[q].phase = "repos"
  BY <1>1 DEF IInvSession, FormeSession, RenouvellementUnique
<1>3. \A q \in Requetes : renouvellement'[q].phase = "repos"
  BY <1>2 DEF SansRenouvellement
<1>4. /\ Aucun \notin Jetons /\ memoire'.refresh = Aucun /\ Aucun[1] = 0
      /\ renouvellement[r].jeton \in Jetons
  BY <1>1 DEF Vide, Paire, Aucun, Jetons, Sessions, IInvSession, FormeSession
<1>5. FormeSession'
  BY <1>1, <1>3, <1>4 DEF IInvSession, FormeSession, SansRenouvellement, Effacement, GestesDisque
<1>6. RenouvellementUnique'
  <2>1. disque'[r] = Effacement /\ \A q \in Requetes : q # r => disque'[q] = disque[q]
    BY <1>1 DEF IInvSession, FormeSession, Acteurs
  <2> QED
    BY <1>2, <1>3, <2>1 DEF IInvSession, RenouvellementUnique, Effacement
<1>7. PresentationSaine' /\ MemoireSaine'
  BY <1>3, <1>4 DEF PresentationSaine, MemoireSaine
<1>8. OrphelinsCourants'
  BY <1>1 DEF IInvSession, OrphelinsCourants, PresentationSaine, Saine
<1>9. ConnexionNeuve'
  <2> SUFFICES ASSUME connexion # 0, connexion \notin rechargees PROVE Saine(<<connexion, 1>>)'
    BY <1>1, <1>3, <1>4 DEF ConnexionNeuve
  <2>1. /\ Saine(<<connexion, 1>>)
        /\ renouvellement[r].phase = "parti" => renouvellement[r].jeton[1] # connexion
    BY DEF IInvSession, ConnexionNeuve
  <2> QED
    BY <1>1, <2>1 DEF Saine
<1>10. VolFonde'
  BY <1>1 DEF IInvSession, VolFonde
<1> QED
  BY <1>5, <1>6, <1>7, <1>8, <1>9, <1>10 DEF IInvSession

LEMMA StepRecevoirJetons ==
  ASSUME IInvSession, NEW r \in Requetes, RecevoirJetons(r)
  PROVE  IInvSession'
<1> DEFINE t == renouvellement[r].jeton
<1>1. /\ renouvellement[r].phase = "tourne"
      /\ renouvellement' = [renouvellement EXCEPT ![r].phase = "ecrit"]
      /\ memoire' = Paire(t)
      /\ disque' = [disque EXCEPT ![r] = Ecriture(t)]
      /\ UNCHANGED <<rang, revocation, stockage, enCours, connexion, orphelins, rechargees>>
  BY DEF RecevoirJetons, serveur
<1>2. t \in Jetons /\ Aucun \notin Jetons /\ memoire'.refresh = t
  BY <1>1 DEF IInvSession, FormeSession, Aucun, Jetons, Sessions, Paire
<1>3. /\ renouvellement'[r] = [renouvellement[r] EXCEPT !.phase = "ecrit"]
      /\ renouvellement'[r].phase = "ecrit" /\ renouvellement'[r].jeton = t
      /\ \A q \in Requetes : q # r => renouvellement'[q] = renouvellement[q]
      /\ \A q \in Requetes : q # r => renouvellement[q].phase = "repos"
  BY <1>1 DEF IInvSession, FormeSession, RenouvellementUnique
<1>4. renouvellement' \in [Requetes -> [phase : {"repos", "parti", "tourne", "refuse", "ecrit"},
                                        jeton : Jetons \cup {Aucun}]]
  BY <1>1 DEF IInvSession, FormeSession
<1>5. FormeSession'
  BY <1>1, <1>2, <1>3, <1>4 DEF IInvSession, FormeSession, Ecriture, GestesDisque
<1>6. RenouvellementUnique'
  <2>1. \A q \in Requetes : q # r => disque'[q] = disque[q]
    BY <1>1 DEF IInvSession, FormeSession, Acteurs
  <2> QED
    BY <1>1, <1>3, <2>1 DEF IInvSession, RenouvellementUnique
<1>7. PresentationSaine' /\ OrphelinsCourants' /\ VolFonde'
  BY <1>1, <1>3 DEF IInvSession, PresentationSaine, OrphelinsCourants, VolFonde
<1>8. MemoireSaine'
  BY <1>1, <1>2 DEF IInvSession, PresentationSaine, MemoireSaine, Saine
<1>9. ConnexionNeuve'
  <2> SUFFICES ASSUME connexion # 0, connexion \notin rechargees
               PROVE  Saine(<<connexion, 1>>)' /\ t[1] # connexion
    BY <1>1, <1>2, <1>3 DEF ConnexionNeuve
  <2> QED
    BY <1>1 DEF IInvSession, ConnexionNeuve, Saine
<1> QED
  BY <1>5, <1>6, <1>7, <1>8, <1>9 DEF IInvSession

LEMMA StepTerminer ==
  ASSUME IInvSession, NEW x \in Acteurs, Terminer(x)
  PROVE  IInvSession'
<1>1. /\ disque[x].geste \in {"ecrire_refresh", "effacer_refresh"}
      /\ stockage' = [stockage EXCEPT !.refresh = disque[x].jeton]
      /\ disque' = [disque EXCEPT ![x] = Inactif]
      /\ UNCHANGED <<rang, revocation, memoire, connexion, orphelins, rechargees>>
  BY DEF Terminer, Seconde, serveur
<1>2. /\ stockage' \in [acces : Nat, refresh : Jetons \cup {Aucun}]
      /\ disque' \in [Acteurs -> [geste : GestesDisque \cup {"repos"}, jeton : Jetons \cup {Aucun}]]
  BY <1>1 DEF IInvSession, FormeSession, Inactif
<1>3. \A r \in Requetes \ {Usager} :
        disque'[r].geste \in {"ecrire_acces", "ecrire_refresh"} =>
          r # x /\ disque'[r] = disque[r]
  BY <1>1 DEF IInvSession, FormeSession, Acteurs, Inactif
<1>4. CASE UNCHANGED <<renouvellement, enCours>>
  <2>1. FormeSession'
    BY <1>1, <1>2, <1>4 DEF IInvSession, FormeSession
  <2> QED
    BY <1>1, <1>3, <1>4, <2>1, StepAlentour DEF serveur
<1>5. CASE /\ disque[x].geste = "ecrire_refresh" /\ x # Usager /\ enCours' = Personne
           /\ renouvellement' = [renouvellement EXCEPT ![x] = SansRenouvellement]
  <2>1. x \in Requetes /\ renouvellement[x].phase = "ecrit"
    BY <1>5 DEF Acteurs, IInvSession, RenouvellementUnique
  <2>2. /\ renouvellement'[x] = SansRenouvellement
        /\ \A q \in Requetes : q # x => renouvellement'[q] = renouvellement[q]
        /\ \A q \in Requetes : q # x => renouvellement[q].phase = "repos"
    BY <1>5, <2>1 DEF IInvSession, FormeSession, RenouvellementUnique
  <2>3. \A q \in Requetes : renouvellement'[q].phase = "repos"
    BY <2>2 DEF SansRenouvellement
  <2>4. FormeSession'
    BY <1>1, <1>2, <1>5, <2>3 DEF IInvSession, FormeSession, SansRenouvellement
  <2>5. RenouvellementUnique'
    BY <1>3, <2>2, <2>3 DEF IInvSession, RenouvellementUnique
  <2>6. PresentationSaine' /\ OrphelinsCourants' /\ VolFonde'
    BY <1>1, <2>3 DEF IInvSession, PresentationSaine, OrphelinsCourants, VolFonde
  <2>7. MemoireSaine'
    BY <1>1, <2>1, <2>2 DEF IInvSession, MemoireSaine, Saine, SonJeton
  <2>8. ConnexionNeuve'
    BY <1>1, <2>3 DEF IInvSession, ConnexionNeuve, Saine
  <2> QED
    BY <2>4, <2>5, <2>6, <2>7, <2>8 DEF IInvSession
<1> QED
  BY <1>4, <1>5 DEF Terminer, Conclure

LEMMA StepRevoquer ==
  ASSUME IInvSession, NEW s \in Sessions, Revoquer(s)
  PROVE  IInvSession'
<1>1. /\ revocation' = [revocation EXCEPT ![s] = "a_distance"]
      /\ UNCHANGED <<rang, memoire, disque, stockage, renouvellement, enCours, connexion,
                     orphelins, rechargees>>
  BY DEF Revoquer, appareil, file
<1>2. FormeSession' /\ VolFonde'
  BY <1>1 DEF IInvSession, FormeSession, VolFonde
<1> QED
  BY <1>1, <1>2 DEF IInvSession, RenouvellementUnique, PresentationSaine, OrphelinsCourants,
     MemoireSaine, ConnexionNeuve, Saine

\* No token of the new session is about: it would be current at rank 0.
LEMMA StepOuvrirSession ==
  ASSUME IInvSession, NEW s \in Sessions, OuvrirSession(s)
  PROVE  IInvSession'
<1>1. /\ rang[s] = 0 /\ rang' = [rang EXCEPT ![s] = 1] /\ connexion' = s /\ memoire = Vide
      /\ UNCHANGED <<revocation, memoire, disque, stockage, renouvellement, enCours, orphelins,
                     rechargees>>
  BY DEF OuvrirSession, Creer, appareil, file
<1>2. \A t \in Jetons : t[1] \in Sessions /\ t[2] # 0
  BY DEF Jetons
<1>3. /\ rang' \in [Sessions -> Nat] /\ rang'[s] = 1
      /\ \A u \in Sessions : u # s => rang'[u] = rang[u]
  BY <1>1 DEF IInvSession, FormeSession
<1>4. memoire.refresh = Aucun /\ memoire.refresh[1] = 0 /\ 0 \notin Sessions
  BY <1>1 DEF Vide, Paire, Aucun, Sessions
<1>5. FormeSession' /\ RenouvellementUnique' /\ VolFonde'
  BY <1>1, <1>3 DEF IInvSession, FormeSession, RenouvellementUnique, VolFonde
<1>6. \A o \in orphelins : o[1] \notin rechargees => o[1] # s /\ o[1] \in Sessions
  BY <1>1, <1>2 DEF IInvSession, FormeSession, OrphelinsCourants
<1>7. OrphelinsCourants'
  BY <1>1, <1>3, <1>6 DEF IInvSession, OrphelinsCourants
<1>8. \A r \in Requetes :
        /\ renouvellement[r].phase \in {"parti", "tourne"}
        /\ renouvellement[r].jeton[1] \notin rechargees
        => renouvellement[r].jeton[1] # s /\ renouvellement[r].jeton[1] \in Sessions
  BY <1>1, <1>2 DEF IInvSession, FormeSession, PresentationSaine, Saine
<1>9. PresentationSaine'
  BY <1>1, <1>3, <1>8 DEF IInvSession, PresentationSaine, Saine
<1>10. MemoireSaine'
  BY <1>1, <1>4 DEF MemoireSaine
<1>11. ConnexionNeuve'
  BY <1>1, <1>3, <1>4, <1>6, <1>8 DEF ConnexionNeuve, Saine
<1> QED
  BY <1>5, <1>7, <1>9, <1>10, <1>11 DEF IInvSession

LEMMA StepConnexion ==
  ASSUME IInvSession, RecevoirSession \/ PerdreSession \/ SeDeconnecter
  PROVE  IInvSession'
<1> DEFINE t == <<connexion, 1>>
<1>1. /\ UNCHANGED <<rang, revocation, stockage, renouvellement, enCours, orphelins, rechargees>>
      /\ connexion' \in {0, connexion}
      /\ connexion' = 0 \/ memoire' = Vide
  BY DEF RecevoirSession, PerdreSession, SeDeconnecter, serveur, appareil, file
<1>2. \/ UNCHANGED <<memoire, disque>>
      \/ memoire' = Vide /\ disque' = [disque EXCEPT ![Usager] = Effacement]
      \/ connexion # 0 /\ memoire' = Paire(t) /\ disque' = [disque EXCEPT ![Usager] = Ecriture(t)]
  BY DEF RecevoirSession, PerdreSession, SeDeconnecter, appareil
<1>3. Vide.refresh = Aucun /\ Vide.refresh[1] = 0 /\ Paire(t).refresh = t /\ t[1] = connexion
  BY DEF Vide, Paire, Aucun
<1>4. connexion # 0 => t \in Jetons /\ t # Aucun /\ connexion \in Sessions
  BY BornesAssumption DEF IInvSession, FormeSession, Jetons, Sessions, Aucun
<1>5. \A r \in Requetes \ {Usager} : disque'[r] = disque[r]
  BY <1>2 DEF IInvSession, FormeSession, Acteurs
<1>6. disque' \in [Acteurs -> [geste : GestesDisque \cup {"repos"}, jeton : Jetons \cup {Aucun}]]
  BY <1>2, <1>4 DEF IInvSession, FormeSession, Ecriture, Effacement, GestesDisque, Aucun
<1>7. FormeSession'
  BY <1>1, <1>2, <1>3, <1>4, <1>6 DEF IInvSession, FormeSession
<1>8. RenouvellementUnique' /\ PresentationSaine' /\ OrphelinsCourants' /\ VolFonde'
  BY <1>1, <1>5 DEF IInvSession, RenouvellementUnique, PresentationSaine, OrphelinsCourants,
     VolFonde, Saine
<1>9. MemoireSaine'
  BY <1>1, <1>2, <1>3, <1>4 DEF IInvSession, MemoireSaine, ConnexionNeuve, Saine
<1>10. ConnexionNeuve'
  BY <1>1, <1>2, <1>3 DEF IInvSession, ConnexionNeuve, Saine
<1> QED
  BY <1>7, <1>8, <1>9, <1>10 DEF IInvSession

\* What the device held and had presented, or lost track of, is noticed.
LEMMA StepRedemarrer ==
  ASSUME IInvSession, Redemarrer
  PROVE  IInvSession'
<1> DEFINE t == Lu.refresh
           partis == {renouvellement[r].jeton :
                        r \in {q \in Requetes : renouvellement[q].phase = "parti"}}
<1>1. /\ memoire' = Lu /\ orphelins' = orphelins \cup partis
      /\ rechargees' = rechargees \cup
           {s \in Sessions : s = t[1] /\ (t \in orphelins' \/ rang[s] # t[2])}
      /\ renouvellement' = [r \in Requetes |-> SansRenouvellement]
      /\ disque' = [x \in Acteurs |-> Inactif]
      /\ connexion' = 0 /\ UNCHANGED <<rang, revocation, stockage>>
  BY DEF Redemarrer, serveur
<1>2. /\ t \in Jetons \cup {Aucun} /\ (t = Aucun => Lu = Vide)
      /\ Aucun \notin Jetons /\ Aucun = <<0, 0>>
  BY DEF Lu, Vide, Paire, Aucun, Jetons, Sessions, IInvSession, FormeSession
<1>3. \A p \in partis : \E r \in Requetes :
        p = renouvellement[r].jeton /\ renouvellement[r].phase = "parti"
  OBVIOUS
<1>4. \A r \in Requetes : renouvellement'[r].phase = "repos"
  BY <1>1 DEF SansRenouvellement
<1> HIDE DEF partis
<1>5. /\ partis \subseteq Jetons
      /\ \A p \in partis : p[1] \notin rechargees => rang[p[1]] = p[2]
  BY <1>3 DEF IInvSession, FormeSession, PresentationSaine, Saine
<1>6. FormeSession'
  BY <1>1, <1>2, <1>4, <1>5 DEF IInvSession, FormeSession, SansRenouvellement, Inactif
<1>7. RenouvellementUnique' /\ PresentationSaine' /\ ConnexionNeuve'
  BY <1>1, <1>4 DEF RenouvellementUnique, PresentationSaine, ConnexionNeuve, Acteurs, Inactif
<1>8. OrphelinsCourants' /\ VolFonde'
  BY <1>1, <1>5 DEF IInvSession, OrphelinsCourants, VolFonde
<1>9. MemoireSaine'
  <2> SUFFICES ASSUME t # Aucun, t[1] \notin rechargees'
               PROVE  rang'[t[1]] = t[2] /\ \A o \in orphelins' : o[1] # t[1]
    BY <1>1 DEF MemoireSaine, Saine
  <2>1. t \in Jetons /\ t[1] \in Sessions /\ t = <<t[1], t[2]>>
    BY <1>2 DEF Jetons
  <2>2. rang[t[1]] = t[2] /\ t \notin orphelins'
    BY <1>1, <2>1
  <2>3. ASSUME NEW o \in orphelins', o[1] = t[1] PROVE FALSE
    <3>1. o \in Jetons /\ o = <<o[1], o[2]>>
      BY <1>6 DEF FormeSession, Jetons
    <3>2. rang[o[1]] = o[2]
      BY <1>1, <1>8, <2>3 DEF OrphelinsCourants
    <3> QED
      BY <2>1, <2>2, <2>3, <3>1, <3>2
  <2> QED
    BY <1>1, <2>2, <2>3
<1> QED
  BY <1>6, <1>7, <1>8, <1>9 DEF IInvSession

LEMMA StepIInvSession == IInvSession /\ [NextSession]_varsSession => IInvSession'
<1> SUFFICES ASSUME IInvSession, [NextSession]_varsSession PROVE IInvSession'
  OBVIOUS
<1>1. CASE UNCHANGED varsSession
  BY <1>1 DEF varsSession, serveur, appareil, file, IInvSession, FormeSession,
     RenouvellementUnique, PresentationSaine, OrphelinsCourants, MemoireSaine, ConnexionNeuve,
     VolFonde, Saine
<1>2. CASE \E r \in Requetes : \/ Envoyer(r) \/ Repondre(r) \/ TraiterRenouvellement(r)
                               \/ Appliquer(r)
  BY <1>2, StepRequete, StepTraiterRenouvellement, StepRecevoir401, StepEchouer,
     StepRecevoirJetons DEF Appliquer
<1>3. CASE \/ \E x \in Acteurs : Premiere(x) \/ Terminer(x)
           \/ \E t \in Jetons : TraiterOrphelin(t)
           \/ \E s \in Sessions : Revoquer(s) \/ OuvrirSession(s)
  BY <1>3, StepPremiere, StepTerminer, StepTraiterOrphelin, StepRevoquer, StepOuvrirSession
<1>4. CASE RecevoirSession \/ PerdreSession \/ SeDeconnecter \/ Redemarrer
  BY <1>4, StepConnexion, StepRedemarrer
<1> QED
  BY <1>1, <1>2, <1>3, <1>4 DEF NextSession

\* Along every behaviour a token is presented once at a time, and a token that
\* is about to be presented is the one the server holds.
THEOREM InvarianceSession == SpecSession => []IInvSession
BY InitIInvSession, StepIInvSession, PTL DEF SpecSession

\* No session is taken for stolen (session.rs, tourner_refresh) unless a killed
\* application came back with a token it had already presented: not for
\* crossed requests, lost or late answers, nor a sign-out during a renewal.
THEOREM VolSur == SpecSession => []VolFonde
<1>1. IInvSession => VolFonde
  BY DEF IInvSession
<1> QED
  BY <1>1, InvarianceSession, PTL

------------------------------------------------------------------------------
(***************************************************************************)
(* The creation of orders.  A total is a sum over the catalogue, of which   *)
(* nothing is assumed: the types say all but what a total is.               *)
(***************************************************************************)
FormeDeDemande(q) ==
  q \in [etape : Etapes, cle : SUBSET Cles, mode : Modes, debut : 1..3, total : {q.total}]
FormeDeCommande(c) == c \in [total : {c.total}, mode : Modes \cup {"aucun"}, debut : 1..3]

TypesCreation ==
  /\ restriction \in 1..3
  /\ tentative = [r \in Demandes |-> tentative[r]] /\ \A r \in Demandes : FormeDeDemande(tentative[r])
  /\ commande = [k \in Cles |-> commande[k]] /\ \A k \in Cles : FormeDeCommande(commande[k])
  /\ creees \in [Cles -> Nat]

\* A request at work bears one key, and the restriction that it began with was
\* not a block; only a ceiling read under no restriction lets cash through.
EnVol(r) == tentative[r].etape \notin {"repos", "conclue"}
DemandesFondees ==
  \A r \in Demandes : EnVol(r) =>
    /\ \E k \in Cles : tentative[r].cle = {k}
    /\ tentative[r].debut <= restriction /\ Restrictions[tentative[r].debut] # "bloque"
    /\ tentative[r].etape \in {"insertion", "figeage"} /\ tentative[r].mode = "cash"
         => Restrictions[tentative[r].debut] = "aucune"

\* The request that has inserted a key is alone to, and no order has it yet.
InsertionExclusive ==
  \A r \in Demandes : tentative[r].etape = "figeage" =>
    /\ \A k \in Cles : tentative[r].cle = {k} => ~Existe(k)
    /\ \A q \in Demandes :
         tentative[q].etape = "figeage" /\ tentative[q].cle = tentative[r].cle => q = r

\* What was announced was announced of an order, once.
AnnoncesFondees ==
  /\ \A k \in Cles : creees[k] = IF Existe(k) THEN 1 ELSE 0
  /\ \A x \in reponses : x[1] \in Cles /\ Existe(x[1])
                         /\ x = <<x[1], commande[x[1]].total, commande[x[1]].mode>>

IInvCreation ==
  /\ TypesCreation /\ DemandesFondees /\ InsertionExclusive /\ AnnoncesFondees
  /\ RestrictionRespectee

LEMMA CleDe ==
  ASSUME NEW r, NEW k \in Cles, tentative[r].cle = {k}
  PROVE  Cle(r) = k
BY DEF Cle

\* A request that is over bears nothing.
LEMMA FormeFinie ==
  /\ FormeDeDemande(Finie) /\ Finie.etape = "conclue"
  /\ FormeDeDemande(Repos) /\ Repos.etape = "repos"
<1>1. "repos" \in Etapes /\ "conclue" \in Etapes /\ "cash" \in Modes
  BY DEF Etapes, Modes
<1>2. FormeDeDemande(Repos) /\ Repos.etape = "repos"
  BY <1>1 DEF FormeDeDemande, Repos
<1>3. FormeDeDemande(Finie) /\ Finie.etape = "conclue"
  BY <1>1 DEF FormeDeDemande, Repos, Finie
<1> QED
  BY <1>2, <1>3

\* The request moves on, or ends, with nothing else written.
LEMMA DemandeAvance ==
  ASSUME IInvCreation, NEW r \in Demandes, NEW q, FormeDeDemande(q),
         tentative' = [tentative EXCEPT ![r] = q],
         q.etape \notin {"repos", "conclue"} =>
           /\ \E k \in Cles : q.cle = {k}
           /\ q.debut <= restriction /\ Restrictions[q.debut] # "bloque"
           /\ q.etape \in {"insertion", "figeage"} /\ q.mode = "cash"
                => Restrictions[q.debut] = "aucune",
         q.etape = "figeage" =>
           /\ \A k \in Cles : q.cle = {k} => ~Existe(k)
           /\ \A p \in Demandes : tentative[p].etape = "figeage" => tentative[p].cle # q.cle,
         UNCHANGED <<restriction, commande, creees>>,
         AnnoncesFondees'
  PROVE  IInvCreation'
<1>1. /\ tentative'[r] = q /\ tentative' = [p \in Demandes |-> tentative'[p]]
      /\ \A p \in Demandes : p # r => tentative'[p] = tentative[p]
  BY DEF IInvCreation, TypesCreation
<1>2. TypesCreation'
  BY <1>1 DEF IInvCreation, TypesCreation
<1>3. DemandesFondees'
  BY <1>1 DEF IInvCreation, DemandesFondees, EnVol
<1>4. InsertionExclusive'
  BY <1>1 DEF IInvCreation, InsertionExclusive, Existe
<1>5. RestrictionRespectee'
  BY DEF IInvCreation, RestrictionRespectee, Existe
<1> QED
  BY <1>2, <1>3, <1>4, <1>5 DEF IInvCreation

LEMMA AnnoncesGardees ==
  ASSUME IInvCreation, UNCHANGED <<commande, creees>>,
         UNCHANGED reponses \/ \E k \in Cles : Existe(k) /\ Annoncer(k)
  PROVE  AnnoncesFondees'
BY DEF IInvCreation, AnnoncesFondees, Annoncer, Existe

LEMMA DemandeFinit ==
  ASSUME IInvCreation, NEW r \in Demandes, Finir(r), UNCHANGED <<restriction, commande, creees>>,
         UNCHANGED reponses \/ \E k \in Cles : Existe(k) /\ Annoncer(k)
  PROVE  IInvCreation'
BY FormeFinie, AnnoncesGardees, DemandeAvance DEF Finir

\* A request that passes keeps its key, its mode and the restriction it began with.
Poursuit(r, q, etape) ==
  /\ tentative' = [tentative EXCEPT ![r] = q] /\ FormeDeDemande(q)
  /\ q.etape = etape /\ q.cle = tentative[r].cle
  /\ q.mode = tentative[r].mode /\ q.debut = tentative[r].debut

LEMMA Passage ==
  ASSUME IInvCreation, NEW r \in Demandes, NEW etape \in Etapes, Passer(r, etape)
  PROVE  \E q : Poursuit(r, q, etape)
<1> DEFINE q == [tentative[r] EXCEPT !.etape = etape]
<1>1. FormeDeDemande(tentative[r])
  BY DEF IInvCreation, TypesCreation
<1>2. /\ FormeDeDemande(q) /\ q.etape = etape /\ q.cle = tentative[r].cle
      /\ q.mode = tentative[r].mode /\ q.debut = tentative[r].debut
  BY <1>1 DEF FormeDeDemande
<1>3. tentative' = [tentative EXCEPT ![r] = q]
  BY DEF Passer
<1> QED
  BY <1>2, <1>3 DEF Poursuit

LEMMA DemandePasse ==
  ASSUME IInvCreation, NEW r \in Demandes, EnVol(r), NEW q, NEW etape, Poursuit(r, q, etape),
         etape \in {"insertion", "figeage"} =>
           \/ tentative[r].etape = "insertion"
           \/ tentative[r].mode = "cash" => Restrictions[restriction] = "aucune",
         etape = "figeage" =>
           /\ \A k \in Cles : tentative[r].cle = {k} => ~Existe(k)
           /\ ~Attend(r),
         UNCHANGED <<restriction, commande, creees, reponses>>
  PROVE  IInvCreation'
<1>2. /\ FormeDeDemande(q) /\ q.etape = etape /\ q.cle = tentative[r].cle
      /\ q.mode = tentative[r].mode /\ q.debut = tentative[r].debut
      /\ tentative' = [tentative EXCEPT ![r] = q]
  BY DEF Poursuit
<1>4. /\ \E k \in Cles : q.cle = {k}
      /\ q.debut <= restriction /\ Restrictions[q.debut] # "bloque"
  BY <1>2 DEF IInvCreation, DemandesFondees
<1>5. etape \in {"insertion", "figeage"} /\ q.mode = "cash" => Restrictions[q.debut] = "aucune"
  <2>1. CASE tentative[r].etape = "insertion"
    BY <1>2, <2>1 DEF IInvCreation, DemandesFondees
  <2>2. CASE q.mode = "cash" /\ Restrictions[restriction] = "aucune"
    <3>1. restriction \in 1..3 /\ q.debut \in 1..3 /\ q.debut <= restriction
      BY <1>2, <1>4 DEF FormeDeDemande, IInvCreation, TypesCreation
    <3>2. restriction = 1
      BY <2>2, <3>1 DEF Restrictions
    <3>3. q.debut = restriction
      BY <3>1, <3>2
    <3> QED
      BY <2>2, <3>3
  <2> QED
    BY <1>2, <2>1, <2>2
<1>6. etape = "figeage" =>
        \A p \in Demandes : tentative[p].etape = "figeage" => tentative[p].cle # q.cle
  BY <1>2 DEF Attend
<1> QED
  BY <1>2, <1>4, <1>5, <1>6, AnnoncesGardees, DemandeAvance


LEMMA StepDemande ==
  ASSUME IInvCreation, NEW r \in Demandes,
         \/ \E k \in Cles, m \in Modes : Commencer(r, k, m)
         \/ ResoudrePanier(r) \/ VerifierVendeur(r)
         \/ \E p \in Plafonds : DeciderPaiement(r, p)
         \/ Inserer(r) \/ Abandonner(r)
  PROVE  IInvCreation'
<1>1. ASSUME NEW k \in Cles, NEW m \in Modes, Commencer(r, k, m) PROVE IInvCreation'
  <2> DEFINE q == [etape |-> "panier", cle |-> {k}, mode |-> m, debut |-> restriction, total |-> 0]
  <2>1. CASE Finir(r) /\ (UNCHANGED reponses \/ (Existe(k) /\ Annoncer(k)))
    BY <1>1, <2>1, DemandeFinit DEF Commencer
  <2>2. CASE /\ tentative' = [tentative EXCEPT ![r] = q] /\ UNCHANGED reponses
             /\ Restrictions[restriction] # "bloque"
    <3>1. FormeDeDemande(q) /\ q.etape = "panier" /\ q.cle = {k} /\ q.debut = restriction
      BY DEF FormeDeDemande, Etapes, IInvCreation, TypesCreation
    <3>2. restriction <= restriction
      BY DEF IInvCreation, TypesCreation
    <3> HIDE DEF q
    <3> QED
      BY <1>1, <2>2, <3>1, <3>2, AnnoncesGardees, DemandeAvance DEF Commencer
  <2> QED
    BY <1>1, <2>1, <2>2 DEF Commencer, Finir
<1>2. CASE ResoudrePanier(r)
  <2>1. CASE Finir(r)
    BY <1>2, <2>1, DemandeFinit DEF ResoudrePanier
  <2>2. CASE tentative' = [tentative EXCEPT ![r] =
               [@ EXCEPT !.etape = "verification", !.total = PrixDuPanier + Devis]]
    <3> DEFINE q == [tentative[r] EXCEPT !.etape = "verification", !.total = PrixDuPanier + Devis]
    <3>1. "verification" \in Etapes /\ EnVol(r) /\ FormeDeDemande(tentative[r])
      BY <1>2 DEF Etapes, EnVol, ResoudrePanier, IInvCreation, TypesCreation
    <3>2. Poursuit(r, q, "verification")
      BY <2>2, <3>1 DEF Poursuit, FormeDeDemande
    <3> HIDE DEF q
    <3> QED
      BY <1>2, <3>1, <3>2, DemandePasse DEF ResoudrePanier
  <2> QED
    BY <1>2, <2>1, <2>2 DEF ResoudrePanier, Finir
<1>4. CASE VerifierVendeur(r)
  <2>1. CASE Finir(r)
    BY <1>4, <2>1, DemandeFinit DEF VerifierVendeur
  <2>2. CASE Passer(r, "decision")
    <3>1. "decision" \in Etapes /\ EnVol(r)
      BY <1>4 DEF Etapes, EnVol, VerifierVendeur
    <3> QED
      BY <1>4, <2>2, <3>1, Passage, DemandePasse DEF VerifierVendeur
  <2> QED
    BY <1>4, <2>1, <2>2 DEF VerifierVendeur, PasserSi
<1>5. ASSUME NEW p \in Plafonds, DeciderPaiement(r, p) PROVE IInvCreation'
  <2>1. CASE Finir(r)
    BY <1>5, <2>1, DemandeFinit DEF DeciderPaiement
  <2>2. CASE Passer(r, "insertion") /\ (tentative[r].mode = "cash" => CashAutorise(r, p))
    <3>1. "insertion" \in Etapes /\ EnVol(r)
      BY <1>5 DEF Etapes, EnVol, DeciderPaiement
    <3> QED
      BY <1>5, <2>2, <3>1, Passage, DemandePasse DEF DeciderPaiement, CashAutorise
  <2> QED
    BY <1>5, <2>1, <2>2 DEF DeciderPaiement, PasserSi
<1>6. CASE Inserer(r)
  <2>1. PICK k \in Cles : tentative[r].cle = {k}
    BY <1>6 DEF Inserer, IInvCreation, DemandesFondees, EnVol
  <2>2. Cle(r) = k
    BY <2>1, CleDe
  <2>3. CASE Finir(r) /\ (UNCHANGED reponses \/ (Existe(k) /\ Annoncer(k)))
    BY <1>6, <2>3, DemandeFinit DEF Inserer
  <2>4. CASE ~Existe(k) /\ Passer(r, "figeage") /\ UNCHANGED reponses
    <3>1. "figeage" \in Etapes /\ EnVol(r)
      BY <1>6 DEF Etapes, EnVol, Inserer
    <3>2. \A c \in Cles : tentative[r].cle = {c} => ~Existe(c)
      BY <2>1, <2>4
    <3> QED
      BY <1>6, <2>4, <3>1, <3>2, Passage, DemandePasse DEF Inserer
  <2> QED
    BY <1>6, <2>2, <2>3, <2>4 DEF Inserer, ClePrise, PasserSi
<1>7. CASE Abandonner(r)
  BY <1>7, DemandeFinit DEF Abandonner
<1> QED
  BY <1>1, <1>2, <1>4, <1>5, <1>6, <1>7

\* The commit of the only request that has inserted the key.
LEMMA StepCommettre ==
  ASSUME IInvCreation, NEW r \in Demandes, Commettre(r)
  PROVE  IInvCreation'
<1> DEFINE q == tentative[r]
           o == [total |-> q.total, mode |-> q.mode, debut |-> q.debut]
<1>1. PICK k \in Cles : q.cle = {k}
  BY DEF Commettre, IInvCreation, DemandesFondees, EnVol
<1>2. Cle(r) = k
  BY <1>1, CleDe
<1>3. /\ q.etape = "figeage" /\ commande' = [commande EXCEPT ![k] = o]
      /\ creees' = [creees EXCEPT ![k] = @ + 1]
      /\ reponses' = reponses \cup {<<k, q.total, q.mode>>}
      /\ tentative' = [tentative EXCEPT ![r] = Finie] /\ UNCHANGED restriction
  BY <1>2 DEF Commettre, Finir
<1>4. FormeDeDemande(q)
  BY DEF IInvCreation, TypesCreation
<1>5. ~Existe(k)
  BY <1>1, <1>3 DEF IInvCreation, InsertionExclusive
<1>6. /\ FormeDeCommande(o) /\ o # Absente
      /\ o.total = q.total /\ o.mode = q.mode /\ o.debut = q.debut
  BY <1>4 DEF FormeDeDemande, FormeDeCommande, Absente, Modes
<1>7. /\ Restrictions[q.debut] # "bloque"
      /\ q.mode = "cash" => Restrictions[q.debut] = "aucune"
  BY <1>3 DEF IInvCreation, DemandesFondees, EnVol
<1> HIDE DEF q, o
<1>8. /\ commande'[k] = o /\ commande' = [c \in Cles |-> commande'[c]]
      /\ \A c \in Cles : c # k => commande'[c] = commande[c]
  BY <1>3 DEF IInvCreation, TypesCreation
<1>9. /\ tentative'[r] = Finie /\ tentative' = [p \in Demandes |-> tentative'[p]]
      /\ \A p \in Demandes : p # r => tentative'[p] = tentative[p]
  BY <1>3 DEF IInvCreation, TypesCreation
<1>10. TypesCreation'
  BY <1>3, <1>6, <1>8, <1>9, FormeFinie DEF IInvCreation, TypesCreation
<1>11. DemandesFondees'
  BY <1>3, <1>9, FormeFinie DEF IInvCreation, DemandesFondees, EnVol
<1>12. InsertionExclusive'
  <2>1. \A p \in Demandes : tentative'[p].etape = "figeage" =>
          p # r /\ tentative[p].etape = "figeage" /\ tentative'[p] = tentative[p] /\ tentative[p].cle # {k}
    BY <1>1, <1>3, <1>9, FormeFinie DEF IInvCreation, InsertionExclusive, q
  <2> QED
    BY <1>8, <2>1 DEF IInvCreation, InsertionExclusive, Existe
<1>13. AnnoncesFondees'
  <2>1. \A c \in Cles : Existe(c)' = (c = k \/ Existe(c))
    BY <1>6, <1>8 DEF Existe
  <2>2. \A c \in Cles : creees'[c] = IF Existe(c)' THEN 1 ELSE 0
    <3>1. creees \in [Cles -> Nat] /\ creees[k] = 0
      BY <1>5 DEF IInvCreation, AnnoncesFondees, TypesCreation
    <3>2. creees'[k] = 1 /\ \A c \in Cles : c # k => creees'[c] = creees[c]
      BY <1>3, <3>1
    <3> QED
      BY <2>1, <3>2 DEF IInvCreation, AnnoncesFondees
  <2>3. ASSUME NEW x \in reponses'
        PROVE  x[1] \in Cles /\ Existe(x[1])'
               /\ x = <<x[1], commande'[x[1]].total, commande'[x[1]].mode>>
    <3>1. CASE x \in reponses
      BY <1>5, <1>8, <2>1, <3>1 DEF IInvCreation, AnnoncesFondees
    <3>2. CASE x = <<k, q.total, q.mode>>
      BY <1>6, <1>8, <2>1, <3>2
    <3> QED
      BY <1>3, <3>1, <3>2
  <2> QED
    BY <2>2, <2>3 DEF AnnoncesFondees
<1>14. RestrictionRespectee'
  BY <1>6, <1>7, <1>8 DEF IInvCreation, RestrictionRespectee, Existe
<1> QED
  BY <1>10, <1>11, <1>12, <1>13, <1>14 DEF IInvCreation

LEMMA InitIInvCreation == InitCreation => IInvCreation
<1> SUFFICES ASSUME InitCreation PROVE IInvCreation
  OBVIOUS
<1>1. FormeDeCommande(Absente)
  BY DEF FormeDeCommande, Absente
<1>2. TypesCreation
  BY <1>1, FormeFinie DEF InitCreation, TypesCreation
<1> QED
  BY <1>2, FormeFinie
  DEF InitCreation, IInvCreation, DemandesFondees, EnVol, InsertionExclusive, AnnoncesFondees,
      RestrictionRespectee, Existe

LEMMA StepIInvCreation == IInvCreation /\ [NextCreation]_varsCreation => IInvCreation'
<1> SUFFICES ASSUME IInvCreation, [NextCreation]_varsCreation PROVE IInvCreation'
  OBVIOUS
<1>1. CASE Restreindre
  <2>1. restriction \in 1..3 /\ restriction' \in 1..3 /\ restriction <= restriction'
    BY <1>1 DEF Restreindre, IInvCreation, TypesCreation
  <2>2. TypesCreation'
    BY <1>1, <2>1 DEF Restreindre, IInvCreation, TypesCreation
  <2>3. DemandesFondees'
    <3>1. \A r \in Demandes : tentative[r].debut \in 1..3
      BY DEF IInvCreation, TypesCreation, FormeDeDemande
    <3> QED
      BY <1>1, <2>1, <3>1 DEF Restreindre, IInvCreation, DemandesFondees, EnVol
  <2>4. InsertionExclusive' /\ AnnoncesFondees' /\ RestrictionRespectee'
    BY <1>1 DEF Restreindre, IInvCreation, InsertionExclusive, AnnoncesFondees,
       RestrictionRespectee, Existe
  <2> QED
    BY <2>2, <2>3, <2>4 DEF IInvCreation
<1>2. CASE Editer \/ UNCHANGED varsCreation
  BY <1>2 DEF Editer, varsCreation, IInvCreation, TypesCreation, DemandesFondees, EnVol,
     InsertionExclusive, AnnoncesFondees, RestrictionRespectee, Existe
<1> QED
  BY <1>1, <1>2, StepDemande, StepCommettre DEF NextCreation

\* However the requests of a client, the editions of the catalogue and the
\* restrictions of the account interleave, the inductive invariant holds.
THEOREM InvarianceCreation == SpecCreation => []IInvCreation
BY InitIInvCreation, StepIInvCreation, PTL DEF SpecCreation

\* Every answer given for one key shows the same order (creer_commande), retried
\* or raced, whatever the catalogue has become.
THEOREM ReponseSure == SpecCreation => []ReponseUnique
<1>1. IInvCreation => ReponseUnique
  BY DEF IInvCreation, AnnoncesFondees, ReponseUnique
<1> QED
  BY <1>1, InvarianceCreation, PTL

\* No order is created for an account that was blocked when its request began, nor
\* paid in cash for one on which prepayment was imposed then (decision_paiement).
THEOREM RestrictionSure == SpecCreation => []RestrictionRespectee
BY InvarianceCreation, PTL DEF IInvCreation

------------------------------------------------------------------------------
(***************************************************************************)
(* The shortages reported by couriers.                                     *)
(***************************************************************************)
\* The couriers who reported a shortage of a among the reports S.
Rapporteurs(S, a) == {x[3] : x \in {y \in S : y[2] = a}}

TypesEditions ==
  /\ article \in [Articles -> [prix : Prix, retire : BOOLEAN, disponible : BOOLEAN,
                               source : Sources]]
  /\ edition \in [Editeurs ->
        [geste : {"modifier"}, article : SUBSET Articles, prix : Prix]
          \cup [geste : Gestes \ {"modifier"}, article : SUBSET Articles, prix : {0}]
          \cup {SansEdition}]

TypesSignalements ==
  signalement \in [Signaleurs ->
    [id : 1..NbSignalements, article : {{a} : a \in Articles}, disponible : BOOLEAN,
     distincts : Nat, etape : {"lu", "compte"}] \cup {SansSignalement}]

\* A courier about to report has counted no more couriers than will have.
ComptesFondes ==
  /\ IsFiniteSet(signalements)
  /\ \A c \in Signaleurs, a \in Articles :
       signalement[c].etape = "compte" /\ signalement[c].article = {a} =>
         signalement[c].distincts <= Cardinality(Rapporteurs(signalements \cup Signale(c), a))

IInvCatalogue == TypesEditions /\ TypesSignalements /\ ComptesFondes

LEMMA RapporteursFinis ==
  ASSUME NEW S, NEW a, IsFiniteSet(S)
  PROVE  IsFiniteSet(Rapporteurs(S, a))
<1> DEFINE R == {y \in S : y[2] = a}
           f == [x \in R |-> x[3]]
<1>1. IsFiniteSet(R)
  BY FS_Subset
<1>2. f \in Surjection(R, Rapporteurs(S, a))
  BY DEF Surjection, Rapporteurs
<1> HIDE DEF R, f
<1> QED
  BY <1>1, <1>2, FS_Surjection

LEMMA RapporteursCroissent ==
  ASSUME NEW S, NEW T, NEW a, S \subseteq T, IsFiniteSet(T)
  PROVE  /\ Cardinality(Rapporteurs(S, a)) \in Nat /\ Cardinality(Rapporteurs(T, a)) \in Nat
         /\ Cardinality(Rapporteurs(S, a)) <= Cardinality(Rapporteurs(T, a))
<1>1. IsFiniteSet(Rapporteurs(T, a))
  BY RapporteursFinis
<1>2. Rapporteurs(S, a) \subseteq Rapporteurs(T, a)
  BY DEF Rapporteurs
<1>3. IsFiniteSet(Rapporteurs(S, a))
  BY <1>1, <1>2, FS_Subset
<1> QED
  BY <1>1, <1>2, <1>3, FS_Subset, FS_CardinalityType

\* A report is one row.
LEMMA UneLigne ==
  ASSUME IInvCatalogue, NEW c \in Signaleurs
  PROVE  IsFiniteSet(Signale(c)) /\ IsFiniteSet(signalements \cup Signale(c))
<1>1. CASE signalement[c].article = {}
  <2>1. Signale(c) = {}
    BY <1>1 DEF Signale
  <2> QED
    BY <2>1, FS_EmptySet DEF IInvCatalogue, ComptesFondes
<1>2. CASE \E a : signalement[c].article = {a}
  <2>1. PICK a : signalement[c].article = {a}
    BY <1>2
  <2>2. Signale(c) = {<<signalement[c].id, a, c>>}
    BY <2>1 DEF Signale
  <2>3. IsFiniteSet({<<signalement[c].id, a, c>>})
    BY FS_Singleton
  <2>4. IsFiniteSet(signalements \cup {<<signalement[c].id, a, c>>})
    BY FS_AddElement DEF IInvCatalogue, ComptesFondes
  <2> QED
    BY <2>2, <2>3, <2>4
<1> QED
  BY <1>1, <1>2 DEF IInvCatalogue, TypesSignalements, SansSignalement

\* What an edition writes is an article, of another source only by its editor.
LEMMA EcritArticle ==
  ASSUME IInvCatalogue, NEW e \in Editeurs, NEW a \in Articles, edition[e] # SansEdition
  PROVE  /\ Ecrit(a, e) \in [prix : Prix, retire : BOOLEAN, disponible : BOOLEAN, source : Sources]
         /\ Ecrit(a, e).source \in {article[a].source, e}
<1>1. /\ article[a] \in [prix : Prix, retire : BOOLEAN, disponible : BOOLEAN, source : Sources]
      /\ edition[e].geste \in Gestes
      /\ edition[e].geste = "modifier" => edition[e].prix \in Prix
      /\ e \in Sources
  BY DEF IInvCatalogue, TypesEditions, Sources, Gestes
<1> DEFINE t == article[a]
<1>2. CASE edition[e].geste = "modifier"
  BY <1>1, <1>2 DEF Ecrit
<1>3. CASE edition[e].geste = "retirer"
  BY <1>1, <1>3 DEF Ecrit
<1>4. CASE edition[e].geste = "remettre"
  BY <1>1, <1>4 DEF Ecrit
<1>5. CASE edition[e].geste = "vendre"
  BY <1>1, <1>5 DEF Ecrit
<1>6. CASE edition[e].geste = "epuiser"
  BY <1>1, <1>6 DEF Ecrit
<1> QED
  BY <1>1, <1>2, <1>3, <1>4, <1>5, <1>6 DEF Gestes

LEMMA StepEdition ==
  ASSUME IInvCatalogue, NEW e \in Editeurs,
         \/ EcrireArticle(e)
         \/ \E g \in Gestes, a \in Articles, p \in Prix \cup {0} : LireArticle(e, g, a, p)
  PROVE  IInvCatalogue'
<1>1. UNCHANGED <<signalement, signalements>>
  BY DEF EcrireArticle, LireArticle
<1>2. TypesSignalements' /\ ComptesFondes'
  BY <1>1 DEF IInvCatalogue, TypesSignalements, ComptesFondes, Signale
<1>3. CASE EcrireArticle(e)
  <2>1. \A a \in Articles :
          article'[a] \in [prix : Prix, retire : BOOLEAN, disponible : BOOLEAN, source : Sources]
    BY <1>3, EcritArticle DEF EcrireArticle, IInvCatalogue, TypesEditions
  <2>2. TypesEditions'
    BY <1>3, <2>1 DEF EcrireArticle, IInvCatalogue, TypesEditions
  <2> QED
    BY <1>2, <2>2 DEF IInvCatalogue
<1>4. ASSUME NEW g \in Gestes, NEW a \in Articles, NEW p \in Prix \cup {0}, LireArticle(e, g, a, p)
      PROVE  IInvCatalogue'
  <2>1. [geste |-> g, article |-> {a}, prix |-> p] \in
          [geste : {"modifier"}, article : SUBSET Articles, prix : Prix]
            \cup [geste : Gestes \ {"modifier"}, article : SUBSET Articles, prix : {0}]
    BY <1>4 DEF LireArticle
  <2>2. TypesEditions'
    BY <1>4, <2>1 DEF LireArticle, IInvCatalogue, TypesEditions
  <2> QED
    BY <1>2, <2>2 DEF IInvCatalogue
<1> QED
  BY <1>3, <1>4

LEMMA StepLireSignalement ==
  ASSUME IInvCatalogue, NEW c \in Signaleurs, NEW i \in 1..NbSignalements, NEW a \in Articles,
         LireSignalement(c, i, a)
  PROVE  IInvCatalogue'
<1> DEFINE n == [id |-> i, article |-> {a}, disponible |-> article[a].disponible,
                 distincts |-> 0, etape |-> "lu"]
<1>1. signalement' = [signalement EXCEPT ![c] = n] /\ UNCHANGED <<article, edition, signalements>>
  BY DEF LireSignalement
<1>2. n \in [id : 1..NbSignalements, article : {{x} : x \in Articles}, disponible : BOOLEAN,
             distincts : Nat, etape : {"lu", "compte"}] /\ n.etape = "lu"
  BY DEF IInvCatalogue, TypesEditions
<1> HIDE DEF n
<1>3. signalement'[c] = n /\ \A d \in Signaleurs : d # c => signalement'[d] = signalement[d]
  BY <1>1 DEF IInvCatalogue, TypesSignalements
<1>4. TypesEditions' /\ TypesSignalements'
  BY <1>1, <1>2 DEF IInvCatalogue, TypesEditions, TypesSignalements
<1>5. ComptesFondes'
  BY <1>1, <1>2, <1>3 DEF IInvCatalogue, ComptesFondes, Signale
<1> QED
  BY <1>4, <1>5 DEF IInvCatalogue

LEMMA StepCompter ==
  ASSUME IInvCatalogue, NEW c \in Signaleurs, NEW anciens, CompterSignalements(c, anciens)
  PROVE  IInvCatalogue'
<1> DEFINE vus == (signalements \ anciens) \cup Signale(c)
           tous == signalements \cup Signale(c)
           d == Distincts({x \in vus : x[2] \in signalement[c].article})
           n == [signalement[c] EXCEPT !.etape = "compte", !.distincts = d]
<1>1. PICK a \in Articles : signalement[c].article = {a}
  BY DEF CompterSignalements, IInvCatalogue, TypesSignalements, SansSignalement
<1>2. d = Cardinality(Rapporteurs(vus, a))
  <2>1. {x \in vus : x[2] \in signalement[c].article} = {x \in vus : x[2] = a}
    BY <1>1
  <2> QED
    BY <2>1 DEF Distincts, Rapporteurs
<1>3. IsFiniteSet(tous) /\ vus \subseteq tous
  BY UneLigne
<1>4. d \in Nat /\ d <= Cardinality(Rapporteurs(tous, a))
  BY <1>2, <1>3, RapporteursCroissent
<1>5. /\ signalement[c] \in [id : 1..NbSignalements, article : {{x} : x \in Articles},
                             disponible : BOOLEAN, distincts : Nat, etape : {"lu", "compte"}]
      /\ signalement' = [[signalement EXCEPT ![c].etape = "compte"] EXCEPT ![c].distincts = d]
      /\ UNCHANGED <<article, edition, signalements>>
  <2>1. signalement[c] # SansSignalement
    BY DEF CompterSignalements, SansSignalement
  <2> QED
    BY <2>1 DEF CompterSignalements, IInvCatalogue, TypesSignalements
<1> HIDE DEF d
<1>6. /\ n \in [id : 1..NbSignalements, article : {{x} : x \in Articles}, disponible : BOOLEAN,
                distincts : Nat, etape : {"lu", "compte"}]
      /\ n.id = signalement[c].id /\ n.article = signalement[c].article /\ n.distincts = d
  BY <1>4, <1>5
<1>11. signalement' = [signalement EXCEPT ![c] = n]
  BY <1>5 DEF IInvCatalogue, TypesSignalements
<1> HIDE DEF n
<1>7. signalement'[c] = n /\ \A e \in Signaleurs : e # c => signalement'[e] = signalement[e]
  BY <1>11 DEF IInvCatalogue, TypesSignalements
<1>8. \A e \in Signaleurs : Signale(e)' = Signale(e)
  BY <1>6, <1>7 DEF Signale
<1>9. TypesEditions' /\ TypesSignalements'
  BY <1>5, <1>6, <1>11 DEF IInvCatalogue, TypesEditions, TypesSignalements
<1>10. ComptesFondes'
  <2> SUFFICES ASSUME NEW e \in Signaleurs, NEW b \in Articles,
                      signalement'[e].etape = "compte", signalement'[e].article = {b}
               PROVE  signalement'[e].distincts
                        <= Cardinality(Rapporteurs(signalements \cup Signale(e), b))
    BY <1>5, <1>8 DEF IInvCatalogue, ComptesFondes
  <2>1. CASE e = c
    <3>1. b = a
      BY <1>1, <1>6, <1>7, <2>1
    <3> QED
      BY <1>2, <1>4, <1>6, <1>7, <2>1, <3>1
  <2>2. CASE e # c
    BY <1>7, <2>2 DEF IInvCatalogue, ComptesFondes
  <2> QED
    BY <2>1, <2>2
<1> QED
  BY <1>9, <1>10 DEF IInvCatalogue

LEMMA StepCommettreSignalement ==
  ASSUME IInvCatalogue, NEW c \in Signaleurs, CommettreSignalement(c)
  PROVE  IInvCatalogue'
<1>1. /\ signalements' = signalements \cup Signale(c)
      /\ signalement' = [signalement EXCEPT ![c] = SansSignalement]
      /\ UNCHANGED edition
  BY DEF CommettreSignalement
<1>2. IsFiniteSet(signalements')
  BY <1>1, UneLigne
<1>3. signalement'[c] = SansSignalement
      /\ \A e \in Signaleurs : e # c => signalement'[e] = signalement[e]
  BY <1>1 DEF IInvCatalogue, TypesSignalements
<1>4. TypesSignalements'
  BY <1>1 DEF IInvCatalogue, TypesSignalements
<1>5. TypesEditions'
  <2>1. "coursier" \in Sources
    BY DEF Sources
  <2> QED
    BY <1>1, <2>1 DEF CommettreSignalement, IInvCatalogue, TypesEditions
<1>6. ComptesFondes'
  <2> SUFFICES ASSUME NEW e \in Signaleurs, NEW b \in Articles,
                      signalement'[e].etape = "compte", signalement'[e].article = {b}
               PROVE  signalement'[e].distincts
                        <= Cardinality(Rapporteurs(signalements' \cup Signale(e)', b))
    BY <1>2 DEF ComptesFondes
  <2>1. e # c /\ signalement'[e] = signalement[e] /\ Signale(e)' = Signale(e)
    BY <1>3 DEF SansSignalement, Signale
  <2> DEFINE S == signalements \cup Signale(e)
             T == signalements' \cup Signale(e)
  <2>2. IsFiniteSet(T)
    <3>1. IsFiniteSet(Signale(c) \cup S)
      BY UneLigne, FS_Union
    <3>2. T = Signale(c) \cup S
      BY <1>1
    <3> HIDE DEF S, T
    <3> QED
      BY <3>1, <3>2
  <2>3. S \subseteq T
    BY <1>1
  <2>4. signalement[e].distincts <= Cardinality(Rapporteurs(S, b))
        /\ signalement[e].distincts \in Nat
    BY <2>1 DEF IInvCatalogue, ComptesFondes, TypesSignalements, SansSignalement
  <2> HIDE DEF S, T
  <2>5. signalement[e].distincts <= Cardinality(Rapporteurs(T, b))
    BY <2>2, <2>3, <2>4, RapporteursCroissent
  <2> QED
    BY <2>1, <2>5 DEF T
<1> QED
  BY <1>4, <1>5, <1>6 DEF IInvCatalogue

LEMMA StepIInvCatalogue == IInvCatalogue /\ [NextCreation]_varsCreation => IInvCatalogue'
<1> SUFFICES ASSUME IInvCatalogue, [NextCreation]_varsCreation PROVE IInvCatalogue'
  OBVIOUS
<1>1. CASE UNCHANGED <<article, edition, signalement, signalements>>
  BY <1>1 DEF IInvCatalogue, TypesEditions, TypesSignalements, ComptesFondes, Signale
<1>2. CASE EditerCatalogue
  BY <1>1, <1>2, StepEdition, StepLireSignalement, StepCompter, StepCommettreSignalement
  DEF EditerCatalogue, BasculerAgrement, BasculerBoutique
<1> QED
  BY <1>1, <1>2 DEF NextCreation, varsCreation, catalogue, Restreindre, Editer, Commencer,
     ResoudrePanier, VerifierVendeur, DeciderPaiement, Inserer, Commettre, Abandonner

LEMMA InitIInvCatalogue == InitCreation => IInvCatalogue
<1> SUFFICES ASSUME InitCreation PROVE IInvCatalogue
  OBVIOUS
<1>1. TypesEditions
  <2>1. "vendeur" \in Sources
    BY DEF Sources, Editeurs
  <2>2. \A a \in Articles :
          article[a] \in [prix : Prix, retire : BOOLEAN, disponible : BOOLEAN, source : Sources]
    <3> SUFFICES ASSUME NEW a \in Articles
                 PROVE  article[a] \in [prix : Prix, retire : BOOLEAN, disponible : BOOLEAN,
                                       source : Sources]
      OBVIOUS
    <3> DEFINE departs == {[prix |-> p, retire |-> FALSE, disponible |-> TRUE,
                            source |-> "vendeur"] : p \in Prix}
    <3>1. article \in [Articles -> departs]
      BY DEF InitCreation, InitCatalogue
    <3>2. \A p \in Prix : [prix |-> p, retire |-> FALSE, disponible |-> TRUE, source |-> "vendeur"]
                            \in [prix : Prix, retire : BOOLEAN, disponible : BOOLEAN, source : Sources]
      BY <2>1
    <3>3. \A x \in departs : \E p \in Prix :
            x = [prix |-> p, retire |-> FALSE, disponible |-> TRUE, source |-> "vendeur"]
      BY Zenon
    <3>4. \A x \in departs : x \in [prix : Prix, retire : BOOLEAN, disponible : BOOLEAN,
                                   source : Sources]
      BY <3>2, <3>3, Zenon
    <3> HIDE DEF departs
    <3> QED
      BY <3>1, <3>4
  <2> QED
    BY <2>2 DEF InitCreation, InitCatalogue, TypesEditions
<1>2. TypesSignalements
  BY DEF InitCreation, InitCatalogue, TypesSignalements
<1>3. ComptesFondes
  BY FS_EmptySet DEF InitCreation, InitCatalogue, ComptesFondes, SansSignalement
<1> QED
  BY <1>1, <1>2, <1>3 DEF IInvCatalogue

\* An article is masked on behalf of couriers (signaler_rupture) only once as many
\* of them as the threshold have reported it, races and replays included.
THEOREM MasquageSur == SpecCreation => MasquageFonde
<1>1. ASSUME IInvCatalogue, [NextCreation]_varsCreation, NEW a \in Articles,
             article'[a].source = "coursier", article[a].source # "coursier"
      PROVE  Cardinality(Rapporteurs(signalements', a)) >= Seuil
  <2>1. PICK c \in Signaleurs : CommettreSignalement(c)
    <3>1. article' # article
      BY <1>1
    <3>2. EditerCatalogue
      BY <1>1, <3>1 DEF NextCreation, varsCreation, catalogue, Restreindre, Editer, Commencer,
     ResoudrePanier, VerifierVendeur, DeciderPaiement, Inserer, Commettre, Abandonner
    <3>3. ASSUME NEW e \in Editeurs, EcrireArticle(e) PROVE FALSE
      <4>1. article'[a] \in {Ecrit(a, e), article[a]}
        BY <3>3 DEF EcrireArticle
      <4>2. Ecrit(a, e).source \in {article[a].source, e}
        BY <1>1, <3>3, EcritArticle DEF EcrireArticle
      <4> QED
        BY <1>1, <4>1, <4>2 DEF Editeurs
    <3> QED
      BY <3>1, <3>2, <3>3 DEF EditerCatalogue, BasculerAgrement, BasculerBoutique, LireArticle,
         LireSignalement, CompterSignalements
  <2>2. /\ signalement[c].etape = "compte" /\ signalement[c].distincts >= Seuil
        /\ a \in signalement[c].article /\ signalements' = signalements \cup Signale(c)
    BY <1>1, <2>1 DEF CommettreSignalement
  <2>3. signalement[c].article = {a} /\ signalement[c].distincts \in Nat
    BY <1>1, <2>2 DEF IInvCatalogue, TypesSignalements, SansSignalement
  <2>4. signalement[c].distincts <= Cardinality(Rapporteurs(signalements', a))
    BY <1>1, <2>2, <2>3 DEF IInvCatalogue, ComptesFondes
  <2>5. Cardinality(Rapporteurs(signalements', a)) \in Nat
    BY <1>1, <2>2, UneLigne, RapporteursCroissent
  <2> QED
    BY <2>2, <2>3, <2>4, <2>5, SeuilAssumption
<1>2. IInvCatalogue /\ [NextCreation]_varsCreation =>
        [\A a \in Articles :
           article'[a] # article[a] /\ article'[a].source = "coursier"
             /\ article[a].source # "coursier"
             => Cardinality({x[3] : x \in {y \in signalements' : y[2] = a}}) >= Seuil]_varsCreation
  BY <1>1 DEF Rapporteurs
<1> QED
  BY <1>2, InitIInvCatalogue, StepIInvCatalogue, PTL DEF SpecCreation, MasquageFonde

=============================================================================
