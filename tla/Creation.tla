------------------------------ MODULE Creation ------------------------------
(***************************************************************************)
(* The creation of orders by one client (creation.rs, panier.rs), composed *)
(* with the catalogue of a vendor that is edited meanwhile and with the    *)
(* restrictions that may fall on the account: a request reads on the pool, *)
(* several times and without a lock, whatever it decides from, then writes *)
(* the order in one transaction whose key is the client's.                 *)
(*                                                                         *)
(* A step is one transaction, or the reads that follow one another with    *)
(* nothing decided in between; the transaction takes two, since another    *)
(* request with its key waits for its commit.  The whole catalogue is in   *)
(* the cart.  The quote of the delivery is a constant.                     *)
(***************************************************************************)
EXTENDS Catalogue

CONSTANTS
  Cles,      \* the orders' ids, minted by the application
  Demandes,  \* requests, a retry being another request with the same id
  Plafonds,  \* ceilings of cash payment that a request may meet
  Devis      \* what the delivery costs

ASSUME MontantsAssumption == Plafonds \subseteq Nat /\ Devis \in Nat

\* From the mildest to the hardest; nothing lifts one.
Restrictions == <<"aucune", "prepaiement_impose", "bloque">>

VARIABLES
  restriction,  \* the rank of the account's restriction in that list
  tentative,      \* the requests in flight
  commande,     \* the orders' rows, with the restriction their requests began with
  creees,       \* the events commande.creee, by order
  reponses      \* what was answered, by order

varsCreation == <<catalogue, restriction, tentative, commande, creees, reponses>>

Modes == {"cash", "mobile_money"}
Etapes == {"repos", "panier", "verification", "decision", "insertion", "figeage", "conclue"}
Repos == [etape |-> "repos", cle |-> {}, mode |-> "cash", debut |-> 1, total |-> 0]
Absente == [total |-> 0, mode |-> "aucun", debut |-> 1]

TypeCreation ==
  /\ TypeCatalogue
  /\ restriction \in 1..3
  /\ tentative \in [Demandes -> [etape : Etapes, cle : SUBSET Cles, mode : Modes, debut : 1..3,
                               total : Nat]]
  /\ commande \in [Cles -> [total : Nat, mode : Modes, debut : 1..3] \cup {Absente}]
  /\ creees \in [Cles -> Nat]
  /\ reponses \subseteq Cles \X Nat \X Modes

InitCreation ==
  /\ InitCatalogue /\ restriction = 1
  /\ tentative = [r \in Demandes |-> Repos]
  /\ commande = [k \in Cles |-> Absente]
  /\ creees = [k \in Cles |-> 0] /\ reponses = {}

Existe(k) == commande[k] # Absente
Cle(r) == CHOOSE k \in Cles : tentative[r].cle = {k}

------------------------------------------------------------------------------
(* A request, read by read (creer_commande).                                *)

Passer(r, etape) == tentative' = [tentative EXCEPT ![r].etape = etape]
Finie == [Repos EXCEPT !.etape = "conclue"]
Finir(r) == tentative' = [tentative EXCEPT ![r] = Finie]
\* The checks pass, or the request is refused.
PasserSi(r, admis, etape) == IF admis THEN Passer(r, etape) ELSE Finir(r)
Annoncer(k) == reponses' = reponses \cup {<<k, commande[k].total, commande[k].mode>>}

\* relire_commande_creee, then the restrictions: a blocked account goes no further.
Commencer(r, k, m) ==
  /\ tentative[r].etape = "repos"
  /\ IF Existe(k) THEN Finir(r) /\ Annoncer(k)
     ELSE /\ tentative' = [tentative EXCEPT ![r] =
               IF Restrictions[restriction] = "bloque" THEN Finie
               ELSE [etape |-> "panier", cle |-> {k}, mode |-> m, debut |-> restriction, total |-> 0]]
          /\ UNCHANGED reponses
  /\ UNCHANGED <<catalogue, restriction, commande, creees>>

PrixDuPanier == MapThenSumSet(LAMBDA a : article[a].prix, Articles)

\* resoudre_panier: a vendor one can order from, articles on sale, their prices.
ResoudrePanier(r) ==
  /\ tentative[r].etape = "panier"
  /\ tentative' = [tentative EXCEPT ![r] =
       IF Commandable /\ \A a \in Articles : EnVente(a)
       THEN [@ EXCEPT !.etape = "verification", !.total = PrixDuPanier + Devis]
       ELSE Finie]
  /\ UNCHANGED <<catalogue, restriction, commande, creees, reponses>>

\* After the address, the vendor is checked again; then the quote.
VerifierVendeur(r) ==
  /\ tentative[r].etape = "verification"
  /\ PasserSi(r, Commandable, "decision")
  /\ UNCHANGED <<catalogue, restriction, commande, creees, reponses>>

\* Faulty variant: the ceiling alone is looked at.
CashAutorise_SansRestriction(r, plafond) == tentative[r].total <= plafond
\* decision_paiement, with the restrictions read again.
CashAutorise(r, plafond) ==
  Restrictions[restriction] = "aucune" /\ tentative[r].total <= plafond
DeciderPaiement(r, plafond) ==
  /\ tentative[r].etape = "decision"
  /\ PasserSi(r, tentative[r].mode = "cash" => CashAutorise(r, plafond), "insertion")
  /\ UNCHANGED <<catalogue, restriction, commande, creees, reponses>>

\* An insertion waits for the transaction that inserts the same key.
Attend(r) ==
  \E q \in Demandes : tentative[q].etape = "figeage" /\ tentative[q].cle = tentative[r].cle

\* Faulty variant: a key that was taken is not noticed.
ClePrise_Ignoree(k) == FALSE
\* ON CONFLICT (id) DO NOTHING, and no row.
ClePrise(k) == Existe(k)

\* figer_prix: an article that left the catalogue meanwhile undoes the insertion.
Figeables == \A a \in Articles : ~article[a].retire
Inserer(r) ==
  /\ tentative[r].etape = "insertion" /\ ~Attend(r)
  /\ IF ClePrise(Cle(r)) THEN Finir(r) /\ Annoncer(Cle(r))
     ELSE PasserSi(r, Figeables, "figeage") /\ UNCHANGED reponses
  /\ UNCHANGED <<catalogue, restriction, commande, creees>>

Commettre(r) ==
  LET q == tentative[r] IN
  /\ q.etape = "figeage"
  /\ commande' = [commande EXCEPT ![Cle(r)] = [total |-> q.total, mode |-> q.mode, debut |-> q.debut]]
  /\ creees' = [creees EXCEPT ![Cle(r)] = @ + 1]
  /\ reponses' = reponses \cup {<<Cle(r), q.total, q.mode>>}
  /\ Finir(r)
  /\ UNCHANGED <<catalogue, restriction>>

\* A failure, a crash or a lost connection, before the commit.
Abandonner(r) ==
  /\ tentative[r].etape \notin {"repos", "conclue"} /\ Finir(r)
  /\ UNCHANGED <<catalogue, restriction, commande, creees, reponses>>

------------------------------------------------------------------------------
(* Meanwhile.                                                               *)

\* poser_restriction (module Sanctions).
Restreindre ==
  /\ restriction < 3 /\ restriction' = restriction + 1
  /\ UNCHANGED <<catalogue, tentative, commande, creees, reponses>>

Editer == EditerCatalogue /\ UNCHANGED <<restriction, tentative, commande, creees, reponses>>

NextCreation ==
  \/ Restreindre \/ Editer
  \/ \E r \in Demandes :
       \/ \E k \in Cles, m \in Modes : Commencer(r, k, m)
       \/ ResoudrePanier(r) \/ VerifierVendeur(r)
       \/ \E p \in Plafonds : DeciderPaiement(r, p)
       \/ Inserer(r) \/ Commettre(r) \/ Abandonner(r)

SpecCreation == InitCreation /\ [][NextCreation]_varsCreation

------------------------------------------------------------------------------
(* What holds.                                                              *)

\* An id is created once, and every request that bears it is told of the same
\* order at the same price, whether it created it, lost the race or came later.
ReponseUnique ==
  /\ \A k \in Cles : creees[k] <= 1
  /\ \A x \in reponses : x = <<x[1], commande[x[1]].total, commande[x[1]].mode>>

\* A restriction that fell before the request began is honoured, whatever the
\* request reads again: no order of a blocked account, no cash for one that
\* must prepay.  One that falls meanwhile may be missed.
RestrictionRespectee ==
  \A k \in Cles : Existe(k) =>
    /\ Restrictions[commande[k].debut] # "bloque"
    /\ commande[k].mode = "cash" => Restrictions[commande[k].debut] = "aucune"

\* An article hides by itself only when enough different couriers have
\* reported it (signaler_rupture), whatever reports and editions cross.
MasquageFonde ==
  [][\A a \in Articles :
       article'[a] # article[a] /\ article'[a].source = "coursier" /\ article[a].source # "coursier"
         => Cardinality({x[3] : x \in {y \in signalements' : y[2] = a}}) >= Seuil]_varsCreation

=============================================================================
