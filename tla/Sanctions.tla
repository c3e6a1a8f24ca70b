----------------------------- MODULE Sanctions -----------------------------
(***************************************************************************)
(* The failure declarations of the orders of ONE client, and the sanctions *)
(* they put on that client's account: `declarer_echec` of the crate        *)
(* `commandes` and `poser_restriction` of the crate `comptes`.             *)
(*                                                                         *)
(* A declaration reads the restrictions of the account on the pool,        *)
(* decides the rank of the sanction from that read, and only then opens    *)
(* the transaction that writes the issue, its events and the restriction,  *)
(* under the row lock of the account.  What happens meanwhile to the order *)
(* and its delivery is module Commande.                                    *)
(***************************************************************************)
EXTENDS ArbreEchecs

CONSTANTS
  Commandes,     \* the delivered orders of the client
  Declarations   \* the uuid_client of the declarations (courier's queue, admin)

VARIABLES
  prepaiementImpose,  \* comptes.compte.prepaiement_impose
  bloque,             \* comptes.compte.bloque
  declarations,       \* per uuid_client: what it read, then commandes.issue_echec
  posees              \* per sanction: the declarations that emitted sanction.posee

varsSanctions == <<prepaiementImpose, bloque, declarations, posees>>

Echelle == {"prepaiement_impose", "bloque"}

\* No declaration yet; the decision only fills the place.
Vierge == [phase |-> "vierge", commande |-> "aucune",
           decision |-> Resoudre("refus_non_perissable", FALSE, TRUE), sanction |-> "aucune"]

TypesSanctions ==
  /\ prepaiementImpose \in BOOLEAN
  /\ bloque \in BOOLEAN
  /\ declarations \in [Declarations ->
       [phase : {"vierge", "lue", "enregistree"}, commande : Commandes \cup {"aucune"},
        decision : Decisions, sanction : Echelle \cup {"aucune"}]]
  /\ posees \in [Echelle -> SUBSET Declarations]

InitSanctions ==
  /\ prepaiementImpose = FALSE
  /\ bloque = FALSE
  /\ declarations = [d \in Declarations |-> Vierge]
  /\ posees = [s \in Echelle |-> {}]

\* Faulty variant: the two rungs are swapped.
SanctionInversee(decision) ==
  IF decision.sanction = "aucune" THEN "aucune"
  ELSE IF prepaiementImpose THEN "prepaiement_impose" ELSE "bloque"

\* The rank: read from the restrictions already there, never counted.
SanctionPosee(decision) ==
  IF decision.sanction = "aucune" THEN "aucune"
  ELSE IF prepaiementImpose THEN "bloque" ELSE "prepaiement_impose"

\* The proofs are in (a declaration without them is refused earlier); whether
\* the goods are perishable is a zone parameter, read for each declaration.
LireEchec(d, c, type, perissable) ==
  /\ declarations[d].phase = "vierge"
  /\ LET decision == Resoudre(type, perissable, TRUE) IN
     declarations' = [declarations EXCEPT ![d] =
       [phase |-> "lue", commande |-> c, decision |-> decision,
        sanction |-> SanctionPosee(decision)]]
  /\ UNCHANGED <<prepaiementImpose, bloque, posees>>

\* Faulty variant: nothing is ever found already there.
JamaisPosee(s) == FALSE

\* poser_restriction, under FOR UPDATE: nothing is written or announced when the
\* restriction is already there; a block includes the imposed prepayment.
DejaPosee(s) == IF s = "bloque" THEN bloque ELSE prepaiementImpose

PoserRestriction(d, s) ==
  IF s = "aucune" \/ DejaPosee(s)
  THEN UNCHANGED <<prepaiementImpose, bloque, posees>>
  ELSE /\ prepaiementImpose' = TRUE
       /\ bloque' = IF s = "bloque" THEN TRUE ELSE bloque
       /\ posees' = [posees EXCEPT ![s] = @ \cup {d}]

EnregistrerIssue(d) ==
  /\ declarations[d].phase = "lue"
  /\ PoserRestriction(d, declarations[d].sanction)
  /\ declarations' = [declarations EXCEPT ![d].phase = "enregistree"]

\* Rolled back: crash, a concurrent replay of the same uuid, or a refusal by the
\* state tables.
AbandonnerEchec(d) ==
  /\ declarations[d].phase = "lue"
  /\ declarations' = [declarations EXCEPT ![d] = Vierge]
  /\ UNCHANGED <<prepaiementImpose, bloque, posees>>

NextSanctions ==
  \E d \in Declarations :
    \/ \E c \in Commandes, type \in TypesIssue, perissable \in BOOLEAN :
         LireEchec(d, c, type, perissable)
    \/ EnregistrerIssue(d)
    \/ AbandonnerEchec(d)

SpecSanctions == InitSanctions /\ [][NextSanctions]_varsSanctions

-----------------------------------------------------------------------------
(* What holds.                                                             *)

Enregistrees == {d \in Declarations : declarations[d].phase = "enregistree"}
\* Recorded declarations that asked for a sanction.
Refus == {d \in Enregistrees : declarations[d].sanction # "aucune"}

\* The ladder is climbed rung by rung, even when the declarations read the
\* account before each other's commit: a client is blocked only after two
\* recorded refusals, and under prepayment only after one (declarer_echec).
EchelleFondee ==
  /\ prepaiementImpose => Refus # {}
  /\ bloque => prepaiementImpose /\ \E d, e \in Refus : d # e

\* Two concurrent failures never put, nor announce, the same sanction twice
\* (poser_restriction).
SanctionUnique == \A s \in Echelle : \A d, e \in posees[s] : d = e

\* The courier never loses: an issue that leaves the goods or the debt on the
\* courier's side is carried by Mefali and announces the compensation, and a
\* client is sanctioned only by an issue that destroyed value (resoudre).
Equitable(r, sanction) ==
  /\ r.argent = "mefali" <=> r.indemnisation
  /\ r.marchandise = "coursier" => r.argent = "mefali" /\ r.litige
  /\ sanction # "aucune" => r.indemnisation

CoursierNePerdJamais ==
  \A d \in Enregistrees : Equitable(declarations[d].decision, declarations[d].sanction)

\* No step lifts a sanction, and none jumps from nothing to the block.
EchelleMontante ==
  [][/\ prepaiementImpose => prepaiementImpose'
     /\ bloque => bloque'
     /\ bloque' => prepaiementImpose]_varsSanctions

-----------------------------------------------------------------------------
(* The inductive invariant behind them.                                    *)

\* A declaration that decided to block had read the imposed prepayment, which no
\* step lifts.
RangFonde == \A d \in Declarations : declarations[d].sanction = "bloque" => prepaiementImpose

\* What was announced is on the account.
PoseesFondees == \A s \in Echelle : posees[s] # {} => DejaPosee(s)

IInvSanctions == TypesSanctions /\ RangFonde /\ PoseesFondees /\ SanctionUnique /\ EchelleFondee

=============================================================================
