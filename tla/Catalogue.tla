----------------------------- MODULE Catalogue -----------------------------
(***************************************************************************)
(* One vendor and his articles (crate `prestataires`): the price, the      *)
(* withdrawal and the availability of an article, edited by the vendor and *)
(* by an administrator, the shortages that couriers report until the       *)
(* article hides by itself, and whether the vendor may be ordered from.    *)
(*                                                                         *)
(* No row is locked before it is read: an edition reads the article, then  *)
(* writes from what it read, and commits.  An edition that would return    *)
(* early does not start.                                                   *)
(***************************************************************************)
EXTENDS FiniteSetsExt, Integers

CONSTANTS
  Articles, Prix, Signaleurs,
  NbSignalements,  \* bound on the reports of shortage
  Seuil,           \* rupture.masquage_seuil
  EditionsMax      \* bound on the editions, the reports and the vendor's changes

ASSUME PrixAssumption == Prix \subseteq Nat
ASSUME SeuilAssumption == Seuil \in Nat /\ NbSignalements \in Nat /\ EditionsMax \in Nat
ASSUME EditeursAssumption == Signaleurs \cap {"vendeur", "admin"} = {}

Editeurs == {"vendeur", "admin"}
Sources == Editeurs \cup {"coursier"}
Gestes == {"modifier", "retirer", "remettre", "vendre", "epuiser"}

VARIABLES
  agree, boutique,  \* the vendor is approved, his shop open
  article,          \* article and its availability
  edition,          \* what each editor is about to write, from what he read
  signalement,      \* what each courier is about to report, with what he read
  signalements,     \* signalement_rupture: <<report, article, courier>>
  editions          \* changes and reports so far

catalogue == <<agree, boutique, article, edition, signalement, signalements, editions>>

SansEdition == [geste |-> "repos", article |-> {}, prix |-> 0]
SansSignalement == [id |-> 0, article |-> {}, disponible |-> FALSE, distincts |-> 0, etape |-> "repos"]

TypeCatalogue ==
  /\ agree \in BOOLEAN /\ boutique \in BOOLEAN
  /\ article \in [Articles -> [prix : Prix, retire : BOOLEAN, disponible : BOOLEAN, source : Sources]]
  /\ edition \in [Editeurs -> [geste : Gestes \cup {"repos"}, article : SUBSET Articles,
                               prix : Prix \cup {0}]]
  /\ signalement \in [Signaleurs -> [id : 0..NbSignalements, article : SUBSET Articles,
                                    disponible : BOOLEAN, distincts : Nat,
                                    etape : {"repos", "lu", "compte"}]]
  /\ signalements \subseteq (1..NbSignalements) \X Articles \X Signaleurs
  /\ editions \in 0..EditionsMax

InitCatalogue ==
  /\ agree = TRUE /\ boutique = TRUE
  /\ article \in [Articles -> {[prix |-> p, retire |-> FALSE, disponible |-> TRUE,
                                source |-> "vendeur"] : p \in Prix}]
  /\ edition = [e \in Editeurs |-> SansEdition]
  /\ signalement = [c \in Signaleurs |-> SansSignalement]
  /\ signalements = {} /\ editions = 0

\* The only definition of `commandable` (consultation.rs).
Commandable == agree /\ boutique
EnVente(a) == ~article[a].retire /\ article[a].disponible

Compter == editions < EditionsMax /\ editions' = editions + 1

\* suspendre_prestataire, retablir_prestataire, under the vendor's row lock.
BasculerAgrement ==
  /\ Compter /\ agree' = ~agree
  /\ UNCHANGED <<boutique, article, edition, signalement, signalements>>
\* What closes or opens the shop: its hours, a pause, its category in the town.
BasculerBoutique ==
  /\ Compter /\ boutique' = ~boutique
  /\ UNCHANGED <<agree, article, edition, signalement, signalements>>

------------------------------------------------------------------------------
(* Editions of an article.                                                  *)

RuptureAdmin(a) == ~article[a].disponible /\ article[a].source = "admin"

\* What an editor may still start, from the article as he reads it.
Permis(e, g, a) ==
  CASE g = "modifier" -> ~article[a].retire
    [] g = "retirer" -> ~article[a].retire
    [] g = "remettre" -> article[a].retire
    [] g = "vendre" -> ~article[a].retire /\ ~article[a].disponible
                         /\ (e = "admin" \/ ~RuptureAdmin(a))
    [] g = "epuiser" -> ~article[a].retire /\ article[a].disponible

\* Another field changes with the price as it was read.
LireArticle(e, g, a, p) ==
  /\ edition[e] = SansEdition /\ Permis(e, g, a) /\ Compter
  /\ IF g = "modifier" THEN p \in Prix ELSE p = 0
  /\ edition' = [edition EXCEPT ![e] = [geste |-> g, article |-> {a}, prix |-> p]]
  /\ UNCHANGED <<agree, boutique, article, signalement, signalements>>

Ecrit(a, e) ==
  CASE edition[e].geste = "modifier" -> [article[a] EXCEPT !.prix = edition[e].prix]
    [] edition[e].geste = "retirer" -> [article[a] EXCEPT !.retire = TRUE]
    [] edition[e].geste = "remettre" -> [article[a] EXCEPT !.retire = FALSE]
    [] edition[e].geste = "vendre" -> [article[a] EXCEPT !.disponible = TRUE, !.source = e]
    [] edition[e].geste = "epuiser" -> [article[a] EXCEPT !.disponible = FALSE, !.source = e]

EcrireArticle(e) ==
  /\ edition[e] # SansEdition
  /\ article' = [a \in Articles |-> IF a \in edition[e].article THEN Ecrit(a, e) ELSE article[a]]
  /\ edition' = [edition EXCEPT ![e] = SansEdition]
  /\ UNCHANGED <<agree, boutique, signalement, signalements, editions>>

------------------------------------------------------------------------------
(* Shortages reported by couriers (disponibilite.rs, signaler_rupture).     *)

\* The article and whether this report is new; a replay changes nothing.  The
\* courier has a stop of this article in progress: any courier may.
LireSignalement(c, i, a) ==
  /\ signalement[c] = SansSignalement /\ ~article[a].retire /\ Compter
  /\ \A x \in signalements : x[1] # i
  /\ \A d \in Signaleurs : signalement[d].id # i
  /\ signalement' = [signalement EXCEPT ![c] =
       [id |-> i, article |-> {a}, disponible |-> article[a].disponible, distincts |-> 0,
        etape |-> "lu"]]
  /\ UNCHANGED <<agree, boutique, article, edition, signalements>>

Signale(c) == {<<signalement[c].id, a, c>> : a \in signalement[c].article}

\* Faulty variant: the reports are counted, not the couriers.
Distincts_Lignes(S) == Cardinality(S)
Distincts(S) == Cardinality({x[3] : x \in S})

\* The count sees its own row and those that are committed, without the ones that
\* are older than the window (rupture.masquage_fenetre_jours): any of them may be.
CompterSignalements(c, anciens) ==
  /\ signalement[c].etape = "lu"
  /\ signalement' = [signalement EXCEPT
       ![c].etape = "compte",
       ![c].distincts = Distincts({x \in (signalements \ anciens) \cup Signale(c) :
                                 x[2] \in signalement[c].article})]
  /\ UNCHANGED <<agree, boutique, article, edition, signalements, editions>>

CommettreSignalement(c) ==
  /\ signalement[c].etape = "compte"
  /\ signalements' = signalements \cup Signale(c)
  /\ article' = IF signalement[c].distincts >= Seuil /\ signalement[c].disponible
                THEN [a \in Articles |->
                        IF a \in signalement[c].article
                        THEN [article[a] EXCEPT !.disponible = FALSE, !.source = "coursier"]
                        ELSE article[a]]
                ELSE article
  /\ signalement' = [signalement EXCEPT ![c] = SansSignalement]
  /\ UNCHANGED <<agree, boutique, edition, editions>>

EditerCatalogue ==
  \/ BasculerAgrement \/ BasculerBoutique
  \/ \E e \in Editeurs : \/ EcrireArticle(e)
                         \/ \E g \in Gestes, a \in Articles, p \in Prix \cup {0} :
                              LireArticle(e, g, a, p)
  \/ \E c \in Signaleurs : \/ CommettreSignalement(c)
                          \/ \E anciens \in SUBSET signalements : CompterSignalements(c, anciens)
                          \/ \E i \in 1..NbSignalements, a \in Articles : LireSignalement(c, i, a)

=============================================================================
