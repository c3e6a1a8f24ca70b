# Formal models of Mefali

Mefali is a delivery platform: a client orders from one or several vendors, a
courier buys the goods with his own money, brings them to the client and is
paid at the door (cash) or beforehand (mobile money). This directory holds TLA+
models of the backend (`src/backend/crates`), the TLC instances that check them
and the TLAPS proofs of what matters most. Identifiers are those of the code,
in French; comments are in English.

    tlc -workers 2 -config MCCommande.cfg MCCommande     # model checking
    tlapm CommandeProofs.tla                             # proofs

## 1. Inventory

| component | state | operations | talks to |
|---|---|---|---|
| `commandes`, life cycle (`etats`, `depot`, `collecte`, `annulation`, `creation`) | rows `commande`, `livraison`, `segment`, `arret` in PostgreSQL | create, assign, withdraw, queue, require a prepayment, confirm it, depart / arrive / collect / unavailable for each stop, hand over, cancel | called by dispatch, paiements, qr, coursier and the HTTP surface; writes events in the outbox |
| `commandes`, hand-over code (`collecte::valider_remise`, `exploitation`) | `essais_code`, `code_bloque_le`, `code_debloque_le`, `depot_autorise` | try a code, scan the client's QR, drop off, unblock, allow a drop-off | the courier's offline queue, the administrator |
| `commandes`, failures (`echec`) and `comptes::restriction` | `issue_echec`, `compte.prepaiement_impose`, `compte.bloque` | declare a failure, decide who holds money and goods, sanction | coursier (proofs), comptes (restrictions) |
| `commandes`, substitutions | `substitution`, `ligne_commande` | propose, accept, refuse, expire | client app, periodic sweep |
| `dispatch` | offers, inscriptions, incidents in PostgreSQL; positions in Redis | pipeline, cascade and broadcast offers, accept, refuse, expire, recover a stuck course | commandes (port), paiements by events, notifications |
| `paiements` | `transaction`, notifications received | open a session, notify, confirm, expire, refund file | provider (HTTP), commandes (port) |
| `coursier` | cash book, claims, compensations, calls, presences, proofs | declare, settle, compensate | consumes events of the outbox |
| `comptes` | accounts, roles, OTP, sessions, addresses, files | sign in, turn the tokens, revoke, approve | everything; the tokens are kept by `mefali_core` on the device |
| `qr` | `action_traitee`, `incident_plaque`; tries of the fallback code in Redis | collect a stop by the vendor's plate or code | commandes (the stop), prestataires (the plate), the courier's offline queue |
| `prestataires`, `zones`, `tarification` | reference data, quotes | CRUD, evaluate a quote | read by commandes and dispatch |
| `socle` | outbox | append in the caller's transaction, worker | every crate |
| `api`, apps, web | none of their own, except the offline queue of the courier's app | decode, authorise, mint uuids and timestamps | the crates |

### What is hard

* **Concurrency.** All handlers run in PostgreSQL's READ COMMITTED. A decision
  taken from a row read without a lock, or read on the pool before the
  transaction, is stale by the time it is written. Row locks and the closed
  state tables (`etats.rs`) are the only protection.
* **Several transactions for one fact.** Dispatch and payments settle their own
  rows first and tell the order afterwards: a crash in between leaves the two
  apart.
* **The offline queue.** Actions arrive late, several times, and after the
  courier was replaced.
* **Periodic sweeps** (expiry of sessions, offers and substitutions; recovery
  of stuck courses) race with the humans they replace.

`PROJECT.json` lists the hazards one by one, at the line where each bites, with
the property that watches it or the reason why none does yet.

## 2. Modules

| module | models | role |
|---|---|---|
| `EtatsCommande` | `etats.rs`, enums of `modele.rs` | the closed tables, indexed by actor, and `VerifierTransition` |
| `Commande`, `CommandeProofs`, `MCCommande` | one order: `depot.rs`, `collecte.rs`, `annulation.rs`, `echec.rs` and the callers in `dispatch`, `paiements`, `qr` | life cycle |
| `ArbreEchecs` | `echec.rs::resoudre` | the decision tree of failures, a pure operator |
| `Sanctions` | `echec.rs::declarer_echec`, `restriction.rs::poser_restriction` | the failures of one client and his account |
| `Remise`, `RemiseProofs`, `MCRemise` | `collecte.rs::valider_remise`, `exploitation.rs`, the courier's `etat_remise.dart` and the offline queue of `etat_course.dart` | one hand-over at the door: device, network and server |
| `Paiement`, `PaiementProofs`, `MCPaiement` | crate `paiements`, `commandes::depot` for the order's side | the prepayment of one order |
| `EncaissementIdeal` | | what `Paiement` promises, abstractly |
| `Dispatch`, `DispatchProofs`, `MCDispatch` | `pipeline.rs`, `offre.rs`, `tic.rs`, `consommateur.rs` of crate `dispatch` | offers and acceptances |
| `AttributionIdeale` | | what `Dispatch` promises, abstractly |
| `Reprise`, `MCReprise` | `reprise.rs`, the positions, the escalations of `depot.rs` | recovery of a stuck course |
| `Substitution`, `SubstitutionProofs`, `MCSubstitution` | `substitution.rs`, `collecte.rs` | lines, prices and amounts of one order |
| `Caisse`, `CaisseProofs`, `MCCaisse` | crate `coursier`, the outbox worker of `socle`, steps 6 to 8 of the quote | the cash book, fed at least once |
| `Session`, `MCSession` | `comptes::session`, `clients.dart`, `session.dart`, `stockage_jetons.dart` | the renewal of tokens, both sides |
| `Catalogue` | `catalogue.rs`, `disponibilite.rs` and the vendor's state in crate `prestataires` | a vendor's articles, edited while they are ordered |
| `Creation` | `creation.rs`, `panier.rs` | orders created from that catalogue |
| `MCCreation` | | `Creation`, and one order with one vendor (`Commande`) |
| `Collecte` | `qr/depot.rs`, the stop in `commandes`, the courier's queue in `etat_course.dart` | the collection of one stop: device, network and server |
| `MCCollecte` | | `Collecte`, and the failures of one client (`Sanctions`) |
| `CourseProofs` | | the proofs about `Reprise` and `Collecte` |
| `ComptesProofs` | | the proofs about `Sanctions`, `Session`, `Creation` and `Catalogue` |

Each `MC` module extends its module and adds at most a symmetry. Two of them
put side by side two modules that share no variable: a behaviour of one runs
while the other is at an initial state, since every property speaks of one of
them only and their product would add nothing but states.
`Creation` extends `Catalogue`, and their `Next` interleaves both.
`EtatsCommande` is shared by `Commande`, `Paiement`, `Dispatch`, `Reprise` and
`Collecte`: each sees the order through the same tables. `Dispatch` and `Paiement` carry
the columns of the order that their crates read and write, and the other
crates' transitions of these columns as actions of their surroundings; what
`Commande` calls a dispatch pass or a session is detailed in them.

### Conventions

* A step is one transaction at its commit, one read on the pool, or one call
  that crosses the network. A read on the pool leaves a copy in a variable
  (`passage`, `tx`, `releve`, `requete`...), and the action that writes uses
  the copy.
* Crashes and failures are actions (`Arreter`, `Abandonner`, `Perdre`...)
  bounded by a constant: they drop what a process held in memory and leave
  the rows.
* Operators whose comment begins "Faulty variant" are not used by the
  specification. Each is a plausible bug in the definition that follows it;
  substituting it makes a named property fail, which shows that the property
  depends on that code.
* Modules whose proofs stand in one module have names of their own for what the
  others call `Init`, `Next`, `Spec`, `vars` and `TypeOK` (`InitSession`,
  `NextCollecte`, `SpecCreation`, `TypesSession`...), since a proof module, or an
  `MC` module, extends them together.

### Reading `Commande`

A state is the rows of one order plus what every request in flight remembers.

* **An unlocked read is a step of its own.** `LireContexteDispatch`,
  `LireAnnulation`, `CompterCollectes`, `LireEchec`, `PresenterScan` and
  `DemanderSession` copy what they read into `passage`, `annulation`,
  `declarations`, `scans` or `demande`; the action that writes uses the copy.
* **What happens under row locks is one step, at the commit.** In a transaction
  that locks its rows before reading them (`valider_remise`) nothing can be
  seen in between. The transaction on a stop locks the stop (`travail[a]`,
  which excludes any other transaction on `a`), counts the other stops as
  committed and changes the delivery at its commit: it is the pair
  `Planifier` / `ValiderArret`. The count is taken at the start. The code
  counts after having opened the delivery; when it opens it, it holds the
  delivery's row from then on, and then a second opener is refused by the table
  and a transaction that does not open it needs `en_collecte`, so counting at
  the start is the same.
* **Any transaction in flight may be lost**: crash, network, deadlock victim,
  refusal by a table. The `Abandonner...` actions drop it with no effect. A
  replayed request (same uuid) finds its own trace and changes nothing: it is a
  stuttering step and has no action.

Abstractions, and why they are harmless here: amounts are left out, except that
the quote's courier part is positive, so that "a part is due" and "a
compensation is announced" are the same fact; a valid proof of hand-over may be
presented at any time by the courier who carries the delivery (tries and queue
are module `Remise`); the proofs of a failure are one Boolean, set
once a courier exists; one cancellation, one dispatch pass and one session are
in flight at a time. A second cancellation or a second pass would find the
table already changed and be refused, or re-read; the requests to open a
session are many (`demande` stands for "at least one in flight").

### Reading `Sanctions`

One client, several orders, several declarations. `LireEchec` reads the
restrictions on the pool and fixes the rank; `EnregistrerIssue` is the
transaction with `poser_restriction` under its row lock. Whether the goods are
perishable is a parameter of the zone, read anew by each declaration, hence a
free input. The uuid of a declaration is its identity: the same uuid is
recorded once, another uuid for the same order is another declaration.

### Reading `Remise`

One delivery, carried to the door by one courier. The state has three parts:
the rows of the order (`statut`, `essais`, `levees`, `depotAutorise`), the
device (`appli`: the local database, the cached course, the screen) and what is
between them (`requetes`).

* **A request is a record that moves**: `envoyee` on the wire, `arrivee` in its
  handler, which has taken its timestamp and waits for the row lock, `traitee`
  once answered. `valider_remise` opens its transaction before it reads and
  locks both rows, so each of its outcomes is one step; the timestamp is not
  part of that step. `par` says who awaits the reply. When nobody does any more
  (timeout, restart of the application), the request may be lost or may go on
  and be carried out.
* **Failures of the network** are `PerdreSignal`, `MettreEnFile` and
  `ManquerDrain`: no answer, whatever happened to the request. `Echouer` is the
  500 of the server, with its transaction rolled back.
* **The screen and the queue.** `DicterCodeFaux` is a code that the fingerprint
  on the device denies; it counts locally and is reported under an uuid of its
  own. A right proof goes through `Confirmer` with the uuid reserved by this
  run of the application; without an answer it joins the queue under the same
  uuid. `Drainer` sends it, and several drains may be at work: an invalidation
  of the provider starts one while another awaits. A wrong QR token never
  leaves the device, so the server's refusal of it is left out.
* **Time.** The code compares only stamps of blocks with stamps of lifts. The
  clock therefore counts the requests to unblock: a block stamped in period `p`
  is earlier than the lift `p` and later than the lift `p - 1`. A lift takes
  its stamp in the handler (`DemanderDeblocage`) and waits for the row
  (`DebloquerCode`).
* **The rest of the world** is `PerdreLaCourse`: a failure, or another courier.
  What that other courier then does is out of the module; for this courier
  every answer is `non_proprietaire`.

### Reading `Paiement`

A session is named by the number of the request that would insert it, in the
order in which requests read the clock, so "the last session" is the greatest.
Opening one takes five steps (`LireCommande`, `LireSessions`,
`MarquerPaiementEnAttente`, `CheckoutRefuse` / `InsererSession`), and only the
partial unique index separates two openings. A notification of success commits
twice: `NotifierSucces` settles the session and leaves it in `aConfirmer`,
`ConfirmerLaCommande` confirms the order; `Arreter` may come in between. The
sweep (`balayage`) first asks the provider (`ConsulterFournisseur`), then
either catches the payment up or expires the session and cancels the order,
each in its own commit. A cancellation, the sweep's or that of the client or of
an administrator, takes two steps, because `annuler_commande` reads the payment
without a lock and writes later: `LirePourExpiration` / `AnnulerPourExpiration`,
and `LirePourAnnulation` / `AnnulerCommande`, with what was read in `balayage` and
`annulation`. A confirmation that commits in between makes that read `depassee`,
and `remboursement` then says `omis`: the order is cancelled, paid for and not
refunded. The provider's side is `encaisse` (it holds the money) and may send
each notification again under the same or another body.

### Reading `Dispatch`

Three executants run passes of the pipeline: the outbox worker, the tick, and
the relaunch that follows a refusal. A pass reads (`CommencerPassage`), goes
through its candidates (`PasserAuSuivant`, `EmettreOffre`) and ends in an
offer, the waiting queue, a prepayment or nothing. Which couriers are present
and eligible is any subset, chosen at the read. The locks in Redis expire, leak
and are lost: they are modelled by every answer they may give. The two partial
unique indexes on the offers in flight are guards of `EmettreOffre`. An
acceptance is three commits (`LireAcceptation`, `Affecter`,
`ConfirmerAcceptation`); `ConclureNonReponse` is the tick closing an offer past
its deadline beside it. One event of an order is in the outbox at a time.

### Reading `Reprise`

Distances count in multiples of the threshold of movement. The tick is one
task of one process whose stages are the values of `tic`; a courier's position
is read and written in two steps (`Publier`, `EcrireObservation`); the
administrator's recovery is a third. Withdrawing a courier is its own commit,
after the incident, whose key `<<courier, motive>>` is what prevents loops. When a
crash, or a refusal by the table, comes between the two, the tick never takes that
recovery up again; `coupee` names the courier it was about until the next tick,
for the property that has to except him.

### Reading `Substitution`

The courier, the client and the sweep have at most one transaction each, of
three steps: rows locked and written, total summed, rest written and committed
(`EcrireLignes`, `Sommer`, `Valider`). Others see the writes at the commit, as
READ COMMITTED has it. `Interblocage` picks a victim when the stop is held by
one and awaited by the other. `depassee` records the one case in which a total
is summed from lines another revision was about to change.

### Reading `Caisse`

The order's transactions write events in `journal`. A worker locks a lot
(`Prendre`), reads for one event (`Lire`), writes in the consumer's own
transaction (`Ecrire`), and marks the lot when it commits (`Conclure`); losing
the lot (`Perdre`) leaves the consumers' rows behind. `orphelines` are the
advances read while nobody was on the delivery; `bilan` tells when the
delivery is settled with every advance in the book. `Devis` is the last part
of the evaluation of a quote: the flags of the zone and the vendor's offer.

### Reading `Session`

A token is `<<session, rank>>`: the server keeps the current rank, the previous
one is the rank before. An access token may expire at any time, hence a 401 is
always possible. The application's `onError` runs as one step between two
awaits; a timeout never replays; the storage writes its two keys one after the
other (`Premiere`, `Terminer`), each actor having its own pending write; a
restart reloads what the device holds. Signing out is local. `orphelins` are
the tokens presented to the server whose answer nobody awaits, and
`rechargees` the sessions reloaded with a token already spent.

### Reading `Catalogue` and `Creation`

Editors and reporters read, then write from what they read. A report counts its
own row and the committed ones, of which any may have left the sliding window
(`anciens`). The reporter's stop in progress is not modelled: any courier may
report. A request to create an order reads the
account's restriction, the cart, the vendor and the ceilings on the pool, in
several steps, then writes in a transaction of two steps (`Inserer`,
`Commettre`), since another request with the same key waits for that commit. A
failed address, route or quote is `Abandonner`. `debut` remembers the
restriction the request began with.

### Reading `Collecte`

One stop, one courier, and his actions on it: a scan, a fallback code or a
declaration that the stop is unavailable, each under an uuid of its own. A
request carries the phase `collecter` has reached: it reads the registry, the
stop, the plate and the tries one after the other on the pool or in Redis, and
only then opens a transaction, so that copies of one request (one that nobody
awaits and its replay) and the world around (`ChangerDePorteur`,
`CollecterParUnAutre`, `ResoudreAutres`, `ChangerAgrement`, `ExpirerEssais`)
come in between. A refusal is a transaction apart (`Refuser`, then `Rejeter`).
The declaration is one transaction under the stop's lock
(`DeclarerIndisponible`). `preuve` is what the proof is worth: right, too far,
of another plate or a wrong code, without its photo. `Echouer` is a 500 at any
of these points. `comparaisons` counts the codes compared, which no row does; `fenetre` counts the
lives of the counter in Redis, which expires thirty minutes after its first try.
The delivery's own status is read off its stops (`EnLivraison`), and the event
that traces a declaration by a courier who was replaced is left out.
Copies of one request are records told apart by the number `copie`; the queue
is a set, drained in the order of its uuids, which is that of its insertions.

## 3. Runs

| run | instance | properties | states |
|---|---|---|---|
| `commande_deux_vendeurs` | 2 vendors, 1 courier | `CollectesAvantLivraison`, `TermineeEstLivreeEtPayee`, `PasDeCourseFantome`, `PrepayeeAvantDepart` | 5.9 M |
| `remise` | 1 try, 2 runs of the application, 1 request to unblock, 1 orphan request, 1 drain | `AccuseFonde`, `QrJamaisRefuse`, `VerrouAlerte`, `RemiseUneFois`, `BlocageDurable`, `FileVidee` | 686 k |
| `paiement` | 2 openings, 1 body per outcome, 1 crash | `EncaissementVisible`, `TientLaPromesse`, `SessionsConclues`, `ArgentReconnu` | 196 k |
| `dispatch` | 1 order, 2 couriers, 2 offers, cascade of 1, 1 crash | `AttributionTenue`, `IssueDefinitive` | 2.5 M |
| `reprise` | 2 couriers, 2 stops, distances 0 and 1, 2 assignments, 1 crash | `SansBoucle`, `AttenteEscaladee`, `ImmobileTraitee` | 3.5 M |
| `substitution` | 1 stop of 2 lines at 5, 2 proposals at 6 or 7, gap of 20 %, 1 rollback | `ConsentementAuPrix`, `TotalDesLignesVivantes`, `AvanceExacte`, `PropositionConclue` | 541 k |
| `caisse` | 2 stops at 2 or 5, 2 couriers, 2 assignments, part 3, margin 1, 1 worker, 1 failure | `PublieDoncPorte`, `GainJuste`, `JournalVide` | 684 k |
| `session` | 2 requests, 2 sessions, 2 ranks, 1 restart | `VolFonde`, `RenouvellementConclu`, `SessionMorteQuittee` | 443 k |
| `creation_un_vendeur` | `Creation`: 1 article at 2 or 5, 2 reporters, threshold 2, 3 changes, 1 key, 2 requests, ceilings 4 and 9; `Commande`: 1 vendor, 2 couriers, 1 failure declaration | `ReponseUnique`, `RestrictionRespectee`, `MasquageFonde`, `CollecteJamaisOubliee`, `FinDefinitive` | 5.2 M |
| `collecte_echecs` | `Collecte`: 2 actions, 1 try a window, 2 windows, 1 orphan request, 1 drain; `Sanctions`: 2 orders, 3 declarations | `CollecteHonoree`, `TraceUnique`, `CodeBorne`, `SortieFondee`, `EchelleFondee`, `CoursierNePerdJamais` | 8.7 M |
| `session_refusee` | `Paiement`: 1 opening, whose charge is refused, no crash | `SessionsFinies`, violated | |
| `essais_par_arret` | `Collecte`: as above | `TroisEssaisParArret`, violated | |

The last two runs state what a comment of the code or the specification says
and end in the behaviour that contradicts it; all the others pass. What each
shows is the comment above each property.

* `SessionsFinies`: "La session refusée finit par expirer comme les autres"
  (`paiements/src/modele.rs:303`). The sweep selects `etat = 'ouverte'`
  (`paiements/src/depot.rs:309`): a refused session past its deadline accepts a
  payment for ever, and its order waits with it. What does hold is
  `SessionsConclues`: an open session does not stay open.
* `TroisEssaisParArret`: three tries per stop, "au-delà, toute nouvelle tentative
  est refusée pour cet arrêt" (`specs/006-qr-plaque-collecte/spec.md:170`, FR-023).
  The counter expires after thirty minutes (`infra_redis.rs:237`) and the tries of
  the stop open again. What does hold is `CodeBorne`: no more than three compared
  codes per window, concurrency and replays included.

Bounds.

* *Order.* Two stops are the least that can count each other; a third only adds
  transactions of the same kind. Two couriers are the least that make a
  withdrawal visible. Three declarations climb the two rungs and still leave
  one that read before.
* *Hand-over.* Two runs of the application give two uuids to one hand-over; one
  request to unblock already gives blocks before, after and across the lift; an
  orphan request plays the part of a second drain at the server. One wrong code
  blocks: that a code is wrong and not yet blocking, and several drains, are
  left to the theorems, which hold for every limit and every number of drains.
* *Payment.* Two openings race, and the second may find the first live,
  refused, settled or lapsed. One crash separates the two commits of each path.
* *Dispatch.* Two offers to two couriers are a cascade followed by a broadcast
  (threshold 1), or a broadcast to both at once; the same courier is asked
  again only for another order, which the theorems cover.
* *Recovery.* With distances 0 and 1 a courier has moved or not; two
  assignments let the same courier come back.
* *Substitution.* Two lines make a sum that can be stale by one; two proposals
  may be on one line; a price of 7 exceeds the gap of 20 % and 6 does not; the
  vendor's share of the delivery (8) exceeds what the cheapest lines sum to.
* *Cash book.* Two stops give one advance before and one after a change of
  courier. A second worker does not fit the time allowed; the theorems hold for
  any number.
* *Session.* Two requests share a renewal; two ranks separate the current
  token from the previous one; the second session is a new sign-in.
* *Creation.* Two requests under one key are the replay; two reporters reach
  the threshold together.
* *Collection.* Two actions contend for one stop, or one follows the other's
  refusal; the queued copy and the orphan are two requests with one uuid, and
  the screen gives a third in flight; one try a window and two windows make the
  limit, its excess and its expiry. The stop is one; its fellow stops are the
  Boolean that decides the departure for the client.

Symmetry is used in `Commande`, `Dispatch` and `Creation`, only on
constants no definition names and, with it, only for safety properties (the
refinement of `Dispatch` is safety too: `AttributionIdeale` has no fairness).

Deadlock is not checked: an order ends, and nothing is left to do.

Fairness, and the code behind it.

* `Commande`, `Sanctions`, `Catalogue`, `Creation`, `Collecte`: none, their properties are
  safety properties.
* `Remise`: weak for `Drainer` (a drain that met no network rearms a timer),
  strong for delivery, answer and reception: attempts go on, and a network that
  fails every attempt for ever is excluded.
* `Paiement`: weak for the sweep, which runs every ten seconds, for the
  provider's repetition of a success and for the outbox; strong for the
  provider's answer to the sweep, which may fail each time but not for ever.
* `Dispatch`: states weak fairness of the tick (every five seconds), the
  outbox, the requests in progress and time; its run checks safety and the
  refinement, which do not use it.
* `Reprise`: weak for the tick. Nothing is asked of couriers, positions or time.
* `Substitution`: time, the sweep, transactions that have begun, and the row
  locks, which serve their waiters in turn (strong for the courier's write,
  which the others may delay). Nobody has to answer.
* `Caisse`: weak for the worker's loop.
* `Session`: weak for the requests the screens keep making, for the timeouts of
  the HTTP client and for the writes on the device; strong for the server's
  answer and for the 401 that an expired token draws in the end.

### Disagreements seen while modelling

The properties above are what holds. The following, met on the way, do not hold
in the code; the models contain them, so each is a behaviour of the module named.

*Order* (`Commande`, `Sanctions`)

* Two stops collected side by side leave the delivery in collection for ever
  (`depot.rs:739`, `gating_livraison`): each transaction counts the other stop
  as open. `CollecteJamaisOubliee` therefore only holds with one vendor.
* A cancellation decides the refund from rows it did not lock
  (`annulation.rs:169`) and may announce "free of charge" after a purchase
  committed beside it, or miss the refund of a payment (see *Payment*).
* A failure declared while the delivery is still in collection fails the trunk
  and leaves the delivery active (`echec.rs:405`).
* A prepaid order whose courier is withdrawn may be asked to prepay again and
  can no longer pay (`eligibilite.rs:250`).
* The identity of an incident is the caller's uuid: two uuids sanction the same
  failure twice (`admin_commandes_http.rs:231`); two refusals declared at once
  both impose the prepayment and neither blocks.
* The compensation of a failure without a stop is the order's total plus the
  courier's part, although the comment says "avance + part"
  (`echec.rs:282-291`, `:369-371`).

*Hand-over* (`Remise`)

* The device counts a wrong code before it reports it, and the server adds one
  to the maximum of the two counts: the same code counts twice
  (`collecte.rs:1050`).
* Any answer to a drained action is a refusal for good, a failure of the server
  too (`etat_course.dart:759`).
* A lift stamped before the block it finds resets the count and leaves the code
  blocked; a local count that the lift did not reset blocks it again.

*Collection* (`Collecte`)

* Two copies of one request may part: while the vendor is being suspended, one
  collects the stop and the other registers `jeton_revoque` under the same
  uuid. Both events are written, and every later replay is a refusal.
* A replay that read the registry before the collection was committed and the
  stop after it is answered `arret_hors_course`, and the device keeps as
  refused an action that succeeded.
* The courier is read on the pool and not again in the transaction
  (`marquer_arret_collecte`): one who was withdrawn meanwhile still collects.
* The counter of tries expires after thirty minutes and starts again
  (`infra_redis.rs:237`): a stop gets three tries per window and not three in all,
  against FR-023, US4 scenario 3 and SC-006 of `specs/006-qr-plaque-collecte`
  (run `essais_par_arret`).
* The queue takes every answer for a refusal for good, "photo required" and the
  server's own failures included (`etat_course.dart:752`); an action sent from
  the screen does not wait for those queued before it.
* Read beside the model: a stop declared unavailable is cached as still to be
  collected (`etat_course.dart:677`), although the comment at `:1085` has the
  course pass to the next one.

*Dispatch and recovery* (`Dispatch`, `Reprise`)

* Silence on an offer does not dispatch the order again while it is `nouvelle`
  (`tic.rs:79`), where `specs/009-dispatch-assignation-auto/spec.md:289` has the
  next candidate asked: an operator who was alerted must act.
* A pass that read before an acceptance may queue an order that has a courier,
  after which a second courier may accept it: two assignments of one order.
  Through a stale `course_active`, one courier may likewise hold two courses.
* The losers of a broadcast end as `non_repondue`: `marquer_deja_prise` has no
  caller.
* The incident of a courier without movement is committed before his withdrawal
  (`reprise.rs:362-366`). When a crash, or a refusal by the table, comes between
  the two, the next tick finds the row and stops (`ON CONFLICT DO NOTHING`): that
  courier is neither withdrawn nor reported, where FR-071, FR-073 and SC-015 of
  `specs/009-dispatch-assignation-auto/spec.md` (lines 315, 317, 379) have him
  replaced. `ImmobileTraitee` excepts exactly him (`coupee`).
* A stuck course is escalated once per delivery, not per incident;
  `distance_min_m` is not reset when the target stop changes, so a courier on
  his way to a farther stop looks immobile; an observation may be written after
  `oublier_progression`.

*Payment* (`Paiement`)

* A session the provider refused never expires (run `session_refusee`), and two
  live sessions may stand beside a refused one.
* A confirmation that commits between the read of a cancellation
  (`annulation.rs:126`) and its write leaves an order cancelled, paid for, and
  neither refunded nor filed, where
  `specs/008-commandes-cycle-de-vie/spec.md:215` has the refund recorded.
  `EncaissementVisible` excepts exactly that (`omis`).

*Substitution* (`Substitution`)

* The sweep selects on the pool, then closes each proposal without looking at
  it again (`substitution.rs:566`): an acceptance committed in between becomes
  an expiry, and the line the client agreed to is withdrawn.
* A stop found closed leaves an accepted replacement billed; two proposals may
  stand on the same line; two revisions at once may leave a total computed from
  lines the other changed (`TotalDesLignesVivantes` excludes exactly that).

*Cash book* (`Caisse`)

* The compensation announced by a cancellation names no courier
  (`annulation.rs:240`, while the comment at `:228` counts on it), and the
  consumer ignores it (`indemnisation.rs:47`).
* An advance is credited to whoever is on the delivery when the consumer reads,
  and dropped when nobody is; a refund goes wholly to the last courier;
  `avances_ouvertes` ignores claims already paid.
* Consumers depend on the order of events, although
  `specs/001-socle-monorepo/contracts/outbox.md:48` says they must not.

*Session* (`Session`)

* A renewal answered after the sign-out opens the session again on the device;
  a kill between the rotation and the write loses the session (a cost the
  comments accept); a lost answer to the sign-in leaves a live session nobody
  holds; no application calls `/auth/deconnexion`.

*Catalogue and creation* (`Catalogue`, `Creation`)

* The total is computed from the prices read in `resoudre_panier`, while
  `figer_prix` freezes those current in the transaction.
* A restriction that falls between the last read and the insertion is missed.
* `modifier_article` loses one of two simultaneous editions; a shortage put by
  an administrator is lifted by a vendor who had read before it; two reports at
  once count only their own rows and may both miss the threshold.

Read in code that no module covers: `decider_role` (`comptes/role.rs`) reads the
status without a lock, so that an approval and a rejection may both pass;
`tarification/grille.rs` publishes and edits rules without a lock, and `simuler`
fingerprints one reading of the grid and evaluates another.

## 4. Theorems

Every theorem holds for all values of the constants under the named assumptions
of the modules (finite non-empty sets of stops and couriers in `Commande`,
natural bounds elsewhere, model constants outside the sets they stand apart
from). The safety invariants are seldom inductive, because they say nothing of
requests in flight: each proof module states the strengthening `IInv` (or
`SInv`), proves that the initial states satisfy it and that every action
preserves it, and reads the property off it.

* **`CommandeProofs`**: its properties in both runs; that a resolved stop stays resolved
  (`ResolutionDefinitive`, which no run repeats); and four more invariants
  that no run repeats (`AchatOuvreLaCollecte`, `RemboursementFonde`,
  `PartDueApresAchat`, `EnCoursPortee`). `IInv` adds `TravauxFondes` (a
  transaction on a stop started from an unresolved stop, and what it concluded
  of the others still holds because statuses are never undone),
  `AnnulationFondee` (what a cancellation read is stale, but what it read as
  final is final) and `PaiementFonde`. `CollecteConclue` needs two more things:
  that there is one vendor (with two the property is false, see above), and
  `SeulArretDecide`, which says that the only stop is never resolved, nor about
  to be, without the departure of the delivery in the same commit. The table lemmas (`SystemeTronc`,
  `CoursierTronc`, `AnnulerTronc`...) state once what a row allows.
* **`ComptesProofs`**, four subjects.
  *Sanctions*: the ladder, its monotony (`EchelleMontante`), the single
  sanction, the courier's protection. `RangFonde`: a declaration that decided to
  block had read the prepayment, which no step lifts. `ArbreTotal` and
  `ArbreEquitable` are the facts about the tree.
  *Session*: `VolFonde`. The invariant counts presentations of tokens: of a
  session that was not reloaded with a spent token, the token of a renewal, the
  one in memory unless a renewal may have presented it, and the one on its way
  from the sign-in are each the server's current one with nothing lost that
  could still turn it (`Saine`); what was lost holds the current one too, so
  that there is one of it at most. It rests on `RenouvellementUnique`: one
  renewal at a time, and only it writes its pair. Nothing is needed of what the
  device stores: the restart compares it.
  *Creation*: `ReponseUnique` and `RestrictionRespectee`. `InsertionExclusive`
  (who holds a key's insertion is alone to, and no order has it) and
  `AnnoncesFondees` (an answer shows the row of its key) carry the first;
  `DemandesFondees` the second: the restriction a request began with was not a
  block, has only grown, and cash went through only without any. Totals
  are sums over the catalogue and stay untyped: nothing there depends on
  what a total is.
  *Catalogue*: `MasquageFonde`. `ComptesFondes` says that a report about to be
  committed has counted no more couriers than the table will hold with it,
  because the table only grows.
* **`RemiseProofs`**: the invariants and action properties of its run.
  `ClotureFondee` (a recorded uuid means a closed delivery, which makes a
  replay's "ok" true) and `AccusesFondes` (so does every "ok" on its way). The
  steps of the device and of the network go through one lemma,
  `ServeurImmobile`; `ReponseSure` is its counterpart for the server's answers.
* **`PaiementProofs`**: `EncaissementVisible` and the refinement: `Paiement`
  implements `EncaissementIdeal`. The invariant adds `SessionsFondees` (what a
  session's row says of the money and of the order),
  `ConfirmationsFondees` (whoever is about to confirm holds a settled session),
  which is what lets the second commit map to `Confirmer`, and `LecturesFideles`
  (what a cancellation has read is still so, unless it is marked as overtaken).
* **`DispatchProofs`**: a concluded offer is not concluded again, and the
  refinement of `AttributionIdeale`. `Fondees` ties each offer, acceptance and
  refusal in flight to its row and to `affectees`; `CoursePortee` says an order
  in progress has a courier who was assigned.
* **`CourseProofs`**, two subjects.
  *Recovery*: one alert per order and per delivery, no more automatic
  withdrawals than incidents. `EscaladeFondee` and `RetraitsFondes` say what the
  tick may be in the middle of; `IncidentNomme`, that an incident names a
  courier.
  *Collection*: all four properties of the run, for any number of actions,
  copies, drains and windows. Beside `CollecteHonoree` itself the invariant says
  that a request refused for good bears its motive (`RefusMotives`), that an
  unavailability accepted is remembered (`IndisponibleHonoree`), that a uuid
  names one action on the wire as in the queue (`UneActionParUuid`, without
  which the answer to one action could clear another), and that every code
  compared or about to be was counted by a try of some window
  (`EssaisComptes`, which counts the requests between the two). Most steps only
  move one request: `Devient` and its lemmas say so once.
* **`SubstitutionProofs`**: no price without consent, the total, the advance of
  an open stop, and that a paid advance is never rewritten. `SInv` adds the
  shape of each transaction, what each has summed (`SommeFondee`) and what the
  sweep still holds (`Releves`).
* **`CaisseProofs`**: types and both invariants of the run, that a key of the book
  is written once (`UneEcritureParFait`), that what the administration books
  it has settled or granted, and that the advances are counted once per stop,
  for any number of workers, stops and failures and for every amount.
  `Traites` says that an event a worker has treated in its lot is in the book.
  `GainJuste` is the longest argument. `LotsFondes`: an event is in one lot at
  most, so that one consumer at a time may settle. `AvancesComptees`: the sum of
  the advances is the price of a stop times the stops that are booked, so that
  it never exceeds `Avances`; what a consumer has read of it
  (`LecturesBornees`) is at most what is there when it writes, and a reading of
  the whole is therefore still exact. `Vierge`: before the settlement there is
  nothing but advances and compensations, so that no key of the settlement is
  taken; `Close`: after it they all are, so that a replay does nothing. The
  arithmetic is `Partage`, from `DevisFonde` (a flag or an offer leaves all of
  the price or nothing, and a retention is of one stop).
  The sums of the model are folds over finite sets of rows. Six lemmas
  (`PlusPetit` to `SommeAjout`) establish that such a sum is an integer and grows
  by the amount of an added row, whatever the order of the fold: the induction is
  by a minimal counterexample, from the well-foundedness of the strict subset
  order, since the library's induction theorems cannot be instantiated.

Only model-checked: the liveness properties (`FileVidee`, `SessionsConclues`,
`ArgentReconnu`, `AttenteEscaladee`, `ImmobileTraitee`, `PropositionConclue`,
`JournalVide`, `RenouvellementConclu`, `SessionMorteQuittee`), which are out of
the prover's reach with ENABLED. Every safety property that a run checks is also
a theorem.

## 5. What is left

In order of interest: one-time codes and sign-up; roles and their files;
vendors' approval, sites and hours; publication
of the price grids and the evaluation of a quote against a reference
definition; parameter inheritance over the zones; re-delivery orders.

## 6. Not modelled

Reference data other than the catalogue, pricing rules and routing, read
models, HTTP decoding and authorisation, the applications' screens other than
the hand-over, the collection and the sign-in, the plates' PDF and the photos, generated clients, infrastructure: either pure
functions and I/O, or listed above. `PROJECT.json` gives the reason for each
part.
