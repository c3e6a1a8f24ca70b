------------------------ MODULE AttributionIdeale -------------------------
(***************************************************************************)
(* What the dispatch promises about one order and the couriers: an order   *)
(* is taken by one courier at a time, by one who was asked; a courier is   *)
(* told "it is yours" only after having taken it; an order that is closed  *)
(* is never taken again.  Nothing is said of offers, locks or passes.      *)
(***************************************************************************)
CONSTANTS Commandes, Coursiers, Personne

VARIABLES
  preneur,    \* the courier who holds the order, or Personne
  closes,     \* the orders that are over
  sollicites, \* <<order, courier>>: asked at least once
  preneurs,   \* <<order, courier>>: has taken the order, once at least
  confirmes   \* <<order, courier>>: was told that the order is his

vars == <<preneur, closes, sollicites, preneurs, confirmes>>

Init ==
  /\ preneur = [c \in Commandes |-> Personne]
  /\ closes = {} /\ sollicites = {} /\ preneurs = {} /\ confirmes = {}

Solliciter(c, l) ==
  /\ sollicites' = sollicites \cup {<<c, l>>}
  /\ UNCHANGED <<preneur, closes, preneurs, confirmes>>

Prendre(c, l) ==
  /\ <<c, l>> \in sollicites /\ c \notin closes /\ preneur[c] = Personne
  /\ preneur' = [preneur EXCEPT ![c] = l]
  /\ preneurs' = preneurs \cup {<<c, l>>}
  /\ UNCHANGED <<closes, sollicites, confirmes>>

Confirmer(c, l) ==
  /\ <<c, l>> \in preneurs
  /\ confirmes' = confirmes \cup {<<c, l>>}
  /\ UNCHANGED <<preneur, closes, sollicites, preneurs>>

Reprendre(c) ==
  /\ preneur[c] # Personne
  /\ preneur' = [preneur EXCEPT ![c] = Personne]
  /\ UNCHANGED <<closes, sollicites, preneurs, confirmes>>

\* An order closes once, whoever holds it.
Clore(c) ==
  /\ c \notin closes
  /\ closes' = closes \cup {c}
  /\ preneur' = [preneur EXCEPT ![c] = Personne]
  /\ UNCHANGED <<sollicites, preneurs, confirmes>>

Next ==
  \E c \in Commandes :
    \/ Reprendre(c) \/ Clore(c)
    \/ \E l \in Coursiers : Solliciter(c, l) \/ Prendre(c, l) \/ Confirmer(c, l)

Spec == Init /\ [][Next]_vars

=============================================================================
