------------------------- MODULE EncaissementIdeal -------------------------
(***************************************************************************)
(* What the payments domain promises about the money of one order, told    *)
(* without requests, notifications, sweeps or processes.  A session is     *)
(* payable, then taken in or closed; money that reaches a closed session   *)
(* is late and always leaves a file; the order is confirmed only when a    *)
(* session has been taken in.                                              *)
(***************************************************************************)
CONSTANT Sessions

VARIABLES
  sort,     \* what became of each session
  ordre,    \* the order, seen from its payment
  tardives  \* the sessions whose late money has a file

vars == <<sort, ordre, tardives>>

Init ==
  /\ sort = [s \in Sessions |-> "aucune"]
  /\ ordre \in {"libre", "attend"}
  /\ tardives = {}

Changer(s, de, vers) == sort[s] = de /\ sort' = [sort EXCEPT ![s] = vers]

Ouvrir(s) == Changer(s, "aucune", "payable") /\ UNCHANGED <<ordre, tardives>>
Encaisser(s) == Changer(s, "payable", "encaissee") /\ UNCHANGED <<ordre, tardives>>
Clore(s) == Changer(s, "payable", "close") /\ UNCHANGED <<ordre, tardives>>
RecevoirTard(s) ==
  /\ Changer(s, "close", "tardive")
  /\ tardives' = tardives \cup {s}
  /\ UNCHANGED ordre

Exiger == ordre \in {"libre", "confirmee"} /\ ordre' = "attend" /\ UNCHANGED <<sort, tardives>>
Confirmer ==
  /\ ordre = "attend"
  /\ \E s \in Sessions : sort[s] = "encaissee"
  /\ ordre' = "confirmee"
  /\ UNCHANGED <<sort, tardives>>
Abandonner == ordre # "annulee" /\ ordre' = "annulee" /\ UNCHANGED <<sort, tardives>>

Next ==
  \/ \E s \in Sessions : Ouvrir(s) \/ Encaisser(s) \/ Clore(s) \/ RecevoirTard(s)
  \/ Exiger \/ Confirmer \/ Abandonner

Spec == Init /\ [][Next]_vars

=============================================================================
