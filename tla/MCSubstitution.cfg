CONSTANTS
  Arrets = {v1}
  NbLignes = 2
  Propositions = {p1, p2}
  Prix = 5
  Proposes = {6, 7}
  EcartMax = 20
  Retenue = 8
  PannesMax = 1
SPECIFICATION Spec
CHECK_DEADLOCK FALSE
INVARIANTS
  ConsentementAuPrix
  TotalDesLignesVivantes
  AvanceExacte
PROPERTIES
  PropositionConclue
