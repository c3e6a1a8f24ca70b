CONSTANTS
  Commandes = {k1}
  Coursiers = {l1, l2}
  Personne = personne
  Seuil = 1
  OffresMax = 2
  ArretsMax = 1
SPECIFICATION Spec
SYMMETRY Symetrie
CHECK_DEADLOCK FALSE
PROPERTIES AttributionTenue IssueDefinitive
