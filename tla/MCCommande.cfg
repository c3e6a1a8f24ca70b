CONSTANTS
  Collectes = {v1, v2}
  Remise = remise
  Coursiers = {c1}
  Personne = personne
  Declarations = {}
SPECIFICATION Spec
SYMMETRY Symetrie
CHECK_DEADLOCK FALSE
INVARIANTS
  CollectesAvantLivraison
  TermineeEstLivreeEtPayee
  PasDeCourseFantome
  PrepayeeAvantDepart
