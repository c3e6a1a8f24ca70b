CONSTANTS
  Coursiers = {l1, l2}
  Personne = personne
  NbArrets = 2
  Portee = 1
  AffectationsMax = 2
  ArretsMax = 1
SPECIFICATION Spec
CHECK_DEADLOCK FALSE
INVARIANTS SansBoucle
PROPERTIES AttenteEscaladee ImmobileTraitee
