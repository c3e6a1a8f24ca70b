CONSTANTS
  NbSessions = 2
  Charges = {c1}
  ArretsMax = 1
SPECIFICATION Spec
CHECK_DEADLOCK FALSE
INVARIANTS
  EncaissementVisible
PROPERTIES
  TientLaPromesse
  SessionsConclues
  ArgentReconnu
