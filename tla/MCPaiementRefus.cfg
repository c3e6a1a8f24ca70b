CONSTANTS
  NbSessions = 1
  Charges = {c1}
  ArretsMax = 0
SPECIFICATION Spec
CHECK_DEADLOCK FALSE
PROPERTIES
  SessionsFinies
