CONSTANTS
  Requetes = {r1, r2}
  Personne = personne
  SessionsMax = 2
  RangMax = 2
  ArretsMax = 1
SPECIFICATION SpecSession
CHECK_DEADLOCK FALSE
INVARIANTS VolFonde
PROPERTIES RenouvellementConclu SessionMorteQuittee
