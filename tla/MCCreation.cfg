CONSTANTS
  Articles = {a1}
  Prix = {2, 5}
  Coursiers = {c1, c2}
  Signaleurs = {c1, c2}
  NbSignalements = 2
  Seuil = 2
  EditionsMax = 3
  Cles = {k1}
  Demandes = {r1, r2}
  Plafonds = {4, 9}
  Devis = 1
  Collectes = {v1}
  Remise = remise
  Personne = personne
  Declarations = {d1}
SPECIFICATION SpecClient
SYMMETRY Symetrie
CHECK_DEADLOCK FALSE
INVARIANTS
  ReponseUnique
  RestrictionRespectee
  CollecteJamaisOubliee
PROPERTIES
  MasquageFonde
  FinDefinitive
