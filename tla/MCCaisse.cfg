CONSTANTS
  Arrets = {a1, a2}
  Trajets = {{a1}, {a1, a2}}
  Drapeaux = {{}, {"livraison_offerte_mefali"}, {"gratuite_commissions", "offre_vendeur"}}
  Coursiers = {c1, c2}
  Personne = personne
  Workers = {w1}
  PrixArticles = {2, 5}
  Part = 3
  Marge = 1
  AffectationsMax = 2
  ArretsEchecMax = 1
  PannesMax = 1
SPECIFICATION Spec
CHECK_DEADLOCK FALSE
INVARIANTS PublieDoncPorte GainJuste
PROPERTIES JournalVide
