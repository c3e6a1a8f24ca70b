CONSTANTS
  EssaisMax = 1
  ActionsMax = 2
  FenetresMax = 2
  OrphelinesMax = 1
  Drains = {d1}
SPECIFICATION SpecCollecte
CHECK_DEADLOCK FALSE
INVARIANTS
  TroisEssaisParArret
