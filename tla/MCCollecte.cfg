CONSTANTS
  EssaisMax = 1
  ActionsMax = 2
  FenetresMax = 2
  OrphelinesMax = 1
  Drains = {d1}
  Commandes = {k1, k2}
  Declarations = {e1, e2, e3}
SPECIFICATION SpecCoursier
CHECK_DEADLOCK FALSE
INVARIANTS
  CollecteHonoree
  TraceUnique
  CodeBorne
  EchelleFondee
  CoursierNePerdJamais
PROPERTIES
  SortieFondee
