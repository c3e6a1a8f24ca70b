CONSTANTS
  EssaisMax = 1
  DemarragesMax = 2
  DeblocagesMax = 1
  OrphelinesMax = 1
  Drains = {d1}
SPECIFICATION Spec
CHECK_DEADLOCK FALSE
INVARIANTS
  AccuseFonde
  QrJamaisRefuse
  VerrouAlerte
PROPERTIES
  RemiseUneFois
  BlocageDurable
  FileVidee
