SPECIFICATION Spec
CONSTANTS
  Tasks = {t1, t2}
  Users = {u1}
  InPlay = {"SiteAdministrator", "Creator", "Unlicensed", "ServerAdministrator"}
  MaxRetries = 1
INVARIANTS
  TypeOK
  OutcomeIsTrue
  LastTaskWins
PROPERTIES
  KeepsContract
SYMMETRY MCSymmetry
CHECK_DEADLOCK FALSE
