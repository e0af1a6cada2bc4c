SPECIFICATION Spec
CONSTANTS
  Tasks = {t1}
  Users = {u1}
  InPlay = {"SiteAdministrator", "Creator", "Unlicensed", "ServerAdministrator"}
  MaxRetries = 3
INVARIANTS
  ServerAdministratorIsSyncOnly
CHECK_DEADLOCK FALSE
