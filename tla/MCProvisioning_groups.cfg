SPECIFICATION Spec
CONSTANTS
  Tasks = {t1, t2}
  Entitlements = {perm, team, everyone}
  Principals = {alice}
  Kind <- MCKind
  PrincipalType <- MCPrincipalType
  MaxRetries = 1
  perm = perm
  sheet = sheet
  team = team
  everyone = everyone
  alice = alice
  crew = crew
  robot = robot
INVARIANTS
  TypeOK
  OutcomeIsTrue
  Effective
  FirstTryTellsAll
PROPERTIES
  KeepsContract
SYMMETRY MCSymmetry
CHECK_DEADLOCK FALSE
