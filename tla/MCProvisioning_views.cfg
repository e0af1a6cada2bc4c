SPECIFICATION FairSpec
CONSTANTS
  Tasks = {t1}
  Entitlements = {sheet}
  Principals = {alice, robot}
  Kind <- MCKind
  PrincipalType <- MCPrincipalType
  MaxRetries = 2
  perm = perm
  sheet = sheet
  team = team
  everyone = everyone
  alice = alice
  crew = crew
  robot = robot
INVARIANTS
  OutcomeIsTrue
  Effective
  FirstTryTellsAll
  LiveLookupGuards
PROPERTIES
  KeepsContract
  TasksEnd
CHECK_DEADLOCK FALSE
