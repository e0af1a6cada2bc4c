SPECIFICATION Spec
CONSTANTS
  Tasks = {t1, t2}
  Emails = {ann}
  Configs = {okta, entra}
  MaxChanges = 1
SYMMETRY TaskSymmetry
INVARIANTS
  TypeOK
  SignInIsJustified
  ReportIsTrue
  FailureChangesNothing
PROPERTIES
  KeepsContract
