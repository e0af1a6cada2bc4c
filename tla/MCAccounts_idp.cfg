SPECIFICATION Spec
CONSTANTS
  Tasks = {t1, t2}
  Emails = {ann}
  Configs = {okta, entra}
  MaxChanges = 0
SYMMETRY TaskSymmetry
INVARIANTS
  OnlySAMLIsAutomatic
