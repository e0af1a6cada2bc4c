SPECIFICATION Spec
CONSTANTS
  Users = {u1, u2}
  InPlay = {"SiteAdministrator", "Creator", "Guest"}
  Licenses = {"Explorer", "Creator"}
  Capped = {"Explorer", "Creator"}
  MaxChanges = 1
INVARIANTS
  TypeOK
  OneLicense
  OneListing
  SeatsAgree
SYMMETRY MCSymmetry
