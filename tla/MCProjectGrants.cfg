SPECIFICATION FairSpec
CONSTANTS
  Projects = {"inner", "outer"}
  Names = {plain, comma}
  UnsafeNames = {comma}
  Workbooks <- MCWorkbooks
  PageSize = 1
  InitialNestings <- MCInitialNestings
  Budgets <- MCBudgets
INVARIANTS
  TypeOK
  InheritsFromItsOwn
  AllInherit
  CyclesTakeTwoMoves
PROPERTIES
  GrantsEnd
ACTION_CONSTRAINT Apart
