SPECIFICATION Spec
CONSTANTS
  Users = {ann}
  Groups = {staff}
  Projects = {"outer", "inner"}
  Workbooks = {book}
  Views = {sheet}
  Parent <- MCParent
  Home <- MCHome
  Book <- MCBook
  Caps <- MCCaps
  InitialFacts <- MCInitialFacts
  Volatile <- MCVolatile
  Asked <- MCAsked
  MaxChanges = 1
  MaxFails = 1
INVARIANTS
  TypeOK
  StableAccessIsShown
  ShownAccessIsReal
  RevocableIsARule
  WritesAreShown
ACTION_CONSTRAINT InTurn
