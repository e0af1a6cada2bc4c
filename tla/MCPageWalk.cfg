SPECIFICATION FairSpec
CONSTANTS
  Items = {i1, i2, i3}
  PageSize <- MCPageSize
INVARIANTS
  TypeOK
  Complete
  NoPhantom
  FirstWalkIsOrdered
PROPERTIES
  WalkEnds
CHECK_DEADLOCK FALSE
