SPECIFICATION Spec
CONSTANTS
  Tids <- MCTids
  Objects = {x, y}
  MaxHolds = 2
INVARIANTS
  TypeOK
  MutualExclusion
  AssertionsHold
  CountIsHolds
PROPERTIES
  EventuallyReleased
  ImplementsLock
