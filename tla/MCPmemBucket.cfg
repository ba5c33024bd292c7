SPECIFICATION Spec
SYMMETRY ThreadSymmetry
CONSTANTS
  Threads = {t1, t2, t3}
  PerSize = 3
  MaxRows = 10
  MaxRoots = 3
INVARIANTS
  TypeOK
  InBoundsUnderLock
  RowsDistinct
  RootsMatchChunks
  RegionsAccounted
