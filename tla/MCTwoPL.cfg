SPECIFICATION Spec
CONSTANTS
  num_wh = 2
  num_dis = 1
  bucket_num = 2
  Customers = {1}
  Items = {1}
  MaxLines = 2
  Tids <- MCTids
  Objects <- MCObjects
  ReadOnly <- MCItems
  CntMod = 4
  Mixes <- MCMixes
  Redraw = {2, 3}
INVARIANTS
  TypeOK
  LockExclusion
  ReaderWordsExact
  NoLockPanic
  NoAbortedData
  Serializable
  CrashConsistent
  NoWaitCycleApart
CHECK_DEADLOCK FALSE
