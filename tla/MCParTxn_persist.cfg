SPECIFICATION Spec
CONSTANTS
  num_wh = 2
  num_dis = 1
  bucket_num = 2
  Customers = {1}
  Items = {1}
  MaxLines = 2
  Tids <- MCTids
  Objects <- MCObjects
  Buckets <- MCBuckets
  MaxRank = 6
  Mixes <- PersistMixes
INVARIANT
  PersistedInWriteOrder
