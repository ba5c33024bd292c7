SPECIFICATION Spec
CONSTANTS
  num_wh = 2
  num_dis = 1
  bucket_num = 2
  Customers = {1}
  Items = {1, 2}
  MaxLines = 2
  Tids <- MCTids
  Objects <- MCObjects
  Buckets <- MCBuckets
  Mixes <- NewOrderMixes
  Redraw = TRUE
INVARIANT
  Serializable
