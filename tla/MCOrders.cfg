SPECIFICATION Spec
CONSTANTS
  NewOrders <- MCNewOrders
  Deliveries <- MCDeliveries
  Payments <- MCPayments
  StockLevels <- MCStockLevels
  Mixes <- MCMixes
  MaxQueued = 2
INVARIANTS
  TypeOK
  QueueInOrder
  RowLockUnderBucketLock
  OrderFound
  RemovedIsDelivered
  DeliveriesInTurn
PROPERTY
  EventuallyEnds
