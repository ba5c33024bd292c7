---------------------------- MODULE OrdersProofs -----------------------------
(***************************************************************************)
(* Safety of the queue of a district (module Orders), for any number of    *)
(* transactions of each kind and of orders that are queued at first. The   *)
(* argument is in layers, each of them inductive relative to those before: *)
(*                                                                         *)
(*   BaseInv    types, the bound of the order numbers, the control points  *)
(*              of each kind of transaction, who holds the lock of the     *)
(*              bucket and that of a row, and that the index and the tags  *)
(*              lead to rows of their numbers: TypeOK and                  *)
(*              RowLockUnderBucketLock;                                    *)
(*   FollowInv  for each order the transactions that can vouch for it, one *)
(*              of which a delivery waits for: OrderFound; with RemovedInv,*)
(*              RemovedIsDelivered;                                        *)
(*   QueueInv   the new-orders and payments in the order in which they     *)
(*              wrote the district, which is that of the rows and of the   *)
(*              deque so long as the numbers are distinct and no           *)
(*              stock-level has hidden a writer: QueueInOrder;             *)
(*   TurnInv    the deliveries in the order in which they took the row of  *)
(*              an order, each of which waits for the one before:          *)
(*              DeliveriesInTurn.                                          *)
(*                                                                         *)
(* The transactions of FollowInv and the orders of the last two layers are *)
(* not in the state: the invariants say that such sets exist, and a step   *)
(* gives the next ones.                                                    *)
(***************************************************************************)
EXTENDS Orders, FiniteSetTheorems, SequenceTheorems, WellFoundedInduction, TLAPS

\* A row of the bucket.
Row == [o_id : 1..MaxOrder, owner : Deliveries \cup {0},
        info : NewOrders \cup Deliveries \cup {0}]

\* The control points.
Labels == {"wait", "run", "write_district", "push_row", "insert_index", "update_wd_index",
           "unlock_push", "insert_order", "delete", "lock_bucket", "lock_row", "delete_index",
           "remove_index", "set_info", "unlock_bucket", "panic", "done", "aborted"}

\* Who handles orders.
Handlers == NewOrders \cup Deliveries

\* The new-orders that have drawn a number, and the step that draws one.
Drawn == {t \in NewOrders : piece[t] > 1}
Draws(t) == WriteDistrict(t) /\ t \in NewOrders

\* TypeOK, and what it lacks. The numbers are bounded because each new-order
\* raises the counter once, and a payment only writes back one that it read.
TypeInv ==
  /\ TypeOK
  /\ pc \in [Tids -> Labels]
  /\ \A t \in Deliveries : deps[t] \subseteq NewOrders \cup Deliveries
  /\ read_row \in [Tids -> Nat] /\ delete_row \in [Tids -> Nat]
  /\ DOMAIN carriers = 1..MaxOrder
  /\ \A o \in 1..MaxOrder : carriers[o] \in Seq(Deliveries)
  /\ removed \subseteq Deliveries \X (1..MaxOrder)
  /\ retried \subseteq Deliveries /\ raced \subseteq Deliveries
  /\ d_next_o_id <= MaxQueued + Cardinality(Drawn) + 1
  /\ \A t \in Tids \ Payments : o_id[t] <= MaxOrder
  /\ \A t \in NewOrders : piece[t] > 1 => o_id[t] # 0
  /\ \A t \in Writers : pc[t] = "write_district" =>
       o_id[t] # 0 /\ o_id[t] <= MaxQueued + Cardinality(Drawn) + 1

\* The control points of new-orders by piece,
NewOrderInv(t) ==
  /\ pc[t] \in {"wait", "run", "write_district", "push_row", "insert_index", "update_wd_index",
                "unlock_push", "insert_order", "done"}
  /\ pc[t] = "write_district" => piece[t] = 1
  /\ pc[t] \in {"push_row", "insert_index", "update_wd_index", "unlock_push"} => piece[t] = 3
  /\ pc[t] = "insert_order" => piece[t] = 5
  /\ pc[t] \in {"wait", "done"} => rank[t] = piece[t] - 1
  /\ pc[t] \notin {"wait", "done"} => rank[t] = piece[t] /\ piece[t] <= 5
  /\ piece[t] <= 6
  /\ t \in committed => piece[t] = 6
  /\ piece[t] = 6 => o_id[t] \in orders

\* and of deliveries. Their pieces have the ranks 3 and 5.
DeliveryInv(t) ==
  /\ pc[t] \in {"wait", "run", "delete", "lock_bucket", "lock_row", "delete_index",
                "remove_index", "set_info", "unlock_bucket", "panic", "done", "aborted"}
  /\ piece[t] <= 3
  /\ pc[t] \in {"wait", "done"} =>
       rank[t] = (CASE piece[t] = 1 -> 0 [] piece[t] = 2 -> 3 [] piece[t] = 3 -> 5)
  /\ pc[t] \notin {"wait", "done"} => piece[t] # 3 /\ rank[t] = (IF piece[t] = 1 THEN 3 ELSE 5)
  /\ pc[t] \notin {"wait", "run", "panic", "done"} => piece[t] = 1
  /\ pc[t] = "panic" => piece[t] = 2
  /\ t \in committed => pc[t] = "aborted" \/ piece[t] = 3
  /\ rank[t] = 5 => deps[t] \subseteq committed

\* Of a payment, whose pieces have the ranks 1, 2, 5 and 6,
PaymentInv(t) ==
  /\ pc[t] \in {"wait", "run", "write_district", "done", "aborted"}
  /\ piece[t] <= 5
  /\ pc[t] \in {"wait", "done"} =>
       rank[t] = (CASE piece[t] = 1 -> 0 [] piece[t] = 2 -> 1 [] piece[t] = 3 -> 2
                    [] piece[t] = 4 -> 5 [] piece[t] = 5 -> 6)
  /\ pc[t] \notin {"wait", "done"} =>
       /\ piece[t] # 5
       /\ rank[t] = (CASE piece[t] = 1 -> 1 [] piece[t] = 2 -> 2 [] piece[t] = 3 -> 5
                       [] piece[t] = 4 -> 6)
  /\ pc[t] = "write_district" => piece[t] = 1
  /\ pc[t] = "aborted" => piece[t] = 3
  /\ t \in committed => pc[t] = "aborted" \/ piece[t] = 5

\* and of a stock-level, whose pieces have the ranks 1 and 5.
StockLevelInv(t) == pc[t] \in {"wait", "run", "done"} /\ piece[t] <= 3
                    /\ (pc[t] = "run" => piece[t] # 3)

\* What the bucket's lock is held for, and the row lock under it.
Holding == {"push_row", "insert_index", "update_wd_index", "unlock_push", "lock_row",
            "delete_index", "remove_index", "set_info", "unlock_bucket"}
RowHeld == {"delete_index", "remove_index", "set_info"}

\* Their holders are at these control points.
LockInv ==
  /\ \A t \in Tids : bucket_owner = t <=> pc[t] \in Holding
  /\ \A r \in DOMAIN rows : rows[r].owner # 0 =>
       pc[rows[r].owner] \in RowHeld /\ delete_row[rows[r].owner] = r

\* The index leads to the rows of a number, and the tags of a delivery are for
\* rows of the number it works with.
RowsInv ==
  /\ \A e \in index : rows[e[2]].o_id = e[1]
  /\ \A t \in NewOrders : pc[t] \in {"insert_index", "update_wd_index"} =>
       Len(rows) # 0 /\ rows[Len(rows)].o_id = o_id[t]
  /\ \A t \in Deliveries :
       /\ pc[t] \in {"delete", "lock_bucket", "lock_row", "delete_index", "remove_index",
                     "set_info", "unlock_bucket"} =>
            read_row[t] # 0 /\ rows[read_row[t]].o_id = o_id[t]
       /\ pc[t] \in {"lock_bucket", "lock_row", "delete_index", "remove_index",
                     "set_info", "unlock_bucket"} =>
            delete_row[t] # 0 /\ rows[delete_row[t]].o_id = o_id[t]

\* The layers up to here.
BaseInv ==
  /\ TypeInv
  /\ \A t \in NewOrders : NewOrderInv(t)
  /\ \A t \in Deliveries : DeliveryInv(t)
  /\ \A t \in Payments : PaymentInv(t)
  /\ \A t \in StockLevels : StockLevelInv(t)
  /\ LockInv
  /\ RowsInv

-----------------------------------------------------------------------------

\* The ranks of the pieces,
LEMMA RanksOfPieces ==
  /\ \A t \in NewOrders :
       Len(PieceRanks(t)) = 5 /\ \A i \in 1..5 : PieceRanks(t)[i] = i
  /\ \A t \in Deliveries :
       Len(PieceRanks(t)) = 2 /\ PieceRanks(t)[1] = 3 /\ PieceRanks(t)[2] = 5
  /\ \A t \in Payments :
       /\ Len(PieceRanks(t)) = 4 /\ PieceRanks(t)[1] = 1 /\ PieceRanks(t)[2] = 2
       /\ PieceRanks(t)[3] = 5 /\ PieceRanks(t)[4] = 6
  /\ \A t \in StockLevels :
       Len(PieceRanks(t)) = 2 /\ PieceRanks(t)[1] = 1 /\ PieceRanks(t)[2] = 5
<1>1. ASSUME NEW t \in NewOrders
      PROVE  Len(PieceRanks(t)) = 5 /\ \A i \in 1..5 : PieceRanks(t)[i] = i
  BY OrdersAssumption DEF PieceRanks, Writers
<1>2. ASSUME NEW t \in Deliveries
      PROVE  Len(PieceRanks(t)) = 2 /\ PieceRanks(t)[1] = 3 /\ PieceRanks(t)[2] = 5
  BY OrdersAssumption DEF PieceRanks, Writers
<1>3. ASSUME NEW t \in Payments
      PROVE  /\ Len(PieceRanks(t)) = 4 /\ PieceRanks(t)[1] = 1 /\ PieceRanks(t)[2] = 2
             /\ PieceRanks(t)[3] = 5 /\ PieceRanks(t)[4] = 6
  BY OrdersAssumption DEF PieceRanks, Writers
<1>4. ASSUME NEW t \in StockLevels
      PROVE  Len(PieceRanks(t)) = 2 /\ PieceRanks(t)[1] = 1 /\ PieceRanks(t)[2] = 5
  BY OrdersAssumption DEF PieceRanks, Writers
<1>5. QED
  BY <1>1, <1>2, <1>3, <1>4

\* and how many numbers are drawn.
LEMMA DrawnBounds ==
  /\ IsFiniteSet(NewOrders) /\ Cardinality(NewOrders) \in Nat
  /\ IsFiniteSet(Drawn) /\ Cardinality(Drawn) \in Nat
  /\ Cardinality(Drawn) <= Cardinality(NewOrders)
  /\ \A t \in NewOrders \ Drawn : Cardinality(Drawn) < Cardinality(NewOrders)
<1>1. IsFiniteSet(NewOrders)
  BY OrdersAssumption, FS_Subset DEF Tids, Writers
<1>2. Drawn \subseteq NewOrders
  BY DEF Drawn
<1>3. IsFiniteSet(Drawn) /\ Cardinality(Drawn) <= Cardinality(NewOrders)
  BY <1>1, <1>2, FS_Subset
<1>4. Cardinality(Drawn) \in Nat /\ Cardinality(NewOrders) \in Nat
  BY <1>1, <1>3, FS_CardinalityType
<1>5. ASSUME NEW t \in NewOrders \ Drawn
      PROVE  Cardinality(Drawn) < Cardinality(NewOrders)
  <2>1. Drawn # NewOrders
    BY <1>5
  <2>2. QED
    BY <1>1, <1>2, <1>3, <1>4, <2>1, FS_Subset
<1>6. QED
  BY <1>1, <1>3, <1>4, <1>5

\* The first layer holds at first.
LEMMA InitBaseInv == Init => BaseInv
<1> SUFFICES ASSUME Init PROVE BaseInv
  OBVIOUS
<1>1. PICK n \in 0..MaxQueued, mix \in Mixes :
        /\ d_next_o_id = n + 1
        /\ rows = [i \in 1..n |-> [o_id |-> i, owner |-> 0, info |-> 0]]
        /\ index = {<<i, i>> : i \in 1..n}
        /\ wd_index = [i \in 1..n |-> i]
        /\ orders = 1..n
        /\ pc = [t \in Tids |-> IF t \in mix THEN "wait" ELSE "done"]
  BY DEF Init
<1>2. /\ district_info = 0 /\ bucket_owner = 0 /\ order_owner = 0
      /\ rank = [t \in Tids |-> 0] /\ committed = {} /\ deps = [t \in Tids |-> {}]
      /\ piece = [t \in Tids |-> 1] /\ o_id = [t \in Tids |-> 0]
      /\ read_row = [t \in Tids |-> 0] /\ delete_row = [t \in Tids |-> 0]
      /\ no_o_id_arr = [t \in Tids |-> <<>>]
      /\ removed = {} /\ retried = {} /\ raced = {}
      /\ carriers = [o \in 1..MaxOrder |-> <<>>]
  BY DEF Init
<1>3. MaxQueued \in Nat /\ Cardinality(NewOrders) \in Nat /\ 1..n \subseteq 1..MaxOrder
      /\ n <= MaxQueued /\ n \in Nat
  BY OrdersAssumption, DrawnBounds DEF MaxOrder
<1>4. rows \in Seq(Row) /\ wd_index \in Seq(1..MaxOrder) /\ Len(rows) = n
  <2>1. \A i \in 1..n : [o_id |-> i, owner |-> 0, info |-> 0] \in Row
    BY <1>3 DEF Row
  <2>2. QED
    BY <1>1, <1>3, <2>1
<1>5. index \subseteq (1..MaxOrder) \X (1..Len(rows))
  BY <1>1, <1>3, <1>4
<1>6. pc \in [Tids -> Labels] /\ \A t \in Tids : pc[t] \in {"wait", "done"}
  BY <1>1 DEF Labels
<1>7. /\ \A t \in Tids : no_o_id_arr[t] \in Seq(0..MaxOrder)
      /\ \A o \in 1..MaxOrder : carriers[o] \in Seq(Deliveries)
  BY <1>2
<1>8. TypeInv
  <2>1. Drawn = {}
    BY <1>2 DEF Drawn, Tids, Writers
  <2>2. Cardinality(Drawn) = 0
    BY <2>1, FS_EmptySet
  <2>3. TypeOK
    BY <1>1, <1>2, <1>3, <1>4, <1>5, <1>7 DEF TypeOK, Row, MaxOrder
  <2>4. /\ \A t \in Deliveries : deps[t] = {}
        /\ \A t \in NewOrders : piece[t] = 1
        /\ \A t \in Tids : o_id[t] = 0
    BY <1>2 DEF Tids, Writers
  <2>5. \A t \in Writers : pc[t] # "write_district"
    BY <1>6 DEF Tids
  <2>6. read_row \in [Tids -> Nat] /\ delete_row \in [Tids -> Nat] /\ 0 <= MaxOrder
        /\ d_next_o_id <= MaxQueued + Cardinality(Drawn) + 1
    BY <1>1, <1>2, <1>3, <2>2 DEF MaxOrder
  <2>7. /\ DOMAIN carriers = 1..MaxOrder
        /\ removed \subseteq Deliveries \X (1..MaxOrder)
        /\ retried \subseteq Deliveries /\ raced \subseteq Deliveries
    BY <1>2
  <2>8. \A t \in Tids \ Payments : o_id[t] <= MaxOrder
    BY <2>4, <2>6
  <2>9. QED
    BY <1>6, <1>7, <2>3, <2>4, <2>5, <2>6, <2>7, <2>8 DEF TypeInv
<1>9. \A t \in Tids : pc[t] \notin Holding
  BY <1>6 DEF Holding
<1>10. LockInv
  BY <1>1, <1>2, <1>9, OrdersAssumption DEF LockInv
<1>11. RowsInv
  BY <1>1, <1>6 DEF RowsInv, Tids, Writers
<1>12. \A t \in NewOrders : NewOrderInv(t)
  BY <1>2, <1>6 DEF NewOrderInv, Tids, Writers
<1>13. \A t \in Deliveries : DeliveryInv(t)
  BY <1>2, <1>6 DEF DeliveryInv, Tids
<1>14. \A t \in Payments : PaymentInv(t)
  BY <1>2, <1>6 DEF PaymentInv, Tids, Writers
<1>15. \A t \in StockLevels : StockLevelInv(t)
  BY <1>2, <1>6 DEF StockLevelInv, Tids
<1>16. QED
  BY <1>8, <1>10, <1>11, <1>12, <1>13, <1>14, <1>15 DEF BaseInv

-----------------------------------------------------------------------------

\* What the steps change.
LEMMA StepChanges ==
  ASSUME NEW t \in Tids, Step(t)
  PROVE  /\ UNCHANGED rows \/ PushRow(t) \/ LockRow(t) \/ UnlockRow(t)
         /\ UNCHANGED index \/ InsertIndex(t) \/ RemoveIndex(t)
         /\ UNCHANGED wd_index \/ UpdateWdIndex(t) \/ DeleteIndex(t)
         /\ UNCHANGED d_next_o_id \/ WriteDistrict(t)
         /\ UNCHANGED district_info \/ WriteDistrict(t) \/ PassDistrict(t)
         /\ UNCHANGED orders \/ InsertOrder(t)
         /\ UNCHANGED order_owner \/ LockForOrder(t) \/ InsertOrder(t)
         /\ \/ UNCHANGED bucket_owner
            \/ LockForPush(t) \/ UnlockPush(t) \/ LockBucket(t) \/ UnlockBucket(t)
         /\ UNCHANGED committed \/ Commit(t) \/ DeleteRow(t) \/ AbortPayment(t)
         /\ UNCHANGED rank \/ StartPiece(t)
         /\ UNCHANGED deps \/ WriteDistrict(t) \/ LockRow(t)
         /\ UNCHANGED o_id \/ ReadDistrict(t) \/ RetrieveMin(t)
         /\ UNCHANGED read_row \/ RetrieveMin(t)
         /\ UNCHANGED delete_row \/ DeleteRow(t)
         /\ UNCHANGED no_o_id_arr \/ RetrieveMin(t) \/ NothingQueued(t) \/ DeleteRow(t)
         /\ UNCHANGED removed \/ DeleteIndex(t)
         /\ UNCHANGED carriers \/ Deliver(t)
         /\ UNCHANGED hidden \/ PassDistrict(t)
         /\ UNCHANGED retried \/ LockBucket(t) \/ LockRow(t)
         /\ UNCHANGED raced \/ RetrieveMin(t) \/ DeleteRow(t) \/ Deliver(t)
<1> USE DEF queueVars, tableVars, infoVars, tagVars, historyVars
<1>1. CASE StartPiece(t) \/ RunElsewhere(t) \/ Commit(t)
  BY <1>1 DEF StartPiece, RunElsewhere, Commit
<1>2. CASE ReadDistrict(t) \/ WriteDistrict(t) \/ PassDistrict(t) \/ AbortPayment(t)
           \/ LockForPush(t) \/ PushRow(t)
  BY <1>2 DEF ReadDistrict, WriteDistrict, PassDistrict, AbortPayment, LockForPush, PushRow
<1>3. CASE InsertIndex(t) \/ UpdateWdIndex(t) \/ UnlockPush(t) \/ LockForOrder(t) \/ InsertOrder(t)
  BY <1>3 DEF InsertIndex, UpdateWdIndex, UnlockPush, LockForOrder, InsertOrder
<1>4. CASE RetrieveMin(t) \/ NothingQueued(t) \/ DeleteRow(t)
  BY <1>4 DEF RetrieveMin, NothingQueued, DeleteRow
<1>5. CASE LockBucket(t) \/ LockRow(t)
  BY <1>5 DEF LockBucket, LockRow
<1>6. CASE DeleteIndex(t) \/ RemoveIndex(t) \/ UnlockRow(t) \/ UnlockBucket(t)
  BY <1>6 DEF DeleteIndex, RemoveIndex, UnlockRow, UnlockBucket
<1>7. CASE Deliver(t)
  BY <1>7 DEF Deliver
<1>8. QED
  BY <1>1, <1>2, <1>3, <1>4, <1>5, <1>6, <1>7 DEF Step

\* A step of t is of its own control point and changes no state of another
\* transaction.
LEMMA StepOthers ==
  ASSUME BaseInv, NEW t \in Tids, Step(t), NEW u \in Tids, u # t
  PROVE  /\ pc'[u] = pc[u] /\ piece'[u] = piece[u] /\ rank'[u] = rank[u]
         /\ deps'[u] = deps[u] /\ o_id'[u] = o_id[u] /\ no_o_id_arr'[u] = no_o_id_arr[u]
         /\ read_row'[u] = read_row[u] /\ delete_row'[u] = delete_row[u]
         /\ u \in committed' <=> u \in committed
         /\ u \in retried' <=> u \in retried
         /\ u \in raced' <=> u \in raced
         /\ \A o : <<u, o>> \in removed' <=> <<u, o>> \in removed
<1> USE DEF queueVars, tableVars, infoVars, tagVars, historyVars, Goto, EndPiece, AddDep, Collect,
        Missed
<1>0. /\ DOMAIN pc = Tids /\ DOMAIN piece = Tids /\ DOMAIN rank = Tids /\ DOMAIN deps = Tids
      /\ DOMAIN o_id = Tids /\ DOMAIN no_o_id_arr = Tids
      /\ DOMAIN read_row = Tids /\ DOMAIN delete_row = Tids
  BY DEF BaseInv, TypeInv, TypeOK
<1>1. CASE StartPiece(t) \/ RunElsewhere(t) \/ Commit(t)
  BY <1>0, <1>1 DEF StartPiece, RunElsewhere, Commit
<1>2. CASE ReadDistrict(t) \/ WriteDistrict(t) \/ PassDistrict(t) \/ AbortPayment(t)
           \/ LockForPush(t) \/ PushRow(t)
  BY <1>0, <1>2 DEF ReadDistrict, WriteDistrict, PassDistrict, AbortPayment, LockForPush, PushRow
<1>3. CASE InsertIndex(t) \/ UpdateWdIndex(t) \/ UnlockPush(t) \/ LockForOrder(t) \/ InsertOrder(t)
  BY <1>0, <1>3 DEF InsertIndex, UpdateWdIndex, UnlockPush, LockForOrder, InsertOrder
<1>4. CASE RetrieveMin(t) \/ NothingQueued(t) \/ DeleteRow(t)
  BY <1>0, <1>4 DEF RetrieveMin, NothingQueued, DeleteRow
<1>5. CASE LockBucket(t) \/ LockRow(t)
  BY <1>0, <1>5 DEF LockBucket, LockRow
<1>6. CASE DeleteIndex(t)
  <2>1. CASE Queued(o_id[t])
    BY <1>0, <1>6, <2>1 DEF DeleteIndex
  <2>2. CASE ~Queued(o_id[t])
    BY <1>0, <1>6, <2>2 DEF DeleteIndex
  <2>3. QED
    BY <2>1, <2>2
<1>7. CASE RemoveIndex(t) \/ UnlockRow(t) \/ UnlockBucket(t)
  BY <1>0, <1>7 DEF RemoveIndex, UnlockRow, UnlockBucket
<1>8. CASE Deliver(t)
  BY <1>0, <1>8 DEF Deliver
<1>9. QED
  BY <1>1, <1>2, <1>3, <1>4, <1>5, <1>6, <1>7, <1>8 DEF Step

\* Who may be at which control point.
LEMMA Kinds ==
  ASSUME BaseInv, NEW t \in Tids
  PROVE  /\ t # 0 /\ (t \in NewOrders => t \notin Deliveries)
         /\ t \in Payments => t \notin NewOrders \cup Deliveries
         /\ t \in StockLevels => t \notin Writers \cup Deliveries
         /\ pc[t] = "write_district" => t \in Writers
         /\ pc[t] \in {"push_row", "insert_index", "update_wd_index", "unlock_push",
                       "insert_order"} => t \in NewOrders
         /\ pc[t] \in {"delete", "lock_bucket", "lock_row", "delete_index", "remove_index",
                       "set_info", "unlock_bucket", "panic"} => t \in Deliveries
         /\ t \in NewOrders => NewOrderInv(t)
         /\ t \in Deliveries => DeliveryInv(t)
         /\ t \in Payments => PaymentInv(t)
         /\ t \in StockLevels => StockLevelInv(t)
<1>1. /\ t # 0 /\ (t \in NewOrders => t \notin Deliveries)
      /\ t \in Payments => t \notin NewOrders \cup Deliveries
      /\ t \in StockLevels => t \notin Writers \cup Deliveries
  BY OrdersAssumption DEF Tids, Writers
<1>2. /\ (t \in NewOrders => NewOrderInv(t)) /\ (t \in Deliveries => DeliveryInv(t))
      /\ (t \in Payments => PaymentInv(t)) /\ (t \in StockLevels => StockLevelInv(t))
  BY DEF BaseInv
<1>3. t \in NewOrders \/ t \in Deliveries \/ t \in Payments \/ t \in StockLevels
  BY DEF Tids, Writers
<1>4. QED
  BY <1>1, <1>2, <1>3 DEF NewOrderInv, DeliveryInv, PaymentInv, StockLevelInv, Writers

\* The steps of a delivery.
LEMMA DeliverySteps ==
  ASSUME BaseInv, NEW t \in Tids, Step(t), t \in Deliveries
  PROVE  \/ StartPiece(t) \/ Commit(t) \/ RetrieveMin(t) \/ NothingQueued(t) \/ DeleteRow(t)
         \/ LockBucket(t) \/ LockRow(t) \/ DeleteIndex(t) \/ RemoveIndex(t) \/ UnlockRow(t)
         \/ UnlockBucket(t) \/ Deliver(t)
<1>1. t \notin Writers \cup StockLevels /\ DeliveryInv(t)
  BY Kinds DEF Writers
<1>2. ~(RunElsewhere(t) \/ ReadDistrict(t) \/ WriteDistrict(t) \/ PassDistrict(t)
        \/ AbortPayment(t) \/ LockForPush(t) \/ LockForOrder(t))
  BY <1>1 DEF RunElsewhere, ReadDistrict, WriteDistrict, PassDistrict, AbortPayment, LockForPush,
              LockForOrder, Writers, DeliveryInv
<1>3. ~(PushRow(t) \/ InsertIndex(t) \/ UpdateWdIndex(t) \/ UnlockPush(t) \/ InsertOrder(t))
  BY <1>1 DEF PushRow, InsertIndex, UpdateWdIndex, UnlockPush, InsertOrder, DeliveryInv
<1>4. QED
  BY <1>2, <1>3 DEF Step

\* The rows are only appended to and keep their numbers.
LEMMA RowsGrow ==
  ASSUME BaseInv, NEW t \in Tids, Step(t)
  PROVE  /\ rows \in Seq(Row) /\ rows' \in Seq(Row)
         /\ Len(rows') = Len(rows) \/ (PushRow(t) /\ Len(rows') = Len(rows) + 1)
         /\ \A i \in DOMAIN rows : i \in DOMAIN rows' /\ rows'[i].o_id = rows[i].o_id
<1>0. rows \in Seq(Row) /\ DOMAIN rows = 1..Len(rows) /\ Len(rows) \in Nat
  BY DEF BaseInv, TypeInv, TypeOK, Row
<1>00. \A i \in DOMAIN rows : rows[i] \in Row
  BY <1>0
<1>1. CASE UNCHANGED rows
  BY <1>0, <1>1
<1>2. CASE PushRow(t)
  <2>1. t \in NewOrders /\ piece[t] = 3
    BY <1>2, Kinds DEF PushRow, NewOrderInv
  <2>2. o_id[t] \in 1..MaxOrder
    <3>1. o_id[t] \in 0..(MaxOrder + 1) /\ t \notin Payments
      BY <2>1, Kinds DEF BaseInv, TypeInv, TypeOK
    <3>3. o_id[t] # 0 /\ o_id[t] <= MaxOrder
      BY <2>1, <3>1 DEF BaseInv, TypeInv
    <3>2. MaxOrder \in Nat
      BY OrdersAssumption, DrawnBounds DEF MaxOrder
    <3>4. QED
      BY <3>1, <3>2, <3>3
  <2>3. [o_id |-> o_id[t], owner |-> 0, info |-> t] \in Row
    BY <2>1, <2>2 DEF Row
  <2>4. rows' = Append(rows, [o_id |-> o_id[t], owner |-> 0, info |-> t])
    BY <1>2 DEF PushRow
  <2>5. rows' \in Seq(Row) /\ Len(rows') = Len(rows) + 1
    BY <1>0, <2>3, <2>4
  <2>6. \A i \in DOMAIN rows : i \in DOMAIN rows' /\ rows'[i] = rows[i]
    BY <1>0, <2>4
  <2>7. QED
    BY <1>0, <1>2, <2>5, <2>6
<1>3. CASE LockRow(t)
  <2>0. t \in Deliveries
    BY <1>3, Kinds DEF LockRow
  <2>1. CASE UNCHANGED rows
    BY <1>0, <2>1
  <2>2. CASE rows' = [rows EXCEPT ![delete_row[t]].owner = t]
    <3>1. DOMAIN rows' = DOMAIN rows /\ \A i \in DOMAIN rows :
            rows'[i] = IF i = delete_row[t] THEN [rows[i] EXCEPT !.owner = t] ELSE rows[i]
      BY <1>0, <2>2
    <3>2. \A i \in DOMAIN rows : rows'[i] \in Row /\ rows'[i].o_id = rows[i].o_id
      BY <1>00, <2>0, <3>1 DEF Row
    <3>3. rows' \in [1..Len(rows) -> Row]
      BY <1>0, <2>2, <3>2
    <3>4. rows' \in Seq(Row) /\ Len(rows') = Len(rows)
      BY <1>0, <3>3
    <3>5. QED
      BY <1>0, <3>1, <3>2, <3>4
  <2>3. QED
    BY <1>3, <2>1, <2>2 DEF LockRow
<1>4. CASE UnlockRow(t)
  <2>1. rows' = [r \in DOMAIN rows |->
           [rows[r] EXCEPT !.info = IF r \in {read_row[t], delete_row[t]} THEN t ELSE @,
                           !.owner = IF r = delete_row[t] THEN 0 ELSE @]]
    BY <1>4 DEF UnlockRow
  <2>2. \A i \in DOMAIN rows : rows'[i] \in Row /\ rows'[i].o_id = rows[i].o_id
    <3>1. t \in Deliveries
      BY <1>4, Kinds DEF UnlockRow
    <3>2. QED
      BY <1>00, <2>1, <3>1 DEF Row
  <2>3. rows' \in [1..Len(rows) -> Row]
    BY <1>0, <2>1, <2>2
  <2>4. rows' \in Seq(Row) /\ Len(rows') = Len(rows)
    BY <1>0, <2>3
  <2>5. QED
    BY <1>0, <2>2, <2>4
<1>5. QED
  BY <1>1, <1>2, <1>3, <1>4, StepChanges

\* A position that is not 0 is that of a row with the number.
LEMMA RetrieveFinds ==
  ASSUME BaseInv, NEW o, NEW r \in Retrieve(o), r # 0
  PROVE  <<o, r>> \in index /\ r \in DOMAIN rows /\ rows[r].o_id = o
<1>1. index \subseteq (1..MaxOrder) \X (1..Len(rows)) /\ DOMAIN rows = 1..Len(rows)
  BY DEF BaseInv, TypeInv, TypeOK
<1>2. PICK e \in index : e[1] = o /\ e[2] = r
  BY DEF Retrieve
<1>3. e = <<o, r>> /\ r \in 1..Len(rows)
  BY <1>1, <1>2
<1>4. rows[r].o_id = o
  BY <1>2 DEF BaseInv, RowsInv
<1>5. QED
  BY <1>1, <1>2, <1>3, <1>4

\* What is drawn by a step.
LEMMA StepDrawn ==
  ASSUME BaseInv, NEW t \in Tids, Step(t)
  PROVE  /\ Draws(t) => t \in NewOrders \ Drawn /\ Drawn' = Drawn \cup {t}
                         /\ Cardinality(Drawn') = Cardinality(Drawn) + 1
         /\ ~Draws(t) => Drawn' = Drawn
<1>0. DOMAIN piece = Tids /\ piece[t] \in 1..6
  BY DEF BaseInv, TypeInv, TypeOK
<1>1. \A u \in NewOrders : u # t => piece'[u] = piece[u]
  BY StepOthers DEF Tids, Writers
<1> USE DEF Draws
<1>2. CASE WriteDistrict(t) /\ t \in NewOrders
  <2>1. t \in NewOrders /\ piece[t] = 1 /\ piece'[t] = 2
    BY <1>0, <1>2, Kinds DEF WriteDistrict, NewOrderInv, EndPiece
  <2>2. Drawn' = Drawn \cup {t} /\ t \notin Drawn
    BY <1>1, <2>1 DEF Drawn
  <2>3. Cardinality(Drawn') = Cardinality(Drawn) + 1
    BY <2>2, DrawnBounds, FS_AddElement
  <2>4. QED
    BY <1>2, <2>1, <2>2, <2>3
<1>3. CASE ~WriteDistrict(t) \/ t \notin NewOrders
  <2>1. CASE t \in NewOrders
    <3>1. piece'[t] > 1 <=> piece[t] > 1
      <4>1. CASE StartPiece(t) \/ Commit(t) \/ ReadDistrict(t) \/ LockForPush(t) \/ PushRow(t)
        BY <4>1 DEF StartPiece, Commit, ReadDistrict, LockForPush, PushRow, infoVars
      <4>2. CASE InsertIndex(t) \/ UpdateWdIndex(t) \/ LockForOrder(t)
        BY <4>2 DEF InsertIndex, UpdateWdIndex, LockForOrder
      <4>3. CASE RunElsewhere(t) \/ UnlockPush(t) \/ InsertOrder(t)
        <5>1. NewOrderInv(t)
          BY <2>1 DEF BaseInv
        <5>2. piece[t] > 1
          BY <1>0, <4>3, <5>1 DEF NewOrderInv, RunElsewhere, UnlockPush, InsertOrder
        <5>3. piece'[t] = piece[t] + 1
          BY <1>0, <4>3 DEF RunElsewhere, UnlockPush, InsertOrder, EndPiece
        <5>4. QED
          BY <1>0, <5>2, <5>3
      <4>4. ~(pc[t] \in {"delete", "lock_bucket", "lock_row", "delete_index", "remove_index",
                         "set_info", "unlock_bucket"}) /\ t \notin Deliveries
        BY <2>1, Kinds
      <4>5. ~(RetrieveMin(t) \/ NothingQueued(t) \/ DeleteRow(t) \/ LockBucket(t) \/ LockRow(t)
              \/ DeleteIndex(t) \/ RemoveIndex(t) \/ UnlockRow(t) \/ UnlockBucket(t) \/ Deliver(t)
              \/ PassDistrict(t) \/ AbortPayment(t))
        BY <2>1, <4>4, Kinds
           DEF RetrieveMin, NothingQueued, DeleteRow, LockBucket, LockRow, DeleteIndex,
               RemoveIndex, UnlockRow, UnlockBucket, Deliver, PassDistrict, AbortPayment, Writers
      <4>6. QED
        BY <1>3, <2>1, <4>1, <4>2, <4>3, <4>5 DEF Step
    <3>2. QED
      BY <1>1, <1>3, <3>1 DEF Drawn
  <2>2. CASE t \notin NewOrders
    BY <1>1, <1>3, <2>2 DEF Drawn
  <2>3. QED
    BY <2>1, <2>2
<1>4. QED
  BY <1>2, <1>3

\* A set of naturals has a least element,
LEMMA LeastOf ==
  ASSUME NEW T \in SUBSET Nat, T # {}
  PROVE  \E x \in T : \A y \in T : x <= y
<1>1. \E x \in T : \A y \in T : ~(y < x)
  <2>1. IsWellFoundedOn(OpToRel(<, Nat), Nat)
    BY NatLessThanWellFounded
  <2>2. PICK x \in T : \A y \in T : <<y, x>> \notin OpToRel(<, Nat)
    BY <2>1, WFMin
  <2>3. \A y \in T : <<y, x>> \in Nat \X Nat
    BY <2>2
  <2>4. \A y \in T : ~(y < x)
    BY <2>2, <2>3 DEF OpToRel
  <2>5. QED
    BY <2>4
<1>2. PICK x \in T : \A y \in T : ~(y < x)
  BY <1>1
<1>3. \A y \in T : y \in Nat /\ x \in Nat
  OBVIOUS
<1>4. QED
  BY <1>2, <1>3

\* q is s without the first occurrence of o.
FirstLeftOut(s, o, q) ==
  \E i \in 1..Len(s) :
    /\ s[i] = o /\ \A k \in 1..(i - 1) : s[k] # o
    /\ \A k \in 1..(Len(s) - 1) : q[k] = IF k < i THEN s[k] ELSE s[k + 1]

\* so Without leaves out the first occurrence.
LEMMA WithoutFirst ==
  ASSUME NEW S, NEW s \in Seq(S), NEW o, \E j \in DOMAIN s : s[j] = o
  PROVE  /\ Without(s, o) \in Seq(S) /\ Len(Without(s, o)) = Len(s) - 1
         /\ FirstLeftOut(s, o, Without(s, o))
<1> DEFINE First(j) == s[j] = o /\ \A k \in 1..(j - 1) : s[k] # o
           i == CHOOSE j \in DOMAIN s : First(j)
<1>0. DOMAIN s = 1..Len(s) /\ Len(s) \in Nat
  OBVIOUS
<1>1. \E j \in DOMAIN s : First(j)
  <2>1. {j \in DOMAIN s : s[j] = o} \in SUBSET Nat /\ {j \in DOMAIN s : s[j] = o} # {}
    BY <1>0
  <2>2. PICK j \in {k \in DOMAIN s : s[k] = o} : \A y \in {k \in DOMAIN s : s[k] = o} : j <= y
    BY <2>1, LeastOf
  <2>3. j \in DOMAIN s /\ First(j)
    BY <1>0, <2>2
  <2>4. QED
    BY <2>3
<1>2. i \in DOMAIN s /\ First(i)
  BY <1>1
<1>3. Without(s, o) = SubSeq(s, 1, i - 1) \o SubSeq(s, i + 1, Len(s))
  BY DEF Without
<1> HIDE DEF i
<1>4. i \in 1..Len(s)
  BY <1>0, <1>2
<1>5. /\ SubSeq(s, 1, i - 1) \in Seq(S) /\ Len(SubSeq(s, 1, i - 1)) = i - 1
      /\ \A k \in 1..(i - 1) : SubSeq(s, 1, i - 1)[k] = s[k]
  <2>1. \A k \in 1..(i - 1) : s[k] \in S /\ 1 + k - 1 = k
    BY <1>0, <1>4
  <2>2. 1 \in Int /\ i - 1 \in Int /\ (i - 1) - 1 + 1 = i - 1
        /\ (1 > i - 1 => i - 1 = 0)
    BY <1>0, <1>4
  <2>3. QED
    BY <2>1, <2>2, SubSeqProperties
<1>6. /\ SubSeq(s, i + 1, Len(s)) \in Seq(S) /\ Len(SubSeq(s, i + 1, Len(s))) = Len(s) - i
      /\ \A k \in 1..(Len(s) - i) : SubSeq(s, i + 1, Len(s))[k] = s[k + i]
  <2>1. \A k \in (i + 1)..Len(s) : s[k] \in S
    BY <1>0, <1>4
  <2>2. \A k \in 1..(Len(s) - i) : (i + 1) + k - 1 = k + i
    BY <1>0, <1>4
  <2>3. i + 1 \in Int /\ Len(s) \in Int /\ Len(s) - (i + 1) + 1 = Len(s) - i
    BY <1>0, <1>4
  <2>4. ~(i + 1 <= Len(s)) => Len(s) - i = 0
    <3>1. \A n \in Nat : \A j \in 1..n : ~(j + 1 <= n) => n - j = 0
      OBVIOUS
    <3>2. QED
      BY <1>0, <1>4, <3>1
  <2>5. QED
    BY <2>1, <2>2, <2>3, <2>4, SubSeqProperties
<1> DEFINE a == SubSeq(s, 1, i - 1)
           b == SubSeq(s, i + 1, Len(s))
<1> HIDE DEF a, b
<1>7. Without(s, o) \in Seq(S) /\ Len(Without(s, o)) = Len(s) - 1
      /\ \A k \in 1..(Len(s) - 1) : Without(s, o)[k] =
           IF k <= i - 1 THEN SubSeq(s, 1, i - 1)[k]
                         ELSE SubSeq(s, i + 1, Len(s))[k - (i - 1)]
  <2>1. a \in Seq(S) /\ b \in Seq(S) /\ Len(a) = i - 1 /\ Len(b) = Len(s) - i
        /\ Without(s, o) = a \o b
    BY <1>3, <1>5, <1>6 DEF a, b
  <2>2. (i - 1) + (Len(s) - i) = Len(s) - 1
    BY <1>0, <1>4
  <2>3. Without(s, o) \in Seq(S) /\ Len(Without(s, o)) = Len(s) - 1
        /\ \A k \in 1..(Len(s) - 1) : Without(s, o)[k] =
             IF k <= i - 1 THEN a[k] ELSE b[k - (i - 1)]
    BY <2>1, <2>2, ConcatProperties
  <2>4. QED
    BY <2>3 DEF a, b
<1>8. ASSUME NEW k \in 1..(Len(s) - 1)
      PROVE  Without(s, o)[k] = IF k < i THEN s[k] ELSE s[k + 1]
  <2>1. CASE k < i
    <3>1. k \in 1..(i - 1) /\ k <= i - 1
      BY <1>0, <1>4, <2>1
    <3>2. QED
      BY <1>5, <1>7, <2>1, <3>1
  <2>2. CASE ~(k < i)
    <3>1. k - (i - 1) \in 1..(Len(s) - i) /\ (k - (i - 1)) + i = k + 1 /\ ~(k <= i - 1)
      BY <1>0, <1>4, <2>2
    <3>2. QED
      BY <1>6, <1>7, <2>2, <3>1
  <2>3. QED
    BY <2>1, <2>2
<1>9. QED
  BY <1>2, <1>4, <1>7, <1>8 DEF FirstLeftOut

\* The control points of t,
LEMMA StepNewOrder ==
  ASSUME BaseInv, NEW t \in Tids, Step(t), NEW u \in NewOrders
  PROVE  NewOrderInv(u)'
<1>0. /\ u \in Tids /\ DOMAIN piece = Tids /\ DOMAIN rank = Tids /\ DOMAIN pc = Tids
      /\ piece[u] \in 1..6 /\ rank[u] \in 0..6
  BY DEF BaseInv, TypeInv, TypeOK, Tids, Writers
<1>1. NewOrderInv(u)
  BY DEF BaseInv
<1>2. orders \subseteq orders'
  BY StepChanges DEF InsertOrder
<1>3. CASE u # t
  BY <1>0, <1>1, <1>2, <1>3, StepOthers DEF NewOrderInv
<1>4. CASE u = t
  <2>1. /\ u \notin Deliveries \cup Payments \cup StockLevels
        /\ ~(pc[u] \in {"delete", "lock_bucket", "lock_row", "delete_index", "remove_index",
                         "set_info", "unlock_bucket"})
    BY <1>0, Kinds DEF Writers
  <2>2. Len(PieceRanks(u)) = 5 /\ \A i \in 1..5 : PieceRanks(u)[i] = i
    BY RanksOfPieces
  <2>3. CASE StartPiece(t)
    <3>1. pc[u] = "wait" /\ piece[u] \in 1..5 /\ rank'[u] = piece[u] /\ pc'[u] = "run"
          /\ piece' = piece /\ o_id' = o_id /\ orders' = orders /\ committed' = committed
      BY <1>0, <1>4, <2>2, <2>3 DEF StartPiece, Goto, tagVars, tableVars
    <3>2. QED
      BY <1>1, <3>1 DEF NewOrderInv
  <2>4. CASE Commit(t)
    <3>1. pc[u] = "wait" /\ piece[u] = 6 /\ pc'[u] = "done" /\ piece' = piece /\ rank' = rank
          /\ o_id' = o_id /\ orders' = orders
      BY <1>0, <1>4, <2>2, <2>4 DEF Commit, Goto, tagVars, tableVars
    <3>2. QED
      BY <1>1, <3>1 DEF NewOrderInv
  <2>5. CASE ReadDistrict(t) \/ LockForPush(t) \/ PushRow(t) \/ InsertIndex(t)
             \/ UpdateWdIndex(t) \/ LockForOrder(t)
    <3>1. /\ piece' = piece /\ rank' = rank /\ committed' = committed /\ orders' = orders
          /\ piece[u] # 6
          /\ \/ pc[u] = "run" /\ rank[u] = 1 /\ pc'[u] = "write_district"
             \/ pc[u] = "run" /\ rank[u] = 3 /\ pc'[u] = "push_row"
             \/ pc[u] = "push_row" /\ pc'[u] = "insert_index"
             \/ pc[u] = "insert_index" /\ pc'[u] = "update_wd_index"
             \/ pc[u] = "update_wd_index" /\ pc'[u] = "unlock_push"
             \/ pc[u] = "run" /\ rank[u] = 5 /\ pc'[u] = "insert_order"
      BY <1>0, <1>1, <1>4, <2>5
         DEF ReadDistrict, LockForPush, PushRow, InsertIndex, UpdateWdIndex, LockForOrder, Goto,
             At, infoVars, tableVars, NewOrderInv
    <3>2. QED
      BY <1>0, <1>1, <3>1 DEF NewOrderInv
  <2>6. CASE WriteDistrict(t) \/ RunElsewhere(t) \/ UnlockPush(t)
    <3>1. /\ piece'[u] = piece[u] + 1 /\ rank' = rank /\ committed' = committed
          /\ orders' = orders /\ pc'[u] = "wait" /\ piece[u] = rank[u] /\ piece[u] <= 4
      BY <1>0, <1>1, <1>4, <2>1, <2>6
         DEF WriteDistrict, RunElsewhere, UnlockPush, EndPiece, Goto, infoVars, tableVars,
             NewOrderInv
    <3>2. piece'[u] # 6 /\ rank'[u] = piece'[u] - 1
      BY <1>0, <3>1
    <3>3. QED
      BY <1>0, <1>1, <3>1, <3>2 DEF NewOrderInv
  <2>7. CASE InsertOrder(t)
    <3>1. /\ piece'[u] = 6 /\ rank' = rank /\ committed' = committed /\ rank[u] = 5
          /\ o_id' = o_id /\ orders' = orders \cup {o_id[u]} /\ pc'[u] = "wait"
      BY <1>0, <1>1, <1>4, <2>7 DEF InsertOrder, EndPiece, Goto, infoVars, tagVars, NewOrderInv
    <3>2. QED
      BY <1>0, <1>1, <3>1 DEF NewOrderInv
  <2>8. ~(RetrieveMin(t) \/ NothingQueued(t) \/ DeleteRow(t) \/ LockBucket(t) \/ LockRow(t)
          \/ DeleteIndex(t) \/ RemoveIndex(t) \/ UnlockRow(t) \/ UnlockBucket(t) \/ Deliver(t)
          \/ PassDistrict(t) \/ AbortPayment(t))
    BY <1>0, <1>4, <2>1, Kinds
       DEF RetrieveMin, NothingQueued, DeleteRow, LockBucket, LockRow, DeleteIndex, RemoveIndex,
           UnlockRow, UnlockBucket, Deliver, PassDistrict, AbortPayment, Writers
  <2>9. QED
    BY <2>3, <2>4, <2>5, <2>6, <2>7, <2>8 DEF Step
<1>5. QED
  BY <1>3, <1>4

\* of deliveries too,
LEMMA StepDelivery ==
  ASSUME BaseInv, NEW t \in Tids, Step(t), NEW u \in Deliveries
  PROVE  DeliveryInv(u)'
<1>0. /\ u \in Tids /\ DOMAIN piece = Tids /\ DOMAIN rank = Tids /\ DOMAIN pc = Tids
      /\ DOMAIN deps = Tids /\ piece[u] \in 1..6 /\ rank[u] \in 0..6
  BY DEF BaseInv, TypeInv, TypeOK, Tids
<1>1. DeliveryInv(u)
  BY DEF BaseInv
<1>2. committed \subseteq committed'
  BY StepChanges DEF Commit, DeleteRow, AbortPayment
<1>3. CASE u # t
  <2>1. deps'[u] = deps[u] /\ rank'[u] = rank[u] /\ pc'[u] = pc[u] /\ piece'[u] = piece[u]
        /\ (u \in committed' <=> u \in committed)
    BY <1>0, <1>3, StepOthers
  <2>2. QED
    BY <1>1, <1>2, <2>1 DEF DeliveryInv
<1>4. CASE u = t
  <2>2. Len(PieceRanks(u)) = 2 /\ PieceRanks(u)[1] = 3 /\ PieceRanks(u)[2] = 5
    BY RanksOfPieces
  <2>3. CASE StartPiece(t)
    <3>1. pc[u] = "wait" /\ piece[u] \in 1..2 /\ pc'[u] = "run"
          /\ rank'[u] = (IF piece[u] = 1 THEN 3 ELSE 5)
          /\ piece' = piece /\ committed' = committed /\ deps' = deps
          /\ \A d \in deps[u] : d \in committed \/ rank[d] > rank'[u]
      BY <1>0, <1>4, <2>2, <2>3 DEF StartPiece, Goto, HasStarted
    <3>2. \A d \in deps[u] : rank[d] \in 0..5
      <4>1. \A d \in Tids : piece[d] \in 1..6
        BY DEF BaseInv, TypeInv, TypeOK
      <4>2. ASSUME NEW d \in NewOrders
            PROVE  rank[d] \in 0..5
        <5>1. NewOrderInv(d) /\ d \in Tids
          BY DEF BaseInv, Tids, Writers
        <5>2. QED
          BY <4>1, <5>1 DEF NewOrderInv
      <4>3. ASSUME NEW d \in Deliveries
            PROVE  rank[d] \in 0..5
        <5>1. DeliveryInv(d) /\ d \in Tids
          BY DEF BaseInv, Tids
        <5>2. QED
          BY <4>1, <5>1 DEF DeliveryInv
      <4>4. QED
        BY <4>2, <4>3 DEF BaseInv, TypeInv
    <3>3. rank'[u] = 5 => deps'[u] \subseteq committed'
      <4>1. ASSUME rank'[u] = 5, NEW d \in deps[u]
            PROVE  d \in committed
        BY <3>1, <3>2, <4>1
      <4>2. QED
        BY <3>1, <4>1
    <3>4. QED
      BY <1>1, <3>1, <3>3 DEF DeliveryInv
  <2>4. CASE Commit(t)
    <3>1. pc[u] = "wait" /\ piece[u] > 2 /\ pc'[u] = "done" /\ piece' = piece /\ rank' = rank
          /\ deps' = deps
      BY <1>0, <1>4, <2>2, <2>4 DEF Commit, Goto
    <3>2. QED
      BY <1>0, <1>1, <1>2, <3>1 DEF DeliveryInv
  <2>5. CASE RetrieveMin(t) \/ NothingQueued(t)
    <3>1. /\ rank' = rank /\ committed' = committed /\ deps' = deps
          /\ pc[u] = "run" /\ rank[u] = 3 /\ piece[u] = 1
          /\ \/ pc'[u] = "delete" /\ piece' = piece
             \/ pc'[u] = "wait" /\ piece'[u] = 2
      BY <1>0, <1>1, <1>4, <2>5
         DEF RetrieveMin, NothingQueued, EndPiece, Goto, At, infoVars, DeliveryInv
    <3>2. QED
      BY <1>0, <1>1, <3>1 DEF DeliveryInv
  <2>6. CASE DeleteRow(t)
    <3>1. /\ rank' = rank /\ deps' = deps /\ piece' = piece /\ pc[u] = "delete"
          /\ \/ pc'[u] = "lock_bucket" /\ committed' = committed
             \/ pc'[u] = "aborted"
      BY <1>0, <1>4, <2>6 DEF DeleteRow, Goto
    <3>2. QED
      BY <1>0, <1>1, <1>2, <3>1 DEF DeliveryInv
  <2>7. CASE LockBucket(t) \/ DeleteIndex(t) \/ RemoveIndex(t) \/ UnlockRow(t)
    <3>1. /\ rank' = rank /\ deps' = deps /\ piece' = piece /\ committed' = committed
          /\ pc[u] \in {"lock_bucket", "delete_index", "remove_index", "set_info"}
          /\ pc'[u] \in {"lock_row", "run", "remove_index", "set_info", "unlock_bucket"}
      BY <1>0, <1>4, <2>7 DEF LockBucket, DeleteIndex, RemoveIndex, UnlockRow, Goto, infoVars
    <3>2. QED
      BY <1>0, <1>1, <3>1 DEF DeliveryInv
  <2>8. CASE LockRow(t)
    <3>1. /\ rank' = rank /\ piece' = piece /\ committed' = committed /\ pc[u] = "lock_row"
          /\ pc'[u] \in {"delete_index", "run"}
      BY <1>0, <1>4, <2>8 DEF LockRow, Goto
    <3>2. rank'[u] = 3
      BY <1>1, <3>1 DEF DeliveryInv
    <3>3. QED
      BY <1>0, <1>1, <3>1, <3>2 DEF DeliveryInv
  <2>9. CASE UnlockBucket(t) \/ Deliver(t)
    <3>1. /\ rank' = rank /\ deps' = deps /\ committed' = committed
          /\ \/ pc[u] = "unlock_bucket" \/ (pc[u] = "run" /\ rank[u] = 5)
          /\ \/ pc'[u] = "wait" /\ piece'[u] = piece[u] + 1
             \/ pc'[u] = "panic" /\ piece' = piece /\ rank[u] = 5
      BY <1>0, <1>4, <2>9 DEF UnlockBucket, Deliver, EndPiece, Goto, At, infoVars
    <3>2. QED
      BY <1>0, <1>1, <3>1 DEF DeliveryInv
  <2>10. QED
    BY <1>4, <2>3, <2>4, <2>5, <2>6, <2>7, <2>8, <2>9, DeliverySteps
<1>5. QED
  BY <1>3, <1>4

\* of payments,
LEMMA StepPayment ==
  ASSUME BaseInv, NEW t \in Tids, Step(t), NEW u \in Payments
  PROVE  PaymentInv(u)'
<1>0. /\ u \in Tids /\ u \in Writers /\ DOMAIN piece = Tids /\ DOMAIN rank = Tids
      /\ DOMAIN pc = Tids /\ piece[u] \in 1..6 /\ rank[u] \in 0..6
  BY DEF BaseInv, TypeInv, TypeOK, Tids, Writers
<1>1. PaymentInv(u)
  BY DEF BaseInv
<1>2. CASE u # t
  BY <1>0, <1>1, <1>2, StepOthers DEF PaymentInv
<1>3. CASE u = t
  <2>1. u \notin NewOrders /\ u \notin Deliveries /\ u \notin StockLevels
    BY <1>0, Kinds
  <2>2. /\ Len(PieceRanks(u)) = 4 /\ PieceRanks(u)[1] = 1 /\ PieceRanks(u)[2] = 2
        /\ PieceRanks(u)[3] = 5 /\ PieceRanks(u)[4] = 6
    BY RanksOfPieces
  <2>3. CASE StartPiece(t)
    <3>1. /\ pc[u] = "wait" /\ pc'[u] = "run" /\ piece[u] \in 1..4
          /\ rank'[u] = PieceRanks(u)[piece[u]] /\ piece' = piece /\ committed' = committed
      BY <1>0, <1>3, <2>2, <2>3 DEF StartPiece, Goto
    <3>2. QED
      BY <1>1, <2>2, <3>1 DEF PaymentInv
  <2>4. CASE Commit(t)
    <3>1. pc[u] = "wait" /\ piece[u] > 4 /\ pc'[u] = "done" /\ piece' = piece /\ rank' = rank
      BY <1>0, <1>3, <2>2, <2>4 DEF Commit, Goto
    <3>2. QED
      BY <1>0, <1>1, <3>1 DEF PaymentInv
  <2>5. CASE ReadDistrict(t) \/ AbortPayment(t)
    <3>1. /\ piece' = piece /\ rank' = rank /\ pc[u] = "run"
          /\ \/ rank[u] = 1 /\ pc'[u] = "write_district" /\ committed' = committed
             \/ rank[u] = 5 /\ pc'[u] = "aborted"
      BY <1>0, <1>3, <2>5 DEF ReadDistrict, AbortPayment, Goto, At, infoVars
    <3>2. QED
      BY <1>0, <1>1, <3>1 DEF PaymentInv
  <2>6. CASE WriteDistrict(t) \/ RunElsewhere(t)
    <3>1. /\ piece'[u] = piece[u] + 1 /\ rank' = rank /\ committed' = committed
          /\ pc'[u] = "wait" /\ pc[u] \in {"run", "write_district"}
          /\ pc[u] = "run" => rank[u] \in {2, 5, 6}
      BY <1>0, <1>3, <2>1, <2>6 DEF WriteDistrict, RunElsewhere, EndPiece, Goto, infoVars
    <3>2. QED
      BY <1>0, <1>1, <3>1 DEF PaymentInv
  <2>7. pc[u] \in {"wait", "run", "write_district", "done", "aborted"}
    BY <1>1 DEF PaymentInv
  <2>8. ~(PassDistrict(t) \/ LockForPush(t) \/ PushRow(t) \/ InsertIndex(t) \/ UpdateWdIndex(t)
          \/ UnlockPush(t) \/ LockForOrder(t) \/ InsertOrder(t))
    BY <1>3, <2>1, <2>7 DEF PassDistrict, LockForPush, PushRow, InsertIndex, UpdateWdIndex,
                            UnlockPush, LockForOrder, InsertOrder
  <2>9. ~(RetrieveMin(t) \/ NothingQueued(t) \/ DeleteRow(t) \/ LockBucket(t) \/ LockRow(t)
          \/ DeleteIndex(t) \/ RemoveIndex(t) \/ UnlockRow(t) \/ UnlockBucket(t) \/ Deliver(t))
    BY <1>3, <2>1, <2>7 DEF RetrieveMin, NothingQueued, DeleteRow, LockBucket, LockRow, DeleteIndex,
                            RemoveIndex, UnlockRow, UnlockBucket, Deliver
  <2>10. QED
    BY <2>3, <2>4, <2>5, <2>6, <2>8, <2>9 DEF Step
<1>4. QED
  BY <1>2, <1>3

\* and of stock-levels.
LEMMA StepStockLevel ==
  ASSUME BaseInv, NEW t \in Tids, Step(t), NEW u \in StockLevels
  PROVE  StockLevelInv(u)'
<1>0. /\ u \in Tids /\ DOMAIN piece = Tids /\ DOMAIN pc = Tids /\ piece[u] \in 1..6
      /\ StockLevelInv(u)
  BY DEF BaseInv, TypeInv, TypeOK, Tids
<1>1. CASE u # t
  BY <1>0, <1>1, StepOthers DEF StockLevelInv
<1>2. CASE u = t
  <2>1. u \notin Writers /\ u \notin Deliveries /\ Len(PieceRanks(u)) = 2
    BY <1>0, Kinds, RanksOfPieces
  <2>2. CASE StartPiece(t) \/ Commit(t)
    <3>1. /\ pc[u] = "wait" /\ piece' = piece
          /\ \/ pc'[u] = "run" /\ piece[u] <= 2
             \/ pc'[u] = "done"
      BY <1>0, <1>2, <2>1, <2>2 DEF StartPiece, Commit, Goto
    <3>2. QED
      BY <1>0, <3>1 DEF StockLevelInv
  <2>3. CASE PassDistrict(t) \/ RunElsewhere(t)
    <3>1. pc[u] = "run" /\ pc'[u] = "wait" /\ piece'[u] = piece[u] + 1
      BY <1>0, <1>2, <2>3 DEF PassDistrict, RunElsewhere, EndPiece, Goto, At
    <3>2. QED
      BY <1>0, <3>1 DEF StockLevelInv
  <2>4. ~(ReadDistrict(t) \/ WriteDistrict(t) \/ AbortPayment(t) \/ LockForPush(t) \/ PushRow(t)
          \/ InsertIndex(t) \/ UpdateWdIndex(t) \/ UnlockPush(t) \/ LockForOrder(t)
          \/ InsertOrder(t))
    BY <1>0, <1>2, <2>1
       DEF StockLevelInv, Writers, ReadDistrict, WriteDistrict, AbortPayment, LockForPush,
           PushRow, InsertIndex, UpdateWdIndex, UnlockPush, LockForOrder, InsertOrder
  <2>5. ~(RetrieveMin(t) \/ NothingQueued(t) \/ DeleteRow(t) \/ LockBucket(t) \/ LockRow(t)
          \/ DeleteIndex(t) \/ RemoveIndex(t) \/ UnlockRow(t) \/ UnlockBucket(t) \/ Deliver(t))
    BY <1>0, <1>2, <2>1
       DEF StockLevelInv, RetrieveMin, NothingQueued, DeleteRow, LockBucket, LockRow, DeleteIndex,
           RemoveIndex, UnlockRow, UnlockBucket, Deliver
  <2>6. QED
    BY <2>2, <2>3, <2>4, <2>5 DEF Step
<1>3. QED
  BY <1>1, <1>2

\* A step ends at most one piece, of t.
LEMMA StepPiece ==
  ASSUME BaseInv, NEW t \in Tids, Step(t)
  PROVE  piece' = piece \/ (piece' = [piece EXCEPT ![t] = @ + 1] /\ pc'[t] = "wait")
<1> USE DEF Goto, EndPiece
<1>0. DOMAIN pc = Tids
  BY DEF BaseInv, TypeInv
<1> USE <1>0
<1>1. CASE StartPiece(t) \/ Commit(t) \/ ReadDistrict(t) \/ LockForPush(t) \/ PushRow(t)
  BY <1>1 DEF StartPiece, Commit, ReadDistrict, LockForPush, PushRow
<1>2. CASE InsertIndex(t) \/ UpdateWdIndex(t) \/ LockForOrder(t)
  BY <1>2 DEF InsertIndex, UpdateWdIndex, LockForOrder
<1>3. CASE RunElsewhere(t) \/ WriteDistrict(t) \/ PassDistrict(t) \/ UnlockPush(t)
           \/ InsertOrder(t)
  BY <1>3 DEF RunElsewhere, WriteDistrict, PassDistrict, UnlockPush, InsertOrder
<1>4. CASE RetrieveMin(t) \/ NothingQueued(t)
  BY <1>4 DEF RetrieveMin, NothingQueued
<1>5. CASE DeleteRow(t) \/ LockBucket(t) \/ LockRow(t) \/ DeleteIndex(t) \/ RemoveIndex(t)
           \/ UnlockRow(t)
  BY <1>5 DEF DeleteRow, LockBucket, LockRow, DeleteIndex, RemoveIndex, UnlockRow
<1>6. CASE UnlockBucket(t) \/ Deliver(t) \/ AbortPayment(t)
  BY <1>6 DEF UnlockBucket, Deliver, AbortPayment
<1>7. QED
  BY <1>1, <1>2, <1>3, <1>4, <1>5, <1>6 DEF Step

\* the types and the bounds of the numbers,
LEMMA StepTypeInv ==
  ASSUME BaseInv, NEW t \in Tids, Step(t)
  PROVE  TypeInv'
<1> USE DEF Goto, EndPiece
<1>0. /\ TypeInv /\ TypeOK /\ MaxQueued \in Nat /\ MaxOrder = MaxQueued + Cardinality(NewOrders)
      /\ MaxOrder \in Nat
  BY SMTT(30), OrdersAssumption, DrawnBounds DEF BaseInv, TypeInv, MaxOrder
<1>1. /\ rows \in Seq(Row) /\ rows' \in Seq(Row) /\ DOMAIN rows = 1..Len(rows)
      /\ DOMAIN rows' = 1..Len(rows') /\ Len(rows) \in Nat /\ Len(rows') \in Nat
      /\ \A i \in DOMAIN rows : rows[i] \in Row
  BY RowsGrow, ElementOfSeq
<1>2. Len(rows) <= Len(rows')
  <2>1. Len(rows') = Len(rows) \/ Len(rows') = Len(rows) + 1
    BY RowsGrow
  <2>2. \A m, n \in Nat : n = m \/ n = m + 1 => m <= n
    OBVIOUS
  <2>3. QED
    BY <1>1, <2>1, <2>2
<1>3. pc' \in [Tids -> Labels] /\ piece' \in [Tids -> 1..6] /\ rank' \in [Tids -> 0..6]
  <2>1. /\ pc' \in [Tids -> Labels]
    BY <1>0 DEF TypeInv, Labels, Step, StartPiece, RunElsewhere, Commit, ReadDistrict,
       WriteDistrict, PassDistrict, AbortPayment, LockForPush, PushRow, InsertIndex,
       UpdateWdIndex, UnlockPush, LockForOrder, InsertOrder, RetrieveMin, NothingQueued, DeleteRow, LockBucket, LockRow, DeleteIndex,
       RemoveIndex, UnlockRow, UnlockBucket, Deliver
  <2>2. rank' \in [Tids -> 0..6]
    <3>1. CASE StartPiece(t)
      <4>1. piece[t] \in 1..Len(PieceRanks(t)) /\ rank \in [Tids -> 0..6]
            /\ rank' = [rank EXCEPT ![t] = PieceRanks(t)[piece[t]]]
        <5>1. piece[t] \in 1..6 /\ piece[t] <= Len(PieceRanks(t))
          BY <1>0, <3>1 DEF StartPiece, TypeOK
        <5>2. Len(PieceRanks(t)) \in Nat
          BY RanksOfPieces DEF Tids, Writers
        <5>3. QED
          BY <1>0, <3>1, <5>1, <5>2 DEF StartPiece, TypeOK
      <4>2. PieceRanks(t)[piece[t]] \in 0..6
        BY <4>1, RanksOfPieces DEF Tids, Writers
      <4>3. QED
        BY <4>1, <4>2
    <3>2. QED
      BY <1>0, <3>1, StepChanges DEF TypeOK
  <2>3. piece' \in [Tids -> 1..6]
    <3>1. piece' = piece \/ (piece' = [piece EXCEPT ![t] = @ + 1] /\ pc'[t] = "wait")
      BY StepPiece
    <3>2. CASE piece' = [piece EXCEPT ![t] = @ + 1] /\ pc'[t] = "wait"
      <4>1. piece \in [Tids -> 1..6] /\ piece'[t] = piece[t] + 1 /\ rank'[t] \in 0..6
        BY <1>0, <2>2, <3>2 DEF TypeOK
      <4>2. CASE t \in NewOrders
        BY <3>2, <4>1, <4>2, StepNewOrder DEF NewOrderInv
      <4>3. CASE t \in Deliveries
        BY <3>2, <4>1, <4>3, StepDelivery DEF DeliveryInv
      <4>4. CASE t \in Payments
        BY <3>2, <4>1, <4>4, StepPayment DEF PaymentInv
      <4>5. CASE t \in StockLevels
        BY <3>2, <4>1, <4>5, StepStockLevel DEF StockLevelInv
      <4>6. QED
        BY <3>2, <4>1, <4>2, <4>3, <4>4, <4>5 DEF Tids, Writers
    <3>3. QED
      BY <1>0, <3>1, <3>2 DEF TypeOK
  <2>4. QED
    BY <2>1, <2>2, <2>3
<1>4. /\ d_next_o_id' \in 1..(MaxOrder + 1)
      /\ d_next_o_id' <= MaxQueued + Cardinality(Drawn') + 1
  <2>0. /\ Cardinality(Drawn) \in Nat /\ Cardinality(Drawn) <= Cardinality(NewOrders)
        /\ Cardinality(NewOrders) \in Nat
    BY DrawnBounds
  <2>1. CASE WriteDistrict(t) /\ t \in NewOrders
    <3>1. t \notin Drawn /\ Cardinality(Drawn') = Cardinality(Drawn) + 1
          /\ Cardinality(Drawn) < Cardinality(NewOrders)
      BY <2>1, StepDrawn, DrawnBounds DEF Draws
    <3>2. d_next_o_id' = o_id[t] + 1 /\ o_id[t] \in Nat
          /\ o_id[t] <= MaxQueued + Cardinality(Drawn) + 1
      BY <1>0, <2>1, <3>1 DEF WriteDistrict, TypeInv, TypeOK, Writers
    <3>3. QED
      BY <1>0, <2>0, <3>1, <3>2
  <2>2. CASE WriteDistrict(t) /\ t \notin NewOrders
    <3>1. Drawn' = Drawn /\ d_next_o_id' = o_id[t] /\ t \in Writers
      BY <2>2, StepDrawn, Kinds DEF WriteDistrict, Draws
    <3>2. o_id[t] \in Nat /\ o_id[t] # 0 /\ o_id[t] <= MaxQueued + Cardinality(Drawn) + 1
      BY <1>0, <2>2, <3>1 DEF WriteDistrict, TypeInv, TypeOK
    <3>3. QED
      BY <1>0, <2>0, <3>1, <3>2
  <2>3. CASE ~WriteDistrict(t)
    <3>1. Drawn' = Drawn /\ d_next_o_id' = d_next_o_id
      BY <2>3, StepDrawn, StepChanges DEF Draws
    <3>2. QED
      BY <1>0, <3>1 DEF TypeInv, TypeOK
  <2>4. QED
    BY <2>1, <2>2, <2>3
<1>4a. district_info' \in (Tids \ Deliveries) \cup {0}
  <2>1. WriteDistrict(t) \/ PassDistrict(t) => t \notin Deliveries
    BY Kinds DEF WriteDistrict, PassDistrict, Writers
  <2>2. district_info' \in {district_info, t}
    BY StepChanges DEF WriteDistrict, PassDistrict
  <2>3. QED
    BY <1>0, <2>1, <2>2, StepChanges DEF TypeOK
<1>4b. \A u \in NewOrders : o_id[u] # 0 => o_id[u] \in 1..MaxOrder
  BY <1>0, Kinds DEF TypeInv, TypeOK, Tids, Writers
<1>5. index' \subseteq (1..MaxOrder) \X (1..Len(rows'))
  <2>1. index \subseteq (1..MaxOrder) \X (1..Len(rows'))
    <3>1. index \subseteq (1..MaxOrder) \X (1..Len(rows))
      BY <1>0 DEF TypeOK
    <3>2. 1..Len(rows) \subseteq 1..Len(rows')
      BY <1>1, <1>2
    <3>3. QED
      BY <3>1, <3>2
  <2>2. CASE InsertIndex(t)
    <3>1. t \in NewOrders /\ o_id[t] \in 1..MaxOrder
      <4>1. t \in NewOrders
        BY <2>2, Kinds DEF InsertIndex
      <4>2. piece[t] = 3
        BY <2>2, <4>1, Kinds DEF InsertIndex, NewOrderInv
      <4>3. QED
        BY <1>0, <1>4b, <4>1, <4>2 DEF TypeInv
    <3>2. Len(rows) # 0 /\ rows' = rows
      BY <2>2, <3>1 DEF BaseInv, RowsInv, InsertIndex
    <3>3. index' = {e \in index : e[1] # o_id[t]} \cup {<<o_id[t], Len(rows)>>}
      BY <2>2 DEF InsertIndex
    <3>4. <<o_id[t], Len(rows)>> \in (1..MaxOrder) \X (1..Len(rows'))
      BY <1>1, <3>1, <3>2
    <3>5. QED
      BY <2>1, <3>3, <3>4
  <2>3. CASE RemoveIndex(t)
    BY <2>1, <2>3 DEF RemoveIndex
  <2>4. QED
    BY <2>1, <2>2, <2>3, StepChanges
<1>6. wd_index' \in Seq(1..MaxOrder)
  <2>1. wd_index \in Seq(1..MaxOrder)
    BY <1>0 DEF TypeOK
  <2>2. CASE UpdateWdIndex(t)
    <3>1. t \in NewOrders
      BY <2>2, Kinds DEF UpdateWdIndex
    <3>2. piece[t] = 3
      BY <2>2, <3>1, Kinds DEF UpdateWdIndex, NewOrderInv
    <3>3. o_id[t] \in 1..MaxOrder
      BY <1>0, <1>4b, <3>1, <3>2 DEF TypeInv
    <3>4. QED
      BY <2>1, <2>2, <3>3 DEF UpdateWdIndex
  <2>3. CASE DeleteIndex(t)
    <3>1. CASE Queued(o_id[t])
      <4>1. Without(wd_index, o_id[t]) \in Seq(1..MaxOrder)
        BY <2>1, <3>1, WithoutFirst DEF Queued
      <4>2. QED
        BY <2>3, <3>1, <4>1 DEF DeleteIndex
    <3>2. CASE ~Queued(o_id[t])
      BY <2>1, <2>3, <3>2 DEF DeleteIndex
    <3>3. QED
      BY <3>1, <3>2
  <2>4. QED
    BY <2>1, <2>2, <2>3, StepChanges

<1>7. orders' \subseteq 1..MaxOrder
  <2>1. CASE InsertOrder(t)
    <3>1. t \in NewOrders
      BY <2>1, Kinds DEF InsertOrder
    <3>2. piece[t] = 5
      BY <2>1, <3>1, Kinds DEF InsertOrder, NewOrderInv
    <3>3. o_id[t] \in 1..MaxOrder
      BY <1>0, <1>4b, <3>1, <3>2 DEF TypeInv
    <3>4. QED
      BY <1>0, <2>1, <3>3 DEF InsertOrder, TypeOK
  <2>2. QED
    BY <1>0, <2>1, StepChanges DEF TypeOK
<1>8. bucket_owner' \in Tids \cup {0} /\ order_owner' \in NewOrders \cup {0}
  BY <1>0, StepChanges DEF TypeOK, LockForPush, UnlockPush, LockBucket, UnlockBucket,
                           LockForOrder, InsertOrder
<1>9. committed' \subseteq Tids
  <2>1. committed' \subseteq committed \cup {t}
    BY StepChanges DEF Commit, DeleteRow, AbortPayment
  <2>2. QED
    BY <1>0, <2>1 DEF TypeOK
<1>10. deps' \in [Tids -> SUBSET Tids]
  <2>1. deps \in [Tids -> SUBSET Tids] /\ deps[t] \subseteq Tids
    BY <1>0 DEF TypeOK
  <2>2. ASSUME NEW u \in Tids \cup {0}, AddDep(t, u)
        PROVE  deps' \in [Tids -> SUBSET Tids]
    <3>1. deps[t] \cup ({u} \ (committed \cup {0, t})) \in SUBSET Tids
      BY <2>1
    <3>2. QED
      BY <2>1, <2>2, <3>1 DEF AddDep
  <2>3. CASE WriteDistrict(t)
    <3>1. district_info \in Tids \cup {0}
      BY <1>0 DEF TypeOK, Tids
    <3>2. QED
      BY <2>2, <2>3, <3>1 DEF WriteDistrict
  <2>4. CASE LockRow(t)
    <3>1. delete_row[t] \in DOMAIN rows
      <4>1. t \in Deliveries
        BY <2>4, Kinds DEF LockRow
      <4>2. delete_row[t] # 0 /\ delete_row[t] \in 0..Len(rows)
        BY <1>0, <2>4, <4>1 DEF BaseInv, RowsInv, TypeOK, LockRow
      <4>3. QED
        BY <1>1, <4>2
    <3>2. rows[delete_row[t]].info \in Tids \cup {0}
      BY <1>1, <3>1 DEF Row, Tids, Writers
    <3>3. CASE AddDep(t, rows[delete_row[t]].info)
      BY <2>2, <3>2, <3>3
    <3>4. QED
      BY <2>1, <2>4, <3>3 DEF LockRow
  <2>5. QED
    BY <2>1, <2>3, <2>4, StepChanges
<1>8a. ASSUME NEW u \in Deliveries
       PROVE  deps'[u] \subseteq NewOrders \cup Deliveries
  <2>1. u \in Tids /\ deps[u] \subseteq NewOrders \cup Deliveries /\ DOMAIN deps = Tids
    BY <1>0 DEF TypeInv, TypeOK, Tids
  <2>2. CASE LockRow(t) /\ u = t
    <3>1. delete_row[t] \in DOMAIN rows
      <4>1. delete_row[t] # 0 /\ delete_row[t] \in 0..Len(rows)
        BY <1>0, <2>1, <2>2 DEF BaseInv, RowsInv, TypeOK, LockRow
      <4>2. QED
        BY <1>1, <4>1
    <3>2. rows[delete_row[t]].info \in NewOrders \cup Deliveries \cup {0}
      BY <1>1, <3>1 DEF Row
    <3>3. deps' = deps \/ AddDep(t, rows[delete_row[t]].info)
      BY <2>2 DEF LockRow
    <3>4. QED
      BY <2>1, <2>2, <3>2, <3>3 DEF AddDep
  <2>3. ~(WriteDistrict(t) /\ u = t)
    BY <2>1, Kinds DEF WriteDistrict, Writers
  <2>4. deps'[u] = deps[u] \/ (LockRow(t) /\ u = t)
    BY <2>1, <2>3, StepChanges, StepOthers
  <2>5. QED
    BY <2>1, <2>2, <2>4
<1>11. o_id' \in [Tids -> 0..(MaxOrder + 1)] /\ \A u \in Tids \ Payments : o_id'[u] <= MaxOrder
  <2>1. o_id \in [Tids -> 0..(MaxOrder + 1)] /\ \A u \in Tids \ Payments : o_id[u] <= MaxOrder
    BY <1>0 DEF TypeInv, TypeOK
  <2>2. CASE ReadDistrict(t)
    <3>1. o_id' = [o_id EXCEPT ![t] = d_next_o_id] /\ d_next_o_id \in 1..(MaxOrder + 1)
      BY <1>0, <2>2 DEF ReadDistrict, TypeOK
    <3>2. t \in NewOrders => d_next_o_id <= MaxOrder
      <4>1. t \in NewOrders => t \notin Drawn
        BY <2>2, Kinds DEF ReadDistrict, At, NewOrderInv, Drawn
      <4>2. d_next_o_id <= MaxQueued + Cardinality(Drawn) + 1
        BY <1>0 DEF TypeInv
      <4>3. QED
        BY <1>0, <3>1, <4>1, <4>2, DrawnBounds
    <3>3. t \in NewOrders \/ t \in Payments
      BY <2>2 DEF ReadDistrict, Writers
    <3>4. QED
      BY <1>0, <2>1, <3>1, <3>2, <3>3
  <2>3. CASE RetrieveMin(t)
    <3>1. PICK r \in Retrieve(Head(wd_index)) :
            \/ r # 0 /\ o_id' = [o_id EXCEPT ![t] = rows[r].o_id]
            \/ r = 0 /\ o_id' = o_id
      BY <2>3 DEF RetrieveMin
    <3>2. CASE r = 0
      BY <2>1, <3>1, <3>2
    <3>3. CASE r # 0
      <4>1. r \in DOMAIN rows
        BY <3>3, RetrieveFinds
      <4>2. rows[r].o_id \in 1..MaxOrder
        BY <1>1, <4>1 DEF Row
      <4>3. QED
        BY <1>0, <2>1, <3>1, <3>3, <4>2
    <3>4. QED
      BY <3>2, <3>3
  <2>4. QED
    BY <2>1, <2>2, <2>3, StepChanges
<1>12. /\ \A u \in Tids : read_row'[u] \in 0..Len(rows') /\ delete_row'[u] \in 0..Len(rows')
       /\ read_row' \in [Tids -> Nat] /\ delete_row' \in [Tids -> Nat]
  <2>1. /\ read_row \in [Tids -> Nat] /\ delete_row \in [Tids -> Nat]
        /\ \A u \in Tids : read_row[u] \in 0..Len(rows') /\ delete_row[u] \in 0..Len(rows')
    <3>1. \A k, l \in Nat : l = k \/ l = k + 1 => \A i \in 0..k : i \in 0..l
      OBVIOUS
    <3>2. /\ read_row \in [Tids -> Nat] /\ delete_row \in [Tids -> Nat]
          /\ \A u \in Tids : read_row[u] \in 0..Len(rows) /\ delete_row[u] \in 0..Len(rows)
      BY <1>0 DEF TypeInv, TypeOK
    <3>3. /\ Len(rows) \in Nat /\ Len(rows') \in Nat
          /\ Len(rows') = Len(rows) \/ Len(rows') = Len(rows) + 1
      BY <1>1, RowsGrow
    <3>4. QED
      BY <3>1, <3>2, <3>3
  <2>2. \A o : \A r \in Retrieve(o) : r \in 0..Len(rows') /\ r \in Nat
    <3>1. \A o : \A r \in Retrieve(o) : r = 0 \/ r \in 1..Len(rows)
      BY <1>1, RetrieveFinds
    <3>2. QED
      BY <1>1, <1>2, <3>1
  <2>3. read_row' = read_row \/ \E r \in 0..Len(rows') : read_row' = [read_row EXCEPT ![t] = r]
    BY <2>2, StepChanges DEF RetrieveMin
  <2>4. delete_row' = delete_row
        \/ \E r \in 0..Len(rows') : delete_row' = [delete_row EXCEPT ![t] = r]
    BY <2>2, StepChanges DEF DeleteRow
  <2>5. \A r \in 0..Len(rows') : r \in Nat
    BY <1>1
  <2>6. QED
    BY <2>1, <2>3, <2>4, <2>5
<1>13. no_o_id_arr' \in [Tids -> Seq(0..MaxOrder)]
  <2>1. no_o_id_arr \in [Tids -> Seq(0..MaxOrder)]
    BY <1>0 DEF TypeOK
  <2>2. ASSUME NEW o \in 0..MaxOrder, Collect(t, o)
        PROVE  no_o_id_arr' \in [Tids -> Seq(0..MaxOrder)]
    <3>1. <<o>> \in Seq(0..MaxOrder) /\ no_o_id_arr[t] \in Seq(0..MaxOrder)
      BY <2>1
    <3>2. QED
      BY <2>1, <2>2, <3>1 DEF Collect
  <2>3. (DeleteRow(t) => o_id[t] \in 0..MaxOrder) /\ 0 \in 0..MaxOrder
    <3>1. DeleteRow(t) => t \notin Payments
      BY Kinds DEF DeleteRow
    <3>2. o_id[t] \in 0..(MaxOrder + 1) /\ (t \notin Payments => o_id[t] <= MaxOrder)
      BY <1>0 DEF TypeInv, TypeOK
    <3>3. QED
      BY <1>0, <3>1, <3>2
  <2>4. no_o_id_arr' = no_o_id_arr \/ Collect(t, 0) \/ (DeleteRow(t) /\ Collect(t, o_id[t]))
    BY StepChanges DEF RetrieveMin, NothingQueued, DeleteRow
  <2>5. QED
    BY <2>1, <2>2, <2>3, <2>4
<1>14. DOMAIN carriers' = 1..MaxOrder /\ \A o \in 1..MaxOrder : carriers'[o] \in Seq(Deliveries)
  <2>1. CASE Deliver(t)
    <3>1. carriers' = carriers
          \/ (Entry(t) \in orders /\ carriers' = [carriers EXCEPT ![Entry(t)] = Append(@, t)])
      BY <2>1 DEF Deliver
    <3>2. t \in Deliveries
      BY <2>1 DEF Deliver
    <3>3. \A o \in 1..MaxOrder : Append(carriers[o], t) \in Seq(Deliveries)
      BY <1>0, <3>2 DEF TypeInv
    <3>4. QED
      BY <1>0, <3>1, <3>3 DEF TypeInv
  <2>2. QED
    BY <1>0, <2>1, StepChanges DEF TypeInv
<1>15. removed' \subseteq Deliveries \X (1..MaxOrder)
  <2>1. CASE DeleteIndex(t) /\ removed' # removed
    <3>1. t \in Deliveries
      BY <2>1, Kinds DEF DeleteIndex
    <3>2. Queued(o_id[t]) /\ removed' = removed \cup {<<t, o_id[t]>>}
      BY <2>1 DEF DeleteIndex
    <3>3. o_id[t] \in 1..MaxOrder
      BY <1>0, <3>2 DEF Queued, TypeOK
    <3>4. QED
      BY <1>0, <3>1, <3>2, <3>3 DEF TypeInv
  <2>2. QED
    BY <1>0, <2>1, StepChanges DEF TypeInv
<1>16. retried' \subseteq Deliveries /\ raced' \subseteq Deliveries
  <2>1. retried' # retried \/ raced' # raced => t \in Deliveries
    <3>1. RetrieveMin(t) \/ Deliver(t) => t \in Deliveries
      BY DEF RetrieveMin, Deliver
    <3>2. DeleteRow(t) \/ LockBucket(t) \/ LockRow(t) => t \in Deliveries
      BY Kinds DEF DeleteRow, LockBucket, LockRow
    <3>3. QED
      BY <3>1, <3>2, StepChanges
  <2>2. retried' \subseteq retried \cup {t}
    BY StepChanges DEF LockBucket, LockRow
  <2>3. raced' \subseteq raced \cup {t}
    BY StepChanges DEF RetrieveMin, DeleteRow, Deliver, Missed
  <2>4. QED
    BY <1>0, <2>1, <2>2, <2>3 DEF TypeInv
<1>17. /\ \A u \in NewOrders : piece'[u] > 1 => o_id'[u] # 0
       /\ \A u \in Writers : pc'[u] = "write_district" =>
            o_id'[u] # 0 /\ o_id'[u] <= MaxQueued + Cardinality(Drawn') + 1
  <2>1. /\ \A u \in NewOrders : piece[u] > 1 => o_id[u] # 0
        /\ \A u \in Writers : pc[u] = "write_district" =>
             o_id[u] # 0 /\ o_id[u] <= MaxQueued + Cardinality(Drawn) + 1
        /\ o_id \in [Tids -> 0..(MaxOrder + 1)] /\ o_id' \in [Tids -> 0..(MaxOrder + 1)]
    BY <1>0, <1>11 DEF TypeInv, TypeOK
  <2>2. Cardinality(Drawn) \in Nat /\ Cardinality(Drawn') \in Nat
        /\ Cardinality(Drawn) <= Cardinality(Drawn')
    BY StepDrawn, DrawnBounds
  <2>3. ASSUME NEW u \in Writers, u # t
        PROVE  /\ piece'[u] = piece[u] /\ o_id'[u] = o_id[u]
               /\ pc'[u] = "write_district" =>
                    o_id'[u] # 0 /\ o_id'[u] <= MaxQueued + Cardinality(Drawn') + 1
    <3>1. u \in Tids
      BY DEF Tids
    <3>2. piece'[u] = piece[u] /\ pc'[u] = pc[u] /\ o_id'[u] = o_id[u] /\ o_id[u] \in Nat
      BY <2>1, <2>3, <3>1, StepOthers
    <3>3. QED
      BY <1>0, <2>1, <2>2, <3>2
  <2>4. ASSUME t \in Writers, pc'[t] = "write_district"
        PROVE  o_id'[t] # 0 /\ o_id'[t] <= MaxQueued + Cardinality(Drawn') + 1
    <3>1. ReadDistrict(t)
      BY <1>0, <2>4, Kinds
         DEF TypeInv, Step, StartPiece, RunElsewhere, Commit, ReadDistrict, WriteDistrict,
         PassDistrict, AbortPayment, LockForPush, PushRow, InsertIndex, UpdateWdIndex, UnlockPush,
         LockForOrder, InsertOrder, RetrieveMin, NothingQueued, DeleteRow, LockBucket, LockRow,
         DeleteIndex, RemoveIndex, UnlockRow, UnlockBucket, Deliver
    <3>2. o_id'[t] = d_next_o_id /\ Drawn' = Drawn
      BY <2>1, <3>1, StepDrawn DEF Draws, ReadDistrict, WriteDistrict, At
    <3>3. QED
      BY <1>0, <3>2 DEF TypeInv, TypeOK
  <2>5. ASSUME t \in NewOrders, piece'[t] > 1
        PROVE  o_id'[t] # 0
    <3>1. piece[t] > 1 \/ pc[t] = "write_district"
      BY <2>5, StepDrawn DEF Draws, Drawn, WriteDistrict
    <3>2. CASE ReadDistrict(t)
      BY <1>0, <2>1, <3>2 DEF ReadDistrict, TypeOK
    <3>3. CASE ~ReadDistrict(t)
      <4>1. ~RetrieveMin(t)
        BY <2>5, Kinds DEF RetrieveMin
      <4>2. o_id' = o_id
        BY <3>3, <4>1, StepChanges
      <4>3. QED
        BY <2>1, <2>5, <3>1, <4>2 DEF Writers
    <3>4. QED
      BY <3>2, <3>3
  <2>6. QED
    BY <2>1, <2>3, <2>4, <2>5 DEF Writers
<1>18. TypeOK'
  <2>1. rows' \in Seq([o_id : 1..MaxOrder, owner : Deliveries \cup {0},
                       info : NewOrders \cup Deliveries \cup {0}])
    BY <1>1 DEF Row
  <2>2. QED
    BY <1>3, <1>4, <1>4a, <1>5, <1>6, <1>7, <1>8, <1>9, <1>10, <1>11, <1>12, <1>13, <2>1
       DEF TypeOK, MaxOrder
<1>19. QED
  BY <1>3, <1>4, <1>8a, <1>11, <1>12, <1>14, <1>15, <1>16, <1>17, <1>18 DEF TypeInv, MaxOrder

\* where a step goes,
LEMMA Moves ==
  ASSUME BaseInv, NEW t \in Tids
  PROVE  /\ StartPiece(t) => pc[t] = "wait" /\ pc'[t] = "run"
         /\ Commit(t) => pc[t] = "wait" /\ pc'[t] = "done"
         /\ RunElsewhere(t) => pc[t] = "run" /\ pc'[t] = "wait"
         /\ ReadDistrict(t) => pc[t] = "run" /\ pc'[t] = "write_district"
         /\ WriteDistrict(t) => pc[t] = "write_district" /\ pc'[t] = "wait"
         /\ PassDistrict(t) => pc[t] = "run" /\ pc'[t] = "wait"
         /\ AbortPayment(t) => pc[t] = "run" /\ pc'[t] = "aborted"
         /\ LockForPush(t) => pc[t] = "run" /\ pc'[t] = "push_row"
         /\ PushRow(t) => pc[t] = "push_row" /\ pc'[t] = "insert_index"
         /\ InsertIndex(t) => pc[t] = "insert_index" /\ pc'[t] = "update_wd_index"
         /\ UpdateWdIndex(t) => pc[t] = "update_wd_index" /\ pc'[t] = "unlock_push"
         /\ UnlockPush(t) => pc[t] = "unlock_push" /\ pc'[t] = "wait"
         /\ LockForOrder(t) => pc[t] = "run" /\ pc'[t] = "insert_order"
         /\ InsertOrder(t) => pc[t] = "insert_order" /\ pc'[t] = "wait"
         /\ RetrieveMin(t) => pc[t] = "run" /\ pc'[t] \in {"delete", "wait"}
         /\ NothingQueued(t) => pc[t] = "run" /\ pc'[t] = "wait"
         /\ DeleteRow(t) => pc[t] = "delete" /\ pc'[t] \in {"lock_bucket", "aborted"}
         /\ LockBucket(t) => pc[t] = "lock_bucket" /\ pc'[t] \in {"lock_row", "run"}
         /\ LockRow(t) => pc[t] = "lock_row" /\ pc'[t] \in {"delete_index", "run"}
         /\ DeleteIndex(t) => pc[t] = "delete_index" /\ pc'[t] \in {"remove_index", "set_info"}
         /\ RemoveIndex(t) => pc[t] = "remove_index" /\ pc'[t] = "set_info"
         /\ UnlockRow(t) => pc[t] = "set_info" /\ pc'[t] = "unlock_bucket"
         /\ UnlockBucket(t) => pc[t] = "unlock_bucket" /\ pc'[t] = "wait"
         /\ Deliver(t) => pc[t] = "run" /\ pc'[t] \in {"wait", "panic"}
<1> USE DEF Goto, EndPiece, At
<1>0. DOMAIN pc = Tids
  BY DEF BaseInv, TypeInv
<1>1. /\ StartPiece(t) => pc[t] = "wait" /\ pc'[t] = "run"
      /\ Commit(t) => pc[t] = "wait" /\ pc'[t] = "done"
      /\ RunElsewhere(t) => pc[t] = "run" /\ pc'[t] = "wait"
      /\ ReadDistrict(t) => pc[t] = "run" /\ pc'[t] = "write_district"
      /\ WriteDistrict(t) => pc[t] = "write_district" /\ pc'[t] = "wait"
      /\ PassDistrict(t) => pc[t] = "run" /\ pc'[t] = "wait"
      /\ AbortPayment(t) => pc[t] = "run" /\ pc'[t] = "aborted"
  BY <1>0 DEF StartPiece, Commit, RunElsewhere, ReadDistrict, WriteDistrict, PassDistrict,
              AbortPayment
<1>2. /\ LockForPush(t) => pc[t] = "run" /\ pc'[t] = "push_row"
      /\ PushRow(t) => pc[t] = "push_row" /\ pc'[t] = "insert_index"
      /\ InsertIndex(t) => pc[t] = "insert_index" /\ pc'[t] = "update_wd_index"
      /\ UpdateWdIndex(t) => pc[t] = "update_wd_index" /\ pc'[t] = "unlock_push"
      /\ UnlockPush(t) => pc[t] = "unlock_push" /\ pc'[t] = "wait"
      /\ LockForOrder(t) => pc[t] = "run" /\ pc'[t] = "insert_order"
      /\ InsertOrder(t) => pc[t] = "insert_order" /\ pc'[t] = "wait"
  BY <1>0 DEF LockForPush, PushRow, InsertIndex, UpdateWdIndex, UnlockPush, LockForOrder,
              InsertOrder
<1>3. /\ RetrieveMin(t) => pc[t] = "run" /\ pc'[t] \in {"delete", "wait"}
      /\ NothingQueued(t) => pc[t] = "run" /\ pc'[t] = "wait"
      /\ DeleteRow(t) => pc[t] = "delete" /\ pc'[t] \in {"lock_bucket", "aborted"}
  BY <1>0 DEF RetrieveMin, NothingQueued, DeleteRow
<1>4. /\ LockBucket(t) => pc[t] = "lock_bucket" /\ pc'[t] \in {"lock_row", "run"}
      /\ LockRow(t) => pc[t] = "lock_row" /\ pc'[t] \in {"delete_index", "run"}
      /\ DeleteIndex(t) => pc[t] = "delete_index" /\ pc'[t] \in {"remove_index", "set_info"}
  BY <1>0 DEF LockBucket, LockRow, DeleteIndex
<1>5. /\ RemoveIndex(t) => pc[t] = "remove_index" /\ pc'[t] = "set_info"
      /\ UnlockRow(t) => pc[t] = "set_info" /\ pc'[t] = "unlock_bucket"
      /\ UnlockBucket(t) => pc[t] = "unlock_bucket" /\ pc'[t] = "wait"
      /\ Deliver(t) => pc[t] = "run" /\ pc'[t] \in {"wait", "panic"}
  BY <1>0 DEF RemoveIndex, UnlockRow, UnlockBucket, Deliver
<1>6. QED
  BY <1>1, <1>2, <1>3, <1>4, <1>5

\* The row lock is free for who holds the lock of the bucket.
LEMMA LockRowSucceeds ==
  ASSUME BaseInv, NEW t \in Tids, LockRow(t)
  PROVE  /\ t \in Deliveries /\ delete_row[t] \in DOMAIN rows /\ read_row[t] \in DOMAIN rows
         /\ rows' = [rows EXCEPT ![delete_row[t]].owner = t]
         /\ AddDep(t, rows[delete_row[t]].info)
         /\ pc'[t] = "delete_index" /\ retried' = retried
<1>1. t \in Deliveries /\ t # 0 /\ pc[t] = "lock_row"
  BY Kinds, Moves
<1>2. rows \in Seq(Row) /\ DOMAIN rows = 1..Len(rows)
  BY DEF BaseInv, TypeInv, TypeOK, Row
<1>3. delete_row[t] \in DOMAIN rows /\ read_row[t] \in DOMAIN rows
  <2>1. delete_row[t] # 0 /\ read_row[t] # 0
    BY <1>1 DEF BaseInv, RowsInv
  <2>2. delete_row[t] \in 0..Len(rows) /\ read_row[t] \in 0..Len(rows)
    BY DEF BaseInv, TypeInv, TypeOK
  <2>3. QED
    BY <1>2, <2>1, <2>2
<1>4. ASSUME NEW r \in DOMAIN rows
      PROVE  rows[r].owner = 0
  <2>1. rows[r].owner \in Tids \cup {0}
    <3>1. rows[r] \in Row
      BY <1>2, ElementOfSeq
    <3>2. QED
      BY <3>1 DEF Row, Tids
  <2>2. bucket_owner = t
    BY <1>1 DEF BaseInv, LockInv, Holding
  <2>3. ASSUME rows[r].owner # 0
        PROVE  FALSE
    <3>1. rows[r].owner \in Tids /\ pc[rows[r].owner] \in RowHeld
      BY <2>1, <2>3 DEF BaseInv, LockInv
    <3>2. pc[rows[r].owner] \in Holding
      BY <3>1 DEF RowHeld, Holding
    <3>3. bucket_owner = rows[r].owner
      BY <3>1, <3>2 DEF BaseInv, LockInv
    <3>4. QED
      BY <1>1, <2>2, <3>1, <3>3 DEF RowHeld
  <2>4. QED
    BY <2>3
<1>5. rows[delete_row[t]].owner = 0 /\ rows[read_row[t]].owner = 0
  BY <1>3, <1>4
<1>6. /\ rows' = [rows EXCEPT ![delete_row[t]].owner = t]
      /\ AddDep(t, rows[delete_row[t]].info)
      /\ Goto(t, "delete_index") /\ UNCHANGED retried
  BY <1>5 DEF LockRow
<1>7. DOMAIN pc = Tids
  BY DEF BaseInv, TypeInv
<1>8. QED
  BY <1>1, <1>3, <1>6, <1>7 DEF Goto

\* who holds the locks,
LEMMA StepLockInv ==
  ASSUME BaseInv, NEW t \in Tids, Step(t)
  PROVE  LockInv'
<1>1. /\ \A u \in Tids : bucket_owner = u <=> pc[u] \in Holding
      /\ \A r \in DOMAIN rows : rows[r].owner # 0 =>
           pc[rows[r].owner] \in RowHeld /\ delete_row[rows[r].owner] = r
  BY DEF BaseInv, LockInv
<1>2. /\ rows \in Seq(Row) /\ DOMAIN rows = 1..Len(rows)
      /\ \A i \in DOMAIN rows : rows[i] \in Row /\ rows[i].owner \in Tids \cup {0}
  <2>1. rows \in Seq(Row) /\ DOMAIN rows = 1..Len(rows)
    BY DEF BaseInv, TypeInv, TypeOK, Row
  <2>2. \A i \in DOMAIN rows : rows[i] \in Row
    BY <2>1, ElementOfSeq
  <2>3. QED
    BY <2>1, <2>2 DEF Row, Tids
<1>3. \A u \in Tids : u # t => pc'[u] = pc[u] /\ delete_row'[u] = delete_row[u] /\ u # 0
  BY StepOthers, Kinds
<1>4. t # 0 /\ (LockRow(t) => pc'[t] = "delete_index")
  BY Kinds, LockRowSucceeds
<1>5. \A u \in Tids : bucket_owner' = u <=> pc'[u] \in Holding
  <2>1. CASE LockForPush(t)
    <3>1. bucket_owner = 0 /\ bucket_owner' = t /\ pc'[t] = "push_row"
      BY <2>1, Moves DEF LockForPush
    <3>2. QED
      BY <1>1, <1>3, <3>1 DEF Holding
  <2>2. CASE UnlockPush(t) \/ UnlockBucket(t)
    <3>1. pc[t] \in Holding /\ bucket_owner' = 0 /\ pc'[t] = "wait"
      BY <2>2, Moves DEF UnlockPush, UnlockBucket, Holding
    <3>2. bucket_owner = t
      BY <1>1, <3>1
    <3>3. QED
      BY <1>1, <1>3, <1>4, <3>1, <3>2 DEF Holding
  <2>3. CASE LockBucket(t)
    <3>1. pc[t] = "lock_bucket" /\ bucket_owner # t
      BY <1>1, <2>3, Moves DEF Holding
    <3>2. \/ bucket_owner = 0 /\ bucket_owner' = t /\ pc'[t] = "lock_row"
          \/ bucket_owner' = bucket_owner /\ pc'[t] = "run"
      <4>1. DOMAIN pc = Tids
        BY DEF BaseInv, TypeInv
      <4>2. QED
        BY <2>3, <3>1, <4>1 DEF LockBucket, Goto
    <3>3. QED
      BY <1>1, <1>3, <3>1, <3>2 DEF Holding
  <2>4. CASE ~(LockForPush(t) \/ UnlockPush(t) \/ LockBucket(t) \/ UnlockBucket(t))
    <3>1. bucket_owner' = bucket_owner
      BY <2>4, StepChanges
    <3>2. pc'[t] \in Holding <=> pc[t] \in Holding
      BY <1>4, <2>4, Moves DEF Step, Holding
    <3>3. QED
      BY <1>1, <1>3, <3>1, <3>2
  <2>5. QED
    BY <2>1, <2>2, <2>3, <2>4
<1>6. ASSUME NEW r \in DOMAIN rows', rows'[r].owner # 0
      PROVE  pc'[rows'[r].owner] \in RowHeld /\ delete_row'[rows'[r].owner] = r
  <2>1. CASE UNCHANGED rows
    <3>1. rows[r].owner \in Tids /\ pc[rows[r].owner] \in RowHeld
          /\ delete_row[rows[r].owner] = r
      BY <1>1, <1>2, <1>6, <2>1
    <3>2. CASE rows[r].owner # t
      BY <1>3, <2>1, <3>1, <3>2
    <3>3. CASE rows[r].owner = t
      <4>1. DeleteIndex(t) \/ RemoveIndex(t) \/ UnlockRow(t)
        BY <3>1, <3>3, Moves DEF RowHeld, Step
      <4>2. ~UnlockRow(t)
        <5>1. ASSUME UnlockRow(t)
              PROVE  FALSE
          <6>1. r \in DOMAIN rows /\ r = delete_row[t] /\ rows[r] \in Row
            BY <1>2, <1>6, <2>1, <3>1, <3>3
          <6>2. rows'[r].owner = 0
            BY <5>1, <6>1 DEF UnlockRow, Row
          <6>3. QED
            BY <1>6, <6>2
        <5>2. QED
          BY <5>1
      <4>3. pc'[t] \in RowHeld /\ delete_row' = delete_row
        BY <4>1, <4>2, Moves DEF RowHeld, DeleteIndex, RemoveIndex, tagVars
      <4>4. QED
        BY <2>1, <3>1, <3>3, <4>3
    <3>4. QED
      BY <3>2, <3>3
  <2>2. CASE PushRow(t)
    <3>1. r \in DOMAIN rows /\ rows'[r] = rows[r]
      BY <1>2, <1>6, <2>2 DEF PushRow
    <3>2. rows[r].owner \in Tids /\ pc[rows[r].owner] \in RowHeld
          /\ delete_row[rows[r].owner] = r
      BY <1>1, <1>2, <1>6, <3>1
    <3>3. rows[r].owner # t
      BY <2>2, <3>2, Moves DEF RowHeld
    <3>4. QED
      BY <1>3, <3>1, <3>2, <3>3
  <2>3. CASE LockRow(t)
    <3>1. rows' = [rows EXCEPT ![delete_row[t]].owner = t] /\ delete_row' = delete_row
          /\ delete_row[t] \in DOMAIN rows /\ pc[t] = "lock_row"
      BY <2>3, LockRowSucceeds, Moves DEF LockRow, tagVars
    <3>2. r \in DOMAIN rows
      BY <1>6, <3>1
    <3>3. CASE r = delete_row[t]
      <4>1. rows'[r].owner = t
        BY <1>2, <3>1, <3>2, <3>3 DEF Row
      <4>2. QED
        BY <1>4, <2>3, <3>1, <3>3, <4>1 DEF RowHeld
    <3>4. CASE r # delete_row[t]
      <4>1. rows'[r] = rows[r]
        BY <1>2, <3>1, <3>2, <3>4
      <4>2. rows[r].owner \in Tids /\ pc[rows[r].owner] \in RowHeld
            /\ delete_row[rows[r].owner] = r
        BY <1>1, <1>2, <1>6, <3>2, <4>1
      <4>3. rows[r].owner # t
        BY <3>1, <4>2 DEF RowHeld
      <4>4. QED
        BY <1>3, <4>1, <4>2, <4>3
    <3>5. QED
      BY <3>3, <3>4
  <2>4. CASE UnlockRow(t)
    <3>1. r \in DOMAIN rows /\ r # delete_row[t] /\ rows'[r].owner = rows[r].owner
      BY <1>2, <1>6, <2>4 DEF UnlockRow, Row
    <3>2. rows[r].owner \in Tids /\ pc[rows[r].owner] \in RowHeld
          /\ delete_row[rows[r].owner] = r
      BY <1>1, <1>2, <1>6, <3>1
    <3>3. rows[r].owner # t
      BY <3>1, <3>2
    <3>4. QED
      BY <1>3, <3>1, <3>2, <3>3
  <2>5. QED
    BY <2>1, <2>2, <2>3, <2>4, StepChanges
<1>7. QED
  BY <1>5, <1>6 DEF LockInv

\* and where the index and the tags lead.
LEMMA StepRowsInv ==
  ASSUME BaseInv, NEW t \in Tids, Step(t)
  PROVE  RowsInv'
<1>1. /\ rows \in Seq(Row) /\ rows' \in Seq(Row) /\ DOMAIN rows = 1..Len(rows)
      /\ \A i \in DOMAIN rows : rows'[i].o_id = rows[i].o_id
  BY RowsGrow
<1>2. \A u \in Tids : u # t => pc'[u] = pc[u] /\ o_id'[u] = o_id[u]
                              /\ read_row'[u] = read_row[u] /\ delete_row'[u] = delete_row[u]
  BY StepOthers
<1>3. /\ \A u \in Tids : read_row[u] \in 0..Len(rows) /\ delete_row[u] \in 0..Len(rows)
      /\ DOMAIN o_id = Tids /\ DOMAIN read_row = Tids /\ DOMAIN delete_row = Tids
      /\ DOMAIN pc = Tids /\ NewOrders \cup Deliveries \subseteq Tids
  BY DEF BaseInv, TypeInv, TypeOK, Tids, Writers
<1>4. ASSUME NEW e \in index'
      PROVE  rows'[e[2]].o_id = e[1]
  <2>1. ASSUME e \in index
        PROVE  rows'[e[2]].o_id = e[1]
    <3>1. e[2] \in DOMAIN rows
      BY <1>1, <2>1 DEF BaseInv, TypeInv, TypeOK
    <3>2. QED
      BY <1>1, <2>1, <3>1 DEF BaseInv, RowsInv
  <2>2. CASE InsertIndex(t)
    <3>1. t \in NewOrders
      BY <2>2, Kinds, Moves
    <3>2. rows[Len(rows)].o_id = o_id[t] /\ rows' = rows
      BY <2>2, <3>1, Moves DEF BaseInv, RowsInv, InsertIndex
    <3>3. e \in index \/ e = <<o_id[t], Len(rows)>>
      BY <1>4, <2>2 DEF InsertIndex
    <3>4. QED
      BY <2>1, <3>2, <3>3
  <2>3. CASE UNCHANGED index \/ RemoveIndex(t)
    BY <1>4, <2>1, <2>3 DEF RemoveIndex
  <2>4. QED
    BY <2>2, <2>3, StepChanges
<1>5. ASSUME NEW u \in NewOrders, pc'[u] \in {"insert_index", "update_wd_index"}
      PROVE  Len(rows') # 0 /\ rows'[Len(rows')].o_id = o_id'[u]
  <2>1. CASE PushRow(t)
    <3>1. pc[t] = "push_row" /\ t \in NewOrders
      BY <2>1, Kinds, Moves
    <3>2. u = t
      <4>1. ASSUME u # t
            PROVE  FALSE
        <5>1. pc[u] \in Holding /\ pc[t] \in Holding
          BY <1>2, <1>3, <1>5, <3>1, <4>1 DEF Holding
        <5>2. bucket_owner = u /\ bucket_owner = t
          BY <1>3, <5>1 DEF BaseInv, LockInv
        <5>3. QED
          BY <4>1, <5>2
      <4>2. QED
        BY <4>1
    <3>3. rows' = Append(rows, [o_id |-> o_id[t], owner |-> 0, info |-> t]) /\ o_id' = o_id
      BY <2>1 DEF PushRow, tagVars
    <3>4. Len(rows') = Len(rows) + 1 /\ Len(rows) \in Nat
          /\ rows'[Len(rows) + 1] = [o_id |-> o_id[t], owner |-> 0, info |-> t]
      BY <1>1, <3>3
    <3>5. QED
      BY <3>2, <3>3, <3>4
  <2>2. CASE ~PushRow(t)
    <3>1. Len(rows') = Len(rows) /\ Len(rows) \in Nat
      BY <1>1, <2>2, RowsGrow
    <3>2. pc[u] \in {"insert_index", "update_wd_index"} /\ o_id'[u] = o_id[u]
      <4>1. CASE u = t
        <5>1. InsertIndex(t)
          BY <1>3, <1>5, <2>2, <4>1, Moves DEF Step
        <5>2. QED
          BY <1>3, <4>1, <5>1, Moves DEF InsertIndex, tagVars
      <4>2. CASE u # t
        BY <1>2, <1>3, <1>5, <4>2
      <4>3. QED
        BY <4>1, <4>2
    <3>3. Len(rows) # 0 /\ rows[Len(rows)].o_id = o_id[u]
      BY <3>2 DEF BaseInv, RowsInv
    <3>4. Len(rows) \in DOMAIN rows
      BY <1>1, <3>1, <3>3
    <3>5. QED
      BY <1>1, <3>1, <3>2, <3>3, <3>4
  <2>3. QED
    BY <2>1, <2>2
<1>6. ASSUME NEW u \in Deliveries,
             pc'[u] \in {"delete", "lock_bucket", "lock_row", "delete_index", "remove_index",
                         "set_info", "unlock_bucket"}
      PROVE  /\ read_row'[u] # 0 /\ rows'[read_row'[u]].o_id = o_id'[u]
             /\ pc'[u] # "delete" => delete_row'[u] # 0 /\ rows'[delete_row'[u]].o_id = o_id'[u]
  <2>0. ASSUME NEW r \in 0..Len(rows), r # 0
        PROVE  r \in DOMAIN rows
    BY <1>1, <2>0
  <2>1. CASE RetrieveMin(t) /\ u = t
    <3>1. PICK r \in Retrieve(Head(wd_index)) :
            /\ read_row' = [read_row EXCEPT ![t] = r]
            /\ \/ r # 0 /\ o_id' = [o_id EXCEPT ![t] = rows[r].o_id]
               \/ r = 0 /\ pc' = [pc EXCEPT ![t] = "wait"]
      BY <2>1 DEF RetrieveMin, EndPiece, Goto
    <3>2. r # 0 /\ r \in DOMAIN rows
      BY <1>3, <1>6, <2>1, <3>1, RetrieveFinds
    <3>3. pc'[u] = "delete"
      BY <1>6, <2>1, Moves
    <3>4. QED
      BY <1>1, <1>3, <2>1, <3>1, <3>2, <3>3
  <2>2. CASE DeleteRow(t) /\ u = t
    <3>1. PICK r \in Retrieve(o_id[t]) :
            /\ delete_row' = [delete_row EXCEPT ![t] = r] /\ o_id' = o_id /\ read_row' = read_row
            /\ r # 0 \/ pc' = [pc EXCEPT ![t] = "aborted"]
      BY <2>2 DEF DeleteRow, Goto
    <3>2. r # 0
      BY <1>3, <1>6, <2>2, <3>1
    <3>3. r \in DOMAIN rows /\ rows[r].o_id = o_id[t]
      BY <3>2, RetrieveFinds
    <3>4. read_row[t] # 0 /\ rows[read_row[t]].o_id = o_id[t] /\ read_row[t] \in DOMAIN rows
      BY <1>3, <2>0, <2>2, Moves DEF BaseInv, RowsInv
    <3>5. QED
      BY <1>1, <1>3, <2>2, <3>1, <3>2, <3>3, <3>4
  <2>3. CASE u # t \/ ~(RetrieveMin(t) \/ DeleteRow(t))
    <3>1. /\ pc[u] \in {"delete", "lock_bucket", "lock_row", "delete_index", "remove_index",
                        "set_info", "unlock_bucket"}
          /\ pc'[u] # "delete" => pc[u] # "delete"
          /\ o_id'[u] = o_id[u] /\ read_row'[u] = read_row[u] /\ delete_row'[u] = delete_row[u]
      <4>1. CASE u # t
        BY <1>2, <1>3, <1>6, <4>1
      <4>2. CASE u = t
        <5>1. LockBucket(t) \/ LockRow(t) \/ DeleteIndex(t) \/ RemoveIndex(t) \/ UnlockRow(t)
          BY <1>6, <2>3, <4>2, Moves DEF Step
        <5>2. UNCHANGED <<o_id, read_row, delete_row>>
          BY <5>1 DEF LockBucket, LockRow, DeleteIndex, RemoveIndex, UnlockRow, tagVars
        <5>3. QED
          BY <4>2, <5>1, <5>2, Moves
      <4>3. QED
        BY <4>1, <4>2
    <3>2. /\ read_row[u] # 0 /\ rows[read_row[u]].o_id = o_id[u]
          /\ pc[u] # "delete" => delete_row[u] # 0 /\ rows[delete_row[u]].o_id = o_id[u]
      BY <3>1 DEF BaseInv, RowsInv
    <3>3. read_row[u] \in 0..Len(rows) /\ delete_row[u] \in 0..Len(rows)
      BY <1>3
    <3>4. read_row[u] \in DOMAIN rows /\ (delete_row[u] # 0 => delete_row[u] \in DOMAIN rows)
      BY <2>0, <3>2, <3>3
    <3>5. QED
      BY <1>1, <3>1, <3>2, <3>4
  <2>4. QED
    BY <2>1, <2>2, <2>3
<1>7. QED
  BY <1>4, <1>5, <1>6 DEF RowsInv

\* and so the first layer is inductive.
LEMMA StepBaseInv ==
  ASSUME BaseInv, NEW t \in Tids, Step(t)
  PROVE  BaseInv'
<1>1. TypeInv' /\ LockInv' /\ RowsInv'
  BY StepTypeInv, StepLockInv, StepRowsInv
<1>2. /\ (\A u \in NewOrders : NewOrderInv(u))' /\ (\A u \in Deliveries : DeliveryInv(u))'
      /\ (\A u \in Payments : PaymentInv(u))' /\ (\A u \in StockLevels : StockLevelInv(u))'
  BY StepNewOrder, StepDelivery, StepPayment, StepStockLevel
<1>3. QED
  BY <1>1, <1>2 DEF BaseInv

\* When nothing changes.
LEMMA StutterBaseInv == BaseInv /\ UNCHANGED vars => BaseInv'
<1> SUFFICES ASSUME BaseInv, UNCHANGED vars PROVE BaseInv'
  OBVIOUS
<1> USE DEF vars, queueVars, tableVars, infoVars, tagVars, historyVars
<1>1. TypeOK'
  BY DEF BaseInv, TypeInv, TypeOK
<1>2. TypeInv'
  BY <1>1 DEF BaseInv, TypeInv, Drawn
<1>3. LockInv' /\ RowsInv'
  BY DEF BaseInv, LockInv, RowsInv
<1>4. ASSUME NEW u \in NewOrders
      PROVE  NewOrderInv(u)'
  BY DEF BaseInv, NewOrderInv
<1>5. ASSUME NEW u \in Deliveries
      PROVE  DeliveryInv(u)'
  BY DEF BaseInv, DeliveryInv
<1>6. ASSUME NEW u \in Payments
      PROVE  PaymentInv(u)'
  BY DEF BaseInv, PaymentInv
<1>7. ASSUME NEW u \in StockLevels
      PROVE  StockLevelInv(u)'
  BY DEF BaseInv, StockLevelInv
<1>8. QED
  BY <1>2, <1>3, <1>4, <1>5, <1>6, <1>7 DEF BaseInv

\* The first layer.
LEMMA BaseInvHolds == Spec => []BaseInv
<1>1. BaseInv /\ [Next]_vars => BaseInv'
  <2>1. BaseInv /\ Next => BaseInv'
    BY StepBaseInv, StutterBaseInv DEF Next, Terminated
  <2>2. QED
    BY <2>1, StutterBaseInv
<1>2. QED
  BY InitBaseInv, <1>1, PTL DEF Spec

\* The rows, the indexes, the tags and the counters have the types the code
\* gives them; no order number exceeds those that are queued at first and one
\* for each new-order.
THEOREM TypeCorrect == Spec => []TypeOK
<1>1. BaseInv => TypeOK
  BY DEF BaseInv, TypeInv
<1>2. QED
  BY BaseInvHolds, <1>1, PTL

\* The row lock of a Delete is only held under the lock of the bucket, so that
\* taking it cannot fail and leave the bucket locked.
THEOREM RowLockUnderBucketLockHolds == Spec => []RowLockUnderBucketLock
<1>1. ASSUME BaseInv
      PROVE  RowLockUnderBucketLock
  <2>1. rows \in Seq(Row) /\ bucket_owner \in Tids \cup {0}
    BY <1>1 DEF BaseInv, TypeInv, TypeOK, Row
  <2>2. ASSUME NEW r \in DOMAIN rows, rows[r].owner # 0
        PROVE  rows[r].owner = bucket_owner
    <3>1. rows[r] \in Row
      BY <2>1, ElementOfSeq
    <3>2. rows[r].owner \in Tids /\ pc[rows[r].owner] \in Holding
      BY <1>1, <2>2, <3>1 DEF BaseInv, LockInv, Row, RowHeld, Holding, Tids
    <3>3. QED
      BY <1>1, <3>2 DEF BaseInv, LockInv
  <2>3. bucket_owner # 0 => pc[bucket_owner] \notin {"wait", "run", "done", "aborted"}
    BY <1>1, <2>1 DEF BaseInv, LockInv, Holding
  <2>4. QED
    BY <2>2, <2>3 DEF RowLockUnderBucketLock
<1>2. QED
  BY BaseInvHolds, <1>1, PTL

\* The control points at which a delivery has the row, and the ones after it.
RowTaken == RowHeld \cup {"unlock_bucket"}

\* F[o] holds who can vouch for order o: the new-order that drew the number,
\* and the deliveries that took a row of it. A delivery waits for another
\* member, until the order is there.
FollowersInv(F) ==
  /\ \A o \in 1..MaxOrder : \A u \in F[o] \cap NewOrders : piece[u] > 1 /\ o_id[u] = o
  /\ \A o \in 1..MaxOrder : \A u \in F[o] \cap Deliveries :
       /\ pc[u] \in RowTaken \/ piece[u] > 1
       /\ o_id[u] = o
       /\ o \in orders \/ (u \notin committed /\ deps[u] \cap F[o] # {})
  /\ \A u \in NewOrders : piece[u] > 1 => u \in F[o_id[u]]
  /\ \A u \in Deliveries : pc[u] \in RowTaken => u \in F[o_id[u]]
  /\ \A r \in DOMAIN rows : rows[r].o_id \in orders \/ rows[r].info \in F[rows[r].o_id]

\* What a delivery that did not repeat its first piece has collected.
CollectedInv(F, t) ==
  /\ piece[t] = 1 /\ pc[t] \in {"wait", "run", "delete"} => no_o_id_arr[t] = <<>>
  /\ pc[t] \in {"lock_bucket", "lock_row"} \cup RowTaken => no_o_id_arr[t] = <<o_id[t]>>
  /\ piece[t] > 1 => no_o_id_arr[t] # <<>> /\ (Entry(t) = 0 \/ t \in F[Entry(t)])
  /\ pc[t] = "panic" => t \in raced

\* The second layer.
FollowInv(F) ==
  /\ FollowersInv(F)
  /\ \A t \in Deliveries \ retried : CollectedInv(F, t)

\* What it took off the queue it is about to deliver or has delivered.
RemovedInv ==
  \A p \in removed : p[1] \notin retried =>
    /\ no_o_id_arr[p[1]] # <<>> /\ Entry(p[1]) = p[2]
    /\ \/ pc[p[1]] \in RowTaken \/ piece[p[1]] = 2
       \/ piece[p[1]] = 3 /\ \E i \in DOMAIN carriers[p[2]] : carriers[p[2]][i] = p[1]

\* Some F is as FollowInv says.
FollowersExist == \E F \in [1..MaxOrder -> SUBSET Handlers] : FollowInv(F)

-----------------------------------------------------------------------------

\* At first there are no members.
LEMMA InitFollow ==
  ASSUME Init
  PROVE  FollowInv([o \in 1..MaxOrder |-> {}]) /\ RemovedInv
<1> DEFINE F == [o \in 1..MaxOrder |-> {}]
<1>1. PICK n \in 0..MaxQueued, mix \in Mixes :
        /\ rows = [i \in 1..n |-> [o_id |-> i, owner |-> 0, info |-> 0]]
        /\ orders = 1..n
        /\ pc = [t \in Tids |-> IF t \in mix THEN "wait" ELSE "done"]
  BY DEF Init
<1>2. /\ piece = [t \in Tids |-> 1] /\ no_o_id_arr = [t \in Tids |-> <<>>]
      /\ removed = {}
  BY DEF Init
<1>3. \A t \in Tids : pc[t] \in {"wait", "done"} /\ piece[t] = 1 /\ no_o_id_arr[t] = <<>>
  BY <1>1, <1>2
<1>4. FollowersInv(F)
  <2>1. \A o \in 1..MaxOrder : F[o] = {}
    OBVIOUS
  <2>2. \A t \in Tids : ~(piece[t] > 1) /\ pc[t] \notin RowTaken
    BY <1>3 DEF RowTaken, RowHeld
  <2>3. \A r \in DOMAIN rows : rows[r].o_id \in orders
    BY <1>1
  <2>4. QED
    BY <2>1, <2>2, <2>3 DEF FollowersInv, Tids, Writers
<1>5. \A t \in Deliveries : CollectedInv(F, t)
  BY <1>3 DEF CollectedInv, RowTaken, RowHeld, Tids
<1>6. QED
  BY <1>2, <1>4, <1>5 DEF FollowInv, RemovedInv

\* When one of them has committed, the order is there.
LEMMA CommittedIsThere ==
  ASSUME BaseInv, NEW F \in [1..MaxOrder -> SUBSET Handlers], FollowersInv(F),
         NEW o \in 1..MaxOrder, NEW u \in F[o], u \in committed
  PROVE  o \in orders
<1>1. CASE u \in NewOrders
  <2>1. piece[u] = 6 /\ o_id[u] = o
    BY <1>1 DEF BaseInv, NewOrderInv, FollowersInv
  <2>2. QED
    BY <1>1, <2>1 DEF BaseInv, NewOrderInv
<1>2. CASE u \in Deliveries
  BY <1>2 DEF FollowersInv
<1>3. QED
  BY <1>1, <1>2 DEF Handlers

\* Who draws a number or takes a row of one joins its members: F becomes G.
Joins(t, F, G) ==
  \A o \in 1..MaxOrder :
    G[o] = F[o] \cup (IF (Draws(t) \/ LockRow(t)) /\ o = o_id[t] THEN {t} ELSE {})

\* The numbers that are drawn are order numbers.
LEMMA DrawnNumbers ==
  ASSUME BaseInv
  PROVE  \A u \in NewOrders : piece[u] > 1 => o_id[u] \in 1..MaxOrder
<1>1. SUFFICES ASSUME NEW u \in NewOrders, piece[u] > 1
               PROVE  o_id[u] \in 1..MaxOrder
  OBVIOUS
<1>2. u \in Tids /\ u \notin Payments
  BY Kinds DEF Tids, Writers
<1>3. o_id[u] \in 0..(MaxOrder + 1) /\ o_id[u] # 0 /\ o_id[u] <= MaxOrder
  BY <1>1, <1>2 DEF BaseInv, TypeInv, TypeOK
<1>4. MaxOrder \in Nat
  BY OrdersAssumption, DrawnBounds DEF MaxOrder
<1>5. QED
  BY <1>3, <1>4

LEMMA StepDrawnNumbers ==
  ASSUME BaseInv'
  PROVE  \A u \in NewOrders : piece'[u] > 1 => o_id'[u] \in 1..MaxOrder
<1>1. SUFFICES ASSUME NEW u \in NewOrders, piece'[u] > 1
               PROVE  o_id'[u] \in 1..MaxOrder
  OBVIOUS
<1>2. u \in Tids /\ u \notin Payments
  BY OrdersAssumption DEF Tids, Writers
<1>3. o_id'[u] \in 0..(MaxOrder + 1) /\ o_id'[u] # 0 /\ o_id'[u] <= MaxOrder
  BY <1>1, <1>2 DEF BaseInv, TypeInv, TypeOK, MaxOrder
<1>4. MaxOrder \in Nat
  BY OrdersAssumption, DrawnBounds DEF MaxOrder
<1>5. QED
  BY <1>3, <1>4

\* The members of the next state are as FollowersInv says.
LEMMA StepFollowers ==
  ASSUME BaseInv, NEW t \in Tids, Step(t),
         NEW F \in [1..MaxOrder -> SUBSET Handlers], FollowersInv(F),
         NEW G \in [1..MaxOrder -> SUBSET Handlers], Joins(t, F, G)
  PROVE  FollowersInv(G)'
<1> USE DEF Joins
<1>0. BaseInv' /\ NewOrders \cup Deliveries \subseteq Tids
      /\ \A u \in NewOrders : u \in Tids /\ u \notin Deliveries
  BY StepBaseInv, Kinds DEF Tids, Writers
<1>1. orders \subseteq orders'
  BY StepChanges DEF InsertOrder
<1>2. \A o \in 1..MaxOrder :
        F[o] \subseteq G[o] /\ F[o] \subseteq Tids /\ G[o] \subseteq F[o] \cup {t}
  BY <1>0 DEF Handlers
<1>3. \A u \in NewOrders : piece[u] > 1 => piece'[u] > 1 /\ o_id'[u] = o_id[u]
  <2>1. \A u \in NewOrders : piece[u] > 1 => piece'[u] > 1
    BY StepDrawn DEF Drawn
  <2>2. ASSUME NEW u \in NewOrders, piece[u] > 1
        PROVE  o_id'[u] = o_id[u]
    <3>1. CASE u # t
      BY <1>0, <3>1, StepOthers
    <3>2. CASE u = t
      <4>1. ~ReadDistrict(t) /\ ~RetrieveMin(t)
        BY <1>0, <2>2, <3>2, Kinds DEF ReadDistrict, RetrieveMin, At, NewOrderInv
      <4>2. QED
        BY <4>1, StepChanges
    <3>3. QED
      BY <3>1, <3>2
  <2>3. QED
    BY <2>1, <2>2
<1>4. /\ \A u \in NewOrders : piece[u] > 1 => o_id[u] \in 1..MaxOrder
      /\ \A u \in NewOrders : piece'[u] > 1 => o_id'[u] \in 1..MaxOrder
  BY <1>0, DrawnNumbers, StepDrawnNumbers
<1>5. Draws(t) =>
        t \in NewOrders /\ piece[t] = 1 /\ piece'[t] > 1 /\ o_id'[t] = o_id[t]
  <2>1. Draws(t) => t \in NewOrders \ Drawn /\ t \in Drawn' /\ o_id' = o_id
    BY StepDrawn DEF Draws, WriteDistrict, tagVars
  <2>2. \A u \in NewOrders : NewOrderInv(u)
    BY DEF BaseInv
  <2>3. QED
    BY <2>1, <2>2 DEF Drawn, Draws, NewOrderInv, WriteDistrict
<1>6. LockRow(t) =>
        t \in Deliveries /\ piece[t] = 1 /\ pc[t] = "lock_row" /\ pc'[t] = "delete_index"
        /\ o_id'[t] = o_id[t] /\ committed' = committed
        /\ delete_row[t] \in DOMAIN rows /\ rows[delete_row[t]].o_id = o_id[t]
        /\ AddDep(t, rows[delete_row[t]].info) /\ o_id[t] \in 1..MaxOrder
  <2>1. SUFFICES ASSUME LockRow(t)
                 PROVE  t \in Deliveries /\ piece[t] = 1 /\ pc[t] = "lock_row"
                        /\ pc'[t] = "delete_index" /\ o_id'[t] = o_id[t] /\ committed' = committed
                        /\ delete_row[t] \in DOMAIN rows /\ rows[delete_row[t]].o_id = o_id[t]
                        /\ AddDep(t, rows[delete_row[t]].info) /\ o_id[t] \in 1..MaxOrder
    OBVIOUS
  <2>2. t \in Deliveries /\ pc[t] = "lock_row" /\ pc'[t] = "delete_index"
        /\ delete_row[t] \in DOMAIN rows /\ AddDep(t, rows[delete_row[t]].info)
    BY <2>1, LockRowSucceeds, Moves
  <2>3. piece[t] = 1
    BY <2>2, Kinds DEF DeliveryInv
  <2>4. rows[delete_row[t]].o_id = o_id[t]
    BY <2>2 DEF BaseInv, RowsInv
  <2>5. rows[delete_row[t]] \in Row
    BY <2>2, RowsGrow
  <2>6. o_id' = o_id /\ committed' = committed
    BY <2>1 DEF LockRow, tagVars
  <2>7. QED
    BY <2>2, <2>3, <2>4, <2>5, <2>6 DEF Row
<1>7. ASSUME NEW o \in 1..MaxOrder, NEW u \in G[o] \cap NewOrders
      PROVE  piece'[u] > 1 /\ o_id'[u] = o
  <2>1. CASE u \in F[o]
    BY <1>3, <2>1 DEF FollowersInv
  <2>2. CASE u \notin F[o]
    BY <1>0, <1>5, <1>6, <2>2
  <2>3. QED
    BY <2>1, <2>2
<1>8. ASSUME NEW o \in 1..MaxOrder, NEW u \in G[o] \cap Deliveries
      PROVE  /\ pc'[u] \in RowTaken \/ piece'[u] > 1
             /\ o_id'[u] = o
             /\ o \in orders' \/ (u \notin committed' /\ deps'[u] \cap G[o] # {})
  <2>0. u \in Tids
    BY <1>0
  <2>1. CASE u \in F[o] /\ u # t
    <3>1. pc'[u] = pc[u] /\ piece'[u] = piece[u] /\ o_id'[u] = o_id[u] /\ deps'[u] = deps[u]
          /\ (u \in committed' <=> u \in committed)
      BY <2>0, <2>1, StepOthers
    <3>2. QED
      BY <1>1, <1>2, <2>1, <3>1 DEF FollowersInv
  <2>2. CASE u \in F[o] /\ u = t
    <3>1. /\ pc[t] \in RowTaken \/ piece[t] > 1
          /\ o_id[t] = o
          /\ o \in orders \/ (t \notin committed /\ deps[t] \cap F[o] # {})
      BY <2>2 DEF FollowersInv
    <3>2. t \in Deliveries /\ t \notin NewOrders /\ DeliveryInv(t) /\ piece[t] \in 1..6
      BY <2>2, Kinds DEF BaseInv, TypeInv, TypeOK
    <3>3. ~(RetrieveMin(t) \/ NothingQueued(t) \/ DeleteRow(t) \/ LockBucket(t) \/ LockRow(t))
      <4>1. ~(RetrieveMin(t) \/ NothingQueued(t))
        BY <3>1, <3>2 DEF RetrieveMin, NothingQueued, At, DeliveryInv, RowTaken, RowHeld
      <4>2. ~(DeleteRow(t) \/ LockBucket(t) \/ LockRow(t))
        BY <3>1, <3>2, Moves DEF DeliveryInv, RowTaken, RowHeld
      <4>3. QED
        BY <4>1, <4>2
    <3>4. \/ StartPiece(t) \/ Commit(t) \/ DeleteIndex(t) \/ RemoveIndex(t) \/ UnlockRow(t)
          \/ UnlockBucket(t) \/ Deliver(t)
      BY <3>2, <3>3, DeliverySteps
    <3>5. o_id' = o_id /\ deps' = deps
      BY <3>3, <3>4, StepChanges, Moves
         DEF StartPiece, Commit, DeleteIndex, RemoveIndex, UnlockRow, UnlockBucket, Deliver,
             infoVars, tagVars
    <3>6. pc'[t] \in RowTaken \/ piece'[t] > 1
      <4>1. CASE UnlockBucket(t) \/ Deliver(t)
        <5>1. DOMAIN piece = Tids
          BY DEF BaseInv, TypeInv, TypeOK
        <5>2. CASE UnlockBucket(t)
          BY <3>2, <5>1, <5>2 DEF UnlockBucket, EndPiece
        <5>3. CASE Deliver(t)
          <6>1. piece[t] > 1 /\ (piece'[t] = piece[t] \/ piece'[t] = piece[t] + 1)
            BY <3>2, <5>1, <5>3 DEF Deliver, EndPiece, At, DeliveryInv
          <6>2. QED
            BY <3>2, <6>1
        <5>4. QED
          BY <4>1, <5>2, <5>3
      <4>2. CASE StartPiece(t) \/ Commit(t)
        BY <3>1, <4>2, Moves DEF StartPiece, Commit, RowTaken, RowHeld
      <4>3. CASE DeleteIndex(t) \/ RemoveIndex(t) \/ UnlockRow(t)
        BY <4>3, Moves DEF RowTaken, RowHeld
      <4>4. QED
        BY <3>4, <4>1, <4>2, <4>3
    <3>7. ASSUME o \notin orders, t \in committed'
          PROVE  FALSE
      <4>1. Commit(t)
        BY <3>1, <3>2, <3>3, <3>7, StepChanges, Kinds DEF AbortPayment
      <4>2. deps[t] \subseteq committed
        BY <4>1 DEF Commit
      <4>3. PICK v \in deps[t] \cap F[o] : TRUE
        BY <3>1, <3>7
      <4>4. QED
        BY <3>7, <4>2, <4>3, CommittedIsThere
    <3>8. QED
      BY <1>1, <1>2, <2>2, <3>1, <3>5, <3>6, <3>7
  <2>3. CASE u \notin F[o]
    <3>1. u = t /\ LockRow(t) /\ o = o_id[t]
      BY <1>0, <1>5, <2>3
    <3>2. pc'[t] \in RowTaken /\ o_id'[t] = o
      BY <1>6, <3>1 DEF RowTaken, RowHeld
    <3>3. ASSUME o \notin orders
          PROVE  t \notin committed' /\ deps'[t] \cap G[o] # {}
      <4>1. rows[delete_row[t]].info \in F[o]
        BY <1>6, <3>1, <3>3 DEF FollowersInv
      <4>2. rows[delete_row[t]].info \notin committed \cup {0, t}
        <5>1. rows[delete_row[t]].info \notin committed
          BY <3>3, <4>1, CommittedIsThere
        <5>2. t \notin F[o]
          BY <2>3, <3>1
        <5>3. rows[delete_row[t]].info # 0
          BY <1>2, <4>1, Kinds
        <5>4. QED
          BY <4>1, <5>1, <5>2, <5>3
      <4>3. rows[delete_row[t]].info \in deps'[t]
        <5>1. DOMAIN deps = Tids
          BY DEF BaseInv, TypeInv, TypeOK
        <5>2. QED
          BY <1>6, <3>1, <4>2, <5>1 DEF AddDep
      <4>4. t \notin committed
        BY <1>6, <3>1, Kinds DEF DeliveryInv
      <4>5. QED
        BY <1>2, <1>6, <3>1, <4>1, <4>3, <4>4
    <3>4. QED
      BY <1>1, <3>1, <3>2, <3>3
  <2>4. QED
    BY <2>1, <2>2, <2>3
<1>9. ASSUME NEW u \in NewOrders, piece'[u] > 1
      PROVE  u \in G[o_id'[u]]
  <2>1. CASE piece[u] > 1
    BY <1>2, <1>3, <1>4, <2>1 DEF FollowersInv
  <2>2. CASE ~(piece[u] > 1)
    <3>1. Draws(t) /\ u = t
      BY ZenonT(40), <1>9, <2>2, StepDrawn DEF Drawn
    <3>2. QED
      BY <1>4, <1>5, <1>9, <3>1
  <2>3. QED
    BY <2>1, <2>2
<1>10. ASSUME NEW u \in Deliveries, pc'[u] \in RowTaken
       PROVE  u \in G[o_id'[u]]
  <2>0. u \in Tids
    BY <1>0
  <2>1. ASSUME pc[u] \in RowTaken, o_id'[u] = o_id[u]
        PROVE  u \in G[o_id'[u]]
    <3>1. u \in F[o_id[u]]
      BY <2>1 DEF FollowersInv
    <3>2. read_row[u] # 0 /\ rows[read_row[u]].o_id = o_id[u]
      BY <2>1 DEF BaseInv, RowsInv, RowTaken, RowHeld
    <3>3. read_row[u] \in DOMAIN rows
      BY <2>0, <3>2, RowsGrow DEF BaseInv, TypeInv, TypeOK
    <3>4. rows[read_row[u]] \in Row
      BY <3>3, RowsGrow
    <3>5. QED
      BY <1>2, <2>1, <3>1, <3>2, <3>4 DEF Row
  <2>2. CASE u # t
    BY <1>10, <2>0, <2>1, <2>2, StepOthers
  <2>3. CASE u = t
    <3>1. CASE LockRow(t)
      BY <1>6, <2>3, <3>1
    <3>2. CASE ~LockRow(t)
      <4>1. DeleteIndex(t) \/ RemoveIndex(t) \/ UnlockRow(t)
        BY <1>10, <2>3, <3>2, Moves DEF Step, RowTaken, RowHeld
      <4>2. o_id' = o_id /\ pc[t] \in RowTaken
        BY <4>1, Moves DEF DeleteIndex, RemoveIndex, UnlockRow, tagVars, RowTaken, RowHeld
      <4>3. QED
        BY <2>1, <2>3, <4>2
    <3>3. QED
      BY <3>1, <3>2
  <2>4. QED
    BY <2>2, <2>3
<1>11. ASSUME NEW r \in DOMAIN rows'
       PROVE  rows'[r].o_id \in orders' \/ rows'[r].info \in G[rows'[r].o_id]
  <2>0. rows' \in Seq(Row) /\ rows'[r] \in Row /\ rows \in Seq(Row)
    BY <1>11, RowsGrow, ElementOfSeq
  <2>1. ASSUME r \in DOMAIN rows, rows'[r].info = rows[r].info
        PROVE  rows'[r].o_id \in orders' \/ rows'[r].info \in G[rows'[r].o_id]
    <3>1. rows'[r].o_id = rows[r].o_id /\ rows'[r].o_id \in 1..MaxOrder
      BY <2>0, <2>1, RowsGrow DEF Row
    <3>2. QED
      BY <1>1, <1>2, <2>1, <3>1 DEF FollowersInv
  <2>2. CASE UNCHANGED rows
    BY <1>11, <2>1, <2>2
  <2>3. CASE PushRow(t)
    <3>1. \/ r \in DOMAIN rows /\ rows'[r] = rows[r]
          \/ rows'[r] = [o_id |-> o_id[t], owner |-> 0, info |-> t]
      BY <1>11, <2>0, <2>3 DEF PushRow
    <3>2. t \in NewOrders /\ piece[t] > 1
      BY <2>3, Kinds, Moves DEF NewOrderInv
    <3>3. t \in G[o_id[t]]
      BY <1>2, <1>4, <3>2 DEF FollowersInv
    <3>4. QED
      BY <2>1, <3>1, <3>3
  <2>4. CASE LockRow(t)
    <3>1. rows' = [rows EXCEPT ![delete_row[t]].owner = t] /\ delete_row[t] \in DOMAIN rows
      BY <2>4, LockRowSucceeds
    <3>2. r \in DOMAIN rows /\ rows[r] \in Row
      BY <1>11, <2>0, <3>1, ElementOfSeq
    <3>3. rows'[r].info = rows[r].info
      BY <3>1, <3>2 DEF Row
    <3>4. QED
      BY <2>1, <3>2, <3>3
  <2>5. CASE UnlockRow(t)
    <3>1. r \in DOMAIN rows /\ rows[r] \in Row
      <4>1. DOMAIN rows' = DOMAIN rows
        BY <2>5 DEF UnlockRow
      <4>2. QED
        BY <1>11, <2>0, <4>1, ElementOfSeq
    <3>2. rows'[r].info = (IF r \in {read_row[t], delete_row[t]} THEN t ELSE rows[r].info)
      BY <2>5, <3>1 DEF UnlockRow, Row
    <3>3. CASE r \in {read_row[t], delete_row[t]}
      <4>1. t \in Deliveries /\ pc[t] = "set_info"
        BY <2>5, Kinds, Moves
      <4>2. rows[r].o_id = o_id[t] /\ t \in F[o_id[t]]
        BY <3>3, <4>1 DEF BaseInv, RowsInv, FollowersInv, RowTaken, RowHeld
      <4>3. rows'[r].o_id = o_id[t] /\ o_id[t] \in 1..MaxOrder
        BY <2>0, <3>1, <4>2, RowsGrow DEF Row
      <4>4. QED
        BY <1>2, <3>2, <3>3, <4>2, <4>3
    <3>4. CASE r \notin {read_row[t], delete_row[t]}
      BY <2>1, <3>1, <3>2, <3>4
    <3>5. QED
      BY <3>3, <3>4
  <2>6. QED
    BY <2>2, <2>3, <2>4, <2>5, StepChanges
<1>12. QED
  BY <1>7, <1>8, <1>9, <1>10, <1>11 DEF FollowersInv

\* The steps of a delivery after it has taken a row or ended its first piece.
LEMMA StepAfterRow ==
  ASSUME BaseInv, NEW t \in Tids, Step(t), t \in Deliveries, pc[t] \in RowTaken \/ piece[t] > 1
  PROVE  /\ \/ StartPiece(t) \/ Commit(t) \/ DeleteIndex(t) \/ RemoveIndex(t) \/ UnlockRow(t)
            \/ UnlockBucket(t) \/ Deliver(t)
         /\ UNCHANGED <<o_id, deps, no_o_id_arr, retried, read_row, delete_row>>
<1>1. t \notin NewOrders /\ DeliveryInv(t) /\ piece[t] \in 1..6
  BY Kinds DEF BaseInv, TypeInv, TypeOK
<1>2. ~(RetrieveMin(t) \/ NothingQueued(t))
  BY <1>1 DEF RetrieveMin, NothingQueued, At, DeliveryInv, RowTaken, RowHeld
<1>3. ~(DeleteRow(t) \/ LockBucket(t) \/ LockRow(t))
  BY <1>1, Moves DEF DeliveryInv, RowTaken, RowHeld
<1>4. \/ StartPiece(t) \/ Commit(t) \/ DeleteIndex(t) \/ RemoveIndex(t) \/ UnlockRow(t)
      \/ UnlockBucket(t) \/ Deliver(t)
  BY <1>2, <1>3, DeliverySteps
<1>5. QED
  BY <1>4, StepChanges, Moves
     DEF StartPiece, Commit, DeleteIndex, RemoveIndex, UnlockRow, UnlockBucket, Deliver, infoVars,
         tagVars, historyVars

\* What a delivery has collected stays its order.
LEMMA StepCollected ==
  ASSUME BaseInv, NEW t \in Tids, Step(t),
         NEW F \in [1..MaxOrder -> SUBSET Handlers], FollowInv(F),
         NEW G \in [1..MaxOrder -> SUBSET Handlers], \A o \in 1..MaxOrder : F[o] \subseteq G[o],
         NEW u \in Deliveries \ retried'
  PROVE  CollectedInv(G, u)'
<1> USE DEF Goto, EndPiece
<1>0. /\ DOMAIN piece = Tids /\ DOMAIN no_o_id_arr = Tids /\ DOMAIN pc = Tids /\ u \in Tids
      /\ no_o_id_arr[u] \in Seq(0..MaxOrder) /\ piece[u] \in 1..6
  BY DEF BaseInv, TypeInv, TypeOK, Tids
<1>1. u \notin retried
  BY StepChanges DEF LockBucket, LockRow
<1>2. CollectedInv(F, u) /\ FollowersInv(F)
  BY <1>1 DEF FollowInv
<1>3. ASSUME no_o_id_arr[u] # <<>>
      PROVE  Entry(u) \in 0..MaxOrder
  <2>1. ASSUME NEW q \in Seq(0..MaxOrder), q # <<>>
        PROVE  q[1] \in 0..MaxOrder
    <3>1. Len(q) # 0 /\ Len(q) \in Nat
      BY <2>1, EmptySeq, LenProperties
    <3>2. 1 \in 1..Len(q)
      BY <3>1
    <3>3. QED
      BY <3>2, ElementOfSeq
  <2>2. QED
    BY <1>0, <1>3, <2>1 DEF Entry
<1>4. CASE u # t
  <2>1. /\ pc'[u] = pc[u] /\ piece'[u] = piece[u] /\ o_id'[u] = o_id[u]
        /\ no_o_id_arr'[u] = no_o_id_arr[u] /\ Entry(u)' = Entry(u)
        /\ (u \in raced' <=> u \in raced)
    BY <1>0, <1>4, StepOthers DEF Entry
  <2>2. Entry(u) \in 1..MaxOrder /\ u \in F[Entry(u)] => u \in G[Entry(u)]
    OBVIOUS
  <2>3. piece[u] > 1 => Entry(u) = 0 \/ u \in G[Entry(u)]
    BY <1>2, <1>3, <2>2 DEF CollectedInv
  <2>4. QED
    BY <1>2, <2>1, <2>3 DEF CollectedInv
<1>5. CASE u = t /\ (pc[t] \in RowTaken \/ piece[t] > 1)
  <2>1. /\ \/ StartPiece(t) \/ Commit(t) \/ DeleteIndex(t) \/ RemoveIndex(t) \/ UnlockRow(t)
           \/ UnlockBucket(t) \/ Deliver(t)
        /\ o_id' = o_id /\ no_o_id_arr' = no_o_id_arr
    BY <1>5, StepAfterRow
  <2>2. no_o_id_arr[t] # <<>> /\ (Entry(t) = 0 \/ t \in F[Entry(t)]) /\ Entry(t)' = Entry(t)
    <3>1. CASE pc[t] \in RowTaken
      BY <1>2, <1>5, <2>1, <3>1 DEF CollectedInv, FollowersInv, Entry
    <3>2. CASE piece[t] > 1
      BY <1>2, <1>5, <2>1, <3>2 DEF CollectedInv, Entry
    <3>3. QED
      BY <1>5, <3>1, <3>2
  <2>3. Entry(t)' = 0 \/ t \in G[Entry(t)']
    BY <1>3, <1>5, <2>2
  <2>4. pc'[t] \in RowTaken => no_o_id_arr'[t] = <<o_id'[t]>> /\ piece'[t] = 1
    <3>1. ASSUME pc'[t] \in RowTaken
          PROVE  DeleteIndex(t) \/ RemoveIndex(t) \/ UnlockRow(t)
      BY <2>1, <3>1, Moves DEF RowTaken, RowHeld
    <3>2. DeleteIndex(t) \/ RemoveIndex(t) \/ UnlockRow(t) =>
            pc[t] \in RowTaken /\ piece' = piece
      BY Moves DEF DeleteIndex, RemoveIndex, UnlockRow, RowTaken, RowHeld
    <3>3. pc[t] \in RowTaken => no_o_id_arr[t] = <<o_id[t]>> /\ piece[t] = 1
      BY <1>2, <1>5, Kinds DEF CollectedInv, DeliveryInv, RowTaken, RowHeld
    <3>4. QED
      BY <2>1, <3>1, <3>2, <3>3
  <2>5. pc'[t] \notin {"delete", "lock_bucket", "lock_row"}
    BY <2>1, Moves
  <2>6. ~(piece'[t] = 1 /\ pc'[t] \in {"wait", "run"})
    <3>1. CASE StartPiece(t) \/ Commit(t)
      BY <1>5, <3>1, Moves DEF StartPiece, Commit, RowTaken, RowHeld
    <3>2. CASE UnlockBucket(t)
      BY <1>0, <1>5, <3>2 DEF UnlockBucket
    <3>3. CASE Deliver(t)
      <4>1. piece[t] > 1
        BY <1>0, <1>5, <3>3, Kinds DEF Deliver, At, DeliveryInv
      <4>2. piece'[t] = piece[t] \/ piece'[t] = piece[t] + 1
        BY <1>0, <1>5, <3>3 DEF Deliver
      <4>3. QED
        BY <1>0, <1>5, <4>1, <4>2
    <3>4. CASE DeleteIndex(t) \/ RemoveIndex(t) \/ UnlockRow(t)
      BY <3>4, Moves
    <3>5. QED
      BY <2>1, <3>1, <3>2, <3>3, <3>4
  <2>7. pc'[t] = "panic" => t \in raced'
    <3>1. SUFFICES ASSUME pc'[t] = "panic", t \notin raced'
                   PROVE  FALSE
      OBVIOUS
    <3>2. Deliver(t)
      BY <2>1, <3>1, Moves
    <3>3. Entry(t) # 0 /\ Entry(t) \notin orders /\ rank[t] = 5
      BY <1>0, <3>1, <3>2 DEF Deliver, At
    <3>4. t \in F[Entry(t)] /\ Entry(t) \in 1..MaxOrder
      BY <1>3, <1>5, <2>2, <3>3
    <3>5. PICK v \in deps[t] \cap F[Entry(t)] : TRUE
      BY <1>2, <1>5, <3>3, <3>4 DEF FollowersInv
    <3>6. deps[t] \subseteq committed
      BY <1>5, <3>3, Kinds DEF DeliveryInv
    <3>7. QED
      BY <1>2, <3>3, <3>4, <3>5, <3>6, CommittedIsThere
  <2>8. QED
    BY <1>5, <2>1, <2>2, <2>3, <2>4, <2>5, <2>6, <2>7 DEF CollectedInv
<1>6. CASE u = t /\ pc[t] \notin RowTaken /\ ~(piece[t] > 1)
  <2>1. piece[t] = 1 /\ t \notin NewOrders /\ DeliveryInv(t)
    BY <1>0, <1>6, Kinds
  <2>2. ~(Commit(t) \/ UnlockBucket(t) \/ Deliver(t))
    <3>1. Len(PieceRanks(t)) = 2
      BY <1>6, RanksOfPieces
    <3>2. QED
      BY <1>6, <2>1, <3>1, Moves DEF Commit, Deliver, At, DeliveryInv, RowTaken
  <2>5. ~(DeleteIndex(t) \/ RemoveIndex(t) \/ UnlockRow(t))
    BY <1>6, Moves DEF RowTaken, RowHeld
  <2>6. CASE StartPiece(t)
    <3>1. pc[t] = "wait" /\ pc'[t] = "run" /\ no_o_id_arr' = no_o_id_arr /\ piece' = piece
      BY <2>6, Moves DEF StartPiece, tagVars
    <3>2. QED
      BY <1>2, <1>6, <2>1, <3>1 DEF CollectedInv, RowTaken, RowHeld
  <2>7. CASE RetrieveMin(t) \/ NothingQueued(t)
    <3>1. no_o_id_arr[t] = <<>>
      BY <1>2, <1>6, <2>1, <2>7, Moves DEF CollectedInv
    <3>2. \/ pc'[t] = "delete" /\ piece' = piece /\ no_o_id_arr' = no_o_id_arr
          \/ pc'[t] = "wait" /\ piece'[t] = 2 /\ no_o_id_arr'[t] = <<0>>
      BY <1>0, <1>6, <2>1, <2>7, <3>1 DEF RetrieveMin, NothingQueued, Collect
    <3>3. QED
      BY <1>6, <2>1, <3>1, <3>2 DEF CollectedInv, RowTaken, RowHeld, Entry
  <2>8. CASE DeleteRow(t)
    <3>1. no_o_id_arr[t] = <<>>
      BY <1>2, <1>6, <2>1, <2>8, Moves DEF CollectedInv
    <3>2. /\ piece' = piece /\ o_id' = o_id
          /\ \/ pc'[t] = "lock_bucket" /\ no_o_id_arr'[t] = <<o_id[t]>>
             \/ pc'[t] = "aborted"
      BY <1>0, <1>6, <2>8, <3>1 DEF DeleteRow, Collect
    <3>3. QED
      BY <1>6, <2>1, <3>2 DEF CollectedInv, RowTaken, RowHeld
  <2>9. CASE LockBucket(t) \/ LockRow(t)
    <3>1. pc'[t] \in {"lock_row", "delete_index"}
      <4>1. LockRow(t) => pc'[t] = "delete_index"
        BY LockRowSucceeds
      <4>2. LockBucket(t) => pc'[t] = "lock_row"
        BY <1>0, <1>6 DEF LockBucket
      <4>3. QED
        BY <2>9, <4>1, <4>2
    <3>2. piece' = piece /\ o_id' = o_id /\ no_o_id_arr' = no_o_id_arr
          /\ pc[t] \in {"lock_bucket", "lock_row"}
      BY <2>9, Moves DEF LockBucket, LockRow, tagVars
    <3>3. no_o_id_arr[t] = <<o_id[t]>>
      BY <1>2, <1>6, <3>2 DEF CollectedInv
    <3>4. QED
      BY <1>6, <2>1, <3>1, <3>2, <3>3 DEF CollectedInv
  <2>10. QED
    BY <1>6, <2>2, <2>5, <2>6, <2>7, <2>8, <2>9, DeliverySteps
<1>7. QED
  BY <1>4, <1>5, <1>6

\* The members of the orders after a step.
LEMMA StepFollow ==
  ASSUME BaseInv, NEW t \in Tids, Step(t),
         NEW F \in [1..MaxOrder -> SUBSET Handlers], FollowInv(F),
         NEW G \in [1..MaxOrder -> SUBSET Handlers], Joins(t, F, G)
  PROVE  FollowInv(G)'
<1> USE DEF Joins
<1>1. FollowersInv(G)'
  BY StepFollowers DEF FollowInv
<1>2. \A o \in 1..MaxOrder : F[o] \subseteq G[o]
  OBVIOUS
<1>3. ASSUME NEW u \in Deliveries \ retried'
      PROVE  CollectedInv(G, u)'
  BY <1>2, <1>3, StepCollected
<1>4. QED
  BY <1>1, <1>3 DEF FollowInv

\* What it took off the queue it delivers.
LEMMA StepRemoved ==
  ASSUME BaseInv, NEW t \in Tids, Step(t),
         NEW F \in [1..MaxOrder -> SUBSET Handlers], FollowInv(F), RemovedInv
  PROVE  RemovedInv'
<1> USE DEF Goto, EndPiece
<1>0. /\ DOMAIN piece = Tids /\ DOMAIN carriers = 1..MaxOrder
      /\ \A u \in Deliveries : u \in Tids /\ piece[u] \in 1..6
      /\ removed \subseteq Deliveries \X (1..MaxOrder)
      /\ \A o \in 1..MaxOrder : carriers[o] \in Seq(Deliveries)
  BY DEF BaseInv, TypeInv, TypeOK, Tids
<1>1. retried \subseteq retried'
  BY StepChanges DEF LockBucket, LockRow
<1>2. ASSUME NEW o \in 1..MaxOrder, NEW i \in DOMAIN carriers[o]
      PROVE  i \in DOMAIN carriers'[o] /\ carriers'[o][i] = carriers[o][i]
  <2>1. carriers'[o] = carriers[o] \/ carriers'[o] = Append(carriers[o], t)
    <3>1. CASE Deliver(t)
      BY <1>0, <3>1 DEF Deliver
    <3>2. QED
      BY <3>1, StepChanges
  <2>2. carriers[o] \in Seq(Deliveries)
    BY <1>0
  <2>3. ASSUME NEW s \in Seq(Deliveries), NEW j \in DOMAIN s
        PROVE  j \in DOMAIN Append(s, t) /\ Append(s, t)[j] = s[j]
    OBVIOUS
  <2>4. QED
    BY <1>2, <2>1, <2>2, <2>3
<1>3. ASSUME NEW p \in removed', p[1] \notin retried'
      PROVE  /\ no_o_id_arr'[p[1]] # <<>> /\ Entry(p[1])' = p[2]
             /\ \/ pc'[p[1]] \in RowTaken \/ piece'[p[1]] = 2
                \/ piece'[p[1]] = 3 /\ \E i \in DOMAIN carriers'[p[2]] : carriers'[p[2]][i] = p[1]
  <2>1. CASE p \in removed
    <3>1. p[1] \in Deliveries /\ p[2] \in 1..MaxOrder /\ p[1] \in Tids /\ p[1] \notin retried
      BY <1>0, <1>1, <1>3, <2>1
    <3>2. /\ no_o_id_arr[p[1]] # <<>> /\ Entry(p[1]) = p[2]
          /\ \/ pc[p[1]] \in RowTaken \/ piece[p[1]] = 2
             \/ piece[p[1]] = 3 /\ \E i \in DOMAIN carriers[p[2]] : carriers[p[2]][i] = p[1]
      BY <2>1, <3>1 DEF RemovedInv
    <3>3. CASE p[1] # t
      <4>1. pc'[p[1]] = pc[p[1]] /\ piece'[p[1]] = piece[p[1]]
            /\ no_o_id_arr'[p[1]] = no_o_id_arr[p[1]]
        BY <3>1, <3>3, StepOthers
      <4>2. QED
        BY <1>2, <3>1, <3>2, <4>1 DEF Entry
    <3>4. CASE p[1] = t
      <4>1. /\ \/ StartPiece(t) \/ Commit(t) \/ DeleteIndex(t) \/ RemoveIndex(t) \/ UnlockRow(t)
               \/ UnlockBucket(t) \/ Deliver(t)
            /\ no_o_id_arr' = no_o_id_arr
        BY <3>1, <3>2, <3>4, StepAfterRow
      <4>2. Entry(t)' = Entry(t)
        BY <4>1 DEF Entry
      <4>3. CASE StartPiece(t) \/ Commit(t)
        <5>1. piece' = piece /\ carriers' = carriers /\ pc[t] \notin RowTaken
          BY <4>3, Moves DEF StartPiece, Commit, historyVars, RowTaken, RowHeld
        <5>2. QED
          BY <3>2, <3>4, <4>1, <4>2, <5>1
      <4>4. CASE DeleteIndex(t) \/ RemoveIndex(t) \/ UnlockRow(t)
        <5>1. pc'[t] \in RowTaken
          BY <4>4, Moves DEF RowTaken, RowHeld
        <5>2. QED
          BY <3>2, <3>4, <4>1, <4>2, <5>1
      <4>5. CASE UnlockBucket(t)
        <5>1. piece[t] = 1 /\ piece'[t] = piece[t] + 1
          BY <1>0, <3>1, <3>4, <4>5, Kinds, Moves DEF UnlockBucket, DeliveryInv
        <5>2. QED
          BY <3>2, <3>4, <4>1, <4>2, <5>1
      <4>6. CASE Deliver(t)
        <5>1. piece[t] = 2 /\ pc[t] = "run"
          BY <1>0, <3>1, <3>2, <3>4, <4>6, Kinds
             DEF Deliver, At, DeliveryInv, RowTaken, RowHeld
        <5>2. Entry(t) \in 1..MaxOrder
          BY <3>1, <3>2, <3>4
        <5>3. \/ piece'[t] = 2
              \/ piece'[t] = 3 /\ carriers' = [carriers EXCEPT ![Entry(t)] = Append(@, t)]
          BY <1>0, <4>6, <5>1, <5>2 DEF Deliver
        <5>4. CASE piece'[t] = 2
          BY <3>2, <3>4, <4>1, <4>2, <5>4
        <5>5. CASE piece'[t] = 3 /\ carriers' = [carriers EXCEPT ![Entry(t)] = Append(@, t)]
          <6>1. carriers[p[2]] \in Seq(Deliveries) /\ carriers'[p[2]] = Append(carriers[p[2]], t)
            BY <1>0, <3>1, <3>2, <3>4, <5>5
          <6>2. Len(carriers[p[2]]) + 1 \in DOMAIN carriers'[p[2]]
                /\ carriers'[p[2]][Len(carriers[p[2]]) + 1] = t
            BY <6>1
          <6>3. QED
            BY <3>2, <3>4, <4>1, <4>2, <5>5, <6>2
        <5>6. QED
          BY <5>3, <5>4, <5>5
      <4>7. QED
        BY <4>1, <4>3, <4>4, <4>5, <4>6
    <3>5. QED
      BY <3>3, <3>4
  <2>2. CASE p \notin removed
    <3>1. DeleteIndex(t)
      BY <1>3, <2>2, StepChanges
    <3>2. Queued(o_id[t]) /\ p = <<t, o_id[t]>> /\ no_o_id_arr' = no_o_id_arr
      BY <1>3, <2>2, <3>1 DEF DeleteIndex, tagVars
    <3>3. t \in Deliveries /\ pc[t] \in RowTaken /\ pc'[t] \in RowTaken
      BY <3>1, Kinds, Moves DEF RowTaken, RowHeld
    <3>4. no_o_id_arr[t] = <<o_id[t]>>
      BY <1>1, <1>3, <3>2, <3>3 DEF FollowInv, CollectedInv
    <3>5. QED
      BY <3>2, <3>3, <3>4 DEF Entry
  <2>3. QED
    BY <2>1, <2>2
<1>4. QED
  BY <1>3 DEF RemovedInv

\* When nothing changes.
LEMMA StutterFollow ==
  ASSUME NEW F, FollowInv(F), RemovedInv, UNCHANGED vars
  PROVE  FollowInv(F)' /\ RemovedInv'
<1> USE DEF vars, queueVars, tableVars, infoVars, tagVars, historyVars
<1>1. FollowersInv(F)'
  BY DEF FollowInv, FollowersInv
<1>2. ASSUME NEW u \in Deliveries \ retried
      PROVE  CollectedInv(F, u)'
  BY DEF FollowInv, CollectedInv, Entry
<1>3. RemovedInv'
  BY DEF RemovedInv, Entry
<1>4. QED
  BY <1>1, <1>2, <1>3 DEF FollowInv

\* The second layer.
LEMMA FollowersExistAlways == Spec => [](BaseInv /\ FollowersExist /\ RemovedInv)
<1>1. Init => FollowersExist /\ RemovedInv
  BY InitFollow DEF FollowersExist
<1>2. BaseInv /\ FollowersExist /\ RemovedInv /\ [Next]_vars => (FollowersExist /\ RemovedInv)'
  <2>1. SUFFICES ASSUME BaseInv, FollowersExist, RemovedInv, [Next]_vars
                 PROVE  (FollowersExist /\ RemovedInv)'
    OBVIOUS
  <2>2. PICK F \in [1..MaxOrder -> SUBSET Handlers] : FollowInv(F)
    BY <2>1 DEF FollowersExist
  <2>3. ASSUME NEW t \in Tids, Step(t)
        PROVE  (FollowersExist /\ RemovedInv)'
    <3>1. PICK G \in [1..MaxOrder -> SUBSET Handlers] : Joins(t, F, G)
      <4> DEFINE G == [o \in 1..MaxOrder |-> F[o] \cup
                 (IF (Draws(t) \/ LockRow(t)) /\ o = o_id[t] THEN {t} ELSE {})]
      <4>1. Draws(t) \/ LockRow(t) => t \in Handlers
        BY <2>1, <2>3, Kinds DEF Draws, LockRow, Handlers
      <4>2. G \in [1..MaxOrder -> SUBSET Handlers]
        BY <4>1
      <4>3. QED
        BY <4>2 DEF Joins
    <3>2. FollowInv(G)' /\ RemovedInv'
      BY <2>1, <2>2, <2>3, <3>1, StepFollow, StepRemoved
    <3>3. FollowersExist'
      BY <3>2 DEF FollowersExist, MaxOrder
    <3>4. QED
      BY <3>2, <3>3
  <2>4. ASSUME UNCHANGED vars
        PROVE  (FollowersExist /\ RemovedInv)'
    <3>1. FollowInv(F)' /\ RemovedInv'
      BY <2>1, <2>2, <2>4, StutterFollow
    <3>2. FollowersExist'
      BY <3>1 DEF FollowersExist, MaxOrder
    <3>3. QED
      BY <3>1, <3>2
  <2>5. QED
    BY <2>1, <2>3, <2>4 DEF Next, Terminated
<1>3. QED
  BY <1>1, <1>2, BaseInvHolds, PTL DEF Spec

\* "order empty": only a delivery that ran its first piece again, or whose
\* look-up missed in a race, can fail to find its order.
THEOREM OrderFoundHolds == Spec => []OrderFound
<1>1. FollowersExist => OrderFound
  <2>1. SUFFICES ASSUME FollowersExist, NEW t \in Deliveries, pc[t] = "panic"
                 PROVE  t \in retried \cup raced
    BY DEF OrderFound
  <2>2. PICK F \in [1..MaxOrder -> SUBSET Handlers] : FollowInv(F)
    BY <2>1 DEF FollowersExist
  <2>3. CASE t \notin retried
    BY <2>1, <2>2, <2>3 DEF FollowInv, CollectedInv
  <2>4. QED
    BY <2>3
<1>2. QED
  BY FollowersExistAlways, <1>1, PTL

\* A delivery that did not run its first piece again has delivered what it
\* took off the queue when it commits.
THEOREM RemovedIsDeliveredHolds == Spec => []RemovedIsDelivered
<1>1. ASSUME BaseInv, RemovedInv
      PROVE  RemovedIsDelivered
  <2>1. SUFFICES ASSUME NEW p \in removed, p[1] \in committed, p[1] \notin retried
                 PROVE  \E i \in DOMAIN carriers[p[2]] : carriers[p[2]][i] = p[1]
    BY DEF RemovedIsDelivered
  <2>2. p[1] \in Deliveries
    BY <1>1, <2>1 DEF BaseInv, TypeInv
  <2>3. pc[p[1]] = "aborted" \/ piece[p[1]] = 3
    BY <1>1, <2>1, <2>2 DEF BaseInv, DeliveryInv
  <2>4. pc[p[1]] = "aborted" => piece[p[1]] = 1
    BY <1>1, <2>2 DEF BaseInv, DeliveryInv
  <2>5. \/ pc[p[1]] \in RowTaken \/ piece[p[1]] = 2
        \/ piece[p[1]] = 3 /\ \E i \in DOMAIN carriers[p[2]] : carriers[p[2]][i] = p[1]
    BY <1>1, <2>1 DEF RemovedInv
  <2>6. pc[p[1]] \in RowTaken => piece[p[1]] = 1 /\ pc[p[1]] # "aborted"
    BY <1>1, <2>2 DEF BaseInv, DeliveryInv, RowTaken, RowHeld
  <2>7. QED
    BY <2>3, <2>4, <2>5, <2>6
<1>2. QED
  BY FollowersExistAlways, <1>1, PTL

-----------------------------------------------------------------------------

\* Who has written the district, and who has left the queue behind.
Written == {t \in Writers : piece[t] > 1}
Passed(t) == piece[t] > 3 \/ rank[t] > 3

\* The district was written by one after another (C is the order), each of which
\* waits for those before it, directly or not, until they have passed. A
\* stock-level that hides one of them breaks the chain.
WrittenInOrder(C) ==
  /\ C \subseteq Written \X Written
  /\ hidden = {} =>
       /\ \A u \in Written :
            \/ Passed(u)
            \/ /\ district_info \in Written
               /\ u = district_info \/ <<u, district_info>> \in C
       /\ \A p \in C : Passed(p[1]) \/ \E v \in deps[p[2]] : v = p[1] \/ <<p[1], v>> \in C
       /\ \A p \in C : rank[p[2]] >= 3 => Passed(p[1])

\* n orders were queued at first. A number is the next one or one that was drawn
\* before it was written back.
NumbersInOrder(n, C) ==
  /\ d_next_o_id = n + 1 \/ \E u \in Drawn : d_next_o_id = o_id[u] + 1
  /\ \A t \in Writers : pc[t] = "write_district" =>
       o_id[t] = n + 1 \/ \E u \in Drawn : o_id[t] = o_id[u] + 1
  /\ \A t \in Drawn : o_id[t] = n + 1 \/ \E u \in Drawn : <<u, t>> \in C /\ o_id[t] = o_id[u] + 1

\* The rows have the numbers in order, as long as these are distinct.
RowsInOrder(n) ==
  /\ n <= Len(rows)
  /\ \A u \in NewOrders :
       piece[u] > 3 \/ pc[u] \in {"insert_index", "update_wd_index", "unlock_push"} =>
         \E i \in DOMAIN rows : rows[i].o_id = o_id[u]
  /\ DistinctNumbers /\ hidden = {} => \A i \in DOMAIN rows : rows[i].o_id = i

\* The entries of the deque are distinct then, the index knows them, and who
\* pushes has a number that is not in the deque.
WdInv ==
  DistinctNumbers =>
    /\ \A i, j \in DOMAIN wd_index : i # j => wd_index[i] # wd_index[j]
    /\ \A i \in DOMAIN wd_index : \E e \in index : e[1] = wd_index[i]
    /\ \A t \in NewOrders : pc[t] \in {"insert_index", "update_wd_index"} => ~Queued(o_id[t])
    /\ \A t \in NewOrders : pc[t] = "update_wd_index" => \E e \in index : e[1] = o_id[t]
    /\ \A t \in Deliveries : pc[t] = "remove_index" => ~Queued(o_id[t])

\* They are in order.
WdSorted ==
  DistinctNumbers /\ hidden = {} =>
    /\ \A i, j \in DOMAIN wd_index : i < j => wd_index[i] < wd_index[j]
    /\ \A t \in NewOrders : pc[t] \in {"insert_index", "update_wd_index"} =>
         \A i \in DOMAIN wd_index : wd_index[i] < Len(rows)

\* The third layer.
QueueInv(n, C) ==
  WrittenInOrder(C) /\ NumbersInOrder(n, C) /\ RowsInOrder(n) /\ WdInv /\ WdSorted

\* At first nobody has written the district and the rows are those of Init.
LEMMA InitQueue == Init => \E n \in Nat : QueueInv(n, {})
<1> SUFFICES ASSUME Init PROVE \E n \in Nat : QueueInv(n, {})
  OBVIOUS
<1>1. PICK n \in 0..MaxQueued, mix \in Mixes :
        /\ d_next_o_id = n + 1
        /\ rows = [i \in 1..n |-> [o_id |-> i, owner |-> 0, info |-> 0]]
        /\ index = {<<i, i>> : i \in 1..n}
        /\ wd_index = [i \in 1..n |-> i]
        /\ pc = [t \in Tids |-> IF t \in mix THEN "wait" ELSE "done"]
  BY DEF Init
<1>2. rank = [t \in Tids |-> 0] /\ piece = [t \in Tids |-> 1] /\ n \in Nat
  BY OrdersAssumption DEF Init
<1>3. /\ \A t \in Writers : pc[t] \in {"wait", "done"} /\ piece[t] = 1
      /\ \A t \in Deliveries : pc[t] \in {"wait", "done"}
  BY <1>1, <1>2 DEF Tids
<1>4. Written = {} /\ Drawn = {}
  BY <1>3 DEF Written, Drawn, Writers
<1>5. WrittenInOrder({}) /\ NumbersInOrder(n, {})
  BY <1>1, <1>3, <1>4 DEF WrittenInOrder, NumbersInOrder
<1>6. Len(rows) = n /\ DOMAIN rows = 1..n /\ \A i \in 1..n : rows[i].o_id = i
  BY <1>1, <1>2
<1>7. RowsInOrder(n)
  BY <1>2, <1>3, <1>6 DEF RowsInOrder, Writers
<1>8. DOMAIN wd_index = 1..n /\ \A i \in 1..n : wd_index[i] = i /\ <<i, i>> \in index
  BY <1>1
<1>9. WdInv /\ WdSorted
  <2>1. \A i \in DOMAIN wd_index : \E e \in index : e[1] = wd_index[i]
    BY <1>8
  <2>2. QED
    BY <1>3, <1>8, <2>1 DEF WdInv, WdSorted, Writers
<1>10. QED
  BY <1>2, <1>5, <1>7, <1>9 DEF QueueInv

\* Who has written the district after a step.
LEMMA StepWritten ==
  ASSUME BaseInv, NEW t \in Tids, Step(t)
  PROVE  /\ WriteDistrict(t) => t \in Writers \ Written /\ Written' = Written \cup {t}
         /\ ~WriteDistrict(t) => Written' = Written
<1>0. /\ DOMAIN piece = Tids /\ Writers \subseteq Tids /\ \A u \in Tids : piece[u] \in 1..6
      /\ Writers = NewOrders \cup Payments
  BY DEF BaseInv, TypeInv, TypeOK, Tids, Writers
<1>1. \A u \in Writers : u # t => piece'[u] = piece[u]
  BY <1>0, StepOthers
<1>2. CASE WriteDistrict(t)
  <2>1. t \in Writers /\ piece[t] = 1 /\ piece'[t] = 2
    BY <1>0, <1>2, Kinds DEF WriteDistrict, NewOrderInv, PaymentInv, EndPiece
  <2>2. QED
    BY <1>1, <1>2, <2>1 DEF Written
<1>3. CASE ~WriteDistrict(t)
  <2>1. ASSUME t \in NewOrders
        PROVE  piece'[t] > 1 <=> piece[t] > 1
    <3>1. Drawn' = Drawn
      BY <1>3, StepDrawn DEF Draws
    <3>2. QED
      BY <2>1, <3>1 DEF Drawn
  <2>2. ASSUME t \in Payments
        PROVE  piece'[t] > 1 <=> piece[t] > 1
    <3>1. t \notin NewOrders /\ t \notin Deliveries /\ t \notin StockLevels /\ PaymentInv(t)
      BY <2>2, Kinds DEF Writers
    <3>2. CASE piece' = piece
      BY <3>2
    <3>3. CASE piece' = [piece EXCEPT ![t] = @ + 1] /\ pc'[t] = "wait" /\ piece' # piece
      <4>1. RunElsewhere(t)
        <5>1. ~(UnlockPush(t) \/ InsertOrder(t) \/ UnlockBucket(t))
          BY <3>1, Moves DEF PaymentInv
        <5>2. ~(PassDistrict(t) \/ RetrieveMin(t) \/ NothingQueued(t) \/ Deliver(t))
          BY <3>1 DEF PassDistrict, RetrieveMin, NothingQueued, Deliver
        <5>3. ~(StartPiece(t) \/ Commit(t) \/ ReadDistrict(t) \/ LockForPush(t) \/ LockForOrder(t))
          BY <3>3, Moves
        <5>4. ~(PushRow(t) \/ InsertIndex(t) \/ UpdateWdIndex(t) \/ AbortPayment(t)
                \/ DeleteRow(t) \/ LockBucket(t) \/ LockRow(t))
          BY <3>3, Moves
        <5>5. ~(DeleteIndex(t) \/ RemoveIndex(t) \/ UnlockRow(t))
          BY <3>3, Moves
        <5>6. QED
          BY <1>3, <5>1, <5>2, <5>3, <5>4, <5>5 DEF Step
      <4>2. piece[t] > 1
        BY <1>0, <3>1, <4>1 DEF RunElsewhere, PaymentInv
      <4>3. piece'[t] = piece[t] + 1
        BY <1>0, <3>3
      <4>4. QED
        BY <1>0, <4>2, <4>3
    <3>4. QED
      BY <3>2, <3>3, StepPiece
  <2>3. QED
    BY <1>0, <1>1, <1>3, <2>1, <2>2 DEF Written
<1>4. QED
  BY <1>2, <1>3

\* What stays of those.
LEMMA StepWrittenOrder ==
  ASSUME BaseInv, NEW t \in Tids, Step(t), NEW u \in Written
  PROVE  /\ u \in Written' /\ u \in Tids /\ deps'[u] = deps[u]
         /\ u \in Drawn => u \in Drawn' /\ o_id'[u] = o_id[u]
         /\ Passed(u) => Passed(u)'
         /\ u \in committed => Passed(u) /\ rank[u] >= 3
<1>0. /\ u \in Writers /\ u \in Tids /\ piece[u] > 1 /\ piece[u] \in 1..6 /\ rank[u] \in 0..6
      /\ DOMAIN piece = Tids /\ DOMAIN rank = Tids /\ u \in Written'
      /\ u \in NewOrders \/ u \in Payments
  BY StepWritten DEF Written, Tids, Writers, BaseInv, TypeInv, TypeOK
<1>1. u \in Drawn => u \in Drawn'
  BY StepDrawn
<1>2. u \notin Deliveries /\ (u \in NewOrders => NewOrderInv(u)) /\ (u \in Payments => PaymentInv(u))
  BY <1>0, Kinds DEF Writers
<1>3. u \in committed => Passed(u) /\ rank[u] >= 3
  <2>1. CASE u \in NewOrders
    BY <1>0, <1>2, <2>1 DEF NewOrderInv, Passed
  <2>2. CASE u \in Payments
    BY <1>0, <1>2, <2>2 DEF PaymentInv, Passed
  <2>3. QED
    BY <1>0, <2>1, <2>2
<1>4. CASE u # t
  BY <1>0, <1>1, <1>3, <1>4, StepOthers DEF Passed
<1>5. CASE u = t
  <2>1. ~RetrieveMin(t) /\ ~LockRow(t)
    BY <1>0, <1>2, <1>5, Kinds, Moves DEF RetrieveMin
  <2>2. ~ReadDistrict(t) /\ ~WriteDistrict(t)
    BY <1>0, <1>2, <1>5 DEF ReadDistrict, WriteDistrict, At, NewOrderInv, PaymentInv
  <2>3. o_id' = o_id /\ deps' = deps
    BY <2>1, <2>2, StepChanges
  <2>4. piece'[t] = piece[t] \/ piece'[t] = piece[t] + 1
    BY <1>0, StepPiece
  <2>5. Passed(t) => Passed(t)'
    <3>1. CASE piece[t] > 3
      BY <1>0, <1>5, <2>4, <3>1 DEF Passed
    <3>2. CASE ~(piece[t] > 3) /\ rank[t] > 3
      <4>1. pc[t] # "wait"
        <5>1. CASE u \in NewOrders
          BY <1>0, <1>2, <1>5, <3>2, <5>1 DEF NewOrderInv
        <5>2. CASE u \in Payments
          BY <1>0, <1>2, <1>5, <3>2, <5>2 DEF PaymentInv
        <5>3. QED
          BY <1>0, <5>1, <5>2
      <4>2. rank' = rank
        BY <4>1, StepChanges, Moves
      <4>3. QED
        BY <3>2, <4>2 DEF Passed
    <3>3. QED
      BY <3>1, <3>2 DEF Passed
  <2>6. QED
    BY <1>0, <1>1, <1>3, <1>5, <2>3, <2>5
<1>6. QED
  BY <1>4, <1>5

\* Who writes the district comes after those who wrote it before.
LEMMA StepWrittenInOrder ==
  ASSUME BaseInv, NEW t \in Tids, Step(t), NEW C, WrittenInOrder(C),
         NEW D, D = C \cup (IF WriteDistrict(t) THEN Written \X {t} ELSE {})
  PROVE  WrittenInOrder(D)'
<1>0. /\ DOMAIN rank = Tids /\ DOMAIN deps = Tids /\ Written \subseteq Writers
      /\ Writers \subseteq Tids /\ Writers = NewOrders \cup Payments
      /\ \A u \in Tids : rank[u] \in 0..6
  BY DEF BaseInv, TypeInv, TypeOK, Written, Tids, Writers
<1>1. \A u \in Written : /\ u \in Written' /\ deps'[u] = deps[u]
                         /\ Passed(u) => Passed(u)'
                         /\ u \in committed => Passed(u) /\ rank[u] >= 3
  BY StepWrittenOrder
<1>2. \A p \in C : p[1] \in Written /\ p[2] \in Written
  BY DEF WrittenInOrder
<1>3. \A u \in Writers : u # t => rank'[u] = rank[u]
  BY <1>0, StepOthers
<1>4. D \subseteq Written' \X Written'
  <2>1. CASE WriteDistrict(t)
    BY <2>1, StepWritten DEF WrittenInOrder
  <2>2. CASE ~WriteDistrict(t)
    BY <2>2, StepWritten DEF WrittenInOrder
  <2>3. QED
    BY <2>1, <2>2
<1>5. SUFFICES ASSUME hidden' = {}
               PROVE  /\ \A u \in Written' :
                           \/ Passed(u)'
                           \/ /\ district_info' \in Written'
                              /\ u = district_info' \/ <<u, district_info'>> \in D
                      /\ \A p \in D : Passed(p[1])'
                                      \/ \E v \in deps'[p[2]] : v = p[1] \/ <<p[1], v>> \in D
                      /\ \A p \in D : rank'[p[2]] >= 3 => Passed(p[1])'
  BY <1>4 DEF WrittenInOrder
<1>6. hidden = {}
  BY <1>5, StepChanges DEF PassDistrict
<1>7. /\ \A u \in Written :
           \/ Passed(u)
           \/ /\ district_info \in Written
              /\ u = district_info \/ <<u, district_info>> \in C
      /\ \A p \in C : Passed(p[1]) \/ \E v \in deps[p[2]] : v = p[1] \/ <<p[1], v>> \in C
      /\ \A p \in C : rank[p[2]] >= 3 => Passed(p[1])
  BY <1>6 DEF WrittenInOrder
<1>8. ASSUME NEW p \in C
      PROVE  Passed(p[1])' \/ \E v \in deps'[p[2]] : v = p[1] \/ <<p[1], v>> \in D
  <2>1. Passed(p[1]) \/ \E v \in deps[p[2]] : v = p[1] \/ <<p[1], v>> \in C
    BY <1>7
  <2>2. p[1] \in Written /\ p[2] \in Written
    BY <1>2
  <2>3. CASE Passed(p[1])
    BY <1>1, <2>2, <2>3
  <2>4. CASE \E v \in deps[p[2]] : v = p[1] \/ <<p[1], v>> \in C
    <3>1. deps'[p[2]] = deps[p[2]] /\ C \subseteq D
      BY <1>1, <2>2
    <3>2. QED
      BY <2>4, <3>1
  <2>5. QED
    BY <2>1, <2>3, <2>4
<1>9. ASSUME NEW p \in C, rank'[p[2]] >= 3
      PROVE  Passed(p[1])'
  <2>1. p[1] \in Written /\ p[2] \in Written
    BY <1>2
  <2>2. CASE rank'[p[2]] = rank[p[2]]
    BY <1>1, <1>7, <1>9, <2>1, <2>2
  <2>3. CASE rank'[p[2]] # rank[p[2]]
    <3>1. p[2] = t /\ StartPiece(t) /\ t \in Written
      BY <1>0, <1>3, <2>1, <2>3, StepChanges
    <3>2. \A d \in deps[t] : d \in committed \/ rank[d] > rank'[t]
      BY <1>0, <3>1 DEF StartPiece, HasStarted
    <3>3. rank'[t] >= 3 /\ rank'[t] \in 0..6
      <4>1. BaseInv'
        BY StepBaseInv
      <4>2. QED
        BY <1>9, <3>1, <4>1 DEF BaseInv, TypeInv, TypeOK
    <3>4. CASE Passed(p[1])
      BY <1>1, <2>1, <3>4
    <3>5. CASE ~Passed(p[1])
      <4>1. PICK v \in deps[t] : v = p[1] \/ <<p[1], v>> \in C
        BY <1>7, <3>1, <3>5
      <4>2. v \in Written
        BY <1>2, <2>1, <4>1
      <4>3. rank[v] >= 3 /\ Passed(v)
        <5>1. CASE v \in committed
          BY <1>1, <4>2, <5>1
        <5>2. CASE v \notin committed
          <6>1. rank[v] > rank'[t] /\ rank[v] \in 0..6
            BY <1>0, <3>2, <4>1, <4>2, <5>2
          <6>2. QED
            BY <3>3, <6>1 DEF Passed
        <5>3. QED
          BY <5>1, <5>2
      <4>4. <<p[1], v>> \in C => Passed(p[1])
        BY <1>7, <4>3
      <4>5. QED
        BY <3>5, <4>1, <4>3, <4>4
    <3>6. QED
      BY <3>4, <3>5
  <2>4. QED
    BY <2>2, <2>3
<1>10. CASE WriteDistrict(t)
  <2>1. t \in Writers /\ t \notin Written /\ Written' = Written \cup {t}
        /\ D = C \cup (Written \X {t})
    BY <1>10, StepWritten
  <2>2. /\ district_info' = t /\ rank' = rank /\ AddDep(t, district_info) /\ rank[t] = 1
    BY <1>0, <1>10, <2>1, Kinds DEF WriteDistrict, NewOrderInv, PaymentInv
  <2>3. \A u \in Written' : u = t \/ <<u, t>> \in D
    BY <2>1
  <2>4. ASSUME NEW p \in D, p \notin C
        PROVE  Passed(p[1])' \/ \E v \in deps'[p[2]] : v = p[1] \/ <<p[1], v>> \in D
    <3>1. p[1] \in Written /\ p[2] = t
      BY <2>1, <2>4
    <3>2. CASE Passed(p[1])
      BY <1>1, <3>1, <3>2
    <3>3. CASE ~Passed(p[1])
      <4>1. district_info \in Written /\ (p[1] = district_info \/ <<p[1], district_info>> \in C)
        BY <1>7, <3>1, <3>3
      <4>2. district_info \notin committed
        <5>1. ASSUME district_info \in committed
              PROVE  FALSE
          <6>1. Passed(district_info) /\ rank[district_info] >= 3
            BY <1>1, <4>1, <5>1
          <6>2. <<p[1], district_info>> \in C => Passed(p[1])
            BY <1>7, <6>1
          <6>3. QED
            BY <3>3, <4>1, <6>1, <6>2
        <5>2. QED
          BY <5>1
      <4>3. district_info \notin committed \cup {0, t}
        BY <1>0, <2>1, <4>1, <4>2, Kinds
      <4>4. district_info \in deps'[t]
        BY <1>0, <2>1, <2>2, <4>3 DEF AddDep
      <4>5. QED
        BY <2>1, <3>1, <4>1, <4>4
    <3>4. QED
      BY <3>2, <3>3
  <2>5. ASSUME NEW p \in D, rank'[p[2]] >= 3
        PROVE  p \in C
    BY <2>1, <2>2, <2>5
  <2>6. district_info' \in Written'
    BY <2>1, <2>2
  <2>7. QED
    BY <1>8, <1>9, <2>2, <2>3, <2>4, <2>5, <2>6
<1>11. CASE ~WriteDistrict(t)
  <2>1. D = C /\ Written' = Written
    BY <1>11, StepWritten
  <2>2. ASSUME NEW u \in Written'
        PROVE  \/ Passed(u)'
               \/ /\ district_info' \in Written'
                  /\ u = district_info' \/ <<u, district_info'>> \in D
    <3>1. CASE Passed(u)
      BY <1>1, <2>1, <2>2, <3>1
    <3>2. CASE ~Passed(u)
      <4>1. district_info \in Written /\ (u = district_info \/ <<u, district_info>> \in C)
        BY <1>7, <2>1, <2>2, <3>2
      <4>2. district_info \notin committed
        <5>1. ASSUME district_info \in committed
              PROVE  FALSE
          <6>1. Passed(district_info) /\ rank[district_info] >= 3
            BY <1>1, <4>1, <5>1
          <6>2. <<u, district_info>> \in C => Passed(u)
            BY <1>7, <6>1
          <6>3. QED
            BY <3>2, <4>1, <6>1, <6>2
        <5>2. QED
          BY <5>1
      <4>3. district_info' = district_info
        BY <1>0, <1>5, <1>11, <4>1, <4>2, StepChanges DEF PassDistrict
      <4>4. QED
        BY <2>1, <4>1, <4>3
    <3>3. QED
      BY <3>1, <3>2
  <2>3. QED
    BY <1>8, <1>9, <2>1, <2>2
<1>12. QED
  BY <1>10, <1>11

\* A number that is drawn is one more than one drawn before it.
LEMMA StepNumbersInOrder ==
  ASSUME BaseInv, NEW t \in Tids, Step(t), NEW n \in Nat, NEW C, NumbersInOrder(n, C),
         NEW D, D = C \cup (IF WriteDistrict(t) THEN Written \X {t} ELSE {})
  PROVE  NumbersInOrder(n, D)'
<1>0. /\ DOMAIN o_id = Tids /\ Drawn \subseteq Written /\ Writers \subseteq Tids /\ C \subseteq D
  BY DEF BaseInv, TypeInv, TypeOK, Drawn, Written, Tids, Writers
<1>1. \A u \in Drawn : u \in Drawn' /\ o_id'[u] = o_id[u]
  BY <1>0, StepWrittenOrder
<1>2. \A u \in Writers : u # t => pc'[u] = pc[u] /\ o_id'[u] = o_id[u]
  BY <1>0, StepOthers
<1>3. /\ d_next_o_id = n + 1 \/ \E u \in Drawn : d_next_o_id = o_id[u] + 1
      /\ \A u \in Writers : pc[u] = "write_district" =>
           o_id[u] = n + 1 \/ \E v \in Drawn : o_id[u] = o_id[v] + 1
      /\ \A u \in Drawn : o_id[u] = n + 1
           \/ \E v \in Drawn : <<v, u>> \in C /\ o_id[u] = o_id[v] + 1
  BY DEF NumbersInOrder
<1>4. d_next_o_id' = n + 1 \/ \E u \in Drawn' : d_next_o_id' = o_id'[u] + 1
  <2>1. CASE Draws(t)
    <3>1. d_next_o_id' = o_id[t] + 1 /\ o_id' = o_id /\ t \in Drawn'
      BY <2>1, StepDrawn DEF Draws, WriteDistrict, tagVars
    <3>2. QED
      BY <3>1
  <2>2. CASE WriteDistrict(t) /\ t \notin NewOrders
    <3>1. d_next_o_id' = o_id[t] /\ pc[t] = "write_district" /\ t \in Writers
      BY <2>2, Kinds DEF WriteDistrict
    <3>2. o_id[t] = n + 1 \/ \E v \in Drawn : o_id[t] = o_id[v] + 1
      BY <1>3, <3>1
    <3>3. QED
      BY <1>1, <3>1, <3>2
  <2>3. CASE ~WriteDistrict(t)
    <3>1. d_next_o_id' = d_next_o_id
      BY <2>3, StepChanges
    <3>2. QED
      BY <1>1, <1>3, <3>1
  <2>4. QED
    BY <2>1, <2>2, <2>3 DEF Draws
<1>5. ASSUME NEW u \in Writers, pc'[u] = "write_district"
      PROVE  o_id'[u] = n + 1 \/ \E v \in Drawn' : o_id'[u] = o_id'[v] + 1
  <2>1. CASE u # t
    <3>1. o_id[u] = n + 1 \/ \E v \in Drawn : o_id[u] = o_id[v] + 1
      BY <1>2, <1>3, <1>5, <2>1
    <3>2. QED
      BY <1>1, <1>2, <2>1, <3>1
  <2>2. CASE u = t
    <3>1. ReadDistrict(t)
      BY <1>5, <2>2, Moves DEF Step
    <3>2. o_id'[t] = d_next_o_id
      BY <1>0, <3>1 DEF ReadDistrict
    <3>3. QED
      BY <1>1, <1>3, <2>2, <3>2
  <2>3. QED
    BY <2>1, <2>2
<1>6. ASSUME NEW u \in Drawn'
      PROVE  o_id'[u] = n + 1 \/ \E v \in Drawn' : <<v, u>> \in D /\ o_id'[u] = o_id'[v] + 1
  <2>1. CASE u \in Drawn
    <3>1. o_id[u] = n + 1 \/ \E v \in Drawn : <<v, u>> \in C /\ o_id[u] = o_id[v] + 1
      BY <1>3, <2>1
    <3>2. QED
      BY <1>0, <1>1, <2>1, <3>1
  <2>2. CASE u \notin Drawn
    <3>1. Draws(t) /\ u = t
      BY <1>6, <2>2, StepDrawn
    <3>2. pc[t] = "write_district" /\ o_id' = o_id /\ D = C \cup (Written \X {t})
      BY <3>1 DEF Draws, WriteDistrict, tagVars
    <3>3. o_id[t] = n + 1 \/ \E v \in Drawn : o_id[t] = o_id[v] + 1
      BY <1>3, <3>1, <3>2 DEF Draws, Writers
    <3>4. QED
      BY <1>0, <1>1, <3>1, <3>2, <3>3
  <2>3. QED
    BY <2>1, <2>2
<1>7. QED
  BY <1>4, <1>5, <1>6 DEF NumbersInOrder

\* Rows do not become distinct.
LEMMA DistinctBefore ==
  ASSUME BaseInv, NEW t \in Tids, Step(t), DistinctNumbers'
  PROVE  DistinctNumbers
<1>1. \A i \in DOMAIN rows : i \in DOMAIN rows' /\ rows'[i].o_id = rows[i].o_id
  BY RowsGrow
<1>2. QED
  BY <1>1 DEF DistinctNumbers

\* Who pushes a row comes after those that drew a smaller number: the number
\* of the row is the next one, or the number of a row that is there.
LEMMA StepRowsInOrder ==
  ASSUME BaseInv, NEW t \in Tids, Step(t), NEW n \in Nat, NEW C, WrittenInOrder(C),
         NumbersInOrder(n, C), RowsInOrder(n)
  PROVE  RowsInOrder(n)'
<1>0. /\ rows \in Seq(Row) /\ rows' \in Seq(Row) /\ Len(rows) \in Nat /\ Len(rows') \in Nat
      /\ Len(rows') = Len(rows) \/ Len(rows') = Len(rows) + 1
      /\ DOMAIN rows = 1..Len(rows) /\ DOMAIN rows' = 1..Len(rows')
      /\ \A i \in DOMAIN rows : i \in DOMAIN rows' /\ rows'[i].o_id = rows[i].o_id
  BY RowsGrow
<1>1. PushRow(t) =>
        /\ t \in NewOrders /\ rank[t] = 3 /\ piece[t] = 3 /\ t \in Drawn /\ o_id'[t] = o_id[t]
        /\ Len(rows') = Len(rows) + 1 /\ rows'[Len(rows')].o_id = o_id[t]
  <2>1. SUFFICES ASSUME PushRow(t)
                 PROVE  /\ t \in NewOrders /\ rank[t] = 3 /\ piece[t] = 3 /\ t \in Drawn
                        /\ o_id'[t] = o_id[t] /\ Len(rows') = Len(rows) + 1
                        /\ rows'[Len(rows')].o_id = o_id[t]
    OBVIOUS
  <2>2. t \in NewOrders /\ rank[t] = 3 /\ piece[t] = 3
    BY <2>1, Kinds, Moves DEF NewOrderInv
  <2>3. rows' = Append(rows, [o_id |-> o_id[t], owner |-> 0, info |-> t]) /\ o_id' = o_id
    BY <2>1 DEF PushRow, tagVars
  <2>4. Len(rows') = Len(rows) + 1
        /\ rows'[Len(rows) + 1] = [o_id |-> o_id[t], owner |-> 0, info |-> t]
    BY <1>0, <2>3
  <2>5. QED
    BY <2>2, <2>3, <2>4 DEF Drawn
<1>2. n <= Len(rows')
  <2>1. n <= Len(rows)
    BY DEF RowsInOrder
  <2>2. \A k, l \in Nat : n <= k /\ (l = k \/ l = k + 1) => n <= l
    OBVIOUS
  <2>3. QED
    BY <1>0, <2>1, <2>2
<1>3. ASSUME NEW u \in NewOrders,
             piece'[u] > 3 \/ pc'[u] \in {"insert_index", "update_wd_index", "unlock_push"}
      PROVE  \E i \in DOMAIN rows' : rows'[i].o_id = o_id'[u]
  <2>0. u \in Tids /\ piece[u] \in 1..6 /\ DOMAIN piece = Tids /\ NewOrderInv(u)
    BY DEF Tids, Writers, BaseInv, TypeInv, TypeOK
  <2>1. ASSUME piece[u] > 3 \/ pc[u] \in {"insert_index", "update_wd_index", "unlock_push"}
        PROVE  \E i \in DOMAIN rows' : rows'[i].o_id = o_id'[u]
    <3>1. u \in Drawn /\ u \in Written
      BY <2>0, <2>1 DEF NewOrderInv, Drawn, Written, Writers
    <3>2. o_id'[u] = o_id[u]
      BY <3>1, StepWrittenOrder
    <3>3. \E i \in DOMAIN rows : rows[i].o_id = o_id[u]
      BY <2>1 DEF RowsInOrder
    <3>4. QED
      BY <1>0, <3>2, <3>3
  <2>2. CASE u # t
    <3>1. piece'[u] = piece[u] /\ pc'[u] = pc[u]
      BY <2>0, <2>2, StepOthers
    <3>2. QED
      BY <1>3, <2>1, <3>1
  <2>3. CASE u = t
    <3>1. CASE pc'[t] \in {"insert_index", "update_wd_index", "unlock_push"}
      <4>1. PushRow(t) \/ InsertIndex(t) \/ UpdateWdIndex(t)
        BY <3>1, Moves DEF Step
      <4>2. CASE PushRow(t)
        <5>0. \A k \in Nat : k + 1 \in 1..(k + 1)
          OBVIOUS
        <5>1. Len(rows') \in DOMAIN rows'
          BY <1>0, <1>1, <4>2, <5>0
        <5>2. QED
          BY <1>1, <2>3, <4>2, <5>1
      <4>3. CASE InsertIndex(t) \/ UpdateWdIndex(t)
        BY <2>1, <2>3, <4>3, Moves
      <4>4. QED
        BY <4>1, <4>2, <4>3
    <3>2. CASE piece'[t] > 3 /\ ~(piece[t] > 3)
      <4>1. piece'[t] = piece[t] + 1 /\ piece[t] = 3 /\ pc'[t] = "wait"
        BY <2>0, <2>3, <3>2, StepPiece
      <4>2. CASE pc[t] = "run"
        <5>1. rank[t] = 3
          BY <2>0, <2>3, <4>1, <4>2 DEF NewOrderInv
        <5>2. /\ ~RunElsewhere(t) /\ ~RetrieveMin(t) /\ ~NothingQueued(t) /\ ~Deliver(t)
              /\ ~PassDistrict(t) /\ ~AbortPayment(t)
          BY <2>0, <2>3, <5>1, Kinds
          DEF RunElsewhere, RetrieveMin, NothingQueued, Deliver, PassDistrict, AbortPayment, Writers
        <5>3. QED
          BY <4>1, <4>2, <5>2, Moves DEF Step
      <4>3. CASE pc[t] # "run"
        <5>1. WriteDistrict(t) \/ UnlockPush(t) \/ InsertOrder(t) \/ UnlockBucket(t)
          BY <4>1, <4>3, Moves DEF Step
        <5>2. UnlockPush(t)
          BY <2>0, <2>3, <4>1, <5>1, Kinds, Moves DEF NewOrderInv
        <5>3. QED
          BY <2>1, <2>3, <5>2, Moves
      <4>4. QED
        BY <4>2, <4>3
    <3>3. CASE piece[t] > 3
      BY <2>1, <2>3, <3>3
    <3>4. QED
      BY <1>3, <2>3, <3>1, <3>2, <3>3
  <2>4. QED
    BY <2>2, <2>3
<1>4. ASSUME DistinctNumbers', hidden' = {}, NEW i \in DOMAIN rows'
      PROVE  rows'[i].o_id = i
  <2>0. hidden = {}
    BY <1>4, StepChanges DEF PassDistrict
  <2>1. \A j \in DOMAIN rows : rows[j].o_id = j
    BY <1>4, <2>0, DistinctBefore DEF RowsInOrder
  <2>2. CASE i \in DOMAIN rows
    BY <1>0, <2>1, <2>2
  <2>3. CASE i \notin DOMAIN rows
    <3>1. PushRow(t) /\ i = Len(rows')
      <4>1. Len(rows') # Len(rows)
        BY <1>0, <1>4, <2>3
      <4>2. PushRow(t)
        BY <4>1, RowsGrow
      <4>3. i \in 1..(Len(rows) + 1) /\ i \notin 1..Len(rows)
        BY <1>0, <1>1, <1>4, <2>3, <4>2
      <4>4. \A k \in Nat : \A l \in 1..(k + 1) : l \notin 1..k => l = k + 1
        OBVIOUS
      <4>5. QED
        BY <1>0, <1>1, <4>2, <4>3, <4>4
    <3>2. o_id[t] \in 1..MaxOrder /\ MaxOrder \in Nat
      <4>1. MaxOrder \in Nat
        BY OrdersAssumption, DrawnBounds DEF MaxOrder
      <4>2. QED
        BY <1>1, <3>1, <4>1, DrawnNumbers
    <3>3. o_id[t] <= Len(rows) + 1
      <4>1. o_id[t] = n + 1 \/ \E u \in Drawn : <<u, t>> \in C /\ o_id[t] = o_id[u] + 1
        BY <1>1, <3>1 DEF NumbersInOrder
      <4>2. CASE o_id[t] = n + 1
        <5>1. n <= Len(rows)
          BY DEF RowsInOrder
        <5>2. \A k \in Nat : n <= k => n + 1 <= k + 1
          OBVIOUS
        <5>3. QED
          BY <1>0, <4>2, <5>1, <5>2
      <4>3. ASSUME NEW u \in Drawn, <<u, t>> \in C, o_id[t] = o_id[u] + 1
            PROVE  o_id[t] <= Len(rows) + 1
        <5>1. piece[u] > 3 /\ u \in NewOrders
          <6>1. u \in NewOrders /\ u \in Tids /\ NewOrderInv(u)
            BY <4>3, Kinds DEF Drawn, Tids, Writers
          <6>2. piece[u] \in 1..6 /\ rank[u] \in 0..6
            BY <6>1 DEF BaseInv, TypeInv, TypeOK
          <6>3. Passed(u)
            BY <1>1, <2>0, <3>1, <4>3 DEF WrittenInOrder
          <6>4. QED
            BY <6>1, <6>2, <6>3 DEF Passed, NewOrderInv
        <5>2. PICK j \in DOMAIN rows : rows[j].o_id = o_id[u]
          BY <5>1 DEF RowsInOrder
        <5>3. o_id[u] = j
          BY <2>1, <5>2
        <5>4. \A k \in Nat : \A l \in 1..k : l + 1 <= k + 1
          OBVIOUS
        <5>5. QED
          BY <1>0, <4>3, <5>3, <5>4
      <4>4. QED
        BY <4>1, <4>2, <4>3
    <3>4. o_id[t] \notin 1..Len(rows)
      <4>1. SUFFICES ASSUME o_id[t] \in DOMAIN rows
                     PROVE  FALSE
        BY <1>0
      <4>2. rows'[o_id[t]].o_id = o_id[t] /\ o_id[t] \in DOMAIN rows'
        BY <1>0, <2>1, <4>1
      <4>3. rows'[i].o_id = o_id[t] /\ i # o_id[t]
        BY <1>1, <2>3, <3>1, <4>1
      <4>4. QED
        BY <1>4, <4>2, <4>3 DEF DistinctNumbers
    <3>5. \A k \in Nat : \A l \in 1..MaxOrder : l <= k + 1 /\ l \notin 1..k => l = k + 1
      BY <3>2
    <3>6. o_id[t] = Len(rows) + 1
      BY <1>0, <3>2, <3>3, <3>4, <3>5
    <3>7. QED
      BY <1>1, <3>1, <3>6
  <2>4. QED
    BY <2>2, <2>3
<1>5. QED
  BY <1>2, <1>3, <1>4 DEF RowsInOrder

\* What is in the deque after a removal was there before, in the same order, at
\* other places than the one that was removed.
LEMMA LeftOutIsGone ==
  ASSUME BaseInv, NEW t \in Tids, DeleteIndex(t), Queued(o_id[t])
  PROVE  /\ wd_index \in Seq(1..MaxOrder) /\ wd_index' \in Seq(1..MaxOrder)
         /\ t \in Deliveries /\ pc[t] = "delete_index" /\ index' = index /\ o_id' = o_id
         /\ \E old \in [DOMAIN wd_index' -> DOMAIN wd_index] :
              /\ \A k \in DOMAIN wd_index' : wd_index'[k] = wd_index[old[k]]
              /\ \A i, j \in DOMAIN wd_index' : i < j => old[i] < old[j]
              /\ \E i0 \in DOMAIN wd_index :
                   wd_index[i0] = o_id[t] /\ \A k \in DOMAIN wd_index' : old[k] # i0
<1>1. t \in Deliveries /\ pc[t] = "delete_index" /\ wd_index' = Without(wd_index, o_id[t])
      /\ index' = index /\ o_id' = o_id
  BY Kinds, Moves DEF DeleteIndex, tagVars
<1>2. wd_index \in Seq(1..MaxOrder) /\ DOMAIN wd_index = 1..Len(wd_index) /\ Len(wd_index) \in Nat
  BY DEF BaseInv, TypeInv, TypeOK
<1>3. wd_index' \in Seq(1..MaxOrder) /\ Len(wd_index') = Len(wd_index) - 1
      /\ FirstLeftOut(wd_index, o_id[t], wd_index')
  BY <1>1, <1>2, WithoutFirst DEF Queued
<1>4. DOMAIN wd_index' = 1..(Len(wd_index) - 1)
  BY <1>3
<1>5. PICK i0 \in 1..Len(wd_index) :
        /\ wd_index[i0] = o_id[t]
        /\ \A k \in 1..(Len(wd_index) - 1) :
             wd_index'[k] = IF k < i0 THEN wd_index[k] ELSE wd_index[k + 1]
  BY <1>3 DEF FirstLeftOut
<1> DEFINE Old(k) == IF k < i0 THEN k ELSE k + 1
<1>6. \A k \in DOMAIN wd_index' :
        Old(k) \in DOMAIN wd_index /\ Old(k) # i0 /\ wd_index'[k] = wd_index[Old(k)]
  <2>1. \A m \in Nat : \A l \in 1..m : \A k \in 1..(m - 1) :
          (k < l => k \in 1..m) /\ (~(k < l) => k + 1 \in 1..m /\ k + 1 # l)
    OBVIOUS
  <2>2. QED
    BY <1>2, <1>4, <1>5, <2>1
<1>7. \A i, j \in DOMAIN wd_index' : i < j => Old(i) < Old(j)
  <2>1. \A m \in Nat : \A l \in 1..m : \A i, j \in 1..(m - 1) :
          i < j => (IF i < l THEN i ELSE i + 1) < (IF j < l THEN j ELSE j + 1)
    OBVIOUS
  <2>2. QED
    BY <1>2, <1>4, <2>1
<1> HIDE DEF Old
<1>8. [k \in DOMAIN wd_index' |-> Old(k)] \in [DOMAIN wd_index' -> DOMAIN wd_index]
  BY <1>6
<1>9. QED
  BY <1>1, <1>2, <1>3, <1>5, <1>6, <1>7, <1>8

\* A number leaves the index after it has left the deque, and none is queued
\* twice.
LEMMA StepWdInv ==
  ASSUME BaseInv, NEW t \in Tids, Step(t), WdInv
  PROVE  WdInv'
<1> SUFFICES ASSUME DistinctNumbers' PROVE WdInv'
  BY DEF WdInv
<1>0. /\ rows \in Seq(Row) /\ rows' \in Seq(Row) /\ Len(rows) \in Nat /\ DOMAIN rows = 1..Len(rows)
      /\ \A i \in DOMAIN rows : i \in DOMAIN rows' /\ rows'[i].o_id = rows[i].o_id
  BY RowsGrow
<1>1. /\ \A i, j \in DOMAIN wd_index : i # j => wd_index[i] # wd_index[j]
      /\ \A i \in DOMAIN wd_index : \E e \in index : e[1] = wd_index[i]
      /\ \A u \in NewOrders : pc[u] \in {"insert_index", "update_wd_index"} => ~Queued(o_id[u])
      /\ \A u \in NewOrders : pc[u] = "update_wd_index" => \E e \in index : e[1] = o_id[u]
      /\ \A u \in Deliveries : pc[u] = "remove_index" => ~Queued(o_id[u])
  BY DistinctBefore DEF WdInv
<1>2. wd_index \in Seq(1..MaxOrder) /\ DOMAIN wd_index = 1..Len(wd_index) /\ Len(wd_index) \in Nat
  BY DEF BaseInv, TypeInv, TypeOK
<1>3. ASSUME NEW u \in Tids, u # t
      PROVE  /\ pc'[u] = pc[u] /\ o_id'[u] = o_id[u] /\ ~(pc[t] \in Holding /\ pc[u] \in Holding)
  BY <1>3, StepOthers DEF BaseInv, LockInv
<1>4. /\ \A u \in NewOrders : u \in Tids /\ u \notin Deliveries
      /\ \A u \in Deliveries : u \in Tids /\ u \notin NewOrders
  BY Kinds DEF Tids, Writers
<1>5. CASE UpdateWdIndex(t)
  <2>1. t \in NewOrders /\ pc[t] = "update_wd_index" /\ pc'[t] = "unlock_push"
    BY <1>5, Kinds, Moves
  <2>2. wd_index' = Append(wd_index, o_id[t]) /\ index' = index
    BY <1>5 DEF UpdateWdIndex
  <2>3. \A u \in Tids : u # t => pc'[u] \notin Holding
    BY <1>3, <2>1 DEF Holding
  <2>4. DOMAIN wd_index' = 1..(Len(wd_index) + 1)
        /\ \A i \in 1..Len(wd_index) : wd_index'[i] = wd_index[i]
        /\ wd_index'[Len(wd_index) + 1] = o_id[t]
    BY <1>2, <2>2
  <2>5. \A i \in DOMAIN wd_index : wd_index[i] # o_id[t]
    BY <1>1, <2>1 DEF Queued
  <2>6. \A i \in DOMAIN wd_index' : i \in 1..Len(wd_index) \/ i = Len(wd_index) + 1
    <3>1. \A k \in Nat : \A l \in 1..(k + 1) : l \in 1..k \/ l = k + 1
      OBVIOUS
    <3>2. QED
      BY <1>2, <2>4, <3>1
  <2>7. \A i, j \in DOMAIN wd_index' : i # j => wd_index'[i] # wd_index'[j]
    BY <1>1, <1>2, <2>4, <2>5, <2>6
  <2>8. \A i \in DOMAIN wd_index' : \E e \in index' : e[1] = wd_index'[i]
    BY <1>1, <1>2, <2>1, <2>2, <2>4, <2>6
  <2>9. QED
    BY <1>4, <2>1, <2>3, <2>7, <2>8 DEF WdInv, Holding
<1>6. CASE DeleteIndex(t) /\ Queued(o_id[t])
  <2>1. PICK old \in [DOMAIN wd_index' -> DOMAIN wd_index] :
          /\ \A k \in DOMAIN wd_index' : wd_index'[k] = wd_index[old[k]]
          /\ \A i, j \in DOMAIN wd_index' : i < j => old[i] < old[j]
          /\ \E i0 \in DOMAIN wd_index :
               wd_index[i0] = o_id[t] /\ \A k \in DOMAIN wd_index' : old[k] # i0
    BY <1>6, LeftOutIsGone
  <2>2. t \in Deliveries /\ pc[t] = "delete_index" /\ index' = index /\ o_id' = o_id
        /\ wd_index' \in Seq(1..MaxOrder)
    BY <1>6, LeftOutIsGone
  <2>3. \A u \in Tids : u # t => pc'[u] \notin Holding
    BY <1>3, <2>2 DEF Holding
  <2>4. \A i, j \in DOMAIN wd_index' : i # j => old[i] # old[j]
    <3>1. \A k \in DOMAIN wd_index' : k \in Nat /\ old[k] \in Nat
      BY <1>2, <2>2
    <3>2. \A i, j \in Nat : i # j => i < j \/ j < i
      OBVIOUS
    <3>3. QED
      BY <2>1, <3>1, <3>2
  <2>5. \A i, j \in DOMAIN wd_index' : i # j => wd_index'[i] # wd_index'[j]
    BY <1>1, <2>1, <2>4
  <2>6. \A i \in DOMAIN wd_index' : \E e \in index' : e[1] = wd_index'[i]
    BY <1>1, <2>1, <2>2
  <2>7. ~Queued(o_id[t])'
    BY <1>1, <2>1, <2>2 DEF Queued
  <2>8. \A u \in Deliveries : pc'[u] = "remove_index" => ~Queued(o_id[u])'
    BY <1>4, <2>3, <2>7 DEF Holding
  <2>9. \A u \in NewOrders : pc'[u] \notin {"insert_index", "update_wd_index"}
    BY <1>4, <2>2, <2>3 DEF Holding
  <2>10. QED
    BY <2>5, <2>6, <2>8, <2>9 DEF WdInv
<1>7. CASE ~UpdateWdIndex(t) /\ ~(DeleteIndex(t) /\ Queued(o_id[t]))
  <2>1. wd_index' = wd_index
    BY <1>7, StepChanges DEF DeleteIndex
  <2>2. ASSUME NEW i \in DOMAIN wd_index
        PROVE  \E e \in index' : e[1] = wd_index[i]
    <3>1. PICK e \in index : e[1] = wd_index[i]
      BY <1>1
    <3>2. CASE InsertIndex(t)
      <4>1. index' = {f \in index : f[1] # o_id[t]} \cup {<<o_id[t], Len(rows)>>}
        BY <3>2 DEF InsertIndex
      <4>2. e[1] # o_id[t]
        BY <1>1, <3>1, <3>2, Kinds, Moves DEF Queued
      <4>3. QED
        BY <3>1, <4>1, <4>2
    <3>3. CASE RemoveIndex(t)
      <4>1. e[1] # o_id[t]
        BY <1>1, <3>1, <3>3, Kinds, Moves DEF Queued
      <4>2. QED
        BY <3>1, <3>3, <4>1 DEF RemoveIndex
    <3>4. QED
      BY <3>1, <3>2, <3>3, StepChanges
  <2>3. ASSUME NEW u \in NewOrders, pc'[u] \in {"insert_index", "update_wd_index"}
        PROVE  ~Queued(o_id[u])'
    <3>1. CASE u # t
      BY <1>1, <1>3, <1>4, <2>1, <2>3, <3>1 DEF Queued
    <3>2. CASE u = t /\ PushRow(t)
      <4>1. o_id' = o_id /\ rows' = Append(rows, [o_id |-> o_id[t], owner |-> 0, info |-> t])
        BY <3>2 DEF PushRow, tagVars
      <4>2. /\ Len(rows) + 1 \in DOMAIN rows' /\ Len(rows) + 1 \notin DOMAIN rows
            /\ rows'[Len(rows) + 1] = [o_id |-> o_id[t], owner |-> 0, info |-> t]
        <5>1. \A k \in Nat : k + 1 \in 1..(k + 1) /\ k + 1 \notin 1..k
          OBVIOUS
        <5>2. DOMAIN rows' = 1..(Len(rows) + 1)
          BY <1>0, <4>1
        <5>3. rows'[Len(rows) + 1] = [o_id |-> o_id[t], owner |-> 0, info |-> t]
          BY <1>0, <4>1
        <5>4. QED
          BY <1>0, <5>1, <5>2, <5>3
      <4>3. \A i \in DOMAIN rows : rows[i].o_id # o_id[t]
        <5>1. rows'[Len(rows) + 1].o_id = o_id[t]
          BY <4>2
        <5>2. QED
          BY <1>0, <4>2, <5>1 DEF DistinctNumbers
      <4>4. \A e \in index : e[1] # o_id[t]
        <5>1. \A e \in index : e[2] \in DOMAIN rows
          BY <1>0 DEF BaseInv, TypeInv, TypeOK
        <5>2. QED
          BY <4>3, <5>1 DEF BaseInv, RowsInv
      <4>5. QED
        BY <1>1, <2>1, <3>2, <4>1, <4>4 DEF Queued
    <3>3. CASE u = t /\ ~PushRow(t)
      <4>1. InsertIndex(t)
        BY <1>7, <2>3, <3>3, Moves DEF Step
      <4>2. pc[t] = "insert_index" /\ o_id' = o_id
        BY <4>1 DEF InsertIndex, tagVars
      <4>3. QED
        BY <1>1, <2>1, <3>3, <4>2 DEF Queued
    <3>4. QED
      BY <3>1, <3>2, <3>3
  <2>4. ASSUME NEW u \in NewOrders, pc'[u] = "update_wd_index"
        PROVE  \E e \in index' : e[1] = o_id'[u]
    <3>1. CASE u = t
      <4>1. InsertIndex(t)
        BY <2>4, <3>1, Moves DEF Step
      <4>2. <<o_id[t], Len(rows)>> \in index' /\ o_id' = o_id
        BY <4>1 DEF InsertIndex, tagVars
      <4>3. QED
        BY <3>1, <4>2
    <3>2. CASE u # t
      <4>1. pc[u] = "update_wd_index" /\ o_id'[u] = o_id[u] /\ pc[t] \notin Holding
        BY <1>3, <1>4, <2>4, <3>2 DEF Holding
      <4>2. index' = index
        BY <4>1, StepChanges, Moves DEF Holding
      <4>3. QED
        BY <1>1, <4>1, <4>2
    <3>3. QED
      BY <3>1, <3>2
  <2>5. ASSUME NEW u \in Deliveries, pc'[u] = "remove_index"
        PROVE  ~Queued(o_id[u])'
    <3>1. CASE u = t
      <4>1. DeleteIndex(t)
        BY <2>5, <3>1, Moves DEF Step
      <4>2. pc'[t] = "set_info"
        <5>1. DOMAIN pc = Tids
          BY DEF BaseInv, TypeInv
        <5>2. QED
          BY <1>7, <4>1, <5>1 DEF DeleteIndex, Goto
      <4>3. QED
        BY <2>5, <3>1, <4>2
    <3>2. CASE u # t
      BY <1>1, <1>3, <1>4, <2>1, <2>5, <3>2 DEF Queued
    <3>3. QED
      BY <3>1, <3>2
  <2>6. QED
    BY <1>1, <2>1, <2>2, <2>3, <2>4, <2>5 DEF WdInv
<1>8. QED
  BY <1>5, <1>6, <1>7

\* The number that is queued is the greatest.
LEMMA StepWdSorted ==
  ASSUME BaseInv, NEW t \in Tids, Step(t), NEW n \in Nat, RowsInOrder(n), WdInv, WdSorted
  PROVE  WdSorted'
<1> SUFFICES ASSUME DistinctNumbers', hidden' = {} PROVE WdSorted'
  BY DEF WdSorted
<1>0. /\ rows \in Seq(Row) /\ rows' \in Seq(Row) /\ Len(rows) \in Nat /\ Len(rows') \in Nat
      /\ DOMAIN rows = 1..Len(rows)
      /\ Len(rows') = Len(rows) \/ (PushRow(t) /\ Len(rows') = Len(rows) + 1)
  BY RowsGrow
<1>00. hidden = {}
  BY StepChanges DEF PassDistrict
<1>1. /\ DistinctNumbers /\ \A i \in DOMAIN rows : rows[i].o_id = i
      /\ \A i, j \in DOMAIN wd_index : i < j => wd_index[i] < wd_index[j]
      /\ \A i \in DOMAIN wd_index : \E e \in index : e[1] = wd_index[i]
      /\ \A u \in NewOrders : pc[u] \in {"insert_index", "update_wd_index"} =>
           \A i \in DOMAIN wd_index : wd_index[i] < Len(rows)
  BY <1>00, DistinctBefore DEF RowsInOrder, WdInv, WdSorted
<1>2. wd_index \in Seq(1..MaxOrder) /\ DOMAIN wd_index = 1..Len(wd_index)
      /\ Len(wd_index) \in Nat /\ \A i \in DOMAIN wd_index : wd_index[i] \in Nat
  <2>1. wd_index \in Seq(1..MaxOrder)
    BY DEF BaseInv, TypeInv, TypeOK
  <2>2. DOMAIN wd_index = 1..Len(wd_index) /\ Len(wd_index) \in Nat
    BY <2>1
  <2>3. \A i \in DOMAIN wd_index : wd_index[i] \in 1..MaxOrder
    BY <2>1, <2>2, ElementOfSeq
  <2>4. MaxOrder \in Nat
    BY OrdersAssumption, DrawnBounds DEF MaxOrder
  <2>5. QED
    BY <2>1, <2>2, <2>3, <2>4
<1>3. ASSUME NEW u \in Tids, u # t
      PROVE  pc'[u] = pc[u] /\ ~(pc[t] \in Holding /\ pc[u] \in Holding)
  BY <1>3, StepOthers DEF BaseInv, LockInv
<1>4. \A u \in NewOrders : u \in Tids
  BY DEF Tids, Writers
<1>5. \A e \in index : e[1] <= Len(rows)
  <2>1. ASSUME NEW e \in index
        PROVE  e[1] <= Len(rows)
    <3>1. e[2] \in DOMAIN rows /\ rows[e[2]].o_id = e[1]
      BY <1>0, <2>1 DEF BaseInv, TypeInv, TypeOK, RowsInv
    <3>2. e[2] \in 1..Len(rows) /\ e[1] = e[2]
      BY <1>0, <1>1, <3>1
    <3>3. \A k \in Nat : \A l \in 1..k : l <= k
      OBVIOUS
    <3>4. QED
      BY <1>0, <3>2, <3>3
  <2>2. QED
    BY <2>1
<1>6. CASE UpdateWdIndex(t)
  <2>1. t \in NewOrders /\ pc[t] = "update_wd_index" /\ pc'[t] = "unlock_push"
    BY <1>6, Kinds, Moves
  <2>2. wd_index' = Append(wd_index, o_id[t])
    BY <1>6 DEF UpdateWdIndex
  <2>3. o_id[t] = Len(rows)
    <3>1. Len(rows) # 0 /\ rows[Len(rows)].o_id = o_id[t]
      BY <2>1 DEF BaseInv, RowsInv
    <3>2. \A k \in Nat : k # 0 => k \in 1..k
      OBVIOUS
    <3>3. Len(rows) \in DOMAIN rows
      BY <1>0, <3>1, <3>2
    <3>4. QED
      BY <1>1, <3>1, <3>3
  <2>4. \A i \in DOMAIN wd_index : wd_index[i] < o_id[t]
    BY <1>1, <2>1, <2>3
  <2>5. \A u \in Tids : u # t => pc'[u] \notin Holding
    BY <1>3, <2>1 DEF Holding
  <2>6. DOMAIN wd_index' = 1..(Len(wd_index) + 1)
        /\ \A i \in 1..Len(wd_index) : wd_index'[i] = wd_index[i]
        /\ wd_index'[Len(wd_index) + 1] = o_id[t]
    BY <1>2, <2>2
  <2>7. ASSUME NEW i \in DOMAIN wd_index', NEW j \in DOMAIN wd_index', i < j
        PROVE  wd_index'[i] < wd_index'[j]
    <3>1. \A k \in Nat : \A l, m \in 1..(k + 1) : l < m => l \in 1..k /\ (m \in 1..k \/ m = k + 1)
      OBVIOUS
    <3>2. i \in 1..Len(wd_index) /\ (j \in 1..Len(wd_index) \/ j = Len(wd_index) + 1)
      BY <1>2, <2>6, <2>7, <3>1
    <3>3. CASE j \in 1..Len(wd_index)
      <4>1. wd_index[i] < wd_index[j]
        BY <1>1, <1>2, <2>7, <3>2, <3>3
      <4>2. QED
        BY <2>6, <3>2, <3>3, <4>1
    <3>4. CASE j = Len(wd_index) + 1
      <4>1. wd_index[i] < o_id[t]
        BY <1>2, <2>4, <3>2
      <4>2. QED
        BY <2>6, <3>2, <3>4, <4>1
    <3>5. QED
      BY <3>2, <3>3, <3>4
  <2>8. QED
    BY <1>4, <2>1, <2>5, <2>7 DEF WdSorted, Holding
<1>7. CASE DeleteIndex(t) /\ Queued(o_id[t])
  <2>1. PICK old \in [DOMAIN wd_index' -> DOMAIN wd_index] :
          /\ \A k \in DOMAIN wd_index' : wd_index'[k] = wd_index[old[k]]
          /\ \A i, j \in DOMAIN wd_index' : i < j => old[i] < old[j]
    BY <1>7, LeftOutIsGone
  <2>2. pc[t] = "delete_index" /\ t \in Deliveries
    BY <1>7, LeftOutIsGone
  <2>3. \A i, j \in DOMAIN wd_index' : i < j => wd_index'[i] < wd_index'[j]
    BY <1>1, <2>1
  <2>4. \A u \in NewOrders : pc'[u] \notin {"insert_index", "update_wd_index"}
    BY <1>3, <1>4, <2>2, Kinds DEF Holding
  <2>5. QED
    BY <2>3, <2>4 DEF WdSorted
<1>8. CASE ~UpdateWdIndex(t) /\ ~(DeleteIndex(t) /\ Queued(o_id[t]))
  <2>1. wd_index' = wd_index
    BY <1>8, StepChanges DEF DeleteIndex
  <2>2. ASSUME NEW u \in NewOrders, pc'[u] \in {"insert_index", "update_wd_index"},
               NEW i \in DOMAIN wd_index
        PROVE  wd_index[i] < Len(rows')
    <3>1. CASE PushRow(t)
      <4>1. wd_index[i] <= Len(rows)
        BY <1>1, <1>5
      <4>2. Len(rows') = Len(rows) + 1
        <5>1. rows' = Append(rows, [o_id |-> o_id[t], owner |-> 0, info |-> t])
          BY <3>1 DEF PushRow
        <5>2. \A r : Len(Append(rows, r)) = Len(rows) + 1
          BY <1>0
        <5>3. QED
          BY <5>1, <5>2
      <4>3. \A k, l \in Nat : k <= l => k < l + 1
        OBVIOUS
      <4>4. QED
        BY <1>0, <1>2, <4>1, <4>2, <4>3
    <3>2. CASE ~PushRow(t)
      <4>1. pc[u] \in {"insert_index", "update_wd_index"}
        <5>1. CASE u = t
          <6>1. InsertIndex(t)
            BY <2>2, <3>2, <5>1, Moves DEF Step
          <6>2. QED
            BY <5>1, <6>1, Moves
        <5>2. CASE u # t
          BY <1>3, <1>4, <2>2, <5>2
        <5>3. QED
          BY <5>1, <5>2
      <4>2. QED
        BY <1>0, <1>1, <3>2, <4>1
    <3>3. QED
      BY <3>1, <3>2
  <2>3. QED
    BY <1>1, <2>1, <2>2 DEF WdSorted
<1>9. QED
  BY <1>6, <1>7, <1>8

\* When nothing changes.
LEMMA StutterQueue ==
  ASSUME NEW n, NEW C, QueueInv(n, C), UNCHANGED vars
  PROVE  QueueInv(n, C)'
<1> USE DEF vars, queueVars, tableVars, infoVars, tagVars, historyVars
<1>1. /\ Drawn' = Drawn /\ Written' = Written /\ (DistinctNumbers' <=> DistinctNumbers)
      /\ \A u : Passed(u)' <=> Passed(u)
  BY DEF Drawn, Written, Passed, DistinctNumbers
<1>2. WrittenInOrder(C)'
  BY <1>1 DEF QueueInv, WrittenInOrder
<1>3. NumbersInOrder(n, C)'
  BY <1>1 DEF QueueInv, NumbersInOrder
<1>4. RowsInOrder(n)'
  BY <1>1 DEF QueueInv, RowsInOrder
<1>5. WdInv' /\ WdSorted'
  BY <1>1 DEF QueueInv, WdInv, WdSorted, Queued
<1>6. QED
  BY <1>2, <1>3, <1>4, <1>5 DEF QueueInv

\* Some n and C are as QueueInv says.
QueueOrdered == \E n \in Nat, C \in SUBSET (Writers \X Writers) : QueueInv(n, C)

\* The third layer.
LEMMA QueueOrderedAlways == Spec => [](BaseInv /\ QueueOrdered)
<1>1. Init => QueueOrdered
  BY InitQueue DEF QueueOrdered
<1>2. BaseInv /\ QueueOrdered /\ [Next]_vars => QueueOrdered'
  <2>1. SUFFICES ASSUME BaseInv, QueueOrdered, [Next]_vars
                 PROVE  QueueOrdered'
    OBVIOUS
  <2>2. PICK n \in Nat, C \in SUBSET (Writers \X Writers) : QueueInv(n, C)
    BY <2>1 DEF QueueOrdered
  <2>3. ASSUME NEW t \in Tids, Step(t)
        PROVE  QueueOrdered'
    <3>1. PICK D : D = C \cup (IF WriteDistrict(t) THEN Written \X {t} ELSE {})
      OBVIOUS
    <3>2. D \in SUBSET (Writers \X Writers)
      BY <2>1, <2>3, <3>1, StepWritten DEF Written
    <3>3. WrittenInOrder(C) /\ NumbersInOrder(n, C) /\ RowsInOrder(n) /\ WdInv /\ WdSorted
      BY <2>2 DEF QueueInv
    <3>4. WrittenInOrder(D)' /\ NumbersInOrder(n, D)'
      BY <2>1, <2>3, <3>1, <3>3, StepWrittenInOrder, StepNumbersInOrder
    <3>5. RowsInOrder(n)' /\ WdInv' /\ WdSorted'
      BY <2>1, <2>3, <3>3, StepRowsInOrder, StepWdInv, StepWdSorted
    <3>6. QED
      BY <3>2, <3>4, <3>5 DEF QueueOrdered, QueueInv
  <2>4. ASSUME UNCHANGED vars
        PROVE  QueueOrdered'
    BY <2>2, <2>4, StutterQueue DEF QueueOrdered
  <2>5. QED
    BY <2>1, <2>3, <2>4 DEF Next, Terminated
<1>3. QED
  BY <1>1, <1>2, BaseInvHolds, PTL DEF Spec

\* The deque of a district leads to the rows of its entries as long as the
\* numbers that were drawn are distinct, and is sorted as long as no stock-level
\* has hidden a writer of the district from the next.
THEOREM QueueInOrderHolds == Spec => []QueueInOrder
<1>1. ASSUME BaseInv, QueueOrdered
      PROVE  QueueInOrder
  <2>1. WdInv /\ WdSorted
    BY <1>1 DEF QueueOrdered, QueueInv
  <2>2. \A e \in index : rows[e[2]].o_id = e[1]
    BY <1>1 DEF BaseInv, RowsInv
  <2>3. QED
    BY <2>1, <2>2 DEF WdInv, WdSorted, QueueInOrder
<1>2. QED
  BY QueueOrderedAlways, <1>1, PTL

-----------------------------------------------------------------------------

\* The deliveries that took a row of order o,
Takers(F, o) == F[o] \cap Deliveries

\* and the last of them.
LastTaker(F, B, o, t) == t \in Takers(F, o) /\ \A u \in Takers(F, o) : u = t \/ <<u, t>> \in B

\* B relates deliveries that took a row of one order, the earlier to the later.
\* An order that was taken has a row, and who delivers it has taken it.
TakersInv(F, B) ==
  /\ \A p \in B : \E o \in 1..MaxOrder : p[1] \in Takers(F, o) /\ p[2] \in Takers(F, o)
  /\ \A o \in 1..MaxOrder : Takers(F, o) # {} => \E r \in DOMAIN rows : rows[r].o_id = o
  /\ \A o \in 1..MaxOrder : \A i \in DOMAIN carriers[o] :
       /\ carriers[o][i] \in Deliveries /\ piece[carriers[o][i]] = 3
       /\ carriers[o][i] \in retried \/ carriers[o][i] \in Takers(F, o)

\* They took it one after another, and each waits for the one before, unless
\* that has committed.
WaitInv(F, B) ==
  /\ \A o \in 1..MaxOrder : \A u, t \in Takers(F, o) :
       u = t \/ <<u, t>> \in B \/ <<t, u>> \in B
  /\ \A o \in 1..MaxOrder : \A u, t \in Takers(F, o) : <<u, t>> \in B =>
       \/ u \in committed
       \/ \E v \in deps[t] \cap Takers(F, o) : v \notin committed /\ (v = u \/ <<u, v>> \in B)

\* The row of an order tells the last of them, once that has let go of it.
LastInv(F, B) ==
  /\ \A r \in DOMAIN rows :
       \/ Takers(F, rows[r].o_id) = {}
       \/ LastTaker(F, B, rows[r].o_id, rows[r].info)
       \/ \E t \in Takers(F, rows[r].o_id) : pc[t] \in RowHeld
  /\ \A t \in Deliveries : pc[t] \in RowHeld => LastTaker(F, B, o_id[t], t)

\* The last two hold so long as the numbers are distinct: then an order has
\* one row.
TurnInv(F, B) ==
  /\ TakersInv(F, B)
  /\ DistinctNumbers => WaitInv(F, B) /\ LastInv(F, B)
  /\ DeliveriesInTurn

\* A delivery joins the takers of its order when it takes the row.
LEMMA StepTakers ==
  ASSUME BaseInv, NEW t \in Tids, Step(t),
         NEW F \in [1..MaxOrder -> SUBSET Handlers], FollowersInv(F),
         NEW G \in [1..MaxOrder -> SUBSET Handlers], Joins(t, F, G)
  PROVE  /\ \A o \in 1..MaxOrder :
              Takers(G, o) = Takers(F, o) \cup (IF LockRow(t) /\ o = o_id[t] THEN {t} ELSE {})
         /\ LockRow(t) => o_id[t] \in 1..MaxOrder /\ \A o \in 1..MaxOrder : t \notin Takers(F, o)
         /\ \A o \in 1..MaxOrder : \A u \in Takers(F, o) :
              /\ u \in Tids /\ u # 0 /\ o_id[u] = o /\ deps'[u] = deps[u]
              /\ u \in committed => deps[u] \subseteq committed
<1> USE DEF Joins
<1>1. Draws(t) => t \notin Deliveries
  BY Kinds DEF Draws
<1>2. LockRow(t) => t \in Deliveries /\ pc[t] = "lock_row" /\ piece[t] = 1
  BY Kinds, Moves DEF DeliveryInv
<1>3. \A o \in 1..MaxOrder : \A u \in Takers(F, o) :
        u \in Deliveries /\ (pc[u] \in RowTaken \/ piece[u] > 1) /\ o_id[u] = o
  BY DEF Takers, FollowersInv
<1>4. LockRow(t) => \A o \in 1..MaxOrder : t \notin Takers(F, o)
  BY <1>2, <1>3 DEF RowTaken, RowHeld
<1>5. LockRow(t) => o_id[t] \in 1..MaxOrder
  <2>1. LockRow(t) => delete_row[t] \in DOMAIN rows /\ rows[delete_row[t]].o_id = o_id[t]
    BY <1>2, LockRowSucceeds DEF BaseInv, RowsInv
  <2>2. \A r \in DOMAIN rows : rows[r] \in Row
    BY RowsGrow
  <2>3. QED
    BY <2>1, <2>2 DEF Row
<1>6. ASSUME NEW o \in 1..MaxOrder
      PROVE  Takers(G, o) = Takers(F, o) \cup (IF LockRow(t) /\ o = o_id[t] THEN {t} ELSE {})
  BY <1>1, <1>2 DEF Takers
<1>7. ASSUME NEW o \in 1..MaxOrder, NEW u \in Takers(F, o)
      PROVE  /\ u \in Tids /\ u # 0 /\ o_id[u] = o /\ deps'[u] = deps[u]
             /\ u \in committed => deps[u] \subseteq committed
  <2>1. u \in Tids /\ u # 0 /\ o_id[u] = o /\ DeliveryInv(u)
    BY <1>3, <1>7, Kinds DEF Tids
  <2>2. deps'[u] = deps[u]
    <3>1. CASE u = t
      BY <1>3, <1>7, <3>1, StepAfterRow
    <3>2. CASE u # t
      BY <2>1, <3>2, StepOthers
    <3>3. QED
      BY <3>1, <3>2
  <2>3. ASSUME u \in committed
        PROVE  deps[u] \subseteq committed
    <3>1. piece[u] = 3
      BY <1>3, <1>7, <2>1, <2>3 DEF DeliveryInv, RowTaken, RowHeld
    <3>2. rank[u] = 5
      BY <2>1, <3>1 DEF DeliveryInv
    <3>3. QED
      BY <2>1, <3>2 DEF DeliveryInv
  <2>4. QED
    BY <2>1, <2>2, <2>3
<1>8. QED
  BY <1>4, <1>5, <1>6, <1>7

\* The order of the takers grows with it: from B it becomes D.
ComesLast(t, F, B, D) ==
  D = B \cup (IF LockRow(t) THEN Takers(F, o_id[t]) \X {t} ELSE {})

\* Who holds the row holds the bucket.
LEMMA HolderOfRow ==
  ASSUME BaseInv, NEW t \in Tids, NEW u \in Tids, pc[t] \in Holding, pc[u] \in RowHeld
  PROVE  u = t
<1>1. bucket_owner = t /\ bucket_owner = u
  BY DEF BaseInv, LockInv, RowHeld, Holding
<1>2. QED
  BY <1>1

\* Who takes the row adds the last taker to its dependencies, or that has
\* committed, and then so have all before it.
LEMMA StepWait ==
  ASSUME BaseInv, NEW t \in Tids, Step(t), DistinctNumbers,
         NEW F \in [1..MaxOrder -> SUBSET Handlers], FollowersInv(F),
         NEW G \in [1..MaxOrder -> SUBSET Handlers], Joins(t, F, G),
         NEW B, NEW D, ComesLast(t, F, B, D),
         TakersInv(F, B), WaitInv(F, B), LastInv(F, B)
  PROVE  WaitInv(G, D)'
<1>0. /\ B \subseteq D
      /\ LockRow(t) => Takers(F, o_id[t]) \X {t} \subseteq D
      /\ \A u, v : <<u, v>> \in D /\ <<u, v>> \notin B =>
           LockRow(t) /\ u \in Takers(F, o_id[t]) /\ v = t
  BY DEF ComesLast
<1>1. /\ \A o \in 1..MaxOrder :
           Takers(G, o) = Takers(F, o) \cup (IF LockRow(t) /\ o = o_id[t] THEN {t} ELSE {})
      /\ LockRow(t) => o_id[t] \in 1..MaxOrder /\ \A o \in 1..MaxOrder : t \notin Takers(F, o)
      /\ \A o \in 1..MaxOrder : \A u \in Takers(F, o) :
           /\ u \in Tids /\ u # 0 /\ o_id[u] = o /\ deps'[u] = deps[u]
           /\ u \in committed => deps[u] \subseteq committed
  BY StepTakers
<1>2. /\ \A o \in 1..MaxOrder : \A u, v \in Takers(F, o) :
           u = v \/ <<u, v>> \in B \/ <<v, u>> \in B
      /\ \A o \in 1..MaxOrder : \A u, v \in Takers(F, o) : <<u, v>> \in B =>
           \/ u \in committed
           \/ \E w \in deps[v] \cap Takers(F, o) : w \notin committed /\ (w = u \/ <<u, w>> \in B)
  BY DEF WaitInv
<1>3. ASSUME NEW o \in 1..MaxOrder, NEW u \in Takers(G, o), NEW v \in Takers(G, o)
      PROVE  u = v \/ <<u, v>> \in D \/ <<v, u>> \in D
  <2>1. CASE u \in Takers(F, o) /\ v \in Takers(F, o)
    BY <1>0, <1>2, <2>1
  <2>2. CASE ~(u \in Takers(F, o) /\ v \in Takers(F, o))
    <3>1. LockRow(t) /\ o = o_id[t] /\ u \in Takers(F, o) \cup {t} /\ v \in Takers(F, o) \cup {t}
      BY <1>1, <1>3, <2>2
    <3>2. QED
      BY <1>0, <2>2, <3>1
  <2>3. QED
    BY <2>1, <2>2
<1>4. \A u, v : <<u, v>> \in B =>
        \E o \in 1..MaxOrder : u \in Takers(F, o) /\ v \in Takers(F, o)
  BY DEF TakersInv
<1>5. committed \subseteq committed'
  BY StepChanges DEF Commit, DeleteRow, AbortPayment
<1>6. ASSUME NEW o \in 1..MaxOrder, NEW u \in Takers(G, o), NEW v \in Takers(G, o),
             <<u, v>> \in D
      PROVE  \/ u \in committed'
             \/ \E w \in deps'[v] \cap Takers(G, o) :
                  w \notin committed' /\ (w = u \/ <<u, w>> \in D)
  <2>1. CASE <<u, v>> \in B
    <3>1. u \in Takers(F, o) /\ v \in Takers(F, o)
      <4>1. PICK q \in 1..MaxOrder : u \in Takers(F, q) /\ v \in Takers(F, q)
        BY <1>4, <2>1
      <4>2. q = o
        <5>1. CASE u \in Takers(F, o)
          BY <1>1, <4>1, <5>1
        <5>2. CASE u \notin Takers(F, o)
          <6>1. LockRow(t) /\ u = t
            BY <1>1, <1>6, <5>2
          <6>2. QED
            BY <1>1, <4>1, <6>1
        <5>3. QED
          BY <5>1, <5>2
      <4>3. QED
        BY <4>1, <4>2
    <3>2. CASE u \in committed
      BY <1>5, <3>2
    <3>3. ASSUME NEW w \in deps[v] \cap Takers(F, o), w \notin committed,
                 w = u \/ <<u, w>> \in B
          PROVE  \/ u \in committed'
                 \/ \E x \in deps'[v] \cap Takers(G, o) :
                      x \notin committed' /\ (x = u \/ <<u, x>> \in D)
      <4>1. CASE w \notin committed'
        BY <1>0, <1>1, <3>1, <3>3, <4>1
      <4>2. CASE w \in committed'
        <5>1. w = t /\ Commit(t)
          <6>1. w = t
            BY <1>1, <3>3, <4>2, StepOthers
          <6>2. t \in Deliveries /\ (pc[t] \in RowTaken \/ piece[t] > 1)
            BY <3>3, <6>1 DEF Takers, FollowersInv
          <6>3. ~DeleteRow(t)
            BY <6>2, Kinds, Moves DEF DeliveryInv, RowTaken, RowHeld
          <6>4. ~AbortPayment(t)
            BY <6>2, Kinds DEF AbortPayment
          <6>5. QED
            BY <3>3, <4>2, <6>1, <6>3, <6>4, StepChanges
        <5>2. deps[t] \subseteq committed
          BY <5>1 DEF Commit
        <5>3. CASE w = u
          BY <4>2, <5>3
        <5>4. CASE <<u, w>> \in B
          BY <1>2, <1>5, <3>1, <3>3, <5>1, <5>2, <5>4
        <5>5. QED
          BY <3>3, <5>3, <5>4
      <4>3. QED
        BY <4>1, <4>2
    <3>4. QED
      BY <1>2, <2>1, <3>1, <3>2, <3>3
  <2>2. CASE <<u, v>> \notin B
    <3>1. LockRow(t) /\ v = t /\ u \in Takers(F, o_id[t])
      BY <1>0, <1>6, <2>2
    <3>2. o = o_id[t]
      BY <1>1, <1>6, <3>1
    <3>3. /\ delete_row[t] \in DOMAIN rows /\ AddDep(t, rows[delete_row[t]].info)
          /\ rows[delete_row[t]].o_id = o_id[t] /\ pc[t] = "lock_row" /\ t \in Deliveries
      BY <3>1, LockRowSucceeds, Moves DEF BaseInv, RowsInv
    <3>4. PICK w : w = rows[delete_row[t]].info
      OBVIOUS
    <3>5. LastTaker(F, B, o, w)
      <4>1. ASSUME NEW x \in Takers(F, o), pc[x] \in RowHeld
            PROVE  FALSE
        <5>1. x = t
          BY <1>1, <3>3, <4>1, HolderOfRow DEF Holding
        <5>2. QED
          BY <3>3, <4>1, <5>1 DEF RowHeld
      <4>2. QED
        BY <3>1, <3>2, <3>3, <3>4, <4>1 DEF LastInv
    <3>6. w \in Takers(F, o) /\ (u = w \/ <<u, w>> \in B)
      BY <3>1, <3>2, <3>5 DEF LastTaker
    <3>7. committed' = committed
      BY <3>1 DEF LockRow
    <3>8. CASE w \in committed
      BY <1>1, <1>2, <3>1, <3>2, <3>6, <3>7, <3>8
    <3>9. CASE w \notin committed
      <4>1. w \in deps'[t]
        <5>1. DOMAIN deps = Tids
          BY DEF BaseInv, TypeInv, TypeOK
        <5>2. w # 0 /\ w # t
          BY <1>1, <3>1, <3>6
        <5>3. QED
          BY <3>3, <3>4, <3>9, <5>1, <5>2 DEF AddDep
      <4>2. QED
        BY <1>0, <1>1, <3>1, <3>6, <3>7, <3>9, <4>1
    <3>10. QED
      BY <3>8, <3>9
  <2>3. QED
    BY <2>1, <2>2
<1>7. QED
  BY <1>3, <1>6 DEF WaitInv

\* Who lets go of the row leaves its name there.
LEMMA StepLast ==
  ASSUME BaseInv, NEW t \in Tids, Step(t), DistinctNumbers, DistinctNumbers',
         NEW F \in [1..MaxOrder -> SUBSET Handlers], FollowersInv(F),
         NEW G \in [1..MaxOrder -> SUBSET Handlers], Joins(t, F, G),
         NEW B, NEW D, ComesLast(t, F, B, D),
         TakersInv(F, B), LastInv(F, B)
  PROVE  LastInv(G, D)'
<1>0. /\ B \subseteq D
      /\ LockRow(t) => Takers(F, o_id[t]) \X {t} \subseteq D
      /\ \A u, v : <<u, v>> \in D /\ <<u, v>> \notin B =>
           LockRow(t) /\ u \in Takers(F, o_id[t]) /\ v = t
  BY DEF ComesLast
<1>1. /\ \A o \in 1..MaxOrder :
           Takers(G, o) = Takers(F, o) \cup (IF LockRow(t) /\ o = o_id[t] THEN {t} ELSE {})
      /\ LockRow(t) => o_id[t] \in 1..MaxOrder /\ \A o \in 1..MaxOrder : t \notin Takers(F, o)
      /\ \A o \in 1..MaxOrder : \A u \in Takers(F, o) :
           /\ u \in Tids /\ u # 0 /\ o_id[u] = o /\ deps'[u] = deps[u]
           /\ u \in committed => deps[u] \subseteq committed
  BY StepTakers
<1>2. /\ rows \in Seq(Row) /\ rows' \in Seq(Row)
      /\ \A r \in DOMAIN rows : r \in DOMAIN rows' /\ rows'[r].o_id = rows[r].o_id
      /\ \A r \in DOMAIN rows : rows[r] \in Row /\ rows[r].o_id \in 1..MaxOrder
  <2>1. /\ rows \in Seq(Row) /\ rows' \in Seq(Row)
        /\ \A r \in DOMAIN rows : r \in DOMAIN rows' /\ rows'[r].o_id = rows[r].o_id
    BY RowsGrow
  <2>2. \A r \in DOMAIN rows : rows[r] \in Row
    BY <2>1, ElementOfSeq
  <2>3. QED
    BY <2>1, <2>2 DEF Row
<1>3. ASSUME NEW u \in Deliveries, pc'[u] \in RowHeld
      PROVE  LastTaker(G, D, o_id'[u], u)
  <2>0. u \in Tids
    BY DEF Tids
  <2>1. CASE u = t /\ LockRow(t)
    <3>1. o_id' = o_id
      BY <2>1 DEF LockRow, tagVars
    <3>2. QED
      BY <1>0, <1>1, <2>1, <3>1 DEF LastTaker
  <2>2. CASE ~(u = t /\ LockRow(t))
    <3>1. pc[u] \in RowHeld /\ o_id'[u] = o_id[u]
      <4>1. CASE u # t
        BY <1>3, <2>0, <4>1, StepOthers
      <4>2. CASE u = t
        <5>1. DeleteIndex(t) \/ RemoveIndex(t)
          BY <1>3, <2>2, <4>2, Moves DEF Step, RowHeld
        <5>2. QED
          BY <4>2, <5>1, Moves DEF RowHeld, DeleteIndex, RemoveIndex, tagVars
      <4>3. QED
        BY <4>1, <4>2
    <3>2. ~LockRow(t)
      <4>1. LockRow(t) => pc[t] \in Holding
        BY Moves DEF Holding
      <4>2. QED
        BY <2>0, <2>2, <3>1, <4>1, HolderOfRow
    <3>3. LastTaker(F, B, o_id[u], u)
      BY <3>1 DEF LastInv
    <3>4. o_id[u] \in 1..MaxOrder
      <4>1. u \in F[o_id[u]] /\ read_row[u] # 0 /\ rows[read_row[u]].o_id = o_id[u]
        BY <3>1 DEF FollowersInv, RowTaken, RowHeld, BaseInv, RowsInv
      <4>2. read_row[u] \in DOMAIN rows
        BY <1>2, <2>0, <4>1 DEF BaseInv, TypeInv, TypeOK
      <4>3. QED
        BY <1>2, <4>1, <4>2
    <3>5. QED
      BY <1>0, <1>1, <3>1, <3>2, <3>3, <3>4 DEF LastTaker
  <2>3. QED
    BY <2>1, <2>2
<1>4. ASSUME NEW r \in DOMAIN rows'
      PROVE  \/ Takers(G, rows'[r].o_id) = {}
             \/ LastTaker(G, D, rows'[r].o_id, rows'[r].info)
             \/ \E u \in Takers(G, rows'[r].o_id) : pc'[u] \in RowHeld
  <2>1. ASSUME r \in DOMAIN rows, rows'[r].info = rows[r].info,
               ~(LockRow(t) /\ rows[r].o_id = o_id[t]),
               ~(UnlockRow(t) /\ rows[r].o_id = o_id[t])
        PROVE  \/ Takers(G, rows'[r].o_id) = {}
               \/ LastTaker(G, D, rows'[r].o_id, rows'[r].info)
               \/ \E u \in Takers(G, rows'[r].o_id) : pc'[u] \in RowHeld
    <3>1. PICK o \in 1..MaxOrder : o = rows[r].o_id
      BY <1>2, <2>1
    <3>2. rows'[r].o_id = o /\ Takers(G, o) = Takers(F, o)
      <4>1. rows'[r].o_id = o
        BY <1>2, <2>1, <3>1
      <4>2. ~(LockRow(t) /\ o = o_id[t])
        BY <2>1, <3>1
      <4>3. QED
        BY ZenonT(40), <1>1, <4>1, <4>2
    <3>3. \/ Takers(F, o) = {}
          \/ LastTaker(F, B, o, rows[r].info)
          \/ \E u \in Takers(F, o) : pc[u] \in RowHeld
      BY <2>1, <3>1 DEF LastInv
    <3>4. CASE LastTaker(F, B, o, rows[r].info)
      BY <1>0, <2>1, <3>2, <3>4 DEF LastTaker
    <3>5. ASSUME NEW u \in Takers(F, o), pc[u] \in RowHeld
          PROVE  pc'[u] \in RowHeld
      <4>1. u \in Tids /\ o_id[u] = o
        BY <1>1, <3>5
      <4>2. CASE u # t
        BY <3>5, <4>1, <4>2, StepOthers
      <4>3. CASE u = t
        <5>1. DeleteIndex(t) \/ RemoveIndex(t)
          <6>1. pc[t] \notin {"wait", "run", "write_district", "push_row", "insert_index",
                              "update_wd_index", "unlock_push", "insert_order", "delete",
                              "lock_bucket", "lock_row", "unlock_bucket"}
            BY <3>5, <4>3 DEF RowHeld
          <6>2. ~UnlockRow(t)
            BY <2>1, <3>1, <4>1, <4>3
          <6>3. QED
            BY <6>1, <6>2, Moves DEF Step
        <5>2. QED
          BY <4>3, <5>1, Moves DEF RowHeld
      <4>4. QED
        BY <4>2, <4>3
    <3>6. QED
      BY <3>2, <3>3, <3>4, <3>5
  <2>2. CASE UNCHANGED rows /\ ~LockRow(t) /\ ~UnlockRow(t)
    BY <1>4, <2>1, <2>2
  <2>3. CASE PushRow(t)
    <3>1. ~LockRow(t) /\ ~UnlockRow(t)
      BY <2>3, Moves
    <3>2. CASE r \in DOMAIN rows
      <4>1. rows'[r] = rows[r]
        BY <1>2, <2>3, <3>2 DEF PushRow
      <4>2. QED
        BY <2>1, <3>1, <3>2, <4>1
    <3>3. CASE r \notin DOMAIN rows
      <4>1. rows'[r] \in Row
        BY <1>2, <1>4, ElementOfSeq
      <4>2. PICK o \in 1..MaxOrder : o = rows'[r].o_id
        BY <4>1 DEF Row
      <4>3. Takers(F, o) = {}
        <5>1. SUFFICES ASSUME Takers(F, o) # {}
                       PROVE  FALSE
          OBVIOUS
        <5>2. PICK q \in DOMAIN rows : rows[q].o_id = o
          BY <5>1 DEF TakersInv
        <5>3. q \in DOMAIN rows' /\ rows'[q].o_id = rows'[r].o_id /\ q # r
          BY <1>2, <3>3, <4>2, <5>2
        <5>4. QED
          BY <1>4, <5>3 DEF DistinctNumbers
      <4>4. QED
        BY <1>1, <3>1, <4>2, <4>3
    <3>4. QED
      BY <3>2, <3>3
  <2>4. CASE LockRow(t)
    <3>1. rows' = [rows EXCEPT ![delete_row[t]].owner = t] /\ delete_row[t] \in DOMAIN rows
          /\ pc'[t] = "delete_index"
      BY <2>4, LockRowSucceeds
    <3>2. r \in DOMAIN rows /\ rows[r] \in Row
      BY <1>2, <1>4, <3>1
    <3>3. rows'[r].info = rows[r].info
      BY <3>1, <3>2 DEF Row
    <3>4. CASE rows[r].o_id = o_id[t]
      <4>1. rows'[r].o_id = o_id[t] /\ t \in Takers(G, o_id[t]) /\ pc'[t] \in RowHeld
        BY <1>1, <1>2, <2>4, <3>1, <3>2, <3>4 DEF RowHeld
      <4>2. QED
        BY <4>1
    <3>5. CASE rows[r].o_id # o_id[t]
      <4>1. ~UnlockRow(t)
        BY <2>4, Moves
      <4>2. QED
        BY <2>1, <3>2, <3>3, <3>5, <4>1
    <3>6. QED
      BY <3>4, <3>5
  <2>5. CASE UnlockRow(t)
    <3>1. r \in DOMAIN rows /\ ~LockRow(t) /\ rows[r] \in Row
      <4>1. DOMAIN rows' = DOMAIN rows
        BY <2>5 DEF UnlockRow
      <4>2. ~LockRow(t)
        BY <2>5, Moves
      <4>3. QED
        BY <1>2, <1>4, <4>1, <4>2
    <3>2. rows'[r].info = (IF r \in {read_row[t], delete_row[t]} THEN t ELSE rows[r].info)
      BY <2>5, <3>1 DEF UnlockRow, Row
    <3>3. t \in Deliveries /\ pc[t] = "set_info"
      BY <2>5, Kinds, Moves
    <3>4. delete_row[t] \in DOMAIN rows /\ rows[delete_row[t]].o_id = o_id[t]
          /\ rows[read_row[t]].o_id = o_id[t]
      <4>1. delete_row[t] # 0 /\ rows[delete_row[t]].o_id = o_id[t]
            /\ rows[read_row[t]].o_id = o_id[t]
        BY <3>3 DEF BaseInv, RowsInv
      <4>2. QED
        BY <1>2, <4>1 DEF BaseInv, TypeInv, TypeOK
    <3>5. CASE rows[r].o_id = o_id[t]
      <4>1. r = delete_row[t]
        BY <3>1, <3>4, <3>5 DEF DistinctNumbers
      <4>2. rows'[r].info = t /\ rows'[r].o_id = o_id[t]
        BY <1>2, <3>1, <3>2, <3>5, <4>1
      <4>3. LastTaker(F, B, o_id[t], t) /\ o_id[t] \in 1..MaxOrder
        BY <1>2, <3>1, <3>3, <3>5 DEF LastInv, RowHeld
      <4>4. LastTaker(G, D, o_id[t], t)
        BY <1>0, <1>1, <3>1, <4>3 DEF LastTaker
      <4>5. QED
        BY <4>2, <4>4
    <3>6. CASE rows[r].o_id # o_id[t]
      <4>1. r \notin {read_row[t], delete_row[t]}
        BY <3>4, <3>6
      <4>2. QED
        BY <2>1, <3>1, <3>2, <3>6, <4>1
    <3>7. QED
      BY <3>5, <3>6
  <2>6. QED
    BY <2>2, <2>3, <2>4, <2>5, StepChanges
<1>5. QED
  BY <1>3, <1>4 DEF LastInv

\* A delivery that has delivered stays in its last piece.
LEMMA LastPiece ==
  ASSUME BaseInv, NEW t \in Tids, Step(t), NEW u \in Deliveries, piece[u] = 3
  PROVE  piece'[u] = 3
<1>1. u \in Tids /\ DeliveryInv(u)
  BY DEF Tids, BaseInv
<1>2. CASE u # t
  BY <1>1, <1>2, StepOthers
<1>3. CASE u = t
  <2>1. pc[t] \in {"wait", "done"}
    BY <1>1, <1>3 DEF DeliveryInv
  <2>2. StartPiece(t) \/ Commit(t)
    BY <2>1, Moves DEF Step
  <2>3. QED
    BY <1>3, <2>2 DEF StartPiece, Commit
<1>4. QED
  BY <1>2, <1>3

\* A delivery appends itself to those that delivered the order it collected.
LEMMA DeliverAppends ==
  ASSUME BaseInv, NEW t \in Tids, Step(t), NEW F, FollowInv(F), carriers' # carriers
  PROVE  /\ t \in Deliveries /\ Entry(t) \in 1..MaxOrder
         /\ carriers' = [carriers EXCEPT ![Entry(t)] = Append(@, t)]
         /\ piece[t] = 2 /\ rank[t] = 5 /\ pc[t] = "run" /\ piece'[t] = 3
         /\ t \in retried \/ t \in Takers(F, Entry(t))
         /\ retried' = retried
<1>1. Deliver(t)
  BY StepChanges
<1>2. /\ t \in Deliveries /\ pc[t] = "run" /\ rank[t] = 5 /\ Entry(t) \in orders /\ EndPiece(t)
      /\ carriers' = [carriers EXCEPT ![Entry(t)] = Append(@, t)] /\ retried' = retried
  BY <1>1 DEF Deliver, At
<1>3. orders \subseteq 1..MaxOrder /\ DOMAIN piece = Tids /\ DeliveryInv(t) /\ piece[t] \in 1..6
  BY <1>2 DEF BaseInv, TypeInv, TypeOK
<1>4. piece[t] = 2
  BY <1>2, <1>3 DEF DeliveryInv
<1>5. piece'[t] = 3
  BY <1>2, <1>3, <1>4 DEF EndPiece
<1>6. t \in retried \/ t \in Takers(F, Entry(t))
  <2>1. Entry(t) # 0
    BY <1>2, <1>3
  <2>2. QED
    BY <1>2, <1>4, <2>1 DEF FollowInv, CollectedInv, Takers
<1>7. QED
  BY <1>2, <1>3, <1>4, <1>5, <1>6

\* so the list of an order is the one before, or t is its last member.
LEMMA CarriersGrow ==
  ASSUME BaseInv, NEW t \in Tids, Step(t), NEW F, FollowInv(F), NEW o \in 1..MaxOrder
  PROVE  \/ carriers'[o] = carriers[o]
         \/ /\ carriers' # carriers /\ Entry(t) = o
            /\ DOMAIN carriers'[o] = 1..(Len(carriers[o]) + 1)
            /\ DOMAIN carriers[o] = 1..Len(carriers[o]) /\ Len(carriers[o]) \in Nat
            /\ carriers'[o][Len(carriers[o]) + 1] = t
            /\ \A i \in DOMAIN carriers[o] : carriers'[o][i] = carriers[o][i]
<1>1. DOMAIN carriers = 1..MaxOrder /\ carriers[o] \in Seq(Deliveries)
  BY DEF BaseInv, TypeInv
<1>2. CASE carriers' # carriers /\ Entry(t) = o
  <2>1. t \in Deliveries /\ carriers' = [carriers EXCEPT ![Entry(t)] = Append(@, t)]
    BY <1>2, DeliverAppends
  <2>2. carriers'[o] = Append(carriers[o], t)
    BY <1>1, <1>2, <2>1
  <2>3. PICK s : s = carriers[o]
    OBVIOUS
  <2>4. /\ DOMAIN Append(s, t) = 1..(Len(s) + 1) /\ DOMAIN s = 1..Len(s) /\ Len(s) \in Nat
        /\ Append(s, t)[Len(s) + 1] = t
        /\ \A i \in DOMAIN s : Append(s, t)[i] = s[i]
    BY <1>1, <2>1, <2>3
  <2>5. QED
    BY <1>2, <2>2, <2>3, <2>4
<1>3. CASE carriers' = carriers \/ Entry(t) # o
  BY <1>1, <1>3, DeliverAppends
<1>4. QED
  BY <1>2, <1>3

\* The part of the layer that does not need distinct numbers.
LEMMA StepTakersInv ==
  ASSUME BaseInv, NEW t \in Tids, Step(t),
         NEW F \in [1..MaxOrder -> SUBSET Handlers], FollowInv(F),
         NEW G \in [1..MaxOrder -> SUBSET Handlers], Joins(t, F, G),
         NEW B, NEW D, ComesLast(t, F, B, D), TakersInv(F, B)
  PROVE  TakersInv(G, D)'
<1>0. /\ FollowersInv(F)
      /\ \A u, v : <<u, v>> \in D /\ <<u, v>> \notin B =>
           LockRow(t) /\ u \in Takers(F, o_id[t]) /\ v = t
      /\ \A p \in D : p \notin B => LockRow(t) /\ p \in Takers(F, o_id[t]) \X {t}
  BY DEF ComesLast, FollowInv
<1>1. /\ \A o \in 1..MaxOrder :
           Takers(G, o) = Takers(F, o) \cup (IF LockRow(t) /\ o = o_id[t] THEN {t} ELSE {})
      /\ LockRow(t) => o_id[t] \in 1..MaxOrder
  BY <1>0, StepTakers
<1>2. ASSUME NEW p \in D
      PROVE  \E o \in 1..MaxOrder : p[1] \in Takers(G, o) /\ p[2] \in Takers(G, o)
  <2>1. CASE p \in B
    BY <1>1, <2>1 DEF TakersInv
  <2>2. CASE p \notin B
    <3>1. LockRow(t) /\ p[1] \in Takers(F, o_id[t]) /\ p[2] = t
      BY <1>0, <1>2, <2>2
    <3>2. QED
      BY <1>1, <3>1
  <2>3. QED
    BY <2>1, <2>2
<1>3. ASSUME NEW o \in 1..MaxOrder, Takers(G, o) # {}
      PROVE  \E r \in DOMAIN rows' : rows'[r].o_id = o
  <2>1. \E r \in DOMAIN rows : rows[r].o_id = o
    <3>1. CASE Takers(F, o) # {}
      BY <3>1 DEF TakersInv
    <3>2. CASE Takers(F, o) = {}
      <4>1. LockRow(t) /\ o = o_id[t]
        BY <1>1, <1>3, <3>2
      <4>2. delete_row[t] \in DOMAIN rows /\ rows[delete_row[t]].o_id = o_id[t]
        BY <4>1, LockRowSucceeds, Moves DEF BaseInv, RowsInv
      <4>3. QED
        BY <4>1, <4>2
    <3>3. QED
      BY <3>1, <3>2
  <2>2. QED
    BY <2>1, RowsGrow
<1>4. retried \subseteq retried'
  BY StepChanges DEF LockBucket, LockRow
<1>5. ASSUME NEW o \in 1..MaxOrder, NEW i \in DOMAIN carriers'[o]
      PROVE  /\ carriers'[o][i] \in Deliveries /\ piece'[carriers'[o][i]] = 3
             /\ carriers'[o][i] \in retried' \/ carriers'[o][i] \in Takers(G, o)
  <2>1. ASSUME i \in DOMAIN carriers[o], carriers'[o][i] = carriers[o][i]
        PROVE  /\ carriers'[o][i] \in Deliveries /\ piece'[carriers'[o][i]] = 3
               /\ carriers'[o][i] \in retried' \/ carriers'[o][i] \in Takers(G, o)
    <3>1. /\ carriers[o][i] \in Deliveries /\ piece[carriers[o][i]] = 3
          /\ carriers[o][i] \in retried \/ carriers[o][i] \in Takers(F, o)
      BY <2>1 DEF TakersInv
    <3>2. piece'[carriers[o][i]] = 3
      BY <3>1, LastPiece
    <3>3. QED
      BY <1>1, <1>4, <2>1, <3>1, <3>2
  <2>2. CASE carriers'[o] = carriers[o]
    BY <1>5, <2>1, <2>2
  <2>3. CASE carriers' # carriers /\ Entry(t) = o
    <3>1. CASE i \in DOMAIN carriers[o]
      BY <2>1, <2>3, <3>1, CarriersGrow
    <3>2. CASE i \notin DOMAIN carriers[o]
      <4>1. carriers'[o][i] = t
        <5>1. \A k \in Nat : \A l \in 1..(k + 1) : l \notin 1..k => l = k + 1
          OBVIOUS
        <5>2. QED
          BY <1>5, <3>2, <5>1, CarriersGrow
      <4>2. /\ t \in Deliveries /\ piece'[t] = 3 /\ retried' = retried
            /\ t \in retried \/ t \in Takers(F, o)
        BY <2>3, DeliverAppends
      <4>3. QED
        BY <1>1, <4>1, <4>2
    <3>3. QED
      BY <3>1, <3>2
  <2>4. QED
    BY <2>2, <2>3, CarriersGrow
<1>6. QED
  BY <1>2, <1>3, <1>5 DEF TakersInv

\* Who delivers an order waited for those that delivered it before.
LEMMA StepInTurn ==
  ASSUME BaseInv, NEW t \in Tids, Step(t),
         NEW F \in [1..MaxOrder -> SUBSET Handlers], FollowInv(F), NEW B, TurnInv(F, B)
  PROVE  DeliveriesInTurn'
<1>1. SUFFICES ASSUME DistinctNumbers', NEW o \in DOMAIN carriers',
                      NEW i \in DOMAIN carriers'[o], NEW j \in DOMAIN carriers'[o], i < j
               PROVE  \/ carriers'[o][i] \in committed'
                      \/ {carriers'[o][i], carriers'[o][j]} \cap retried' # {}
  BY DEF DeliveriesInTurn
<1>2. DistinctNumbers
  BY <1>1, DistinctBefore
<1>3. committed \subseteq committed' /\ retried \subseteq retried'
  BY StepChanges DEF Commit, DeleteRow, AbortPayment, LockBucket, LockRow
<1>4. o \in 1..MaxOrder
  <2>1. BaseInv'
    BY StepBaseInv
  <2>2. DOMAIN carriers' = 1..MaxOrder
    BY <2>1 DEF BaseInv, TypeInv, MaxOrder
  <2>3. QED
    BY <1>1, <2>2
<1>5. o \in DOMAIN carriers
  BY <1>4 DEF BaseInv, TypeInv
<1>6. CASE carriers'[o] = carriers[o]
  BY <1>1, <1>2, <1>3, <1>5, <1>6 DEF TurnInv, DeliveriesInTurn
<1>7. CASE carriers'[o] # carriers[o]
  <2>1. /\ carriers' # carriers /\ Entry(t) = o
        /\ DOMAIN carriers'[o] = 1..(Len(carriers[o]) + 1)
        /\ DOMAIN carriers[o] = 1..Len(carriers[o]) /\ Len(carriers[o]) \in Nat
        /\ carriers'[o][Len(carriers[o]) + 1] = t
        /\ \A k \in DOMAIN carriers[o] : carriers'[o][k] = carriers[o][k]
    BY <1>4, <1>7, CarriersGrow
  <2>2. i \in DOMAIN carriers[o] /\ (j \in DOMAIN carriers[o] \/ j = Len(carriers[o]) + 1)
    <3>1. \A k \in Nat : \A l, m \in 1..(k + 1) :
            l < m => l \in 1..k /\ (m \in 1..k \/ m = k + 1)
      OBVIOUS
    <3>2. QED
      BY <1>1, <2>1, <3>1
  <2>3. CASE j \in DOMAIN carriers[o]
    BY <1>1, <1>2, <1>3, <1>5, <2>1, <2>2, <2>3 DEF TurnInv, DeliveriesInTurn
  <2>4. CASE j = Len(carriers[o]) + 1
    <3>1. PICK u : u = carriers[o][i]
      OBVIOUS
    <3>2. carriers'[o][i] = u /\ carriers'[o][j] = t
      BY <2>1, <2>2, <2>4, <3>1
    <3>3. /\ t \in Deliveries /\ piece[t] = 2 /\ rank[t] = 5 /\ pc[t] = "run"
          /\ t \in retried \/ t \in Takers(F, o)
      BY <2>1, DeliverAppends
    <3>4. u \in Deliveries /\ piece[u] = 3 /\ (u \in retried \/ u \in Takers(F, o))
      BY <1>4, <2>2, <3>1 DEF TurnInv, TakersInv
    <3>5. ASSUME u \in Takers(F, o), t \in Takers(F, o)
          PROVE  u \in committed
      <4>1. deps[t] \subseteq committed /\ deps[u] \subseteq committed
        BY <3>3, <3>4 DEF BaseInv, DeliveryInv
      <4>2. t \notin committed
        BY <3>3 DEF BaseInv, DeliveryInv
      <4>3. WaitInv(F, B) /\ u # t
        BY <1>2, <3>3, <3>4 DEF TurnInv
      <4>4. <<u, t>> \in B \/ <<t, u>> \in B
        BY <1>4, <3>5, <4>3 DEF WaitInv
      <4>5. CASE <<u, t>> \in B
        BY <1>4, <3>5, <4>1, <4>3, <4>5 DEF WaitInv
      <4>6. CASE <<t, u>> \in B
        BY <1>4, <3>5, <4>1, <4>2, <4>3, <4>6 DEF WaitInv
      <4>7. QED
        BY <4>4, <4>5, <4>6
    <3>6. QED
      BY <1>3, <3>2, <3>3, <3>4, <3>5
  <2>5. QED
    BY <2>2, <2>3, <2>4
<1>8. QED
  BY <1>6, <1>7

\* The deliveries take their turn: the invariant as a whole.
TurnTaken ==
  \E F \in [1..MaxOrder -> SUBSET Handlers], B \in SUBSET (Tids \X Tids) :
    FollowInv(F) /\ TurnInv(F, B)

\* At first nobody has taken a row.
LEMMA InitTurn == Init => TurnTaken
<1>1. SUFFICES ASSUME Init
               PROVE  TurnTaken
  OBVIOUS
<1>2. PICK F : F = [o \in 1..MaxOrder |-> {}]
  OBVIOUS
<1>3. F \in [1..MaxOrder -> SUBSET Handlers] /\ \A o \in 1..MaxOrder : Takers(F, o) = {}
  BY <1>2 DEF Takers
<1>4. FollowInv(F)
  BY <1>1, <1>2, InitFollow
<1>5. /\ DOMAIN carriers = 1..MaxOrder /\ \A o \in 1..MaxOrder : DOMAIN carriers[o] = {}
      /\ \A t \in Tids : pc[t] \notin RowHeld
      /\ \A r \in DOMAIN rows : rows[r].o_id \in 1..MaxOrder
  <2>1. carriers = [o \in 1..MaxOrder |-> <<>>]
    BY <1>1 DEF Init
  <2>2. \A t \in Tids : pc[t] \in {"wait", "done"}
    BY <1>1 DEF Init
  <2>3. \A r \in DOMAIN rows : rows[r] \in Row
    <3>1. rows \in Seq(Row)
      BY <1>1, InitBaseInv DEF BaseInv, TypeInv, TypeOK, Row
    <3>2. QED
      BY <3>1, ElementOfSeq
  <2>4. QED
    BY <2>1, <2>2, <2>3 DEF RowHeld, Row
<1>6. TakersInv(F, {}) /\ WaitInv(F, {})
  BY <1>3, <1>5 DEF TakersInv, WaitInv
<1>7. LastInv(F, {})
  BY <1>3, <1>5 DEF LastInv, Tids
<1>8. DeliveriesInTurn
  BY <1>5 DEF DeliveriesInTurn
<1>9. TurnInv(F, {})
  BY <1>6, <1>7, <1>8 DEF TurnInv
<1>10. {} \in SUBSET (Tids \X Tids)
  OBVIOUS
<1>11. QED
  BY <1>3, <1>4, <1>9, <1>10 DEF TurnTaken

\* The fourth layer is inductive,
LEMMA StepTurn ==
  ASSUME BaseInv, NEW t \in Tids, Step(t), TurnTaken
  PROVE  TurnTaken'
<1>1. PICK F \in [1..MaxOrder -> SUBSET Handlers], B \in SUBSET (Tids \X Tids) :
        FollowInv(F) /\ TurnInv(F, B)
  BY DEF TurnTaken
<1>2. PICK G \in [1..MaxOrder -> SUBSET Handlers] : Joins(t, F, G)
  <2> DEFINE H == [o \in 1..MaxOrder |-> F[o] \cup
               (IF (Draws(t) \/ LockRow(t)) /\ o = o_id[t] THEN {t} ELSE {})]
  <2>1. Draws(t) \/ LockRow(t) => t \in Handlers
    BY Kinds, Moves DEF Draws, Handlers
  <2>2. H \in [1..MaxOrder -> SUBSET Handlers]
    BY <2>1
  <2>3. QED
    BY <2>2 DEF Joins
<1>3. FollowersInv(F)
  BY <1>1 DEF FollowInv
<1>4. PICK D \in SUBSET (Tids \X Tids) : ComesLast(t, F, B, D)
  <2>1. LockRow(t) => Takers(F, o_id[t]) \subseteq Tids
    BY <1>1, <1>2, <1>3, StepTakers
  <2>2. B \cup (IF LockRow(t) THEN Takers(F, o_id[t]) \X {t} ELSE {}) \in SUBSET (Tids \X Tids)
    BY <2>1
  <2>3. QED
    BY <2>2 DEF ComesLast
<1>5. FollowInv(G)'
  BY <1>1, <1>2, StepFollow
<1>6. TakersInv(G, D)'
  BY <1>1, <1>2, <1>4, StepTakersInv DEF TurnInv
<1>7. ASSUME DistinctNumbers'
      PROVE  WaitInv(G, D)' /\ LastInv(G, D)'
  <2>1. DistinctNumbers /\ TakersInv(F, B) /\ WaitInv(F, B) /\ LastInv(F, B)
    BY <1>1, <1>7, DistinctBefore DEF TurnInv
  <2>2. WaitInv(G, D)'
    BY <1>2, <1>3, <1>4, <2>1, StepWait
  <2>3. LastInv(G, D)'
    BY <1>2, <1>3, <1>4, <1>7, <2>1, StepLast
  <2>4. QED
    BY <2>2, <2>3
<1>8. DeliveriesInTurn'
  BY <1>1, StepInTurn
<1>9. TurnInv(G, D)'
  BY <1>6, <1>7, <1>8 DEF TurnInv
<1>10. QED
  BY <1>5, <1>9 DEF TurnTaken, MaxOrder, Tids

\* also when nothing changes.
LEMMA StutterTurn == TurnTaken /\ UNCHANGED vars => TurnTaken'
<1>1. SUFFICES ASSUME TurnTaken, UNCHANGED vars
               PROVE  TurnTaken'
  OBVIOUS
<1>2. PICK F \in [1..MaxOrder -> SUBSET Handlers], B \in SUBSET (Tids \X Tids) :
        FollowInv(F) /\ TurnInv(F, B)
  BY <1>1 DEF TurnTaken
<1> USE <1>1 DEF vars, queueVars, tableVars, infoVars, tagVars, historyVars
<1>3. FollowInv(F)'
  <2>1. FollowersInv(F)'
    BY <1>2 DEF FollowInv, FollowersInv
  <2>2. ASSUME NEW u \in Deliveries \ retried
        PROVE  CollectedInv(F, u)'
    BY <1>2 DEF FollowInv, CollectedInv, Entry
  <2>3. QED
    BY <2>1, <2>2 DEF FollowInv
<1>4. TakersInv(F, B)' /\ DeliveriesInTurn' /\ (DistinctNumbers' <=> DistinctNumbers)
  BY <1>2 DEF TurnInv, TakersInv, DeliveriesInTurn, DistinctNumbers
<1>5. DistinctNumbers => WaitInv(F, B)' /\ LastInv(F, B)'
  BY <1>2 DEF TurnInv, WaitInv, LastInv
<1>6. QED
  BY <1>2, <1>3, <1>4, <1>5 DEF TurnTaken, TurnInv, MaxOrder, Tids

\* An order that is delivered twice is delivered the second time after the
\* first has committed, unless one of the two ran its first piece again; so
\* long as the numbers that were drawn are distinct.
THEOREM DeliveriesInTurnHolds == Spec => []DeliveriesInTurn
<1>1. BaseInv /\ TurnTaken /\ [Next]_vars => TurnTaken'
  BY StepTurn, StutterTurn DEF Next, Terminated
<1>2. TurnTaken => DeliveriesInTurn
  BY DEF TurnTaken, TurnInv
<1>3. QED
  BY InitTurn, BaseInvHolds, <1>1, <1>2, PTL DEF Spec
=============================================================================
