------------------------------- MODULE Orders --------------------------------
(***************************************************************************)
(* The life of the orders of one district under TransactionParOCCRaw: a    *)
(* new-order transaction draws a number (rank 1), queues a NewOrder row    *)
(* (rank 3) and pushes the Order row (rank 5); a delivery takes the first  *)
(* NewOrder row off the queue (rank 3) and updates its order (rank 5). Two *)
(* others meet the new-orders at the district's row (rank 1): a payment,   *)
(* which updates it, and a stock-level, which only reads it.               *)
(*                                                                         *)
(* The queue of a district is one bucket of the neworder table, whose rows *)
(* and index are written under the bucket's version lock but read without  *)
(* it, and one entry of the secondary index wd_index_, a deque under a     *)
(* spin lock. An access to one of these, or to a lock word, is a step.     *)
(* Pieces that touch none of them only move the rank; the dependencies     *)
(* they take, and those that the updates of an order take, are left to     *)
(* module ParTxn. The district's piece reads and then commits: a failed    *)
(* commit repeats the read, so only the commit that succeeds is a step.    *)
(*                                                                         *)
(* A look-up that runs while another thread changes the same hash map is a *)
(* data race: it may miss a key that is there.                             *)
(***************************************************************************)
EXTENDS Naturals, Sequences, FiniteSets

CONSTANTS
  NewOrders,   \* identifiers of the new-order transactions
  Deliveries,  \* identifiers of the delivery transactions,
  Payments,    \* of the payments,
  StockLevels, \* and of the stock-levels
  Mixes,       \* the sets of transactions that may run together
  MaxQueued    \* bound: orders that are queued at first

\* Who writes the district's row, and everybody.
Writers == NewOrders \cup Payments
Tids == Writers \cup Deliveries \cup StockLevels

ASSUME OrdersAssumption ==
  /\ Tids \subseteq Nat \ {0}
  /\ NewOrders \cap Payments = {} /\ Writers \cap Deliveries = {}
  /\ StockLevels \cap (Writers \cup Deliveries) = {}
  /\ IsFiniteSet(Tids) /\ MaxQueued \in Nat
  /\ Mixes \subseteq SUBSET Tids

VARIABLES
  d_next_o_id,   \* District.d_next_o_id
  district_info, \* txn_info_ of the district row, 0 for the default one
  bucket_owner,  \* lock_owner_ of the neworder bucket
  rows,          \* the rows of the bucket: records [o_id, owner, info]
  index,         \* the bucket's index: pairs <<o_id, position in rows>>
  wd_index,      \* the deque of order numbers in wd_index_
  orders,        \* the order numbers in the index of the order bucket
  order_owner,   \* lock_owner_ of the order bucket
  rank, committed, deps,   \* as in ParTxn
  piece, pc,     \* control
  o_id,          \* o_id[t]: the order number t works with; of a payment, the one
                 \* in its copy of the district
  read_row,      \* read_row[t]: the row of the tag that reads, 0 for none
  delete_row,    \* delete_row[t]: the row of the tag that deletes
  no_o_id_arr,   \* no_o_id_arr[t]: what do_pc_delivery collects for the
                 \* district, 0 for None; entries after the first are not read
  removed,       \* history: pairs <<t, o>>, t took o off the queue
  carriers,      \* history: carriers[o], who delivered o, in order
  hidden,        \* history: writers of the district that a stock-level replaced
                 \* in district_info before they had committed
  retried,       \* history: deliveries that ran their first piece again
  raced          \* history: deliveries a look-up of which missed in a race

queueVars == <<bucket_owner, rows, index, wd_index>>
tableVars == <<d_next_o_id, district_info, orders, order_owner>>
infoVars == <<rank, committed, deps>>
tagVars == <<o_id, read_row, delete_row, no_o_id_arr>>
historyVars == <<removed, carriers, hidden, retried, raced>>
vars == <<queueVars, tableVars, infoVars, piece, pc, tagVars, historyVars>>

MaxOrder == MaxQueued + Cardinality(NewOrders)

-----------------------------------------------------------------------------

Goto(t, label) == pc' = [pc EXCEPT ![t] = label]

\* The ranks of the pieces of do_pc_new_order, do_pc_delivery, do_pc_payment and
\* do_pc_stocklevel.
PieceRanks(t) ==
  CASE t \in NewOrders -> <<1, 2, 3, 4, 5>>
    [] t \in Deliveries -> <<3, 5>>
    [] t \in Payments -> <<1, 2, 5, 6>>
    [] OTHER -> <<1, 5>>

At(t, r, label) == pc[t] = label /\ rank[t] = r

\* Mutant: a dependency that is at the rank counts as past it.
HasStarted_AtRank(d, r) == rank[d] >= r

\* TxnInfo::has_started.
HasStarted(d, r) == rank[d] > r

\* wait_deps_start and update_rank.
StartPiece(t) ==
  /\ pc[t] = "wait"
  /\ piece[t] <= Len(PieceRanks(t))
  /\ LET r == PieceRanks(t)[piece[t]] IN
     /\ \A d \in deps[t] : d \in committed \/ HasStarted(d, r)
     /\ rank' = [rank EXCEPT ![t] = r]
  /\ Goto(t, "run")
  /\ UNCHANGED <<queueVars, tableVars, committed, deps, piece, tagVars, historyVars>>

EndPiece(t) ==
  /\ Goto(t, "wait")
  /\ piece' = [piece EXCEPT ![t] = @ + 1]

\* Mutant: no dependency is taken.
AddDep_Missing(t, u) == UNCHANGED deps

\* add_dep: u was the last to access a row that t writes.
AddDep(t, u) == deps' = [deps EXCEPT ![t] = @ \cup ({u} \ (committed \cup {0, t}))]

-----------------------------------------------------------------------------
\* the district

\* Rank 1 of new-orders and payments: the row, and in it d_next_o_id, is read,
ReadDistrict(t) ==
  /\ t \in Writers /\ At(t, 1, "run")
  /\ o_id' = [o_id EXCEPT ![t] = d_next_o_id]
  /\ Goto(t, "write_district")
  /\ UNCHANGED <<queueVars, tableVars, infoVars, piece>>
  /\ UNCHANGED <<read_row, delete_row, no_o_id_arr, historyVars>>

\* and then written. A tag that was read and written is not checked, so others
\* may have written in between; and install stores the whole row, also when
\* write_field names the field D_YTD only, so that a payment may set the number
\* back.
WriteDistrict(t) ==
  /\ pc[t] = "write_district"
  /\ d_next_o_id' = IF t \in NewOrders THEN o_id[t] + 1 ELSE o_id[t]
  /\ AddDep(t, district_info)
  /\ district_info' = t
  /\ EndPiece(t)
  /\ UNCHANGED <<queueVars, orders, order_owner, rank, committed, tagVars, historyVars>>

\* Rank 1 of a stock-level: the row is only read, so no dependency is taken, but
\* set_access_info is called for every tag, and takes no lock. It has no effect
\* if it comes between the add_dep and the set_access_info of a writer.
PassDistrict(t) ==
  /\ t \in StockLevels /\ At(t, 1, "run")
  /\ \/ /\ district_info' = t
        /\ hidden' = hidden \cup (({district_info} \cap Writers) \ committed)
     \/ /\ \E u \in Writers : pc[u] = "write_district"
        /\ UNCHANGED <<district_info, hidden>>
  /\ EndPiece(t)
  /\ UNCHANGED <<queueVars, d_next_o_id, orders, order_owner, infoVars, tagVars>>
  /\ UNCHANGED <<removed, carriers, retried, raced>>

\* The warehouse and the items of a new-order; the warehouse, the customer and
\* the history of a payment; the order lines of a stock-level.
RunElsewhere(t) ==
  /\ pc[t] = "run"
  /\ \/ t \in NewOrders /\ rank[t] \in {2, 4}
     \/ t \in Payments /\ rank[t] \in {2, 5, 6}
     \/ t \in StockLevels /\ rank[t] = 5
  /\ EndPiece(t)
  /\ UNCHANGED <<queueVars, tableVars, infoVars, tagVars, historyVars>>

\* The name of the customer is not found: the driver calls abort(), which waits
\* for nobody.
AbortPayment(t) ==
  /\ t \in Payments /\ At(t, 5, "run")
  /\ committed' = committed \cup {t}
  /\ Goto(t, "aborted")
  /\ UNCHANGED <<queueVars, tableVars, rank, deps, piece, tagVars, historyVars>>

-----------------------------------------------------------------------------
\* new-order

\* Rank 3, try_commit_piece: the bucket is locked. If somebody has it the
\* piece runs again, with no effect,
LockForPush(t) ==
  /\ t \in NewOrders /\ At(t, 3, "run")
  /\ bucket_owner = 0
  /\ bucket_owner' = t
  /\ Goto(t, "push_row")
  /\ UNCHANGED <<rows, index, wd_index, tableVars, infoVars, piece, tagVars, historyVars>>

\* Bucket::push appends the row,
PushRow(t) ==
  /\ pc[t] = "push_row"
  /\ rows' = Append(rows, [o_id |-> o_id[t], owner |-> 0, info |-> t])
  /\ Goto(t, "insert_index")
  /\ UNCHANGED <<bucket_owner, index, wd_index, tableVars, infoVars, piece, tagVars, historyVars>>

\* Mutant: the position is that of the next row.
InsertIndex_OffByOne(t) ==
  /\ pc[t] = "insert_index"
  /\ index' = {e \in index : e[1] # o_id[t]} \cup {<<o_id[t], Len(rows) + 1>>}
  /\ Goto(t, "update_wd_index")
  /\ UNCHANGED <<bucket_owner, rows, wd_index, tableVars, infoVars, piece, tagVars, historyVars>>

\* then inserts its position into the index (over one of the same number),
InsertIndex(t) ==
  /\ pc[t] = "insert_index"
  /\ index' = {e \in index : e[1] # o_id[t]} \cup {<<o_id[t], Len(rows)>>}
  /\ Goto(t, "update_wd_index")
  /\ UNCHANGED <<bucket_owner, rows, wd_index, tableVars, infoVars, piece, tagVars, historyVars>>

\* and update_wd_index the number into the deque, under its spin lock.
UpdateWdIndex(t) ==
  /\ pc[t] = "update_wd_index"
  /\ wd_index' = Append(wd_index, o_id[t])
  /\ Goto(t, "unlock_push")
  /\ UNCHANGED <<bucket_owner, rows, index, tableVars, infoVars, piece, tagVars, historyVars>>

UnlockPush(t) ==
  /\ pc[t] = "unlock_push"
  /\ bucket_owner' = 0
  /\ EndPiece(t)
  /\ UNCHANGED <<rows, index, wd_index, tableVars, infoVars, tagVars, historyVars>>

\* Rank 5: the order bucket is locked and its index changed,
LockForOrder(t) ==
  /\ t \in NewOrders /\ At(t, 5, "run")
  /\ order_owner = 0
  /\ order_owner' = t
  /\ Goto(t, "insert_order")
  /\ UNCHANGED <<queueVars, d_next_o_id, district_info, orders, infoVars, piece, tagVars, historyVars>>

\* until the order can be found.
InsertOrder(t) ==
  /\ pc[t] = "insert_order"
  /\ orders' = orders \cup {o_id[t]}
  /\ order_owner' = 0
  /\ EndPiece(t)
  /\ UNCHANGED <<queueVars, d_next_o_id, district_info, infoVars, tagVars, historyVars>>

-----------------------------------------------------------------------------
\* delivery

\* Somebody else changes the index of the neworder bucket.
Racing == \E u \in Tids : pc[u] \in {"insert_index", "remove_index"}

\* Bucket::retrieve, no lock taken: the positions it may return, 0 for None.
Retrieve(o) ==
  LET found == {e[2] : e \in {f \in index : f[1] = o}}
  IN  IF found = {} \/ Racing THEN found \cup {0} ELSE found

\* t missed a row that was there.
Missed(t, o, r) ==
  raced' = IF r = 0 /\ \E e \in index : e[1] = o THEN raced \cup {t} ELSE raced

\* no_o_id_arr is created outside the loop over the attempts: the entry of the
\* district is that of the first attempt, later ones are appended behind it.
Collect(t, o) ==
  no_o_id_arr' = [no_o_id_arr EXCEPT ![t] = IF @ = <<>> THEN <<o>> ELSE @]

\* Rank 3: retrieve_min_oid looks the first number of the deque up in the
\* bucket, under the spin lock of the deque, and the row is read.
RetrieveMin(t) ==
  /\ t \in Deliveries /\ At(t, 3, "run")
  /\ wd_index # <<>>
  /\ \E r \in Retrieve(Head(wd_index)) :
       /\ Missed(t, Head(wd_index), r)
       /\ read_row' = [read_row EXCEPT ![t] = r]
       /\ IF r # 0
          THEN /\ o_id' = [o_id EXCEPT ![t] = rows[r].o_id]
               /\ Goto(t, "delete")
               /\ UNCHANGED <<piece, no_o_id_arr>>
          ELSE /\ Collect(t, 0)
               /\ EndPiece(t)
               /\ UNCHANGED o_id
  /\ UNCHANGED <<queueVars, tableVars, infoVars, delete_row, removed, carriers, hidden, retried>>

\* The district has no order to deliver: a piece without tags commits.
NothingQueued(t) ==
  /\ t \in Deliveries /\ At(t, 3, "run")
  /\ wd_index = <<>>
  /\ Collect(t, 0)
  /\ EndPiece(t)
  /\ UNCHANGED <<queueVars, tableVars, infoVars, o_id, read_row, delete_row, historyVars>>

\* delete_pc_raw looks the row up again and makes a tag that deletes it; if
\* it is gone the workload returns false and the driver calls abort().
DeleteRow(t) ==
  /\ pc[t] = "delete"
  /\ \E r \in Retrieve(o_id[t]) :
       /\ Missed(t, o_id[t], r)
       /\ delete_row' = [delete_row EXCEPT ![t] = r]
       /\ IF r # 0
          THEN /\ Collect(t, o_id[t])
               /\ Goto(t, "lock_bucket")
               /\ UNCHANGED committed
          ELSE /\ committed' = committed \cup {t}
               /\ Goto(t, "aborted")
               /\ UNCHANGED no_o_id_arr
  /\ UNCHANGED <<queueVars, tableVars, rank, deps, piece, o_id, read_row>>
  /\ UNCHANGED <<removed, carriers, hidden, retried>>

\* NewOrderRef::lock of a Delete: the bucket first. If it is taken the piece
\* runs again, and goes on appending to the array of its first attempt.
LockBucket(t) ==
  /\ pc[t] = "lock_bucket"
  /\ IF bucket_owner \in {0, t}
     THEN bucket_owner' = t /\ Goto(t, "lock_row") /\ UNCHANGED retried
     ELSE retried' = retried \cup {t} /\ Goto(t, "run") /\ UNCHANGED bucket_owner
  /\ UNCHANGED <<rows, index, wd_index, tableVars, infoVars, piece, tagVars>>
  /\ UNCHANGED <<removed, carriers, hidden, raced>>

\* Mutant: the row is refused if a transaction has accessed it.
LockRow_Accessed(t) ==
  LET r == delete_row[t] IN
  /\ pc[t] = "lock_row"
  /\ IF rows[r].owner \in {0, t} /\ rows[r].info \in {0, t}
     THEN /\ rows' = [rows EXCEPT ![r].owner = t]
          /\ AddDep(t, rows[r].info)
          /\ Goto(t, "delete_index")
          /\ UNCHANGED <<bucket_owner, retried>>
     ELSE /\ bucket_owner' = 0
          /\ retried' = retried \cup {t}
          /\ Goto(t, "run")
          /\ UNCHANGED <<rows, deps>>
  /\ UNCHANGED <<index, wd_index, tableVars, rank, committed, piece, tagVars>>
  /\ UNCHANGED <<removed, carriers, hidden, raced>>

\* Then the row; were it taken the bucket would stay locked, because the tag
\* counts as not locked. Then check, whose version never changes, of the row
\* that was read, and add_dep for the row that is deleted.
LockRow(t) ==
  LET r == delete_row[t] IN
  /\ pc[t] = "lock_row"
  /\ IF rows[r].owner \in {0, t} /\ rows[read_row[t]].owner \in {0, t}
     THEN /\ rows' = [rows EXCEPT ![r].owner = t]
          /\ AddDep(t, rows[r].info)
          /\ Goto(t, "delete_index")
          /\ UNCHANGED retried
     ELSE retried' = retried \cup {t} /\ Goto(t, "run") /\ UNCHANGED <<rows, deps>>
  /\ UNCHANGED <<bucket_owner, index, wd_index, tableVars, rank, committed, piece, tagVars>>
  /\ UNCHANGED <<removed, carriers, hidden, raced>>

\* The deque without the first o.
Without(s, o) ==
  LET i == CHOOSE j \in DOMAIN s : s[j] = o /\ \A k \in 1..(j - 1) : s[k] # o
  IN  SubSeq(s, 1, i - 1) \o SubSeq(s, i + 1, Len(s))

Queued(o) == \E i \in DOMAIN wd_index : wd_index[i] = o

\* Mutant: the first number goes, whichever it is.
DeleteIndex_First(t) ==
  /\ pc[t] = "delete_index"
  /\ IF wd_index # <<>>
     THEN /\ wd_index' = Tail(wd_index)
          /\ removed' = removed \cup {<<t, Head(wd_index)>>}
          /\ Goto(t, "remove_index")
     ELSE Goto(t, "set_info") /\ UNCHANGED <<wd_index, removed>>
  /\ UNCHANGED <<bucket_owner, rows, index, tableVars, infoVars, piece, tagVars>>
  /\ UNCHANGED <<carriers, hidden, retried, raced>>

\* install of a Delete: delete_index, under the spin lock of the deque. The
\* number may be gone ("hack so double delete allowed"),
DeleteIndex(t) ==
  /\ pc[t] = "delete_index"
  /\ IF Queued(o_id[t])
     THEN /\ wd_index' = Without(wd_index, o_id[t])
          /\ removed' = removed \cup {<<t, o_id[t]>>}
          /\ Goto(t, "remove_index")
     ELSE Goto(t, "set_info") /\ UNCHANGED <<wd_index, removed>>
  /\ UNCHANGED <<bucket_owner, rows, index, tableVars, infoVars, piece, tagVars>>
  /\ UNCHANGED <<carriers, hidden, retried, raced>>

\* and Bucket::delete only if it was not. The row stays in rows.
RemoveIndex(t) ==
  /\ pc[t] = "remove_index"
  /\ index' = {e \in index : e[1] # o_id[t]}
  /\ Goto(t, "set_info")
  /\ UNCHANGED <<bucket_owner, rows, wd_index, tableVars, infoVars, piece, tagVars, historyVars>>

\* Mutant: the bucket is released before the row.
UnlockRow_BucketFirst(t) ==
  /\ pc[t] = "set_info"
  /\ bucket_owner' = 0
  /\ Goto(t, "unlock_bucket")
  /\ UNCHANGED <<rows, index, wd_index, tableVars, infoVars, piece, tagVars, historyVars>>

\* Mutant: the row does not tell who deleted it.
UnlockRow_InfoKept(t) ==
  /\ pc[t] = "set_info"
  /\ rows' = [rows EXCEPT ![delete_row[t]].owner = 0]
  /\ Goto(t, "unlock_bucket")
  /\ UNCHANGED <<bucket_owner, index, wd_index, tableVars, infoVars, piece, tagVars, historyVars>>

\* set_access_info of both tags; NewOrderRef::unlock: the row,
UnlockRow(t) ==
  /\ pc[t] = "set_info"
  /\ rows' = [r \in DOMAIN rows |->
       [rows[r] EXCEPT !.info = IF r \in {read_row[t], delete_row[t]} THEN t ELSE @,
                       !.owner = IF r = delete_row[t] THEN 0 ELSE @]]
  /\ Goto(t, "unlock_bucket")
  /\ UNCHANGED <<bucket_owner, index, wd_index, tableVars, infoVars, piece, tagVars, historyVars>>

\* then the bucket.
UnlockBucket(t) ==
  /\ pc[t] = "unlock_bucket"
  /\ bucket_owner' = 0
  /\ EndPiece(t)
  /\ UNCHANGED <<rows, index, wd_index, tableVars, infoVars, tagVars, historyVars>>

\* The entry of the district.
Entry(t) == no_o_id_arr[t][1]

\* Rank 5: the order is updated, or there is nothing to deliver, or the order
\* is not found and the thread panics ("order empty").
Deliver(t) ==
  /\ t \in Deliveries /\ At(t, 5, "run")
  /\ \/ /\ Entry(t) \in orders
        /\ carriers' = [carriers EXCEPT ![Entry(t)] = Append(@, t)]
        /\ EndPiece(t)
        /\ UNCHANGED raced
     \/ /\ Entry(t) = 0
        /\ EndPiece(t)
        /\ UNCHANGED <<carriers, raced>>
     \/ /\ Entry(t) # 0
        /\ Entry(t) \notin orders \/ order_owner # 0
        /\ Goto(t, "panic")
        /\ raced' = IF Entry(t) \in orders THEN raced \cup {t} ELSE raced
        /\ UNCHANGED <<carriers, piece>>
  /\ UNCHANGED <<queueVars, tableVars, infoVars, tagVars, removed, hidden, retried>>

\* wait_deps_commit and commit.
Commit(t) ==
  /\ pc[t] = "wait"
  /\ piece[t] > Len(PieceRanks(t))
  /\ deps[t] \subseteq committed
  /\ committed' = committed \cup {t}
  /\ Goto(t, "done")
  /\ UNCHANGED <<queueVars, tableVars, rank, deps, piece, tagVars, historyVars>>

-----------------------------------------------------------------------------

\* Some orders are queued, as fill_order and fill_new_order leave them.
Init ==
  \E n \in 0..MaxQueued, mix \in Mixes :
    /\ d_next_o_id = n + 1
    /\ district_info = 0
    /\ bucket_owner = 0
    /\ rows = [i \in 1..n |-> [o_id |-> i, owner |-> 0, info |-> 0]]
    /\ index = {<<i, i>> : i \in 1..n}
    /\ wd_index = [i \in 1..n |-> i]
    /\ orders = 1..n
    /\ order_owner = 0
    /\ rank = [t \in Tids |-> 0]
    /\ committed = {}
    /\ deps = [t \in Tids |-> {}]
    /\ piece = [t \in Tids |-> 1]
    /\ pc = [t \in Tids |-> IF t \in mix THEN "wait" ELSE "done"]
    /\ o_id = [t \in Tids |-> 0]
    /\ read_row = [t \in Tids |-> 0]
    /\ delete_row = [t \in Tids |-> 0]
    /\ no_o_id_arr = [t \in Tids |-> <<>>]
    /\ removed = {}
    /\ carriers = [o \in 1..MaxOrder |-> <<>>]
    /\ hidden = {}
    /\ retried = {}
    /\ raced = {}

Step(t) ==
  \/ StartPiece(t) \/ RunElsewhere(t) \/ Commit(t)
  \/ ReadDistrict(t) \/ WriteDistrict(t) \/ PassDistrict(t) \/ AbortPayment(t)
  \/ LockForPush(t) \/ PushRow(t) \/ InsertIndex(t) \/ UpdateWdIndex(t) \/ UnlockPush(t)
  \/ LockForOrder(t) \/ InsertOrder(t)
  \/ RetrieveMin(t) \/ NothingQueued(t) \/ DeleteRow(t) \/ LockBucket(t) \/ LockRow(t)
  \/ DeleteIndex(t) \/ RemoveIndex(t) \/ UnlockRow(t) \/ UnlockBucket(t) \/ Deliver(t)

Panicked == \E t \in Tids : pc[t] = "panic"

\* All transactions have ended, or one never will and others wait for it.
Terminated ==
  /\ Panicked \/ \A t \in Tids : pc[t] \in {"done", "aborted"}
  /\ UNCHANGED vars

Next == (\E t \in Tids : Step(t)) \/ Terminated

Spec == Init /\ [][Next]_vars /\ \A t \in Tids : WF_vars(Step(t))

-----------------------------------------------------------------------------

TypeOK ==
  /\ d_next_o_id \in 1..(MaxOrder + 1)
  /\ district_info \in (Tids \ Deliveries) \cup {0}
  /\ bucket_owner \in Tids \cup {0}
  /\ order_owner \in NewOrders \cup {0}
  /\ rows \in Seq([o_id : 1..MaxOrder, owner : Deliveries \cup {0},
                   info : NewOrders \cup Deliveries \cup {0}])
  /\ index \subseteq (1..MaxOrder) \X (1..Len(rows))
  /\ wd_index \in Seq(1..MaxOrder)
  /\ orders \subseteq 1..MaxOrder
  /\ rank \in [Tids -> 0..6]
  /\ piece \in [Tids -> 1..6]
  /\ committed \subseteq Tids
  /\ deps \in [Tids -> SUBSET Tids]
  /\ o_id \in [Tids -> 0..(MaxOrder + 1)]
  /\ \A t \in Tids : read_row[t] \in 0..Len(rows) /\ delete_row[t] \in 0..Len(rows)
  /\ no_o_id_arr \in [Tids -> Seq(0..MaxOrder)]

\* The order numbers drawn so far are distinct.
DistinctNumbers ==
  \A i, j \in DOMAIN rows : i # j => rows[i].o_id # rows[j].o_id

\* The deque is sorted, as retrieve_min_oid expects when it takes the first
\* entry for the smallest, and its entries lead to their rows, while new-orders
\* push and deliveries remove without locking the two indexes together. If two
\* new-orders drew one number, the second entry of it leads nowhere once the
\* first is removed. If a stock-level has hidden a new-order that is still
\* under way from the next one, that one need not wait for it, and the deque
\* may be out of order.
QueueInOrder ==
  DistinctNumbers =>
    /\ hidden = {} => \A i, j \in DOMAIN wd_index : i < j => wd_index[i] < wd_index[j]
    /\ \A i \in DOMAIN wd_index : \E e \in index :
         e[1] = wd_index[i] /\ rows[e[2]].o_id = wd_index[i]

\* The row lock of a Delete is only ever held under the bucket's lock, so
\* that taking it cannot fail and leave the bucket locked for good.
RowLockUnderBucketLock ==
  /\ \A r \in DOMAIN rows : rows[r].owner # 0 => rows[r].owner = bucket_owner
  /\ bucket_owner # 0 => pc[bucket_owner] \notin {"wait", "run", "done", "aborted"}

\* "order empty": a delivery finds the order of the NewOrder row it took. The
\* order is pushed two ranks later, so this rests on the dependency on the
\* new-order. It is not so for a delivery that ran its first piece again: the
\* entry left over from the first attempt may be of an order that another
\* delivery took and whose new-order is not finished.
OrderFound ==
  \A t \in Deliveries : pc[t] = "panic" => t \in retried \cup raced

\* What a delivery took off the queue it delivers, unless it ran its first
\* piece again: then it delivers the order of its first attempt (for the
\* second time) and the one it took is lost.
RemovedIsDelivered ==
  \A p \in removed :
    p[1] \in committed /\ p[1] \notin retried =>
      \E i \in DOMAIN carriers[p[2]] : carriers[p[2]][i] = p[1]

\* Two deliveries may both deliver an order, when the second read the queue
\* before the first removed the row. But the second waits then: the first has
\* committed when the second updates the order. (Not so if one of them has the
\* order from an attempt that failed: no dependency was taken then.)
DeliveriesInTurn ==
  DistinctNumbers =>
    \A o \in DOMAIN carriers : \A i, j \in DOMAIN carriers[o] :
      i < j =>
        \/ carriers[o][i] \in committed
        \/ {carriers[o][i], carriers[o][j]} \cap retried # {}

\* Every transaction ends, whatever it fails and repeats, unless one panics.
EventuallyEnds ==
  <>Panicked \/ \A t \in Tids : <>(pc[t] \in {"done", "aborted"})

=============================================================================
