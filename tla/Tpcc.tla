-------------------------------- MODULE Tpcc ---------------------------------
(***************************************************************************)
(* The TPC-C database as the transactions see it: rows and the buckets     *)
(* that hold them (entry.rs, tpcc_tables.rs), the references (TRef) that   *)
(* say which version word an access locks and checks (entry_ref.rs), and   *)
(* the inputs of the transactions. The modules Tpcc* build the programs of *)
(* the workload files from these operators; they have no state.            *)
(*                                                                         *)
(* A name that leads to no customer, and one that leads to customer c, are *)
(* the two ways of asking by name; the columns of a row are left out.      *)
(***************************************************************************)
EXTENDS Refs, Naturals, Sequences, FiniteSets

CONSTANTS
  num_wh,      \* G_NUM_WAREHOUSES
  num_dis,     \* G_NUM_DIS
  bucket_num,  \* Table.bucket_num of the tables but item
  Customers,   \* customer numbers of a district
  Items,       \* item numbers
  MaxLines     \* bound: most lines of a new order (5 to 15 in the program)

ASSUME TpccAssumption ==
  /\ {num_wh, num_dis, bucket_num, MaxLines} \subseteq Nat \ {0}
  /\ Customers \cup Items \subseteq Nat

Warehouses == 1..num_wh
Districts == 1..num_dis

-----------------------------------------------------------------------------
\* Rows: a key, and where Table keeps the row.

Row(table, key, bucket_key) ==
  [table |-> table, key |-> key, bucket |-> bucket_key % bucket_num]

\* The number of a district's bucket.
DistrictKey(w, d) == w * num_dis + d

Warehouse(w) == Row("warehouse", <<w>>, w)
District(w, d) == Row("district", <<w, d>>, DistrictKey(w, d))
Customer(w, d, c) == Row("customer", <<w, d, c>>, DistrictKey(w, d))
NewOrderRow(w, d, o) == Row("neworder", <<w, d, o>>, DistrictKey(w, d))
Order(w, d, o) == Row("order", <<w, d, o>>, DistrictKey(w, d))
OrderLine(w, d, o, n) == Row("orderline", <<w, d, o, n>>, DistrictKey(w, d))
Item(i) == [table |-> "item", key |-> <<i>>, bucket |-> i % 512]
Stock(w, i) == Row("stock", <<w, i>>, w)
History(w, d) == Row("history", <<w, d>>, DistrictKey(w, d))

\* The object that stands for the bucket of a row.
BucketOf(row) == [row EXCEPT !.key = <<>>]

\* retrieve of CustomerTable, NewOrderTable, OrderTable and OrderLineTable:
\* the bucket they look in. The workloads compute it for the other tables.
RetrieveBucket(key) == (key[1] * num_dis + key[2]) % bucket_num

\* The new-order bucket a delivery removes from (NewOrderTable::delete).
DeleteBucket(key) == (key[1] * num_dis + key[2]) % bucket_num

-----------------------------------------------------------------------------
\* References: an operation and the word it locks, as an operation of a
\* program. Rows are locked and checked themselves; an insertion or a removal
\* locks the bucket and is not checked.

RowRef(op, row) == [op |-> op, obj |-> row]
BucketRef(op, row) == [op |-> op, obj |-> BucketOf(row)]

WarehouseRef(op, w) == RowRef(op, Warehouse(w))
DistrictRef(op, w, d) == RowRef(op, District(w, d))
CustomerRef(op, w, d, c) == RowRef(op, Customer(w, d, c))
StockRef(op, w, i) == RowRef(op, Stock(w, i))
HistoryRef(op, w, d) == BucketRef(op, History(w, d))

\* An item is read only: nothing else is implemented.
ItemRef(i) == RowRef(Read, Item(i))

\* With a table_ref_ a reference is for a push, without it for the row. The
\* push also enters the row in the secondary index of its table.
OrderRef(op, w, d, o) ==
  IF op = Push THEN BucketRef(op, Order(w, d, o)) ELSE RowRef(op, Order(w, d, o))
OrderLineRef(op, w, d, o, n) ==
  IF op = Push THEN BucketRef(op, OrderLine(w, d, o, n))
  ELSE RowRef(op, OrderLine(w, d, o, n))

\* A removal locks the bucket and then the row, which nobody locks without
\* the bucket (module Orders), so the bucket stands for both.
NewOrderRef(op, w, d, o) ==
  IF op \in {Push, Delete} THEN BucketRef(op, NewOrderRow(w, d, o))
  ELSE RowRef(op, NewOrderRow(w, d, o))

-----------------------------------------------------------------------------
\* The database that prepare_workload leaves: each district has one order,
\* number 1 of customer 1, undelivered, with a line for each item.

LastOrder == 1
OrderLines == 1..Cardinality(Items)
CustomerOf(o) == CHOOSE c \in Customers : TRUE
ItemOf(n) == CHOOSE i \in Items : Cardinality({j \in Items : j < i}) = n - 1

\* The first order to come, D_NEXT_O_ID.
NextOrder == LastOrder + 1

\* pc_new_order_input: the home warehouse w, a district, a customer, and for
\* each line an item and the warehouse that supplies it.
NewOrderInput(w) ==
  [w_id : {w}, d_id : Districts, c_id : Customers,
   lines : UNION {[1..n -> [supply : Warehouses, item : Items]] : n \in 1..MaxLines}]

\* pc_payment_input: the customer's district is the one of the payment or any
\* of another warehouse; the customer is given by number or by name.
PaymentInput(w) ==
  {in \in [w_id : {w}, d_id : Districts, c_w_id : Warehouses, c_d_id : Districts,
           c_id : Customers, by_name : BOOLEAN] :
     in.c_w_id = w => in.c_d_id = in.d_id}

\* pc_orderstatus_input.
OrderStatusInput(w) ==
  [w_id : {w}, d_id : Districts, c_id : Customers, by_name : BOOLEAN]

\* The look-up op of a customer: by number it finds its row, by name
\* (find_by_name_id) it may find none.
FindCustomer(op, in, w, d) ==
  IF in.by_name THEN <<CustomerRef(op, w, d, in.c_id)>> ELSE <<>>

\* A sequence for each element of a sequence, put together.
Concat(n, F(_)) ==
  LET f[i \in 0..n] == IF i = 0 THEN <<>> ELSE f[i - 1] \o F(i) IN f[n]

-----------------------------------------------------------------------------
\* Facts the programs rest on, for the values of a configuration.

\* A row is retrieved from the bucket that holds it.
ASSUME FoundWhereKept ==
  \A w \in Warehouses, d \in Districts :
    /\ \A c \in Customers : Customer(w, d, c).bucket = RetrieveBucket(<<w, d, c>>)
    /\ \A o \in {LastOrder, NextOrder} :
         /\ Order(w, d, o).bucket = RetrieveBucket(<<w, d, o>>)
         /\ NewOrderRow(w, d, o).bucket = DeleteBucket(<<w, d, o>>)
         /\ \A n \in OrderLines :
              OrderLine(w, d, o, n).bucket = RetrieveBucket(<<w, d, o, n>>)

\* With a bucket per district, no two districts share one.
ASSUME DistrictsApart ==
  bucket_num = num_wh * num_dis =>
    \A w, v \in Warehouses, d, e \in Districts :
      District(w, d).bucket = District(v, e).bucket => <<w, d>> = <<v, e>>

=============================================================================
