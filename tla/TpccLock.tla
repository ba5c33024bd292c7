------------------------------ MODULE TpccLock ------------------------------
(***************************************************************************)
(* The transaction of workload_2pl.rs (the others are commented out) as a  *)
(* program of a Transaction2PL: every lock is taken before the first value *)
(* is read.                                                                *)
(***************************************************************************)
EXTENDS Tpcc

\* The locks: the warehouse and the customer are only read, the buckets are
\* locked by their own word; an item's read_lock does nothing.
NewOrderLocks(in) ==
  << WarehouseRef(ReadLock, in.w_id),
     CustomerRef(ReadLock, in.w_id, in.d_id, in.c_id),
     DistrictRef(WriteLock, in.w_id, in.d_id),
     BucketRef(WriteLock, Order(in.w_id, in.d_id, NextOrder)),
     BucketRef(WriteLock, NewOrderRow(in.w_id, in.d_id, NextOrder)),
     BucketRef(WriteLock, OrderLine(in.w_id, in.d_id, NextOrder, 1)) >>
  \o Concat(Len(in.lines), LAMBDA n :
       << RowRef(ReadLock, Item(in.lines[n].item)),
          StockRef(WriteLock, in.lines[n].supply, in.lines[n].item) >>)

\* The reads, the writes and, with push_lock, the insertions.
NewOrderAccesses(in) ==
  << WarehouseRef(Read, in.w_id),
     CustomerRef(Read, in.w_id, in.d_id, in.c_id),
     DistrictRef(Read, in.w_id, in.d_id), DistrictRef(Write, in.w_id, in.d_id),
     OrderRef(Push, in.w_id, in.d_id, NextOrder),
     NewOrderRef(Push, in.w_id, in.d_id, NextOrder) >>
  \o Concat(Len(in.lines), LAMBDA n :
       << ItemRef(in.lines[n].item),
          StockRef(Read, in.lines[n].supply, in.lines[n].item),
          StockRef(Write, in.lines[n].supply, in.lines[n].item),
          OrderLineRef(Push, in.w_id, in.d_id, NextOrder, n) >>)

new_order(in) == NewOrderLocks(in) \o NewOrderAccesses(in)

new_order_random(w_home) == {new_order(in) : in \in NewOrderInput(w_home)}

=============================================================================
