------------------------------ MODULE TpccOcc -------------------------------
(***************************************************************************)
(* The transactions of workload_occ.rs, each one program of a              *)
(* TransactionOCC.                                                         *)
(***************************************************************************)
EXTENDS Tpcc

\* One order line: the item is read, the stock updated, the line inserted.
NewOrderLine(in, n) ==
  LET line == in.lines[n] IN
  << ItemRef(line.item),
     StockRef(Read, line.supply, line.item), StockRef(Write, line.supply, line.item),
     OrderLineRef(Push, in.w_id, in.d_id, NextOrder, n) >>

new_order(in) ==
  << WarehouseRef(Read, in.w_id),
     CustomerRef(Read, in.w_id, in.d_id, in.c_id),
     DistrictRef(Read, in.w_id, in.d_id), DistrictRef(Write, in.w_id, in.d_id),
     OrderRef(Push, in.w_id, in.d_id, NextOrder),
     NewOrderRef(Push, in.w_id, in.d_id, NextOrder) >>
  \o Concat(Len(in.lines), LAMBDA n : NewOrderLine(in, n))

new_order_random(w_home) == {new_order(in) : in \in NewOrderInput(w_home)}

\* The warehouse and the district are updated before the customer is looked
\* up: a name without a customer ends the payment, which commits all the same.
payment(in) ==
  << WarehouseRef(Read, in.w_id), WarehouseRef(Write, in.w_id),
     DistrictRef(Read, in.w_id, in.d_id), DistrictRef(Write, in.w_id, in.d_id) >>
  \o FindCustomer(Find, in, in.c_w_id, in.c_d_id) \o
  << CustomerRef(Read, in.c_w_id, in.c_d_id, in.c_id),
     CustomerRef(Write, in.c_w_id, in.c_d_id, in.c_id),
     HistoryRef(Push, in.w_id, in.d_id) >>

payment_random(w_home) == {payment(in) : in \in PaymentInput(w_home)}

\* The customer's last order may be missing from the index (retrieve_by_cid).
orderstatus(in) ==
  FindCustomer(Find, in, in.w_id, in.d_id) \o
  << CustomerRef(Read, in.w_id, in.d_id, in.c_id),
     OrderRef(LookUp, in.w_id, in.d_id, LastOrder),
     OrderRef(Read, in.w_id, in.d_id, LastOrder) >>
  \o Concat(Cardinality(OrderLines),
            LAMBDA n : <<OrderLineRef(Read, in.w_id, in.d_id, LastOrder, n)>>)

orderstatus_random(w_home) == {orderstatus(in) : in \in OrderStatusInput(w_home)}

\* For each district the first new order is removed (its row may be gone when
\* it is looked up again), its order, lines and customer are updated.
delivery(w) ==
  Concat(num_dis, LAMBDA d :
    << NewOrderRef(Read, w, d, LastOrder), NewOrderRef(LookUp, w, d, LastOrder),
       NewOrderRef(Delete, w, d, LastOrder),
       OrderRef(Read, w, d, LastOrder), OrderRef(Write, w, d, LastOrder) >>
    \o Concat(Cardinality(OrderLines), LAMBDA n :
         << OrderLineRef(Read, w, d, LastOrder, n), OrderLineRef(Write, w, d, LastOrder, n) >>)
    \o << CustomerRef(Read, w, d, CustomerOf(LastOrder)),
          CustomerRef(Write, w, d, CustomerOf(LastOrder)) >>)

\* The lines of the last orders, and then the stock of their items.
stocklevel(w, d) ==
  << DistrictRef(Read, w, d) >>
  \o Concat(Cardinality(OrderLines), LAMBDA n : <<OrderLineRef(Read, w, d, LastOrder, n)>>)
  \o Concat(Cardinality(OrderLines), LAMBDA n : <<StockRef(Read, w, ItemOf(n))>>)

=============================================================================
