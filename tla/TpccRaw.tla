------------------------------ MODULE TpccRaw -------------------------------
(***************************************************************************)
(* The transactions of workload_pc_raw.rs, each a list of pieces of a      *)
(* TransactionParOCCRaw: a rank, and the accesses between wait_deps_start  *)
(* and try_commit_piece. A failed look-up makes the function return false. *)
(***************************************************************************)
EXTENDS Tpcc

PieceOf(r, ops) == [rank |-> r, ops |-> ops]

\* The last piece of a new order: customer, order, stock and order lines.
OrderPiece(in) ==
  << CustomerRef(Read, in.w_id, in.d_id, in.c_id),
     OrderRef(Push, in.w_id, in.d_id, NextOrder) >>
  \o Concat(Len(in.lines), LAMBDA n :
       << StockRef(Read, in.lines[n].supply, in.lines[n].item),
          StockRef(Write, in.lines[n].supply, in.lines[n].item),
          OrderLineRef(Push, in.w_id, in.d_id, NextOrder, n) >>)

do_pc_new_order(in) ==
  << PieceOf(1, << DistrictRef(Read, in.w_id, in.d_id), DistrictRef(Write, in.w_id, in.d_id) >>),
     PieceOf(2, << WarehouseRef(Read, in.w_id) >>),
     PieceOf(3, << NewOrderRef(Push, in.w_id, in.d_id, NextOrder) >>),
     PieceOf(4, [n \in DOMAIN in.lines |-> ItemRef(in.lines[n].item)]),
     PieceOf(5, OrderPiece(in)) >>

do_pc_stocklevel(w, d) ==
  << PieceOf(1, << DistrictRef(Read, w, d) >>),
     PieceOf(5, Concat(Cardinality(OrderLines),
                     LAMBDA n : << OrderLineRef(Read, w, d, LastOrder, n) >>)
              \o Concat(Cardinality(OrderLines), LAMBDA n : << StockRef(Read, w, ItemOf(n)) >>)) >>

\* The order of a district that was delivered, its lines and its customer.
DeliveredOrder(w, d) ==
  << OrderRef(Read, w, d, LastOrder), OrderRef(Write, w, d, LastOrder) >>
  \o Concat(Cardinality(OrderLines), LAMBDA n :
       << OrderLineRef(Read, w, d, LastOrder, n), OrderLineRef(Write, w, d, LastOrder, n) >>)
  \o << CustomerRef(Read, w, d, CustomerOf(LastOrder)),
        CustomerRef(Write, w, d, CustomerOf(LastOrder)) >>

\* The first new order of each district, then the orders themselves.
do_pc_delivery(w) ==
  << PieceOf(3, Concat(num_dis, LAMBDA d :
       << NewOrderRef(Read, w, d, LastOrder), NewOrderRef(LookUp, w, d, LastOrder),
          NewOrderRef(Delete, w, d, LastOrder) >>)),
     PieceOf(5, Concat(num_dis, LAMBDA d : DeliveredOrder(w, d))) >>

do_pc_orderstatus(in) ==
  << PieceOf(5, FindCustomer(LookUp, in, in.w_id, in.d_id) \o
       << CustomerRef(Read, in.w_id, in.d_id, in.c_id),
          OrderRef(LookUp, in.w_id, in.d_id, LastOrder),
          OrderRef(Read, in.w_id, in.d_id, LastOrder) >>
       \o Concat(Cardinality(OrderLines),
                 LAMBDA n : << OrderLineRef(Read, in.w_id, in.d_id, LastOrder, n) >>)) >>

\* The district and the warehouse are updated by committed pieces before the
\* customer is looked up.
do_pc_payment(in) ==
  << PieceOf(1, << DistrictRef(Read, in.w_id, in.d_id), DistrictRef(Write, in.w_id, in.d_id) >>),
     PieceOf(2, << WarehouseRef(Read, in.w_id), WarehouseRef(Write, in.w_id) >>),
     PieceOf(5, FindCustomer(LookUp, in, in.c_w_id, in.c_d_id) \o
       << CustomerRef(Read, in.c_w_id, in.c_d_id, in.c_id),
          CustomerRef(Write, in.c_w_id, in.c_d_id, in.c_id) >>),
     PieceOf(6, << HistoryRef(Push, in.w_id, in.d_id) >>) >>

=============================================================================
