------------------------------ MODULE TpccPar -------------------------------
(***************************************************************************)
(* The transactions of workload_ppnvm.rs: pieces that are callbacks of a   *)
(* TransactionParOCC. What a piece hands to a later one goes through       *)
(* numbered outputs (add_output, get_output), its ins and outs here. A     *)
(* failed look-up calls should_abort and ends the callback.                *)
(***************************************************************************)
EXTENDS Tpcc

PieceOCC(r, ins, outs, ops) == [rank |-> r, ins |-> ins, outs |-> outs, ops |-> ops]

\* get_next_piece takes the pieces from the end of the list.
InOrder(base) == [i \in DOMAIN base |-> base[Len(base) + 1 - i]]

\* A transaction as ParTxn runs it.
Pieces(base) == [i \in DOMAIN base |-> [rank |-> InOrder(base)[i].rank, ops |-> InOrder(base)[i].ops]]

-----------------------------------------------------------------------------
\* New order: district, warehouse, new-order row and items, then the rest.

new_order_dis(in) ==
  PieceOCC(1, {}, <<0, 1>>,
    << DistrictRef(Read, in.w_id, in.d_id), DistrictRef(Write, in.w_id, in.d_id) >>)

new_order_wh(in) == PieceOCC(2, {}, <<2>>, << WarehouseRef(Read, in.w_id) >>)

new_order_no(in) ==
  PieceOCC(3, {0}, <<>>, << NewOrderRef(Push, in.w_id, in.d_id, NextOrder) >>)

new_order_item(in) ==
  PieceOCC(4, {}, <<3>>, [n \in DOMAIN in.lines |-> ItemRef(in.lines[n].item)])

UpdateStock(line) ==
  << StockRef(Read, line.supply, line.item), StockRef(Write, line.supply, line.item) >>

PushLine(in, n) == << OrderLineRef(Push, in.w_id, in.d_id, NextOrder, n) >>

CustomerAndOrder(in) ==
  << CustomerRef(Read, in.w_id, in.d_id, in.c_id), OrderRef(Push, in.w_id, in.d_id, NextOrder) >>

new_order_cus_o_st_ol(in) ==
  PieceOCC(5, {0, 1, 2, 3}, <<>>,
    CustomerAndOrder(in)
    \o Concat(Len(in.lines), LAMBDA n : UpdateStock(in.lines[n]) \o PushLine(in, n)))

pc_new_order_base(in) ==
  << new_order_cus_o_st_ol(in), new_order_item(in), new_order_no(in),
     new_order_wh(in), new_order_dis(in) >>

\* With feature smallpc, a piece for each stock and for each order line, all
\* of the rank of the customer and the order.
new_order_cus_o(in) == PieceOCC(5, {0, 1, 2}, <<4>>, CustomerAndOrder(in))

pc_new_order_stock_pc(in) ==
  [n \in DOMAIN in.lines |-> PieceOCC(5, {}, <<4 + n>>, UpdateStock(in.lines[n]))]
  \o [n \in DOMAIN in.lines |-> PieceOCC(5, {0, 1, 2, 3, 4, 4 + n}, <<>>, PushLine(in, n))]

pc_new_order_small(in) ==
  InOrder(<< new_order_dis(in), new_order_wh(in), new_order_no(in),
             new_order_item(in), new_order_cus_o(in) >>
          \o pc_new_order_stock_pc(in))

-----------------------------------------------------------------------------
\* The other transactions.

pc_stocklevel_base(w, d) ==
  << PieceOCC(5, {0}, <<>>,
       Concat(Cardinality(OrderLines), LAMBDA n : << OrderLineRef(Read, w, d, LastOrder, n) >>)
       \o Concat(Cardinality(OrderLines), LAMBDA n : << StockRef(Read, w, ItemOf(n)) >>)),
     PieceOCC(1, {}, <<0>>, << DistrictRef(Read, w, d) >>) >>

delivery_no(w) ==
  PieceOCC(3, {}, <<0>>, Concat(num_dis, LAMBDA d :
    << NewOrderRef(Read, w, d, LastOrder), NewOrderRef(LookUp, w, d, LastOrder),
       NewOrderRef(Delete, w, d, LastOrder) >>))

deliver_or_ol_cu(w) ==
  PieceOCC(5, {0}, <<>>, Concat(num_dis, LAMBDA d :
    << OrderRef(Read, w, d, LastOrder), OrderRef(Write, w, d, LastOrder) >>
    \o Concat(Cardinality(OrderLines), LAMBDA n :
         << OrderLineRef(Read, w, d, LastOrder, n), OrderLineRef(Write, w, d, LastOrder, n) >>)
    \o << CustomerRef(Read, w, d, CustomerOf(LastOrder)),
          CustomerRef(Write, w, d, CustomerOf(LastOrder)) >>))

pc_delivery_base(w) == << deliver_or_ol_cu(w), delivery_no(w) >>

pc_orderstatus_base(in) ==
  << PieceOCC(5, {}, <<>>,
       FindCustomer(LookUp, in, in.w_id, in.d_id)
       \o << CustomerRef(Read, in.w_id, in.d_id, in.c_id),
             OrderRef(LookUp, in.w_id, in.d_id, LastOrder),
             OrderRef(Read, in.w_id, in.d_id, LastOrder) >>
       \o Concat(Cardinality(OrderLines), LAMBDA n :
            << OrderLineRef(Read, in.w_id, in.d_id, LastOrder, n) >>)) >>

payment_dis(in) ==
  PieceOCC(1, {}, <<0>>,
    << DistrictRef(Read, in.w_id, in.d_id), DistrictRef(Write, in.w_id, in.d_id) >>)

payment_wh(in) ==
  PieceOCC(2, {}, <<1>>, << WarehouseRef(Read, in.w_id), WarehouseRef(Write, in.w_id) >>)

payment_cus(in) ==
  PieceOCC(5, {}, <<2>>,
    FindCustomer(LookUp, in, in.c_w_id, in.c_d_id)
    \o << CustomerRef(Read, in.c_w_id, in.c_d_id, in.c_id),
          CustomerRef(Write, in.c_w_id, in.c_d_id, in.c_id) >>)

payment_his(in) == PieceOCC(6, {0, 1, 2}, <<>>, << HistoryRef(Push, in.w_id, in.d_id) >>)

pc_payment_base(in) == << payment_his(in), payment_cus(in), payment_wh(in), payment_dis(in) >>

-----------------------------------------------------------------------------
\* add_output appends the outputs in the order of their numbers (it asserts
\* so), and get_output finds what an earlier piece has added.
OutputsOrdered(base) ==
  LET ps == InOrder(base)
      outs(i) == Concat(i, LAMBDA k : ps[k].outs)
  IN  /\ \A i \in 1..Len(outs(Len(ps))) : outs(Len(ps))[i] = i - 1
      /\ \A i \in DOMAIN ps : \A n \in ps[i].ins : n < Len(outs(i - 1))

\* It holds for every transaction, so no piece panics on a missing output.
ASSUME OutputsAssumption ==
  \A w \in Warehouses :
    /\ \A in \in NewOrderInput(w) :
         OutputsOrdered(pc_new_order_base(in)) /\ OutputsOrdered(pc_new_order_small(in))
    /\ \A in \in PaymentInput(w) : OutputsOrdered(pc_payment_base(in))
    /\ \A in \in OrderStatusInput(w) : OutputsOrdered(pc_orderstatus_base(in))
    /\ OutputsOrdered(pc_delivery_base(w))
    /\ \A d \in Districts : OutputsOrdered(pc_stocklevel_base(w, d))

=============================================================================
