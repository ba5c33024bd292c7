------------------------------ MODULE MCParTxn ------------------------------
(***************************************************************************)
(* Instances of ParTxn for TLC: excerpts of TPC-C transactions by three    *)
(* transactions, with the ranks of the workloads (district 1, warehouse 2, *)
(* customer 5), and whole TPC-C transactions of both kinds in pairs, on    *)
(* two warehouses of one district each.                                    *)
(***************************************************************************)
EXTENDS ParTxn, TpccRaw, TpccPar, Numbering

MCTids == {1, 2, 3}

\* The most rows and buckets of a mix.
RowsSize == 9
BucketsSize == 4

Mix(kind, p1, p2, p3) ==
  [kind |-> kind,
   programs |-> [t \in MCTids |-> CASE t = 1 -> p1 [] t = 2 -> p2 [] t = 3 -> p3]]

AccessedBy(p) == UNION {Accessed(p[i].ops) : i \in DOMAIN p}

Numbered(m) ==
  LET number == Numbers(UNION {UNION {AccessedBy(p) : p \in m.programs[t]} : t \in MCTids}, RowsSize)
  IN  [m EXCEPT !.programs = [t \in MCTids |->
         {[i \in DOMAIN p |-> [p[i] EXCEPT !.ops = Renumber(@, number)]] : p \in m.programs[t]}]]

-----------------------------------------------------------------------------
\* Excerpts.

R(o) == RowRef(Read, o)
W(o) == RowRef(Write, o)
L(o) == RowRef(LookUp, o)

district == District(1, 1)
warehouse == Warehouse(1)
customer == Customer(1, 1, 1)

\* A payment updates the district and the customer, whom it may not find; a
\* payment by number finds the customer.
Payment == << PieceOf(1, <<W(district)>>), PieceOf(5, <<L(customer), W(customer)>>) >>
PaymentByNumber == << PieceOf(1, <<W(district)>>), PieceOf(5, <<W(customer)>>) >>

\* A new order updates the district and only reads the warehouse. The other
\* one updates the warehouse too.
NewOrderExcerpt == << PieceOf(1, <<W(district)>>), PieceOf(2, <<R(warehouse)>>) >>
BothUpdated == << PieceOf(1, <<W(district)>>), PieceOf(2, <<W(warehouse)>>) >>

\* Payments without the reads that precede their writes, and a transaction
\* that only reads the warehouse.
WriteBoth == << PieceOf(2, <<W(warehouse)>>), PieceOf(5, <<W(customer)>>) >>
ReadWarehouse == << PieceOf(2, <<R(warehouse)>>) >>
UpdateWarehouse == << PieceOf(2, <<W(warehouse)>>) >>

-----------------------------------------------------------------------------
\* Whole transactions.

NewOrderFrom(s) ==
  [w_id |-> 1, d_id |-> 1, c_id |-> 1, lines |-> <<[supply |-> s, item |-> 1]>>]
PaymentFor(w, c, by_name) ==
  [w_id |-> w, d_id |-> 1, c_w_id |-> c, c_d_id |-> 1, c_id |-> 1, by_name |-> by_name]
StatusByName == [w_id |-> 1, d_id |-> 1, c_id |-> 1, by_name |-> TRUE]

AllMixes ==
  << Numbered(Mix(Raw, {Payment}, {NewOrderExcerpt}, {WriteBoth})),
     Numbered(Mix(Callback, {Payment}, {BothUpdated}, {PaymentByNumber})),
     Numbered(Mix(Raw, {do_pc_new_order(NewOrderFrom(1))}, {do_pc_new_order(NewOrderFrom(2))}, {})),
     Numbered(Mix(Raw, {do_pc_new_order(NewOrderFrom(1))}, {do_pc_stocklevel(1, 1)}, {})),
     Numbered(Mix(Raw, {do_pc_payment(PaymentFor(1, 1, TRUE))},
                  {do_pc_payment(PaymentFor(2, 1, FALSE))}, {})),
     Numbered(Mix(Raw, {do_pc_delivery(1)},
                  {do_pc_orderstatus(StatusByName), do_pc_payment(PaymentFor(1, 1, FALSE))}, {})),
     Numbered(Mix(Callback, {Pieces(pc_delivery_base(1))},
                  {Pieces(pc_new_order_base(NewOrderFrom(1)))}, {})),
     Numbered(Mix(Callback, {Pieces(pc_payment_base(PaymentFor(1, 1, TRUE)))},
                  {Pieces(pc_orderstatus_base(StatusByName))}, {})) >>

ReaderMixes == << Numbered(Mix(Raw, {WriteBoth}, {WriteBoth}, {ReadWarehouse})) >>

PersistMixes == << Numbered(Mix(Raw, {UpdateWarehouse}, {UpdateWarehouse}, {})) >>

\* TLC evaluates AllMixes once, but what it substitutes for Mixes at each use.
MCMixes == AllMixes

MCObjects == 1..(RowsSize + BucketsSize)
MCBuckets == (RowsSize + 1)..(RowsSize + BucketsSize)

=============================================================================
