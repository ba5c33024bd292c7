------------------------------ MODULE MCOccTxn ------------------------------
(***************************************************************************)
(* Instances of OccTxn for TLC: three transactions whose accesses cross,   *)
(* and the TPC-C transactions of TpccOcc in pairs, on two warehouses of    *)
(* one district each.                                                      *)
(***************************************************************************)
EXTENDS OccTxn, TpccOcc, Numbering

MCTids == {1, 2, 3}

\* The most rows and buckets of a mix.
RowsSize == 9
BucketsSize == 6

Mix(p1, p2, p3) == [t \in MCTids |-> CASE t = 1 -> p1 [] t = 2 -> p2 [] t = 3 -> p3]

-----------------------------------------------------------------------------
\* Excerpts on three rows, cut so that no transaction writes what it has read.

x == Stock(1, 1)
y == Stock(1, 2)
z == Stock(2, 1)

Crossing ==
  Mix({<<RowRef(Read, x), RowRef(Write, y)>>,
       <<RowRef(LookUp, x), RowRef(Write, x), RowRef(Write, y)>>},
      {<<RowRef(Read, y), RowRef(Write, x)>>, <<RowRef(Read, z), RowRef(Write, x)>>},
      {<<RowRef(Read, x), RowRef(Read, y)>>, <<RowRef(Read, y), RowRef(Write, z)>>})

-----------------------------------------------------------------------------
\* Pairs of transactions.

\* New orders of warehouse 1: one line, supplied by warehouse s, and two lines
\* for the same item.
Line(s) == [supply |-> s, item |-> 1]
NewOrderOf(lines) == new_order([w_id |-> 1, d_id |-> 1, c_id |-> 1, lines |-> lines])
OneLine(s) == NewOrderOf(<<Line(s)>>)
SameItem(s) == NewOrderOf(<<Line(s), Line(s)>>)

\* Payments of warehouse w to a customer of its own, by name, or to one of
\* warehouse c, by number. An order's status is asked for by name.
Payments(w, c) == {payment(in) : in \in {i \in PaymentInput(w) : i.c_w_id = c /\ i.by_name = (c = w)}}
StatusByName == {orderstatus(in) : in \in {i \in OrderStatusInput(1) : i.by_name}}

Numbered(m) ==
  LET number == Numbers(UNION {UNION {Accessed(p) : p \in m[t]} : t \in MCTids}, RowsSize)
  IN  [t \in MCTids |-> {Renumber(p, number) : p \in m[t]}]

AllMixes ==
  << Numbered(Crossing),
     Numbered(Mix({OneLine(2)}, {OneLine(1), SameItem(2)}, {})),
     Numbered(Mix({stocklevel(1, 1)}, {OneLine(1)}, {})),
     Numbered(Mix(Payments(1, 2), Payments(2, 2), {})),
     Numbered(Mix(Payments(1, 1), StatusByName, {})),
     Numbered(Mix({delivery(1)}, StatusByName, {})),
     Numbered(Mix({delivery(1)}, {stocklevel(1, 1)}, {})) >>

NewOrderMixes == << Numbered(Mix({OneLine(1), OneLine(2)}, {OneLine(1)}, {})) >>

\* TLC evaluates AllMixes once, but what it substitutes for Mixes at each use.
MCMixes == AllMixes

MCObjects == 1..(RowsSize + BucketsSize)
MCBuckets == (RowsSize + 1)..(RowsSize + BucketsSize)

=============================================================================
