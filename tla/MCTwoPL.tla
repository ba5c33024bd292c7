------------------------------- MODULE MCTwoPL -------------------------------
(***************************************************************************)
(* Instances of TwoPL for TLC: the micro-benchmark (run_micro_2pl) and the *)
(* TPC-C new-order transaction (TpccLock), on two warehouses of one        *)
(* district each.                                                          *)
(***************************************************************************)
EXTENDS TwoPL, TpccLock, Numbering

MCTids == {1, 2, 3}

\* The most rows and buckets of a mix; an item comes first among the objects.
RowsSize == 8
BucketsSize == 6

Mix(p1, p2, p3) == [t \in MCTids |-> CASE t = 1 -> p1 [] t = 2 -> p2 [] t = 3 -> p3]

\* The objects of a mix are numbered from 2; 1 is the item.
Numbered(m) ==
  LET objects == UNION {UNION {Accessed(p) : p \in m[t]} : t \in MCTids}
      n == Numbers(objects \ {Item(1)}, RowsSize)
      number == [o \in objects |-> IF o = Item(1) THEN 1 ELSE n[o] + 1]
  IN  [t \in MCTids |-> {Renumber(p, number) : p \in m[t]}]

-----------------------------------------------------------------------------

k1 == Stock(1, 1)
k2 == Stock(2, 1)

\* Read keys, then write keys, all locked before the values are touched.
Micro(r, w) == <<RowRef(ReadLock, r), RowRef(WriteLock, w), RowRef(Read, r), RowRef(Write, w)>>

\* The same keys drawn twice.
MicroTwice(r, w) ==
  <<RowRef(ReadLock, r), RowRef(ReadLock, r), RowRef(WriteLock, w), RowRef(WriteLock, w),
    RowRef(Read, r), RowRef(Write, w), RowRef(Write, w)>>

MicroAny == {Micro(r, w) : r \in {k1, k2}, w \in {k1, k2}}

MicroMix == Numbered(Mix(MicroAny, MicroAny, {MicroTwice(k1, k2), MicroTwice(k2, k2)}))

\* New orders of warehouse w, whose lines are supplied by the warehouses
\* supplies; the stock is locked in the order of the lines.
NewOrderOf(w, supplies) ==
  new_order([w_id |-> w, d_id |-> 1, c_id |-> 1,
             lines |-> [n \in DOMAIN supplies |-> [supply |-> supplies[n], item |-> 1]]])

SameDistrict ==
  Numbered(Mix({NewOrderOf(1, <<1, 2>>), NewOrderOf(1, <<2, 1>>)}, {NewOrderOf(1, <<2, 1>>)}, {}))

\* Excerpts of new orders of warehouse w: the district, one line each for s1
\* and s2, without what they only read or insert.
Excerpt(w, s1, s2) ==
  << RowRef(WriteLock, District(w, 1)), RowRef(WriteLock, s1), RowRef(WriteLock, s2),
     RowRef(Read, District(w, 1)), RowRef(Write, District(w, 1)),
     RowRef(Read, s1), RowRef(Write, s1), RowRef(Read, s2), RowRef(Write, s2) >>

Crossing ==
  Numbered(Mix({Excerpt(1, k1, k2)}, {Excerpt(1, k2, k2), Excerpt(2, k2, k1)},
               {Excerpt(1, k2, k1), Excerpt(2, k1, k2)}))

AllMixes == << MicroMix, SameDistrict, Crossing >>
MicroMixes == << MicroMix >>

\* TLC evaluates AllMixes once, but what it substitutes for Mixes at each use.
MCMixes == AllMixes

MCObjects == 1..(1 + RowsSize + BucketsSize)
MCItems == {1}

=============================================================================
