------------------------------ MODULE Numbering ------------------------------
(***************************************************************************)
(* Numbers for the rows and buckets of an instance. TLC runs the programs  *)
(* on 1..Size instead of records; each mix of programs numbers the objects *)
(* it accesses, its rows from 1 and its buckets from RowsSize + 1, so that *)
(* mixes which do not run together share the numbers.                      *)
(***************************************************************************)
EXTENDS Naturals, Sequences, FiniteSetsExt

\* The elements of a set as a sequence.
Enumerate(S) == FoldSet(LAMBDA e, seq : Append(seq, e), <<>>, S)

IndexIn(seq, e) == CHOOSE i \in DOMAIN seq : seq[i] = e

IsBucket(o) == o.key = <<>>

\* The numbers of the objects S of a mix.
Numbers(S, RowsSize) ==
  LET rows == Enumerate({o \in S : ~IsBucket(o)})
      buckets == Enumerate({o \in S : IsBucket(o)})
  IN  [o \in S |-> IF IsBucket(o) THEN RowsSize + IndexIn(buckets, o) ELSE IndexIn(rows, o)]

\* Operations, and what they access.
Accessed(ops) == {ops[i].obj : i \in DOMAIN ops}

Renumber(ops, number) == [i \in DOMAIN ops |-> [ops[i] EXCEPT !.obj = number[@]]]

=============================================================================
