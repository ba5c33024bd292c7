-------------------------------- MODULE Refs ---------------------------------
(***************************************************************************)
(* The operations of a program, a sequence of records [op, obj]. Programs  *)
(* are what the workloads ask of a transaction; every concurrency control  *)
(* of the library runs them (OccTxn, ParTxn, TwoPL).                       *)
(***************************************************************************)

Read   == "read"    \* Transaction*::read
Write  == "write"   \* write and write_field
Push   == "push"    \* Table::push*, of a row into the bucket obj
Delete == "delete"  \* Table::delete*, of a row of the bucket obj
LookUp == "lookup"  \* an index is searched; without an entry the transaction aborts
Find   == "find"    \* an index is searched; without an entry the program ends

\* The locks of two-phase locking.
ReadLock  == "read_lock"
WriteLock == "write_lock"

OccOps == {Read, Write, Push, Delete, LookUp, Find}
LockOps == {Read, Write, Push, ReadLock, WriteLock}

=============================================================================
