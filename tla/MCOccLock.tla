------------------------------ MODULE MCOccLock ------------------------------
(* Instance of OccLock for TLC: three transactions, two objects. *)
EXTENDS OccLock

MCTids == {1, 2, 3}

=============================================================================
