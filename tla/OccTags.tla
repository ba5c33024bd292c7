------------------------------ MODULE OccTags -------------------------------
(***************************************************************************)
(* What the optimistic transactions have in common: the tags (TTag) that   *)
(* collect what a transaction or a piece reads and writes, and the lock,   *)
(* check, install and clean-up loops over them. OccTxn makes a whole       *)
(* transaction of one such round (TransactionOCC), ParTxn makes a round of *)
(* each piece (TransactionParOCC and TransactionParOCCRaw).                *)
(*                                                                         *)
(* A step is one atomic access to shared memory. A hash map of tags is     *)
(* visited in any order: todo is the set of tags a loop still has to       *)
(* visit, at the object between whose two accesses the transaction is. The *)
(* lock is atomic here, which OccLock justifies. Rows pushed into one      *)
(* bucket have a tag each, which lock the bucket in turn; they are one tag *)
(* here, as the lock is re-entrant and freed with its last hold.           *)
(*                                                                         *)
(* A value is the identifier of the transaction that wrote it, 0 at first. *)
(* An insertion or a removal writes a bucket: it is locked like a row, but  *)
(* never read or checked. What it does to the tables is in module Orders.  *)
(***************************************************************************)
EXTENDS Refs, Naturals, Sequences, FiniteSets

CONSTANTS
  Tids,     \* transaction identifiers, each used by one transaction
  Objects,  \* rows and buckets
  Buckets   \* the buckets among them

ASSUME TidsAssumption == Tids \subseteq Nat \ {0}
ASSUME BucketsAssumption == Buckets \subseteq Objects /\ Objects # {}

VARIABLES
  lock_owner,   \* lock_owner[x]: TVersion.lock_owner_
  last_writer,  \* last_writer[x]: TVersion.last_writer_, the version
  data,         \* data[x]: who wrote the value of x
  tags,         \* tags[t]: the objects t has a tag for
  vers,         \* vers[t][x]: TTag.vers_
  has_write,    \* has_write[t]: the tags with has_write_ set
  is_lock,      \* is_lock[t]: the tags with is_lock_ set
  pc, todo, at, \* control, see above
  reads,        \* history: pairs <<x, value>> read in the current round
  seen,         \* history: pairs <<x, value>> read in rounds that committed
  written       \* history: written[x], the writers of x in order

objectVars == <<lock_owner, last_writer, data>>
tagVars == <<tags, vers, has_write, is_lock>>
historyVars == <<reads, seen, written>>
occVars == <<objectVars, tagVars, pc, todo, at, historyVars>>

Values == Tids \cup {0}

-----------------------------------------------------------------------------

Goto(t, label) == pc' = [pc EXCEPT ![t] = label]

Visit(t, S) == todo' = [todo EXCEPT ![t] = S]

Visited(t, x) == Visit(t, todo[t] \ {x})

\* read: the version is loaded and kept in the tag, the one kept by an
\* earlier read of the object included.
ReadVersion(t, x) ==
  /\ pc[t] = "run"
  /\ tags' = [tags EXCEPT ![t] = @ \cup {x}]
  /\ vers' = [vers EXCEPT ![t][x] = last_writer[x]]
  /\ at' = [at EXCEPT ![t] = x]
  /\ Goto(t, "read")
  /\ UNCHANGED <<objectVars, has_write, is_lock, todo, historyVars>>

\* read, continued: the tag's get_data loads the underlying value, also if the
\* transaction has buffered a write of its own.
ReadData(t) ==
  /\ pc[t] = "read"
  /\ reads' = [reads EXCEPT ![t] = @ \cup {<<at[t], data[at[t]]>>}]
  /\ Goto(t, "run")
  /\ UNCHANGED <<objectVars, tagVars, todo, at, seen, written>>

\* write, write_field, and push and delete of a bucket's row: what is written
\* stays in the tag until it is installed. Several tags for rows of one bucket
\* are one here: the lock is re-entrant for its owner (OccLock).
BufferWrite(t, x) ==
  /\ pc[t] = "run"
  /\ tags' = [tags EXCEPT ![t] = @ \cup {x}]
  /\ has_write' = [has_write EXCEPT ![t] = @ \cup {x}]
  /\ UNCHANGED <<objectVars, vers, is_lock, pc, todo, at, historyVars>>

\* The end of the program, or of the piece: it tries to commit.
BeginLock(t) ==
  /\ pc[t] = "run"
  /\ Visit(t, has_write[t])
  /\ Goto(t, "lock")
  /\ UNCHANGED <<objectVars, tagVars, at, historyVars>>

\* lock: one tag of the write set. The first failure aborts the round.
LockTag(t, x) ==
  /\ pc[t] = "lock"
  /\ x \in todo[t]
  /\ IF lock_owner[x] \in {0, t}
     THEN /\ lock_owner' = [lock_owner EXCEPT ![x] = t]
          /\ is_lock' = [is_lock EXCEPT ![t] = @ \cup {x}]
          /\ Visited(t, x)
          /\ UNCHANGED pc
     ELSE Goto(t, "abort") /\ UNCHANGED <<lock_owner, is_lock, todo>>
  /\ UNCHANGED <<last_writer, data, tags, vers, has_write, at, historyVars>>

\* Mutant: the read set is checked while tags are still to be locked.
BeginCheck_Early(t) ==
  /\ pc[t] = "lock"
  /\ Visit(t, tags[t] \ has_write[t])
  /\ Goto(t, "check")
  /\ UNCHANGED <<objectVars, tagVars, at, historyVars>>

\* check skips a tag that has been written (has_read is the negation of
\* has_write), also if the object was read first.
BeginCheck(t) ==
  /\ pc[t] = "lock"
  /\ todo[t] = {}
  /\ Visit(t, tags[t] \ has_write[t])
  /\ Goto(t, "check")
  /\ UNCHANGED <<objectVars, tagVars, at, historyVars>>

\* Mutant: the version alone is checked.
CheckOwner_Ignored(t, x) ==
  /\ pc[t] = "check"
  /\ x \in todo[t]
  /\ at' = [at EXCEPT ![t] = x]
  /\ Goto(t, "check_version")
  /\ UNCHANGED <<objectVars, tagVars, todo, historyVars>>

\* check_version: first the lock owner,
CheckOwner(t, x) ==
  /\ pc[t] = "check"
  /\ x \in todo[t]
  /\ at' = [at EXCEPT ![t] = x]
  /\ Goto(t, IF lock_owner[x] \in {0, t} THEN "check_version" ELSE "abort")
  /\ UNCHANGED <<objectVars, tagVars, todo, historyVars>>

\* then the version.
CheckVersion(t) ==
  /\ pc[t] = "check_version"
  /\ IF last_writer[at[t]] = vers[t][at[t]]
     THEN Goto(t, "check") /\ Visited(t, at[t])
     ELSE Goto(t, "abort") /\ UNCHANGED todo
  /\ UNCHANGED <<objectVars, tagVars, at, historyVars>>

\* The round will commit: nothing after the check fails.
Checked(t) == pc[t] = "check" /\ todo[t] = {}

\* The tags of S will be visited with pc at label, after a successful check.
CommitRound(t, label, S) ==
  /\ Checked(t)
  /\ Visit(t, S)
  /\ Goto(t, label)
  /\ seen' = [seen EXCEPT ![t] = @ \cup reads[t]]
  /\ UNCHANGED <<objectVars, tagVars, at, reads, written>>

\* commit_data, TBox::install: the value is swapped in,
InstallData(t, x) ==
  /\ pc[t] = "install"
  /\ x \in (todo[t] \cap has_write[t]) \ Buckets
  /\ data' = [data EXCEPT ![x] = t]
  /\ written' = [written EXCEPT ![x] = Append(@, t)]
  /\ at' = [at EXCEPT ![t] = x]
  /\ Goto(t, "set_version")
  /\ UNCHANGED <<lock_owner, last_writer, tagVars, todo, reads, seen>>

\* install of an insertion or a removal: the table changes, and the bucket
\* gets a version that nobody checks.
InstallPush(t, x) ==
  /\ pc[t] = "install"
  /\ x \in todo[t] \cap has_write[t] \cap Buckets
  /\ Visited(t, x)
  /\ UNCHANGED <<objectVars, tagVars, pc, at, historyVars>>

\* Mutant: the version of the tag is stored, not the writer's identifier.
SetVersion_Old(t) ==
  /\ pc[t] = "set_version"
  /\ last_writer' = [last_writer EXCEPT ![at[t]] = vers[t][at[t]]]
  /\ UNCHANGED <<lock_owner, data, tagVars, at, historyVars>>

\* and then the version is set to the writer's identifier.
SetVersion(t) ==
  /\ pc[t] = "set_version"
  /\ last_writer' = [last_writer EXCEPT ![at[t]] = t]
  /\ UNCHANGED <<lock_owner, data, tagVars, at, historyVars>>

\* Mutant: is_lock_ is not looked at.
UnlockTag_NotLocked(t, x) ==
  /\ pc[t] \in {"commit", "abort"}
  /\ x \in has_write[t]
  /\ lock_owner' = [lock_owner EXCEPT ![x] = 0]
  /\ is_lock' = [is_lock EXCEPT ![t] = @ \ {x}]
  /\ UNCHANGED <<last_writer, data, tags, vers, has_write, pc, todo, at, historyVars>>

\* Mutant: the tag is dropped without unlocking the object.
UnlockTag_Dropped(t, x) ==
  /\ pc[t] \in {"commit", "abort"}
  /\ x \in has_write[t] \cap is_lock[t]
  /\ is_lock' = [is_lock EXCEPT ![t] = @ \ {x}]
  /\ UNCHANGED <<objectVars, tags, vers, has_write, pc, todo, at, historyVars>>

\* clean_up: one locked tag of the write set.
UnlockTag(t, x) ==
  /\ pc[t] \in {"commit", "abort"}
  /\ x \in has_write[t] \cap is_lock[t]
  /\ lock_owner' = [lock_owner EXCEPT ![x] = 0]
  /\ is_lock' = [is_lock EXCEPT ![t] = @ \ {x}]
  /\ UNCHANGED <<last_writer, data, tags, vers, has_write, pc, todo, at, historyVars>>

\* Mutant: the write set survives the tags.
CleanedUp_WritesKept(t, label) ==
  /\ is_lock[t] = {}
  /\ tags' = [tags EXCEPT ![t] = {}]
  /\ vers' = [vers EXCEPT ![t] = [x \in Objects |-> 0]]
  /\ reads' = [reads EXCEPT ![t] = {}]
  /\ Visit(t, {})
  /\ Goto(t, label)
  /\ UNCHANGED <<objectVars, has_write, is_lock, at, seen, written>>

\* The end of clean_up: the tags are gone and t goes on at label.
CleanedUp(t, label) ==
  /\ is_lock[t] = {}
  /\ tags' = [tags EXCEPT ![t] = {}]
  /\ vers' = [vers EXCEPT ![t] = [x \in Objects |-> 0]]
  /\ has_write' = [has_write EXCEPT ![t] = {}]
  /\ reads' = [reads EXCEPT ![t] = {}]
  /\ Visit(t, {})
  /\ Goto(t, label)
  /\ UNCHANGED <<objectVars, is_lock, at, seen, written>>

\* start[t]: where t begins.
OccInit(start) ==
  /\ lock_owner = [x \in Objects |-> 0]
  /\ last_writer = [x \in Objects |-> 0]
  /\ data = [x \in Objects |-> 0]
  /\ tags = [t \in Tids |-> {}]
  /\ vers = [t \in Tids |-> [x \in Objects |-> 0]]
  /\ has_write = [t \in Tids |-> {}]
  /\ is_lock = [t \in Tids |-> {}]
  /\ pc = start
  /\ todo = [t \in Tids |-> {}]
  /\ at = [t \in Tids |-> CHOOSE x \in Objects : TRUE]
  /\ reads = [t \in Tids |-> {}]
  /\ seen = [t \in Tids |-> {}]
  /\ written = [x \in Objects |-> <<>>]

-----------------------------------------------------------------------------

OccTypeOK(labels) ==
  /\ lock_owner \in [Objects -> Values]
  /\ last_writer \in [Objects -> Values]
  /\ data \in [Objects -> Values]
  /\ tags \in [Tids -> SUBSET Objects]
  /\ vers \in [Tids -> [Objects -> Values]]
  /\ has_write \in [Tids -> SUBSET Objects]
  /\ is_lock \in [Tids -> SUBSET Objects]
  /\ \A t \in Tids : is_lock[t] \subseteq has_write[t] /\ has_write[t] \subseteq tags[t]
  /\ pc \in [Tids -> labels]
  /\ todo \in [Tids -> SUBSET Objects]
  /\ at \in [Tids -> Objects]
  /\ reads \in [Tids -> SUBSET (Objects \X Values)]
  /\ seen \in [Tids -> SUBSET (Objects \X Values)]
  /\ written \in [Objects -> Seq(Tids)]

\* lock_owner_ names exactly the transaction whose tag will unlock the
\* object ("whoever has access to self can unlock", TVersion::unlock): no
\* clean-up releases a lock that another transaction has taken meanwhile.
LocksOwned ==
  \A t \in Tids, x \in Objects : lock_owner[x] = t <=> x \in is_lock[t]

\* A value whose version is not yet set belongs to the owner of the object's
\* lock, so that a reader that combines an old version with the new value is
\* refused by the lock or by the version.
VersionMatchesData ==
  \A x \in Objects : data[x] # last_writer[x] => lock_owner[x] = data[x]

\* The place of a writer of x in the order of the writes; 0 is the first value.
Place(x, v) == IF v = 0 THEN 0 ELSE CHOOSE i \in DOMAIN written[x] : written[x][i] = v

\* u overwrote what t wrote.
Overwrites(u, t) ==
  \E x \in Objects : \E i, j \in DOMAIN written[x] :
    i < j /\ written[x][i] = t /\ written[x][j] = u

\* Given the reads that count, by transaction, t comes before u in every
\* equivalent serial order: u overwrote or read what t wrote, or overwrote
\* what t read.
Precedes(t, u, counted) ==
  /\ t # u
  /\ \/ Overwrites(u, t)
     \/ \E r \in counted[u] : r[2] = t
     \/ \E r \in counted[t] : \E j \in DOMAIN written[r[1]] :
          Place(r[1], r[2]) < j /\ written[r[1]][j] = u

\* The conflict graph of the committed rounds has no cycle.
ConflictsAcyclic(counted) ==
  \A S \in (SUBSET Tids) \ {{}} : \E t \in S : \A u \in S : ~Precedes(u, t, counted)

\* The reads of committed rounds that check has looked at: not those of
\* objects the transaction writes, nor one that it has repeated later.
CheckedReads ==
  [t \in Tids |->
     {r \in seen[t] :
        /\ r[1] \notin has_write[t]
        /\ \A i \in DOMAIN written[r[1]] : written[r[1]][i] # t
        /\ \A q \in seen[t] : q[1] = r[1] => Place(q[1], q[2]) <= Place(r[1], r[2])}]

=============================================================================
