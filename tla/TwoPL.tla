-------------------------------- MODULE TwoPL --------------------------------
(***************************************************************************)
(* Two-phase locking: the read/write lock words of TVersion (tpl_writer_,  *)
(* tpl_reader_, tpl_reader_cnt_) and the transactions of lock_txn.rs that  *)
(* take them.                                                              *)
(*                                                                         *)
(* One iteration of the loops of read_lock and write_lock is one step: the *)
(* three words are only touched between enter_cr and exit_cr. A waiter     *)
(* spins without changing anything, so an operation that has to wait has   *)
(* no step until the iteration that ends the wait. The panics after 10^8   *)
(* iterations are left out: a transaction that would run into them is one  *)
(* that waits for ever.                                                    *)
(*                                                                         *)
(* A value is the identifier of the transaction that wrote it (0 for the   *)
(* initial value), which is what run_micro_2pl writes. A transaction that  *)
(* aborts starts over with the same identifier; the TPC-C driver draws new *)
(* input for it, the micro-benchmark keeps its keys (constant Redraw).     *)
(*                                                                         *)
(* commit persists before it unlocks: log records of what was written, the *)
(* values, a drain, and a commit record. The build is the one with feature *)
(* pmem and without dir, where a row has a persistent copy that only       *)
(* commit writes. A crash may come at any time: it keeps one of the        *)
(* contents pmem[x] of each copy. What is in the log is not modelled: no   *)
(* record names its object, and what reaches the log as the header of a    *)
(* record is whatever into_iovec's pointer to a dead local then finds. So  *)
(* plog_txn is a fact about the run, not one that the log tells.           *)
(***************************************************************************)
EXTENDS Refs, Integers, Sequences, FiniteSets

CONSTANTS
  Tids,      \* transaction identifiers, compared by wait-die: less is older
  Objects,   \* rows and buckets
  ReadOnly,  \* the items among them, whose reference ignores locking
  CntMod,    \* bound: how many values tpl_reader_cnt_ has (2^32 in the program)
  Mixes,     \* what may run together: Mixes[m][t] is the set of programs t may
             \* run, empty if the mix has no transaction t
  Redraw     \* the mixes in which an aborted transaction draws its program again

Operation == [op : LockOps, obj : Objects]
LockType  == {"Read", "Write"}

ASSUME TidsAssumption == Tids \subseteq Nat \ {0} /\ IsFiniteSet(Tids)
ASSUME WidthAssumption == CntMod \in Nat /\ Cardinality(Tids) < CntMod
ASSUME MixesAssumption ==
  /\ Redraw \subseteq DOMAIN Mixes
  /\ \A m \in DOMAIN Mixes :
       /\ DOMAIN Mixes[m] = Tids
       /\ \A t \in Tids : \A p \in Mixes[m][t] :
            /\ p \in Seq(Operation)
            /\ \A i \in DOMAIN p : p[i].obj \in ReadOnly => p[i].op \in {ReadLock, Read}

\* A program takes all of its locks before it touches a value, among them one
\* for every value it reads and a write lock for every value it writes.
TwoPhase(p) ==
  \A i \in DOMAIN p :
    /\ p[i].op \in {Read, Write, Push} =>
         /\ \A j \in DOMAIN p : p[j].op \in {ReadLock, WriteLock} => j < i
         /\ \E j \in DOMAIN p : p[j].op \in {ReadLock, WriteLock} /\ p[j].obj = p[i].obj
    /\ p[i].op \in {Write, Push} =>
         \E j \in DOMAIN p : p[j].op = WriteLock /\ p[j].obj = p[i].obj

\* What one attempt of a transaction read-locks, no other one of its attempts
\* write-locks without having read-locked it before: the micro-benchmark locks
\* its read keys first and starts over with the same keys, and a new order
\* never write-locks what a new order read-locks.
ReadsLockedFirst(p, q) ==
  \A i \in DOMAIN p, j \in DOMAIN q :
    p[i].op = ReadLock /\ q[j].op = WriteLock /\ p[i].obj = q[j].obj =>
      \E k \in 1..(j - 1) : q[k].op = ReadLock /\ q[k].obj = q[j].obj

ASSUME DisciplineAssumption ==
  \A m \in DOMAIN Mixes : \A t \in Tids : \A p \in Mixes[m][t] :
    /\ TwoPhase(p)
    /\ \A q \in IF m \in Redraw THEN Mixes[m][t] ELSE {p} : ReadsLockedFirst(p, q)

VARIABLES
  mix,             \* the mix that runs
  tpl_writer,      \* tpl_writer[x]: write lock holder, or 0
  tpl_reader,      \* tpl_reader[x]: largest reader since x last had none
  tpl_reader_cnt,  \* tpl_reader_cnt[x]: read locks on x
  data,            \* data[x]: who wrote the value of x
  program,         \* program[t]: the program of the current attempt
  ip,              \* ip[t]: index of the next operation
  pc,              \* pc[t]: what t is doing
  locks,           \* locks[t]: Transaction2PL.locks_
  refs,            \* refs[t]: objects in Transaction2PL.refs_
  plog_txn,        \* the transactions that have appended a commit record
  pmem,            \* pmem[x]: what the persistent copy of x may hold after a crash
  seen,            \* history: seen[t], the pairs <<x, value>> t has read
  serial           \* history: the transactions in the order of their commits

lockWords == <<tpl_writer, tpl_reader, tpl_reader_cnt>>
history == <<seen, serial>>
progVars == <<mix, program>>
pmemVars == <<plog_txn, pmem>>
vars == <<lockWords, data, progVars, ip, pc, locks, refs, pmemVars, history>>

-----------------------------------------------------------------------------

Running(t, op) ==
  /\ pc[t] = "run"
  /\ ip[t] <= Len(program[t])
  /\ program[t][ip[t]].op = op

\* What t may run.
Programs(t) == Mixes[mix][t]

Target(t) == program[t][ip[t]].obj

Goto(t, label) == pc' = [pc EXCEPT ![t] = label]

Advance(t) == ip' = [ip EXCEPT ![t] = @ + 1]

Insert(t, x, type) == locks' = [locks EXCEPT ![t] = @ \cup {<<x, type>>}]

ReadersOf(x) == {t \in Tids : <<x, "Read">> \in locks[t]}

\* lock_tref: a lock the transaction already has is not taken again.
AlreadyLocked(t, type) ==
  /\ <<Target(t), type>> \in locks[t]
  /\ Advance(t)
  /\ UNCHANGED <<lockWords, data, progVars, pc, locks, refs, pmemVars, history>>

\* Mutant: no wait-die, every transaction waits for the writer.
OlderWriter_Never(t) == FALSE

\* The wait-die comparisons: t dies of a writer that is older than itself,
OlderWriter(t) == tpl_writer[Target(t)] # 0 /\ tpl_writer[Target(t)] < t

\* and, as a writer, of a largest reader that is younger.
YoungerReader(t) == tpl_reader[Target(t)] > t

\* Mutant: the failure is ignored, the transaction goes on without the lock.
DieOfWriter_Ignored(t) ==
  /\ OlderWriter(t)
  /\ Advance(t)
  /\ UNCHANGED <<lockWords, data, progVars, pc, locks, refs, pmemVars, history>>

\* read_lock under a foreign writer: a younger transaction dies.
DieOfWriter(t) ==
  /\ OlderWriter(t)
  /\ Goto(t, "abort")
  /\ UNCHANGED <<lockWords, data, progVars, ip, locks, refs, pmemVars, history>>

\* Mutant: read_lock does not look at the writer.
GrantRead_AnyWriter(t) ==
  LET x == Target(t) IN
  /\ tpl_reader' = [tpl_reader EXCEPT ![x] = IF t > @ THEN t ELSE @]
  /\ tpl_reader_cnt' = [tpl_reader_cnt EXCEPT ![x] = (@ + 1) % CntMod]
  /\ Insert(t, x, "Read")
  /\ Advance(t)
  /\ UNCHANGED <<tpl_writer, data, progVars, pc, refs, pmemVars, history>>

GrantRead(t) ==
  LET x == Target(t) IN
  /\ tpl_writer[x] \in {0, t}
  /\ tpl_reader' = [tpl_reader EXCEPT ![x] = IF t > @ THEN t ELSE @]
  /\ tpl_reader_cnt' = [tpl_reader_cnt EXCEPT ![x] = (@ + 1) % CntMod]
  /\ Insert(t, x, "Read")
  /\ Advance(t)
  /\ UNCHANGED <<tpl_writer, data, progVars, pc, refs, pmemVars, history>>

\* ItemRef::read_lock does nothing and succeeds; the lock is recorded.
LockItem(t) ==
  /\ Insert(t, Target(t), "Read")
  /\ Advance(t)
  /\ UNCHANGED <<lockWords, data, progVars, pc, refs, pmemVars, history>>

\* Transaction2PL::read_lock_tref. Under a younger writer t waits.
ReadLockTref(t) ==
  /\ Running(t, ReadLock)
  /\ \/ AlreadyLocked(t, "Read")
     \/ /\ <<Target(t), "Read">> \notin locks[t]
        /\ IF Target(t) \in ReadOnly THEN LockItem(t) ELSE GrantRead(t) \/ DieOfWriter(t)

\* write_lock, no reader registered: take the write lock.
GrantWrite(t) ==
  LET x == Target(t) IN
  /\ tpl_writer[x] = 0
  /\ tpl_reader[x] = 0
  /\ tpl_writer' = [tpl_writer EXCEPT ![x] = t]
  /\ Insert(t, x, "Write")
  /\ Advance(t)
  /\ UNCHANGED <<tpl_reader, tpl_reader_cnt, data, progVars, pc, refs, pmemVars, history>>

\* Mutant: the failure is ignored, the transaction goes on without the lock.
DieOfReader_Ignored(t) ==
  /\ tpl_writer[Target(t)] = 0
  /\ YoungerReader(t)
  /\ Advance(t)
  /\ UNCHANGED <<lockWords, data, progVars, pc, locks, refs, pmemVars, history>>

\* write_lock, the largest reader is younger than t: t dies.
DieOfReader(t) ==
  /\ tpl_writer[Target(t)] = 0
  /\ YoungerReader(t)
  /\ Goto(t, "abort")
  /\ UNCHANGED <<lockWords, data, progVars, ip, locks, refs, pmemVars, history>>

\* write_lock, the largest reader is t itself: t becomes the writer at once,
\* and then waits to be the only reader.
StartUpgrade(t) ==
  LET x == Target(t) IN
  /\ tpl_writer[x] = 0
  /\ tpl_reader[x] = t
  /\ tpl_writer' = [tpl_writer EXCEPT ![x] = t]
  /\ Goto(t, "upgrade")
  /\ UNCHANGED <<tpl_reader, tpl_reader_cnt, data, progVars, ip, locks, refs, pmemVars, history>>

\* Transaction2PL::write_lock_tref. Under a younger writer, or an older
\* largest reader, t waits.
WriteLockTref(t) ==
  /\ Running(t, WriteLock)
  /\ \/ AlreadyLocked(t, "Write")
     \/ /\ <<Target(t), "Write">> \notin locks[t]
        /\ GrantWrite(t) \/ StartUpgrade(t) \/ DieOfWriter(t) \/ DieOfReader(t)

\* Mutant: the upgrade does not wait for the other readers.
FinishUpgrade_NoWait(t) ==
  /\ pc[t] = "upgrade"
  /\ Insert(t, Target(t), "Write")
  /\ Advance(t)
  /\ Goto(t, "run")
  /\ UNCHANGED <<lockWords, data, progVars, refs, pmemVars, history>>

\* Mutant: lock_tref does not record the lock.
FinishUpgrade_NotInserted(t) ==
  /\ pc[t] = "upgrade"
  /\ tpl_reader_cnt[Target(t)] = 1
  /\ Advance(t)
  /\ Goto(t, "run")
  /\ UNCHANGED <<lockWords, data, progVars, locks, refs, pmemVars, history>>

\* The upgrade loop of write_lock ends when one read lock is left.
FinishUpgrade(t) ==
  LET x == Target(t) IN
  /\ pc[t] = "upgrade"
  /\ tpl_reader_cnt[x] = 1
  /\ Insert(t, x, "Write")
  /\ Advance(t)
  /\ Goto(t, "run")
  /\ UNCHANGED <<lockWords, data, progVars, refs, pmemVars, history>>

\* Transaction2PL::read: the underlying value, whatever t has locked.
ReadValue(t) ==
  /\ Running(t, Read)
  /\ seen' = [seen EXCEPT ![t] = @ \cup {<<Target(t), data[Target(t)]>>}]
  /\ Advance(t)
  /\ UNCHANGED <<lockWords, data, progVars, pc, locks, refs, pmemVars, serial>>

\* Transaction2PL::write and write_field: write_through, and a record of the
\* object for commit to persist. Table::push_lock installs the row in its
\* bucket at once, too.
WriteValue(t) ==
  /\ Running(t, Write) \/ Running(t, Push)
  /\ data' = [data EXCEPT ![Target(t)] = t]
  /\ refs' = [refs EXCEPT ![t] = @ \cup {Target(t)}]
  /\ Advance(t)
  /\ UNCHANGED <<lockWords, progVars, pc, locks, pmemVars, history>>

\* commit and persist_log: a record of each object that was written through is
\* appended to the log: a header, and the bytes of the row as they are now.
PersistLog(t) ==
  /\ pc[t] = "run"
  /\ ip[t] > Len(program[t])
  /\ Goto(t, "persist_data")
  /\ serial' = Append(serial, t)
  /\ UNCHANGED <<lockWords, data, progVars, ip, locks, refs, pmemVars, seen>>

\* persist_data: memcpy_nodrain of each row; how much of it has arrived is
\* open until the drain.
PersistData(t) ==
  /\ pc[t] = "persist_data"
  /\ pmem' = [x \in Objects |-> IF x \in refs[t] THEN pmem[x] \cup {data[x]} ELSE pmem[x]]
  /\ Goto(t, "drain")
  /\ UNCHANGED <<lockWords, data, progVars, ip, locks, refs, plog_txn, history>>

\* Mutant: the copies are not drained before the commit record.
Drain_Missing(t) ==
  /\ pc[t] = "drain"
  /\ Goto(t, "persist_txn")
  /\ UNCHANGED <<lockWords, data, progVars, ip, locks, refs, pmemVars, history>>

\* persist_commit: the drain,
Drain(t) ==
  /\ pc[t] = "drain"
  /\ pmem' = [x \in Objects |-> IF x \in refs[t] THEN {data[x]} ELSE pmem[x]]
  /\ Goto(t, "persist_txn")
  /\ UNCHANGED <<lockWords, data, progVars, ip, locks, refs, plog_txn, history>>

\* and persist_txn, the commit record. The unlock of commit follows.
PersistTxn(t) ==
  /\ pc[t] = "persist_txn"
  /\ plog_txn' = plog_txn \cup {t}
  /\ Goto(t, "commit")
  /\ UNCHANGED <<lockWords, data, progVars, ip, locks, refs, pmem, history>>

Persist(t) == PersistLog(t) \/ PersistData(t) \/ Drain(t) \/ PersistTxn(t)

\* Mutant: the counter does not wrap around.
ReadUnlock_NoWrap(x) ==
  /\ tpl_reader_cnt' = [tpl_reader_cnt EXCEPT ![x] = @ - 1]
  /\ tpl_reader' = [tpl_reader EXCEPT ![x] = IF tpl_reader_cnt[x] = 1 THEN 0 ELSE @]
  /\ UNCHANGED tpl_writer

\* Mutant: every reader that leaves clears the largest reader.
ReadUnlock_Clears(x) ==
  /\ tpl_reader_cnt' = [tpl_reader_cnt EXCEPT ![x] = (@ + CntMod - 1) % CntMod]
  /\ tpl_reader' = [tpl_reader EXCEPT ![x] = 0]
  /\ UNCHANGED tpl_writer

\* read_unlock: the last reader out clears the largest reader. The unlock of an
\* item, which goes to its version directly, counts down a reader that was
\* never counted, and wraps around.
ReadUnlock(x) ==
  /\ tpl_reader_cnt' = [tpl_reader_cnt EXCEPT ![x] = (@ + CntMod - 1) % CntMod]
  /\ tpl_reader' = [tpl_reader EXCEPT ![x] = IF tpl_reader_cnt[x] = 1 THEN 0 ELSE @]
  /\ UNCHANGED tpl_writer

\* write_unlock: the compare_exchange from tid to 0.
WriteUnlock(x) ==
  /\ tpl_writer' = [tpl_writer EXCEPT ![x] = 0]
  /\ UNCHANGED <<tpl_reader, tpl_reader_cnt>>

\* Mutant: the locks go as soon as the data is durable, before the commit record.
Unlock_Early(t) ==
  /\ pc[t] \in {"persist_txn", "commit", "abort"}
  /\ \E x \in Objects, type \in LockType :
       /\ <<x, type>> \in locks[t]
       /\ locks' = [locks EXCEPT ![t] = @ \ {<<x, type>>}]
       /\ IF type = "Read" THEN ReadUnlock(x) ELSE WriteUnlock(x)
  /\ UNCHANGED <<data, progVars, ip, pc, refs, pmemVars, history>>

\* Transaction2PL::unlock drains a hash map: the locks go in any order.
Unlock(t) ==
  /\ pc[t] \in {"commit", "abort"}
  /\ \E x \in Objects, type \in LockType :
       /\ <<x, type>> \in locks[t]
       /\ locks' = [locks EXCEPT ![t] = @ \ {<<x, type>>}]
       /\ IF type = "Read" THEN ReadUnlock(x) ELSE WriteUnlock(x)
  /\ UNCHANGED <<data, progVars, ip, pc, refs, pmemVars, history>>

\* A committed transaction is done. An aborted one has cleared refs_ and
\* starts over; the values it wrote through stay.
Restart(t) ==
  /\ pc[t] \in {"commit", "abort"}
  /\ locks[t] = {}
  /\ IF pc[t] = "commit"
     THEN Goto(t, "done") /\ UNCHANGED <<program, ip, refs, seen>>
     ELSE /\ Goto(t, "run")
          /\ \E p \in IF mix \in Redraw THEN Programs(t) ELSE {program[t]} :
               program' = [program EXCEPT ![t] = p]
          /\ ip' = [ip EXCEPT ![t] = 1]
          /\ refs' = [refs EXCEPT ![t] = {}]
          /\ seen' = [seen EXCEPT ![t] = {}]
  /\ UNCHANGED <<lockWords, data, mix, locks, pmemVars, serial>>

Init ==
  /\ tpl_writer = [x \in Objects |-> 0]
  /\ tpl_reader = [x \in Objects |-> 0]
  /\ tpl_reader_cnt = [x \in Objects |-> 0]
  /\ data = [x \in Objects |-> 0]
  /\ mix \in DOMAIN Mixes
  /\ program \in {p \in [Tids -> {<<>>} \cup UNION {Programs(t) : t \in Tids}] :
                    \A t \in Tids : p[t] \in IF Programs(t) = {} THEN {<<>>} ELSE Programs(t)}
  /\ ip = [t \in Tids |-> 1]
  /\ pc = [t \in Tids |-> IF Programs(t) = {} THEN "done" ELSE "run"]
  /\ locks = [t \in Tids |-> {}]
  /\ refs = [t \in Tids |-> {}]
  /\ plog_txn = {}
  /\ pmem = [x \in Objects |-> {0}]
  /\ seen = [t \in Tids |-> {}]
  /\ serial = <<>>

Step(t) ==
  \/ ReadLockTref(t) \/ WriteLockTref(t) \/ FinishUpgrade(t)
  \/ ReadValue(t) \/ WriteValue(t)
  \/ Persist(t) \/ Unlock(t) \/ Restart(t)

\* All transactions of the instance have committed.
Terminated == (\A t \in Tids : pc[t] = "done") /\ UNCHANGED vars

Next == (\E t \in Tids : Step(t)) \/ Terminated

Spec == Init /\ [][Next]_vars

-----------------------------------------------------------------------------

TypeOK ==
  /\ tpl_writer \in [Objects -> Tids \cup {0}]
  /\ tpl_reader \in [Objects -> Tids \cup {0}]
  /\ tpl_reader_cnt \in [Objects -> 0..(CntMod - 1)]
  /\ data \in [Objects -> Tids \cup {0}]
  /\ mix \in DOMAIN Mixes
  /\ program \in [Tids -> Seq(Operation)]
  /\ ip \in [Tids -> Nat \ {0}]
  /\ pc \in [Tids -> {"run", "upgrade", "persist_data", "drain", "persist_txn",
                      "commit", "abort", "done"}]
  /\ locks \in [Tids -> SUBSET (Objects \X LockType)]
  /\ refs \in [Tids -> SUBSET Objects]
  /\ plog_txn \subseteq Tids
  /\ pmem \in [Objects -> SUBSET (Tids \cup {0})]
  /\ seen \in [Tids -> SUBSET (Objects \X (Tids \cup {0}))]
  /\ serial \in Seq(Tids)

\* A write lock excludes every other lock on the object, also when it was
\* upgraded from a read lock while other readers were leaving.
LockExclusion ==
  \A x \in Objects, t, u \in Tids :
    <<x, "Write">> \in locks[t] /\ t # u =>
      <<x, "Read">> \notin locks[u] /\ <<x, "Write">> \notin locks[u]

\* The reader words say what they are used for: tpl_reader_cnt_ is the number
\* of read locks, and no reader is younger than tpl_reader_, so a writer that
\* finds it 0 has no reader to wait for. (Items are read only, and the words
\* of an item say nothing.)
ReaderWordsExact ==
  \A x \in Objects \ ReadOnly :
    /\ tpl_reader_cnt[x] = Cardinality(ReadersOf(x))
    /\ \A t \in ReadersOf(x) : t <= tpl_reader[x]

\* Neither of the two panics that guard the lock words is reached: no
\* transaction asks again for a write lock that it has, and write_unlock
\* finds its caller registered ("Write lock poisoned").
NoLockPanic ==
  \A t \in Tids :
    /\ Running(t, WriteLock) /\ tpl_writer[Target(t)] = t =>
         <<Target(t), "Write">> \in locks[t]
    /\ \A x \in Objects : <<x, "Write">> \in locks[t] => tpl_writer[x] = t

\* The value of an object comes from a transaction that commits: whoever
\* wrote it has committed or still holds its write lock. Transaction2PL::abort
\* undoes nothing, so this rests on the programs taking every lock before
\* they write.
NoAbortedData ==
  \A x \in Objects :
    data[x] # 0 =>
      \/ <<x, "Write">> \in locks[data[x]]
      \/ pc[data[x]] \in {"commit", "done"}

\* The last of the transactions I of the history that wrote x, or 0.
LastWriter(x, I) ==
  LET W == {i \in I : x \in refs[serial[i]]}
  IN  IF W = {} THEN 0 ELSE serial[CHOOSE i \in W : \A j \in W : j <= i]

\* Committed transactions are serializable in the order of their commits:
\* each read what the ones before it, or it itself, had written.
Serializable ==
  \A i \in DOMAIN serial : \A r \in seen[serial[i]] :
    r[2] \in {LastWriter(r[1], 1..(i - 1)), serial[i]}

\* Whenever the machine crashes, what is left of each object is the value of
\* the last transaction with a commit record that wrote it, or the value of
\* the one transaction that holds its write lock and has no commit record yet.
\* It rests on the order of commit (copy, drain, record) and on the locks,
\* which are held up to the commit record: no copy is ever behind a commit
\* record, nor ahead by more than the transaction in flight.
CopiesDurable ==
  LET durable == {i \in DOMAIN serial : serial[i] \in plog_txn} IN
  \A x \in Objects : \A v \in pmem[x] :
    \/ v = LastWriter(x, durable)
    \/ v \in Tids \ plog_txn /\ <<x, "Write">> \in locks[v]

\* Recoverability: who has a commit record has read nothing that a crash could
\* still take back. commit writes the record before it unlocks, so that the
\* transactions a value came from have their records first.
DurableReads ==
  \A t \in plog_txn : \A r \in seen[t] : r[2] \in plog_txn \cup {0}

\* What a crash leaves and what was durable before it fit together, whenever it
\* comes.
CrashConsistent == CopiesDurable /\ DurableReads

-----------------------------------------------------------------------------

\* t cannot take its next lock until u gives one up.
WaitsFor(t, u) ==
  /\ t # u
  /\ LET x == Target(t) IN
     \/ /\ pc[t] = "upgrade"
        /\ u \in ReadersOf(x)
     \/ /\ Running(t, ReadLock) /\ <<x, "Read">> \notin locks[t]
        /\ tpl_writer[x] = u /\ ~OlderWriter(t)
     \/ /\ Running(t, WriteLock) /\ <<x, "Write">> \notin locks[t]
        /\ \/ tpl_writer[x] = u /\ ~OlderWriter(t)
           \/ /\ tpl_writer[x] = 0
              /\ ~YoungerReader(t) /\ tpl_reader[x] # t
              /\ u \in ReadersOf(x)

\* "Wait-die Ddlck prevention" (comments of read_lock and write_lock): no
\* transactions wait for each other in a circle.
NoWaitCycle ==
  \A S \in (SUBSET Tids) \ {{}} : \E t \in S : \A u \in S : ~WaitsFor(t, u)

\* Whether some transaction write-locks what another one, or it itself,
\* read-locks.
LocksMixed ==
  \E t, u \in Tids : \E i \in DOMAIN program[t], j \in DOMAIN program[u] :
    /\ program[t][i].op = ReadLock /\ program[u][j].op = WriteLock
    /\ program[t][i].obj = program[u][j].obj

\* What wait-die achieves for the TPC-C new order, where what is read-locked
\* (warehouses, customers, items) is never write-locked.
NoWaitCycleApart == ~LocksMixed => NoWaitCycle

=============================================================================
