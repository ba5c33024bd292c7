# ParNVM in TLA+

TLA+ models of ParNVM, a transactional engine for persistent memory with three
concurrency controls (optimistic, two-phase locking, and transactions chopped
into pieces), its tables, its TPC-C workload and its benchmark drivers; TLC
configurations that check the models on small instances; and TLAPS proofs.
Paths are relative to the repository's root.

Contents: 1 the system, 2 what makes it hard, 3 the modules, 4 the runs, 5 what
the runs found, 6 fairness, 7 the proofs, 8 what is not modelled, 9 the plan.

## 1. The system

Worker threads run transactions from a driver (`pnvm/src/main.rs`). They share
rows (`Row`, or `TBox` in the micro-benchmarks), each with a value and a
`TVersion`: version, lock words, and the `TxnInfo` of its last accessor. Rows
live in the buckets of tables; a bucket has a `TVersion` of its own, which
insertions and removals lock. A transaction never calls another one; all
interaction is through these words, the tables' indexes, and the `TxnInfo` flags
that other transactions poll. There are no messages and no callbacks between
threads, and every wait of a transaction is a busy wait.

| component | state | operations | what makes it correct |
|---|---|---|---|
| version lock, `tcore.rs:248-354` | `lock_owner_`, `count_`, `last_writer_`, `txn_info_` | `lock`, `unlock`, `check_version`, `set_version`, `set_access_info` | exclusive, re-entrant, exact count, released by every clean-up |
| read/write lock, `tcore.rs:357-510` | `tpl_writer_`, `tpl_reader_`, `tpl_reader_cnt_`, spin lock | `read_lock`, `write_lock` with upgrade, the unlocks | a writer excludes everybody, counts exact, no deadlock |
| tags, `tcore.rs:612-803`, `datatype/tbox.rs` | `vers_`, `has_write_`, `is_lock_`, buffered value | `get_data`, `write`, `lock`, `commit_data`, `unlock` | a value and its version are never paired wrongly |
| `TransactionOCC`, `occ/occ_txn.rs` | tags, `should_abort_` | `read`, `write`, `try_commit`, `commit`, `clean_up` | serializable; installs all or nothing |
| `Transaction2PL`, `lock/lock_txn.rs` | `locks_`, `refs_` | lock, read, write through, `commit`, `abort`, `persist_*` | serializable; no value of an aborted attempt; what a crash leaves is durable or still locked, and nothing durable was read from what is not |
| `TransactionParOCC`, `TransactionParOCCRaw`, `parnvm/nvm_txn_*.rs` | pieces, `deps_`, tags of a piece | the waits, `try_commit_piece`, `add_dep`, `commit`, `abort` | pieces of conflicting transactions keep one order; nobody waits in a circle; everything becomes durable |
| `TxnInfo`, `txn.rs:230-321` | `rank_`, `committed_`, `persist_` | `has_started`, `has_commit`, `has_persist` and their setters | flags only ever rise |
| identifiers, `txn.rs`, `tcore.rs:834-866` | thread-local counters with a thread mask | `TidFac`, `OidFac` | unique |
| persistence, `plog.rs`, `txn.rs:118-151`, `pnvm_sys` | log file, persistent pages | `persist_log`, `persist_data`, `persist_txn` | records durable before data, data before the commit record |
| tables, `pnvm/src/tpcc/table.rs`, `tpcc_tables.rs`, `entry_ref.rs` | buckets (rows, index, version lock, persistent regions), secondary indexes | `push`, `delete`, `retrieve`, `get_pmem_addr`, index updates | rows do not overlap; index entries lead to rows; an order that is taken is delivered |
| TPC-C, `pnvm/src/tpcc/workload_*.rs` | none of its own | five transactions for three engines, new-order for 2PL | rank discipline; lock order; rows are retrieved from the bucket that holds them |
| drivers, `main.rs`, `tcore.rs` (`BenchmarkCounter`) | flags, barriers, per-thread counters, the clock | the worker loop, the timer, `report_stat` | runs end, the report counts what it should |
| configuration, generators, `numeric.rs`, device benchmark | | | sequential |
| legacy pieces, `parnvm/nvm_txn_2pl.rs`; `TArray`, `TMap` | | | unused by the drivers |

## 2. What makes it hard

- Words that belong together are written one after the other: owner and count of
  a lock, value and version of a row, capacity and root of a bucket, row vector,
  index and deque of a queue.
- A read makes no promise until the check; what was read may be stale long
  before, and look-ups take no lock at all.
- `lock` fails at once and the round is repeated, so partial locking must be
  undone exactly, with no waiting and no order between the contenders; local
  state that survives into the next attempt is stale.
- A chopped transaction exposes its early pieces before it commits. Everything
  after rests on dependencies taken from one word per row.
- "Committed" and "durable" are two moments, with waits, or instructions after
  which a crash may come, between them.
- With feature `dir`, work that used to be under a bucket lock is not.
- A barrier or a join waits for a thread that may have panicked; seconds are
  compared for equality.

`PROJECT.json` lists each hazard at its line with the properties that cover it,
and a note where a property covers it with a restriction or not at all.

## 3. The modules

### Locks

`ReentrantLock` is the abstract lock: a transaction may take a hold on an
object that nobody else holds and may give one back; every hold is given back
in the end.

`OccLock` is `TVersion::lock` and `unlock`, one action per atomic instruction
(`LockCas`, `LockCount`, `UnlockCount`, `UnlockOwner`), driven like the clean-up
loops of the transactions drive them. The debug assertions only load, so they
are the invariant `AssertionsHold` over the window each guards. It implements
`ReentrantLock` with `held <- is_lock`: a hold begins at the `fetch_add` and
ends at the `fetch_sub`.

### Transactions

`Refs` names the operations of a program: reads, writes, pushes, deletes, locks,
and two kinds of look-up (one that aborts when it finds nothing, one that just
ends the program). Programs are data, and each engine runs them.

`OccTags` is what the optimistic transactions share: read (version, then value),
buffered write, lock loop, check loop, install (value, then version), clean-up.
It takes the lock as atomic, which `OccLock` justifies. Hash maps are visited in
any order (`todo`). Rows pushed into one bucket by one transaction have a tag
each and lock the bucket again; they are one tag here, since the lock counts.
`check_version` may load the owner twice, for 0 and for the caller; only the
caller writes its own identifier, so the first load decides and `CheckOwner` is
one step.

`OccTxn` composes `OccTags` into `TransactionOCC` and its retry loop. `ParTxn`
composes it into `TransactionParOCCRaw` and `TransactionParOCC`: pieces, ranks,
`add_dep` over the written tags, `set_access_info` over all tags, the three
waits, user aborts, and the flags of `TxnInfo`. The two kinds differ in how a
user abort reaches `abort()`. A wait passes in one step although the code polls
its dependencies one by one: the flags only rise, so when the last poll passes,
all are true.

`TwoPL` is the lock words and `Transaction2PL`. An iteration of a lock loop is a
step, since the words are only touched between `enter_cr` and `exit_cr`; a waiter
has no step until the iteration that ends its wait. `DieOfWriter`, `DieOfReader`,
`StartUpgrade`, `FinishUpgrade` are the branches of `write_lock`. The panics
after 10^8 iterations are left out: who would reach them waits for ever.
`PersistLog`, `PersistData`, `Drain`, `PersistTxn` are commit's steps towards
durability, for the build with feature `pmem` and without `dir`. A crash is not
an action, because nothing in the code runs after one: `pmem[x]` is the set of
contents that a crash at this moment may leave of object `x`. The records
themselves are not modelled, since their headers reach the log as arbitrary bytes
(section 8): `plog_txn`, the transactions that have appended a commit record, is a
fact about the run, not one that the log tells.

In all of these a value is the identifier of its writer, which makes lost and
stale values visible without data. `Redraw` says whether a failed attempt draws
new input (the TPC-C drivers do, the micro-benchmarks keep their keys).

### Tables

`PmemBucket` is `Bucket::next_pmem_offset` and `get_pmem_addr`, an action per
atomic access. `locked`, chosen in `Init`, is the build: without feature `dir`
the address is taken in `Bucket::push` under the bucket's version lock, with
`dir` in `get_pmem_back_row`, under no lock. A write to an unmapped address ends
the process. The unmapping of a region that lost the race is part of
`RaiseCap`: nobody else knows of that region.

`Orders` is the life of the orders of one district under
`TransactionParOCCRaw`, at the granularity of the accesses to the tables: the
district's counter, the rows and the index of the new-order bucket, the deque
`wd_index_`, the index of the order bucket, the lock words of bucket and row,
`add_dep` and the ranks. Payments and stock levels are there for what they do to
the district row. A payment installs its whole copy of it, the order number
included, although it changes another field. A stock level only reads the row, so
it takes no dependency, but like every tag its tag becomes the `txn_info_` of the
row (`PassDistrict`); `hidden` remembers the writers that it replaced there before
they had committed. A look-up that runs while another thread changes the same hash
map is a data race, modelled as one that may miss a key. What a piece does outside
these tables, and the dependencies it takes there, among them those for the
orders that a delivery updates, are left to `ParTxn`.

### The workload

`Tpcc` has the keys and buckets of the rows, the lock word that each kind of
reference uses, the inputs of the transactions, and two facts TLC evaluates for
each configuration (`FoundWhereKept`, `DistrictsApart`). `TpccOcc`, `TpccLock`,
`TpccRaw` and `TpccPar` are the programs of `workload_occ.rs`,
`workload_2pl.rs`, `workload_pc_raw.rs` and `workload_ppnvm.rs`. `TpccPar` also
checks that the numbered outputs the pieces hand on are added in order and
before they are used (`OutputsAssumption`), with and without feature `smallpc`.
They have no state.

### The driver

`Driver` is the life of a benchmark run, for both drivers: with a timer thread
and barriers (`run_tpcc`, `run_ycsb`), and with each worker reading its own
clock (`run_pc_tpcc`; the loop of `run_nvm_occ_micro` is the same, but its report
ends in "Not supported anymore"). It holds the counters, the identifier factories and `report_stat`. A transaction is what
happens between `Begin` or `Sample` and `Commit` or `Panic`; in the clock driver
a second's worth of transactions is one.

### Instances

`MCOccLock`, `MCTwoPL`, `MCOccTxn`, `MCParTxn`, `MCPmemBucket`, `MCOrders`,
`MCDriver` give the constants their values for TLC. Those of the transactions
have a sequence of mixes, one of which `Init` chooses, so that one run covers many
combinations of programs. `Numbering` numbers the objects of each mix, so that
TLC handles small integers and the mixes share them.

### Proofs

`OccLockProofs`, `TwoPLProofs`, `OccTxnProofs`, `ParTxnProofs`,
`PmemBucketProofs`, `OrdersProofs` and `DriverProofs` hold the theorems about the
module each is named after; `OccTagsProofs` holds what those of `OccTxn` and
`ParTxn` share. Section 7 says what they prove and how.

Operators whose name has an underscore and a capital after it
(`LockCas_AnyOwner`) are mutants: plausible mistakes in the operator they
precede, used to see that each property can fail. They are in no specification.

## 4. The runs

| run | what it asks | bounds and why they are enough |
|---|---|---|
| `occ_lock` | is `lock`/`unlock` an exclusive re-entrant lock, with exact counts, held assertions and eventual release? | 3 transactions, 2 objects, 2 holds: re-entrance, a failed lock while another object is held, and a third party at the two-instruction windows; the safety part is proved for all bounds |
| `twopl` | are lock words exact and committed transactions serializable? is what a crash leaves durable or still locked, and never what something durable was read from? is there no deadlock where what is read-locked is never write-locked? | mixes: three micro-benchmark transactions on 2 keys in any order, one with repeated keys (two upgraders and a third party); two whole new orders of one district; three excerpts of new orders that lock district and stock crosswise. Reader counter of 2 bits, more than the transactions need and few enough to wrap |
| `twopl_deadlock` | does wait-die prevent deadlock in general? | the micro-benchmark mix; violated |
| `occ_mixed` | are write sets installed whole, and are the reads that `check` looks at serializable with all writes? | 3 transactions crossing on 3 rows, and pairs of whole TPC-C transactions: new order (with one item twice), payment to own and foreign customers, by number and name, order status, delivery, stock level |
| `occ_neworder` | are all reads serializable? | two new orders of one district; violated |
| `par_mixed` | do dependencies never form a circle, do writers keep one order everywhere, does everything become durable? | two mixes of three excerpts (ranks 1, 2, 5, user aborts, read-only tags), and whole TPC-C transactions of both kinds in pairs |
| `par_reader` | are pieces "without cross edges" when one transaction only reads? | 3 transactions; violated |
| `par_persist` | does durability follow the order of the writes? | 2 transactions, 1 object; violated |
| `bucket_growth` | do rows never overlap, do regions reach the slot of their chunk or get unmapped, and is every address mapped under the lock? | 3 threads, first capacity 3, 10 rows, 3 roots: two growths, each with up to three threads inside; threads are symmetric |
| `bucket_dir` | is every address mapped without the lock? | as above; violated |
| `orders` | do the entries of the queue lead to their rows and stay in order, are its locks never lost, is what is taken found and delivered, does everybody end? | on a queue of 0 to 2 orders: two new orders and a delivery, or one and two deliveries (two pushes overlap, two deliveries take the same order, a delivery meets an unfinished new order); two new orders and a payment, which sets the number back, or a stock level, which hides one from the other |
| `driver` | are identifiers unique, is the warm-up left out of the report, does the report stay in its array, does the run end? | 2 workers, 2 transactions each, 1 abort, 1 panic; identifiers of 4 and 5 bits, 2 of them counted, which the clock driver outgrows; 3 slots with durations that fit (4) and that do not when a transaction takes 2 seconds (5); warm-up of 1 second |

The instances of the transactions have 2 warehouses of 1 district with a bucket
for each, 1 customer, 1 or 2 items, and order lines from both warehouses.
`CHECK_DEADLOCK FALSE` stands where the system really may stop: `twopl` and
`twopl_deadlock` (the deadlock of section 5), and `driver` (a run that has ended,
or that hangs after a panic).

Preconditions that are part of a property or an instance:

- `CheckedReadsSerializable` leaves out the reads that `check` does not look at:
  of objects the transaction writes too, and all but the last of repeated reads
  of one object. `occ_neworder` shows why the first.
- `NoWaitCycleApart` speaks of mixes in which no object is both read-locked and
  write-locked. `twopl_deadlock` shows why.
- `ReaderWordsExact` leaves out the items: `ItemRef::read_lock` does nothing, but
  the unlock goes to the version and counts down from 0. Nobody write-locks an
  item, so nobody looks at the words.
- `CrashConsistent` speaks of which transactions had appended a
  commit record when the crash came. It does not say that a recovery could find
  out, nor that it could undo the value of a transaction in flight: the headers of
  the records are lost, and the records of `Transaction2PL` are made after
  `write_through` and hold the new value.
- `DepsAcyclic` speaks of the transactions that have not aborted (section 7).
- `PipelineOrder` speaks of objects that every piece which accesses them writes
  (`add_dep` takes no dependency for a read tag), and of behaviours in which
  nobody has aborted: `abort()` does not wait for its dependencies, so a
  transaction that depends on an aborted one may pass those before it.
- `EventuallyPersisted` supposes that at most one transaction has pieces that
  lock one object and access another. Two such pieces can fail each other's locks
  or checks again and again: nothing in the code orders or delays retries, so
  progress there is a matter of luck.
- `QueueInOrder` and `DeliveriesInTurn` suppose distinct order numbers. The
  piece of the district is a read-modify-write, which `check` does not validate
  (`occ_neworder`), so two new orders can draw one number, also because a payment
  in between has installed the old one again; then one of the two entries of the
  deque leads nowhere once the other is delivered.
- That the deque is sorted, the first half of `QueueInOrder`, also supposes that no
  stock level has replaced a writer in the `txn_info_` of the district before that
  writer had committed (`hidden = {}`). It does what `par_reader` shows: the next
  new order does not depend on the hidden one and may push first. Without this
  condition TLC finds the deque `<<2, 1>>` with distinct numbers after a stock level
  between two new orders, and a delivery would take order 2 first; since deliveries
  only run in the mix that has stock levels, nothing in the code excludes it. That its
  entries lead to their rows does not suppose it.
- `OrderFound`, `RemovedIsDelivered` and `DeliveriesInTurn` except deliveries
  that ran their first piece again, and `OrderFound` also those whose look-up
  missed in a data race. `do_pc_delivery` makes the list of order numbers
  outside the loop over the attempts of its first piece: after a failed attempt
  the second piece reads the numbers of the failed one. Such a delivery delivers
  an order twice, loses the one it took, or finds no order and panics.
- `EventuallyEnds` and `EventuallyReported` except runs with a panic as their
  text says.
- `IdsUnique` speaks of counters that still fit below the mask, and masks above
  it: 2^24 transactions of a thread and 255 threads for a `Tid`, 2^52 objects and
  4095 threads for an `ObjectId`.
- `WarmUpExcluded` supposes, for the clock driver, transactions of no more than a
  second. Longer ones jump over the equality test and the warm-up is counted.
- `ReportInBounds` supposes a run of no more than two seconds per slot but the
  first, 32 seconds; a longer one indexes past `total_timestamps`.
- `PerSizeAssumption`: a bucket has at least as many first rows as there are
  threads. The pushed tables begin with tens of thousands of rows per bucket
  (`workload_common.rs:56-88`). It is needed: `RootsMatchChunks` holds because
  a second growth cannot begin before a first capacity's worth of indexes has
  gone to threads that stand in the first one. It also excludes `scale_ratio`
  0 (fewer threads than warehouses), with which capacities are 0.
- `bucket_growth` runs past a fault of a thread no further: the process is gone.

Each property of a passing run has a mutant in `PROJECT.json`: a definition of
the model changed the way a plausible bug would change the code, with which TLC
finds the property violated.

## 5. What the runs found

Five runs end in a counterexample; each is a disagreement between the code and
what its comments or documents say (`findings` in `PROJECT.json` quotes them).

1. `twopl_deadlock`: a reader that upgrades registers as the writer and then
   waits for the other readers without comparing identifiers. An older reader
   that wants the write lock then waits for it.
2. `occ_neworder`: `check` skips written tags, so read-modify-write is not
   validated. Two new-order transactions can take the same order number.
3. `par_reader`: a transaction that only reads a row replaces that row's last
   writer in `txn_info_`, and itself depends on nobody. The next writer depends
   on the reader alone and can pass the earlier writer. In the full TPC-C mix a
   stock level does so to the new orders of its district, and the first order of
   the queue need not be the smallest, as `retrieve_min_oid` takes it to be
   (`QueueInOrder`, section 4).
4. `par_persist`: a transaction that is committed but not yet durable is no
   longer taken as a dependency, so one that overwrites it may be durable first.
5. `bucket_dir`: the capacity of a bucket is raised before the new root is
   stored; without the bucket lock a second thread goes through the gap.

The preconditions above name further limits of the code that no document
contradicts.

## 6. Fairness

- `OccLock`, `ParTxn` and `Orders`: weak fairness of each transaction's `Step`. A
  transaction runs on a thread of its own, commit and clean-up contain no
  blocking call, and the busy waits are loops of loads: a thread is always
  scheduled again. No action is singled out, in particular not the success of a
  lock or a check.
- `ReentrantLock`: strong fairness of `Release`, for each transaction and object.
  `OccLock` implements it because a transaction with a hold goes on to clean-up,
  which unlocks every tag before anything else.
- `Driver`: weak fairness of each worker, of the timer, of time, and of the
  report. Threads are scheduled, the timer's sleeps end, and a transaction ends
  (which is what the modules of the transactions are about).
- `TwoPL`, `OccTxn`, `PmemBucket` state no fairness: only safety is checked. The
  first can deadlock, and the retries of the second are unordered.

## 7. The proofs

The theorems hold for all values of the constants that satisfy the named
assumptions. Each module of proofs gives an inductive invariant, shows that it
holds at first and that every action keeps it, and derives the properties.

### The version lock: `OccLockProofs`

From `TidsAssumption` (identifiers are positive, 0 being nobody) and
`MaxHoldsAssumption`:

- `TypeCorrect`, `MutualExclusionHolds`, `AssertionsHoldAlways`,
  `CountIsHoldsAlways`: the safety properties of run `occ_lock`;
- `RefinesLock`: every step is a step of `ReentrantLock` or a stutter.

None of these is inductive. Mutual exclusion, for instance, says nothing about a
transaction that has exchanged the owner word but has not yet counted. The
inductive invariant `LockInv` says who uses an object: a transaction with a hold
on it, or one that stands between two instructions of `lock` or `unlock`
(`InCall`). The user of an object is the transaction in `lock_owner_`, and
`count_` is the number of its holds, 0 while it has none yet or none any more.

### Two-phase locking: `TwoPLProofs`

All eight safety properties of run `twopl`: `TypeOK`, `LockExclusion`,
`ReaderWordsExact`, `NoLockPanic`, `NoAbortedData`, `Serializable`,
`CrashConsistent` and `NoWaitCycleApart`. The assumptions: finitely many
transactions, fewer than the values of `tpl_reader_cnt_` (`WidthAssumption`;
the program has 32 bits); programs that take all their locks before they touch a
value, and do not write-lock, without having read-locked it first, what an
attempt of the same transaction read-locks (`DisciplineAssumption`, which TLC
evaluates for the micro-benchmark and the whole new orders of the instance).

The invariant has seven layers. The lock words are determined by the `locks` of
the transactions and by who stands in an upgrade (`LockInv`); the value of an
object by who holds its write lock, or committed last (`DataInv`); what a
transaction has seen by the position of its commit (`HistoryInv`). For
`CrashConsistent` the layer `PersistInv` says that a content that a crash may
leave is that of the last durable writer, or of a transaction between its copy
and its commit record, which still locks the object. `DurableInv` says that every
transaction has read only first values, its own, and those of transactions with
commit records: what another has written and not recorded it still locks
(`LockedValueDurable`). These are the two parts of the property. `NoWaitCycleApart` needs no layer of
its own: where reads and writes are apart nobody waits in an upgrade, and a
transaction only waits for greater identifiers.

### The optimistic transactions: `OccTagsProofs`, `OccTxnProofs`

`OccTagsProofs` has no theorem of its own: it says what the rounds of tags
preserve, whoever makes them, and the proofs of `OccTxn` and of `ParTxn` cite it
after they have shown that each of their steps is one of its steps (`TagStep`).
Its invariant `TagsInv` relates `is_lock` to the control point of a transaction
and `data` to `last_writer`.

`OccTxnProofs` proves the safety properties of run `occ_mixed`: `TypeOK`,
`LocksOwned`, `VersionMatchesData`, `InstallUnderAllLocks` and
`CheckedReadsSerializable`, for any mixes in which only buckets are pushed to and
deleted from. The first four come from `TagsInv`. For the last the invariant says
that a serial order exists (`SerialInv`): a transaction gets its place at the
step that ends its lock loop and begins the check. The writers of an object are
in that order because they hold its lock from their place to their last install.
A read that the check has looked at comes after the writer it read from, because
a value only becomes visible after its writer has its place; and before the next
writer, because that one had not locked the object when the check found it
unlocked, so its place comes later (`PassedOrder`). Reads that the check does not
look at are in no such order; `occ_neworder` shows it.

### The chopped transactions: `ParTxnProofs`

`TypeOK`, `DepsAcyclic` and `PipelineOrder` of run `par_mixed`, from
`MixesAssumption` (pieces run by increasing rank, an object belongs to one rank)
and `RanksAssumption` (ranks are the numbers up to some `MaxRank`).

The invariant says that an order of the transactions exists (`Before`): those
that have committed come first, in the order in which they did, then those that
have reached the highest rank, and of one rank those that have begun to install,
in the order in which they did. The order is not fixed: a transaction that
starts a piece or commits moves ahead. Nobody passes those it depends on, since
`StartPiece` and `Commit` wait for them (`StepBefore`), and a new dependency is
on one that accessed an object of the same rank and is therefore ahead
(`DepsInv`). For `PipelineOrder` the layers say further that `access_info` leads
to the last writer of a tracked object (`TraceInv`), that who holds an object to
overwrite it depends on that writer (`HoldInv`), and that this still orders all
earlier writers (`ChainInv`). The one exception they need is a transaction that
has called `should_abort`: it may stand in `access_info` without having written,
and then nobody who depends on it gets past it until it has aborted.

Proving `DepsAcyclic` changed it. Stated of all transactions it is false, though
the small instance does not show it: when a transaction aborts, its flags are set
without a wait, and another that depended on it may pass those the aborted one
depended on, and come to be a dependency of theirs. TLC finds the circle when
three transactions write at ranks 1 to 4. Nobody waits in it, because the
aborted one waits for nobody; so the property now speaks of the transactions that
have not aborted.

### The queue of a district: `OrdersProofs`

All six safety properties of run `orders`, from `OrdersAssumption`: finitely many
transactions with positive identifiers, each of one kind. `QueueInOrder` and
`DeliveriesInTurn` are conditional, as properties, on the numbers drawn being
distinct, and the first also on no writer of the district being hidden, which the
program does not ensure (section 4); the other four are not.

The invariant has four layers.

- `BaseInv` is about types, control points and locks. Who holds the bucket's lock
  is at one of its control points, and a row is only locked by such a one, so
  `LockRow` cannot fail (`LockRowSucceeds`). A number never exceeds
  `MaxQueued` and one for each new-order: each draws once, also when two of them
  draw the same, and a payment only writes back a number it has read.
- `FollowInv` says which transactions can vouch for an order: the new-order that
  drew its number, and the deliveries that took a row of it. Until the order is
  there, each of those deliveries depends on another member that has not
  committed, so none can pass `Commit`'s or `StartPiece`'s wait before the
  new-order has. That a row tells a member (its `info`) is what a delivery's
  `add_dep` needs. `RemovedIsDelivered` adds what a delivery collected; both stop
  short of deliveries that ran their first piece again, of which they are false.
- `QueueInv` says that an order exists in which the new-orders and the payments
  wrote the district row. The last one is in `txn_info_`, or has passed rank 3, as
  long as no stock level has hidden a writer; so each waits at rank 3, directly or
  not, for those before it (`WrittenInOrder`). A number drawn is one more than an
  earlier one, payments in between or not (`NumbersInOrder`). So rows are pushed
  in that order, with distinct numbers the number of a row is its position, and
  the one that is queued is the greatest (`RowsInOrder`, `WdSorted`). That no number
  is queued twice, and that it leaves the deque before the index, needs distinct
  numbers only (`WdInv`).
- `TurnInv` says that an order exists in which deliveries took the row of an
  order. With distinct numbers an order has one row, which tells the last of
  them or is still locked; each waits for the one before or finds it committed,
  and so has committed after it.

The sets and orders in the last three are not variables of the model: the
invariants say that they exist, and each step gives the next ones
(`Joins`, `ComesLast`).

### The rows of a bucket: `PmemBucketProofs`

The five safety properties of run `bucket_growth`: `TypeOK`, `InBoundsUnderLock`, `RowsDistinct`, `RootsMatchChunks` and
`RegionsAccounted`, from `PerSizeAssumption`: no more threads than the first
chunk has rows, and indexes that end where the last chunk does (section 4). All
but `InBoundsUnderLock` hold without the bucket's lock as well.

The question is whether two threads can be between raising `pmem_cap_` and
storing the new region in `pmem_root_` at the same time: nothing in the code
keeps them apart, and if they could, regions would end up in each other's slots.
They cannot. Who raises the capacity again has an index past the next chunk. All
indexes of that chunk were handed out before, more of them than there are other
threads (this is where the assumption is used), so one of them has a row already
(`SomeRowThere`); and a row has an address only if its chunk was stored, or else
the process has ended.

The invariant says who has a region that is not stored yet (`RegionInv`); that
the bucket has grown some number of times, with all chunks stored but perhaps the
last, which one thread is about to store (`GrowthInv`); that an index is in the
hands of a thread or has a row (`Issued`), and never lies past the next chunk
(`IndexInv`); where a row is (`RowInv`); and that under the lock one thread is at
work (`LockInv`). That chunks double needs induction on the number of a chunk. It
is done with sets of numbers (`NatSetInduction`), which is also how `Pow2`, a
recursive function, is shown to be one (`Pow2Unfolds`).

### The drivers: `DriverProofs`

All four safety properties of run `driver`, `TypeOK`, `IdsUnique`,
`WarmUpExcluded` and `ReportInBounds`, from `DriverAssumption`.

For `WarmUpExcluded` the two drivers need different arguments. With a timer, who
has reached `warm_up_barrier` has reset its counts, and `EndRun` comes after
everybody has (`FlagInv`, `TimerInv`). With clocks, a worker whose transactions are
shorter than a second looks at its clock every second, so it cannot miss the
second at which the warm-up ends, nor time out before it (`ClockInv`). In both,
a worker that is past its warm-up has counted what was to be measured and nothing
else (`CountInv`). For `ReportInBounds`, a worker has one stamp for every two
seconds since its `start`, and takes a stamp only before the duration is over
(`StampInv`); this needs nothing about how long transactions take.

`IdsUnique` is about numbers. A number below `2^k` is determined by its `k` lowest
binary digits (`BitsDetermine`) and has no others (`NoHighBits`), so the digits of
the counter and those of the shifted mask do not meet in the word, and both can be
read off it (`NextIdInjective`). The induction on digits is the one of
`PmemBucketProofs`, with the same lemmas about `Pow2`.

### What is only model-checked

- Liveness, which is beyond TLAPS together with `ENABLED`: `EventuallyReleased`
  and the fairness part of the refinement of `ReentrantLock`,
  `EventuallyPersisted`, `EventuallyEnds`, `EventuallyReported`.
- What the programs of `Tpcc*` compute: recursive functions over sequences, which
  TLC evaluates for the instances, and the assumptions on constants, which it
  evaluates for every instance.

## 8. What is not modelled

- The log records and flushes of the optimistic transactions, which have no
  effect on the others; the bytes of a log record (`into_iovec` hands the kernel
  pointers to locals that are gone, so its header is arbitrary); undo and
  recovery, which the repository does not have. `PersistedInWriteOrder`
  and `CrashConsistent` speak of the order of flushes and commit
  records, which is what a recovery could at best rely on.
- The allocation of `PmemFac`: thread-local and sequential. `pnvm_sys` behind its
  interface.
- The contents of rows beyond who wrote them, `numeric.rs`, random input, argument
  parsing, the YCSB generator, the device benchmark: sequential code.
- The micro-benchmarks' own loops, beyond the accesses they make (`MCTwoPL`) and
  their timing (`Driver`).
- The indexes by customer name and by customer's last order: a look-up in them
  finds or does not. Partitioned tables (`conf.partition`), where districts share
  a bucket: the scripts that set it are commented out.
- `TransactionPar`, `PValue`, `TArray`, `TMap`, the layered table: no driver
  reaches them.
- Weak memory. The atomics involved are taken as sequentially consistent, as the
  ones a transaction synchronises by are on the x86 processors whose flush
  instructions `pnvm_sys` uses.

## 9. The plan

Every safety property that a passing run checks is proved. What remains:

1. Theorems about what the invariants leave implicit: that the optimistic
   transactions and the chopped ones step by the rules of `OccTags` (now lemmas on
   the way to their invariants), and the re-entrant lock of `OccLock` used as the
   one that `OccTags` supposes.
2. More of the sequential code, as far as properties tell its data apart.
