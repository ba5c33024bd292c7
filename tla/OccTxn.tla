------------------------------- MODULE OccTxn -------------------------------
(***************************************************************************)
(* TransactionOCC: a transaction runs its program on tags, locks its write *)
(* set, checks its read set, installs and cleans up. A failed attempt is   *)
(* repeated with the same identifier (run_occ_micro and run_tpcc loop      *)
(* until try_commit succeeds). The logging and the flushing of commit are  *)
(* left out: they touch nothing that is modelled here. The TPC-C driver    *)
(* draws new input for each attempt, the micro-benchmark keeps its keys    *)
(* (constant Redraw).                                                      *)
(***************************************************************************)
EXTENDS OccTags

CONSTANTS
  Mixes,   \* what may run together: Mixes[m][t] is the set of programs t may
           \* run, empty if mix m has no transaction t
  Redraw   \* whether a failed attempt draws its program again

Operation == [op : OccOps, obj : Objects]

ASSUME MixesAssumption ==
  /\ Redraw \in BOOLEAN
  /\ \A m \in DOMAIN Mixes :
       /\ DOMAIN Mixes[m] = Tids
       /\ \A t \in Tids : \A p \in Mixes[m][t] : p \in Seq(Operation)
       /\ \A t \in Tids : \A p \in Mixes[m][t] : \A i \in DOMAIN p :
            /\ p[i].op \in {Push, Delete} => p[i].obj \in Buckets
            /\ p[i].op \in {Read, Write} => p[i].obj \notin Buckets

VARIABLES
  mix,           \* the mix that runs
  program,       \* program[t]: the program of the current attempt
  ip,            \* ip[t]: index of the next operation
  should_abort   \* should_abort[t]: TransactionOCC.should_abort_

progVars == <<mix, program, should_abort>>
vars == <<occVars, progVars, ip>>

-----------------------------------------------------------------------------

\* What t may run.
Programs(t) == Mixes[mix][t]

CurrentOp(t) == program[t][ip[t]]

Running(t, op) ==
  /\ pc[t] = "run"
  /\ ip[t] <= Len(program[t])
  /\ CurrentOp(t).op = op

Advance(t) == ip' = [ip EXCEPT ![t] = @ + 1]

\* TransactionOCC::read, its two loads; other transactions may come between.
ReadOp(t) ==
  \/ Running(t, Read) /\ ReadVersion(t, CurrentOp(t).obj) /\ UNCHANGED <<progVars, ip>>
  \/ ReadData(t) /\ Advance(t) /\ UNCHANGED progVars

WriteOp(t) ==
  /\ Running(t, Write) \/ Running(t, Push) \/ Running(t, Delete)
  /\ BufferWrite(t, CurrentOp(t).obj)
  /\ Advance(t)
  /\ UNCHANGED progVars

EndProgram(t) == ip' = [ip EXCEPT ![t] = Len(program[t]) + 1]

\* orderstatus and delivery: a look-up finds its row, or the workload calls
\* should_abort and returns at once.
LookUpOp(t) ==
  /\ Running(t, LookUp)
  /\ \/ Advance(t) /\ UNCHANGED should_abort
     \/ EndProgram(t) /\ should_abort' = [should_abort EXCEPT ![t] = TRUE]
  /\ UNCHANGED <<occVars, mix, program>>

\* payment and orderstatus: a name leads to a customer, or the workload just
\* returns; what it has buffered is committed.
FindOp(t) ==
  /\ Running(t, Find)
  /\ Advance(t) \/ EndProgram(t)
  /\ UNCHANGED <<occVars, progVars>>

\* try_commit, which aborts at once after should_abort.
TryCommit(t) ==
  /\ pc[t] = "run"
  /\ ip[t] > Len(program[t])
  /\ IF should_abort[t]
     THEN Goto(t, "abort") /\ UNCHANGED <<objectVars, tagVars, todo, at, historyVars>>
     ELSE BeginLock(t)
  /\ UNCHANGED <<progVars, ip>>

\* lock and check.
Validate(t) ==
  /\ \/ \E x \in Objects : LockTag(t, x) \/ CheckOwner(t, x)
     \/ BeginCheck(t)
     \/ CheckVersion(t)
  /\ UNCHANGED <<progVars, ip>>

\* commit: do_log, then install_data over the write set.
Commit(t) ==
  /\ CommitRound(t, "install", has_write[t])
  /\ UNCHANGED <<progVars, ip>>

Install(t) ==
  /\ \/ \E x \in Objects : InstallData(t, x) \/ InstallPush(t, x)
     \/ SetVersion(t) /\ Visited(t, at[t]) /\ Goto(t, "install")
  /\ UNCHANGED <<progVars, ip>>

\* commit: everything is installed and persisted, clean_up follows.
EndInstall(t) ==
  /\ pc[t] = "install"
  /\ todo[t] = {}
  /\ Goto(t, "commit")
  /\ UNCHANGED <<objectVars, tagVars, todo, at, historyVars, progVars, ip>>

\* clean_up, one tag after the other,
CleanUp(t) ==
  /\ \E x \in Objects : UnlockTag(t, x)
  /\ UNCHANGED <<progVars, ip>>

\* and its end: the transaction is done, or its next attempt begins.
EndCleanUp(t) ==
  /\ should_abort' = [should_abort EXCEPT ![t] = FALSE]
  /\ ip' = [ip EXCEPT ![t] = 1]
  /\ \/ pc[t] = "commit" /\ CleanedUp(t, "done") /\ UNCHANGED program
     \/ /\ pc[t] = "abort"
        /\ CleanedUp(t, "run")
        /\ \E p \in IF Redraw THEN Programs(t) ELSE {program[t]} :
             program' = [program EXCEPT ![t] = p]
  /\ UNCHANGED mix

Init ==
  /\ mix \in DOMAIN Mixes
  /\ program \in {p \in [Tids -> {<<>>} \cup UNION {Programs(t) : t \in Tids}] :
                    \A t \in Tids : p[t] \in IF Programs(t) = {} THEN {<<>>} ELSE Programs(t)}
  /\ OccInit([t \in Tids |-> IF Programs(t) = {} THEN "done" ELSE "run"])
  /\ ip = [t \in Tids |-> 1]
  /\ should_abort = [t \in Tids |-> FALSE]

Step(t) ==
  \/ ReadOp(t) \/ WriteOp(t) \/ LookUpOp(t) \/ FindOp(t)
  \/ TryCommit(t) \/ Validate(t) \/ Commit(t) \/ Install(t) \/ EndInstall(t)
  \/ CleanUp(t) \/ EndCleanUp(t)

\* All transactions of the instance have committed.
Terminated == (\A t \in Tids : pc[t] = "done") /\ UNCHANGED vars

Next == (\E t \in Tids : Step(t)) \/ Terminated

Spec == Init /\ [][Next]_vars

-----------------------------------------------------------------------------

TypeOK ==
  /\ OccTypeOK({"run", "read", "lock", "check", "check_version", "install",
                "set_version", "commit", "abort", "done"})
  /\ mix \in DOMAIN Mixes
  /\ program \in [Tids -> Seq(Operation)]
  /\ ip \in [Tids -> Nat \ {0}]
  /\ should_abort \in [Tids -> BOOLEAN]

\* A write set is installed as a whole, under all of its locks: from the
\* first installed value to the last the writer owns every lock, and no
\* attempt that fails has installed anything.
InstallUnderAllLocks ==
  \A t \in Tids :
    /\ pc[t] \in {"install", "set_version"} =>
         \A x \in has_write[t] : lock_owner[x] = t
    /\ pc[t] \in {"run", "read", "lock", "check", "check_version", "abort"} =>
         \A x \in Objects : data[x] # t /\ last_writer[x] # t

\* "pieces from concurrent transactions are serialised with OCC"
\* (doc/Design.md): transactions that committed are conflict serializable.
Serializable == ConflictsAcyclic(seen)

\* What the check does achieve: the committed transactions are conflict
\* serializable by their writes and by the reads it has looked at, that is,
\* but for values that a transaction read and then overwrote, and for values
\* it read again later.
CheckedReadsSerializable == ConflictsAcyclic(CheckedReads)

=============================================================================
