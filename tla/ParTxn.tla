------------------------------- MODULE ParTxn -------------------------------
(***************************************************************************)
(* TransactionParOCCRaw and TransactionParOCC, both driven by run_pc_tpcc: *)
(* a transaction is a list of pieces with ranks, each an optimistic round  *)
(* of its own. The transactions it depends on are collected in deps; it    *)
(* waits for them before each piece, before it commits and before it       *)
(* persists.                                                               *)
(*                                                                         *)
(* The two differ in how a failed look-up reaches abort(): a function of   *)
(* workload_pc_raw aborts at once; a callback of workload_ppnvm calls      *)
(* should_abort, and execute_piece commits the piece first. Logging and    *)
(* flushing are left out, and the build is one that persists (feature pmem *)
(* or disk).                                                               *)
(***************************************************************************)
EXTENDS OccTags

Raw      == "TransactionParOCCRaw"
Callback == "TransactionParOCC"

CONSTANTS
  MaxRank, \* ranks are 1 to MaxRank
  Mixes    \* what may run together: the kind of transaction, and for each t the
           \* set of programs it may run, empty if the mix has no transaction t

Operation == [op : OccOps \ {Find}, obj : Objects]
Piece == [rank : 1..MaxRank, ops : Seq(Operation)]

Accesses(p) == {p.ops[i].obj : i \in DOMAIN p.ops}

\* Chopping gives a rank to each data structure, of which there are finitely
\* many: the pieces of a transaction have increasing ranks, and an object is
\* accessed by pieces of one rank.
ASSUME RanksAssumption == MaxRank \in Nat
ASSUME MixesAssumption ==
  \A m \in DOMAIN Mixes :
    LET programs == Mixes[m].programs IN
    /\ Mixes[m].kind \in {Raw, Callback}
    /\ DOMAIN programs = Tids
    /\ \A t \in Tids : \A p \in programs[t] :
         /\ p \in Seq(Piece)
         /\ \A i, j \in DOMAIN p : i < j => p[i].rank < p[j].rank
    /\ \A t, u \in Tids : \A p \in programs[t], q \in programs[u] :
         \A i \in DOMAIN p, j \in DOMAIN q :
           p[i].rank # q[j].rank => Accesses(p[i]) \cap Accesses(q[j]) = {}

VARIABLES
  mix,          \* the mix that runs
  program,      \* program[t]: the pieces of t
  piece,        \* piece[t]: index of the next or current piece
  ip,           \* ip[t]: index of the next operation of the piece
  rank,         \* rank[t]: TxnInfo.rank_
  committed,    \* the transactions whose TxnInfo.committed_ is set
  persisted,    \* the transactions whose TxnInfo.persist_ is set
  access_info,  \* access_info[x]: TVersion.txn_info_, 0 for the default one
  deps,         \* deps[t]: the transactions in deps_
  early_abort,  \* the transactions whose early_abort_ is set
  aborted       \* history: the transactions that called abort()

infoVars == <<rank, committed, persisted>>
progVars == <<mix, program, early_abort>>
parVars == <<progVars, piece, ip, infoVars, access_info, deps, aborted>>
vars == <<occVars, parVars>>

-----------------------------------------------------------------------------

\* What t may run.
Programs(t) == Mixes[mix].programs[t]

CurrentPiece(t) == program[t][piece[t]]

CurrentOp(t) == CurrentPiece(t).ops[ip[t]]

Running(t, op) ==
  /\ pc[t] = "run"
  /\ ip[t] <= Len(CurrentPiece(t).ops)
  /\ CurrentOp(t).op = op

Advance(t) ==
  /\ ip' = [ip EXCEPT ![t] = @ + 1]
  /\ UNCHANGED <<progVars, piece, infoVars, access_info, deps, aborted>>

\* Mutant: a dependency that is at the rank counts as past it.
HasStarted_AtRank(d, r) == rank[d] >= r

\* TxnInfo::has_started: the transaction is past rank r.
HasStarted(d, r) == rank[d] > r

\* wait_deps_start passes when each dependency has committed or is past the
\* rank; once a dependency is, it stays so.
DepsStarted(t, r) == \A d \in deps[t] : d \in committed \/ HasStarted(d, r)

\* wait_deps_start, update_rank, and the piece begins.
StartPiece(t) ==
  /\ pc[t] = "idle"
  /\ t \notin early_abort
  /\ piece[t] <= Len(program[t])
  /\ DepsStarted(t, CurrentPiece(t).rank)
  /\ rank' = [rank EXCEPT ![t] = CurrentPiece(t).rank]
  /\ ip' = [ip EXCEPT ![t] = 1]
  /\ Goto(t, "run")
  /\ UNCHANGED <<objectVars, tagVars, todo, at, historyVars>>
  /\ UNCHANGED <<progVars, piece, committed, persisted, access_info, deps, aborted>>

\* read, its two loads; other transactions may come between.
ReadOp(t) ==
  \/ Running(t, Read) /\ ReadVersion(t, CurrentOp(t).obj) /\ UNCHANGED parVars
  \/ ReadData(t) /\ Advance(t)

WriteOp(t) ==
  /\ Running(t, Write) \/ Running(t, Push) \/ Running(t, Delete)
  /\ BufferWrite(t, CurrentOp(t).obj)
  /\ Advance(t)

\* A look-up of the workload succeeds,
LookUpOp(t) == Running(t, LookUp) /\ Advance(t) /\ UNCHANGED occVars

\* or fails. A callback calls should_abort and returns: the piece will commit
\* what it has written, or run again, before the transaction aborts. Running
\* the piece again does not reset early_abort_.
ShouldAbort(t) ==
  /\ Mixes[mix].kind = Callback
  /\ Running(t, LookUp)
  /\ early_abort' = early_abort \cup {t}
  /\ ip' = [ip EXCEPT ![t] = Len(CurrentPiece(t).ops) + 1]
  /\ UNCHANGED <<occVars, mix, program, piece, infoVars, access_info, deps, aborted>>

\* When abort() is called: by the driver as soon as a look-up has failed, or
\* by execute_txn after the piece.
MayAbort(t) ==
  \/ Mixes[mix].kind = Raw /\ Running(t, LookUp)
  \/ pc[t] = "idle" /\ t \in early_abort

\* abort() drops the tags of the piece (no lock is held) and sets the
\* committed flag,
Abort(t) ==
  /\ MayAbort(t)
  /\ CleanedUp(t, "aborting")
  /\ committed' = committed \cup {t}
  /\ aborted' = aborted \cup {t}
  /\ UNCHANGED <<progVars, piece, ip, rank, persisted, access_info, deps>>

\* and then, without waiting for its dependencies, the persisted flag. What
\* earlier pieces installed stays.
AbortPersist(t) ==
  /\ pc[t] = "aborting"
  /\ persisted' = persisted \cup {t}
  /\ Goto(t, "done")
  /\ UNCHANGED <<objectVars, tagVars, todo, at, historyVars>>
  /\ UNCHANGED <<progVars, piece, ip, rank, committed, access_info, deps, aborted>>

\* The piece has run: try_commit_piece.
TryCommitPiece(t) ==
  /\ pc[t] = "run"
  /\ ip[t] > Len(CurrentPiece(t).ops)
  /\ BeginLock(t)
  /\ UNCHANGED parVars

\* try_commit_piece: lock and check.
Validate(t) ==
  /\ \/ \E x \in Objects : LockTag(t, x) \/ CheckOwner(t, x)
     \/ BeginCheck(t)
     \/ CheckVersion(t)
  /\ UNCHANGED parVars

\* The check has succeeded: add_dep visits the tags; only those of the write
\* set can add a dependency.
BeginAddDep(t) == CommitRound(t, "add_dep", has_write[t]) /\ UNCHANGED parVars

\* add_dep, for one tag: the transaction that accessed the object last.
AddDep(t, x) ==
  /\ pc[t] = "add_dep"
  /\ x \in todo[t]
  /\ deps' = [deps EXCEPT ![t] = @ \cup ({access_info[x]} \ (committed \cup {0, t}))]
  /\ Visited(t, x)
  /\ UNCHANGED <<objectVars, tagVars, pc, at, historyVars>>
  /\ UNCHANGED <<progVars, piece, ip, infoVars, access_info, aborted>>

\* commit_piece, after persist_logs: install_data visits all tags.
BeginInstall(t) ==
  /\ pc[t] = "add_dep"
  /\ todo[t] = {}
  /\ Visit(t, tags[t])
  /\ Goto(t, "install")
  /\ UNCHANGED <<objectVars, tagVars, at, historyVars, parVars>>

\* install_data, commit_data of a written tag: the value, then the version
\* (a push tells its row, which is new, and not the bucket, who wrote it),
InstallTag(t) ==
  /\ \/ \E x \in Objects : InstallData(t, x) \/ InstallPush(t, x)
     \/ SetVersion(t) /\ Goto(t, "set_info") /\ UNCHANGED todo
  /\ UNCHANGED parVars

\* Mutant: a written tag does not tell who wrote it.
SetAccessInfo_Missing(t, x) ==
  /\ x \in todo[t]
  /\ \/ pc[t] = "install" /\ x \notin has_write[t]
     \/ pc[t] = "set_info" /\ x = at[t]
  /\ Visited(t, x)
  /\ Goto(t, "install")
  /\ UNCHANGED <<objectVars, tagVars, at, historyVars>>
  /\ UNCHANGED <<progVars, piece, ip, infoVars, access_info, deps, aborted>>

\* then set_access_info; a tag that was only read comes here at once.
SetAccessInfo(t, x) ==
  /\ x \in todo[t]
  /\ \/ pc[t] = "install" /\ x \notin has_write[t]
     \/ pc[t] = "set_info" /\ x = at[t]
  /\ access_info' = [access_info EXCEPT ![x] = t]
  /\ Visited(t, x)
  /\ Goto(t, "install")
  /\ UNCHANGED <<objectVars, tagVars, at, historyVars>>
  /\ UNCHANGED <<progVars, piece, ip, infoVars, deps, aborted>>

\* All tags are installed; clean_up follows.
EndInstall(t) ==
  /\ pc[t] = "install"
  /\ todo[t] = {}
  /\ Goto(t, "commit")
  /\ UNCHANGED <<objectVars, tagVars, todo, at, historyVars, parVars>>

\* clean_up, one tag after the other,
CleanUp(t) == (\E x \in Objects : UnlockTag(t, x)) /\ UNCHANGED parVars

\* and its end: on to the next piece, or the piece runs again.
EndCleanUp(t) ==
  /\ \/ /\ pc[t] = "commit"
        /\ CleanedUp(t, "idle")
        /\ piece' = [piece EXCEPT ![t] = @ + 1]
        /\ UNCHANGED ip
     \/ /\ pc[t] = "abort"
        /\ CleanedUp(t, "run")
        /\ ip' = [ip EXCEPT ![t] = 1]
        /\ UNCHANGED piece
  /\ UNCHANGED <<progVars, infoVars, access_info, deps, aborted>>

\* wait_deps_commit, and commit() sets the committed flag.
Commit(t) ==
  /\ pc[t] = "idle"
  /\ t \notin early_abort
  /\ piece[t] > Len(program[t])
  /\ deps[t] \subseteq committed
  /\ committed' = committed \cup {t}
  /\ Goto(t, "persist")
  /\ UNCHANGED <<objectVars, tagVars, todo, at, historyVars>>
  /\ UNCHANGED <<progVars, piece, ip, rank, persisted, access_info, deps, aborted>>

\* commit(), after persist_data: wait_deps_persist and persist_txn.
PersistTxn(t) ==
  /\ pc[t] = "persist"
  /\ deps[t] \subseteq persisted
  /\ persisted' = persisted \cup {t}
  /\ Goto(t, "done")
  /\ UNCHANGED <<objectVars, tagVars, todo, at, historyVars>>
  /\ UNCHANGED <<progVars, piece, ip, rank, committed, access_info, deps, aborted>>

Init ==
  /\ mix \in DOMAIN Mixes
  /\ program \in {p \in [Tids -> {<<>>} \cup UNION {Programs(t) : t \in Tids}] :
                    \A t \in Tids : p[t] \in IF Programs(t) = {} THEN {<<>>} ELSE Programs(t)}
  /\ OccInit([t \in Tids |-> IF Programs(t) = {} THEN "done" ELSE "idle"])
  /\ piece = [t \in Tids |-> 1]
  /\ ip = [t \in Tids |-> 1]
  /\ rank = [t \in Tids |-> 0]
  /\ committed = {}
  /\ persisted = {}
  /\ access_info = [x \in Objects |-> 0]
  /\ deps = [t \in Tids |-> {}]
  /\ early_abort = {}
  /\ aborted = {}

Step(t) ==
  \/ StartPiece(t)
  \/ ReadOp(t) \/ WriteOp(t) \/ LookUpOp(t)
  \/ ShouldAbort(t) \/ Abort(t) \/ AbortPersist(t)
  \/ TryCommitPiece(t) \/ Validate(t) \/ BeginAddDep(t) \/ BeginInstall(t)
  \/ InstallTag(t) \/ \E x \in Objects : AddDep(t, x) \/ SetAccessInfo(t, x)
  \/ EndInstall(t) \/ CleanUp(t) \/ EndCleanUp(t)
  \/ Commit(t) \/ PersistTxn(t)

\* All transactions of the instance have ended.
Terminated == (\A t \in Tids : pc[t] = "done") /\ UNCHANGED vars

Next == (\E t \in Tids : Step(t)) \/ Terminated

\* A transaction runs on a thread of its own, which is always scheduled
\* again; the busy waits are loops of loads.
Spec == Init /\ [][Next]_vars /\ \A t \in Tids : WF_vars(Step(t))

-----------------------------------------------------------------------------

TypeOK ==
  /\ OccTypeOK({"idle", "run", "read", "lock", "check", "check_version",
                "add_dep", "install", "set_version", "set_info", "commit",
                "abort", "aborting", "persist", "done"})
  /\ piece \in [Tids -> Nat \ {0}]
  /\ ip \in [Tids -> Nat \ {0}]
  /\ rank \in [Tids -> 0..MaxRank]
  /\ committed \subseteq Tids
  /\ persisted \subseteq committed
  /\ access_info \in [Objects -> Values]
  /\ deps \in [Tids -> SUBSET Tids]
  /\ early_abort \subseteq Tids
  /\ aborted \subseteq committed

\* The dependencies among the transactions that have not called abort() have
\* no cycle, so no transactions wait for each other in a circle, whichever of
\* them commit or abort later. (Through aborted ones there may be cycles:
\* abort() sets both flags without waiting for a dependency.)
DepsAcyclic ==
  \A S \in (SUBSET (Tids \ aborted)) \ {{}} : \E t \in S : S \cap deps[t] = {}

\* Whether a piece that writes an object accesses no other.
Lively(p) ==
  \A i \in DOMAIN p :
    (\E k \in DOMAIN p[i].ops : p[i].ops[k].op \in {Write, Push, Delete}) =>
      Cardinality(Accesses(p[i])) = 1

\* Every transaction ends, and ends durable: no wait for a dependency and no
\* repetition of a piece goes on for ever, unless several transactions have
\* pieces that lock one object and access another.
EventuallyPersisted ==
  (\E t \in Tids : \A u \in Tids \ {t} : Lively(program[u])) =>
    \A t \in Tids : program[t] # <<>> => <>(t \in persisted)

\* Every piece that accesses x writes x.
Tracked(x) ==
  \A t \in Tids : \A i \in DOMAIN program[t] :
    x \in Accesses(program[t][i]) =>
      \E k \in DOMAIN program[t][i].ops : program[t][i].ops[k] = [op |-> Write, obj |-> x]

\* u overwrote what t wrote of a tracked object.
OverwritesTracked(u, t) ==
  \E x \in Objects :
    /\ \E i, j \in DOMAIN written[x] : i < j /\ written[x][i] = t /\ written[x][j] = u
    /\ Tracked(x)

\* Transactions overwrite each other in the same order everywhere, however
\* their pieces interleave ("avoiding cross edges between conflicting
\* transactions", doc/Design.md), at the objects for which add_dep sees every
\* access, and while none of them aborts half-way.
PipelineOrder ==
  aborted = {} =>
    \A S \in (SUBSET Tids) \ {{}} :
      \E t \in S : \A u \in S \ {t} : ~OverwritesTracked(t, u)

\* "avoiding cross edges between conflicting transactions" (doc/Design.md):
\* the committed pieces of all transactions are conflict serializable.
NoCrossEdges == ConflictsAcyclic(seen)

\* "Roll-back or abortion of any un-committed transactions will not cause
\* chained rollback for a committed transaction" (doc/Algo_Draft.md): no
\* transaction is durable before one whose value it has overwritten, whose
\* undo log would otherwise be applied over it after a crash.
PersistedInWriteOrder ==
  \A x \in Objects : \A i, j \in DOMAIN written[x] :
    i < j /\ written[x][j] \in persisted => written[x][i] \in persisted

=============================================================================
