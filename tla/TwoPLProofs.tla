----------------------------- MODULE TwoPLProofs -----------------------------
(***************************************************************************)
(* Safety of two-phase locking (module TwoPL), for any number of           *)
(* transactions, objects and programs that keep to the assumptions of      *)
(* TwoPL: identifiers are finitely many and positive, fewer than the       *)
(* values of tpl_reader_cnt_, and programs lock before they access.        *)
(*                                                                         *)
(* The inductive invariant IInv is a conjunction of layers, each of which  *)
(* is kept by every step from a state with the layers before it:           *)
(*   TypeInv     types;                                                    *)
(*   ControlInv  what an attempt has executed, by its ip, its locks, its   *)
(*               reads and its writes;                                     *)
(*   LockInv     the lock words, by the locks of the transactions;         *)
(*   DataInv     the value of an object, by who has written it;            *)
(*   HistoryInv  the order of the commits, and Serializable itself;        *)
(*   PersistInv  what a crash leaves, by that order;                       *)
(*   DurableInv  where the values come from that have been read.           *)
(* Of a layer it is first shown that a step that leaves alone what it is   *)
(* about keeps it (...Unchanged), then what each other step does to it.    *)
(***************************************************************************)
EXTENDS TwoPL, FiniteSetTheorems, SequenceTheorems, WellFoundedInduction, TLAPS

\* TypeOK, and what it lacks: programs come from the mix, an upgrade is at an
\* operation, and what an attempt has written has been written.
TypeInv ==
  /\ TypeOK
  /\ \A t \in Tids : program[t] \in Programs(t) \/ (pc[t] = "done" /\ program[t] = <<>>)
  /\ \A t \in Tids : pc[t] = "upgrade" => ip[t] <= Len(program[t])
  /\ \A t \in Tids, x \in Objects : x \in refs[t] => data[x] # 0

\* The operations of a transaction are numbered from 1.
LEMMA ProgramType ==
  ASSUME NEW p \in Seq(Operation)
  PROVE  /\ DOMAIN p = 1..Len(p)
         /\ \A i \in DOMAIN p : p[i] \in Operation
OBVIOUS

\* The next operation of a transaction is one of its program.
LEMMA TargetType ==
  ASSUME TypeInv, NEW t \in Tids, ip[t] <= Len(program[t])
  PROVE  /\ ip[t] \in DOMAIN program[t]
         /\ program[t][ip[t]] \in Operation
         /\ Target(t) \in Objects
<1>1. program[t] \in Seq(Operation) /\ ip[t] \in Nat \ {0}
  BY DEF TypeInv, TypeOK
<1>2. ip[t] \in DOMAIN program[t]
  BY <1>1, ProgramType
<1>3. program[t][ip[t]] \in Operation
  BY <1>1, <1>2, ProgramType
<1>4. QED
  BY <1>2, <1>3 DEF Target, Operation

\* The reader counter stays within its word.
LEMMA ModType == \A a \in Nat : a % CntMod \in 0..(CntMod - 1)
<1>1. CntMod \in Nat \ {0}
  BY TidsAssumption, FS_CardinalityType, WidthAssumption
<1>2. QED
  BY <1>1

\* The types hold at first,
LEMMA InitTypeInv == Init => TypeInv
<1> SUFFICES ASSUME Init PROVE TypeInv
  OBVIOUS
<1>1. CntMod \in Nat \ {0}
  BY TidsAssumption, FS_CardinalityType, WidthAssumption
<1>2. \A t \in Tids : program[t] \in Programs(t) \/ (Programs(t) = {} /\ program[t] = <<>>)
  BY DEF Init
<1>3. \A t \in Tids : Programs(t) \subseteq Seq(Operation)
  BY MixesAssumption DEF Init, Programs
<1>4. \A t \in Tids : program[t] \in Seq(Operation)
  <2>1. <<>> \in Seq(Operation)
    OBVIOUS
  <2>2. QED
    BY <1>2, <1>3, <2>1
<1>5. program \in [Tids -> Seq(Operation)]
  BY <1>4 DEF Init
<1>6. QED
  BY <1>1, <1>2, <1>5 DEF Init, TypeInv, TypeOK

\* and every step keeps them.
LEMMA StepTypeInv == TypeInv /\ [Next]_vars => TypeInv'
<1> SUFFICES ASSUME TypeInv, [Next]_vars PROVE TypeInv'
  OBVIOUS
<1> USE DEF TypeInv, Goto, Advance, Insert, LockType, lockWords, progVars, pmemVars, history
<1>0. CntMod \in Nat \ {0}
  BY TidsAssumption, FS_CardinalityType, WidthAssumption
<1>1. ASSUME NEW t \in Tids, NEW op, Running(t, op), NEW type, AlreadyLocked(t, type)
      PROVE  TypeInv'
  BY SMTT(30), <1>1 DEF AlreadyLocked, Running, TypeOK, Programs
<1>2. ASSUME NEW t \in Tids, NEW op, Running(t, op), LockItem(t) PROVE TypeInv'
  <2>1. locks' \in [Tids -> SUBSET (Objects \X LockType)]
    BY SMTT(30), <1>2, TargetType DEF LockItem, Running, TypeOK
  <2>2. QED
    BY <1>2, <2>1 DEF LockItem, Running, TypeOK, Programs
<1>3. ASSUME NEW t \in Tids, NEW op, Running(t, op), GrantRead(t) PROVE TypeInv'
  <2>1. Target(t) \in Objects
    BY <1>3, TargetType DEF Running
  <2>2. locks' \in [Tids -> SUBSET (Objects \X LockType)]
    BY <1>3, <2>1 DEF GrantRead, TypeOK
  <2>3. tpl_reader_cnt' \in [Objects -> 0..(CntMod - 1)]
    <3>1. tpl_reader_cnt[Target(t)] + 1 \in Nat
      BY <2>1 DEF TypeOK
    <3>2. (tpl_reader_cnt[Target(t)] + 1) % CntMod \in 0..(CntMod - 1)
      BY <3>1, ModType
    <3>3. QED
      BY <1>3, <3>2 DEF GrantRead, TypeOK
  <2>4. tpl_reader' \in [Objects -> Tids \cup {0}]
    BY <1>3, <2>1 DEF GrantRead, TypeOK
  <2>5. /\ ip' \in [Tids -> Nat \ {0}]
        /\ UNCHANGED <<tpl_writer, data, progVars, pc, refs, pmemVars, history>>
        /\ \A u \in Tids : pc[u] = "upgrade" => ip'[u] = ip[u]
    BY <1>3 DEF GrantRead, Running, TypeOK
  <2>6. QED
    BY <2>2, <2>3, <2>4, <2>5 DEF TypeOK, Programs
<1>4. ASSUME NEW t \in Tids, NEW op, Running(t, op), DieOfWriter(t) \/ DieOfReader(t)
      PROVE  TypeInv'
  <2>1. pc' = [pc EXCEPT ![t] = "abort"]
    BY <1>4 DEF DieOfWriter, DieOfReader
  <2>2. UNCHANGED <<lockWords, data, progVars, ip, locks, refs, pmemVars, history>>
    BY <1>4 DEF DieOfWriter, DieOfReader
  <2>3. /\ pc' \in [Tids -> {"run", "upgrade", "persist_data", "drain", "persist_txn",
                           "commit", "abort", "done"}]
        /\ \A u \in Tids : pc'[u] \in {"upgrade", "done"} => pc[u] = pc'[u]
        /\ pc[t] # "done"
    BY <1>4, <2>1 DEF Running, TypeOK
  <2>4. \A u \in Tids : program[u] \in Programs(u) \/ (pc'[u] = "done" /\ program[u] = <<>>)
    BY <2>1, <2>3 DEF TypeOK
  <2>5. QED
    BY <2>2, <2>3, <2>4 DEF TypeOK, Programs
<1>5. ASSUME NEW t \in Tids, NEW op, Running(t, op), GrantWrite(t) PROVE TypeInv'
  BY SMTT(30), <1>5, TargetType DEF GrantWrite, Running, TypeOK, Programs
<1>6. ASSUME NEW t \in Tids, NEW op, Running(t, op), StartUpgrade(t) PROVE TypeInv'
  BY <1>6, TargetType DEF StartUpgrade, Running, TypeOK, Programs
<1>7. ASSUME NEW t \in Tids, FinishUpgrade(t) PROVE TypeInv'
  BY SMTT(30), <1>7, TargetType DEF FinishUpgrade, TypeOK, Programs
<1>8. ASSUME NEW t \in Tids, ReadValue(t) PROVE TypeInv'
  <2>1. seen' \in [Tids -> SUBSET (Objects \X (Tids \cup {0}))]
    <3>1. <<Target(t), data[Target(t)]>> \in Objects \X (Tids \cup {0})
      BY <1>8, TargetType DEF ReadValue, Running, TypeOK
    <3>2. QED
      BY <1>8, <3>1 DEF ReadValue, TypeOK
  <2>2. QED
    BY <1>8, <2>1 DEF ReadValue, Running, TypeOK, Programs
<1>9. ASSUME NEW t \in Tids, WriteValue(t) PROVE TypeInv'
  <2>1. Target(t) \in Objects /\ t # 0
    BY <1>9, TargetType, TidsAssumption DEF WriteValue, Running
  <2>2. QED
    BY <1>9, <2>1 DEF WriteValue, Running, TypeOK, Programs
<1>10. ASSUME NEW t \in Tids, PersistLog(t) PROVE TypeInv'
  BY <1>10 DEF PersistLog, TypeOK, Programs
<1>11. ASSUME NEW t \in Tids, PersistData(t) \/ Drain(t) \/ PersistTxn(t) PROVE TypeInv'
  <2>1. CASE PersistData(t)
    <3>1. pmem' \in [Objects -> SUBSET (Tids \cup {0})]
      BY <2>1 DEF PersistData, TypeOK
    <3>2. QED
      BY <2>1, <3>1 DEF PersistData, TypeOK, Programs
  <2>2. CASE Drain(t)
    <3>1. pmem' \in [Objects -> SUBSET (Tids \cup {0})]
      BY <2>2 DEF Drain, TypeOK
    <3>2. QED
      BY <2>2, <3>1 DEF Drain, TypeOK, Programs
  <2>3. CASE PersistTxn(t)
    BY <2>3 DEF PersistTxn, TypeOK, Programs
  <2>4. QED
    BY <1>11, <2>1, <2>2, <2>3
<1>12. ASSUME NEW t \in Tids, Unlock(t) PROVE TypeInv'
  <2>1. PICK x \in Objects, type \in LockType :
          /\ locks' = [locks EXCEPT ![t] = @ \ {<<x, type>>}]
          /\ IF type = "Read" THEN ReadUnlock(x) ELSE WriteUnlock(x)
    BY <1>12 DEF Unlock
  <2>2. (tpl_reader_cnt[x] + CntMod - 1) % CntMod \in 0..(CntMod - 1)
    <3>1. tpl_reader_cnt[x] + CntMod - 1 \in Nat
      BY <1>0 DEF TypeOK
    <3>2. QED
      BY <3>1, ModType
  <2>3. /\ tpl_writer' \in [Objects -> Tids \cup {0}]
        /\ tpl_reader' \in [Objects -> Tids \cup {0}]
        /\ tpl_reader_cnt' \in [Objects -> 0..(CntMod - 1)]
    <3>1. CASE type = "Read"
      <4> DEFINE c == (tpl_reader_cnt[x] + CntMod - 1) % CntMod
      <4>1. /\ c \in 0..(CntMod - 1)
            /\ tpl_reader_cnt' = [tpl_reader_cnt EXCEPT ![x] = c]
            /\ tpl_reader' \in {tpl_reader, [tpl_reader EXCEPT ![x] = 0]}
            /\ UNCHANGED tpl_writer
        BY <2>1, <2>2, <3>1 DEF ReadUnlock, TypeOK
      <4> HIDE DEF c
      <4>2. QED
        BY <4>1 DEF TypeOK
    <3>2. CASE type = "Write"
      BY <2>1, <3>2 DEF WriteUnlock, TypeOK
    <3>3. QED
      BY <3>1, <3>2
  <2>4. QED
    BY <1>12, <2>1, <2>3 DEF Unlock, TypeOK, Programs
<1>13. ASSUME NEW t \in Tids, Restart(t) PROVE TypeInv'
  <2>1. CASE pc[t] = "commit"
    <3>1. pc' = [pc EXCEPT ![t] = "done"] /\ UNCHANGED <<program, ip, refs, seen>>
      BY <1>13, <2>1 DEF Restart
    <3>2. UNCHANGED <<lockWords, data, mix, locks, pmemVars, serial>>
      BY <1>13 DEF Restart
    <3>3. /\ pc' \in [Tids -> {"run", "upgrade", "persist_data", "drain", "persist_txn",
                             "commit", "abort", "done"}]
          /\ \A u \in Tids : pc'[u] = "upgrade" => pc[u] = "upgrade"
          /\ \A u \in Tids : pc[u] = "done" => pc'[u] = "done"
      BY <2>1, <3>1 DEF TypeOK
    <3>4. \A u \in Tids :
            program[u] \in Programs(u) \/ (pc'[u] = "done" /\ program[u] = <<>>)
      BY <3>3
    <3>5. QED
      BY <3>1, <3>2, <3>3, <3>4 DEF TypeOK, Programs
  <2>2. CASE pc[t] = "abort"
    <3>1. PICK p \in IF mix \in Redraw THEN Programs(t) ELSE {program[t]} :
            program' = [program EXCEPT ![t] = p]
      BY <1>13, <2>2 DEF Restart
    <3>2. p \in Programs(t) /\ p \in Seq(Operation)
      BY <1>13, <2>2, <3>1, MixesAssumption DEF TypeOK, Programs
    <3>3. program' \in [Tids -> Seq(Operation)]
      BY <3>1, <3>2 DEF TypeOK
    <3>4. /\ pc' = [pc EXCEPT ![t] = "run"]
          /\ ip' = [ip EXCEPT ![t] = 1]
          /\ refs' = [refs EXCEPT ![t] = {}]
          /\ seen' = [seen EXCEPT ![t] = {}]
          /\ UNCHANGED <<lockWords, data, mix, locks, pmemVars, serial>>
      BY <1>13, <2>2 DEF Restart
    <3>5. TypeOK'
      BY <3>3, <3>4 DEF TypeOK
    <3>6. QED
      BY <3>1, <3>2, <3>4, <3>5 DEF TypeOK, Programs
  <2>3. QED
    BY <1>13, <2>1, <2>2 DEF Restart
<1>14. CASE UNCHANGED vars
  BY <1>14 DEF vars, TypeOK, Programs
<1>15. QED
  BY <1>1, <1>2, <1>3, <1>4, <1>5, <1>6, <1>7, <1>8, <1>9, <1>10, <1>11, <1>12, <1>13,
     <1>14
     DEF Next, Step, Persist, ReadLockTref, WriteLockTref, Terminated

-----------------------------------------------------------------------------

\* t keeps the locks it has got until it commits or aborts.
Holding(t) == pc[t] \in {"run", "upgrade", "persist_data", "drain", "persist_txn"}

\* t has been through its program.
Complete(t) == pc[t] \in {"persist_data", "drain", "persist_txn", "commit", "done"}

\* The operation that takes a lock.
LockOp(type) == IF type = "Read" THEN ReadLock ELSE WriteLock

\* t has executed the operation op on x.
Executed(t, op, x) ==
  \E i \in DOMAIN program[t] : i < ip[t] /\ program[t][i].op = op /\ program[t][i].obj = x

\* What t has locked, read and written, it has executed an operation for; and
\* while it holds its locks it has one for each lock operation it executed.
AttemptInv(t) ==
  /\ pc[t] = "upgrade" => program[t][ip[t]].op = WriteLock
  /\ pc[t] = "abort" =>
       /\ ip[t] \in DOMAIN program[t]
       /\ program[t][ip[t]].op \in {ReadLock, WriteLock}
  /\ Complete(t) => \A i \in DOMAIN program[t] : i < ip[t]
  /\ pc[t] = "done" => locks[t] = {}
  /\ \A x \in Objects, type \in LockType :
       Holding(t) /\ Executed(t, LockOp(type), x) => <<x, type>> \in locks[t]
  /\ \A x \in Objects, type \in LockType :
       <<x, type>> \in locks[t] => Executed(t, LockOp(type), x)
  /\ \A x \in refs[t] : Executed(t, Write, x) \/ Executed(t, Push, x)
  /\ \A r \in seen[t] : Executed(t, Read, r[1])

\* The attempts of all transactions.
ControlInv == \A t \in Tids : AttemptInv(t)

\* What t has executed after a step that executes its next operation.
LEMMA ExecutedAdvance ==
  ASSUME TypeInv, NEW t \in Tids, ip[t] <= Len(program[t]), Advance(t), UNCHANGED program
  PROVE  \A op, x : Executed(t, op, x)' <=>
                    \/ Executed(t, op, x)
                    \/ op = program[t][ip[t]].op /\ x = Target(t)
<1>1. /\ ip[t] \in Nat
      /\ DOMAIN program[t] \subseteq Nat
      /\ ip' = [ip EXCEPT ![t] = ip[t] + 1]
  BY ProgramType DEF Advance, TypeInv, TypeOK
<1>2. ip'[t] = ip[t] + 1
  BY <1>1 DEF TypeInv, TypeOK
<1>3. \A i \in DOMAIN program[t] : i < ip'[t] <=> i < ip[t] \/ i = ip[t]
  BY <1>1, <1>2
<1>4. ip[t] \in DOMAIN program[t]
  BY TargetType
<1>5. QED
  BY <1>3, <1>4 DEF Executed, Target

\* A step of another transaction leaves an attempt alone.
LEMMA AttemptUnchanged ==
  ASSUME NEW t, AttemptInv(t),
         program'[t] = program[t], ip'[t] = ip[t], pc'[t] = pc[t],
         locks'[t] = locks[t], refs'[t] = refs[t], seen'[t] = seen[t]
  PROVE  AttemptInv(t)'
BY DEF AttemptInv, Executed, Holding, Complete

\* At first nothing has been executed.
LEMMA InitControlInv == Init => ControlInv
<1> SUFFICES ASSUME Init, NEW t \in Tids PROVE AttemptInv(t)
  BY DEF ControlInv
<1>1. \A i \in DOMAIN program[t] : ~(i < 1)
  BY InitTypeInv, ProgramType DEF TypeInv, TypeOK
<1>2. pc[t] = "done" => DOMAIN program[t] = {}
  BY DEF Init
<1>3. QED
  BY <1>1, <1>2 DEF Init, AttemptInv, Executed, Holding, Complete

\* Every step keeps an attempt in line with its program.
LEMMA StepControlInv == TypeInv /\ TypeInv' /\ ControlInv /\ [Next]_vars => ControlInv'
<1> SUFFICES ASSUME TypeInv, TypeInv', ControlInv, [Next]_vars PROVE ControlInv'
  OBVIOUS
<1> USE DEF Goto, Advance, Insert, lockWords, progVars, pmemVars, history
<1>0. /\ DOMAIN program = Tids /\ DOMAIN ip = Tids /\ DOMAIN pc = Tids
      /\ DOMAIN locks = Tids /\ DOMAIN refs = Tids /\ DOMAIN seen = Tids
  BY DEF TypeInv, TypeOK
<1>1. ASSUME NEW t \in Tids, NEW type \in LockType, Running(t, LockOp(type)),
             AlreadyLocked(t, type)
      PROVE  ControlInv'
  <2>1. \A op, x : Executed(t, op, x)' <=>
                    \/ Executed(t, op, x)
                    \/ op = LockOp(type) /\ x = Target(t)
    BY <1>1, ExecutedAdvance DEF AlreadyLocked, Running
  <2>2. AttemptInv(t)'
    BY <1>0, <1>1, <2>1 DEF ControlInv, AttemptInv, AlreadyLocked, Running, Complete, Holding,
                            LockOp, LockType,
      ReadLock, WriteLock
  <2>3. QED
    BY <1>0, <1>1, <2>2, AttemptUnchanged DEF ControlInv, AlreadyLocked
<1>2. ASSUME NEW t \in Tids, Running(t, ReadLock), LockItem(t) \/ GrantRead(t)
      PROVE  ControlInv'
  <2>1. \A op, x : Executed(t, op, x)' <=>
                    \/ Executed(t, op, x)
                    \/ op = ReadLock /\ x = Target(t)
    BY <1>2, ExecutedAdvance DEF LockItem, GrantRead, Running
  <2>2. AttemptInv(t)'
    BY <1>0, <1>2, <2>1 DEF ControlInv, AttemptInv, LockItem, GrantRead, Running, Complete, Holding,
      LockOp, LockType, ReadLock, WriteLock
  <2>3. QED
    BY <1>0, <1>2, <2>2, AttemptUnchanged DEF ControlInv, LockItem, GrantRead
<1>3. ASSUME NEW t \in Tids, NEW op \in {ReadLock, WriteLock}, Running(t, op),
             DieOfWriter(t) \/ DieOfReader(t)
      PROVE  ControlInv'
  <2>1. /\ pc[t] = "run" /\ pc'[t] = "abort"
        /\ UNCHANGED <<program, ip, locks, refs, seen>>
        /\ ip[t] \in DOMAIN program[t] /\ program[t][ip[t]].op \in {ReadLock, WriteLock}
    BY <1>0, <1>3, TargetType DEF DieOfWriter, DieOfReader, Running
  <2>2. AttemptInv(t)
    BY DEF ControlInv
  <2>3. \A o, x : Executed(t, o, x)' <=> Executed(t, o, x)
    BY <2>1 DEF Executed
  <2>4. AttemptInv(t)'
    BY <2>1, <2>2, <2>3 DEF AttemptInv, Complete, Holding
  <2>5. QED
    BY <1>0, <1>3, <2>4, AttemptUnchanged DEF ControlInv, DieOfWriter, DieOfReader
<1>4. ASSUME NEW t \in Tids, Running(t, WriteLock), GrantWrite(t) PROVE ControlInv'
  <2>1. \A op, x : Executed(t, op, x)' <=>
                    \/ Executed(t, op, x)
                    \/ op = WriteLock /\ x = Target(t)
    BY <1>4, ExecutedAdvance DEF GrantWrite, Running
  <2>2. AttemptInv(t)'
    BY <1>0, <1>4, <2>1 DEF ControlInv, AttemptInv, GrantWrite, Running, Complete, Holding,
      LockOp, LockType, ReadLock, WriteLock
  <2>3. QED
    BY <1>0, <1>4, <2>2, AttemptUnchanged DEF ControlInv, GrantWrite
<1>5. ASSUME NEW t \in Tids, Running(t, WriteLock), StartUpgrade(t) PROVE ControlInv'
  <2>1. AttemptInv(t)'
    BY <1>5 DEF ControlInv, AttemptInv, StartUpgrade, Running, Executed, Complete, Holding
  <2>2. QED
    BY <1>0, <1>5, <2>1, AttemptUnchanged DEF ControlInv, StartUpgrade
<1>6. ASSUME NEW t \in Tids, FinishUpgrade(t) PROVE ControlInv'
  <2>1. \A op, x : Executed(t, op, x)' <=>
                    \/ Executed(t, op, x)
                    \/ op = WriteLock /\ x = Target(t)
    <3>1. ip[t] <= Len(program[t])
      BY <1>6 DEF FinishUpgrade, TypeInv
    <3>2. program[t][ip[t]].op = WriteLock
      BY <1>6 DEF FinishUpgrade, ControlInv, AttemptInv
    <3>3. QED
      BY <1>6, <3>1, <3>2, ExecutedAdvance DEF FinishUpgrade
  <2>2. AttemptInv(t)'
    BY <1>0, <1>6, <2>1 DEF ControlInv, AttemptInv, FinishUpgrade, Complete, Holding,
      LockOp, LockType, ReadLock, WriteLock
  <2>3. QED
    BY <1>0, <1>6, <2>2, AttemptUnchanged DEF ControlInv, FinishUpgrade
<1>7. ASSUME NEW t \in Tids, ReadValue(t) PROVE ControlInv'
  <2>1. \A op, x : Executed(t, op, x)' <=>
                    \/ Executed(t, op, x)
                    \/ op = Read /\ x = Target(t)
    BY <1>7, ExecutedAdvance DEF ReadValue, Running
  <2>2. AttemptInv(t)'
    BY <1>0, <1>7, <2>1 DEF ControlInv, AttemptInv, ReadValue, Running, Complete, Holding,
      LockOp, LockType, ReadLock, WriteLock, Read
  <2>3. QED
    BY <1>0, <1>7, <2>2, AttemptUnchanged DEF ControlInv, ReadValue
<1>8. ASSUME NEW t \in Tids, WriteValue(t) PROVE ControlInv'
  <2>1. PICK op \in {Write, Push} : Running(t, op)
    BY <1>8 DEF WriteValue
  <2>2. \A o, x : Executed(t, o, x)' <=>
                    \/ Executed(t, o, x)
                    \/ o = op /\ x = Target(t)
    BY <1>8, <2>1, ExecutedAdvance DEF WriteValue, Running
  <2>3. AttemptInv(t)'
    BY <1>0, <1>8, <2>1, <2>2 DEF ControlInv, AttemptInv, WriteValue, Running, Complete, Holding,
      LockOp, LockType, ReadLock, WriteLock, Write, Push
  <2>4. QED
    BY <1>0, <1>8, <2>3, AttemptUnchanged DEF ControlInv, WriteValue
<1>9. ASSUME NEW t \in Tids, Persist(t) PROVE ControlInv'
  <2>1. pc[t] = "run" => \A i \in DOMAIN program[t] : i < ip[t]
    <3>1. ip[t] \in Nat /\ program[t] \in Seq(Operation)
      BY DEF TypeInv, TypeOK
    <3>2. pc[t] = "run" => ip[t] > Len(program[t])
      BY <1>9 DEF Persist, PersistLog, PersistData, Drain, PersistTxn
    <3>3. QED
      BY <3>1, <3>2, ProgramType
  <2>2. AttemptInv(t)'
    BY <1>0, <1>9, <2>1 DEF ControlInv, AttemptInv, Persist, PersistLog, PersistData, Drain,
                            PersistTxn,
      Executed, Complete, Holding
  <2>3. QED
    BY <1>0, <1>9, <2>2, AttemptUnchanged
       DEF ControlInv, Persist, PersistLog, PersistData, Drain, PersistTxn
<1>10. ASSUME NEW t \in Tids, Unlock(t) PROVE ControlInv'
  <2>1. AttemptInv(t)'
    BY <1>10 DEF ControlInv, AttemptInv, Unlock, Executed, Complete, Holding
  <2>2. QED
    BY <1>0, <1>10, <2>1, AttemptUnchanged DEF ControlInv, Unlock
<1>11. ASSUME NEW t \in Tids, Restart(t) PROVE ControlInv'
  <2>1. CASE pc[t] = "commit"
    <3>1. AttemptInv(t)'
      BY <1>0, <1>11, <2>1 DEF ControlInv, AttemptInv, Restart, Executed, Complete, Holding
    <3>2. QED
      BY <1>0, <1>11, <2>1, <3>1, AttemptUnchanged DEF ControlInv, Restart
  <2>2. CASE pc[t] = "abort"
    <3>1. /\ pc'[t] = "run" /\ ip'[t] = 1 /\ refs'[t] = {} /\ seen'[t] = {}
          /\ locks'[t] = {}
          /\ \A i \in DOMAIN program'[t] : ~(i < 1)
      BY <1>0, <1>11, <2>2, ProgramType DEF Restart, TypeInv, TypeOK
    <3>2. AttemptInv(t)'
      BY <3>1 DEF AttemptInv, Executed, Complete, Holding
    <3>3. QED
      BY <1>0, <1>11, <2>2, <3>2, AttemptUnchanged DEF ControlInv, Restart
  <2>3. QED
    BY <1>0, <1>11, <2>1, <2>2 DEF Restart
<1>12. CASE UNCHANGED vars
  BY <1>12, AttemptUnchanged DEF vars, ControlInv
<1>13. QED
  BY <1>1, <1>2, <1>3, <1>4, <1>5, <1>6, <1>7, <1>8, <1>9, <1>10, <1>11, <1>12
     DEF Next, Step, ReadLockTref, WriteLockTref, Terminated, LockOp, LockType

-----------------------------------------------------------------------------

\* What t may run in an attempt after the present one.
NextPrograms(t) == IF mix \in Redraw THEN Programs(t) ELSE {program[t]}

\* The programs keep to the discipline that is assumed of them.
LEMMA ProgramDiscipline ==
  ASSUME TypeInv, NEW t \in Tids
  PROVE  /\ TwoPhase(program[t])
         /\ \A i \in DOMAIN program[t] :
              program[t][i].obj \in ReadOnly => program[t][i].op \in {ReadLock, Read}
         /\ program[t] # <<>> => \A p \in NextPrograms(t) : ReadsLockedFirst(p, program[t])
<1>1. mix \in DOMAIN Mixes
  BY DEF TypeInv, TypeOK
<1>2. CASE program[t] = <<>>
  BY <1>2 DEF TwoPhase
<1>3. CASE program[t] # <<>>
  <2>1. program[t] \in Mixes[mix][t]
    BY <1>3 DEF TypeInv, Programs
  <2>2. TwoPhase(program[t])
    BY <1>1, <2>1, DisciplineAssumption
  <2>3. \A p \in NextPrograms(t) : ReadsLockedFirst(p, program[t])
    BY <1>1, <2>1, DisciplineAssumption DEF NextPrograms, Programs
  <2>4. QED
    BY <1>1, <2>1, <2>2, <2>3, MixesAssumption
<1>4. QED
  BY <1>2, <1>3

\* Only rows and buckets are write-locked and written.
LEMMA ItemsReadOnly ==
  ASSUME TypeInv, ControlInv, NEW t \in Tids, NEW x \in Objects
  PROVE  /\ <<x, "Write">> \in locks[t] => x \notin ReadOnly
         /\ x \in refs[t] => x \notin ReadOnly
<1>1. \A op \in {WriteLock, Write, Push} : Executed(t, op, x) => x \notin ReadOnly
  BY ProgramDiscipline DEF Executed, WriteLock, Write, Push, ReadLock, Read
<1>2. QED
  BY <1>1 DEF ControlInv, AttemptInv, LockOp, LockType

\* As long as it takes locks, a transaction has accessed nothing.
LEMMA NothingAccessed ==
  ASSUME TypeInv, ControlInv, NEW t \in Tids, ip[t] <= Len(program[t]),
         program[t][ip[t]].op \in {ReadLock, WriteLock}
  PROVE  refs[t] = {} /\ seen[t] = {}
<1>1. program[t] \in Seq(Operation) /\ ip[t] \in Nat
  BY DEF TypeInv, TypeOK
<1>2. \A op \in {Read, Write, Push} : \A x : ~ Executed(t, op, x)
  BY <1>1, TargetType, ProgramType, ProgramDiscipline DEF Executed, TwoPhase
<1>3. QED
  BY <1>2 DEF ControlInv, AttemptInv

\* The locks of a transaction cover what it has accessed; one that aborts, or
\* waits in an upgrade, has accessed nothing.
LEMMA LocksCoverAccesses ==
  ASSUME TypeInv, ControlInv, NEW t \in Tids
  PROVE  /\ Holding(t) => \A x \in refs[t] : <<x, "Write">> \in locks[t]
         /\ Holding(t) => \A r \in seen[t] : \E type \in LockType : <<r[1], type>> \in locks[t]
         /\ pc[t] \in {"upgrade", "abort"} => refs[t] = {} /\ seen[t] = {}
         /\ Running(t, Read) => \E type \in LockType : <<Target(t), type>> \in locks[t]
         /\ Running(t, Write) \/ Running(t, Push) => <<Target(t), "Write">> \in locks[t]
<1>1. /\ refs[t] \subseteq Objects
      /\ \A r \in seen[t] : r[1] \in Objects
      /\ program[t] \in Seq(Operation) /\ ip[t] \in Nat
  BY DEF TypeInv, TypeOK
<1>2. ASSUME NEW j \in DOMAIN program[t], j <= ip[t]
      PROVE  /\ program[t][j].op \in {Write, Push} => Executed(t, WriteLock, program[t][j].obj)
             /\ program[t][j].op = Read =>
                  \/ Executed(t, ReadLock, program[t][j].obj)
                  \/ Executed(t, WriteLock, program[t][j].obj)
  BY <1>1, <1>2, ProgramType, ProgramDiscipline
     DEF Executed, TwoPhase, Read, Write, Push, WriteLock, ReadLock
<1>3. \A x \in Objects, op \in {Write, Push} :
        Executed(t, op, x) => Executed(t, WriteLock, x)
  BY <1>1, <1>2, ProgramType DEF Executed
<1>4. \A x \in Objects :
        Executed(t, Read, x) => Executed(t, ReadLock, x) \/ Executed(t, WriteLock, x)
  BY <1>1, <1>2, ProgramType DEF Executed
<1>5. pc[t] \in {"upgrade", "abort"} => refs[t] = {} /\ seen[t] = {}
  <2>1. pc[t] \in {"upgrade", "abort"} =>
          ip[t] <= Len(program[t]) /\ program[t][ip[t]].op \in {ReadLock, WriteLock}
    BY <1>1, ProgramType DEF ControlInv, AttemptInv, TypeInv
  <2>2. QED
    BY <2>1, NothingAccessed
<1>6. /\ Running(t, Read) =>
           Executed(t, ReadLock, Target(t)) \/ Executed(t, WriteLock, Target(t))
      /\ Running(t, Write) \/ Running(t, Push) => Executed(t, WriteLock, Target(t))
  BY <1>1, <1>2, TargetType DEF Running, Target
<1>7. \A op : Running(t, op) => Target(t) \in Objects /\ Holding(t)
  BY TargetType DEF Running, Holding
<1>8. QED
  BY <1>1, <1>3, <1>4, <1>5, <1>6, <1>7 DEF ControlInv, AttemptInv, LockOp, LockType

\* A counter below the number of transactions does not overflow,
LEMMA CountUp ==
  ASSUME NEW n \in Nat, n + 1 < CntMod
  PROVE  (n + 1) % CntMod = n + 1
BY WidthAssumption

\* and one that is not 0 does not wrap around.
LEMMA CountDown ==
  ASSUME NEW n \in Nat \ {0}, n < CntMod
  PROVE  (n + CntMod - 1) % CntMod = n - 1
BY WidthAssumption

-----------------------------------------------------------------------------

\* The writer word of x is the transaction with the write lock, or the one
\* that waits for other readers to leave.
WriterWordExact ==
  /\ \A t \in Tids, x \in Objects : <<x, "Write">> \in locks[t] => tpl_writer[x] = t
  /\ \A t \in Tids, x \in Objects :
       tpl_writer[x] = t => <<x, "Write">> \in locks[t] \/ (pc[t] = "upgrade" /\ Target(t) = x)
  /\ \A t \in Tids :
       pc[t] = "upgrade" => tpl_writer[Target(t)] = t /\ <<Target(t), "Read">> \in locks[t]

\* tpl_reader[x] has read-locked x, in this attempt or in an earlier one.
LargestReaderReads ==
  \A t \in Tids, x \in Objects \ ReadOnly :
    tpl_reader[x] = t =>
      \E p \in NextPrograms(t) : \E i \in DOMAIN p : p[i].op = ReadLock /\ p[i].obj = x

\* The lock words are what the locks say.
LockInv == LockExclusion /\ ReaderWordsExact /\ WriterWordExact /\ LargestReaderReads

\* A step that leaves the locks and the lock words alone, and starts or ends
\* no upgrade, keeps the invariant.
LEMMA LockInvUnchanged ==
  ASSUME LockInv, NEW t \in Tids, pc[t] # "upgrade", pc'[t] # "upgrade",
         \A u \in Tids \ {t} : pc'[u] = pc[u] /\ ip'[u] = ip[u],
         UNCHANGED <<lockWords, locks, progVars>>
  PROVE  LockInv'
<1> USE DEF lockWords, progVars
<1>1. LockExclusion'
  BY DEF LockInv, LockExclusion
<1>2. ReaderWordsExact'
  BY DEF LockInv, ReaderWordsExact, ReadersOf
<1>3. WriterWordExact'
  BY DEF LockInv, WriterWordExact, Target
<1>4. LargestReaderReads'
  BY DEF LockInv, LargestReaderReads, NextPrograms, Programs
<1>5. QED
  BY <1>1, <1>2, <1>3, <1>4 DEF LockInv

\* Readers can be counted.
LEMMA ReadersFinite ==
  ASSUME NEW x
  PROVE  /\ IsFiniteSet(ReadersOf(x))
         /\ Cardinality(ReadersOf(x)) \in Nat
         /\ Cardinality(ReadersOf(x)) < CntMod
<1>1. ReadersOf(x) \subseteq Tids
  BY DEF ReadersOf
<1>2. QED
  BY <1>1, TidsAssumption, WidthAssumption, FS_Subset, FS_CardinalityType

\* At first nothing is locked.
LEMMA InitLockInv == Init => LockInv
<1> SUFFICES ASSUME Init PROVE LockInv
  OBVIOUS
<1>1. \A x : ReadersOf(x) = {}
  BY DEF Init, ReadersOf
<1>2. ReaderWordsExact
  BY <1>1, FS_EmptySet DEF Init, ReaderWordsExact
<1>3. QED
  BY <1>2, TidsAssumption
     DEF Init, LockInv, LockExclusion, WriterWordExact, LargestReaderReads

\* The transitions of read_lock that succeed.
LEMMA GrantReadLockInv ==
  ASSUME TypeInv, LockInv, NEW t \in Tids, Running(t, ReadLock),
         NEW x \in Objects \ ReadOnly, x = Target(t), <<x, "Read">> \notin locks[t],
         GrantRead(t)
  PROVE  LockInv'
<1>1. /\ ip[t] \in DOMAIN program[t] /\ program[t][ip[t]].op = ReadLock
      /\ tpl_writer[x] \in {0, t}
      /\ tpl_reader' = [tpl_reader EXCEPT ![x] = IF t > @ THEN t ELSE @]
      /\ tpl_reader_cnt' = [tpl_reader_cnt EXCEPT ![x] = (@ + 1) % CntMod]
      /\ locks' = [locks EXCEPT ![t] = @ \cup {<<x, "Read">>}]
      /\ ip' = [ip EXCEPT ![t] = @ + 1]
      /\ UNCHANGED <<tpl_writer, mix, program, pc>>
      /\ pc[t] = "run"
  BY TargetType DEF Running, GrantRead, Insert, Advance, progVars
<1>2. /\ locks \in [Tids -> SUBSET (Objects \X LockType)]
      /\ tpl_reader \in [Objects -> Tids \cup {0}]
      /\ tpl_reader_cnt \in [Objects -> 0..(CntMod - 1)]
      /\ DOMAIN ip = Tids
  BY DEF TypeInv, TypeOK
<1>3. \A u \in Tids, y \in Objects : <<y, "Write">> \in locks'[u] <=> <<y, "Write">> \in locks[u]
  BY <1>1, <1>2
<1>4. \A u \in Tids, y \in Objects :
        <<y, "Read">> \in locks'[u] <=> <<y, "Read">> \in locks[u] \/ (u = t /\ y = x)
  BY <1>1, <1>2
<1>5. LockExclusion'
  BY <1>1, <1>3, <1>4, TidsAssumption DEF LockInv, LockExclusion, WriterWordExact
<1>6. ReaderWordsExact'
  <2>1. ReadersOf(x)' = ReadersOf(x) \cup {t} /\ t \notin ReadersOf(x)
    BY <1>1, <1>4 DEF ReadersOf
  <2>2. \A y \in Objects \ {x} : ReadersOf(y)' = ReadersOf(y)
    BY <1>4 DEF ReadersOf
  <2>3. Cardinality(ReadersOf(x)') = Cardinality(ReadersOf(x)) + 1
    BY <2>1, ReadersFinite, FS_AddElement
  <2>4. Cardinality(ReadersOf(x)) + 1 < CntMod
    <3>1. ReadersOf(x)' \subseteq Tids
      BY <2>1 DEF ReadersOf
    <3>2. QED
      BY <2>3, <3>1, TidsAssumption, WidthAssumption, FS_Subset, FS_CardinalityType
  <2>5. tpl_reader_cnt'[x] = Cardinality(ReadersOf(x)')
    BY <1>1, <1>2, <2>3, <2>4, CountUp, ReadersFinite DEF LockInv, ReaderWordsExact
  <2>6. \A u \in ReadersOf(x)' : u <= tpl_reader'[x]
    <3>1. tpl_reader[x] \in Nat /\ t \in Nat /\ ReadersOf(x) \subseteq Nat
      BY <1>1, <1>2, TidsAssumption DEF ReadersOf
    <3>2. \A u \in ReadersOf(x) : u <= tpl_reader[x]
      BY <1>1 DEF LockInv, ReaderWordsExact
    <3>3. tpl_reader'[x] = IF t > tpl_reader[x] THEN t ELSE tpl_reader[x]
      BY <1>1, <1>2
    <3>4. QED
      BY <2>1, <3>1, <3>2, <3>3
  <2>7. QED
    <3>1. ASSUME NEW y \in Objects \ ReadOnly, y # x
          PROVE  /\ tpl_reader_cnt'[y] = Cardinality(ReadersOf(y)')
                 /\ \A u \in ReadersOf(y)' : u <= tpl_reader'[y]
      BY <1>1, <1>2, <2>2, <3>1 DEF LockInv, ReaderWordsExact
    <3>2. QED
      BY <2>5, <2>6, <3>1 DEF ReaderWordsExact
<1>7. WriterWordExact'
  BY <1>1, <1>2, <1>3, <1>4 DEF LockInv, WriterWordExact, Target
<1>8. LargestReaderReads'
  BY <1>1, <1>2 DEF LockInv, LargestReaderReads, NextPrograms, Programs, Target, TypeInv
<1>9. QED
  BY <1>5, <1>6, <1>7, <1>8 DEF LockInv

\* write_lock of an object that nobody has locked.
LEMMA GrantWriteLockInv ==
  ASSUME TypeInv, LockInv, NEW t \in Tids, Running(t, WriteLock),
         NEW x \in Objects \ ReadOnly, x = Target(t), GrantWrite(t)
  PROVE  LockInv'
<1>1. /\ tpl_writer[x] = 0 /\ tpl_reader[x] = 0
      /\ tpl_writer' = [tpl_writer EXCEPT ![x] = t]
      /\ locks' = [locks EXCEPT ![t] = @ \cup {<<x, "Write">>}]
      /\ ip' = [ip EXCEPT ![t] = @ + 1]
      /\ UNCHANGED <<tpl_reader, tpl_reader_cnt, mix, program, pc>>
      /\ pc[t] = "run"
  BY DEF Running, GrantWrite, Insert, Advance, progVars
<1>2. /\ locks \in [Tids -> SUBSET (Objects \X LockType)]
      /\ tpl_writer \in [Objects -> Tids \cup {0}]
      /\ DOMAIN ip = Tids
  BY DEF TypeInv, TypeOK
<1>3. \A u \in Tids, y \in Objects : <<y, "Read">> \in locks'[u] <=> <<y, "Read">> \in locks[u]
  BY <1>1, <1>2
<1>4. \A u \in Tids, y \in Objects :
        <<y, "Write">> \in locks'[u] <=> <<y, "Write">> \in locks[u] \/ (u = t /\ y = x)
  BY <1>1, <1>2
<1>5. \A u \in Tids : <<x, "Read">> \notin locks[u] /\ <<x, "Write">> \notin locks[u]
  <2>1. ReadersOf(x) = {}
    <3>1. ReadersOf(x) \subseteq Nat \ {0}
      BY TidsAssumption DEF ReadersOf
    <3>2. \A u \in ReadersOf(x) : u <= 0
      BY <1>1 DEF LockInv, ReaderWordsExact
    <3>3. QED
      BY <3>1, <3>2
  <2>2. QED
    BY <1>1, <2>1, TidsAssumption DEF LockInv, WriterWordExact, ReadersOf
<1>6. LockExclusion'
  BY <1>3, <1>4, <1>5 DEF LockInv, LockExclusion
<1>7. ReaderWordsExact'
  BY <1>1, <1>3 DEF LockInv, ReaderWordsExact, ReadersOf
<1>8. WriterWordExact'
  BY <1>1, <1>2, <1>3, <1>4, <1>5, TidsAssumption DEF LockInv, WriterWordExact, Target
<1>9. LargestReaderReads'
  BY <1>1 DEF LockInv, LargestReaderReads, NextPrograms, Programs
<1>10. QED
  BY <1>6, <1>7, <1>8, <1>9 DEF LockInv

\* A transaction that finds itself the largest reader still has its read lock:
\* if it got it in an earlier attempt, it has read-locked the object again.
LEMMA UpgraderReads ==
  ASSUME TypeInv, ControlInv, LockInv, NEW t \in Tids, Running(t, WriteLock),
         Target(t) \in Objects \ ReadOnly, tpl_reader[Target(t)] = t
  PROVE  <<Target(t), "Read">> \in locks[t]
<1>1. PICK p \in NextPrograms(t) : \E i \in DOMAIN p : p[i].op = ReadLock /\ p[i].obj = Target(t)
  BY DEF LockInv, LargestReaderReads
<1>2. ip[t] \in DOMAIN program[t] /\ program[t][ip[t]].op = WriteLock /\ pc[t] = "run"
  BY TargetType DEF Running
<1>3. ReadsLockedFirst(p, program[t])
  BY <1>2, ProgramDiscipline
<1>4. \E k \in 1..(ip[t] - 1) : program[t][k].op = ReadLock /\ program[t][k].obj = Target(t)
  BY <1>1, <1>2, <1>3 DEF ReadsLockedFirst, Target
<1>5. Executed(t, ReadLock, Target(t))
  <2>1. program[t] \in Seq(Operation) /\ ip[t] \in Nat
    BY DEF TypeInv, TypeOK
  <2>2. QED
    BY <1>2, <1>4, <2>1, ProgramType DEF Executed
<1>6. QED
  BY <1>2, <1>5 DEF ControlInv, AttemptInv, Holding, LockOp, LockType

\* write_lock by the largest reader.
LEMMA StartUpgradeLockInv ==
  ASSUME TypeInv, ControlInv, LockInv, NEW t \in Tids, Running(t, WriteLock),
         NEW x \in Objects \ ReadOnly, x = Target(t), StartUpgrade(t)
  PROVE  LockInv'
<1>1. /\ tpl_writer[x] = 0 /\ tpl_reader[x] = t
      /\ tpl_writer' = [tpl_writer EXCEPT ![x] = t]
      /\ pc' = [pc EXCEPT ![t] = "upgrade"]
      /\ UNCHANGED <<tpl_reader, tpl_reader_cnt, mix, program, ip, locks>>
      /\ pc[t] = "run"
  BY DEF Running, StartUpgrade, Goto, progVars
<1>2. /\ tpl_writer \in [Objects -> Tids \cup {0}]
      /\ DOMAIN pc = Tids
      /\ 0 \notin Tids
  BY TidsAssumption DEF TypeInv, TypeOK
<1>3. <<x, "Read">> \in locks[t]
  BY <1>1, UpgraderReads
<1>4. LockExclusion'
  BY <1>1 DEF LockInv, LockExclusion
<1>5. ReaderWordsExact'
  BY <1>1 DEF LockInv, ReaderWordsExact, ReadersOf
<1>6. WriterWordExact'
  BY <1>1, <1>2, <1>3 DEF LockInv, WriterWordExact, Target
<1>7. LargestReaderReads'
  BY <1>1 DEF LockInv, LargestReaderReads, NextPrograms, Programs
<1>8. QED
  BY <1>4, <1>5, <1>6, <1>7 DEF LockInv

\* The end of the upgrade loop: the last read lock is the upgrader's own.
LEMMA FinishUpgradeLockInv ==
  ASSUME TypeInv, LockInv, NEW t \in Tids,
         NEW x \in Objects \ ReadOnly, x = Target(t), FinishUpgrade(t)
  PROVE  LockInv'
<1>1. /\ tpl_reader_cnt[x] = 1
      /\ locks' = [locks EXCEPT ![t] = @ \cup {<<x, "Write">>}]
      /\ pc' = [pc EXCEPT ![t] = "run"]
      /\ ip' = [ip EXCEPT ![t] = @ + 1]
      /\ UNCHANGED <<tpl_writer, tpl_reader, tpl_reader_cnt, mix, program>>
      /\ pc[t] = "upgrade"
  BY DEF FinishUpgrade, Goto, Insert, Advance, lockWords, progVars
<1>2. /\ locks \in [Tids -> SUBSET (Objects \X LockType)]
      /\ DOMAIN pc = Tids /\ DOMAIN ip = Tids
  BY DEF TypeInv, TypeOK
<1>3. tpl_writer[x] = t /\ <<x, "Read">> \in locks[t]
  BY <1>1 DEF LockInv, WriterWordExact
<1>4. \A u \in Tids, y \in Objects : <<y, "Read">> \in locks'[u] <=> <<y, "Read">> \in locks[u]
  BY <1>1, <1>2
<1>5. \A u \in Tids, y \in Objects :
        <<y, "Write">> \in locks'[u] <=> <<y, "Write">> \in locks[u] \/ (u = t /\ y = x)
  BY <1>1, <1>2
<1>6. \A u \in Tids \ {t} : <<x, "Read">> \notin locks[u] /\ <<x, "Write">> \notin locks[u]
  <2>1. Cardinality(ReadersOf(x)) = 1 /\ t \in ReadersOf(x)
    BY <1>1, <1>3 DEF LockInv, ReaderWordsExact, ReadersOf
  <2>2. ReadersOf(x) = {t}
    BY <2>1, ReadersFinite, FS_Singleton
  <2>3. QED
    BY <1>3, <2>2 DEF LockInv, WriterWordExact, ReadersOf
<1>7. LockExclusion'
  BY <1>4, <1>5, <1>6 DEF LockInv, LockExclusion
<1>8. ReaderWordsExact'
  BY <1>1, <1>4 DEF LockInv, ReaderWordsExact, ReadersOf
<1>9. WriterWordExact'
  BY <1>1, <1>2, <1>3, <1>4, <1>5 DEF LockInv, WriterWordExact, Target
<1>10. LargestReaderReads'
  BY <1>1 DEF LockInv, LargestReaderReads, NextPrograms, Programs
<1>11. QED
  BY <1>7, <1>8, <1>9, <1>10 DEF LockInv

\* read_unlock of a row.
LEMMA ReadUnlockLockInv ==
  ASSUME TypeInv, LockInv, NEW t \in Tids, NEW x \in Objects \ ReadOnly,
         <<x, "Read">> \in locks[t], ReadUnlock(x),
         locks' = [locks EXCEPT ![t] = @ \ {<<x, "Read">>}],
         UNCHANGED <<progVars, ip, pc>>, pc[t] # "upgrade"
  PROVE  LockInv'
<1>1. /\ tpl_reader_cnt' = [tpl_reader_cnt EXCEPT ![x] = (@ + CntMod - 1) % CntMod]
      /\ tpl_reader' = [tpl_reader EXCEPT ![x] = IF tpl_reader_cnt[x] = 1 THEN 0 ELSE @]
      /\ UNCHANGED <<tpl_writer, mix, program>>
  BY DEF ReadUnlock, progVars
<1>2. /\ locks \in [Tids -> SUBSET (Objects \X LockType)]
      /\ tpl_reader \in [Objects -> Tids \cup {0}]
      /\ DOMAIN tpl_reader_cnt = Objects
      /\ 0 \notin Tids
  BY TidsAssumption DEF TypeInv, TypeOK
<1>3. \A u \in Tids, y \in Objects :
        <<y, "Read">> \in locks'[u] <=> <<y, "Read">> \in locks[u] /\ ~(u = t /\ y = x)
  BY <1>2
<1>4. \A u \in Tids, y \in Objects : <<y, "Write">> \in locks'[u] <=> <<y, "Write">> \in locks[u]
  BY <1>2
<1>5. LockExclusion'
  BY <1>3, <1>4 DEF LockInv, LockExclusion
<1>6. ReaderWordsExact'
  <2>1. ReadersOf(x)' = ReadersOf(x) \ {t} /\ t \in ReadersOf(x)
    BY <1>3 DEF ReadersOf
  <2>2. Cardinality(ReadersOf(x)') = Cardinality(ReadersOf(x)) - 1
    BY <2>1, ReadersFinite, FS_RemoveElement
  <2>3. Cardinality(ReadersOf(x)) \in Nat \ {0}
    BY <2>1, ReadersFinite, FS_EmptySet
  <2>4. tpl_reader_cnt'[x] = Cardinality(ReadersOf(x)')
    BY <1>1, <1>2, <2>2, <2>3, CountDown, ReadersFinite DEF LockInv, ReaderWordsExact
  <2>5. \A u \in ReadersOf(x)' : u <= tpl_reader'[x]
    <3>1. CASE tpl_reader_cnt[x] = 1
      <4>1. ReadersOf(x) = {t}
        BY <2>1, <3>1, ReadersFinite, FS_Singleton DEF LockInv, ReaderWordsExact
      <4>2. QED
        BY <2>1, <4>1
    <3>2. CASE tpl_reader_cnt[x] # 1
      <4>1. tpl_reader'[x] = tpl_reader[x]
        BY <1>1, <1>2, <3>2
      <4>2. \A u \in ReadersOf(x) : u <= tpl_reader[x]
        BY DEF LockInv, ReaderWordsExact
      <4>3. QED
        BY <2>1, <4>1, <4>2
    <3>3. QED
      BY <3>1, <3>2
  <2>6. ASSUME NEW y \in Objects \ ReadOnly, y # x
        PROVE  /\ tpl_reader_cnt'[y] = Cardinality(ReadersOf(y)')
               /\ \A u \in ReadersOf(y)' : u <= tpl_reader'[y]
    <3>1. ReadersOf(y)' = ReadersOf(y)
      BY <1>3, <2>6 DEF ReadersOf
    <3>2. tpl_reader_cnt'[y] = tpl_reader_cnt[y] /\ tpl_reader'[y] = tpl_reader[y]
      BY <1>1, <1>2, <2>6
    <3>3. QED
      BY <3>1, <3>2 DEF LockInv, ReaderWordsExact
  <2>7. QED
    BY <2>4, <2>5, <2>6 DEF ReaderWordsExact
<1>7. WriterWordExact'
  BY <1>1, <1>3, <1>4 DEF LockInv, WriterWordExact, Target
<1>8. LargestReaderReads'
  <2>1. \A u \in Tids, y \in Objects : tpl_reader'[y] = u => tpl_reader[y] = u
    BY <1>1, <1>2
  <2>2. QED
    BY <1>1, <2>1 DEF LockInv, LargestReaderReads, NextPrograms, Programs
<1>9. QED
  BY <1>5, <1>6, <1>7, <1>8 DEF LockInv

\* The read locks of items, which nobody write-locks, and of which the words
\* of the version say nothing.
LEMMA ItemLockInv ==
  ASSUME TypeInv, ControlInv, TypeInv', ControlInv', LockInv, NEW t \in Tids,
         NEW x \in ReadOnly, x \in Objects,
         pc[t] # "upgrade", pc'[t] # "upgrade",
         \A u \in Tids \ {t} : pc'[u] = pc[u] /\ ip'[u] = ip[u] /\ locks'[u] = locks[u],
         \A l \in Objects \X LockType : l # <<x, "Read">> => (l \in locks'[t] <=> l \in locks[t]),
         \A y \in Objects \ {x} : /\ tpl_reader_cnt'[y] = tpl_reader_cnt[y]
                                  /\ tpl_reader'[y] = tpl_reader[y],
         UNCHANGED <<tpl_writer, progVars>>
  PROVE  LockInv'
<1>1. \A u \in Tids, y \in Objects, type \in LockType :
        <<y, type>> # <<x, "Read">> => (<<y, type>> \in locks'[u] <=> <<y, type>> \in locks[u])
  OBVIOUS
<1>2. \A u \in Tids : <<x, "Write">> \notin locks[u] /\ (pc[u] = "upgrade" => Target(u) # x)
  <2>1. ASSUME NEW u \in Tids, pc[u] = "upgrade" PROVE Target(u) # x
    <3>1. ip[u] \in DOMAIN program[u] /\ program[u][ip[u]].op = WriteLock
      BY <2>1, TargetType DEF TypeInv, ControlInv, AttemptInv
    <3>2. QED
      BY <3>1, ProgramDiscipline DEF Target, WriteLock, ReadLock, Read
  <2>2. QED
    BY <2>1, ItemsReadOnly
<1>3. LockExclusion'
  BY <1>1, <1>2 DEF LockInv, LockExclusion, LockType
<1>4. ReaderWordsExact'
  <2>1. \A y \in Objects \ ReadOnly : ReadersOf(y)' = ReadersOf(y)
    BY <1>1 DEF ReadersOf, LockType
  <2>2. QED
    BY <2>1 DEF LockInv, ReaderWordsExact
<1>5. WriterWordExact'
  <2>1. \A u \in Tids : pc[u] = "upgrade" => Target(u) \in Objects
    BY TargetType DEF TypeInv
  <2>2. QED
    BY <1>1, <1>2, <2>1 DEF LockInv, WriterWordExact, Target, LockType, progVars
<1>6. LargestReaderReads'
  BY DEF LockInv, LargestReaderReads, NextPrograms, Programs, progVars
<1>7. QED
  BY <1>3, <1>4, <1>5, <1>6 DEF LockInv

\* write_unlock.
LEMMA WriteUnlockLockInv ==
  ASSUME TypeInv, LockInv, NEW t \in Tids, NEW x \in Objects,
         <<x, "Write">> \in locks[t], WriteUnlock(x),
         locks' = [locks EXCEPT ![t] = @ \ {<<x, "Write">>}],
         UNCHANGED <<progVars, ip, pc>>, pc[t] # "upgrade"
  PROVE  LockInv'
<1>1. /\ tpl_writer' = [tpl_writer EXCEPT ![x] = 0]
      /\ UNCHANGED <<tpl_reader, tpl_reader_cnt, mix, program>>
  BY DEF WriteUnlock, progVars
<1>2. /\ locks \in [Tids -> SUBSET (Objects \X LockType)]
      /\ DOMAIN tpl_writer = Objects
      /\ 0 \notin Tids
      /\ tpl_writer[x] = t
  BY TidsAssumption DEF TypeInv, TypeOK, LockInv, WriterWordExact
<1>3. \A u \in Tids, y \in Objects :
        <<y, "Write">> \in locks'[u] <=> <<y, "Write">> \in locks[u] /\ ~(u = t /\ y = x)
  BY <1>2
<1>4. \A u \in Tids, y \in Objects : <<y, "Read">> \in locks'[u] <=> <<y, "Read">> \in locks[u]
  BY <1>2
<1>5. LockExclusion'
  BY <1>3, <1>4 DEF LockInv, LockExclusion
<1>6. ReaderWordsExact'
  BY <1>1, <1>4 DEF LockInv, ReaderWordsExact, ReadersOf
<1>7. WriterWordExact'
  BY <1>1, <1>2, <1>3, <1>4 DEF LockInv, WriterWordExact, Target
<1>8. LargestReaderReads'
  BY <1>1 DEF LockInv, LargestReaderReads, NextPrograms, Programs
<1>9. QED
  BY <1>5, <1>6, <1>7, <1>8 DEF LockInv

\* The next attempt of a transaction that has aborted.
LEMMA RestartLockInv ==
  ASSUME TypeInv, LockInv, NEW t \in Tids, Restart(t)
  PROVE  LockInv'
<1>1. /\ pc[t] \in {"commit", "abort"} /\ pc'[t] # "upgrade" /\ locks[t] = {}
      /\ \A u \in Tids \ {t} : pc'[u] = pc[u] /\ ip'[u] = ip[u] /\ program'[u] = program[u]
      /\ UNCHANGED <<tpl_writer, tpl_reader, tpl_reader_cnt, mix, locks>>
  BY DEF Restart, Goto, lockWords, TypeInv, TypeOK
<1>2. \A u \in Tids : NextPrograms(u)' = NextPrograms(u)
  BY <1>1 DEF Restart, NextPrograms, Programs, TypeInv, TypeOK
<1>3. LockExclusion'
  BY <1>1 DEF LockInv, LockExclusion
<1>4. ReaderWordsExact'
  BY <1>1 DEF LockInv, ReaderWordsExact, ReadersOf
<1>5. WriterWordExact'
  BY <1>1 DEF LockInv, WriterWordExact, Target
<1>6. LargestReaderReads'
  BY <1>1, <1>2 DEF LockInv, LargestReaderReads
<1>7. QED
  BY <1>3, <1>4, <1>5, <1>6 DEF LockInv

\* Every step of a transaction keeps the lock words true to the locks.
LEMMA StepLockInv ==
  TypeInv /\ TypeInv' /\ ControlInv /\ ControlInv' /\ LockInv /\ [Next]_vars => LockInv'
<1> SUFFICES ASSUME TypeInv, TypeInv', ControlInv, ControlInv', LockInv, [Next]_vars
             PROVE  LockInv'
  OBVIOUS
<1>0. /\ DOMAIN ip = Tids /\ DOMAIN pc = Tids
      /\ locks \in [Tids -> SUBSET (Objects \X LockType)]
      /\ DOMAIN tpl_reader = Objects /\ DOMAIN tpl_reader_cnt = Objects
  BY DEF TypeInv, TypeOK
<1>1. ASSUME NEW t \in Tids, NEW op, Running(t, op), NEW type, AlreadyLocked(t, type)
      PROVE  LockInv'
  BY <1>0, <1>1, LockInvUnchanged DEF Running, AlreadyLocked, Advance
<1>2. ASSUME NEW t \in Tids, Running(t, ReadLock), Target(t) \in ReadOnly, LockItem(t)
      PROVE  LockInv'
  <2>1. Target(t) \in Objects
    BY <1>2, TargetType DEF Running
  <2>2. \A l : l # <<Target(t), "Read">> => (l \in locks'[t] <=> l \in locks[t])
    BY <1>0, <1>2 DEF LockItem, Insert
  <2>3. QED
    BY <1>0, <1>2, <2>1, <2>2, ItemLockInv DEF LockItem, Insert, Advance, Running, lockWords
<1>3. ASSUME NEW t \in Tids, Running(t, ReadLock), Target(t) \notin ReadOnly,
             <<Target(t), "Read">> \notin locks[t], GrantRead(t)
      PROVE  LockInv'
  BY <1>3, TargetType, GrantReadLockInv DEF Running
<1>4. ASSUME NEW t \in Tids, NEW op, Running(t, op), DieOfWriter(t) \/ DieOfReader(t)
      PROVE  LockInv'
  BY <1>0, <1>4, LockInvUnchanged DEF Running, DieOfWriter, DieOfReader, Goto
<1>5. ASSUME NEW t \in Tids, Running(t, WriteLock) \/ pc[t] = "upgrade"
      PROVE  Target(t) \in Objects \ ReadOnly
  <2>1. ip[t] \in DOMAIN program[t] /\ program[t][ip[t]].op = WriteLock /\ Target(t) \in Objects
    BY <1>5, TargetType DEF Running, TypeInv, ControlInv, AttemptInv
  <2>2. QED
    BY <2>1, ProgramDiscipline DEF Target, WriteLock, ReadLock, Read
<1>6. ASSUME NEW t \in Tids, Running(t, WriteLock), GrantWrite(t) \/ StartUpgrade(t)
      PROVE  LockInv'
  BY <1>5, <1>6, GrantWriteLockInv, StartUpgradeLockInv
<1>7. ASSUME NEW t \in Tids, FinishUpgrade(t) PROVE LockInv'
  BY <1>5, <1>7, FinishUpgradeLockInv DEF FinishUpgrade
<1>8. ASSUME NEW t \in Tids, ReadValue(t) \/ WriteValue(t) PROVE LockInv'
  BY <1>0, <1>8, LockInvUnchanged DEF ReadValue, WriteValue, Running, Advance
<1>9. ASSUME NEW t \in Tids, Persist(t) PROVE LockInv'
  BY <1>0, <1>9, LockInvUnchanged
     DEF Persist, PersistLog, PersistData, Drain, PersistTxn, Goto
<1>10. ASSUME NEW t \in Tids, Unlock(t) PROVE LockInv'
  <2>1. PICK x \in Objects, type \in LockType :
          /\ <<x, type>> \in locks[t]
          /\ locks' = [locks EXCEPT ![t] = @ \ {<<x, type>>}]
          /\ IF type = "Read" THEN ReadUnlock(x) ELSE WriteUnlock(x)
    BY <1>10 DEF Unlock
  <2>2. UNCHANGED <<progVars, ip, pc>> /\ pc[t] \in {"commit", "abort"}
    BY <1>10 DEF Unlock
  <2>3. CASE type = "Read" /\ x \notin ReadOnly
    BY <2>1, <2>2, <2>3, ReadUnlockLockInv
  <2>4. CASE type = "Read" /\ x \in ReadOnly
    <3>1. \A l : l # <<x, "Read">> => (l \in locks'[t] <=> l \in locks[t])
      BY <1>0, <2>1, <2>4
    <3>2. UNCHANGED tpl_writer /\ \A y \in Objects \ {x} : /\ tpl_reader_cnt'[y] = tpl_reader_cnt[y]
                                  /\ tpl_reader'[y] = tpl_reader[y]
      BY <1>0, <2>1, <2>4 DEF ReadUnlock
    <3>3. QED
      BY <1>0, <2>1, <2>2, <2>4, <3>1, <3>2, ItemLockInv
  <2>5. CASE type = "Write"
    BY <2>1, <2>2, <2>5, WriteUnlockLockInv
  <2>6. QED
    BY <2>3, <2>4, <2>5 DEF LockType
<1>11. ASSUME NEW t \in Tids, Restart(t) PROVE LockInv'
  BY <1>11, RestartLockInv
<1>12. CASE UNCHANGED vars
  BY <1>12
     DEF vars, lockWords, progVars, LockInv, LockExclusion, ReaderWordsExact, ReadersOf,
         WriterWordExact, Target, LargestReaderReads, NextPrograms, Programs
<1>13. QED
  BY <1>1, <1>2, <1>3, <1>4, <1>6, <1>7, <1>8, <1>9, <1>10, <1>11, <1>12
     DEF Next, Step, ReadLockTref, WriteLockTref, Terminated

-----------------------------------------------------------------------------

\* A set of positions in a history that is not empty has a last one.
LEMMA LastExists ==
  ASSUME NEW n \in Nat, NEW W \in SUBSET (1..n), W # {}
  PROVE  \E i \in W : \A j \in W : j <= i
<1> DEFINE D == {n - i : i \in W}
<1>1. D \subseteq Nat
  OBVIOUS
<1>2. D # {}
  OBVIOUS
<1>3. \A j \in W : n - j \in D
  OBVIOUS
<1>4. \A d \in D : \E i \in W : d = n - i
  OBVIOUS
<1> HIDE DEF D
<1>5. PICK d \in D : \A e \in D : ~(<<e, d>> \in OpToRel(<, Nat))
  BY <1>1, <1>2, NatLessThanWellFounded, WFMin
<1>6. \A e \in D : d <= e
  <2>1. \A a, b \in Nat : a < b => <<a, b>> \in OpToRel(<, Nat)
    BY DEF OpToRel
  <2>2. \A e \in D : ~(e < d)
    BY <1>1, <1>5, <2>1, Zenon
  <2>3. QED
    BY <1>1, <2>2
<1>7. PICK i \in W : d = n - i
  BY <1>4
<1>8. \A j \in W : d <= n - j
  BY <1>3, <1>6
<1>9. QED
  BY <1>7, <1>8

\* LastWriter, of any history s of transactions that have written the objects r.
LastOf(x, I, s, r) ==
  LET W == {i \in I : x \in r[s[i]]}
  IN  IF W = {} THEN 0 ELSE s[CHOOSE i \in W : \A j \in W : j <= i]

\* LastWriter is LastOf the history of commits.
LEMMA LastWriterOf ==
  \A x, I : /\ LastWriter(x, I) = LastOf(x, I, serial, refs)
            /\ LastWriter(x, I)' = LastOf(x, I, serial', refs')
BY DEF LastWriter, LastOf

\* What LastOf chooses, if it is anything.
LEMMA LastOfIs ==
  ASSUME NEW s, NEW r, NEW x, NEW I \in SUBSET Nat, NEW k \in I, x \in r[s[k]],
         \A j \in I : x \in r[s[j]] => j <= k
  PROVE  LastOf(x, I, s, r) = s[k]
<1> DEFINE W == {i \in I : x \in r[s[i]]}
<1>1. k \in W /\ \A j \in W : j <= k
  OBVIOUS
<1>2. \A i \in W : (\A j \in W : j <= i) => i = k
  BY <1>1
<1>3. (CHOOSE i \in W : \A j \in W : j <= i) = k
  BY <1>1, <1>2
<1>4. QED
  BY <1>1, <1>3 DEF LastOf

\* Positions that did not write x do not change its last writer.
LEMMA LastOfSkips ==
  ASSUME NEW s \in Seq(Tids), NEW r, NEW x, NEW J \in SUBSET DOMAIN s, NEW I \in SUBSET J,
         \A j \in J \ I : x \notin r[s[j]]
  PROVE  LastOf(x, J, s, r) = LastOf(x, I, s, r)
<1> DEFINE W(K) == {i \in K : x \in r[s[i]]}
<1>0. Len(s) \in Nat /\ DOMAIN s = 1..Len(s)
  OBVIOUS
<1>1. W(J) = W(I)
  OBVIOUS
<1>2. CASE W(I) = {}
  <2>1. LastOf(x, I, s, r) = 0
    BY <1>2 DEF LastOf
  <2>2. LastOf(x, J, s, r) = 0
    BY <1>1, <1>2 DEF LastOf
  <2>3. QED
    BY <2>1, <2>2
<1>3. CASE W(I) # {}
  <2>1. PICK i \in W(I) : \A j \in W(I) : j <= i
    <3>1. W(I) \in SUBSET (1..Len(s))
      BY <1>0
    <3>2. QED
      BY <1>0, <1>3, <3>1, LastExists
  <2>2. /\ I \subseteq Nat /\ J \subseteq Nat /\ i \in I /\ i \in J /\ x \in r[s[i]]
        /\ \A j \in J : x \in r[s[j]] => j <= i
    <3>1. i \in I /\ x \in r[s[i]]
      BY <2>1
    <3>2. I \subseteq Nat /\ J \subseteq Nat /\ I \subseteq J
      BY <1>0
    <3>3. \A j \in J : x \in r[s[j]] => j \in W(I)
      BY <1>1
    <3>4. QED
      BY <2>1, <3>1, <3>2, <3>3
  <2>3. LastOf(x, I, s, r) = s[i]
    BY <2>2, LastOfIs
  <2>4. LastOf(x, J, s, r) = s[i]
    BY <2>2, LastOfIs
  <2>5. QED
    BY <2>3, <2>4
<1>4. QED
  BY <1>2, <1>3

\* The last writer among positions that stay as they are stays the same.
LEMMA LastWriterSame ==
  ASSUME NEW x, NEW n \in Nat, NEW I \in SUBSET (1..n),
         \A i \in I : serial'[i] = serial[i] /\ refs'[serial[i]] = refs[serial[i]]
  PROVE  LastWriter(x, I)' = LastWriter(x, I)
<1> DEFINE W == {i \in I : x \in refs[serial[i]]}
<1>1. {i \in I : x \in refs'[serial'[i]]} = W
  OBVIOUS
<1>2. CASE W = {}
  BY <1>1, <1>2 DEF LastWriter
<1>3. CASE W # {}
  <2> DEFINE k == CHOOSE i \in W : \A j \in W : j <= i
  <2>1. \E i \in W : \A j \in W : j <= i
    BY <1>3, LastExists
  <2>2. k \in I
    BY <2>1
  <2>3. LastWriter(x, I) = serial[k]
    BY <1>3 DEF LastWriter
  <2>4. LastWriter(x, I)' = serial'[k]
    BY <1>1, <1>3 DEF LastWriter
  <2>5. QED
    BY <2>2, <2>3, <2>4
<1>4. QED
  BY <1>2, <1>3

-----------------------------------------------------------------------------

\* The value of an object is that of a transaction that wrote it; as long as
\* that transaction keeps its locks, it is its own.
DataInv ==
  /\ \A x \in Objects : data[x] # 0 => x \in refs[data[x]]
  /\ \A t \in Tids : Holding(t) => \A x \in refs[t] : data[x] = t

\* At first nothing is written.
LEMMA InitDataInv == Init => DataInv
BY DEF Init, DataInv

\* No transaction writes what another one has written and still locks.
LEMMA StepDataInv ==
  TypeInv /\ ControlInv /\ LockInv /\ DataInv /\ [Next]_vars => DataInv'
<1> SUFFICES ASSUME TypeInv, ControlInv, LockInv, DataInv, [Next]_vars PROVE DataInv'
  OBVIOUS
<1>0. /\ DOMAIN pc = Tids /\ DOMAIN data = Objects /\ refs \in [Tids -> SUBSET Objects]
      /\ \A x \in Objects : data[x] # 0 => data[x] \in Tids
  BY DEF TypeInv, TypeOK
<1>1. ASSUME UNCHANGED <<data, refs>>, \A t \in Tids : Holding(t)' => Holding(t) \/ refs[t] = {}
      PROVE  DataInv'
  BY <1>1 DEF DataInv
<1>2. ASSUME NEW t \in Tids, ReadLockTref(t) \/ WriteLockTref(t) PROVE DataInv'
  BY <1>0, <1>1, <1>2 DEF ReadLockTref, WriteLockTref, AlreadyLocked, LockItem, GrantRead,
                          GrantWrite,
    DieOfWriter, DieOfReader, StartUpgrade, Goto, Holding, Running
<1>3. ASSUME NEW t \in Tids, FinishUpgrade(t) \/ ReadValue(t) \/ Unlock(t) PROVE DataInv'
  BY <1>0, <1>1, <1>3 DEF FinishUpgrade, ReadValue, Unlock, Goto, Holding
<1>4. ASSUME NEW t \in Tids, WriteValue(t) PROVE DataInv'
  <2>1. PICK x \in Objects : x = Target(t) /\ <<x, "Write">> \in locks[t]
    BY <1>4, LocksCoverAccesses, TargetType DEF WriteValue, Running
  <2>2. /\ data' = [data EXCEPT ![x] = t]
        /\ refs' = [refs EXCEPT ![t] = @ \cup {x}]
        /\ UNCHANGED pc
    BY <1>4, <2>1 DEF WriteValue
  <2>3. \A u \in Tids \ {t} : Holding(u) => x \notin refs[u]
    BY <2>1, LocksCoverAccesses DEF LockInv, LockExclusion
  <2>4. QED
    BY <1>0, <2>2, <2>3 DEF DataInv, Holding
<1>5. ASSUME NEW t \in Tids, Persist(t) PROVE DataInv'
  BY <1>0, <1>1, <1>5
     DEF Persist, PersistLog, PersistData, Drain, PersistTxn, Goto, Holding, pmemVars
<1>6. ASSUME NEW t \in Tids, Restart(t) PROVE DataInv'
  <2>1. CASE pc[t] = "commit"
    BY <1>0, <1>1, <1>6, <2>1 DEF Restart, Goto, Holding
  <2>2. CASE pc[t] = "abort"
    <3>1. refs[t] = {}
      BY <2>2, LocksCoverAccesses
    <3>2. UNCHANGED data /\ refs' = [refs EXCEPT ![t] = {}] /\ pc' = [pc EXCEPT ![t] = "run"]
      BY <1>6, <2>2 DEF Restart, Goto
    <3>3. UNCHANGED refs
      BY <1>0, <3>1, <3>2
    <3>4. QED
      BY <1>0, <1>1, <3>1, <3>2, <3>3 DEF Holding
  <2>3. QED
    BY <1>6, <2>1, <2>2 DEF Restart
<1>7. CASE UNCHANGED vars
  BY <1>1, <1>7 DEF vars, Holding
<1>8. QED
  BY <1>2, <1>3, <1>4, <1>5, <1>6, <1>7 DEF Next, Step, Terminated

-----------------------------------------------------------------------------

\* t is writing its log, its values or its commit record.
Persisting(t) == pc[t] \in {"persist_data", "drain", "persist_txn"}

\* The history has the transactions that have begun to persist, each once. The
\* value of an object is that of its last writer in the history, or of one
\* that is still running; and who runs has read nothing that is out of date.
HistoryInv ==
  /\ \A i \in DOMAIN serial : Complete(serial[i])
  /\ \A i, j \in DOMAIN serial : serial[i] = serial[j] => i = j
  /\ \A t \in Tids : Persisting(t) => \E i \in DOMAIN serial : serial[i] = t
  /\ \A x \in Objects :
       \/ data[x] = LastWriter(x, DOMAIN serial)
       \/ data[x] # 0 /\ pc[data[x]] = "run"
  /\ \A t \in Tids : pc[t] = "run" =>
       \A r \in seen[t] : r[2] \in {LastWriter(r[1], DOMAIN serial), t}
  /\ Serializable

\* The history is a sequence of transactions.
LEMMA SerialType ==
  ASSUME TypeInv
  PROVE  /\ DOMAIN serial = 1..Len(serial) /\ Len(serial) \in Nat
         /\ \A i \in DOMAIN serial : serial[i] \in Tids
BY DEF TypeInv, TypeOK

\* A step that leaves the history and the values alone.
LEMMA HistoryInvUnchanged ==
  ASSUME TypeInv, DataInv, HistoryInv, UNCHANGED <<data, refs, seen, serial>>,
         \A t \in Tids : /\ Complete(t) => Complete(t)'
                         /\ Persisting(t)' => Persisting(t)
                         /\ pc[t] = "run" => pc'[t] = "run" \/ refs[t] = {}
                         /\ pc'[t] = "run" => pc[t] = "run" \/ seen[t] = {}
  PROVE  HistoryInv'
<1>1. UNCHANGED data /\ UNCHANGED refs /\ UNCHANGED seen /\ UNCHANGED serial
  OBVIOUS
<1>2. \A x, I : LastWriter(x, I)' = LastWriter(x, I)
  BY <1>1 DEF LastWriter
<1>3. Serializable'
  BY <1>1, <1>2 DEF HistoryInv, Serializable
<1>4. \A i \in DOMAIN serial' : Complete(serial[i])'
  BY <1>1, SerialType DEF HistoryInv, Complete
<1>5. \A i, j \in DOMAIN serial' : serial'[i] = serial'[j] => i = j
  BY <1>1 DEF HistoryInv
<1>6. \A t \in Tids : Persisting(t)' => \E i \in DOMAIN serial' : serial'[i] = t
  BY <1>1 DEF HistoryInv
<1>7. ASSUME NEW x \in Objects
      PROVE  \/ data'[x] = LastWriter(x, DOMAIN serial)'
             \/ data'[x] # 0 /\ pc'[data'[x]] = "run"
  <2>1. data[x] \in Tids \cup {0} /\ (data[x] # 0 => x \in refs[data[x]])
    BY DEF TypeInv, TypeOK, DataInv
  <2>2. \/ data[x] = LastWriter(x, DOMAIN serial)
        \/ data[x] # 0 /\ pc[data[x]] = "run"
    BY DEF HistoryInv
  <2>3. QED
    BY <1>1, <1>2, <2>1, <2>2
<1>8. ASSUME NEW t \in Tids, pc'[t] = "run", NEW r \in seen'[t]
      PROVE  r[2] \in {LastWriter(r[1], DOMAIN serial)', t}
  <2>1. pc[t] = "run" /\ r \in seen[t]
    BY <1>1, <1>8
  <2>2. r[2] \in {LastWriter(r[1], DOMAIN serial), t}
    BY <2>1 DEF HistoryInv
  <2>3. QED
    BY <1>1, <1>2, <2>2
<1>9. QED
  BY <1>3, <1>4, <1>5, <1>6, <1>7, <1>8 DEF HistoryInv

\* At first the history is empty.
LEMMA InitHistoryInv == Init => HistoryInv
<1> SUFFICES ASSUME Init PROVE HistoryInv
  OBVIOUS
<1>1. DOMAIN serial = {}
  BY DEF Init
<1>2. \A x : LastWriter(x, DOMAIN serial) = 0
  BY <1>1 DEF LastWriter
<1>3. QED
  BY <1>1, <1>2 DEF Init, HistoryInv, Persisting, Serializable

\* A value that a transaction may read is that of its last writer in the
\* history, or its own: who else has written it has still locked it.
LEMMA LockedValue ==
  ASSUME TypeInv, ControlInv, LockInv, DataInv, HistoryInv, NEW t \in Tids, NEW x \in Objects,
         \E type \in LockType : <<x, type>> \in locks[t]
  PROVE  data[x] \in {LastWriter(x, DOMAIN serial), t}
<1>1. ASSUME data[x] # 0, pc[data[x]] = "run" PROVE data[x] = t
  <2>1. data[x] \in Tids /\ x \in refs[data[x]]
    BY <1>1 DEF TypeInv, TypeOK, DataInv
  <2>2. <<x, "Write">> \in locks[data[x]]
    BY <1>1, <2>1, LocksCoverAccesses DEF Holding
  <2>3. QED
    BY <2>1, <2>2 DEF LockInv, LockExclusion, LockType
<1>2. QED
  BY <1>1 DEF HistoryInv

\* read.
LEMMA ReadHistoryInv ==
  ASSUME TypeInv, ControlInv, LockInv, DataInv, HistoryInv, NEW t \in Tids, ReadValue(t)
  PROVE  HistoryInv'
<1> DEFINE x == Target(t)
<1>1. /\ pc[t] = "run" /\ x \in Objects
      /\ seen' = [seen EXCEPT ![t] = @ \cup {<<x, data[x]>>}]
      /\ UNCHANGED data /\ UNCHANGED refs /\ UNCHANGED pc /\ UNCHANGED serial
  BY TargetType DEF ReadValue, Running
<1>2. data[x] \in {LastWriter(x, DOMAIN serial), t}
  BY <1>1, LockedValue, LocksCoverAccesses DEF ReadValue
<1>3. DOMAIN seen = Tids
  BY DEF TypeInv, TypeOK
<1> HIDE DEF x
<1>4. \A y, I : LastWriter(y, I)' = LastWriter(y, I)
  BY <1>1 DEF LastWriter
<1>5. \A i \in DOMAIN serial : serial[i] # t
  BY <1>1 DEF HistoryInv, Complete
<1>6. Serializable'
  <2>1. \A i \in DOMAIN serial : seen'[serial[i]] = seen[serial[i]]
    BY <1>1, <1>3, <1>5, SerialType
  <2>2. QED
    BY <1>1, <1>4, <2>1 DEF HistoryInv, Serializable
<1>7. ASSUME NEW u \in Tids, pc'[u] = "run", NEW r \in seen'[u]
      PROVE  r[2] \in {LastWriter(r[1], DOMAIN serial)', u}
  <2>1. CASE r \in seen[u]
    BY <1>1, <1>4, <1>7, <2>1 DEF HistoryInv
  <2>2. CASE r \notin seen[u]
    <3>1. u = t /\ r = <<x, data[x]>>
      BY <1>1, <1>3, <1>7, <2>2
    <3>2. QED
      BY <1>1, <1>2, <1>4, <3>1
  <2>3. QED
    BY <2>1, <2>2
<1>8. \A y \in Objects :
       \/ data'[y] = LastWriter(y, DOMAIN serial)'
       \/ data'[y] # 0 /\ pc'[data'[y]] = "run"
  BY <1>1, <1>4 DEF HistoryInv
<1>9. QED
  BY <1>1, <1>6, <1>7, <1>8 DEF HistoryInv, Complete, Persisting

\* The committed transactions and what they wrote stay as they are when one
\* that has not committed changes what it has accessed.
LEMMA HistoryStays ==
  ASSUME TypeInv, HistoryInv, NEW t \in Tids, ~Complete(t), UNCHANGED serial,
         \A u \in Tids \ {t} : refs'[u] = refs[u] /\ seen'[u] = seen[u]
  PROVE  /\ \A i \in DOMAIN serial : /\ serial[i] # t
                                     /\ refs'[serial[i]] = refs[serial[i]]
                                     /\ seen'[serial[i]] = seen[serial[i]]
         /\ \A x, I : I \subseteq DOMAIN serial => LastWriter(x, I)' = LastWriter(x, I)
         /\ Serializable'
<1>1. \A i \in DOMAIN serial : /\ serial[i] # t
                               /\ refs'[serial[i]] = refs[serial[i]]
                               /\ seen'[serial[i]] = seen[serial[i]]
  BY SerialType DEF HistoryInv
<1>2. ASSUME NEW x, NEW I \in SUBSET DOMAIN serial PROVE LastWriter(x, I)' = LastWriter(x, I)
  BY <1>1, SerialType, LastWriterSame
<1>3. Serializable'
  <2>1. \A i \in DOMAIN serial : 1..(i - 1) \subseteq DOMAIN serial
    BY SerialType
  <2>2. \A x : \A i \in DOMAIN serial : LastWriter(x, 1..(i - 1))' = LastWriter(x, 1..(i - 1))
    BY <1>2, <2>1
  <2>3. QED
    BY <1>1, <2>2 DEF HistoryInv, Serializable
<1>4. QED
  BY <1>1, <1>2, <1>3

\* write.
LEMMA WriteHistoryInv ==
  ASSUME TypeInv, HistoryInv, NEW t \in Tids, WriteValue(t)
  PROVE  HistoryInv'
<1> DEFINE x == Target(t)
<1>1. /\ pc[t] = "run" /\ x \in Objects
      /\ data' = [data EXCEPT ![x] = t]
      /\ refs' = [refs EXCEPT ![t] = @ \cup {x}]
      /\ UNCHANGED seen /\ UNCHANGED pc /\ UNCHANGED serial
  BY TargetType DEF WriteValue, Running, history
<1>2. DOMAIN refs = Tids /\ DOMAIN data = Objects /\ t # 0
  BY TidsAssumption DEF TypeInv, TypeOK
<1> HIDE DEF x
<1>3. /\ \A y : LastWriter(y, DOMAIN serial)' = LastWriter(y, DOMAIN serial)
      /\ Serializable'
  BY <1>1, <1>2, HistoryStays DEF Complete
<1>4. \A y \in Objects :
       \/ data'[y] = LastWriter(y, DOMAIN serial)'
       \/ data'[y] # 0 /\ pc'[data'[y]] = "run"
  BY <1>1, <1>2, <1>3 DEF HistoryInv
<1>5. \A u \in Tids : pc'[u] = "run" =>
       \A r \in seen'[u] : r[2] \in {LastWriter(r[1], DOMAIN serial)', u}
  BY <1>1, <1>3 DEF HistoryInv
<1>6. QED
  BY <1>1, <1>3, <1>4, <1>5 DEF HistoryInv, Complete, Persisting

\* What becomes of the history when t begins to persist.
LEMMA HistoryGrows ==
  ASSUME TypeInv, HistoryInv, NEW t \in Tids, PersistLog(t), NEW n \in Nat, n = Len(serial)
  PROVE  /\ DOMAIN serial = 1..n /\ DOMAIN serial' = 1..(n + 1)
         /\ \A i \in 1..n : serial'[i] = serial[i] /\ serial[i] # t /\ serial[i] \in Tids
         /\ serial'[n + 1] = t
         /\ \A x, I : I \subseteq 1..n => LastWriter(x, I)' = LastWriter(x, I)
         /\ \A x : x \in refs[t] => LastWriter(x, 1..(n + 1))' = t
         /\ \A x : x \notin refs[t] => LastWriter(x, 1..(n + 1))' = LastWriter(x, 1..n)
<1>1. serial \in Seq(Tids) /\ serial' = Append(serial, t) /\ UNCHANGED refs /\ pc[t] = "run"
  BY DEF PersistLog, TypeInv, TypeOK
<1>2. /\ DOMAIN serial = 1..n /\ DOMAIN serial' = 1..(n + 1)
      /\ \A i \in 1..n : serial'[i] = serial[i] /\ serial[i] \in Tids
      /\ serial'[n + 1] = t
  BY <1>1
<1>3. \A i \in 1..n : serial[i] # t
  BY <1>1, <1>2 DEF HistoryInv, Complete
<1>4. ASSUME NEW x, NEW I \in SUBSET (1..n) PROVE LastWriter(x, I)' = LastWriter(x, I)
  BY <1>1, <1>2, LastWriterSame
<1>5. ASSUME NEW x, x \in refs[t] PROVE LastWriter(x, 1..(n + 1))' = t
  <2>1. LastOf(x, 1..(n + 1), serial', refs') = serial'[n + 1]
    <3>1. 1..(n + 1) \subseteq Nat /\ n + 1 \in 1..(n + 1) /\ \A j \in 1..(n + 1) : j <= n + 1
      OBVIOUS
    <3>2. x \in refs'[serial'[n + 1]]
      BY <1>1, <1>2, <1>5
    <3>3. QED
      BY <3>1, <3>2, LastOfIs
  <2>2. QED
    BY <1>2, <2>1, LastWriterOf
<1>6. ASSUME NEW x, x \notin refs[t] PROVE LastWriter(x, 1..(n + 1))' = LastWriter(x, 1..n)
  <2>1. x \notin refs'[serial'[n + 1]]
    BY <1>1, <1>2, <1>6
  <2>2. PICK m \in Nat : m = n + 1
    OBVIOUS
  <2>3. LastOf(x, 1..m, serial', refs') = LastOf(x, 1..n, serial', refs')
    <3>1. 1..m \in SUBSET DOMAIN serial' /\ 1..n \in SUBSET (1..m) /\ serial' \in Seq(Tids)
      BY <1>1, <1>2, <2>2
    <3>2. \A j \in (1..m) \ (1..n) : x \notin refs'[serial'[j]]
      BY <2>1, <2>2
    <3>3. QED
      BY <3>1, <3>2, LastOfSkips
  <2>4. QED
    BY <1>4, <2>2, <2>3, LastWriterOf
<1>7. QED
  BY <1>2, <1>3, <1>4, <1>5, <1>6

\* The beginning of persist.
LEMMA PersistLogHistoryInv ==
  ASSUME TypeInv, ControlInv, LockInv, DataInv, HistoryInv, NEW t \in Tids, PersistLog(t)
  PROVE  HistoryInv'
<1>0. PICK n \in Nat : n = Len(serial)
  BY SerialType
<1>1. /\ pc[t] = "run" /\ pc' = [pc EXCEPT ![t] = "persist_data"]
      /\ UNCHANGED data /\ UNCHANGED refs /\ UNCHANGED seen
  BY DEF PersistLog, Goto
<1>2. DOMAIN pc = Tids /\ \A u \in Tids : refs[u] \subseteq Objects
  BY DEF TypeInv, TypeOK
<1>3. /\ DOMAIN serial = 1..n /\ DOMAIN serial' = 1..(n + 1)
      /\ \A i \in 1..n : serial'[i] = serial[i] /\ serial[i] # t /\ serial[i] \in Tids
      /\ serial'[n + 1] = t
      /\ \A x, I : I \subseteq 1..n => LastWriter(x, I)' = LastWriter(x, I)
      /\ \A x : x \in refs[t] => LastWriter(x, 1..(n + 1))' = t
      /\ \A x : x \notin refs[t] => LastWriter(x, 1..(n + 1))' = LastWriter(x, 1..n)
  BY <1>0, HistoryGrows
<1>4. \A i \in 1..(n + 1) : i = n + 1 \/ i \in 1..n
  BY <1>2
<1>5. \A i \in DOMAIN serial' : Complete(serial[i])'
  <2>1. \A i \in 1..n : pc'[serial[i]] = pc[serial[i]]
    BY <1>1, <1>2, <1>3
  <2>2. QED
    BY <1>1, <1>2, <1>3, <1>4, <2>1 DEF HistoryInv, Complete
<1>6. \A i, j \in DOMAIN serial' : serial'[i] = serial'[j] => i = j
  BY <1>3, <1>4 DEF HistoryInv
<1>7. \A u \in Tids : Persisting(u)' => \E i \in DOMAIN serial' : serial'[i] = u
  <2>1. n + 1 \in 1..(n + 1) /\ 1..n \subseteq 1..(n + 1)
    BY <1>2
  <2>2. QED
    BY <1>1, <1>2, <1>3, <2>1 DEF HistoryInv, Persisting
<1>8. ASSUME NEW x \in Objects
      PROVE  \/ data'[x] = LastWriter(x, 1..(n + 1))'
             \/ data'[x] # 0 /\ pc'[data'[x]] = "run"
  <2>1. CASE x \in refs[t]
    BY <1>1, <1>3, <2>1 DEF DataInv, Holding
  <2>2. CASE x \notin refs[t]
    <3>1. data[x] # 0 => data[x] \in Tids /\ data[x] # t
      BY <2>2 DEF DataInv, TypeInv, TypeOK
    <3>2. QED
      BY <1>1, <1>2, <1>3, <2>2, <3>1 DEF HistoryInv
  <2>3. QED
    BY <2>1, <2>2
<1>9. ASSUME NEW u \in Tids, pc'[u] = "run", NEW v \in seen'[u]
      PROVE  v[2] \in {LastWriter(v[1], 1..(n + 1))', u}
  <2>1. u # t /\ pc[u] = "run" /\ v \in seen[u]
    BY <1>1, <1>2, <1>9
  <2>2. v[1] \in Objects /\ \E type \in LockType : <<v[1], type>> \in locks[u]
    <3>1. seen[u] \subseteq Objects \X (Tids \cup {0})
      BY DEF TypeInv, TypeOK
    <3>2. QED
      BY <2>1, <3>1, LocksCoverAccesses DEF Holding
  <2>3. v[1] \notin refs[t]
    <3>1. v[1] \in refs[t] => <<v[1], "Write">> \in locks[t]
      BY <1>1, LocksCoverAccesses DEF Holding
    <3>2. QED
      BY <2>1, <2>2, <3>1 DEF LockInv, LockExclusion, LockType
  <2>4. QED
    BY <1>3, <2>1, <2>3 DEF HistoryInv
<1>10. Serializable'
  <2>1. ASSUME NEW i \in 1..n, NEW v \in seen[serial[i]]
        PROVE  v[2] \in {LastWriter(v[1], 1..(i - 1))', serial[i]}
    <3>1. 1..(i - 1) \subseteq 1..n
      BY <1>2
    <3>2. QED
      BY <1>3, <2>1, <3>1 DEF HistoryInv, Serializable
  <2>2. ASSUME NEW v \in seen[t] PROVE v[2] \in {LastWriter(v[1], 1..n)', t}
    BY <1>1, <1>3, <2>2 DEF HistoryInv
  <2>3. (n + 1) - 1 = n
    BY <1>2
  <2>4. QED
    BY <1>1, <1>3, <1>4, <2>1, <2>2, <2>3 DEF Serializable
<1>11. QED
  BY <1>3, <1>5, <1>6, <1>7, <1>8, <1>9, <1>10 DEF HistoryInv

\* Only read, write and the beginning of persist touch what HistoryInv is
\* about: who dies, or starts an upgrade, has accessed nothing.
LEMMA StepHistoryInv ==
  /\ TypeInv /\ ControlInv /\ LockInv /\ DataInv /\ HistoryInv
  /\ [Next]_vars
  => HistoryInv'
<1> SUFFICES ASSUME TypeInv, ControlInv, LockInv, DataInv, HistoryInv, [Next]_vars
             PROVE  HistoryInv'
  OBVIOUS
<1>0. /\ DOMAIN pc = Tids
      /\ refs \in [Tids -> SUBSET Objects]
      /\ seen \in [Tids -> SUBSET (Objects \X (Tids \cup {0}))]
  BY DEF TypeInv, TypeOK
<1>1. ASSUME NEW t \in Tids, ReadLockTref(t) \/ WriteLockTref(t) PROVE HistoryInv'
  <2>1. refs[t] = {} /\ seen[t] = {} /\ pc[t] = "run"
    BY <1>1, NothingAccessed DEF ReadLockTref, WriteLockTref, Running
  <2>2. UNCHANGED <<data, refs, seen, serial>> /\ \A u \in Tids \ {t} : pc'[u] = pc[u]
    BY <1>0, <1>1 DEF ReadLockTref, WriteLockTref, AlreadyLocked, LockItem, GrantRead, GrantWrite,
      DieOfWriter, DieOfReader, StartUpgrade, Goto, history
  <2>3. pc'[t] \in {"run", "upgrade", "abort"}
    BY <1>0, <1>1, <2>1 DEF ReadLockTref, WriteLockTref, AlreadyLocked, LockItem, GrantRead,
                            GrantWrite,
      DieOfWriter, DieOfReader, StartUpgrade, Goto
  <2>4. QED
    BY <2>1, <2>2, <2>3, HistoryInvUnchanged DEF Complete, Persisting
<1>2. ASSUME NEW t \in Tids, FinishUpgrade(t) PROVE HistoryInv'
  <2>1. seen[t] = {} /\ pc[t] = "upgrade"
    BY <1>2, LocksCoverAccesses DEF FinishUpgrade
  <2>2. UNCHANGED <<data, refs, seen, serial>> /\ pc' = [pc EXCEPT ![t] = "run"]
    BY <1>2 DEF FinishUpgrade, Goto, history
  <2>3. QED
    BY <1>0, <2>1, <2>2, HistoryInvUnchanged DEF Complete, Persisting
<1>3. ASSUME NEW t \in Tids, ReadValue(t) PROVE HistoryInv'
  BY <1>3, ReadHistoryInv
<1>4. ASSUME NEW t \in Tids, WriteValue(t) PROVE HistoryInv'
  BY <1>4, WriteHistoryInv
<1>5. ASSUME NEW t \in Tids, Persist(t) PROVE HistoryInv'
  <2>1. CASE PersistLog(t)
    BY <2>1, PersistLogHistoryInv
  <2>2. CASE PersistData(t) \/ Drain(t) \/ PersistTxn(t)
    <3>1. UNCHANGED <<data, refs, seen, serial>>
      BY <2>2 DEF PersistData, Drain, PersistTxn, history
    <3>2. /\ pc[t] \in {"persist_data", "drain", "persist_txn"}
          /\ pc'[t] \in {"drain", "persist_txn", "commit"}
          /\ \A u \in Tids \ {t} : pc'[u] = pc[u]
      BY <1>0, <2>2 DEF PersistData, Drain, PersistTxn, Goto
    <3>3. QED
      BY <3>1, <3>2, HistoryInvUnchanged DEF Complete, Persisting
  <2>3. QED
    BY <1>5, <2>1, <2>2 DEF Persist
<1>6. ASSUME NEW t \in Tids, Unlock(t) PROVE HistoryInv'
  <2>1. UNCHANGED <<data, refs, seen, serial>> /\ UNCHANGED pc
    BY <1>6 DEF Unlock, history
  <2>2. QED
    BY <2>1, HistoryInvUnchanged DEF Complete, Persisting
<1>7. ASSUME NEW t \in Tids, Restart(t) PROVE HistoryInv'
  <2>1. CASE pc[t] = "commit"
    <3>1. UNCHANGED <<data, refs, seen, serial>> /\ pc' = [pc EXCEPT ![t] = "done"]
      BY <1>7, <2>1 DEF Restart, Goto
    <3>2. QED
      BY <1>0, <2>1, <3>1, HistoryInvUnchanged DEF Complete, Persisting
  <2>2. CASE pc[t] = "abort"
    <3>1. refs[t] = {} /\ seen[t] = {}
      BY <2>2, LocksCoverAccesses
    <3>2. /\ pc' = [pc EXCEPT ![t] = "run"]
          /\ refs' = [refs EXCEPT ![t] = {}]
          /\ seen' = [seen EXCEPT ![t] = {}]
          /\ UNCHANGED data /\ UNCHANGED serial
      BY <1>7, <2>2 DEF Restart, Goto
    <3>3. UNCHANGED <<data, refs, seen, serial>>
      BY <1>0, <3>1, <3>2
    <3>4. QED
      BY <1>0, <2>2, <3>1, <3>2, <3>3, HistoryInvUnchanged DEF Complete, Persisting
  <2>3. QED
    BY <1>7, <2>1, <2>2 DEF Restart
<1>8. CASE UNCHANGED vars
  BY <1>8, HistoryInvUnchanged DEF vars, history, Complete, Persisting
<1>9. QED
  BY <1>1, <1>2, <1>3, <1>4, <1>5, <1>6, <1>7, <1>8 DEF Next, Step, Terminated

-----------------------------------------------------------------------------

\* The positions of the transactions with a commit record.
Durable == {i \in DOMAIN serial : serial[i] \in plog_txn}

\* What a persistent copy may hold is the value of the last writer with a
\* commit record, or of one that is on its way to the drain or to the commit
\* record; after the drain it is nothing else. A transaction
\* that persists has locked what it wrote, so no later one has written it.
PersistInv ==
  /\ \A t \in plog_txn : pc[t] \in {"commit", "done"}
  /\ \A x \in Objects : \A v \in pmem[x] :
       \/ v = LastWriter(x, Durable)
       \/ v \in Tids /\ pc[v] \in {"drain", "persist_txn"} /\ x \in refs[v]
  /\ \A t \in Tids : pc[t] = "persist_txn" => \A x \in refs[t] : pmem[x] = {t}
  /\ \A i, j \in DOMAIN serial :
       i < j /\ Persisting(serial[i]) => refs[serial[i]] \cap refs[serial[j]] = {}

\* At first each copy holds the first value.
LEMMA InitPersistInv == Init => PersistInv
<1> SUFFICES ASSUME Init PROVE PersistInv
  OBVIOUS
<1>1. DOMAIN serial = {} /\ Durable = {}
  BY DEF Init, Durable
<1>2. \A x : LastWriter(x, Durable) = 0
  BY <1>1 DEF LastWriter
<1>3. QED
  BY <1>1, <1>2 DEF Init, PersistInv, Persisting

\* A step that leaves alone what has been committed and persisted.
LEMMA PersistInvUnchanged ==
  ASSUME TypeInv, HistoryInv, PersistInv, UNCHANGED <<plog_txn, pmem, serial>>,
         \A t \in Tids : /\ Complete(t) => refs'[t] = refs[t]
                         /\ Persisting(t) \/ Persisting(t)' => pc'[t] = pc[t]
                         /\ pc[t] \in {"commit", "done"} => pc'[t] \in {"commit", "done"}
  PROVE  PersistInv'
<1>1. UNCHANGED plog_txn /\ UNCHANGED pmem /\ UNCHANGED serial
  OBVIOUS
<1>2. Durable' = Durable /\ plog_txn \subseteq Tids
  BY <1>1 DEF Durable, TypeInv, TypeOK
<1>3. \A i \in DOMAIN serial : Complete(serial[i]) /\ refs'[serial[i]] = refs[serial[i]]
  BY SerialType DEF HistoryInv
<1>4. \A x : LastWriter(x, Durable)' = LastWriter(x, Durable)
  <2>1. PICK D : D = Durable
    OBVIOUS
  <2>2. D \subseteq 1..Len(serial) /\ Len(serial) \in Nat
    BY <2>1, SerialType DEF Durable
  <2>3. \A x : LastWriter(x, D)' = LastWriter(x, D)
    BY <1>1, <1>3, <2>2, LastWriterSame, SerialType
  <2>4. QED
    BY <1>2, <2>1, <2>3
<1>5. ASSUME NEW t \in plog_txn PROVE pc'[t] \in {"commit", "done"}
  BY <1>2 DEF PersistInv
<1>7. ASSUME NEW x \in Objects, NEW v \in pmem[x]
      PROVE  \/ v = LastWriter(x, Durable)'
             \/ v \in Tids /\ pc'[v] \in {"drain", "persist_txn"} /\ x \in refs'[v]
  BY <1>4 DEF PersistInv, Persisting, Complete
<1>8. ASSUME NEW t \in Tids, pc'[t] = "persist_txn", NEW x \in refs'[t] PROVE pmem[x] = {t}
  BY <1>8 DEF PersistInv, Persisting, Complete
<1>9. ASSUME NEW i \in DOMAIN serial, NEW j \in DOMAIN serial, i < j, Persisting(serial[i])'
      PROVE  refs'[serial[i]] \cap refs'[serial[j]] = {}
  <2>1. serial[i] \in Tids
    BY SerialType
  <2>2. Persisting(serial[i])
    BY <1>1, <1>9, <2>1 DEF Persisting
  <2>3. QED
    BY <1>3, <1>9, <2>2 DEF PersistInv
<1>10. QED
  BY <1>1, <1>5, <1>7, <1>8, <1>9 DEF PersistInv

\* The log records.
LEMMA PersistLogPersistInv ==
  ASSUME TypeInv, ControlInv, LockInv, HistoryInv, PersistInv, NEW t \in Tids, PersistLog(t)
  PROVE  PersistInv'
<1>0. PICK n \in Nat : n = Len(serial)
  BY SerialType
<1>1. /\ pc[t] = "run" /\ pc' = [pc EXCEPT ![t] = "persist_data"] /\ DOMAIN pc = Tids
      /\ UNCHANGED refs /\ UNCHANGED plog_txn /\ UNCHANGED pmem
  BY DEF PersistLog, Goto, TypeInv, TypeOK, pmemVars
<1>2. /\ DOMAIN serial = 1..n /\ DOMAIN serial' = 1..(n + 1)
      /\ \A i \in 1..n : serial'[i] = serial[i] /\ serial[i] # t /\ serial[i] \in Tids
      /\ serial'[n + 1] = t
      /\ \A x, I : I \subseteq 1..n => LastWriter(x, I)' = LastWriter(x, I)
  BY <1>0, HistoryGrows
<1>3. \A i \in 1..(n + 1) : i = n + 1 \/ i \in 1..n
  OBVIOUS
<1>4. t \notin plog_txn /\ plog_txn \subseteq Tids
  BY <1>1 DEF PersistInv, TypeInv, TypeOK
<1>5. \A x : LastWriter(x, Durable)' = LastWriter(x, Durable)
  <2>1. PICK D : D = Durable
    OBVIOUS
  <2>2. D \subseteq 1..n
    BY <1>2, <2>1 DEF Durable
  <2>3. Durable' = D
    <3>1. n + 1 \in 1..(n + 1) /\ 1..n \subseteq 1..(n + 1)
      OBVIOUS
    <3>2. QED
      BY <1>1, <1>2, <1>3, <1>4, <2>1, <3>1 DEF Durable
  <2>4. QED
    BY <1>2, <2>1, <2>2, <2>3
<1>6. \A u \in plog_txn : pc'[u] \in {"commit", "done"}
  BY <1>1, <1>4 DEF PersistInv
<1>8. \A x \in Objects : \A v \in pmem[x] :
        \/ v = LastWriter(x, Durable)'
        \/ v \in Tids /\ pc'[v] \in {"drain", "persist_txn"} /\ x \in refs[v]
  BY <1>1, <1>5 DEF PersistInv
<1>9. \A u \in Tids : pc'[u] = "persist_txn" => \A x \in refs[u] : pmem[x] = {u}
  BY <1>1 DEF PersistInv
<1>10. ASSUME NEW i \in 1..(n + 1), NEW j \in 1..(n + 1), i < j, Persisting(serial[i])'
       PROVE  refs[serial'[i]] \cap refs[serial'[j]] = {}
  <2>1. i \in 1..n /\ serial'[i] = serial[i] /\ serial[i] \in Tids \ {t}
    BY <1>2, <1>10
  <2>2. Persisting(serial[i])
    BY <1>1, <1>10, <2>1 DEF Persisting
  <2>3. CASE j \in 1..n
    BY <1>2, <1>10, <2>1, <2>2, <2>3 DEF PersistInv
  <2>4. CASE j = n + 1
    <3>1. \A x \in refs[serial[i]] : <<x, "Write">> \in locks[serial[i]]
      BY <2>1, <2>2, LocksCoverAccesses DEF Persisting, Holding
    <3>2. \A x \in refs[t] : <<x, "Write">> \in locks[t] /\ x \in Objects
      BY <1>1, LocksCoverAccesses DEF Holding, TypeInv, TypeOK
    <3>3. QED
      BY <1>2, <2>1, <2>4, <3>1, <3>2 DEF LockInv, LockExclusion
  <2>5. QED
    BY <1>3, <2>3, <2>4
<1>11. QED
  BY <1>1, <1>2, <1>6, <1>8, <1>9, <1>10 DEF PersistInv

\* The values, and the drain.
LEMMA PersistDataPersistInv ==
  ASSUME TypeInv, DataInv, HistoryInv, PersistInv, NEW t \in Tids, PersistData(t) \/ Drain(t)
  PROVE  PersistInv'
<1>1. /\ pc[t] \in {"persist_data", "drain"} /\ DOMAIN pc = Tids
      /\ pc' = [pc EXCEPT ![t] = IF pc[t] = "drain" THEN "persist_txn" ELSE "drain"]
      /\ UNCHANGED refs /\ UNCHANGED plog_txn /\ UNCHANGED serial
  BY DEF PersistData, Drain, Goto, TypeInv, TypeOK, history
<1>2. \A x \in refs[t] : data[x] = t /\ x \in Objects
  BY <1>1 DEF DataInv, Holding, TypeInv, TypeOK
<1>3. ASSUME NEW x \in Objects
      PROVE  /\ x \notin refs[t] => pmem'[x] = pmem[x]
             /\ x \in refs[t] => pmem'[x] = IF pc[t] = "drain" THEN {t} ELSE pmem[x] \cup {t}
  BY <1>1, <1>2 DEF PersistData, Drain
<1>4. Durable' = Durable /\ \A x : LastWriter(x, Durable)' = LastWriter(x, Durable)
  BY <1>1 DEF Durable, LastWriter
<1>5. \A u \in plog_txn : pc'[u] \in {"commit", "done"}
  BY <1>1 DEF PersistInv, TypeInv, TypeOK
<1>6. \A u \in Tids : Persisting(u)' <=> Persisting(u)
  BY <1>1 DEF Persisting
<1>7. ASSUME NEW x \in Objects, NEW v \in pmem'[x]
      PROVE  \/ v = LastWriter(x, Durable)'
             \/ v \in Tids /\ pc'[v] \in {"drain", "persist_txn"} /\ x \in refs[v]
  <2>1. CASE v \in pmem[x]
    BY <1>1, <1>4, <2>1 DEF PersistInv
  <2>2. CASE v \notin pmem[x]
    BY <1>1, <1>3, <1>7, <2>2
  <2>3. QED
    BY <2>1, <2>2
<1>8. ASSUME NEW u \in Tids, pc'[u] = "persist_txn", NEW x \in refs[u] PROVE pmem'[x] = {u}
  <2>1. CASE u = t
    BY <1>1, <1>2, <1>3, <1>8, <2>1
  <2>2. CASE u # t
    <3>1. pc[u] = "persist_txn"
      BY <1>1, <1>8, <2>2
    <3>2. x \in Objects /\ data[x] = u
      BY <3>1 DEF DataInv, Holding, TypeInv, TypeOK
    <3>3. x \notin refs[t]
      BY <1>2, <2>2, <3>2
    <3>4. QED
      BY ZenonT(30), <1>3, <3>1, <3>2, <3>3 DEF PersistInv
  <2>3. QED
    BY <2>1, <2>2
<1>9. \A i, j \in DOMAIN serial :
        i < j /\ Persisting(serial[i])' => refs[serial[i]] \cap refs[serial[j]] = {}
  <2>1. \A i \in DOMAIN serial : Persisting(serial[i])' => Persisting(serial[i])
    BY <1>1, <1>6, SerialType DEF Persisting
  <2>2. QED
    BY <2>1 DEF PersistInv
<1>10. QED
  BY <1>1, <1>5, <1>6, <1>7, <1>8, <1>9 DEF PersistInv

\* The commit record makes t the last durable writer of what it wrote: who has
\* written it later has had to wait for t.
LEMMA PersistTxnPersistInv ==
  ASSUME TypeInv, HistoryInv, PersistInv, NEW t \in Tids, PersistTxn(t)
  PROVE  PersistInv'
<1>1. /\ pc[t] = "persist_txn" /\ pc' = [pc EXCEPT ![t] = "commit"] /\ DOMAIN pc = Tids
      /\ plog_txn' = plog_txn \cup {t} /\ plog_txn \subseteq Tids
      /\ UNCHANGED refs /\ UNCHANGED pmem /\ UNCHANGED serial
  BY DEF PersistTxn, Goto, TypeInv, TypeOK, history
<1>2. PICK k \in DOMAIN serial : serial[k] = t
  BY <1>1 DEF HistoryInv, Persisting
<1>3. \A i \in DOMAIN serial : serial[i] = t => i = k
  BY <1>2 DEF HistoryInv
<1>4. PICK D : D = Durable
  OBVIOUS
<1>5. D \subseteq DOMAIN serial /\ Durable' = D \cup {k}
  BY <1>1, <1>2, <1>3, <1>4 DEF Durable
<1>6. DOMAIN serial = 1..Len(serial) /\ Len(serial) \in Nat /\ serial \in Seq(Tids)
  BY SerialType DEF TypeInv, TypeOK
<1>7. ASSUME NEW x, x \in refs[t] PROVE LastWriter(x, Durable)' = t
  <2>1. D \cup {k} \subseteq Nat
    BY <1>2, <1>5, <1>6
  <2>2. \A j \in D \cup {k} : x \in refs[serial[j]] => j <= k
    <3>1. \A j \in DOMAIN serial : k < j => x \notin refs[serial[j]]
      BY <1>1, <1>2, <1>7 DEF PersistInv, Persisting
    <3>2. QED
      BY <1>2, <1>5, <1>6, <3>1
  <2>3. LastOf(x, D \cup {k}, serial, refs) = serial[k]
    BY <1>2, <1>7, <2>1, <2>2, LastOfIs
  <2>4. QED
    BY <1>1, <1>2, <1>5, <2>3, LastWriterOf
<1>8. ASSUME NEW x, x \notin refs[t] PROVE LastWriter(x, Durable)' = LastWriter(x, Durable)
  <2>1. LastOf(x, D \cup {k}, serial, refs) = LastOf(x, D, serial, refs)
    <3>1. D \cup {k} \in SUBSET DOMAIN serial /\ D \in SUBSET (D \cup {k})
      BY <1>2, <1>5
    <3>2. \A j \in (D \cup {k}) \ D : x \notin refs[serial[j]]
      BY <1>2, <1>8
    <3>3. QED
      BY <1>6, <3>1, <3>2, LastOfSkips
  <2>2. QED
    BY <1>1, <1>4, <1>5, <2>1, LastWriterOf
<1>9. ASSUME NEW x \in Objects, NEW v \in pmem[x]
      PROVE  \/ v = LastWriter(x, Durable)'
             \/ v \in Tids /\ pc'[v] \in {"drain", "persist_txn"} /\ x \in refs[v]
  <2>1. CASE x \in refs[t]
    BY <1>1, <1>7, <1>9, <2>1 DEF PersistInv
  <2>2. CASE x \notin refs[t]
    BY <1>1, <1>8, <1>9, <2>2 DEF PersistInv
  <2>3. QED
    BY <2>1, <2>2
<1>10. \A u \in Tids : Persisting(u)' => Persisting(u)
  BY <1>1 DEF Persisting
<1>11. \A i, j \in DOMAIN serial :
         i < j /\ Persisting(serial[i])' => refs[serial[i]] \cap refs[serial[j]] = {}
  <2>1. \A i \in DOMAIN serial : Persisting(serial[i])' => Persisting(serial[i])
    BY <1>1, SerialType DEF Persisting
  <2>2. QED
    BY <2>1 DEF PersistInv
<1>12. \A u \in plog_txn' : pc'[u] \in {"commit", "done"}
  BY <1>1 DEF PersistInv
<1>13. \A u \in Tids : pc'[u] = "persist_txn" => pc[u] = "persist_txn"
  BY <1>1
<1>14. QED
  BY <1>1, <1>9, <1>10, <1>11, <1>12, <1>13 DEF PersistInv

\* Every step keeps the copies and the commit records in line.
LEMMA StepPersistInv ==
  /\ TypeInv /\ ControlInv /\ LockInv /\ DataInv /\ HistoryInv /\ PersistInv
  /\ [Next]_vars
  => PersistInv'
<1> SUFFICES ASSUME TypeInv, ControlInv, LockInv, DataInv, HistoryInv, PersistInv, [Next]_vars
             PROVE  PersistInv'
  OBVIOUS
<1>0. DOMAIN pc = Tids /\ DOMAIN refs = Tids
  BY DEF TypeInv, TypeOK
<1>1. ASSUME NEW t \in Tids, ReadLockTref(t) \/ WriteLockTref(t) \/ FinishUpgrade(t)
      PROVE  PersistInv'
  <2>1. UNCHANGED <<plog_txn, pmem, serial>> /\ UNCHANGED refs
    BY <1>1 DEF ReadLockTref, WriteLockTref, AlreadyLocked, LockItem, GrantRead, GrantWrite,
      DieOfWriter, DieOfReader, StartUpgrade, FinishUpgrade, history, pmemVars
  <2>2. /\ pc[t] \in {"run", "upgrade"} /\ pc'[t] \in {"run", "upgrade", "abort"}
        /\ \A u \in Tids \ {t} : pc'[u] = pc[u]
    BY <1>0, <1>1 DEF ReadLockTref, WriteLockTref, AlreadyLocked, LockItem, GrantRead, GrantWrite,
      DieOfWriter, DieOfReader, StartUpgrade, FinishUpgrade, Goto, Running
  <2>3. QED
    BY <2>1, <2>2, PersistInvUnchanged DEF Persisting
<1>2. ASSUME NEW t \in Tids, ReadValue(t) \/ WriteValue(t) PROVE PersistInv'
  <2>1. /\ pc[t] = "run" /\ UNCHANGED pc /\ UNCHANGED <<plog_txn, pmem, serial>>
        /\ \A u \in Tids \ {t} : refs'[u] = refs[u]
    BY <1>0, <1>2 DEF ReadValue, WriteValue, Running, history, pmemVars
  <2>2. QED
    BY <2>1, PersistInvUnchanged DEF Persisting, Complete
<1>3. ASSUME NEW t \in Tids, Persist(t) PROVE PersistInv'
  BY <1>3, PersistLogPersistInv, PersistDataPersistInv, PersistTxnPersistInv DEF Persist
<1>4. ASSUME NEW t \in Tids, Unlock(t) PROVE PersistInv'
  <2>1. UNCHANGED pc /\ UNCHANGED <<plog_txn, pmem, serial>> /\ UNCHANGED refs
    BY <1>4 DEF Unlock, history, pmemVars
  <2>2. QED
    BY <2>1, PersistInvUnchanged
<1>5. ASSUME NEW t \in Tids, Restart(t) PROVE PersistInv'
  <2>1. /\ \/ pc[t] = "commit" /\ pc'[t] = "done" /\ UNCHANGED refs
           \/ pc[t] = "abort" /\ pc'[t] = "run"
        /\ \A u \in Tids \ {t} : pc'[u] = pc[u] /\ refs'[u] = refs[u]
        /\ UNCHANGED <<plog_txn, pmem, serial>>
    BY <1>0, <1>5 DEF Restart, Goto, pmemVars
  <2>2. QED
    BY <2>1, PersistInvUnchanged DEF Persisting, Complete
<1>6. CASE UNCHANGED vars
  BY <1>6, PersistInvUnchanged DEF vars, pmemVars, history
<1>7. QED
  BY <1>1, <1>2, <1>3, <1>4, <1>5, <1>6 DEF Next, Step, Terminated

-----------------------------------------------------------------------------

\* Who has written something and is past its commit record has one, and what
\* has been read comes from the reader itself or from such a transaction.
DurableInv ==
  /\ \A t \in Tids : refs[t] # {} /\ pc[t] \in {"commit", "done"} => t \in plog_txn
  /\ \A t \in Tids : \A r \in seen[t] : r[2] \in {0, t} \cup plog_txn

\* A value that a transaction may read is the first one, its own, or that of a
\* transaction with a commit record: who has written it and has none yet still
\* locks it.
LEMMA LockedValueDurable ==
  ASSUME TypeInv, ControlInv, LockInv, DataInv, DurableInv, NEW t \in Tids, NEW x \in Objects,
         \E type \in LockType : <<x, type>> \in locks[t]
  PROVE  data[x] \in {0, t} \cup plog_txn
<1> SUFFICES ASSUME data[x] # 0, data[x] # t PROVE data[x] \in plog_txn
  OBVIOUS
<1>1. PICK u \in Tids : u = data[x] /\ x \in refs[u]
  BY DEF TypeInv, TypeOK, DataInv
<1>2. ~Holding(u)
  BY <1>1, LocksCoverAccesses DEF LockInv, LockExclusion, LockType
<1>3. pc[u] # "abort"
  BY <1>1, LocksCoverAccesses
<1>4. pc[u] \in {"commit", "done"}
  BY <1>2, <1>3 DEF Holding, TypeInv, TypeOK
<1>5. QED
  BY <1>1, <1>4 DEF DurableInv

\* Every step keeps it so.
LEMMA StepDurableInv ==
  TypeInv /\ ControlInv /\ LockInv /\ DataInv /\ DurableInv /\ [Next]_vars => DurableInv'
<1> SUFFICES ASSUME TypeInv, ControlInv, LockInv, DataInv, DurableInv, [Next]_vars
             PROVE  DurableInv'
  OBVIOUS
<1>0. DOMAIN pc = Tids /\ DOMAIN refs = Tids /\ DOMAIN seen = Tids
  BY DEF TypeInv, TypeOK
<1>1. ASSUME UNCHANGED plog_txn, UNCHANGED seen,
             \A t \in Tids : pc'[t] \in {"commit", "done"} =>
                              pc[t] \in {"commit", "done"} /\ refs'[t] = refs[t]
      PROVE  DurableInv'
  BY <1>1 DEF DurableInv
<1>2. ASSUME NEW t \in Tids, ReadLockTref(t) \/ WriteLockTref(t) \/ FinishUpgrade(t)
      PROVE  DurableInv'
  <2>1. UNCHANGED plog_txn /\ UNCHANGED seen /\ UNCHANGED refs
    BY <1>2 DEF ReadLockTref, WriteLockTref, AlreadyLocked, LockItem, GrantRead, GrantWrite,
      DieOfWriter, DieOfReader, StartUpgrade, FinishUpgrade, history, pmemVars
  <2>2. pc'[t] \in {"run", "upgrade", "abort"} /\ \A u \in Tids \ {t} : pc'[u] = pc[u]
    BY <1>0, <1>2 DEF ReadLockTref, WriteLockTref, AlreadyLocked, LockItem, GrantRead, GrantWrite,
      DieOfWriter, DieOfReader, StartUpgrade, FinishUpgrade, Goto, Running
  <2>3. QED
    BY <1>1, <2>1, <2>2
<1>3. ASSUME NEW t \in Tids, ReadValue(t) PROVE DurableInv'
  <2>1. PICK x \in Objects : x = Target(t) /\ data[x] \in {0, t} \cup plog_txn
    BY <1>3, LocksCoverAccesses, LockedValueDurable, TargetType DEF ReadValue, Running
  <2>2. /\ seen' = [seen EXCEPT ![t] = @ \cup {<<x, data[x]>>}]
        /\ UNCHANGED pc /\ UNCHANGED refs /\ UNCHANGED plog_txn
    BY <1>3, <2>1 DEF ReadValue, pmemVars
  <2>3. QED
    BY <1>0, <2>1, <2>2 DEF DurableInv
<1>4. ASSUME NEW t \in Tids, WriteValue(t) PROVE DurableInv'
  <2>1. /\ pc[t] = "run" /\ \A u \in Tids \ {t} : refs'[u] = refs[u]
        /\ UNCHANGED pc /\ UNCHANGED seen /\ UNCHANGED plog_txn
    BY <1>0, <1>4 DEF WriteValue, Running, history, pmemVars
  <2>2. QED
    BY <1>1, <2>1
<1>5. ASSUME NEW t \in Tids, PersistLog(t) \/ PersistData(t) \/ Drain(t) PROVE DurableInv'
  <2>1. /\ UNCHANGED refs /\ UNCHANGED seen /\ UNCHANGED plog_txn
        /\ pc'[t] \in {"persist_data", "drain", "persist_txn"}
        /\ \A u \in Tids \ {t} : pc'[u] = pc[u]
    BY <1>0, <1>5 DEF PersistLog, PersistData, Drain, Goto, history, pmemVars
  <2>2. QED
    BY <1>1, <2>1
<1>6. ASSUME NEW t \in Tids, PersistTxn(t) PROVE DurableInv'
  <2>1. /\ plog_txn' = plog_txn \cup {t} /\ UNCHANGED refs /\ UNCHANGED seen
        /\ \A u \in Tids \ {t} : pc'[u] = pc[u]
    BY <1>0, <1>6 DEF PersistTxn, Goto, history
  <2>2. QED
    BY <2>1 DEF DurableInv
<1>7. ASSUME NEW t \in Tids, Unlock(t) PROVE DurableInv'
  BY <1>1, <1>7 DEF Unlock, history, pmemVars
<1>8. ASSUME NEW t \in Tids, Restart(t) PROVE DurableInv'
  <2>1. UNCHANGED plog_txn
    BY <1>8 DEF Restart, pmemVars
  <2>2. CASE pc[t] = "commit"
    BY <1>0, <1>1, <1>8, <2>1, <2>2 DEF Restart, Goto
  <2>3. CASE pc[t] = "abort"
    <3>1. /\ pc' = [pc EXCEPT ![t] = "run"]
          /\ refs' = [refs EXCEPT ![t] = {}] /\ seen' = [seen EXCEPT ![t] = {}]
      BY <1>8, <2>3 DEF Restart, Goto
    <3>2. QED
      BY <1>0, <2>1, <3>1 DEF DurableInv
  <2>4. QED
    BY <1>8, <2>2, <2>3 DEF Restart
<1>9. CASE UNCHANGED vars
  BY <1>1, <1>9 DEF vars, history, pmemVars
<1>10. QED
  BY <1>2, <1>3, <1>4, <1>5, <1>6, <1>7, <1>8, <1>9 DEF Next, Step, Persist, Terminated

-----------------------------------------------------------------------------

\* The inductive invariant.
IInv ==
  TypeInv /\ ControlInv /\ LockInv /\ DataInv /\ HistoryInv /\ PersistInv /\ DurableInv

\* It holds at first and every step keeps it.
LEMMA IInvHolds == Spec => []IInv
<1>1. Init => IInv
  BY InitTypeInv, InitControlInv, InitLockInv, InitDataInv, InitHistoryInv, InitPersistInv
     DEF IInv, Init, DurableInv
<1>2. IInv /\ [Next]_vars => IInv'
  BY StepTypeInv, StepControlInv, StepLockInv, StepDataInv, StepHistoryInv, StepPersistInv,
     StepDurableInv
     DEF IInv
<1>3. QED
  BY <1>1, <1>2, PTL DEF Spec

\* The lock words, the logs and the attempts keep their types: in particular
\* tpl_reader_cnt never leaves its word.
THEOREM TypeCorrect == Spec => []TypeOK
<1>1. IInv => TypeOK
  BY DEF IInv, TypeInv
<1>2. QED
  BY <1>1, IInvHolds, PTL

\* A write lock excludes every other lock on the object, for any number of
\* transactions and objects, and upgrades included.
THEOREM LockExclusionHolds == Spec => []LockExclusion
<1>1. IInv => LockExclusion
  BY DEF IInv, LockInv
<1>2. QED
  BY <1>1, IInvHolds, PTL

\* The reader words count the read locks exactly and bound the readers.
THEOREM ReaderWordsExactHolds == Spec => []ReaderWordsExact
<1>1. IInv => ReaderWordsExact
  BY DEF IInv, LockInv
<1>2. QED
  BY <1>1, IInvHolds, PTL

\* Neither panic of write_lock and write_unlock is reached.
THEOREM NoLockPanicHolds == Spec => []NoLockPanic
<1>1. IInv => NoLockPanic
  <2> SUFFICES ASSUME IInv, NEW t \in Tids
               PROVE  /\ Running(t, WriteLock) /\ tpl_writer[Target(t)] = t =>
                           <<Target(t), "Write">> \in locks[t]
                      /\ \A x \in Objects : <<x, "Write">> \in locks[t] => tpl_writer[x] = t
    BY DEF NoLockPanic
  <2>1. Running(t, WriteLock) => pc[t] # "upgrade" /\ Target(t) \in Objects
    BY TargetType DEF Running, IInv
  <2>2. QED
    BY <2>1 DEF IInv, LockInv, WriterWordExact
<1>2. QED
  BY <1>1, IInvHolds, PTL

\* No object ever holds the value of a transaction that has aborted.
THEOREM NoAbortedDataHolds == Spec => []NoAbortedData
<1>1. IInv => NoAbortedData
  <2> SUFFICES ASSUME IInv, NEW x \in Objects, data[x] # 0
               PROVE  <<x, "Write">> \in locks[data[x]] \/ pc[data[x]] \in {"commit", "done"}
    BY DEF NoAbortedData
  <2>1. data[x] \in Tids /\ x \in refs[data[x]]
    BY DEF IInv, TypeInv, TypeOK, DataInv
  <2>2. pc[data[x]] # "abort" /\ (Holding(data[x]) => <<x, "Write">> \in locks[data[x]])
    BY <2>1, LocksCoverAccesses DEF IInv
  <2>3. pc[data[x]] \in {"run", "upgrade", "persist_data", "drain", "persist_txn",
                         "commit", "abort", "done"}
    BY <2>1 DEF IInv, TypeInv, TypeOK
  <2>4. QED
    BY <2>2, <2>3 DEF Holding
<1>2. QED
  BY <1>1, IInvHolds, PTL

\* Transactions are serializable in the order of their commits.
THEOREM SerializableHolds == Spec => []Serializable
<1>1. IInv => Serializable
  BY DEF IInv, HistoryInv
<1>2. QED
  BY <1>1, IInvHolds, PTL

\* A crash at any step leaves of each object the value of its last durable
\* writer, or that of the transaction in flight that has it write-locked; and no
\* transaction with a commit record has read from one that the crash takes back.
THEOREM CrashConsistentHolds == Spec => []CrashConsistent
<1>1. IInv => CopiesDurable
  <2> SUFFICES ASSUME IInv, NEW x \in Objects, NEW v \in pmem[x]
               PROVE  \/ v = LastWriter(x, Durable)
                      \/ v \in Tids \ plog_txn /\ <<x, "Write">> \in locks[v]
    BY DEF CopiesDurable, Durable
  <2>1. CASE v \in Tids /\ pc[v] \in {"drain", "persist_txn"} /\ x \in refs[v]
    <3>1. v \notin plog_txn
      BY <2>1 DEF IInv, PersistInv
    <3>2. <<x, "Write">> \in locks[v]
      BY <2>1, LocksCoverAccesses DEF IInv, Holding
    <3>3. QED
      BY <2>1, <3>1, <3>2
  <2>2. QED
    BY <2>1 DEF IInv, PersistInv
<1>2. IInv => DurableReads
  BY DEF IInv, DurableInv, DurableReads, TypeInv, TypeOK
<1>3. IInv => CrashConsistent
  BY <1>1, <1>2 DEF CrashConsistent
<1>4. QED
  BY <1>3, IInvHolds, PTL

-----------------------------------------------------------------------------

\* A set of transactions that is not empty has a youngest one.
LEMMA YoungestExists ==
  ASSUME NEW S \in SUBSET Tids, S # {}
  PROVE  \E t \in S : \A u \in S : u <= t
<1> DEFINE Younger(t) == {u \in S : u > t}
           C == {Cardinality(Younger(t)) : t \in S}
<1>1. S \subseteq Nat /\ IsFiniteSet(S)
  BY TidsAssumption, FS_Subset
<1>2. \A t \in S : IsFiniteSet(Younger(t)) /\ Cardinality(Younger(t)) \in Nat
  BY <1>1, FS_Subset, FS_CardinalityType
<1>3. C \subseteq Nat /\ C # {}
  BY <1>2
<1>4. \A a, b \in Nat : a < b => <<a, b>> \in OpToRel(<, Nat)
  BY DEF OpToRel
<1>5. PICK c \in C : \A e \in C : ~(<<e, c>> \in OpToRel(<, Nat))
  BY <1>3, NatLessThanWellFounded, WFMin
<1>6. PICK t \in S : c = Cardinality(Younger(t))
  BY <1>5
<1>7. ASSUME NEW u \in S, u > t PROVE FALSE
  <2>1. Younger(u) \subseteq Younger(t) /\ u \in Younger(t) /\ u \notin Younger(u)
    <3>1. \A v \in S : v \in Nat
      BY <1>1
    <3>2. \A v \in S : v > u => v > t
      BY <1>7, <3>1
    <3>3. ~(u > u)
      BY <3>1
    <3>4. QED
      BY <1>7, <3>2, <3>3
  <2>2. Cardinality(Younger(u)) < Cardinality(Younger(t))
    <3>1. /\ Cardinality(Younger(u)) <= Cardinality(Younger(t))
          /\ Cardinality(Younger(t)) = Cardinality(Younger(u)) => Younger(t) = Younger(u)
      BY <1>2, <2>1, FS_Subset
    <3>2. QED
      BY <1>2, <2>1, <3>1
  <2>3. Cardinality(Younger(u)) \in C
    OBVIOUS
  <2>4. QED
    BY <1>2, <1>4, <1>5, <1>6, <2>2, <2>3
<1>8. \A u \in S : ~(u > t)
  BY <1>7
<1> HIDE DEF Younger, C
<1>9. t \in Nat /\ \A u \in S : u \in Nat
  BY <1>1
<1>10. \A u \in S : u <= t
  BY <1>8, <1>9
<1>11. QED
  BY <1>10

\* Where no transaction write-locks what another one read-locks, wait-die
\* works: a transaction only ever waits for a younger one.
LEMMA WaitsForYounger ==
  ASSUME IInv, ~LocksMixed, NEW t \in Tids, NEW u \in Tids, WaitsFor(t, u)
  PROVE  u > t
<1> DEFINE x == Target(t)
<1>1. t \in Nat /\ u \in Nat /\ t # u /\ u # 0
  BY TidsAssumption DEF WaitsFor
<1>2. ASSUME u \in ReadersOf(x), Running(t, WriteLock) \/ pc[t] = "upgrade" PROVE FALSE
  <2>1. /\ ip[t] \in DOMAIN program[t] /\ program[t][ip[t]].op = WriteLock
        /\ program[t][ip[t]].obj = x /\ x \in Objects
    BY <1>2, TargetType DEF Running, IInv, TypeInv, ControlInv, AttemptInv, Target
  <2>2. Executed(u, ReadLock, x)
    BY <1>2, <2>1 DEF ReadersOf, IInv, ControlInv, AttemptInv, LockOp, LockType
  <2>3. QED
    BY <2>1, <2>2 DEF Executed, LocksMixed
<1>3. ASSUME tpl_writer[x] = u, ~OlderWriter(t) PROVE u > t
  BY <1>1, <1>3 DEF OlderWriter
<1>4. QED
  BY <1>2, <1>3 DEF WaitsFor

\* So no transactions of such programs wait for each other in a circle.
THEOREM NoWaitCycleApartHolds == Spec => []NoWaitCycleApart
<1>1. IInv => NoWaitCycleApart
  <2> SUFFICES ASSUME IInv, ~LocksMixed, NEW S \in (SUBSET Tids) \ {{}}
               PROVE  \E t \in S : \A u \in S : ~WaitsFor(t, u)
    BY DEF NoWaitCycleApart, NoWaitCycle
  <2>0. S \in SUBSET Tids /\ S # {}
    OBVIOUS
  <2>1. PICK t \in S : \A u \in S : u <= t
    BY <2>0, YoungestExists
  <2>2. \A u \in S : ~(u > t)
    BY <2>0, <2>1, TidsAssumption
  <2>3. QED
    BY <2>0, <2>2, WaitsForYounger
<1>2. QED
  BY <1>1, IInvHolds, PTL
=============================================================================
