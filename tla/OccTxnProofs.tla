----------------------------- MODULE OccTxnProofs -----------------------------
(***************************************************************************)
(* Safety of TransactionOCC (module OccTxn), for any number of             *)
(* transactions, objects and versions, and any mixes of programs over      *)
(* them.                                                                   *)
(*                                                                         *)
(* The inductive invariant IInv is a conjunction of layers, each of which  *)
(* is kept by every step from a state with the layers before it:           *)
(*   TagsInv     the types and the locks of a round of tags (module        *)
(*               OccTagsProofs);                                           *)
(*   ProgramInv  programs come from the mix;                               *)
(*   HistoryInv  the value and the version of an object, by who has        *)
(*               written it; what a transaction has yet to install; what   *)
(*               it has read, and found unchanged;                         *)
(*   SerialInv   there is a serial order of the transactions.              *)
(* The order of SerialInv gives a transaction its place at the step that   *)
(* ends locking and begins checking: by then nobody else can write what    *)
(* it writes, and what it has read is checked after. An object that it     *)
(* then finds unlocked (Passed) can only be written by transactions that   *)
(* get their place later (PassedOrder).                                    *)
(***************************************************************************)
EXTENDS OccTxn, OccTagsProofs

\* The control points of TransactionOCC, which never runs pieces or persists.
TxnLabels == {"run", "read", "lock", "check", "check_version", "install",
              "set_version", "commit", "abort", "done"}

\* The part of TypeOK that is not about tags; and programs come from the mix.
ProgramInv ==
  /\ pc \in [Tids -> TxnLabels]
  /\ mix \in DOMAIN Mixes
  /\ program \in [Tids -> Seq(Operation)]
  /\ \A t \in Tids : program[t] \in Programs(t) \/ program[t] = <<>>
  /\ ip \in [Tids -> Nat \ {0}]
  /\ should_abort \in [Tids -> BOOLEAN]

\* The next operation of a transaction is one of its program; only rows are
\* read.
LEMMA CurrentOpType ==
  ASSUME ProgramInv, NEW t \in Tids, ip[t] <= Len(program[t])
  PROVE  /\ CurrentOp(t) \in Operation
         /\ CurrentOp(t).obj \in Objects
         /\ CurrentOp(t).op = Read => CurrentOp(t).obj \notin Buckets
<1>1. program[t] \in Seq(Operation) /\ ip[t] \in Nat \ {0}
  BY DEF ProgramInv
<1>2. ip[t] \in DOMAIN program[t] /\ program[t][ip[t]] \in Operation
  BY <1>1
<1>3. program[t] # <<>>
  BY <1>1
<1>4. program[t] \in Mixes[mix][t] /\ mix \in DOMAIN Mixes
  BY <1>3 DEF ProgramInv, Programs
<1>5. program[t][ip[t]].op = Read => program[t][ip[t]].obj \notin Buckets
  BY <1>2, <1>4, MixesAssumption
<1>6. QED
  BY <1>2, <1>5 DEF CurrentOp, Operation

\* What a program does are steps of tags.
LEMMA StepIsTagStep ==
  ASSUME TagsInv, ProgramInv, NEW t \in Tids, Step(t)
  PROVE  TagStep(t)
<1>0. pc \in [Tids -> TxnLabels] /\ todo \in [Tids -> SUBSET Objects] /\ at \in [Tids -> Objects]
  BY DEF ProgramInv, TagsInv, OccTypeOK
<1>1. CASE ReadOp(t)
  BY <1>1, CurrentOpType DEF ReadOp, Running, TagStep
<1>2. CASE WriteOp(t)
  BY <1>2, CurrentOpType DEF WriteOp, Running, TagStep
<1>3. CASE LookUpOp(t) \/ FindOp(t)
  BY <1>3 DEF LookUpOp, FindOp, TagStep
<1>4. CASE TryCommit(t)
  <2>1. CASE should_abort[t]
    BY <1>4, <2>1, MoveOnStep DEF TryCommit, Labels, Quiet
  <2>2. QED
    BY <1>4, <2>1 DEF TryCommit, TagStep
<1>5. CASE Validate(t)
  BY <1>5 DEF Validate, TagStep
<1>6. CASE Commit(t)
  BY <1>6 DEF Commit, TagStep
<1>7. CASE Install(t)
  <2>1. CASE SetVersion(t) /\ Visited(t, at[t]) /\ Goto(t, "install")
    <3>1. todo[t] \ {at[t]} \in SUBSET Objects
      BY <1>0
    <3>2. QED
      BY <2>1, <3>1 DEF Visited, TagStep
  <2>2. QED
    BY <1>7, <2>1 DEF Install, TagStep
<1>8. CASE EndInstall(t)
  BY <1>8, MoveOnStep DEF EndInstall, Labels
<1>9. CASE CleanUp(t)
  BY <1>9 DEF CleanUp, TagStep
<1>10. CASE EndCleanUp(t)
  BY <1>10 DEF EndCleanUp, TagStep, Quiet
<1>11. QED
  BY <1>1, <1>2, <1>3, <1>4, <1>5, <1>6, <1>7, <1>8, <1>9, <1>10 DEF Step

\* The layers of the tags and of the programs hold at first,
LEMMA InitProgramInv == Init => TagsInv /\ ProgramInv
<1> SUFFICES ASSUME Init PROVE TagsInv /\ ProgramInv
  OBVIOUS
<1>1. \A t \in Tids : \A p \in Programs(t) : p \in Seq(Operation)
  BY MixesAssumption DEF Init, Programs
<1>2. \A t \in Tids : program[t] \in Programs(t) \/ program[t] = <<>>
  BY DEF Init
<1>3. program \in [Tids -> Seq(Operation)]
  <2>1. \A t \in Tids : program[t] \in Seq(Operation)
    <3>1. <<>> \in Seq(Operation)
      OBVIOUS
    <3>2. QED
      BY <1>1, <1>2, <3>1, Zenon
  <2>2. program = [t \in Tids |-> program[t]]
    BY DEF Init
  <2>3. QED
    BY <2>1, <2>2
<1>4. [t \in Tids |-> IF Programs(t) = {} THEN "done" ELSE "run"] \in [Tids -> Quiet]
  BY DEF Quiet
<1>5. TagsInv
  BY <1>4, InitTagsInv DEF Init
<1>6. QED
  BY <1>2, <1>3, <1>5 DEF Init, OccInit, ProgramInv, TxnLabels

\* and every step keeps them.
LEMMA StepProgramInv ==
  TagsInv /\ ProgramInv /\ [Next]_vars => TagsInv' /\ ProgramInv'
<1> SUFFICES ASSUME TagsInv, ProgramInv, [Next]_vars PROVE TagsInv' /\ ProgramInv'
  OBVIOUS
<1>1. ASSUME NEW t \in Tids, Step(t) PROVE TagsInv'
  BY <1>1, StepIsTagStep, TagStepInv
<1>2. CASE UNCHANGED vars
  BY <1>2 DEF vars, occVars, progVars, objectVars, tagVars, historyVars, TagsInv, OccTypeOK,
       RoundInv, LocksOwned, VersionPending, ProgramInv, Programs
<1>3. ASSUME NEW t \in Tids, Step(t) PROVE ProgramInv'
  <2>0. /\ pc \in [Tids -> TxnLabels] /\ ip \in [Tids -> Nat \ {0}] /\ mix \in DOMAIN Mixes
        /\ program \in [Tids -> Seq(Operation)] /\ should_abort \in [Tids -> BOOLEAN]
        /\ \A u \in Tids : program[u] \in Programs(u) \/ program[u] = <<>>
    BY DEF ProgramInv
  <2>1. UNCHANGED mix
    BY <1>3 DEF Step, ReadOp, WriteOp, LookUpOp, FindOp, TryCommit, Validate, Commit, Install,
         EndInstall, CleanUp, EndCleanUp, progVars
  <2>2. pc' \in [Tids -> TxnLabels]
    <3> USE DEF Goto, TxnLabels
    <3>1. CASE ReadOp(t) \/ WriteOp(t) \/ LookUpOp(t) \/ FindOp(t) \/ TryCommit(t) \/ Commit(t)
      BY <2>0, <3>1 DEF ReadOp, WriteOp, LookUpOp, FindOp, TryCommit, Commit, ReadVersion, ReadData,
           BufferWrite, BeginLock, CommitRound, occVars
    <3>2. CASE Validate(t)
      BY <2>0, <3>2 DEF Validate, LockTag, CheckOwner, BeginCheck, CheckVersion
    <3>3. CASE Install(t) \/ EndInstall(t) \/ CleanUp(t) \/ EndCleanUp(t)
      BY <2>0, <3>3 DEF Install, EndInstall, CleanUp, EndCleanUp, InstallData, InstallPush,
           UnlockTag, CleanedUp
    <3>4. QED
      BY <1>3, <3>1, <3>2, <3>3 DEF Step
  <2>3. ip' \in [Tids -> Nat \ {0}]
    <3>1. Len(program[t]) \in Nat
      BY <2>0
    <3>2. QED
      BY <1>3, <2>0, <3>1 DEF Step, ReadOp, WriteOp, LookUpOp, FindOp, TryCommit, Validate, Commit,
           Install, EndInstall, CleanUp, EndCleanUp, Advance, EndProgram
  <2>4. should_abort' \in [Tids -> BOOLEAN]
    BY <1>3, <2>0 DEF Step, ReadOp, WriteOp, LookUpOp, FindOp, TryCommit, Validate, Commit,
         Install, EndInstall, CleanUp, EndCleanUp, progVars
  <2>5. /\ program' \in [Tids -> Seq(Operation)]
        /\ \A u \in Tids : program'[u] \in Programs(u) \/ program'[u] = <<>>
    <3>1. CASE UNCHANGED program
      BY <2>0, <3>1
    <3>2. CASE EndCleanUp(t) /\ ~UNCHANGED program
      <4>1. PICK p \in IF Redraw THEN Programs(t) ELSE {program[t]} :
              program' = [program EXCEPT ![t] = p]
        BY <3>2 DEF EndCleanUp
      <4>2. p \in Seq(Operation) /\ (p \in Programs(t) \/ p = <<>>)
        BY <2>0, <4>1, MixesAssumption DEF Programs
      <4>3. QED
        BY <2>0, <4>1, <4>2
    <3>3. QED
      BY <1>3, <3>1, <3>2 DEF Step, ReadOp, WriteOp, LookUpOp, FindOp, TryCommit, Validate, Commit,
           Install, EndInstall, CleanUp, progVars
  <2>6. QED
    BY <2>1, <2>2, <2>3, <2>4, <2>5 DEF ProgramInv, Programs
<1>4. QED
  BY <1>1, <1>2, <1>3 DEF Next, Terminated

-----------------------------------------------------------------------------

\* The k-th value that the writers s give to an object, the first one for 0.
ValueAt(s, k) == IF k = 0 THEN 0 ELSE s[k]

\* v is one of these values.
IsValue(s, v) == v = 0 \/ \E i \in DOMAIN s : s[i] = v

\* Place, of any sequence of writers.
PlaceIn(s, v) == IF v = 0 THEN 0 ELSE CHOOSE i \in DOMAIN s : s[i] = v

\* No member of a sequence occurs twice.
Distinct(s) == \A i, j \in DOMAIN s : s[i] = s[j] => i = j

\* The place of a value among the writers of an object.
LEMMA PlaceInType ==
  ASSUME NEW s \in Seq(Tids), NEW v, IsValue(s, v)
  PROVE  PlaceIn(s, v) \in 0..Len(s)
<1>1. CASE v = 0
  BY <1>1 DEF PlaceIn
<1>2. CASE v # 0
  <2>1. \E i \in DOMAIN s : s[i] = v
    BY <1>2 DEF IsValue
  <2>2. PlaceIn(s, v) \in DOMAIN s
    BY <1>2, <2>1 DEF PlaceIn
  <2>3. QED
    BY <2>2
<1>3. QED
  BY <1>1, <1>2

\* Where each writer occurs once, a value has one place.
LEMMA PlaceInIs ==
  ASSUME NEW s \in Seq(Tids), Distinct(s), NEW i \in DOMAIN s
  PROVE  PlaceIn(s, s[i]) = i
<1>1. s[i] # 0
  BY TidsAssumption
<1>2. (CHOOSE j \in DOMAIN s : s[j] = s[i]) \in DOMAIN s
  OBVIOUS
<1>3. s[CHOOSE j \in DOMAIN s : s[j] = s[i]] = s[i]
  OBVIOUS
<1>4. QED
  BY <1>1, <1>2, <1>3 DEF PlaceIn, Distinct

\* A further writer leaves the places of the earlier ones.
LEMMA AppendWriter ==
  ASSUME NEW s \in Seq(Tids), Distinct(s), NEW t \in Tids, \A i \in DOMAIN s : s[i] # t
  PROVE  LET a == Append(s, t) IN
         /\ a \in Seq(Tids) /\ Distinct(a) /\ Len(a) = Len(s) + 1
         /\ DOMAIN a = DOMAIN s \cup {Len(a)}
         /\ \A i \in DOMAIN s : a[i] = s[i]
         /\ ValueAt(a, Len(a)) = t
         /\ ValueAt(a, Len(a) - 1) = ValueAt(s, Len(s))
         /\ \A v : IsValue(s, v) => IsValue(a, v) /\ PlaceIn(a, v) = PlaceIn(s, v)
<1> DEFINE a == Append(s, t)
<1>1. /\ a \in Seq(Tids) /\ Len(a) = Len(s) + 1 /\ Len(s) \in Nat
      /\ DOMAIN a = DOMAIN s \cup {Len(a)}
      /\ \A i \in DOMAIN s : a[i] = s[i]
      /\ a[Len(a)] = t
  OBVIOUS
<1>2. Distinct(a)
  BY <1>1 DEF Distinct
<1>3. ValueAt(a, Len(a)) = t
  BY <1>1 DEF ValueAt
<1>4. ValueAt(a, Len(a) - 1) = ValueAt(s, Len(s))
  BY <1>1 DEF ValueAt
<1>5. ASSUME NEW v, IsValue(s, v) PROVE IsValue(a, v) /\ PlaceIn(a, v) = PlaceIn(s, v)
  <2>1. CASE v = 0
    BY <2>1 DEF IsValue, PlaceIn
  <2>2. CASE v # 0
    <3>1. PICK i \in DOMAIN s : s[i] = v
      BY <1>5, <2>2 DEF IsValue
    <3>2. i \in DOMAIN a /\ a[i] = v
      BY <1>1, <3>1
    <3>3. PlaceIn(s, s[i]) = i /\ PlaceIn(a, a[i]) = i
      BY <1>1, <1>2, <3>1, <3>2, PlaceInIs
    <3>4. QED
      BY <3>1, <3>2, <3>3 DEF IsValue
  <2>3. QED
    BY <2>1, <2>2
<1>6. QED
  BY <1>1, <1>2, <1>3, <1>4, <1>5

-----------------------------------------------------------------------------

\* Where t does not fail any more.
Committing == {"install", "set_version", "commit", "done"}

\* t has written x.
Wrote(t, x) == \E i \in DOMAIN written[x] : written[x][i] = t

\* The writers of an object are distinct, its value is that of the last one,
\* and its version that of the last or of the one before.
ValuesInv(x) ==
  /\ Distinct(written[x])
  /\ data[x] = ValueAt(written[x], Len(written[x]))
  /\ data[x] # last_writer[x] =>
       /\ written[x] # <<>>
       /\ last_writer[x] = ValueAt(written[x], Len(written[x]) - 1)

\* A transaction writes an object once, after its check, and all it has to
\* write before the end of commit.
InstallInv(t) ==
  /\ \A x \in Objects : Wrote(t, x) => pc[t] \in Committing
  /\ \A x \in todo[t] :
       pc[t] = "install" \/ (pc[t] = "set_version" /\ x # at[t]) => ~Wrote(t, x)
  /\ \A x \in has_write[t] \ Buckets :
       /\ pc[t] \in {"install", "set_version"} => Wrote(t, x) \/ x \in todo[t]
       /\ pc[t] = "commit" => Wrote(t, x)

\* What t reads are values of rows. The version it keeps is not later than the
\* last value it has read, unless it is about to read again.
ReadsInv(t) ==
  /\ \A r \in reads[t] \cup seen[t] :
       r[1] \in Objects \ Buckets /\ IsValue(written[r[1]], r[2])
  /\ \A x \in Objects : IsValue(written[x], vers[t][x])
  /\ pc[t] = "read" => at[t] \in tags[t] \ Buckets
  /\ \A r \in reads[t] :
       /\ r[1] \in tags[t]
       /\ ~(pc[t] = "read" /\ at[t] = r[1]) =>
            \E q \in reads[t] :
              q[1] = r[1] /\ PlaceIn(written[r[1]], vers[t][r[1]]) <= PlaceIn(written[r[1]], q[2])
  /\ seen[t] # {} => pc[t] \in Committing

\* The layer of the histories of objects and transactions.
HistoryInv ==
  /\ \A x \in Objects : ValuesInv(x)
  /\ \A t \in Tids : InstallInv(t) /\ ReadsInv(t)

\* It holds at first.
LEMMA InitHistoryInv == Init => HistoryInv
BY TidsAssumption DEF Init, OccInit, HistoryInv, ValuesInv, InstallInv, ReadsInv, Wrote, Distinct,
   ValueAt, IsValue, Committing

\* A step in which u takes no part, and which writes no object.
LEMMA InstallReadsUnchanged ==
  ASSUME NEW u \in Tids, InstallInv(u), ReadsInv(u), UNCHANGED written,
         pc'[u] = pc[u], todo'[u] = todo[u], at'[u] = at[u], has_write'[u] = has_write[u],
         tags'[u] = tags[u], vers'[u] = vers[u], reads'[u] = reads[u], seen'[u] = seen[u]
  PROVE  InstallInv(u)' /\ ReadsInv(u)'
BY DEF InstallInv, ReadsInv, Wrote

\* The value that t installs.
LEMMA InstallDataHistory ==
  ASSUME TagsInv, HistoryInv, NEW t \in Tids, NEW x \in Objects, InstallData(t, x)
  PROVE  /\ \A i \in DOMAIN written[x] : written[x][i] # t
         /\ written' = [written EXCEPT ![x] = Append(written[x], t)]
         /\ \A y \in Objects : \A v : IsValue(written[y], v) =>
              IsValue(written'[y], v) /\ PlaceIn(written'[y], v) = PlaceIn(written[y], v)
         /\ \A y \in Objects, u \in Tids : Wrote(u, y)' <=> Wrote(u, y) \/ (u = t /\ y = x)
         /\ HistoryInv'
<1>0. /\ written \in [Objects -> Seq(Tids)] /\ pc \in [Tids -> Labels]
      /\ data \in [Objects -> Values] /\ last_writer \in [Objects -> Values]
      /\ at \in [Tids -> Objects] /\ todo \in [Tids -> SUBSET Objects]
      /\ lock_owner[x] = t /\ RoundInv(t)
  BY DEF TagsInv, OccTypeOK, RoundInv, AllLocked, LocksOwned, InstallData
<1>1. /\ \A i \in DOMAIN written[x] : written[x][i] # t
      /\ \A u \in Tids : InstallInv(u) /\ ReadsInv(u)
      /\ \A y \in Objects : ValuesInv(y)
  BY DEF HistoryInv, InstallInv, Wrote, InstallData
<1>2. /\ written' = [written EXCEPT ![x] = Append(written[x], t)]
      /\ pc' = [pc EXCEPT ![t] = "set_version"] /\ at' = [at EXCEPT ![t] = x]
      /\ data' = [data EXCEPT ![x] = t]
      /\ UNCHANGED <<last_writer, todo, has_write, tags, vers, reads, seen>>
  BY DEF InstallData, Goto, tagVars
<1>3. Distinct(written[x]) /\ written[x] \in Seq(Tids)
  BY <1>0, <1>1 DEF ValuesInv
<1>4. /\ written'[x] = Append(written[x], t)
      /\ Distinct(written'[x]) /\ Len(written'[x]) = Len(written[x]) + 1
      /\ DOMAIN written'[x] = DOMAIN written[x] \cup {Len(written'[x])}
      /\ \A i \in DOMAIN written[x] : written'[x][i] = written[x][i]
      /\ ValueAt(written'[x], Len(written'[x])) = t
      /\ ValueAt(written'[x], Len(written'[x]) - 1) = ValueAt(written[x], Len(written[x]))
      /\ \A v : IsValue(written[x], v) =>
           IsValue(written'[x], v) /\ PlaceIn(written'[x], v) = PlaceIn(written[x], v)
  BY <1>0, <1>1, <1>2, <1>3, AppendWriter
<1>5. \A y \in Objects \ {x} : written'[y] = written[y]
  BY <1>0, <1>2
<1>6. \A y \in Objects : \A v : IsValue(written[y], v) =>
        IsValue(written'[y], v) /\ PlaceIn(written'[y], v) = PlaceIn(written[y], v)
  BY <1>4, <1>5
<1>7. \A y \in Objects, u \in Tids : Wrote(u, y)' <=> Wrote(u, y) \/ (u = t /\ y = x)
  <2>1. written'[x][Len(written'[x])] = t
    BY <1>0, <1>4 DEF ValueAt
  <2>2. QED
    BY <1>4, <1>5, <2>1 DEF Wrote
<1>8. ASSUME NEW y \in Objects PROVE ValuesInv(y)'
  <2>1. CASE y = x
    <3>1. written'[x] # <<>>
      BY <1>0, <1>3, <1>4
    <3>2. data[x] = last_writer[x]
      \* else its writer would have locked it, and be setting its version
      BY <1>0, <1>1 DEF TagsInv, VersionPending, RoundInv, LocksOwned, AllLocked, OccTypeOK,
           InstallData
    <3>3. QED
      BY <1>0, <1>1, <1>2, <1>4, <2>1, <3>1, <3>2 DEF ValuesInv
  <2>2. CASE y # x
    BY <1>0, <1>1, <1>2, <1>5, <2>2 DEF ValuesInv
  <2>3. QED
    BY <2>1, <2>2
<1>9. ASSUME NEW u \in Tids PROVE InstallInv(u)'
  <2>1. CASE u = t
    <3>1. /\ pc[t] = "install" /\ pc'[t] = "set_version" /\ at'[t] = x /\ x \in todo[t]
          /\ todo'[t] = todo[t] /\ has_write'[t] = has_write[t]
      BY <1>0, <1>2 DEF InstallData
    <3>2. /\ \A y \in todo[t] : ~Wrote(t, y)
          /\ \A y \in has_write[t] \ Buckets : Wrote(t, y) \/ y \in todo[t]
      BY <1>1, <3>1 DEF InstallInv
    <3>3. todo[t] \subseteq Objects /\ has_write[t] \subseteq Objects
      BY DEF TagsInv, OccTypeOK
    <3>4. \A y \in todo'[t] : y # at'[t] => ~Wrote(t, y)'
      BY <1>7, <3>1, <3>2, <3>3
    <3>5. \A y \in has_write'[t] \ Buckets : Wrote(t, y)' \/ y \in todo'[t]
      BY <1>7, <3>1, <3>2, <3>3
    <3>6. QED
      BY <2>1, <3>1, <3>4, <3>5 DEF InstallInv, Committing
  <2>2. CASE u # t
    <3>1. /\ pc'[u] = pc[u] /\ at'[u] = at[u] /\ todo'[u] = todo[u] /\ has_write'[u] = has_write[u]
          /\ todo[u] \subseteq Objects /\ has_write[u] \subseteq Objects
      BY <1>0, <1>2, <2>2 DEF TagsInv, OccTypeOK
    <3>2. \A y \in Objects : Wrote(u, y)' <=> Wrote(u, y)
      BY <1>7, <2>2
    <3>3. InstallInv(u)
      BY <1>1
    <3>4. QED
      BY <3>1, <3>2, <3>3 DEF InstallInv
  <2>3. QED
    BY <2>1, <2>2
<1>10. ASSUME NEW u \in Tids PROVE ReadsInv(u)'
  <2>1. /\ pc'[u] = "read" => pc[u] = "read" /\ at'[u] = at[u]
        /\ pc[u] = "read" => pc'[u] = "read"
        /\ pc[u] \in Committing => pc'[u] \in Committing
    BY <1>0, <1>2 DEF Committing, InstallData
  <2>2. ReadsInv(u) /\ vers[u] \in [Objects -> Values]
    BY <1>1 DEF TagsInv, OccTypeOK
  <2>3. /\ reads'[u] = reads[u] /\ seen'[u] = seen[u] /\ vers'[u] = vers[u] /\ tags'[u] = tags[u]
        /\ \A r \in reads[u] \cup seen[u] : r[1] \in Objects
    BY <1>2, <2>2 DEF ReadsInv
  <2>4. \A r \in reads[u] \cup seen[u] :
          r[1] \in Objects \ Buckets /\ IsValue(written'[r[1]], r[2])
    BY <1>6, <2>2 DEF ReadsInv
  <2>5. \A y \in Objects : IsValue(written'[y], vers[u][y])
    BY <1>6, <2>2 DEF ReadsInv
  <2>6. \A r \in reads[u] : ~(pc'[u] = "read" /\ at'[u] = r[1]) =>
          \E q \in reads[u] : q[1] = r[1] /\
            PlaceIn(written'[r[1]], vers[u][r[1]]) <= PlaceIn(written'[r[1]], q[2])
    <3>1. SUFFICES ASSUME NEW r \in reads[u], ~(pc'[u] = "read" /\ at'[u] = r[1])
                   PROVE  \E q \in reads[u] : q[1] = r[1] /\
                     PlaceIn(written'[r[1]], vers[u][r[1]]) <= PlaceIn(written'[r[1]], q[2])
      OBVIOUS
    <3>2. r[1] \in Objects /\ ~(pc[u] = "read" /\ at[u] = r[1])
      BY <1>2, <2>1, <2>3, <3>1
    <3>3. PICK q \in reads[u] :
             q[1] = r[1] /\ PlaceIn(written[r[1]], vers[u][r[1]]) <= PlaceIn(written[r[1]], q[2])
      BY <2>2, <3>2 DEF ReadsInv
    <3>4. PlaceIn(written'[r[1]], vers[u][r[1]]) = PlaceIn(written[r[1]], vers[u][r[1]])
      BY <1>6, <2>2, <3>2 DEF ReadsInv
    <3>5. PlaceIn(written'[r[1]], q[2]) = PlaceIn(written[r[1]], q[2])
      BY <1>6, <2>2, <3>2, <3>3 DEF ReadsInv
    <3>6. QED
      BY <3>3, <3>4, <3>5
  <2>7. QED
    BY <2>1, <2>2, <2>3, <2>4, <2>5, <2>6 DEF ReadsInv
<1>11. QED
  BY <1>1, <1>2, <1>6, <1>7, <1>8, <1>9, <1>10 DEF HistoryInv

\* The last value has the last place.
LEMMA LastPlace ==
  ASSUME NEW s \in Seq(Tids), Distinct(s)
  PROVE  IsValue(s, ValueAt(s, Len(s))) /\ PlaceIn(s, ValueAt(s, Len(s))) = Len(s)
<1>1. CASE Len(s) = 0
  BY <1>1 DEF ValueAt, IsValue, PlaceIn
<1>2. CASE Len(s) # 0
  <2>1. Len(s) \in DOMAIN s /\ ValueAt(s, Len(s)) = s[Len(s)]
    BY <1>2 DEF ValueAt
  <2>2. QED
    BY <2>1, PlaceInIs DEF IsValue
<1>3. QED
  BY <1>1, <1>2

\* The version is a value, too.
LEMMA VersionIsValue ==
  ASSUME TagsInv, NEW x \in Objects, ValuesInv(x)
  PROVE  IsValue(written[x], last_writer[x])
<1>1. written[x] \in Seq(Tids)
  BY DEF TagsInv, OccTypeOK
<1>2. CASE data[x] = last_writer[x]
  BY <1>1, <1>2, LastPlace DEF ValuesInv
<1>3. CASE data[x] # last_writer[x]
  <2>0. Len(written[x]) \in Nat /\ Len(written[x]) # 0 /\ DOMAIN written[x] = 1..Len(written[x])
    BY <1>1, <1>3 DEF ValuesInv
  <2>1. Len(written[x]) - 1 = 0 \/ Len(written[x]) - 1 \in DOMAIN written[x]
    <3>1. \A n \in Nat : n # 0 => n - 1 = 0 \/ n - 1 \in 1..n
      OBVIOUS
    <3>2. QED
      BY <2>0, <3>1
  <2>2. QED
    BY <1>3, <2>1 DEF ValuesInv, ValueAt, IsValue
<1>4. QED
  BY <1>2, <1>3

\* A step of t in the middle of a round, which reads nothing.
LEMMA ReadsInvKept ==
  ASSUME NEW t \in Tids, ReadsInv(t), UNCHANGED written,
         pc[t] # "read", pc'[t] # "read", pc[t] \in Committing => pc'[t] \in Committing,
         tags[t] \subseteq tags'[t], vers'[t] = vers[t], reads'[t] = reads[t], seen'[t] = seen[t]
  PROVE  ReadsInv(t)'
BY DEF ReadsInv

\* A step of t before its check has succeeded, or after an abort.
LEMMA InstallInvEarly ==
  ASSUME NEW t \in Tids, InstallInv(t), UNCHANGED written,
         pc[t] \notin Committing, pc'[t] \notin Committing
  PROVE  InstallInv(t)'
BY DEF InstallInv, Committing, Wrote

\* The loads of a read.
LEMMA ReadHistory ==
  ASSUME TagsInv, ProgramInv, HistoryInv, NEW t \in Tids, ReadOp(t)
  PROVE  InstallInv(t)' /\ ReadsInv(t)'
<1>0. /\ written \in [Objects -> Seq(Tids)] /\ pc \in [Tids -> Labels]
      /\ at \in [Tids -> Objects] /\ vers \in [Tids -> [Objects -> Values]]
      /\ tags \in [Tids -> SUBSET Objects] /\ reads \in [Tids -> SUBSET (Objects \X Values)]
      /\ InstallInv(t) /\ ReadsInv(t) /\ \A x \in Objects : ValuesInv(x)
  BY DEF TagsInv, OccTypeOK, HistoryInv
<1>1. /\ pc[t] \in {"run", "read"} /\ pc'[t] \in {"run", "read"}
      /\ UNCHANGED <<objectVars, has_write, todo, seen, written>>
  BY <1>0 DEF ReadOp, ReadVersion, ReadData, Goto, objectVars, tagVars, historyVars
<1>2. InstallInv(t)'
  BY <1>0, <1>1, InstallInvEarly DEF Committing
<1>3. ASSUME NEW x \in Objects \ Buckets, ReadVersion(t, x) PROVE ReadsInv(t)'
  <2>1. /\ pc[t] = "run" /\ pc'[t] = "read" /\ at'[t] = x /\ x \in tags'[t]
        /\ tags[t] \subseteq tags'[t] /\ UNCHANGED <<reads, seen, written>>
        /\ vers'[t] = [vers[t] EXCEPT ![x] = last_writer[x]]
    BY <1>0, <1>3 DEF ReadVersion, Goto, historyVars
  <2>2. /\ vers'[t][x] = last_writer[x]
        /\ \A y \in Objects \ {x} : vers'[t][y] = vers[t][y]
    BY <1>0, <2>1
  <2>3. \A y \in Objects : IsValue(written[y], vers'[t][y])
    BY <1>0, <2>2, VersionIsValue DEF ReadsInv
  <2>4. \A r \in reads[t] : r[1] # x =>
          \E q \in reads[t] : q[1] = r[1] /\
            PlaceIn(written[r[1]], vers'[t][r[1]]) <= PlaceIn(written[r[1]], q[2])
    BY <1>0, <2>1, <2>2 DEF ReadsInv
  <2>5. QED
    BY <1>0, <2>1, <2>3, <2>4 DEF ReadsInv, Committing
<1>4. CASE ReadData(t)
  <2> DEFINE x == at[t]
             new == <<x, data[x]>>
  <2>1. /\ pc[t] = "read" /\ pc'[t] = "run" /\ UNCHANGED <<tagVars, at, seen, written>>
        /\ reads'[t] = reads[t] \cup {new} /\ x \in Objects
    BY <1>0, <1>4 DEF ReadData, Goto
  <2>2. /\ IsValue(written[x], data[x]) /\ PlaceIn(written[x], data[x]) = Len(written[x])
    BY <1>0, <2>1, LastPlace DEF ValuesInv
  <2>3. PlaceIn(written[x], vers[t][x]) \in 0..Len(written[x])
    BY <1>0, <2>1, PlaceInType DEF ReadsInv
  <2>4. PlaceIn(written[x], vers[t][x]) <= PlaceIn(written[x], data[x])
    BY <1>0, <2>1, <2>2, <2>3
  <2> HIDE DEF x
  <2>5. \A r \in reads'[t] :
          \E q \in reads'[t] : q[1] = r[1] /\
            PlaceIn(written[r[1]], vers[t][r[1]]) <= PlaceIn(written[r[1]], q[2])
    <3>1. SUFFICES ASSUME NEW r \in reads'[t]
                   PROVE  \E q \in reads'[t] : q[1] = r[1] /\
                     PlaceIn(written[r[1]], vers[t][r[1]]) <= PlaceIn(written[r[1]], q[2])
      OBVIOUS
    <3>2. CASE r[1] = x
      <4>1. new \in reads'[t] /\ new[1] = x /\ new[2] = data[x]
        BY <2>1
      <4>2. QED
        BY <2>4, <3>2, <4>1
    <3>3. CASE r[1] # x
      <4>1. r \in reads[t] /\ r[1] # at[t]
        BY <2>1, <3>3 DEF x
      <4>2. PICK q \in reads[t] : q[1] = r[1] /\
              PlaceIn(written[r[1]], vers[t][r[1]]) <= PlaceIn(written[r[1]], q[2])
        BY <1>0, <4>1 DEF ReadsInv
      <4>3. q \in reads'[t]
        BY <2>1
      <4>4. QED
        BY <4>2, <4>3
    <3>4. QED
      BY <3>2, <3>3
  <2>6. \A r \in reads'[t] :
          r[1] \in Objects \ Buckets /\ IsValue(written[r[1]], r[2]) /\ r[1] \in tags[t]
    BY <1>0, <2>1, <2>2 DEF ReadsInv, x
  <2>7. seen[t] = {}
    BY <1>0, <2>1 DEF ReadsInv, Committing
  <2>8. QED
    <3>1. /\ tags' = tags /\ vers' = vers /\ seen' = seen /\ written' = written
          /\ \A y \in Objects : IsValue(written[y], vers[t][y])
      BY <1>0, <2>1 DEF ReadsInv, tagVars
    <3>2. pc'[t] # "read" /\ seen'[t] = {}
      BY <2>1, <2>7, <3>1
    <3>4. \A r \in reads'[t] \cup seen'[t] :
            r[1] \in Objects \ Buckets /\ IsValue(written'[r[1]], r[2])
      BY <2>6, <3>1, <3>2
    <3>5. \A r \in reads'[t] : r[1] \in tags'[t]
      BY <2>6, <3>1
    <3>6. \A r \in reads'[t] :
            \E q \in reads'[t] : q[1] = r[1] /\
              PlaceIn(written'[r[1]], vers'[t][r[1]]) <= PlaceIn(written'[r[1]], q[2])
      BY <2>5, <3>1
    <3>7. \A y \in Objects : IsValue(written'[y], vers'[t][y])
      BY <3>1
    <3>8. QED
      BY <1>2, <3>2, <3>4, <3>5, <3>6, <3>7 DEF ReadsInv
<1>5. QED
  <2>1. ASSUME Running(t, Read) PROVE CurrentOp(t).obj \in Objects \ Buckets
    BY <2>1, CurrentOpType DEF Running
  <2>2. QED
    BY <1>2, <1>3, <1>4, <2>1 DEF ReadOp

\* The steps between the check and the end of commit.
LEMMA CommitHistory ==
  ASSUME TagsInv, ProgramInv, HistoryInv, NEW t \in Tids,
         Commit(t) \/ Install(t) \/ EndInstall(t), ~\E x \in Objects : InstallData(t, x)
  PROVE  InstallInv(t)' /\ ReadsInv(t)' /\ UNCHANGED written
<1>0. /\ pc \in [Tids -> Labels] /\ todo \in [Tids -> SUBSET Objects] /\ at \in [Tids -> Objects]
      /\ has_write[t] \subseteq Objects /\ DOMAIN seen = Tids
      /\ InstallInv(t) /\ ReadsInv(t) /\ RoundInv(t) /\ \A x \in Objects : ValuesInv(x)
      /\ written \in [Objects -> Seq(Tids)]
  BY DEF TagsInv, OccTypeOK, HistoryInv
<1>1. CASE Commit(t)
  <2>1. /\ pc[t] = "check" /\ pc'[t] = "install" /\ todo'[t] = has_write[t]
        /\ UNCHANGED <<at, has_write, tags, vers, reads, written>>
        /\ seen'[t] = seen[t] \cup reads[t]
    BY <1>0, <1>1 DEF Commit, CommitRound, Checked, Goto, Visit, tagVars
  <2>2. \A x \in Objects : ~Wrote(t, x)
    BY <1>0, <2>1 DEF InstallInv, Committing
  <2>3. InstallInv(t)'
    BY <1>0, <2>1, <2>2 DEF InstallInv, Committing, Wrote
  <2>4. ReadsInv(t)'
    BY <1>0, <2>1 DEF ReadsInv, Committing
  <2>5. QED
    BY <2>1, <2>3, <2>4
<1>2. ASSUME NEW x \in Objects, InstallPush(t, x)
      PROVE  InstallInv(t)' /\ ReadsInv(t)' /\ UNCHANGED written
  <2>1. /\ pc[t] = "install" /\ UNCHANGED <<pc, at, has_write, tags, vers, reads, written, seen>>
        /\ todo'[t] = todo[t] \ {x} /\ x \in Buckets
    BY <1>0, <1>2 DEF InstallPush, Visited, Visit, tagVars, historyVars
  <2>2. InstallInv(t)'
    BY <1>0, <2>1 DEF InstallInv, Wrote
  <2>3. QED
    BY <1>0, <2>1, <2>2, ReadsInvKept
<1>3. CASE SetVersion(t) /\ Visited(t, at[t]) /\ Goto(t, "install")
  <2>1. /\ pc[t] = "set_version" /\ pc'[t] = "install" /\ todo'[t] = todo[t] \ {at[t]}
        /\ UNCHANGED <<at, has_write, tags, vers, reads, written, seen>>
    BY <1>0, <1>3 DEF SetVersion, Visited, Visit, Goto, tagVars, historyVars
  <2>2. Wrote(t, at[t])
    <3>1. /\ at[t] \in Objects /\ t # 0
          /\ ValueAt(written[at[t]], Len(written[at[t]])) = t
      BY <1>0, <2>1, TidsAssumption DEF ValuesInv, RoundInv
    <3>2. written[at[t]] \in Seq(Tids)
      BY <1>0
    <3>3. IsValue(written[at[t]], t)
      BY <1>0, <3>1, <3>2, LastPlace DEF ValuesInv
    <3>4. QED
      BY <3>1, <3>3 DEF IsValue, Wrote
  <2>3. InstallInv(t)'
    BY <1>0, <2>1, <2>2 DEF InstallInv, Committing, Wrote
  <2>4. QED
    BY <1>0, <2>1, <2>3, ReadsInvKept DEF Committing
<1>4. CASE EndInstall(t)
  <2>1. /\ pc[t] = "install" /\ pc'[t] = "commit" /\ todo[t] = {}
        /\ UNCHANGED <<at, todo, has_write, tags, vers, reads, written, seen>>
    BY <1>0, <1>4 DEF EndInstall, Goto, tagVars, historyVars
  <2>2. InstallInv(t)'
    BY <1>0, <2>1 DEF InstallInv, Committing, Wrote
  <2>3. QED
    BY <1>0, <2>1, <2>2, ReadsInvKept DEF Committing
<1>5. QED
  BY <1>1, <1>2, <1>3, <1>4 DEF Install

\* The end of a round.
LEMMA CleanUpHistory ==
  ASSUME TagsInv, ProgramInv, HistoryInv, NEW t \in Tids, CleanUp(t) \/ EndCleanUp(t)
  PROVE  InstallInv(t)' /\ ReadsInv(t)' /\ UNCHANGED written
<1>0. /\ pc \in [Tids -> Labels] /\ todo \in [Tids -> SUBSET Objects] /\ at \in [Tids -> Objects]
      /\ tags \in [Tids -> SUBSET Objects] /\ has_write \in [Tids -> SUBSET Objects]
      /\ vers \in [Tids -> [Objects -> Values]] /\ DOMAIN reads = Tids
      /\ InstallInv(t) /\ ReadsInv(t)
  BY DEF TagsInv, OccTypeOK, HistoryInv
<1>1. CASE CleanUp(t)
  <2>1. /\ pc[t] \in {"commit", "abort"}
        /\ UNCHANGED <<pc, at, todo, has_write, tags, vers, reads, written, seen>>
    BY <1>1 DEF CleanUp, UnlockTag, historyVars
  <2>2. QED
    BY <1>0, <2>1, InstallReadsUnchanged
<1>2. CASE EndCleanUp(t)
  <2>1. /\ \/ pc[t] = "commit" /\ pc'[t] = "done"
           \/ pc[t] = "abort" /\ pc'[t] = "run"
        /\ UNCHANGED <<at, written, seen>> /\ todo'[t] = {} /\ has_write'[t] = {}
        /\ vers'[t] = [x \in Objects |-> 0] /\ reads'[t] = {}
    BY <1>0, <1>2 DEF EndCleanUp, CleanedUp, Goto, Visit
  <2>2. InstallInv(t)'
    BY <1>0, <2>1 DEF InstallInv, Committing, Wrote
  <2>3. ReadsInv(t)'
    BY <1>0, <2>1 DEF ReadsInv, Committing, IsValue
  <2>4. QED
    BY <2>1, <2>2, <2>3
<1>3. QED
  BY <1>1, <1>2

\* Every step keeps it: the step that writes an object, and all others.
LEMMA StepHistoryInv ==
  ASSUME TagsInv, ProgramInv, HistoryInv, NEW t \in Tids, Step(t)
  PROVE  HistoryInv'
<1>0. /\ pc \in [Tids -> Labels] /\ TagStep(t)
      /\ tags \in [Tids -> SUBSET Objects]
      /\ \A u \in Tids : InstallInv(u) /\ ReadsInv(u)
      /\ \A x \in Objects : ValuesInv(x)
  BY StepIsTagStep DEF TagsInv, OccTypeOK, HistoryInv
<1>1. CASE \E x \in Objects : InstallData(t, x)
  BY <1>1, InstallDataHistory
<1>2. CASE ~\E x \in Objects : InstallData(t, x)
  <2>1. InstallInv(t)' /\ ReadsInv(t)' /\ UNCHANGED written
    <3>1. CASE ReadOp(t)
      BY <3>1, ReadHistory DEF ReadOp, ReadVersion, ReadData, historyVars
    <3>2. CASE WriteOp(t) \/ LookUpOp(t) \/ FindOp(t)
      <4>1. /\ pc[t] = "run" /\ UNCHANGED <<pc, vers, reads, seen, written>>
            /\ tags[t] \subseteq tags'[t]
        BY <1>0, <3>2 DEF WriteOp, LookUpOp, FindOp, BufferWrite, Running, occVars, tagVars,
             historyVars
      <4>2. QED
        BY <1>0, <4>1, InstallInvEarly, ReadsInvKept DEF Committing
    <3>3. CASE TryCommit(t) \/ Validate(t)
      <4>1. /\ pc[t] \in {"run", "lock", "check", "check_version"}
            /\ pc'[t] \in {"lock", "check", "check_version", "abort"}
            /\ UNCHANGED <<tags, vers, reads, seen, written>>
        <5>1. CASE TryCommit(t)
          BY <1>0, <5>1 DEF TryCommit, BeginLock, Goto, tagVars, historyVars
        <5>2. CASE \E x \in Objects : LockTag(t, x) \/ CheckOwner(t, x)
          BY <1>0, <5>2 DEF LockTag, CheckOwner, Goto, tagVars, historyVars
        <5>3. CASE BeginCheck(t) \/ CheckVersion(t)
          BY <1>0, <5>3 DEF BeginCheck, CheckVersion, Goto, tagVars, historyVars
        <5>4. QED
          BY <3>3, <5>1, <5>2, <5>3 DEF Validate
      <4>2. QED
        BY <1>0, <4>1, InstallInvEarly, ReadsInvKept DEF Committing
    <3>4. QED
      BY <1>2, <3>1, <3>2, <3>3, CommitHistory, CleanUpHistory DEF Step
  <2>2. ASSUME NEW x \in Objects PROVE ValuesInv(x)'
    <3>1. CASE SetVersion(t)
      <4>1. /\ data[at[t]] = t /\ UNCHANGED <<data, written>>
            /\ last_writer' = [last_writer EXCEPT ![at[t]] = t]
        BY <3>1 DEF SetVersion, TagsInv, RoundInv, historyVars
      <4>2. DOMAIN last_writer = Objects
        BY DEF TagsInv, OccTypeOK
      <4>3. QED
        BY <1>0, <4>1, <4>2 DEF ValuesInv
    <3>2. CASE ~SetVersion(t)
      <4>1. UNCHANGED <<data, last_writer>>
        BY <1>0, <1>2, <3>2 DEF TagStep, ReadVersion, ReadData, BufferWrite, BeginLock, LockTag,
             BeginCheck, CheckOwner, CheckVersion, CommitRound, InstallPush, UnlockTag, CleanedUp,
             MoveOn, occVars, objectVars
      <4>2. QED
        BY <1>0, <2>1, <4>1 DEF ValuesInv
    <3>3. QED
      BY <3>1, <3>2
  <2>3. ASSUME NEW u \in Tids \ {t} PROVE InstallInv(u)' /\ ReadsInv(u)'
    BY <1>0, <2>1, OthersUnchanged, InstallReadsUnchanged
  <2>4. QED
    BY <2>1, <2>2, <2>3 DEF HistoryInv
<1>3. QED
  BY <1>1, <1>2

-----------------------------------------------------------------------------

\* Where t has a place in the serial order.
Placed == {"check", "check_version"} \cup Committing

\* x is not, and has not been, for t to write.
Unwritten(t, x) == x \notin has_write[t] /\ ~Wrote(t, x)

\* t has found x unlocked by others since it has its place.
Passed(t, x) ==
  \/ /\ pc[t] \in {"check", "check_version"}
     /\ \/ x \in (tags[t] \ has_write[t]) \ todo[t]
        \/ pc[t] = "check_version" /\ x = at[t]
  \/ /\ pc[t] \in Committing
     /\ \E r \in seen[t] : r[1] = x
     /\ Unwritten(t, x)

\* Who comes after place p of x comes after t.
After(ord, t, x, p) == \A j \in DOMAIN written[x] : p < j => ord[t] < ord[written[x][j]]

\* The writers of an object are in serial order.
WriteOrder(ord) ==
  \A x \in Objects : \A i, j \in DOMAIN written[x] :
    i < j => ord[written[x][i]] < ord[written[x][j]]

\* t comes after those whose values it has locked,
LockOrder(ord, t) ==
  pc[t] \in Placed =>
    \A x \in is_lock[t] : \A i \in DOMAIN written[x] :
      written[x][i] # t => ord[written[x][i]] < ord[t]

\* after those whose values it has read,
ReadOrder(ord, t) ==
  pc[t] \in Placed => \A r \in reads[t] \cup seen[t] : r[2] # 0 => ord[r[2]] < ord[t]

\* before those who lock what it has checked,
PassedOrder(ord, t, u) ==
  pc[u] \in Placed => \A x \in is_lock[u] : Passed(t, x) => ord[t] < ord[u]

\* and before those who overwrite what it has checked,
CheckedOrder(ord, t) ==
  pc[t] \in {"check", "check_version"} =>
    \A x \in (tags[t] \ has_write[t]) \ todo[t] :
      After(ord, t, x, PlaceIn(written[x], vers[t][x]))

\* that is, the last value it has read.
SeenOrder(ord, t) ==
  pc[t] \in Committing =>
    \A r \in seen[t] : Unwritten(t, r[1]) =>
      \E q \in seen[t] : q[1] = r[1] /\ After(ord, t, r[1], PlaceIn(written[r[1]], q[2]))

\* The places given so far, all below n, are a serial order.
Order(ord, n) ==
  /\ \A t \in Tids : ord[t] < n
  /\ WriteOrder(ord)
  /\ \A t \in Tids :
       LockOrder(ord, t) /\ ReadOrder(ord, t) /\ CheckedOrder(ord, t) /\ SeenOrder(ord, t)
  /\ \A t, u \in Tids : t # u => PassedOrder(ord, t, u)

\* Each transaction has its place in the serial order from when it has locked
\* all it writes and begins to check what it has read.
SerialInv == \E ord \in [Tids -> Nat], n \in Nat : Order(ord, n)

\* Nobody has a place at first.
LEMMA InitSerialInv == Init => SerialInv
<1> SUFFICES ASSUME Init PROVE SerialInv
  OBVIOUS
<1> DEFINE ord == [t \in Tids |-> 0]
<1>1. Order(ord, 1)
  BY DEF Init, OccInit, Order, WriteOrder, LockOrder, ReadOrder, PassedOrder, CheckedOrder,
     SeenOrder, Passed, Committing
<1>2. ord \in [Tids -> Nat] /\ 1 \in Nat
  OBVIOUS
<1>3. QED
  BY <1>1, <1>2 DEF SerialInv

\* A step that writes no object can only disturb what is said of its own
\* transaction.
LEMMA OrderFrame ==
  ASSUME TagsInv, NEW t \in Tids, TagStep(t), UNCHANGED written,
         NEW ord \in [Tids -> Nat], NEW n \in Nat, Order(ord, n),
         LockOrder(ord, t)', ReadOrder(ord, t)', CheckedOrder(ord, t)', SeenOrder(ord, t)',
         \A u \in Tids \ {t} : PassedOrder(ord, t, u)' /\ PassedOrder(ord, u, t)'
  PROVE  Order(ord, n)'
<1>1. WriteOrder(ord)'
  BY DEF Order, WriteOrder
<1>2. ASSUME NEW u \in Tids \ {t}
      PROVE  LockOrder(ord, u)' /\ ReadOrder(ord, u)' /\ CheckedOrder(ord, u)' /\ SeenOrder(ord, u)'
  BY <1>2, OthersUnchanged
     DEF Order, LockOrder, ReadOrder, CheckedOrder, SeenOrder, After, Unwritten, Wrote
<1>3. ASSUME NEW u \in Tids \ {t}, NEW v \in Tids \ {t}, u # v PROVE PassedOrder(ord, u, v)'
  <2>1. PassedOrder(ord, u, v)
    BY <1>3 DEF Order
  <2>2. \A x : Passed(u, x)' <=> Passed(u, x)
    BY <1>3, OthersUnchanged DEF Passed, Unwritten, Wrote
  <2>3. pc'[v] = pc[v] /\ is_lock'[v] = is_lock[v]
    BY <1>3, OthersUnchanged
  <2>4. QED
    BY <2>1, <2>2, <2>3 DEF PassedOrder
<1>4. QED
  BY <1>1, <1>2, <1>3 DEF Order

\* Outside of its check and its commit a transaction has no place.
LEMMA UnplacedOrder ==
  ASSUME TagsInv, NEW t \in Tids, TagStep(t), UNCHANGED written, pc'[t] \notin Placed,
         NEW ord \in [Tids -> Nat], NEW n \in Nat, Order(ord, n)
  PROVE  Order(ord, n)'
<1>1. LockOrder(ord, t)' /\ ReadOrder(ord, t)' /\ CheckedOrder(ord, t)' /\ SeenOrder(ord, t)'
  BY DEF LockOrder, ReadOrder, CheckedOrder, SeenOrder, Placed
<1>2. \A u \in Tids : PassedOrder(ord, t, u)' /\ PassedOrder(ord, u, t)'
  BY DEF PassedOrder, Passed, Placed
<1>3. QED
  BY <1>1, <1>2, OrderFrame

\* Within its commit a transaction keeps its place, locks and sees nothing new.
LEMMA CommittingOrder ==
  ASSUME TagsInv, NEW t \in Tids, TagStep(t), UNCHANGED written,
         pc[t] \in Committing, pc'[t] \in Committing,
         is_lock'[t] \subseteq is_lock[t], reads'[t] \subseteq reads[t], seen'[t] = seen[t],
         \A r \in seen[t] : Unwritten(t, r[1])' => Unwritten(t, r[1]),
         NEW ord \in [Tids -> Nat], NEW n \in Nat, Order(ord, n)
  PROVE  Order(ord, n)'
<1>1. pc[t] \in Placed /\ pc'[t] \notin {"check", "check_version"}
  BY DEF Placed, Committing
<1>2. LockOrder(ord, t)' /\ ReadOrder(ord, t)' /\ CheckedOrder(ord, t)' /\ SeenOrder(ord, t)'
  BY <1>1 DEF Order, LockOrder, ReadOrder, CheckedOrder, SeenOrder, After
<1>3. \A x : Passed(t, x)' => Passed(t, x)
  BY <1>1 DEF Passed
<1>4. ASSUME NEW u \in Tids \ {t} PROVE PassedOrder(ord, t, u)' /\ PassedOrder(ord, u, t)'
  <2>1. PassedOrder(ord, t, u) /\ PassedOrder(ord, u, t)
    BY DEF Order
  <2>2. pc'[u] = pc[u] /\ is_lock'[u] = is_lock[u]
    BY OthersUnchanged
  <2>3. \A x : Passed(u, x)' <=> Passed(u, x)
    BY OthersUnchanged DEF Passed, Unwritten, Wrote
  <2>4. QED
    BY <1>1, <1>3, <2>1, <2>2, <2>3 DEF PassedOrder
<1>5. QED
  BY <1>2, <1>4, OrderFrame

\* Who has written is committing; what is read, the first value or one of a
\* transaction that has written.
LEMMA Writers ==
  ASSUME TagsInv, HistoryInv
  PROVE  /\ \A x \in Objects : \A i \in DOMAIN written[x] :
              written[x][i] \in Tids /\ pc[written[x][i]] \in Committing
         /\ \A t \in Tids : \A r \in reads[t] \cup seen[t] :
              r[2] # 0 => r[2] \in Tids /\ pc[r[2]] \in Committing
<1>1. \A x \in Objects : \A i \in DOMAIN written[x] :
        written[x][i] \in Tids /\ Wrote(written[x][i], x)
  BY DEF TagsInv, OccTypeOK, Wrote
<1>2. \A x \in Objects : \A i \in DOMAIN written[x] :
        written[x][i] \in Tids /\ pc[written[x][i]] \in Committing
  BY <1>1 DEF HistoryInv, InstallInv
<1>3. QED
  BY <1>2 DEF HistoryInv, ReadsInv, IsValue

\* t gets its place: after all that have one.
LEMMA BeginCheckOrder ==
  ASSUME TagsInv, HistoryInv, NEW t \in Tids, BeginCheck(t), TagStep(t),
         NEW ord \in [Tids -> Nat], NEW n \in Nat, Order(ord, n)
  PROVE  SerialInv'
<1> DEFINE new == [ord EXCEPT ![t] = n]
<1>1. /\ pc[t] = "lock" /\ pc'[t] = "check" /\ todo'[t] = tags[t] \ has_write[t]
      /\ UNCHANGED <<tags, has_write, is_lock, vers, reads, seen, written>>
  BY DEF BeginCheck, Goto, Visit, tagVars, historyVars, TagsInv, OccTypeOK
<1>2. /\ new \in [Tids -> Nat] /\ n + 1 \in Nat /\ new[t] = n
      /\ \A u \in Tids \ {t} : new[u] = ord[u]
      /\ \A u \in Tids : new[u] < n + 1 /\ ord[u] < n
  BY DEF Order
<1> HIDE DEF new
<1>3. pc[t] \notin Committing
  BY <1>1 DEF Committing
<1>4. \A x \in Objects : \A i \in DOMAIN written[x] :
        /\ written[x][i] \in Tids \ {t}
        /\ new[written[x][i]] = ord[written[x][i]]
        /\ new[written[x][i]] < n
  BY <1>2, <1>3, Writers
<1>5. \A u \in Tids : \A r \in reads[u] \cup seen[u] : r[2] # 0 =>
        r[2] \in Tids \ {t} /\ new[r[2]] = ord[r[2]] /\ new[r[2]] < n
  BY <1>2, <1>3, Writers
<1>6. \A u \in Tids : is_lock[u] \subseteq Objects /\ tags[u] \subseteq Objects
        /\ \A r \in seen[u] : r[1] \in Objects
  BY DEF TagsInv, OccTypeOK, HistoryInv, ReadsInv
<1>7. WriteOrder(new)'
  BY <1>1, <1>4 DEF Order, WriteOrder
<1>8. LockOrder(new, t)' /\ ReadOrder(new, t)' /\ CheckedOrder(new, t)' /\ SeenOrder(new, t)'
  BY <1>1, <1>2, <1>4, <1>5, <1>6 DEF LockOrder, ReadOrder, CheckedOrder, SeenOrder, Committing
<1>9. ASSUME NEW u \in Tids \ {t}
      PROVE  LockOrder(new, u)' /\ ReadOrder(new, u)' /\ CheckedOrder(new, u)' /\ SeenOrder(new, u)'
  <2>1. LockOrder(ord, u) /\ ReadOrder(ord, u) /\ CheckedOrder(ord, u) /\ SeenOrder(ord, u)
    BY DEF Order
  <2>2. pc'[u] = pc[u] /\ todo'[u] = todo[u] /\ new[u] = ord[u]
    BY <1>2, OthersUnchanged
  <2>3. \A x \in Objects : \A p : After(ord, u, x, p) => After(new, u, x, p)'
    BY <1>1, <1>4, <2>2 DEF After
  <2>4. LockOrder(new, u)' /\ ReadOrder(new, u)'
    BY <1>1, <1>4, <1>5, <1>6, <2>1, <2>2 DEF LockOrder, ReadOrder
  <2>5. CheckedOrder(new, u)'
    BY <1>1, <1>6, <2>1, <2>2, <2>3 DEF CheckedOrder
  <2>6. \A x : Unwritten(u, x)' <=> Unwritten(u, x)
    BY <1>1 DEF Unwritten, Wrote
  <2>7. SeenOrder(new, u)'
    BY <1>1, <1>6, <2>1, <2>2, <2>3, <2>6 DEF SeenOrder
  <2>8. QED
    BY <2>4, <2>5, <2>7
<1>10. ASSUME NEW u \in Tids, NEW v \in Tids, u # v PROVE PassedOrder(new, u, v)'
  <2>1. CASE u = t
    \* nothing is checked yet
    BY <1>1, <2>1 DEF PassedOrder, Passed, Committing
  <2>2. CASE v = t
    <3>1. new[u] < new[t]
      BY <1>2, <1>10, <2>2
    <3>2. QED
      BY <2>2, <3>1 DEF PassedOrder
  <2>3. CASE u # t /\ v # t
    <3>1. PassedOrder(ord, u, v) /\ new[u] = ord[u] /\ new[v] = ord[v]
      BY <1>2, <1>10, <2>3 DEF Order
    <3>2. \A x : Passed(u, x)' <=> Passed(u, x)
      BY <1>1, <2>3, OthersUnchanged DEF Passed, Unwritten, Wrote
    <3>3. pc'[v] = pc[v] /\ is_lock'[v] = is_lock[v]
      BY <2>3, OthersUnchanged
    <3>4. QED
      BY <3>1, <3>2, <3>3 DEF PassedOrder
  <2>4. QED
    BY <2>1, <2>2, <2>3
<1>11. Order(new, n + 1)'
  BY <1>2, <1>7, <1>8, <1>9, <1>10 DEF Order
<1>12. QED
  BY <1>2, <1>11 DEF SerialInv

\* An object that is not locked by another one has been passed.
LEMMA CheckOwnerOrder ==
  ASSUME TagsInv, HistoryInv, NEW t \in Tids, NEW x \in Objects, CheckOwner(t, x), TagStep(t),
         lock_owner[x] \in {0, t},
         NEW ord \in [Tids -> Nat], NEW n \in Nat, Order(ord, n)
  PROVE  Order(ord, n)'
<1>1. /\ pc[t] = "check" /\ pc'[t] = "check_version" /\ at'[t] = x
      /\ UNCHANGED <<tags, has_write, todo, is_lock, vers, reads, seen, written>>
  BY DEF CheckOwner, Goto, tagVars, historyVars, TagsInv, OccTypeOK
<1>2. pc[t] \in Placed /\ pc'[t] \in Placed /\ pc'[t] \notin Committing
  BY <1>1 DEF Placed, Committing
<1>3. LockOrder(ord, t)' /\ ReadOrder(ord, t)' /\ CheckedOrder(ord, t)' /\ SeenOrder(ord, t)'
  BY <1>1, <1>2 DEF Order, LockOrder, ReadOrder, CheckedOrder, SeenOrder, After
<1>4. ASSUME NEW u \in Tids \ {t} PROVE PassedOrder(ord, t, u)' /\ PassedOrder(ord, u, t)'
  <2>1. PassedOrder(ord, t, u) /\ PassedOrder(ord, u, t)
    BY DEF Order
  <2>2. \A y : Passed(u, y)' <=> Passed(u, y)
    BY <1>1, OthersUnchanged DEF Passed, Unwritten, Wrote
  <2>3. pc'[u] = pc[u]
    BY OthersUnchanged
  <2>4. \A y : Passed(t, y)' => Passed(t, y) \/ y = x
    BY <1>1, <1>2 DEF Passed
  <2>5. x \notin is_lock[u]
    BY TidsAssumption DEF TagsInv, LocksOwned
  <2>6. QED
    BY <1>1, <1>2, <2>1, <2>2, <2>3, <2>4, <2>5 DEF PassedOrder
<1>5. QED
  BY <1>1, <1>3, <1>4, OrderFrame

\* The place of the k-th value.
LEMMA PlaceOfValueAt ==
  ASSUME NEW s \in Seq(Tids), Distinct(s), NEW k \in 0..Len(s)
  PROVE  PlaceIn(s, ValueAt(s, k)) = k
<1>1. CASE k = 0
  BY <1>1 DEF PlaceIn, ValueAt
<1>2. CASE k # 0
  BY <1>2, PlaceInIs DEF ValueAt
<1>3. QED
  BY <1>1, <1>2

\* A version that is as it was read: who has overwritten it or is about to
\* comes later.
LEMMA CheckVersionOrder ==
  ASSUME TagsInv, HistoryInv, NEW t \in Tids, CheckVersion(t), TagStep(t),
         last_writer[at[t]] = vers[t][at[t]],
         NEW ord \in [Tids -> Nat], NEW n \in Nat, Order(ord, n)
  PROVE  Order(ord, n)'
<1> DEFINE x == at[t]
<1>1. /\ pc[t] = "check_version" /\ pc'[t] = "check" /\ todo'[t] = todo[t] \ {at[t]}
      /\ UNCHANGED <<at, tags, has_write, is_lock, vers, reads, seen, written>>
      /\ at[t] \in Objects
  BY DEF CheckVersion, Goto, Visited, Visit, tagVars, historyVars, TagsInv, OccTypeOK
<1>2. pc[t] \in Placed /\ pc'[t] \in Placed /\ pc'[t] \notin Committing
  BY <1>1 DEF Placed, Committing
<1>3. After(ord, t, x, PlaceIn(written[x], vers[t][x]))
  <2>1. written[x] \in Seq(Tids) /\ Distinct(written[x]) /\ ValuesInv(x)
    BY <1>1 DEF TagsInv, OccTypeOK, HistoryInv, ValuesInv
  <2>2. CASE data[x] = last_writer[x]
    <3>1. PlaceIn(written[x], vers[t][x]) = Len(written[x])
      BY <2>1, <2>2, LastPlace DEF ValuesInv
    <3>2. QED
      BY <2>1, <3>1 DEF After
  <2>3. CASE data[x] # last_writer[x]
    <3>1. PICK k \in Nat : k = Len(written[x])
      BY <2>1
    <3>2. k # 0 /\ DOMAIN written[x] = 1..k
      BY <2>1, <2>3, <3>1 DEF ValuesInv
    <3>3. PlaceIn(written[x], vers[t][x]) = k - 1
      BY <2>1, <2>3, <3>1, <3>2, PlaceOfValueAt DEF ValuesInv
    <3>4. written[x][k] = data[x]
      BY <2>1, <3>1, <3>2 DEF ValuesInv, ValueAt
    <3>5. data[x] \in Tids /\ pc[data[x]] = "set_version" /\ x \in is_lock[data[x]]
      BY <1>1, <2>3 DEF TagsInv, VersionPending, RoundInv, AllLocked
    <3>6. Passed(t, x)
      BY <1>1 DEF Passed
    <3>7. ord[t] < ord[data[x]]
      BY <1>1, <3>5, <3>6 DEF Order, PassedOrder, Placed, Committing
    <3>8. QED
      BY <3>2, <3>3, <3>4, <3>7 DEF After
  <2>4. QED
    BY <2>2, <2>3
<1>4. LockOrder(ord, t)' /\ ReadOrder(ord, t)' /\ SeenOrder(ord, t)'
  BY <1>1, <1>2 DEF Order, LockOrder, ReadOrder, SeenOrder
<1>5. CheckedOrder(ord, t)'
  <2>1. CheckedOrder(ord, t)
    BY DEF Order
  <2>2. \A y \in (tags[t] \ has_write[t]) \ todo'[t] :
          y = x \/ y \in (tags[t] \ has_write[t]) \ todo[t]
    BY <1>1
  <2>3. \A y \in (tags[t] \ has_write[t]) \ todo'[t] :
          After(ord, t, y, PlaceIn(written[y], vers[t][y]))
    BY <1>1, <1>3, <2>1, <2>2 DEF CheckedOrder
  <2>4. QED
    BY <1>1, <2>3 DEF CheckedOrder, After
<1>6. ASSUME NEW u \in Tids \ {t} PROVE PassedOrder(ord, t, u)' /\ PassedOrder(ord, u, t)'
  <2>1. PassedOrder(ord, t, u) /\ PassedOrder(ord, u, t)
    BY DEF Order
  <2>2. \A y : Passed(u, y)' <=> Passed(u, y)
    BY <1>1, OthersUnchanged DEF Passed, Unwritten, Wrote
  <2>3. pc'[u] = pc[u]
    BY OthersUnchanged
  <2>4. \A y : Passed(t, y)' => Passed(t, y)
    BY <1>1, <1>2 DEF Passed
  <2>5. QED
    BY <1>1, <1>2, <2>1, <2>2, <2>3, <2>4 DEF PassedOrder
<1>7. QED
  BY <1>1, <1>4, <1>5, <1>6, OrderFrame

\* The reads that have been checked become those of a committed transaction.
LEMMA CommitOrder ==
  ASSUME TagsInv, HistoryInv, NEW t \in Tids, CommitRound(t, "install", has_write[t]), TagStep(t),
         NEW ord \in [Tids -> Nat], NEW n \in Nat, Order(ord, n)
  PROVE  Order(ord, n)'
<1>1. /\ pc[t] = "check" /\ pc'[t] = "install" /\ todo[t] = {}
      /\ UNCHANGED <<tags, has_write, is_lock, vers, reads, written>>
      /\ seen'[t] = seen[t] \cup reads[t]
      /\ written \in [Objects -> Seq(Tids)]
  BY DEF CommitRound, Checked, Goto, Visit, tagVars, TagsInv, OccTypeOK
<1>2. /\ pc[t] \in Placed /\ pc'[t] \in Placed
      /\ pc[t] \notin Committing
      /\ pc'[t] \in Committing /\ pc'[t] \notin {"check", "check_version"}
  BY <1>1 DEF Placed, Committing
<1>3. ReadsInv(t)
  BY DEF HistoryInv
<1>4. seen[t] = {} /\ seen'[t] = reads[t]
  BY <1>1, <1>2, <1>3 DEF ReadsInv
<1>5. LockOrder(ord, t)' /\ ReadOrder(ord, t)' /\ CheckedOrder(ord, t)'
  BY <1>1, <1>2, <1>4 DEF Order, LockOrder, ReadOrder, CheckedOrder
<1>6. \A r \in reads[t] : r[1] \notin has_write[t] => r[1] \in (tags[t] \ has_write[t]) \ todo[t]
  BY <1>1, <1>3 DEF ReadsInv
<1>7. SeenOrder(ord, t)'
  <2>1. ASSUME NEW r \in reads[t], r[1] \notin has_write[t]
        PROVE  \E q \in reads[t] :
                 q[1] = r[1] /\ After(ord, t, r[1], PlaceIn(written[r[1]], q[2]))
    <3>1. After(ord, t, r[1], PlaceIn(written[r[1]], vers[t][r[1]]))
      BY <1>1, <1>6, <2>1 DEF Order, CheckedOrder
    <3>2. r[1] \in Objects /\ IsValue(written[r[1]], vers[t][r[1]])
      BY <1>3 DEF ReadsInv
    <3>3. PICK q \in reads[t] :
             q[1] = r[1] /\ PlaceIn(written[r[1]], vers[t][r[1]]) <= PlaceIn(written[r[1]], q[2])
      BY <1>1, <1>3 DEF ReadsInv
    <3>4. IsValue(written[r[1]], q[2])
      BY <1>3, <3>3 DEF ReadsInv
    <3>5. /\ PlaceIn(written[r[1]], vers[t][r[1]]) \in Nat /\ PlaceIn(written[r[1]], q[2]) \in Nat
          /\ DOMAIN written[r[1]] \subseteq Nat
      BY <1>1, <3>2, <3>4, PlaceInType
    <3>6. After(ord, t, r[1], PlaceIn(written[r[1]], q[2]))
      BY <3>1, <3>3, <3>5 DEF After
    <3>7. QED
      BY <3>3, <3>6
  <2>2. QED
    BY <1>1, <1>4, <2>1 DEF SeenOrder, Unwritten, After
<1>8. ASSUME NEW u \in Tids \ {t} PROVE PassedOrder(ord, t, u)' /\ PassedOrder(ord, u, t)'
  <2>1. PassedOrder(ord, t, u) /\ PassedOrder(ord, u, t)
    BY DEF Order
  <2>2. \A y : Passed(u, y)' <=> Passed(u, y)
    BY <1>1, OthersUnchanged DEF Passed, Unwritten, Wrote
  <2>3. pc'[u] = pc[u]
    BY OthersUnchanged
  <2>4. \A y : Passed(t, y)' => Passed(t, y)
    BY <1>1, <1>2, <1>4, <1>6 DEF Passed, Unwritten
  <2>5. QED
    BY <1>1, <1>2, <2>1, <2>2, <2>3, <2>4 DEF PassedOrder
<1>9. QED
  BY <1>1, <1>5, <1>7, <1>8, OrderFrame

\* What t installs comes after all that has a place before t: who has written,
\* or passed, the object comes before its owner.
LEMMA InstallDataOrder ==
  ASSUME TagsInv, HistoryInv, NEW t \in Tids, NEW x \in Objects, InstallData(t, x), TagStep(t),
         NEW ord \in [Tids -> Nat], NEW n \in Nat, Order(ord, n)
  PROVE  Order(ord, n)'
<1>1. /\ pc[t] = "install" /\ pc'[t] = "set_version"
      /\ UNCHANGED <<tags, has_write, is_lock, todo, vers, reads, seen>>
      /\ written \in [Objects -> Seq(Tids)] /\ x \in is_lock[t]
      /\ \A u \in Tids \ {t} : x \notin is_lock[u]
      /\ \A u \in Tids : is_lock[u] \subseteq Objects /\ tags[u] \subseteq Objects
  BY DEF InstallData, Goto, tagVars, TagsInv, OccTypeOK, RoundInv, AllLocked, LocksOwned
<1>2. /\ pc[t] \in Placed /\ pc'[t] \in Placed /\ pc[t] \in Committing /\ pc'[t] \in Committing
      /\ pc[t] \notin {"check", "check_version"} /\ pc'[t] \notin {"check", "check_version"}
  BY <1>1 DEF Placed, Committing
<1>3. /\ \A i \in DOMAIN written[x] : written[x][i] # t
      /\ written' = [written EXCEPT ![x] = Append(written[x], t)]
      /\ \A y \in Objects : \A v : IsValue(written[y], v) =>
           PlaceIn(written'[y], v) = PlaceIn(written[y], v)
      /\ \A y \in Objects, u \in Tids : Wrote(u, y)' <=> Wrote(u, y) \/ (u = t /\ y = x)
  BY InstallDataHistory
<1> DEFINE k == Len(written[x]) + 1
<1>4. /\ \A y \in Objects \ {x} : written'[y] = written[y]
      /\ written[x] \in Seq(Tids) /\ k \in Nat
      /\ DOMAIN written'[x] = DOMAIN written[x] \cup {k}
      /\ written'[x][k] = t
      /\ \A i \in DOMAIN written[x] : i < k /\ i \in Nat /\ written'[x][i] = written[x][i]
  BY <1>1, <1>3
<1> HIDE DEF k
<1>5. \A i \in DOMAIN written[x] : ord[written[x][i]] < ord[t]
  BY <1>1, <1>2, <1>3 DEF Order, LockOrder
<1>6. WriteOrder(ord)'
  <2>1. WriteOrder(ord)
    BY DEF Order
  <2>2. ASSUME NEW i \in DOMAIN written'[x], NEW j \in DOMAIN written'[x], i < j
        PROVE  ord[written'[x][i]] < ord[written'[x][j]]
    <3>1. i \in DOMAIN written[x]
      BY <1>4, <2>2
    <3>2. CASE j = k
      BY <1>4, <1>5, <3>1, <3>2
    <3>3. CASE j # k
      BY <1>4, <2>1, <2>2, <3>1, <3>3 DEF WriteOrder
    <3>4. QED
      BY <3>2, <3>3
  <2>3. QED
    BY <1>4, <2>1, <2>2 DEF WriteOrder
<1>7. ASSUME NEW u \in Tids \ {t} PROVE LockOrder(ord, u)'
  <2>1. LockOrder(ord, u)
    BY DEF Order
  <2>2. pc'[u] = pc[u] /\ is_lock'[u] = is_lock[u]
    BY OthersUnchanged
  <2>3. \A y \in is_lock[u] : written'[y] = written[y]
    BY <1>1, <1>4
  <2>4. QED
    BY <2>1, <2>2, <2>3 DEF LockOrder
<1>8. LockOrder(ord, t)'
  <2>1. LockOrder(ord, t)
    BY DEF Order
  <2>2. \A i \in DOMAIN written'[x] : written'[x][i] # t => ord[written'[x][i]] < ord[t]
    BY <1>4, <1>5
  <2>3. \A y \in is_lock[t] : y # x => written'[y] = written[y]
    BY <1>1, <1>4
  <2>4. QED
    BY <1>1, <1>2, <2>1, <2>2, <2>3 DEF LockOrder
<1>9. ASSUME NEW u \in Tids PROVE ReadOrder(ord, u)'
  BY <1>1, <1>2, OthersUnchanged DEF Order, ReadOrder
<1>10. ASSUME NEW u \in Tids \ {t}, Passed(u, x) PROVE ord[u] < ord[t]
  BY <1>1, <1>2, <1>10 DEF Order, PassedOrder
<1>11. ASSUME NEW u \in Tids, NEW y \in Objects, NEW v, IsValue(written[y], v),
              After(ord, u, y, PlaceIn(written[y], v)), y = x => ord[u] < ord[t]
       PROVE  After(ord, u, y, PlaceIn(written[y], v))'
  <2>1. PlaceIn(written'[y], v) = PlaceIn(written[y], v)
    BY <1>3, <1>11
  <2>2. CASE y = x
    BY <1>4, <1>11, <2>1, <2>2 DEF After
  <2>3. CASE y # x
    BY <1>4, <1>11, <2>1, <2>3 DEF After
  <2>4. QED
    BY <2>2, <2>3
<1>12. ASSUME NEW u \in Tids PROVE CheckedOrder(ord, u)'
  <2>1. SUFFICES ASSUME pc'[u] \in {"check", "check_version"},
                        NEW y \in (tags[u] \ has_write[u]) \ todo[u]
                 PROVE  After(ord, u, y, PlaceIn(written[y], vers[u][y]))'
    BY <1>1 DEF CheckedOrder
  <2>2. u # t /\ pc[u] \in {"check", "check_version"} /\ y \in Objects
    BY <1>1, <1>2, <2>1, OthersUnchanged
  <2>3. After(ord, u, y, PlaceIn(written[y], vers[u][y])) /\ Passed(u, y)
    BY <2>1, <2>2 DEF Order, CheckedOrder, Passed
  <2>4. IsValue(written[y], vers[u][y])
    BY <2>2 DEF HistoryInv, ReadsInv
  <2>5. vers'[u][y] = vers[u][y]
    BY <1>1
  <2>6. QED
    BY <1>10, <1>11, <2>2, <2>3, <2>4, <2>5
<1>13. ASSUME NEW u \in Tids PROVE SeenOrder(ord, u)'
  <2>1. SUFFICES ASSUME pc'[u] \in Committing, NEW r \in seen[u], Unwritten(u, r[1])'
                 PROVE  \E q \in seen[u] :
                          q[1] = r[1] /\ After(ord, u, r[1], PlaceIn(written[r[1]], q[2]))'
    BY <1>1 DEF SeenOrder
  <2>2. pc[u] \in Committing /\ r[1] \in Objects
    BY <1>2, <2>1, OthersUnchanged DEF HistoryInv, ReadsInv
  <2>3. Unwritten(u, r[1]) /\ (r[1] = x => u # t)
    BY <1>1, <1>3, <2>1, <2>2 DEF Unwritten
  <2>4. PICK q \in seen[u] : q[1] = r[1] /\ After(ord, u, r[1], PlaceIn(written[r[1]], q[2]))
    BY <2>1, <2>2, <2>3 DEF Order, SeenOrder
  <2>5. IsValue(written[r[1]], q[2])
    BY <2>4 DEF HistoryInv, ReadsInv
  <2>6. Passed(u, r[1])
    BY <2>1, <2>2, <2>3 DEF Passed
  <2>7. QED
    BY <1>10, <1>11, <2>2, <2>3, <2>4, <2>5, <2>6
<1>14. ASSUME NEW u \in Tids, NEW v \in Tids, u # v PROVE PassedOrder(ord, u, v)'
  <2>1. PassedOrder(ord, u, v)
    BY <1>14 DEF Order
  <2>2. \A y \in Objects : Passed(u, y)' => Passed(u, y)
    BY <1>1, <1>2, <1>3, OthersUnchanged DEF Passed, Unwritten
  <2>3. pc'[v] \in Placed => pc[v] \in Placed
    BY <1>2, OthersUnchanged
  <2>4. QED
    BY <1>1, <2>1, <2>2, <2>3 DEF PassedOrder
<1>15. QED
  BY <1>6, <1>7, <1>8, <1>9, <1>12, <1>13, <1>14 DEF Order

\* Every step keeps the serial order.
LEMMA StepSerialInv ==
  ASSUME TagsInv, ProgramInv, HistoryInv, SerialInv, NEW t \in Tids, Step(t)
  PROVE  SerialInv'
<1>0. /\ TagStep(t) /\ pc \in [Tids -> Labels] /\ has_write \in [Tids -> SUBSET Objects]
      /\ is_lock \in [Tids -> SUBSET Objects] /\ DOMAIN reads = Tids /\ DOMAIN seen = Tids
      /\ todo \in [Tids -> SUBSET Objects]
  BY StepIsTagStep DEF TagsInv, OccTypeOK
<1>1. PICK ord \in [Tids -> Nat], n \in Nat : Order(ord, n)
  BY DEF SerialInv
<1>2. Order(ord, n)' => SerialInv'
  BY DEF SerialInv
<1>3. CASE pc'[t] \notin Placed /\ ~\E x \in Objects : InstallData(t, x)
  <2>1. UNCHANGED written
    BY <1>0, <1>3 DEF TagStep, ReadVersion, ReadData, BufferWrite, BeginLock, LockTag,
       BeginCheck, CheckOwner, CheckVersion, CommitRound, InstallPush, SetVersion, UnlockTag,
       CleanedUp, MoveOn, occVars, objectVars, historyVars
  <2>2. QED
    BY <1>0, <1>1, <1>2, <1>3, <2>1, UnplacedOrder
<1>4. CASE ReadOp(t) \/ WriteOp(t) \/ LookUpOp(t) \/ FindOp(t) \/ TryCommit(t)
  <2>1. pc'[t] \in {"run", "read", "lock", "abort"}
    BY <1>0, <1>4 DEF ReadOp, WriteOp, LookUpOp, FindOp, TryCommit, ReadVersion, ReadData,
       BufferWrite, BeginLock, Running, Goto, occVars
  <2>2. ~\E x \in Objects : InstallData(t, x)
    BY <1>0, <2>1 DEF InstallData, Goto
  <2>3. QED
    BY <1>3, <2>1, <2>2 DEF Placed, Committing
<1>5. CASE Validate(t)
  <2>1. CASE BeginCheck(t)
    BY <1>0, <1>1, <2>1, BeginCheckOrder
  <2>2. ASSUME NEW x \in Objects, LockTag(t, x) PROVE SerialInv'
    <3>1. pc'[t] \in {"lock", "abort"}
      BY <1>0, <2>2 DEF LockTag, Goto
    <3>2. ~\E y \in Objects : InstallData(t, y)
      BY <2>2 DEF LockTag, InstallData
    <3>3. QED
      BY <1>3, <3>1, <3>2 DEF Placed, Committing
  <2>3. ASSUME NEW x \in Objects, CheckOwner(t, x) PROVE SerialInv'
    <3>1. CASE lock_owner[x] \in {0, t}
      BY <1>0, <1>1, <1>2, <2>3, <3>1, CheckOwnerOrder
    <3>2. CASE lock_owner[x] \notin {0, t}
      <4>1. pc'[t] = "abort" /\ ~\E y \in Objects : InstallData(t, y)
        BY <1>0, <2>3, <3>2 DEF CheckOwner, InstallData, Goto
      <4>2. QED
        BY <1>3, <4>1 DEF Placed, Committing
    <3>3. QED
      BY <3>1, <3>2
  <2>4. CASE CheckVersion(t)
    <3>1. CASE last_writer[at[t]] = vers[t][at[t]]
      BY <1>0, <1>1, <1>2, <2>4, <3>1, CheckVersionOrder
    <3>2. CASE last_writer[at[t]] # vers[t][at[t]]
      <4>1. pc'[t] = "abort" /\ ~\E y \in Objects : InstallData(t, y)
        BY <1>0, <2>4, <3>2 DEF CheckVersion, InstallData, Goto
      <4>2. QED
        BY <1>3, <4>1 DEF Placed, Committing
    <3>3. QED
      BY <3>1, <3>2
  <2>5. QED
    BY <1>5, <2>1, <2>2, <2>3, <2>4 DEF Validate
<1>6. CASE Commit(t)
  BY <1>0, <1>1, <1>2, <1>6, CommitOrder DEF Commit
<1>7. CASE Install(t) \/ EndInstall(t)
  <2>1. ASSUME NEW x \in Objects, InstallData(t, x) PROVE SerialInv'
    BY <1>0, <1>1, <1>2, <2>1, InstallDataOrder
  <2>2. CASE ~\E x \in Objects : InstallData(t, x)
    <3>1. /\ pc[t] \in Committing /\ pc'[t] \in Committing
          /\ UNCHANGED <<has_write, is_lock, reads, seen, written>>
      BY <1>0, <1>7, <2>2 DEF Install, EndInstall, InstallPush, SetVersion, Goto, Committing,
         tagVars, historyVars
    <3>2. \A r \in seen[t] : Unwritten(t, r[1])' => Unwritten(t, r[1])
      BY <3>1 DEF Unwritten, Wrote
    <3>3. QED
      BY <1>0, <1>1, <1>2, <3>1, <3>2, CommittingOrder
  <2>3. QED
    BY <2>1, <2>2
<1>8. CASE CleanUp(t) \/ EndCleanUp(t)
  <2>1. CASE pc[t] = "abort"
    <3>1. pc'[t] \in {"abort", "run"} /\ ~\E x \in Objects : InstallData(t, x)
      BY <1>0, <1>8, <2>1 DEF CleanUp, EndCleanUp, UnlockTag, CleanedUp, InstallData, Goto
    <3>2. QED
      BY <1>3, <3>1 DEF Placed, Committing
  <2>2. CASE pc[t] = "commit"
    <3>1. /\ pc'[t] \in {"commit", "done"} /\ UNCHANGED <<seen, written>>
          /\ is_lock'[t] \subseteq is_lock[t] /\ reads'[t] \subseteq reads[t]
      BY <1>0, <1>8, <2>2 DEF CleanUp, EndCleanUp, UnlockTag, CleanedUp, Goto, historyVars
    <3>2. \A r \in seen[t] : r[1] \in Objects \ Buckets
      BY DEF HistoryInv, ReadsInv
    <3>3. \A r \in seen[t] : Unwritten(t, r[1])' => Unwritten(t, r[1])
      <4>1. \A x \in has_write[t] \ Buckets : Wrote(t, x)
        BY <2>2 DEF HistoryInv, InstallInv
      <4>2. \A x : Wrote(t, x)' <=> Wrote(t, x)
        BY <3>1 DEF Wrote
      <4>3. QED
        BY <3>2, <4>1, <4>2 DEF Unwritten
    <3>4. QED
      BY <1>0, <1>1, <1>2, <2>2, <3>1, <3>3, CommittingOrder DEF Committing
  <2>3. QED
    BY <1>8, <2>1, <2>2 DEF CleanUp, EndCleanUp, UnlockTag
<1>9. QED
  BY <1>4, <1>5, <1>6, <1>7, <1>8 DEF Step

-----------------------------------------------------------------------------

\* The inductive invariant.
IInv == TagsInv /\ ProgramInv /\ HistoryInv /\ SerialInv

\* All layers hold at first, and every step keeps them.
LEMMA IInvHolds == Spec => []IInv
<1>1. Init => IInv
  BY InitProgramInv, InitHistoryInv, InitSerialInv DEF IInv
<1>2. IInv /\ [Next]_vars => IInv'
  <2> SUFFICES ASSUME IInv, [Next]_vars PROVE IInv'
    OBVIOUS
  <2>1. ASSUME NEW t \in Tids, Step(t) PROVE IInv'
    BY <2>1, StepProgramInv, StepHistoryInv, StepSerialInv DEF IInv, Next
  <2>2. CASE UNCHANGED vars
    <3>1. TagsInv' /\ ProgramInv'
      BY StepProgramInv DEF IInv
    <3>2. UNCHANGED occVars
      BY <2>2 DEF vars
    <3>3. HistoryInv'
      BY <3>2 DEF IInv, HistoryInv, ValuesInv, InstallInv, ReadsInv, Wrote, occVars, objectVars,
         tagVars, historyVars
    <3>4. \A ord \in [Tids -> Nat], n \in Nat : Order(ord, n) => Order(ord, n)'
      BY <3>2 DEF Order, WriteOrder, LockOrder, ReadOrder, PassedOrder, CheckedOrder, SeenOrder,
         Passed, Unwritten, After, Wrote, occVars, objectVars, tagVars, historyVars
    <3>5. SerialInv'
      BY <3>4 DEF IInv, SerialInv
    <3>6. QED
      BY <3>1, <3>3, <3>5 DEF IInv
  <2>3. QED
    BY <2>1, <2>2 DEF Next, Terminated
<1>3. QED
  BY <1>1, <1>2, PTL DEF Spec

\* Locks, versions, programs and histories keep their types.
THEOREM TypeCorrect == Spec => []TypeOK
<1>1. IInv => TypeOK
  BY DEF IInv, TagsInv, ProgramInv, TxnLabels, TypeOK, OccTypeOK
<1>2. QED
  BY <1>1, IInvHolds, PTL

\* lock_owner_ names the transaction that will unlock the object, for any
\* number of transactions and retries.
THEOREM LocksOwnedHolds == Spec => []LocksOwned
<1>1. IInv => LocksOwned
  BY DEF IInv, TagsInv
<1>2. QED
  BY <1>1, IInvHolds, PTL

\* A value without its version is locked by its writer.
THEOREM VersionMatchesDataHolds == Spec => []VersionMatchesData
<1>1. IInv => VersionMatchesData
  BY TagsInvVersions DEF IInv
<1>2. QED
  BY <1>1, IInvHolds, PTL

\* A write set is installed under all of its locks, and only by an attempt
\* that does not fail.
THEOREM InstallUnderAllLocksHolds == Spec => []InstallUnderAllLocks
<1>1. ASSUME IInv, NEW t \in Tids, pc[t] \in {"install", "set_version"}, NEW x \in has_write[t]
      PROVE  lock_owner[x] = t
  <2>1. x \in is_lock[t] /\ x \in Objects
    BY <1>1 DEF IInv, TagsInv, OccTypeOK, RoundInv, AllLocked
  <2>2. QED
    BY <2>1, <1>1 DEF IInv, TagsInv, LocksOwned
<1>2. ASSUME IInv, NEW t \in Tids, pc[t] \notin Committing, NEW x \in Objects
      PROVE  data[x] # t /\ last_writer[x] # t
  <2>1. /\ ValuesInv(x) /\ ~Wrote(t, x) /\ t # 0 /\ written[x] \in Seq(Tids)
    BY <1>2, TidsAssumption DEF IInv, HistoryInv, InstallInv, TagsInv, OccTypeOK
  <2>2. IsValue(written[x], data[x]) /\ IsValue(written[x], last_writer[x])
    BY <1>2, <2>1, LastPlace, VersionIsValue DEF IInv, ValuesInv
  <2>3. QED
    BY <2>1, <2>2 DEF IsValue, Wrote
<1>3. IInv => InstallUnderAllLocks
  BY <1>1, <1>2 DEF InstallUnderAllLocks, Committing
<1>4. QED
  BY <1>3, IInvHolds, PTL

\* Who precedes another transaction has an earlier place in the serial order.
LEMMA PrecedesOrder ==
  ASSUME IInv, NEW ord \in [Tids -> Nat], NEW n \in Nat, Order(ord, n),
         NEW t \in Tids, NEW u \in Tids, Precedes(t, u, CheckedReads)
  PROVE  ord[t] < ord[u]
<1>1. CASE Overwrites(u, t)
  BY <1>1 DEF Overwrites, Order, WriteOrder
<1>2. ASSUME NEW r \in CheckedReads[u], r[2] = t PROVE ord[t] < ord[u]
  <2>1. r \in seen[u] /\ t # 0
    BY <1>2, TidsAssumption DEF CheckedReads
  <2>2. pc[u] \in Placed
    BY <2>1 DEF IInv, HistoryInv, ReadsInv, Placed
  <2>3. QED
    BY <1>2, <2>1, <2>2 DEF Order, ReadOrder
<1>3. ASSUME NEW r \in CheckedReads[t], NEW j \in DOMAIN written[r[1]],
             Place(r[1], r[2]) < j, written[r[1]][j] = u
      PROVE  ord[t] < ord[u]
  <2>1. /\ r \in seen[t] /\ Unwritten(t, r[1])
        /\ \A q \in seen[t] : q[1] = r[1] => Place(q[1], q[2]) <= Place(r[1], r[2])
    BY <1>3 DEF CheckedReads, Unwritten, Wrote
  <2>2. pc[t] \in Committing
    BY <2>1 DEF IInv, HistoryInv, ReadsInv
  <2>3. PICK q \in seen[t] : q[1] = r[1] /\ After(ord, t, r[1], PlaceIn(written[r[1]], q[2]))
    BY <2>1, <2>2 DEF Order, SeenOrder
  <2>4. /\ IsValue(written[r[1]], q[2]) /\ IsValue(written[r[1]], r[2])
        /\ written[r[1]] \in Seq(Tids)
    BY <2>1, <2>3 DEF IInv, HistoryInv, ReadsInv, TagsInv, OccTypeOK
  <2>5. /\ PlaceIn(written[r[1]], q[2]) \in Nat /\ PlaceIn(written[r[1]], r[2]) \in Nat /\ j \in Nat
    BY <2>4, PlaceInType
  <2>6. PlaceIn(written[r[1]], q[2]) < j
    BY SMTT(30), <1>3, <2>1, <2>3, <2>5 DEF Place, PlaceIn
  <2>7. QED
    BY <1>3, <2>3, <2>6 DEF After
<1>4. QED
  BY <1>1, <1>2, <1>3 DEF Precedes

\* The committed transactions are conflict serializable by their writes and
\* the reads that check looks at: in the order in which their checks began.
THEOREM CheckedReadsSerializableHolds == Spec => []CheckedReadsSerializable
<1>1. IInv => CheckedReadsSerializable
  <2> SUFFICES ASSUME IInv, NEW S \in (SUBSET Tids) \ {{}}
               PROVE  \E t \in S : \A u \in S : ~Precedes(u, t, CheckedReads)
    BY DEF CheckedReadsSerializable, ConflictsAcyclic
  <2>1. PICK ord \in [Tids -> Nat], n \in Nat : Order(ord, n)
    BY DEF IInv, SerialInv
  <2>2. S \in SUBSET Tids /\ S # {}
    OBVIOUS
  <2>3. PICK t \in S : \A u \in S : ~(ord[u] < ord[t])
    BY <2>1, <2>2, LeastExists
  <2>4. QED
    BY <2>1, <2>2, <2>3, PrecedesOrder
<1>2. QED
  BY <1>1, IInvHolds, PTL
=============================================================================
