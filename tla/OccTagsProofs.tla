---------------------------- MODULE OccTagsProofs ----------------------------
(***************************************************************************)
(* What the steps of OccTags preserve, whichever transaction makes rounds  *)
(* of them: the types, the owners of the locks, and versions that tell     *)
(* whose the values are. OccTxnProofs and ParTxnProofs build on it.        *)
(***************************************************************************)
EXTENDS OccTags, WellFoundedInduction, TLAPS

\* Where t is between two rounds, or collects tags: it has locked nothing.
Quiet == {"idle", "run", "read", "aborting", "persist", "done"}

\* Where t has locked its whole write set and still has all of its locks.
AllLocked == {"check", "check_version", "add_dep", "install", "set_version", "set_info"}

\* All the control points of rounds of tags.
Labels == Quiet \cup AllLocked \cup {"lock", "commit", "abort"}

\* The locks of a round, and the value whose version t is about to set.
RoundInv(t) ==
  /\ pc[t] \in Quiet => is_lock[t] = {}
  /\ pc[t] = "lock" => todo[t] \subseteq has_write[t] /\ has_write[t] \ todo[t] \subseteq is_lock[t]
  /\ pc[t] \in AllLocked => has_write[t] \subseteq is_lock[t]
  /\ pc[t] = "set_version" => at[t] \in has_write[t] /\ data[at[t]] = t

\* A value without its version is one that its writer is about to set.
VersionPending ==
  \A x \in Objects : data[x] # last_writer[x] =>
    data[x] \in Tids /\ pc[data[x]] = "set_version" /\ at[data[x]] = x

\* The inductive invariant of this layer.
TagsInv ==
  /\ OccTypeOK(Labels)
  /\ \A t \in Tids : RoundInv(t)
  /\ LocksOwned
  /\ VersionPending

\* t goes on without touching objects and tags.
MoveOn(t) ==
  /\ \E label \in Labels :
       /\ Goto(t, label)
       /\ \/ pc[t] \in Quiet /\ label \in Quiet \cup {"abort"}
          \/ pc[t] = "add_dep" /\ label \in {"add_dep", "install"}
          \/ pc[t] \in {"install", "set_info"} /\ label \in {"install", "commit"}
  /\ \E S \in SUBSET Objects : Visit(t, S)
  /\ UNCHANGED <<objectVars, tagVars, at, historyVars>>

\* Every step of a transaction is one of these.
TagStep(t) ==
  \/ \E x \in Objects :
       \/ ReadVersion(t, x) \/ BufferWrite(t, x) \/ LockTag(t, x) \/ CheckOwner(t, x)
       \/ InstallData(t, x) \/ InstallPush(t, x) \/ UnlockTag(t, x)
  \/ ReadData(t) \/ BeginLock(t) \/ BeginCheck(t) \/ CheckVersion(t)
  \/ \E label \in {"install", "add_dep"} : CommitRound(t, label, has_write[t])
  \/ SetVersion(t) /\ (\E label \in {"install", "set_info"} : Goto(t, label))
                   /\ (\E S \in SUBSET Objects : Visit(t, S))
  \/ \E label \in Quiet : CleanedUp(t, label)
  \/ MoveOn(t)
  \/ UNCHANGED occVars

\* The transactions that take no part in a step, if the objects that the step
\* changes are not those they are about to set the version of.
LEMMA RoundInvUnchanged ==
  ASSUME NEW t \in Tids, RoundInv(t),
         pc'[t] = pc[t], todo'[t] = todo[t], at'[t] = at[t],
         is_lock'[t] = is_lock[t], has_write'[t] = has_write[t],
         pc[t] = "set_version" => data'[at[t]] = data[at[t]]
  PROVE  RoundInv(t)'
BY DEF RoundInv

\* The types.
LEMMA TagStepType ==
  ASSUME TagsInv, NEW t \in Tids, TagStep(t)
  PROVE  OccTypeOK(Labels)'
<1> USE DEF Labels, Quiet, AllLocked
<1>0. OccTypeOK(Labels)
  BY DEF TagsInv
<1>a. /\ pc \in [Tids -> Labels] /\ todo \in [Tids -> SUBSET Objects]
      /\ lock_owner \in [Objects -> Values] /\ t \in Values
      /\ tags \in [Tids -> SUBSET Objects] /\ has_write \in [Tids -> SUBSET Objects]
      /\ is_lock \in [Tids -> SUBSET Objects]
  BY <1>0 DEF OccTypeOK, Values
<1>r. RoundInv(t)
  BY DEF TagsInv
<1>1. ASSUME NEW x \in Objects, ReadVersion(t, x) \/ BufferWrite(t, x) PROVE OccTypeOK(Labels)'
  <2>1. CASE ReadVersion(t, x)
    BY <1>0, <2>1 DEF OccTypeOK, ReadVersion, Goto, objectVars, historyVars, Values
  <2>2. CASE BufferWrite(t, x)
    BY <1>0, <2>2 DEF OccTypeOK, BufferWrite, objectVars, historyVars, Values
  <2>3. QED
    BY <1>1, <2>1, <2>2
<1>2. ASSUME NEW x \in Objects, LockTag(t, x) \/ CheckOwner(t, x) PROVE OccTypeOK(Labels)'
  <2>1. CASE LockTag(t, x)
    <3>1. /\ pc' \in [Tids -> Labels] /\ todo' \in [Tids -> SUBSET Objects]
          /\ lock_owner' \in [Objects -> Values] /\ is_lock' \in [Tids -> SUBSET Objects]
      <4>1. CASE lock_owner[x] \in {0, t}
        BY <1>a, <2>1, <4>1 DEF LockTag, Visited, Visit
      <4>2. CASE lock_owner[x] \notin {0, t}
        BY <1>a, <2>1, <4>2 DEF LockTag, Goto
      <4>3. QED
        BY <4>1, <4>2
    <3>2. \A u \in Tids : is_lock'[u] \subseteq has_write[u]
      <4>1. \A u \in Tids : is_lock[u] \subseteq has_write[u]
        BY <1>0 DEF OccTypeOK
      <4>2. x \in has_write[t]
        BY <1>r, <2>1 DEF RoundInv, LockTag
      <4>3. QED
        BY <1>a, <2>1, <4>1, <4>2 DEF LockTag
    <3>3. QED
      BY <1>0, <2>1, <3>1, <3>2 DEF OccTypeOK, LockTag, historyVars
  <2>2. CASE CheckOwner(t, x)
    BY <1>0, <2>2 DEF OccTypeOK, CheckOwner, Goto, objectVars, tagVars, historyVars, Values
  <2>3. QED
    BY <1>2, <2>1, <2>2
<1>3. ASSUME NEW x \in Objects, InstallData(t, x) \/ InstallPush(t, x) \/ UnlockTag(t, x)
      PROVE  OccTypeOK(Labels)'
  <2>1. CASE InstallData(t, x)
    BY <1>0, <2>1 DEF OccTypeOK, InstallData, Goto, tagVars, Values
  <2>2. CASE InstallPush(t, x)
    BY <1>0, <2>2 DEF OccTypeOK, InstallPush, Visited, Visit, objectVars, tagVars, historyVars,
                      Values
  <2>3. CASE UnlockTag(t, x)
    BY <1>0, <2>3 DEF OccTypeOK, UnlockTag, historyVars, Values
  <2>4. QED
    BY <1>3, <2>1, <2>2, <2>3
<1>4. CASE ReadData(t)
  BY <1>0, <1>4 DEF OccTypeOK, ReadData, Goto, objectVars, tagVars, Values
<1>5. CASE BeginLock(t) \/ BeginCheck(t)
  <2>1. pc' \in [Tids -> Labels] /\ todo' \in [Tids -> SUBSET Objects]
    BY <1>a, <1>5 DEF BeginLock, BeginCheck, Goto, Visit
  <2>2. QED
    BY <1>0, <1>5, <2>1 DEF OccTypeOK, BeginLock, BeginCheck, objectVars, tagVars, historyVars
<1>6. CASE CheckVersion(t)
  <2>1. pc' \in [Tids -> Labels] /\ todo' \in [Tids -> SUBSET Objects]
    BY <1>a, <1>6 DEF CheckVersion, Goto, Visited, Visit
  <2>2. QED
    BY <1>0, <1>6, <2>1 DEF OccTypeOK, CheckVersion, objectVars, tagVars, historyVars
<1>7. ASSUME NEW label \in {"install", "add_dep"}, CommitRound(t, label, has_write[t])
      PROVE  OccTypeOK(Labels)'
  BY <1>0, <1>7 DEF OccTypeOK, CommitRound, Goto, Visit, objectVars, tagVars, Values
<1>8. ASSUME SetVersion(t), NEW label \in Labels, Goto(t, label),
             NEW S \in SUBSET Objects, Visit(t, S)
      PROVE  OccTypeOK(Labels)'
  BY <1>0, <1>8 DEF OccTypeOK, SetVersion, Goto, Visit, tagVars, historyVars, Values
<1>9. ASSUME NEW label \in Labels, CleanedUp(t, label) PROVE OccTypeOK(Labels)'
  BY <1>0, <1>9 DEF OccTypeOK, CleanedUp, Goto, Visit, objectVars, Values
<1>10. CASE MoveOn(t)
  BY <1>0, <1>10 DEF OccTypeOK, MoveOn, Goto, Visit, objectVars, tagVars, historyVars, Values
<1>11. CASE UNCHANGED occVars
  BY <1>0, <1>11 DEF OccTypeOK, occVars, objectVars, tagVars, historyVars, Values
<1>12. QED
  BY <1>1, <1>2, <1>3, <1>4, <1>5, <1>6, <1>7, <1>8, <1>9, <1>10, <1>11 DEF TagStep, Quiet

\* The rounds.
LEMMA TagStepRound ==
  ASSUME TagsInv, NEW t \in Tids, TagStep(t), NEW u \in Tids
  PROVE  RoundInv(u)'
<1> USE DEF Labels, Quiet, AllLocked
<1>0. /\ pc \in [Tids -> Labels] /\ todo \in [Tids -> SUBSET Objects]
      /\ has_write \in [Tids -> SUBSET Objects] /\ is_lock \in [Tids -> SUBSET Objects]
      /\ at \in [Tids -> Objects] /\ data \in [Objects -> Values]
  BY DEF TagsInv, OccTypeOK
<1>a. /\ RoundInv(t) /\ RoundInv(u) /\ is_lock[t] \subseteq has_write[t]
      /\ is_lock[u] \subseteq has_write[u]
      /\ \A x \in Objects : x \in is_lock[t] /\ x \in is_lock[u] => u = t
  BY DEF TagsInv, OccTypeOK, LocksOwned
<1>1. CASE u # t /\ ~\E x \in Objects : InstallData(t, x)
  <2>1. /\ pc'[u] = pc[u] /\ todo'[u] = todo[u] /\ at'[u] = at[u]
        /\ is_lock'[u] = is_lock[u] /\ has_write'[u] = has_write[u]
    BY <1>0, <1>1 DEF TagStep, ReadVersion, ReadData, BufferWrite, BeginLock, LockTag, BeginCheck,
         CheckOwner, CheckVersion, CommitRound, InstallPush, SetVersion, UnlockTag, CleanedUp,
         MoveOn, Goto, Visit, Visited, occVars, tagVars, objectVars
  <2>2. data' = data
    BY <1>1 DEF TagStep, ReadVersion, ReadData, BufferWrite, BeginLock, LockTag, BeginCheck,
         CheckOwner, CheckVersion, CommitRound, InstallPush, SetVersion, UnlockTag, CleanedUp,
         MoveOn, occVars, objectVars
  <2>3. QED
    BY <1>a, <2>1, <2>2, RoundInvUnchanged
<1>2. ASSUME NEW x \in Objects, InstallData(t, x) PROVE RoundInv(u)'
  <2>1. x \in has_write[t] /\ x \in is_lock[t]
    BY <1>a, <1>2 DEF InstallData, RoundInv
  <2>2. /\ pc' = [pc EXCEPT ![t] = "set_version"] /\ at' = [at EXCEPT ![t] = x]
        /\ data' = [data EXCEPT ![x] = t] /\ UNCHANGED <<tagVars, todo>>
    BY <1>2 DEF InstallData, Goto
  <2>3. CASE u = t
    <3>1. pc'[t] = "set_version" /\ at'[t] = x /\ data'[x] = t
      BY <1>0, <2>2
    <3>2. has_write[t] \subseteq is_lock[t] /\ UNCHANGED <<has_write, is_lock>>
      BY <1>a, <1>2, <2>2 DEF RoundInv, tagVars, InstallData
    <3>3. QED
      BY <2>1, <2>3, <3>1, <3>2 DEF RoundInv
  <2>4. CASE u # t
    BY <1>0, <1>a, <2>1, <2>2, <2>4 DEF RoundInv, tagVars
  <2>5. QED
    BY <2>3, <2>4
<1>3. CASE u = t /\ ~\E x \in Objects : InstallData(t, x)
  <2>1. ASSUME NEW x \in Objects, ReadVersion(t, x) PROVE RoundInv(t)'
    BY <1>0, <1>a, <2>1 DEF ReadVersion, RoundInv, Goto
  <2>2. ASSUME NEW x \in Objects, BufferWrite(t, x) PROVE RoundInv(t)'
    BY <1>0, <1>a, <2>2 DEF BufferWrite, RoundInv
  <2>3. ASSUME NEW x \in Objects, LockTag(t, x) PROVE RoundInv(t)'
    BY <1>0, <1>a, <2>3 DEF LockTag, RoundInv, Goto, Visited, Visit
  <2>4. ASSUME NEW x \in Objects, CheckOwner(t, x) PROVE RoundInv(t)'
    BY <1>0, <1>a, <2>4 DEF CheckOwner, RoundInv, Goto, tagVars
  <2>5. ASSUME NEW x \in Objects, InstallPush(t, x) PROVE RoundInv(t)'
    BY <1>0, <1>a, <2>5 DEF InstallPush, RoundInv, Visited, Visit, tagVars
  <2>6. ASSUME NEW x \in Objects, UnlockTag(t, x) PROVE RoundInv(t)'
    BY <1>0, <1>a, <2>6 DEF UnlockTag, RoundInv
  <2>7. CASE ReadData(t) \/ BeginLock(t)
    <3>1. /\ UNCHANGED <<has_write, is_lock>> /\ is_lock[t] = {}
          /\ \/ pc'[t] = "run"
             \/ pc'[t] = "lock" /\ todo'[t] = has_write[t]
      BY <1>0, <1>a, <2>7 DEF ReadData, BeginLock, RoundInv, Goto, Visit, tagVars
    <3>2. QED
      BY <1>3, <3>1 DEF RoundInv
  <2>a. CASE BeginCheck(t)
    <3>1. UNCHANGED <<has_write, is_lock>> /\ has_write[t] \subseteq is_lock[t] /\ pc'[t] = "check"
      BY <1>0, <1>a, <2>a DEF BeginCheck, RoundInv, Goto, tagVars
    <3>2. QED
      BY <1>3, <3>1 DEF RoundInv
  <2>b. CASE CheckVersion(t)
    <3>1. /\ UNCHANGED <<has_write, is_lock>> /\ has_write[t] \subseteq is_lock[t]
          /\ pc'[t] \in {"check", "abort"}
      BY <1>0, <1>a, <2>b DEF CheckVersion, RoundInv, Goto, tagVars
    <3>2. QED
      BY <1>3, <3>1 DEF RoundInv
  <2>8. ASSUME NEW label \in {"install", "add_dep"}, CommitRound(t, label, has_write[t])
        PROVE  RoundInv(t)'
    BY <1>0, <1>a, <2>8 DEF CommitRound, Checked, RoundInv, Goto, Visit, tagVars
  <2>9. ASSUME SetVersion(t), NEW label \in {"install", "set_info"}, Goto(t, label)
        PROVE  RoundInv(t)'
    BY <1>0, <1>a, <2>9 DEF SetVersion, RoundInv, Goto, tagVars
  <2>10. ASSUME NEW label \in Quiet, CleanedUp(t, label) PROVE RoundInv(t)'
    BY <1>0, <1>a, <2>10 DEF CleanedUp, RoundInv, Goto
  <2>11. CASE MoveOn(t)
    <3>1. PICK label \in Labels :
             /\ pc' = [pc EXCEPT ![t] = label]
             /\ \/ pc[t] \in Quiet /\ label \in Quiet \cup {"abort"}
                \/ pc[t] = "add_dep" /\ label \in {"add_dep", "install"}
                \/ pc[t] \in {"install", "set_info"} /\ label \in {"install", "commit"}
      BY <2>11 DEF MoveOn, Goto
    <3>2. pc'[t] = label /\ UNCHANGED <<has_write, is_lock>>
      BY <1>0, <2>11, <3>1 DEF MoveOn, tagVars
    <3>3. CASE pc[t] \in Quiet /\ label \in Quiet \cup {"abort"}
      BY <1>3, <1>a, <3>2, <3>3 DEF RoundInv
    <3>4. CASE pc[t] \in AllLocked /\ label \in {"add_dep", "install", "commit"}
      BY <1>3, <1>a, <3>2, <3>4 DEF RoundInv
    <3>5. QED
      BY <3>1, <3>3, <3>4
  <2>12. CASE UNCHANGED occVars
    BY <1>a, <2>12 DEF occVars, objectVars, tagVars, RoundInv
  <2>13. QED
    BY <1>3, <2>1, <2>2, <2>3, <2>4, <2>5, <2>6, <2>7, <2>a, <2>b, <2>8, <2>9, <2>10,
       <2>11, <2>12 DEF TagStep
<1>4. QED
  BY <1>1, <1>2, <1>3

\* The owners of the locks.
LEMMA TagStepLocks ==
  ASSUME TagsInv, NEW t \in Tids, TagStep(t)
  PROVE  LocksOwned'
<1>0. /\ lock_owner \in [Objects -> Values] /\ is_lock \in [Tids -> SUBSET Objects]
      /\ Tids \subseteq Nat \ {0} /\ LocksOwned
  BY TidsAssumption DEF TagsInv, OccTypeOK
<1>1. ASSUME NEW x \in Objects, LockTag(t, x) PROVE LocksOwned'
  <2>1. CASE lock_owner[x] \in {0, t}
    BY <1>0, <1>1, <2>1 DEF LockTag, LocksOwned
  <2>2. CASE lock_owner[x] \notin {0, t}
    BY <1>0, <1>1, <2>2 DEF LockTag, LocksOwned
  <2>3. QED
    BY <2>1, <2>2
<1>2. ASSUME NEW x \in Objects, UnlockTag(t, x) PROVE LocksOwned'
  BY <1>0, <1>2 DEF UnlockTag, LocksOwned
<1>3. CASE ~\E x \in Objects : LockTag(t, x) \/ UnlockTag(t, x)
  <2>1. UNCHANGED <<lock_owner, is_lock>>
    BY <1>3 DEF TagStep, ReadVersion, ReadData, BufferWrite, BeginLock, BeginCheck,
         CheckOwner, CheckVersion, CommitRound, InstallData, InstallPush, SetVersion, CleanedUp,
         MoveOn, occVars, tagVars, objectVars
  <2>2. QED
    BY <1>0, <2>1 DEF LocksOwned
<1>4. QED
  BY <1>1, <1>2, <1>3

\* The versions that are not set.
LEMMA TagStepPending ==
  ASSUME TagsInv, NEW t \in Tids, TagStep(t)
  PROVE  VersionPending'
<1> USE DEF Labels, Quiet, AllLocked
<1>0. /\ data \in [Objects -> Values] /\ last_writer \in [Objects -> Values]
      /\ pc \in [Tids -> Labels] /\ at \in [Tids -> Objects]
      /\ is_lock[t] \subseteq has_write[t] /\ RoundInv(t) /\ LocksOwned /\ VersionPending
      /\ \A u \in Tids : RoundInv(u)
  BY DEF TagsInv, OccTypeOK
<1>1. ASSUME NEW x \in Objects, InstallData(t, x) PROVE VersionPending'
  <2>1. lock_owner[x] = t
    BY <1>0, <1>1 DEF InstallData, RoundInv, LocksOwned
  <2>2. ASSUME NEW y \in Objects, y # x, data[y] # last_writer[y] PROVE data[y] # t
    BY <1>0, <1>1, <2>2 DEF InstallData, VersionPending
  <2>3. /\ pc' = [pc EXCEPT ![t] = "set_version"] /\ at' = [at EXCEPT ![t] = x]
        /\ data' = [data EXCEPT ![x] = t] /\ UNCHANGED last_writer
    BY <1>1 DEF InstallData, Goto
  <2>4. QED
    BY <1>0, <2>2, <2>3 DEF VersionPending
<1>2. CASE SetVersion(t)
  <2>1. /\ last_writer' = [last_writer EXCEPT ![at[t]] = t] /\ UNCHANGED <<data, at>>
        /\ \A u \in Tids \ {t} : pc'[u] = pc[u]
    BY <1>0, <1>2 DEF SetVersion, TagStep, ReadVersion, ReadData, BufferWrite, BeginLock, LockTag,
         BeginCheck, CheckOwner, CheckVersion, CommitRound, InstallData, InstallPush, UnlockTag,
         CleanedUp, MoveOn, Goto, occVars
  <2>2. data[at[t]] = t
    BY <1>0, <1>2 DEF SetVersion, RoundInv
  <2>3. QED
    BY <1>0, <2>1, <2>2 DEF VersionPending
<1>3. CASE ~SetVersion(t) /\ ~\E x \in Objects : InstallData(t, x)
  <2>1. UNCHANGED <<data, last_writer>>
    BY <1>3 DEF TagStep, ReadVersion, ReadData, BufferWrite, BeginLock, LockTag, BeginCheck,
         CheckOwner, CheckVersion, CommitRound, InstallPush, UnlockTag, CleanedUp, MoveOn,
         occVars, objectVars
  <2>2. \A u \in Tids : pc[u] = "set_version" => pc'[u] = pc[u] /\ at'[u] = at[u]
    <3>1. \A u \in Tids \ {t} : pc'[u] = pc[u] /\ at'[u] = at[u]
      BY <1>0, <1>3 DEF TagStep, ReadVersion, ReadData, BufferWrite, BeginLock, LockTag, BeginCheck,
         CheckOwner, CheckVersion, CommitRound, InstallPush, UnlockTag, CleanedUp, MoveOn, Goto,
         occVars
    <3>2. pc[t] = "set_version" => UNCHANGED <<pc, at>>
      BY <1>0, <1>3 DEF TagStep, ReadVersion, ReadData, BufferWrite, BeginLock, LockTag, BeginCheck,
         CheckOwner, CheckVersion, CommitRound, Checked, InstallPush, UnlockTag, CleanedUp, MoveOn,
         RoundInv, occVars
    <3>3. QED
      BY <3>1, <3>2
  <2>3. QED
    BY <1>0, <2>1, <2>2 DEF VersionPending
<1>4. QED
  BY <1>1, <1>2, <1>3

\* Every step of a round keeps the invariant,
LEMMA TagStepInv ==
  ASSUME TagsInv, NEW t \in Tids, TagStep(t)
  PROVE  TagsInv'
BY TagStepType, TagStepRound, TagStepLocks, TagStepPending DEF TagsInv

\* and it holds at first.
LEMMA InitTagsInv ==
  ASSUME NEW start \in [Tids -> Quiet], OccInit(start)
  PROVE  TagsInv
<1>1. (CHOOSE x \in Objects : TRUE) \in Objects
  BY BucketsAssumption
<1>2. OccTypeOK(Labels)
  BY <1>1 DEF OccInit, OccTypeOK, Labels, Values
<1>3. \A t \in Tids : RoundInv(t)
  BY DEF OccInit, RoundInv, Quiet, AllLocked
<1>4. LocksOwned /\ VersionPending
  BY TidsAssumption DEF OccInit, LocksOwned, VersionPending
<1>5. QED
  BY <1>2, <1>3, <1>4 DEF TagsInv

\* What the invariant says of versions.
LEMMA TagsInvVersions == TagsInv => VersionMatchesData
BY DEF TagsInv, OccTypeOK, RoundInv, AllLocked, LocksOwned, VersionPending, VersionMatchesData

\* A step of t is a step of no other transaction.
LEMMA OthersUnchanged ==
  ASSUME TagsInv, NEW t \in Tids, TagStep(t), NEW u \in Tids \ {t}
  PROVE  /\ pc'[u] = pc[u] /\ todo'[u] = todo[u] /\ at'[u] = at[u] /\ has_write'[u] = has_write[u]
         /\ tags'[u] = tags[u] /\ vers'[u] = vers[u] /\ reads'[u] = reads[u]
         /\ seen'[u] = seen[u] /\ is_lock'[u] = is_lock[u]
<1>1. /\ pc \in [Tids -> Labels] /\ todo \in [Tids -> SUBSET Objects]
      /\ has_write \in [Tids -> SUBSET Objects] /\ is_lock \in [Tids -> SUBSET Objects]
      /\ at \in [Tids -> Objects] /\ tags \in [Tids -> SUBSET Objects]
      /\ vers \in [Tids -> [Objects -> Values]]
      /\ DOMAIN reads = Tids /\ DOMAIN seen = Tids
  BY DEF TagsInv, OccTypeOK
<1>2. QED
  BY <1>1 DEF TagStep, ReadVersion, ReadData, BufferWrite, BeginLock, LockTag, BeginCheck,
     CheckOwner, CheckVersion, CommitRound, InstallData, InstallPush, SetVersion, UnlockTag,
     CleanedUp, MoveOn, Goto, Visit, Visited, occVars, tagVars, objectVars, historyVars

\* A step that only moves t on.
LEMMA MoveOnStep ==
  ASSUME TagsInv, NEW t \in Tids, NEW label \in Labels, Goto(t, label),
         \/ pc[t] \in Quiet /\ label \in Quiet \cup {"abort"}
         \/ pc[t] = "add_dep" /\ label \in {"add_dep", "install"}
         \/ pc[t] \in {"install", "set_info"} /\ label \in {"install", "commit"},
         UNCHANGED <<objectVars, tagVars, todo, at, historyVars>>
  PROVE  TagStep(t)
<1>1. Visit(t, todo[t]) /\ todo[t] \in SUBSET Objects
  BY DEF TagsInv, OccTypeOK, Visit
<1>2. MoveOn(t)
  BY <1>1 DEF MoveOn
<1>3. QED
  BY <1>2 DEF TagStep

-----------------------------------------------------------------------------

\* Of a set of transactions that are numbered one has the least number.
LEMMA LeastExists ==
  ASSUME NEW S \in SUBSET Tids, S # {}, NEW number \in [Tids -> Nat]
  PROVE  \E t \in S : \A u \in S : ~(number[u] < number[t])
<1> DEFINE N == {number[t] : t \in S}
<1>1. N \subseteq Nat /\ N # {}
  OBVIOUS
<1>2. \A a, b \in Nat : a < b => <<a, b>> \in OpToRel(<, Nat)
  BY DEF OpToRel
<1>3. PICK n \in N : \A m \in N : ~(<<m, n>> \in OpToRel(<, Nat))
  BY <1>1, NatLessThanWellFounded, WFMin
<1>4. PICK t \in S : n = number[t]
  BY <1>3
<1>5. ASSUME NEW u \in S, number[u] < number[t] PROVE FALSE
  <2>1. number[u] \in N /\ number[u] \in Nat /\ number[t] \in Nat
    OBVIOUS
  <2>2. <<number[u], number[t]>> \in OpToRel(<, Nat)
    BY <1>2, <1>5, <2>1
  <2>3. QED
    BY <1>3, <1>4, <2>1, <2>2
<1>6. QED
  BY <1>5
=============================================================================
