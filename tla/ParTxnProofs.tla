---------------------------- MODULE ParTxnProofs -----------------------------
(***************************************************************************)
(* Safety of TransactionParOCC and TransactionParOCCRaw (module ParTxn),   *)
(* for any number of transactions, objects, ranks and pieces in each       *)
(* transaction, and any mixes of programs in which pieces run by           *)
(* increasing rank and an object belongs to one rank.                      *)
(*                                                                         *)
(* The inductive invariant IInv is a conjunction of layers:                *)
(*   ParInv       the types, the locks of a round of tags (TagsInv of      *)
(*                OccTagsProofs), the programs, and the current piece;     *)
(*   EarlyInv, ExecutedInv                                                 *)
(*                who has called should_abort, and what a piece has run;   *)
(*   NumbersInv, DepsInv, PipelineInv                                      *)
(*                there is an order of the transactions (Before) in which  *)
(*                the dependencies of a transaction, and the earlier       *)
(*                writers of a tracked object, come first.                 *)
(* A transaction is ahead of another that has not committed when it has    *)
(* committed earlier, has reached a higher rank, or has begun to install   *)
(* at the same rank earlier. This order changes as transactions catch up:  *)
(* that nobody overtakes those it depends on is what StartPiece and        *)
(* Commit wait for (StepBefore).                                           *)
(***************************************************************************)
EXTENDS ParTxn, OccTagsProofs

\* The pieces of a program, as MixesAssumption states them of each mix.
ProgramsInv ==
  /\ mix \in DOMAIN Mixes
  /\ program \in [Tids -> Seq(Piece)]
  /\ \A t \in Tids : \A i, j \in DOMAIN program[t] :
       i < j => program[t][i].rank < program[t][j].rank
  /\ \A t, u \in Tids : \A i \in DOMAIN program[t], j \in DOMAIN program[u] :
       program[t][i].rank # program[u][j].rank =>
         Accesses(program[t][i]) \cap Accesses(program[u][j]) = {}

\* The part of TypeOK that is not about tags.
InfoInv ==
  /\ piece \in [Tids -> Nat \ {0}]
  /\ ip \in [Tids -> Nat \ {0}]
  /\ rank \in [Tids -> 0..MaxRank]
  /\ committed \subseteq Tids
  /\ persisted \subseteq committed
  /\ access_info \in [Objects -> Values]
  /\ deps \in [Tids -> SUBSET Tids]
  /\ early_abort \subseteq Tids
  /\ aborted \subseteq committed

\* Where t has all its pieces behind it, or has given up.
Ended == {"aborting", "persist", "done"}

\* Where the tags of t are those of its current piece.
InPiece == Labels \ (Ended \cup {"idle"})

\* The current piece has its rank, which is less than that of the pieces to
\* come, and its tags are for objects that the piece accesses.
PieceInv(t) ==
  /\ pc[t] \in InPiece =>
       /\ piece[t] \in DOMAIN program[t]
       /\ rank[t] = CurrentPiece(t).rank
       /\ tags[t] \subseteq Accesses(CurrentPiece(t))
  /\ pc[t] = "idle" =>
       /\ tags[t] = {}
       /\ \A i \in DOMAIN program[t] : piece[t] <= i => rank[t] < program[t][i].rank
  /\ pc[t] \in InPiece \ {"run", "read"} => todo[t] \subseteq tags[t]
  /\ t \in committed => pc[t] \in Ended
  /\ pc[t] \in {"aborting", "persist"} => t \in committed

\* The layers that do not speak of an order of transactions.
ParInv ==
  /\ TagsInv
  /\ ProgramsInv
  /\ InfoInv
  /\ \A t \in Tids : PieceInv(t)

-----------------------------------------------------------------------------

\* The next operation of the current piece.
LEMMA CurrentOpType ==
  ASSUME ProgramsInv, InfoInv, NEW t \in Tids, piece[t] \in DOMAIN program[t]
  PROVE  /\ CurrentPiece(t) \in Piece
         /\ Len(CurrentPiece(t).ops) \in Nat
         /\ ip[t] <= Len(CurrentPiece(t).ops) =>
              CurrentOp(t).obj \in Objects /\ CurrentOp(t).obj \in Accesses(CurrentPiece(t))
<1>1. program[t] \in Seq(Piece) /\ piece[t] \in Nat \ {0} /\ ip[t] \in Nat \ {0}
  BY DEF ProgramsInv, InfoInv
<1>2. CurrentPiece(t) \in Piece
  BY <1>1 DEF CurrentPiece
<1>3. CurrentPiece(t).ops \in Seq(Operation)
  BY <1>2 DEF Piece
<1>4. ASSUME ip[t] <= Len(CurrentPiece(t).ops)
      PROVE  CurrentOp(t).obj \in Objects /\ CurrentOp(t).obj \in Accesses(CurrentPiece(t))
  <2>1. ip[t] \in DOMAIN CurrentPiece(t).ops
    BY <1>1, <1>3, <1>4
  <2>2. CurrentOp(t) \in Operation
    BY <1>3, <2>1 DEF CurrentOp
  <2>3. CurrentOp(t).obj \in Accesses(CurrentPiece(t))
    BY <2>1 DEF Accesses, CurrentOp
  <2>4. QED
    BY <2>2, <2>3 DEF Operation
<1>5. QED
  BY <1>2, <1>3, <1>4

\* What a piece does are steps of tags.
LEMMA StepIsTagStep ==
  ASSUME ParInv, NEW t \in Tids, Step(t)
  PROVE  TagStep(t)
<1> USE DEF ParInv
<1>0. /\ pc \in [Tids -> Labels] /\ todo \in [Tids -> SUBSET Objects] /\ at \in [Tids -> Objects]
      /\ PieceInv(t)
  BY DEF TagsInv, OccTypeOK
<1>1. ASSUME pc[t] = "run" PROVE piece[t] \in DOMAIN program[t]
  BY <1>0, <1>1 DEF PieceInv, InPiece, Labels, Quiet, Ended
<1>2. CASE ReadOp(t)
  BY <1>1, <1>2, CurrentOpType DEF ReadOp, Running, TagStep
<1>3. CASE WriteOp(t)
  BY <1>1, <1>3, CurrentOpType DEF WriteOp, Running, TagStep
<1>4. CASE LookUpOp(t) \/ ShouldAbort(t)
  BY <1>4 DEF LookUpOp, ShouldAbort, TagStep
<1>5. CASE StartPiece(t) \/ AbortPersist(t) \/ Commit(t) \/ PersistTxn(t)
  BY <1>5, MoveOnStep DEF StartPiece, AbortPersist, Commit, PersistTxn, Labels, Quiet
<1>6. CASE Abort(t) \/ EndCleanUp(t)
  BY <1>6 DEF Abort, EndCleanUp, TagStep, Quiet
<1>7. CASE TryCommitPiece(t) \/ Validate(t) \/ BeginAddDep(t)
  BY <1>7 DEF TryCommitPiece, Validate, BeginAddDep, TagStep
<1>8. CASE InstallTag(t)
  <2>1. CASE SetVersion(t) /\ Goto(t, "set_info") /\ UNCHANGED todo
    <3>1. todo[t] \in SUBSET Objects /\ Visit(t, todo[t])
      BY <1>0, <2>1 DEF Visit
    <3>2. QED
      BY <2>1, <3>1 DEF TagStep
  <2>2. QED
    BY <1>8, <2>1 DEF InstallTag, TagStep
<1>9. ASSUME NEW x \in Objects, AddDep(t, x) \/ SetAccessInfo(t, x) PROVE TagStep(t)
  <2>1. todo[t] \ {x} \in SUBSET Objects
    BY <1>0
  <2>2. MoveOn(t)
    <3>1. CASE AddDep(t, x)
      <4>1. Goto(t, "add_dep")
        BY <1>0, <3>1 DEF AddDep, Goto
      <4>2. QED
        BY <2>1, <3>1, <4>1 DEF AddDep, MoveOn, Visited, Labels, AllLocked
    <3>2. CASE SetAccessInfo(t, x)
      BY <2>1, <3>2 DEF SetAccessInfo, MoveOn, Visited, Labels, AllLocked
    <3>3. QED
      BY <1>9, <3>1, <3>2
  <2>3. QED
    BY <2>2 DEF TagStep
<1>10. CASE BeginInstall(t)
  <2>1. tags[t] \in SUBSET Objects
    BY DEF TagsInv, OccTypeOK
  <2>2. MoveOn(t)
    BY <1>10, <2>1 DEF BeginInstall, MoveOn, Labels, AllLocked
  <2>3. QED
    BY <2>2 DEF TagStep
<1>11. CASE EndInstall(t)
  BY <1>11, MoveOnStep DEF EndInstall, Labels
<1>12. CASE CleanUp(t)
  BY <1>12 DEF CleanUp, TagStep
<1>13. QED
  BY <1>2, <1>3, <1>4, <1>5, <1>6, <1>7, <1>8, <1>9, <1>10, <1>11, <1>12 DEF Step
\* A step of t is a step of no other transaction.
LEMMA StepOthers ==
  ASSUME ParInv, NEW t \in Tids, Step(t)
  PROVE  /\ UNCHANGED <<mix, program>>
         /\ \A u \in Tids \ {t} :
              /\ pc'[u] = pc[u] /\ todo'[u] = todo[u] /\ at'[u] = at[u] /\ tags'[u] = tags[u]
              /\ has_write'[u] = has_write[u] /\ is_lock'[u] = is_lock[u]
              /\ piece'[u] = piece[u] /\ ip'[u] = ip[u]
              /\ rank'[u] = rank[u] /\ deps'[u] = deps[u]
              /\ u \in committed' <=> u \in committed
              /\ u \in early_abort' <=> u \in early_abort
<1>1. UNCHANGED <<mix, program>>
  BY DEF Step, StartPiece, ReadOp, WriteOp, LookUpOp, ShouldAbort, Abort, AbortPersist,
     TryCommitPiece, Validate, BeginAddDep, AddDep, BeginInstall, InstallTag, SetAccessInfo,
     EndInstall, CleanUp, EndCleanUp, Commit, PersistTxn, Advance, parVars, progVars
<1>2. ASSUME NEW u \in Tids \ {t}
      PROVE  /\ pc'[u] = pc[u] /\ todo'[u] = todo[u] /\ at'[u] = at[u] /\ tags'[u] = tags[u]
             /\ has_write'[u] = has_write[u] /\ is_lock'[u] = is_lock[u]
  BY <1>2, StepIsTagStep, OthersUnchanged DEF ParInv
<1>3. /\ piece \in [Tids -> Nat \ {0}] /\ ip \in [Tids -> Nat \ {0}]
      /\ rank \in [Tids -> 0..MaxRank] /\ deps \in [Tids -> SUBSET Tids]
  BY DEF ParInv, InfoInv
<1>4. ASSUME NEW u \in Tids \ {t}
      PROVE  /\ piece'[u] = piece[u] /\ ip'[u] = ip[u]
             /\ rank'[u] = rank[u] /\ deps'[u] = deps[u]
             /\ u \in committed' <=> u \in committed
             /\ u \in early_abort' <=> u \in early_abort
  BY <1>3, <1>4 DEF Step, StartPiece, ReadOp, WriteOp, LookUpOp, ShouldAbort, Abort, AbortPersist,
     TryCommitPiece, Validate, BeginAddDep, AddDep, BeginInstall, InstallTag, SetAccessInfo,
     EndInstall, CleanUp, EndCleanUp, Commit, PersistTxn, Advance, parVars, progVars, infoVars
<1>5. QED
  BY <1>1, <1>2, <1>4

\* The flags and the ranks keep their types,
LEMMA StepInfoInv ==
  ASSUME ParInv, NEW t \in Tids, Step(t)
  PROVE  InfoInv'
<1>0. /\ InfoInv /\ PieceInv(t) /\ pc \in [Tids -> Labels]
      /\ program \in [Tids -> Seq(Piece)]
  BY DEF ParInv, TagsInv, OccTypeOK, ProgramsInv
<1>1. CASE StartPiece(t)
  <2>1. CurrentPiece(t) \in Piece
    BY <1>0, <1>1, CurrentOpType DEF ParInv, StartPiece, InfoInv
  <2>2. CurrentPiece(t).rank \in 1..MaxRank
    BY <2>1 DEF Piece
  <2>3. QED
    BY <1>0, <1>1, <2>2 DEF StartPiece, InfoInv, progVars
<1>2. CASE ReadOp(t) \/ WriteOp(t) \/ LookUpOp(t)
  BY <1>0, <1>2 DEF ReadOp, WriteOp, LookUpOp, Advance, InfoInv, progVars, infoVars, parVars
<1>3. CASE ShouldAbort(t)
  <2>1. Len(CurrentPiece(t).ops) \in Nat
    BY <1>0, <1>3, CurrentOpType DEF ParInv, PieceInv, InPiece, Labels, Quiet, Ended, ShouldAbort,
         Running
  <2>2. QED
    BY <1>0, <1>3, <2>1 DEF ShouldAbort, InfoInv, infoVars
<1>4. CASE Abort(t) \/ AbortPersist(t) \/ Commit(t) \/ PersistTxn(t)
  BY <1>0, <1>4 DEF Abort, AbortPersist, Commit, PersistTxn, PieceInv, InfoInv, progVars
<1>5. ASSUME NEW x \in Objects, AddDep(t, x) \/ SetAccessInfo(t, x) PROVE InfoInv'
  <2>1. CASE AddDep(t, x)
    <3>1. access_info[x] \in Tids \cup {0}
      BY <1>0 DEF InfoInv, Values
    <3>2. QED
      BY <1>0, <2>1, <3>1 DEF AddDep, InfoInv, progVars, infoVars
  <2>2. CASE SetAccessInfo(t, x)
    BY <1>0, <2>2 DEF SetAccessInfo, InfoInv, progVars, infoVars, Values
  <2>3. QED
    BY <1>5, <2>1, <2>2
<1>6. CASE EndCleanUp(t)
  <2>1. piece' \in [Tids -> Nat \ {0}] /\ ip' \in [Tids -> Nat \ {0}]
    <3>1. \/ piece' = [piece EXCEPT ![t] = @ + 1] /\ ip' = ip
          \/ piece' = piece /\ ip' = [ip EXCEPT ![t] = 1]
      BY <1>6 DEF EndCleanUp
    <3>2. piece \in [Tids -> Nat \ {0}] /\ ip \in [Tids -> Nat \ {0}]
      BY <1>0 DEF InfoInv
    <3>3. QED
      BY <3>1, <3>2
  <2>2. QED
    BY <1>0, <1>6, <2>1 DEF EndCleanUp, InfoInv, progVars, infoVars
<1>7. CASE UNCHANGED parVars
  BY <1>0, <1>7 DEF InfoInv, parVars, progVars, infoVars
<1>8. QED
  BY <1>1, <1>2, <1>3, <1>4, <1>5, <1>6, <1>7 DEF Step, TryCommitPiece, Validate, BeginAddDep,
     BeginInstall, InstallTag, EndInstall, CleanUp

\* and the current piece is the one that the tags belong to.
LEMMA StepPieceInv ==
  ASSUME ParInv, NEW t \in Tids, Step(t), NEW u \in Tids
  PROVE  PieceInv(u)'
<1> USE DEF Labels, Quiet, AllLocked, Ended, InPiece
<1>0. /\ InfoInv /\ PieceInv(u) /\ pc \in [Tids -> Labels] /\ UNCHANGED program
      /\ program \in [Tids -> Seq(Piece)]
      /\ tags \in [Tids -> SUBSET Objects] /\ todo \in [Tids -> SUBSET Objects]
      /\ has_write[t] \subseteq tags[t]
      /\ rank \in [Tids -> 0..MaxRank]
      /\ piece \in [Tids -> Nat \ {0}] /\ DOMAIN program[t] \subseteq Nat
      /\ \A i, j \in DOMAIN program[t] : i < j => program[t][i].rank < program[t][j].rank
  <2>1. DOMAIN program[t] \subseteq Nat
    BY DEF ParInv, ProgramsInv
  <2>2. QED
    BY <2>1, StepOthers DEF ParInv, TagsInv, OccTypeOK, ProgramsInv, InfoInv
<1>1. CASE u # t
  BY <1>0, <1>1, StepOthers DEF PieceInv, CurrentPiece
<1>2. CASE u = t
  <2>1. CASE StartPiece(t)
    <3>1. /\ pc[t] = "idle" /\ pc'[t] = "run" /\ piece[t] \in DOMAIN program[t]
          /\ rank'[t] = CurrentPiece(t).rank /\ tags'[t] = {}
          /\ UNCHANGED <<program, piece, committed>>
      BY <1>0, <1>2, <2>1 DEF StartPiece, PieceInv, Goto, progVars, tagVars
    <3>2. QED
      BY <1>0, <1>2, <3>1 DEF PieceInv, CurrentPiece
  <2>2. CASE ReadOp(t)
    <3>1. ASSUME Running(t, Read), ReadVersion(t, CurrentOp(t).obj), UNCHANGED parVars
          PROVE  PieceInv(t)'
      <4>1. CurrentOp(t).obj \in Accesses(CurrentPiece(t))
        BY <1>0, <1>2, <3>1, CurrentOpType DEF ParInv, PieceInv, Running
      <4>2. /\ pc[t] = "run" /\ pc'[t] = "read" /\ tags'[t] = tags[t] \cup {CurrentOp(t).obj}
            /\ UNCHANGED <<program, piece, rank, committed>>
        BY <1>0, <3>1 DEF ReadVersion, Goto, parVars, infoVars, progVars
      <4>3. QED
        BY <1>0, <1>2, <4>1, <4>2 DEF PieceInv, CurrentPiece
    <3>2. ASSUME ReadData(t), Advance(t) PROVE PieceInv(t)'
      <4>1. /\ pc[t] = "read" /\ pc'[t] = "run"
            /\ UNCHANGED <<program, piece, rank, committed, tags>>
        BY <1>0, <3>2 DEF ReadData, Advance, Goto, tagVars, infoVars, progVars
      <4>2. QED
        BY <1>0, <1>2, <4>1 DEF PieceInv, CurrentPiece
    <3>3. QED
      BY <1>2, <2>2, <3>1, <3>2 DEF ReadOp
  <2>3. CASE WriteOp(t)
    <3>1. CurrentOp(t).obj \in Accesses(CurrentPiece(t))
      BY <1>0, <1>2, <2>3, CurrentOpType DEF ParInv, PieceInv, Running, WriteOp
    <3>2. /\ pc[t] = "run" /\ pc'[t] = "run" /\ tags'[t] = tags[t] \cup {CurrentOp(t).obj}
          /\ UNCHANGED <<program, piece, rank, committed>>
      BY <1>0, <2>3 DEF WriteOp, BufferWrite, Advance, infoVars, progVars
    <3>3. QED
      BY <1>0, <1>2, <3>1, <3>2 DEF PieceInv, CurrentPiece
  <2>4. CASE LookUpOp(t) \/ ShouldAbort(t)
    <3>1. UNCHANGED <<pc, todo, tags, program, piece, rank, committed>>
      BY <2>4 DEF LookUpOp, ShouldAbort, Advance, occVars, tagVars, infoVars, progVars
    <3>2. QED
      BY <1>0, <1>2, <3>1 DEF PieceInv, CurrentPiece
  <2>5. CASE Abort(t) \/ AbortPersist(t) \/ Commit(t) \/ PersistTxn(t)
    <3>1. pc'[t] \in Ended /\ (pc'[t] \in {"aborting", "persist"} => t \in committed')
      BY <1>0, <2>5 DEF Abort, CleanedUp, AbortPersist, Commit, PersistTxn, Goto
    <3>2. QED
      BY <1>2, <3>1 DEF PieceInv
  <2>6. CASE TryCommitPiece(t) \/ Validate(t) \/ BeginAddDep(t) \/ BeginInstall(t)
    <3>1. UNCHANGED <<program, piece, rank, committed, tags>>
      BY <2>6 DEF TryCommitPiece, Validate, BeginAddDep, BeginInstall, BeginLock, LockTag,
         CheckOwner, BeginCheck, CheckVersion, CommitRound, tagVars, parVars, infoVars, progVars
    <3>2. /\ pc[t] \in InPiece /\ pc'[t] \in InPiece
          /\ todo'[t] \subseteq tags[t] \/ (todo'[t] \subseteq todo[t] /\ pc[t] # "run")
      <4>1. CASE TryCommitPiece(t) \/ BeginAddDep(t) \/ BeginInstall(t)
        BY <1>0, <4>1 DEF TryCommitPiece, BeginAddDep, BeginInstall, BeginLock, CommitRound,
           Checked, Goto, Visit
      <4>2. CASE Validate(t)
        BY <1>0, <4>2 DEF Validate, LockTag, CheckOwner, BeginCheck, CheckVersion, Goto, Visited,
           Visit
      <4>3. QED
        BY <2>6, <4>1, <4>2
    <3>3. pc[t] # "read"
      BY <2>6 DEF TryCommitPiece, Validate, BeginAddDep, BeginInstall, BeginLock, LockTag,
         CheckOwner, BeginCheck, CheckVersion, CommitRound, Checked
    <3>4. QED
      BY <1>0, <1>2, <3>1, <3>2, <3>3 DEF PieceInv, CurrentPiece
  <2>7. CASE InstallTag(t) \/ EndInstall(t) \/ CleanUp(t)
             \/ \E x \in Objects : AddDep(t, x) \/ SetAccessInfo(t, x)
    <3>1. UNCHANGED <<program, piece, rank, committed, tags>>
      BY <2>7 DEF InstallTag, EndInstall, CleanUp, AddDep, SetAccessInfo, InstallData, InstallPush,
         SetVersion, UnlockTag, tagVars, parVars, infoVars, progVars
    <3>2. /\ pc[t] \in InPiece \ {"run", "read"} /\ pc'[t] \in InPiece
          /\ todo'[t] \subseteq todo[t]
      <4>1. CASE InstallTag(t)
        BY <1>0, <4>1 DEF InstallTag, InstallData, InstallPush, SetVersion, Goto, Visited, Visit
      <4>2. CASE EndInstall(t) \/ CleanUp(t)
        BY <1>0, <4>2 DEF EndInstall, CleanUp, UnlockTag, Goto
      <4>3. CASE \E x \in Objects : AddDep(t, x) \/ SetAccessInfo(t, x)
        BY <1>0, <4>3 DEF AddDep, SetAccessInfo, Goto, Visited, Visit
      <4>4. QED
        BY <2>7, <4>1, <4>2, <4>3
    <3>3. QED
      BY <1>0, <1>2, <3>1, <3>2 DEF PieceInv, CurrentPiece
  <2>8. CASE EndCleanUp(t)
    <3>1. /\ UNCHANGED <<program, rank, committed>> /\ tags'[t] = {} /\ todo'[t] = {}
          /\ pc[t] \in {"commit", "abort"}
      BY <1>0, <2>8 DEF EndCleanUp, CleanedUp, Visit, infoVars, progVars
    <3>2. CASE pc[t] = "commit"
      <4>1. pc'[t] = "idle" /\ piece'[t] = piece[t] + 1
        BY <1>0, <2>8, <3>2 DEF EndCleanUp, CleanedUp, Goto
      <4>2. ASSUME NEW i \in DOMAIN program[t], piece[t] + 1 <= i
            PROVE  rank[t] < program[t][i].rank
        <5>1. piece[t] \in DOMAIN program[t] /\ rank[t] = program[t][piece[t]].rank
          BY <1>0, <1>2, <3>2 DEF PieceInv, CurrentPiece
        <5>2. i \in Nat /\ piece[t] \in Nat /\ piece[t] < i
          BY <1>0, <4>2
        <5>3. QED
          BY <1>0, <5>1, <5>2
      <4>3. t \notin committed
        BY <1>0, <1>2, <3>2 DEF PieceInv
      <4>4. QED
        BY <1>0, <1>2, <3>1, <4>1, <4>2, <4>3 DEF PieceInv
    <3>3. CASE pc[t] = "abort"
      <4>1. pc'[t] = "run" /\ piece' = piece
        BY <1>0, <2>8, <3>3 DEF EndCleanUp, CleanedUp, Goto
      <4>2. QED
        BY <1>0, <1>2, <3>1, <3>3, <4>1 DEF PieceInv, CurrentPiece
    <3>4. QED
      BY <3>1, <3>2, <3>3
  <2>9. QED
    BY <2>1, <2>2, <2>3, <2>4, <2>5, <2>6, <2>7, <2>8 DEF Step
<1>3. QED
  BY <1>1, <1>2

\* Every step keeps them,
LEMMA StepParInv ==
  ParInv /\ [Next]_vars => ParInv'
<1> SUFFICES ASSUME ParInv, [Next]_vars PROVE ParInv'
  OBVIOUS
<1>1. ASSUME NEW t \in Tids, Step(t) PROVE ParInv'
  <2>1. TagsInv'
    BY <1>1, StepIsTagStep, TagStepInv DEF ParInv
  <2>2. ProgramsInv'
    BY <1>1, StepOthers DEF ParInv, ProgramsInv
  <2>3. QED
    BY <1>1, <2>1, <2>2, StepInfoInv, StepPieceInv DEF ParInv
<1>2. CASE UNCHANGED vars
  <2>1. UNCHANGED <<occVars, mix, program, piece, ip, rank, committed, persisted, access_info,
                    deps, early_abort, aborted>>
    BY <1>2 DEF vars, parVars, progVars, infoVars
  <2>2. TagsInv'
    BY <2>1 DEF occVars, objectVars, tagVars, historyVars, ParInv, TagsInv, OccTypeOK, RoundInv,
       LocksOwned, VersionPending
  <2>3. ProgramsInv' /\ InfoInv'
    BY <2>1 DEF ParInv, ProgramsInv, InfoInv
  <2>4. \A t \in Tids : PieceInv(t)'
    BY <2>1 DEF ParInv, PieceInv, CurrentPiece, occVars, tagVars
  <2>5. QED
    BY <2>2, <2>3, <2>4 DEF ParInv
<1>3. QED
  BY <1>1, <1>2 DEF Next, Terminated

\* and they hold at first.
LEMMA InitParInv == Init => ParInv
<1> SUFFICES ASSUME Init PROVE ParInv
  OBVIOUS
<1>1. /\ mix \in DOMAIN Mixes /\ DOMAIN program = Tids
      /\ \A t \in Tids : program[t] \in Programs(t) \/ program[t] = <<>>
  BY DEF Init
<1>2. \A t \in Tids : program[t] \in Seq(Piece)
  <2>1. \A t \in Tids : \A p \in Programs(t) : p \in Seq(Piece)
    BY <1>1, MixesAssumption DEF Programs
  <2>2. <<>> \in Seq(Piece)
    OBVIOUS
  <2>3. QED
    BY <1>1, <2>1, <2>2, Zenon
<1>3. program \in [Tids -> Seq(Piece)]
  <2>1. program = [t \in Tids |-> program[t]]
    BY <1>1 DEF Init
  <2>2. QED
    BY <1>2, <2>1
<1>4. ASSUME NEW t \in Tids, NEW i \in DOMAIN program[t], NEW j \in DOMAIN program[t], i < j
      PROVE  program[t][i].rank < program[t][j].rank
  BY <1>1, <1>4, MixesAssumption DEF Programs
<1>5. ASSUME NEW t \in Tids, NEW u \in Tids,
             NEW i \in DOMAIN program[t], NEW j \in DOMAIN program[u],
             program[t][i].rank # program[u][j].rank
      PROVE  Accesses(program[t][i]) \cap Accesses(program[u][j]) = {}
  <2>1. program[t] \in Mixes[mix].programs[t] /\ program[u] \in Mixes[mix].programs[u]
    BY <1>1 DEF Programs
  <2>2. QED
    BY <1>1, <1>5, <2>1, MixesAssumption
<1>6. ProgramsInv
  BY <1>1, <1>3, <1>4, <1>5 DEF ProgramsInv
<1>7. InfoInv
  BY RanksAssumption DEF Init, InfoInv, Values
<1>8. [t \in Tids |-> IF Programs(t) = {} THEN "done" ELSE "idle"] \in [Tids -> Quiet]
  BY DEF Quiet
<1>9. TagsInv
  BY <1>8, InitTagsInv DEF Init
<1>10. ASSUME NEW t \in Tids PROVE PieceInv(t)
  <2>1. ASSUME NEW i \in DOMAIN program[t] PROVE program[t][i].rank \in Nat \ {0}
    <3>1. program[t][i] \in Piece
      BY <1>3
    <3>2. QED
      BY <3>1, RanksAssumption DEF Piece
  <2>2. pc[t] \in {"idle", "done"} /\ tags[t] = {} /\ rank[t] = 0 /\ committed = {}
    BY DEF Init, OccInit
  <2>3. \A i \in DOMAIN program[t] : rank[t] < program[t][i].rank
    BY <2>1, <2>2
  <2>4. QED
    BY <2>2, <2>3 DEF PieceInv, InPiece, Labels, Quiet, AllLocked, Ended
<1>11. QED
  BY <1>6, <1>7, <1>9, <1>10 DEF ParInv

\* The types.
THEOREM TypeCorrect == Spec => []TypeOK
<1>1. ParInv => TypeOK
  <2>1. Labels = {"idle", "run", "read", "lock", "check", "check_version",
                  "add_dep", "install", "set_version", "set_info", "commit",
                  "abort", "aborting", "persist", "done"}
    BY DEF Labels, Quiet, AllLocked
  <2>2. QED
    BY <2>1 DEF ParInv, TagsInv, InfoInv, TypeOK
<1>2. QED
  BY <1>1, InitParInv, StepParInv, PTL DEF Spec

-----------------------------------------------------------------------------

\* From when a piece can no longer fail to its end.
Installing == {"install", "set_version", "set_info", "commit"}

\* The transactions that are past the access to x: in a later piece, or in the
\* piece that accesses x, which has begun to install. The number ord[t] says
\* when t began to install its current piece, 0 if it has not, or when it
\* committed.
Reached(t, x, ord) ==
  \E i \in DOMAIN program[t] :
    /\ x \in Accesses(program[t][i])
    /\ program[t][i].rank < rank[t] \/ (program[t][i].rank = rank[t] /\ ord[t] # 0)

\* w is ahead of u: first come those that have committed, in the order in
\* which they did, then those of the highest rank, and of one rank those that
\* have begun to install, in the order in which they did.
Before(w, u, ord) ==
  IF u \in committed THEN w \in committed /\ ord[w] < ord[u]
  ELSE \/ w \in committed
       \/ rank[w] > rank[u]
       \/ rank[w] = rank[u] /\ ord[w] # 0 /\ (ord[u] = 0 \/ ord[w] < ord[u])

\* n is the next number.
NumbersInv(ord, n) ==
  \A t \in Tids :
    /\ ord[t] < n
    /\ pc[t] \in Installing => ord[t] # 0
    /\ pc[t] \in InPiece \ Installing => ord[t] = 0

\* Who a transaction may come to depend on has accessed the object, and who it
\* depends on is ahead of it.
DepsInv(ord) ==
  /\ \A x \in Objects : access_info[x] # 0 => Reached(access_info[x], x, ord)
  /\ \A t \in Tids \ aborted : \A u \in deps[t] \ aborted : Before(u, t, ord)

\* Ranks are numbers, and bounded.
LEMMA RankType ==
  ASSUME ParInv
  PROVE  rank \in [Tids -> Nat] /\ \A t \in Tids : rank[t] <= MaxRank
BY RanksAssumption DEF ParInv, InfoInv

\* Among any transactions one has nobody ahead of it.
LEMMA FirstExists ==
  ASSUME ParInv, NEW ord \in [Tids -> Nat], NEW S \in SUBSET Tids, S # {}
  PROVE  \E t \in S : \A u \in S : ~Before(u, t, ord)
<1>1. MaxRank \in Nat /\ \A t \in Tids : rank[t] \in Nat /\ rank[t] <= MaxRank
  BY RanksAssumption, RankType
<1>2. CASE S \cap committed # {}
  <2>1. PICK t \in S \cap committed : \A u \in S \cap committed : ~(ord[u] < ord[t])
    BY <1>2, LeastExists
  <2>2. QED
    BY <2>1 DEF Before
<1>3. CASE S \cap committed = {}
  <2> DEFINE below == [t \in Tids |-> MaxRank - rank[t]]
  <2>1. below \in [Tids -> Nat]
    BY <1>1
  <2>2. PICK h \in S : \A u \in S : ~(below[u] < below[h])
    <3> HIDE DEF below
    <3> QED
      BY <2>1, LeastExists
  <2>3. ASSUME NEW u \in S PROVE rank[u] <= rank[h]
    <3>1. /\ below[u] = MaxRank - rank[u] /\ below[h] = MaxRank - rank[h]
          /\ rank[u] \in Nat /\ rank[h] \in Nat /\ MaxRank \in Nat
      BY <1>1
    <3>2. ~(below[u] < below[h])
      BY <2>2
    <3> HIDE DEF below
    <3>3. QED
      BY <3>1, <3>2
  <2> DEFINE Installers == {u \in S : rank[u] = rank[h] /\ ord[u] # 0}
  <2>4. CASE Installers # {}
    <3>1. PICK t \in Installers : \A u \in Installers : ~(ord[u] < ord[t])
      BY <2>4, LeastExists
    <3>2. ASSUME NEW u \in S, Before(u, t, ord) PROVE FALSE
      <4>1. rank[u] <= rank[t] /\ rank[u] \in Nat /\ rank[t] \in Nat
        BY <1>1, <2>3, <3>1
      <4>2. rank[u] = rank[t] /\ ord[u] # 0 /\ ord[u] < ord[t]
        BY <1>3, <3>1, <3>2, <4>1 DEF Before
      <4>3. QED
        BY <3>1, <4>2
    <3>3. QED
      BY <3>1, <3>2
  <2>5. CASE Installers = {}
    <3>1. ASSUME NEW u \in S, Before(u, h, ord) PROVE FALSE
      <4>1. rank[u] <= rank[h] /\ rank[u] \in Nat /\ rank[h] \in Nat
        BY <1>1, <2>3
      <4>2. rank[u] = rank[h] /\ ord[u] # 0
        BY <1>3, <3>1, <4>1 DEF Before
      <4>3. QED
        BY <2>5, <4>2
    <3>2. QED
      BY <3>1
  <2>6. QED
    BY <2>4, <2>5
<1>4. QED
  BY <1>2, <1>3

\* A transaction that nobody in a set is ahead of depends on none of them.
LEMMA DepsInvAcyclic ==
  ASSUME ParInv, NEW ord \in [Tids -> Nat], DepsInv(ord)
  PROVE  DepsAcyclic
<1> SUFFICES ASSUME NEW S \in (SUBSET (Tids \ aborted)) \ {{}}
             PROVE  \E t \in S : S \cap deps[t] = {}
  BY DEF DepsAcyclic
<1>1. PICK t \in S : \A u \in S : ~Before(u, t, ord)
  BY FirstExists
<1>2. QED
  BY <1>1 DEF DepsInv

\* The rank of a piece that starts.
LEMMA PieceStart ==
  ASSUME ParInv, NEW a \in Tids, StartPiece(a)
  PROVE  /\ CurrentPiece(a).rank \in Nat /\ rank[a] < CurrentPiece(a).rank
         /\ a \notin committed
<1>1. piece[a] \in DOMAIN program[a] /\ pc[a] = "idle"
  BY DEF StartPiece, ParInv, ProgramsInv, InfoInv
<1>2. rank[a] < CurrentPiece(a).rank /\ a \notin committed
  BY <1>1 DEF ParInv, PieceInv, CurrentPiece, ProgramsInv, InfoInv, Ended
<1>3. CurrentPiece(a).rank \in Nat
  BY <1>1, CurrentOpType, RankType DEF ParInv, Piece
<1>4. QED
  BY <1>2, <1>3

\* A transaction that starts a piece gets ahead of nobody it depends on,
LEMMA StartPieceBefore ==
  ASSUME ParInv, NEW ord \in [Tids -> Nat], NEW a \in Tids, StartPiece(a),
         NEW w \in Tids, NEW u \in Tids, Before(w, u, ord),
         u = a => w \in committed \/ HasStarted(w, CurrentPiece(a).rank)
  PROVE  Before(w, u, [ord EXCEPT ![a] = 0])'
<1>1. /\ rank' = [rank EXCEPT ![a] = CurrentPiece(a).rank] /\ UNCHANGED committed
      /\ rank \in [Tids -> Nat] /\ a \notin committed
      /\ CurrentPiece(a).rank \in Nat /\ rank[a] < CurrentPiece(a).rank
  BY PieceStart, RankType DEF StartPiece
<1>2. CASE u = a /\ w # a
  BY <1>1, <1>2 DEF Before, HasStarted
<1>3. CASE u # a /\ w = a
  BY <1>1, <1>3 DEF Before
<1>4. CASE u # a /\ w # a
  BY <1>1, <1>4 DEF Before
<1>5. CASE u = a /\ w = a
  BY <1>1, <1>5 DEF Before
<1>6. QED
  BY <1>2, <1>3, <1>4, <1>5

\* nor one that begins to install,
LEMMA BeginInstallBefore ==
  ASSUME ParInv, NEW ord \in [Tids -> Nat], NEW n \in Nat, NumbersInv(ord, n),
         NEW a \in Tids, BeginInstall(a), NEW w \in Tids, NEW u \in Tids, Before(w, u, ord)
  PROVE  Before(w, u, [ord EXCEPT ![a] = n])'
<1>1. /\ UNCHANGED <<rank, committed>> /\ ord[a] = 0
      /\ rank \in [Tids -> Nat] /\ a \notin committed
      /\ ord[w] < n
  BY RankType DEF BeginInstall, ParInv, PieceInv, NumbersInv, InPiece, Ended, Labels,
     Quiet, AllLocked, Installing, parVars, infoVars
<1>2. QED
  BY <1>1 DEF Before

\* nor one that commits.
LEMMA CommitBefore ==
  ASSUME ParInv, NEW ord \in [Tids -> Nat], NEW n \in Nat, NumbersInv(ord, n),
         NEW a \in Tids, Commit(a), NEW w \in Tids, NEW u \in Tids, Before(w, u, ord),
         u = a => w \in committed
  PROVE  Before(w, u, [ord EXCEPT ![a] = n])'
<1>1. /\ UNCHANGED rank /\ committed' = committed \cup {a}
      /\ rank \in [Tids -> Nat] /\ a \notin committed
      /\ ord[w] < n
  BY RankType DEF Commit, ParInv, PieceInv, NumbersInv, Ended
<1>2. QED
  BY <1>1 DEF Before

\* The numbers after a step of a.
NewNumbers(a, ord, n, new) ==
  \/ StartPiece(a) /\ new = [ord EXCEPT ![a] = 0]
  \/ BeginInstall(a) /\ new = [ord EXCEPT ![a] = n]
  \/ Commit(a) /\ new = [ord EXCEPT ![a] = n]
  \/ ~StartPiece(a) /\ ~BeginInstall(a) /\ ~Commit(a) /\ new = ord

\* There are such numbers.
LEMMA NewNumbersExist ==
  ASSUME NEW ord \in [Tids -> Nat], NEW n \in Nat, NEW a \in Tids
  PROVE  \E new \in [Tids -> Nat] : NewNumbers(a, ord, n, new)
<1>1. [ord EXCEPT ![a] = 0] \in [Tids -> Nat] /\ [ord EXCEPT ![a] = n] \in [Tids -> Nat]
  OBVIOUS
<1>2. QED
  BY <1>1 DEF NewNumbers

\* Other steps leave the ranks, and only abort() sets a flag.
LEMMA OtherSteps ==
  ASSUME ParInv, NEW a \in Tids, Step(a), ~StartPiece(a), ~Commit(a)
  PROVE  /\ UNCHANGED rank
         /\ UNCHANGED committed \/ (committed' = committed \cup {a} /\ a \in aborted')
BY DEF Step, ReadOp, WriteOp, LookUpOp, ShouldAbort, Abort, AbortPersist, TryCommitPiece, Validate,
   BeginAddDep, AddDep, BeginInstall, InstallTag, SetAccessInfo, EndInstall, CleanUp, EndCleanUp,
   PersistTxn, Advance, parVars, infoVars

\* Who is ahead stays ahead, if who starts a piece or commits has waited for it.
LEMMA StepBefore ==
  ASSUME ParInv, NEW ord \in [Tids -> Nat], NEW n \in Nat, NumbersInv(ord, n),
         NEW a \in Tids, Step(a), NEW new \in [Tids -> Nat], NewNumbers(a, ord, n, new),
         NEW w \in Tids \ aborted', NEW u \in Tids \ aborted', Before(w, u, ord),
         u = a /\ StartPiece(a) => w \in committed \/ HasStarted(w, CurrentPiece(a).rank),
         u = a /\ Commit(a) => w \in committed
  PROVE  Before(w, u, new)'
<1>1. CASE StartPiece(a)
  <2>1. pc[a] = "idle" /\ pc'[a] = "run"
    BY <1>1 DEF StartPiece, Goto, ParInv, TagsInv, OccTypeOK
  <2>2. new = [ord EXCEPT ![a] = 0]
    BY <1>1, <2>1 DEF NewNumbers, BeginInstall, Commit, Goto, ParInv, TagsInv, OccTypeOK
  <2>3. QED
    BY <1>1, <2>2, StartPieceBefore
<1>2. CASE BeginInstall(a)
  <2>1. new = [ord EXCEPT ![a] = n]
    BY <1>2 DEF NewNumbers, BeginInstall, Commit, StartPiece
  <2>2. QED
    BY <1>2, <2>1, BeginInstallBefore
<1>3. CASE Commit(a)
  <2>1. new = [ord EXCEPT ![a] = n]
    BY <1>3 DEF NewNumbers, BeginInstall, Commit, StartPiece, Goto, ParInv, TagsInv, OccTypeOK
  <2>2. QED
    BY <1>3, <2>1, CommitBefore
<1>4. CASE ~StartPiece(a) /\ ~BeginInstall(a) /\ ~Commit(a)
  <2>1. new = ord
    BY <1>4 DEF NewNumbers
  <2>2. /\ UNCHANGED rank
        /\ UNCHANGED committed \/ (committed' = committed \cup {a} /\ a \in aborted')
    BY <1>4, OtherSteps
  <2>3. QED
    BY <2>1, <2>2 DEF Before
<1>5. QED
  BY <1>1, <1>2, <1>3, <1>4

\* The numbers stay what they stand for.
LEMMA StepNumbers ==
  ASSUME ParInv, NEW ord \in [Tids -> Nat], NEW n \in Nat, NumbersInv(ord, n),
         NEW a \in Tids, Step(a), NEW new \in [Tids -> Nat], NewNumbers(a, ord, n, new)
  PROVE  NumbersInv(new, n + 1)'
<1> USE DEF Labels, Quiet, AllLocked, Ended, InPiece, Installing
<1>0. pc \in [Tids -> Labels] /\ ord[a] < n /\ n # 0
  BY DEF ParInv, TagsInv, OccTypeOK, NumbersInv
<1>1. ASSUME NEW t \in Tids \ {a}
      PROVE  /\ new[t] < n + 1
             /\ pc'[t] \in Installing => new[t] # 0
             /\ pc'[t] \in InPiece \ Installing => new[t] = 0
  <2>1. new[t] = ord[t] /\ pc'[t] = pc[t]
    BY <1>1, StepOthers DEF NewNumbers
  <2>2. QED
    BY <1>1, <2>1 DEF NumbersInv
<1>2. /\ new[a] < n + 1
      /\ pc'[a] \in Installing => new[a] # 0
      /\ pc'[a] \in InPiece \ Installing => new[a] = 0
  <2>1. CASE StartPiece(a)
    <3>1. pc'[a] = "run" /\ new[a] = 0
      BY <1>0, <2>1 DEF StartPiece, BeginInstall, Commit, Goto, NewNumbers
    <3>2. QED
      BY <3>1
  <2>2. CASE BeginInstall(a) \/ Commit(a)
    <3>1. pc'[a] \in {"install", "persist"} /\ new[a] = n
      BY <1>0, <2>2 DEF StartPiece, BeginInstall, Commit, Goto, NewNumbers
    <3>2. QED
      BY <1>0, <3>1
  <2>3. CASE ~StartPiece(a) /\ ~BeginInstall(a) /\ ~Commit(a)
    <3>1. new[a] = ord[a]
      BY <2>3 DEF NewNumbers
    <3>2. \/ pc'[a] \in Installing /\ pc[a] \in Installing
          \/ pc'[a] \in InPiece \ Installing /\ pc[a] \in InPiece \ Installing
          \/ pc'[a] \in Ended \cup {"idle"}
      <4>1. CASE ReadOp(a) \/ WriteOp(a) \/ LookUpOp(a) \/ ShouldAbort(a)
        BY <1>0, <4>1 DEF ReadOp, WriteOp, LookUpOp, ShouldAbort, ReadVersion, ReadData,
           BufferWrite, Running, Goto, occVars
      <4>2. CASE Abort(a) \/ AbortPersist(a) \/ PersistTxn(a) \/ EndCleanUp(a)
        BY <1>0, <4>2 DEF Abort, AbortPersist, PersistTxn, EndCleanUp, CleanedUp, Goto
      <4>3. CASE TryCommitPiece(a) \/ Validate(a) \/ BeginAddDep(a)
        BY <1>0, <4>3 DEF TryCommitPiece, Validate, BeginAddDep, BeginLock, LockTag, CheckOwner,
           BeginCheck, CheckVersion, CommitRound, Checked, Goto
      <4>4. CASE InstallTag(a) \/ EndInstall(a) \/ CleanUp(a)
        BY <1>0, <4>4 DEF InstallTag, EndInstall, CleanUp, InstallData, InstallPush, SetVersion,
           UnlockTag, Goto
      <4>5. CASE \E x \in Objects : AddDep(a, x) \/ SetAccessInfo(a, x)
        BY <1>0, <4>5 DEF AddDep, SetAccessInfo, Goto
      <4>6. QED
        BY <2>3, <4>1, <4>2, <4>3, <4>4, <4>5 DEF Step
    <3>3. QED
      BY <1>0, <3>1, <3>2 DEF NumbersInv
  <2>4. QED
    BY <2>1, <2>2, <2>3
<1>3. QED
  BY <1>1, <1>2 DEF NumbersInv

\* Nobody gets back behind an access.
LEMMA StepReached ==
  ASSUME ParInv, NEW ord \in [Tids -> Nat], NEW n \in Nat, NumbersInv(ord, n),
         NEW a \in Tids, Step(a), NEW new \in [Tids -> Nat], NewNumbers(a, ord, n, new),
         NEW t \in Tids, NEW x \in Objects, Reached(t, x, ord)
  PROVE  Reached(t, x, new)'
<1>0. UNCHANGED program /\ n # 0
  BY StepOthers DEF NumbersInv
<1>1. CASE t # a
  <2>1. rank'[t] = rank[t] /\ new[t] = ord[t]
    BY <1>1, StepOthers DEF NewNumbers
  <2>2. QED
    BY <1>0, <2>1 DEF Reached
<1>2. CASE t = a /\ StartPiece(a)
  <2>1. PICK i \in DOMAIN program[a] :
          x \in Accesses(program[a][i]) /\ program[a][i].rank <= rank[a]
    <3>1. \A i \in DOMAIN program[a] : program[a][i].rank \in Nat
      <4>1. \A i \in DOMAIN program[a] : program[a][i] \in Piece
        BY DEF ParInv, ProgramsInv
      <4>2. QED
        BY <4>1, RankType DEF Piece
    <3>2. QED
      BY <1>2, <3>1, RankType DEF Reached
  <2>2. rank'[a] = CurrentPiece(a).rank
    BY <1>2, RankType DEF StartPiece
  <2>3. rank[a] < CurrentPiece(a).rank
    BY <1>2 DEF StartPiece, ParInv, PieceInv, CurrentPiece, ProgramsInv, InfoInv
  <2>4. program[a][i].rank \in Nat /\ CurrentPiece(a).rank \in Nat
    <3>1. CurrentPiece(a) \in Piece /\ program[a][i] \in Piece
      BY SMTT(30), <1>2, CurrentOpType DEF StartPiece, ParInv, ProgramsInv, InfoInv
    <3>2. QED
      BY <3>1, RankType DEF Piece
  <2>5. program[a][i].rank < rank'[a]
    BY <2>1, <2>2, <2>3, <2>4, RankType
  <2>6. QED
    BY <1>0, <1>2, <2>1, <2>5 DEF Reached
<1>3. CASE t = a /\ ~StartPiece(a)
  <2>1. UNCHANGED rank
    BY <1>3, OtherSteps DEF Commit
  <2>2. ord[a] # 0 => new[a] # 0
    BY <1>0, <1>3 DEF NewNumbers
  <2>3. QED
    BY <1>0, <1>3, <2>1, <2>2 DEF Reached
<1>4. QED
  BY <1>1, <1>2, <1>3

\* The object of a tag has been reached by those it may have to wait for.
LEMMA SamePieceRank ==
  ASSUME ParInv, NEW t \in Tids, pc[t] \in InPiece, NEW x \in tags[t],
         NEW u \in Tids, NEW ord \in [Tids -> Nat], Reached(u, x, ord)
  PROVE  rank[t] < rank[u] \/ (rank[t] = rank[u] /\ ord[u] # 0)
<1>1. /\ piece[t] \in DOMAIN program[t] /\ x \in Accesses(program[t][piece[t]])
      /\ rank[t] = program[t][piece[t]].rank
  BY DEF ParInv, PieceInv, CurrentPiece
<1>2. PICK i \in DOMAIN program[u] :
        /\ x \in Accesses(program[u][i])
        /\ program[u][i].rank < rank[u] \/ (program[u][i].rank = rank[u] /\ ord[u] # 0)
  BY DEF Reached
<1>3. program[u][i].rank = program[t][piece[t]].rank
  BY <1>1, <1>2 DEF ParInv, ProgramsInv
<1>4. QED
  BY <1>1, <1>2, <1>3

\* Every step keeps whom a transaction depends on ahead of it.
LEMMA StepDepsInv ==
  ASSUME ParInv, NEW ord \in [Tids -> Nat], NEW n \in Nat, NumbersInv(ord, n), DepsInv(ord),
         NEW a \in Tids, Step(a), NEW new \in [Tids -> Nat], NewNumbers(a, ord, n, new)
  PROVE  DepsInv(new)'
<1> USE DEF Labels, Quiet, AllLocked, Ended, InPiece, Installing
<1>0. /\ access_info \in [Objects -> Tids \cup {0}] /\ deps \in [Tids -> SUBSET Tids]
      /\ pc \in [Tids -> Labels] /\ aborted \subseteq aborted'
      /\ tags \in [Tids -> SUBSET Objects] /\ todo \in [Tids -> SUBSET Objects] /\ PieceInv(a)
  <2>1. aborted \subseteq aborted'
    BY DEF Step, StartPiece, ReadOp, WriteOp, LookUpOp, ShouldAbort, Abort, AbortPersist,
       TryCommitPiece, Validate, BeginAddDep, AddDep, BeginInstall, InstallTag, SetAccessInfo,
       EndInstall, CleanUp, EndCleanUp, Commit, PersistTxn, Advance, parVars
  <2>2. QED
    BY <2>1 DEF ParInv, InfoInv, TagsInv, OccTypeOK, Values
<1>1. ASSUME NEW x \in Objects, NEW v \in Tids, access_info'[x] = v PROVE Reached(v, x, new)'
  <2>1. CASE access_info'[x] = access_info[x]
    <3>1. Reached(v, x, ord)
      BY <1>1, <2>1, TidsAssumption DEF DepsInv
    <3>2. QED
      BY <3>1, StepReached
  <2>2. CASE access_info'[x] # access_info[x]
    <3>1. SetAccessInfo(a, x) /\ access_info'[x] = a
      <4>1. PICK y \in Objects : SetAccessInfo(a, y)
        BY <2>2 DEF Step, StartPiece, ReadOp, WriteOp, LookUpOp, ShouldAbort, Abort, AbortPersist,
           TryCommitPiece, Validate, BeginAddDep, AddDep, BeginInstall, InstallTag,
           EndInstall, CleanUp, EndCleanUp, Commit, PersistTxn, Advance, parVars
      <4>2. access_info' = [access_info EXCEPT ![y] = a]
        BY <4>1 DEF SetAccessInfo
      <4>3. QED
        BY <1>0, <2>2, <4>1, <4>2
    <3>2. pc[a] \in {"install", "set_info"} /\ x \in todo[a] /\ UNCHANGED <<program, rank>>
      BY <3>1 DEF SetAccessInfo, progVars, infoVars
    <3>3. new = ord
      BY <3>2 DEF NewNumbers, StartPiece, BeginInstall, Commit
    <3>4. /\ piece[a] \in DOMAIN program[a] /\ x \in Accesses(program[a][piece[a]])
          /\ rank[a] = program[a][piece[a]].rank
      BY <1>0, <3>2 DEF PieceInv, CurrentPiece
    <3>5. ord[a] # 0
      BY <3>2 DEF NumbersInv
    <3>6. v = a
      BY <1>1, <3>1
    <3>7. QED
      BY <3>2, <3>3, <3>4, <3>5, <3>6 DEF Reached
  <2>3. QED
    BY <2>1, <2>2
<1>2. ASSUME NEW t \in Tids \ aborted', NEW u \in deps'[t] \ aborted' PROVE Before(u, t, new)'
  <2>1. CASE u \in deps[t]
    <3>1. u \in Tids /\ Before(u, t, ord)
      BY <1>0, <1>2, <2>1 DEF DepsInv
    <3>2. t = a /\ StartPiece(a) => u \in committed \/ HasStarted(u, CurrentPiece(a).rank)
      BY <2>1 DEF StartPiece, DepsStarted
    <3>3. t = a /\ Commit(a) => u \in committed
      BY <2>1 DEF Commit
    <3>4. QED
      BY <1>2, <3>1, <3>2, <3>3, StepBefore
  <2>2. CASE u \notin deps[t]
    <3>1. PICK x \in Objects : AddDep(a, x)
      BY <1>2, <2>2 DEF Step, StartPiece, ReadOp, WriteOp, LookUpOp, ShouldAbort, Abort,
         AbortPersist, TryCommitPiece, Validate, BeginAddDep, SetAccessInfo, BeginInstall,
         InstallTag, EndInstall, CleanUp, EndCleanUp, Commit, PersistTxn, Advance, parVars
    <3>2. /\ pc[a] = "add_dep" /\ x \in todo[a] /\ UNCHANGED <<rank, committed>>
          /\ deps' = [deps EXCEPT ![a] = @ \cup ({access_info[x]} \ (committed \cup {0, a}))]
      BY <3>1 DEF AddDep, infoVars
    <3>3. t = a /\ u = access_info[x] /\ u \in Tids /\ u \notin committed
      BY <1>0, <1>2, <2>2, <3>2
    <3>4. new = ord
      BY <3>1, <3>2 DEF NewNumbers, StartPiece, BeginInstall, Commit, AddDep
    <3>5. Reached(u, x, ord) /\ ord[a] = 0 /\ a \notin committed
      <4>1. Reached(u, x, ord)
        BY <3>3, TidsAssumption DEF DepsInv
      <4>2. QED
        BY <1>0, <3>2, <4>1 DEF NumbersInv, PieceInv
    <3>6. x \in tags[a]
      BY <1>0, <3>2 DEF PieceInv
    <3>7. rank[a] < rank[u] \/ (rank[a] = rank[u] /\ ord[u] # 0)
      BY <3>2, <3>3, <3>5, <3>6, SamePieceRank
    <3>8. Before(u, a, ord)
      BY <3>3, <3>5, <3>7, RankType DEF Before
    <3>9. QED
      BY <3>2, <3>3, <3>4, <3>8 DEF Before
  <2>3. QED
    BY <2>1, <2>2
<1>3. ASSUME NEW x \in Objects, access_info'[x] # 0 PROVE Reached(access_info[x], x, new)'
  <2>1. access_info'[x] \in Tids
    BY <1>3, StepInfoInv DEF InfoInv, Values
  <2>2. QED
    BY <1>1, <2>1 DEF Reached
<1>4. QED
  BY <1>2, <1>3 DEF DepsInv

-----------------------------------------------------------------------------

\* While nobody has aborted, who has called should_abort has not committed.
EarlyInv == aborted = {} => early_abort \cap committed = {}

\* A piece has a tag to write for each write that it has run, unless
\* should_abort has cut it short.
ExecutedInv(t) ==
  /\ pc[t] = "read" =>
       CurrentOp(t).op = Read /\ ip[t] \in DOMAIN CurrentPiece(t).ops
  /\ pc[t] \in InPiece /\ t \notin early_abort =>
       \A k \in DOMAIN CurrentPiece(t).ops :
         CurrentPiece(t).ops[k].op = Write /\ (pc[t] \in {"run", "read"} => k < ip[t]) =>
           CurrentPiece(t).ops[k].obj \in has_write[t]

\* Who has called should_abort aborts before it commits.
LEMMA StepEarlyInv ==
  ASSUME ParInv, EarlyInv, NEW a \in Tids, Step(a)
  PROVE  EarlyInv'
<1>0. (pc[a] = "run" => a \notin committed) /\ early_abort \subseteq Tids
  BY DEF ParInv, PieceInv, InfoInv, Ended
<1>1. QED
  BY <1>0 DEF EarlyInv, Step, StartPiece, ReadOp, WriteOp, LookUpOp, ShouldAbort, Abort,
     AbortPersist, TryCommitPiece, Validate, BeginAddDep, AddDep, BeginInstall, InstallTag,
     SetAccessInfo, Running, EndInstall, CleanUp, EndCleanUp, Commit, PersistTxn, Advance,
     parVars, infoVars, progVars

\* A piece gets a tag with each write that it runs.
LEMMA StepExecutedInv ==
  ASSUME ParInv, NEW a \in Tids, Step(a), NEW t \in Tids, ExecutedInv(t)
  PROVE  ExecutedInv(t)'
<1> USE DEF Labels, Quiet, AllLocked, Ended, InPiece
<1>0. /\ UNCHANGED program /\ pc \in [Tids -> Labels]
      /\ has_write \in [Tids -> SUBSET Objects]
      /\ ip \in [Tids -> Nat \ {0}] /\ PieceInv(a)
  BY StepOthers DEF ParInv, TagsInv, OccTypeOK, InfoInv
<1>1. CASE t # a
  BY <1>0, <1>1, StepOthers DEF ExecutedInv, CurrentOp, CurrentPiece
<1>2. ASSUME piece[a] \in DOMAIN program[a]
      PROVE  /\ DOMAIN CurrentPiece(a).ops = 1..Len(CurrentPiece(a).ops)
             /\ Len(CurrentPiece(a).ops) \in Nat
  <2>1. CurrentPiece(a) \in Piece
    BY <1>2, CurrentOpType DEF ParInv
  <2>2. CurrentPiece(a).ops \in Seq(Operation)
    BY <2>1 DEF Piece
  <2>3. QED
    BY <2>2
<1>3. CASE t = a
  <2>1. CASE StartPiece(a)
    <3>1. pc'[a] = "run" /\ ip'[a] = 1 /\ CurrentPiece(a)' = CurrentPiece(a)
      BY <1>0, <2>1 DEF StartPiece, Goto, CurrentPiece, progVars
    <3>2. piece[a] \in DOMAIN program[a]
      BY <2>1 DEF StartPiece, ParInv, ProgramsInv, InfoInv
    <3>3. QED
      BY <1>2, <1>3, <3>1, <3>2 DEF ExecutedInv
  <2>2. CASE ReadOp(a)
    <3>1. ASSUME Running(a, Read), ReadVersion(a, CurrentOp(a).obj), UNCHANGED parVars
          PROVE  ExecutedInv(a)'
      <4>1. /\ pc[a] = "run" /\ pc'[a] = "read" /\ UNCHANGED <<piece, ip, early_abort, has_write>>
            /\ ip[a] <= Len(CurrentPiece(a).ops) /\ CurrentOp(a).op = Read
        BY <1>0, <3>1 DEF Running, ReadVersion, Goto, parVars, progVars
      <4>2. CurrentPiece(a)' = CurrentPiece(a) /\ CurrentOp(a)' = CurrentOp(a)
        BY <1>0, <4>1 DEF CurrentPiece, CurrentOp
      <4>3. piece[a] \in DOMAIN program[a]
        BY <1>0, <4>1 DEF PieceInv
      <4>4. ip[a] \in DOMAIN CurrentPiece(a).ops
        BY <1>0, <1>2, <4>1, <4>3
      <4>5. QED
        BY <1>3, <4>1, <4>2, <4>4 DEF ExecutedInv
    <3>2. ASSUME ReadData(a), Advance(a) PROVE ExecutedInv(a)'
      <4>1. /\ pc[a] = "read" /\ pc'[a] = "run" /\ UNCHANGED <<piece, early_abort, has_write>>
            /\ ip'[a] = ip[a] + 1 /\ ip[a] \in Nat
        BY <1>0, <3>2 DEF ReadData, Advance, Goto, tagVars, progVars
      <4>2. CurrentPiece(a)' = CurrentPiece(a) /\ CurrentPiece(a).ops[ip[a]].op = Read
        BY <1>0, <1>3, <4>1 DEF CurrentPiece, CurrentOp, ExecutedInv
      <4>3. Read # Write
        BY DEF Read, Write
      <4>4. DOMAIN CurrentPiece(a).ops \subseteq Nat
        BY <1>0, <1>2, <4>1 DEF PieceInv
      <4>5. ASSUME NEW k \in DOMAIN CurrentPiece(a).ops, CurrentPiece(a).ops[k].op = Write,
                   k < ip[a] + 1
            PROVE  k < ip[a]
        BY <4>1, <4>2, <4>3, <4>4, <4>5
      <4>6. QED
        BY <1>3, <4>1, <4>2, <4>5 DEF ExecutedInv
    <3>3. QED
      BY <1>3, <2>2, <3>1, <3>2 DEF ReadOp
  <2>3. CASE WriteOp(a) \/ LookUpOp(a)
    <3>1. /\ pc[a] = "run" /\ pc'[a] = "run" /\ UNCHANGED <<piece, early_abort>>
          /\ ip'[a] = ip[a] + 1 /\ ip[a] \in Nat /\ has_write[a] \subseteq has_write'[a]
          /\ CurrentOp(a).op = Write => CurrentOp(a).obj \in has_write'[a]
      <4>1. CASE WriteOp(a)
        BY <1>0, <4>1 DEF WriteOp, BufferWrite, Advance, progVars
      <4>2. CASE LookUpOp(a)
        BY <1>0, <4>2 DEF LookUpOp, Advance, Running, occVars, tagVars, progVars, LookUp, Write
      <4>3. QED
        BY <2>3, <4>1, <4>2
    <3>2. CurrentPiece(a)' = CurrentPiece(a)
      BY <1>0, <3>1 DEF CurrentPiece
    <3>3. DOMAIN CurrentPiece(a).ops \subseteq Nat
      BY <1>0, <1>2, <3>1 DEF PieceInv
    <3>4. ASSUME NEW k \in DOMAIN CurrentPiece(a).ops, CurrentPiece(a).ops[k].op = Write,
                 k < ip[a] + 1, a \notin early_abort
          PROVE  CurrentPiece(a).ops[k].obj \in has_write'[a]
      <4>1. CASE k = ip[a]
        BY <3>1, <3>4, <4>1 DEF CurrentOp
      <4>2. CASE k # ip[a]
        BY <1>3, <3>1, <3>3, <3>4, <4>2 DEF ExecutedInv
      <4>3. QED
        BY <4>1, <4>2
    <3>5. QED
      BY <1>3, <3>1, <3>2, <3>4 DEF ExecutedInv
  <2>4. CASE ShouldAbort(a)
    BY <1>0, <1>3, <2>4 DEF ShouldAbort, Running, ExecutedInv, occVars
  <2>5. CASE Abort(a) \/ AbortPersist(a) \/ Commit(a) \/ PersistTxn(a)
    <3>1. pc'[a] \in Ended
      BY <1>0, <2>5 DEF Abort, CleanedUp, AbortPersist, Commit, PersistTxn, Goto
    <3>2. QED
      BY <1>3, <3>1 DEF ExecutedInv
  <2>6. CASE TryCommitPiece(a)
    <3>1. /\ pc[a] = "run" /\ pc'[a] = "lock" /\ UNCHANGED <<piece, early_abort, has_write>>
          /\ ip[a] > Len(CurrentPiece(a).ops)
      BY <1>0, <2>6 DEF TryCommitPiece, BeginLock, Goto, tagVars, parVars, progVars
    <3>2. CurrentPiece(a)' = CurrentPiece(a)
      BY <1>0, <3>1 DEF CurrentPiece
    <3>3. \A k \in DOMAIN CurrentPiece(a).ops : k < ip[a]
      BY <1>0, <1>2, <3>1 DEF PieceInv
    <3>4. QED
      BY <1>3, <3>1, <3>2, <3>3 DEF ExecutedInv
  <2>7. CASE Validate(a) \/ BeginAddDep(a) \/ BeginInstall(a) \/ InstallTag(a) \/ EndInstall(a)
             \/ CleanUp(a) \/ \E x \in Objects : AddDep(a, x) \/ SetAccessInfo(a, x)
    <3>1. UNCHANGED <<piece, early_abort, has_write>>
      BY <2>7 DEF Validate, BeginAddDep, BeginInstall, InstallTag, EndInstall, CleanUp, AddDep,
         SetAccessInfo, LockTag, CheckOwner, BeginCheck, CheckVersion, CommitRound, InstallData,
         InstallPush, SetVersion, UnlockTag, tagVars, parVars, progVars
    <3>2. pc[a] \in InPiece \ {"run", "read"} /\ pc'[a] \in InPiece \ {"run", "read"}
      <4>1. CASE Validate(a) \/ BeginAddDep(a) \/ BeginInstall(a)
        BY <1>0, <4>1 DEF Validate, BeginAddDep, BeginInstall, LockTag, CheckOwner, BeginCheck,
           CheckVersion, CommitRound, Checked, Goto
      <4>2. CASE InstallTag(a) \/ EndInstall(a) \/ CleanUp(a)
        BY <1>0, <4>2 DEF InstallTag, EndInstall, CleanUp, InstallData, InstallPush, SetVersion,
           UnlockTag, Goto
      <4>3. CASE \E x \in Objects : AddDep(a, x) \/ SetAccessInfo(a, x)
        BY <1>0, <4>3 DEF AddDep, SetAccessInfo, Goto
      <4>4. QED
        BY <2>7, <4>1, <4>2, <4>3
    <3>3. CurrentPiece(a)' = CurrentPiece(a)
      BY <1>0, <3>1 DEF CurrentPiece
    <3>4. QED
      BY <1>3, <3>1, <3>2, <3>3 DEF ExecutedInv
  <2>8. CASE EndCleanUp(a)
    <3>1. CASE pc[a] = "commit"
      BY <1>0, <1>3, <2>8, <3>1 DEF EndCleanUp, CleanedUp, Goto, ExecutedInv
    <3>2. CASE pc[a] = "abort"
      <4>1. pc'[a] = "run" /\ ip'[a] = 1 /\ piece' = piece
        BY <1>0, <2>8, <3>2 DEF EndCleanUp, CleanedUp, Goto
      <4>2. CurrentPiece(a)' = CurrentPiece(a)
        BY <1>0, <4>1 DEF CurrentPiece
      <4>3. DOMAIN CurrentPiece(a).ops = 1..Len(CurrentPiece(a).ops)
        BY <1>0, <1>2, <3>2 DEF PieceInv
      <4>4. QED
        BY <1>2, <1>3, <4>1, <4>2, <4>3 DEF ExecutedInv
    <3>3. QED
      BY <2>8, <3>1, <3>2 DEF EndCleanUp
  <2>9. QED
    BY <2>1, <2>2, <2>3, <2>4, <2>5, <2>6, <2>7, <2>8 DEF Step
<1>4. QED
  BY <1>1, <1>3

\* A tag of a tracked object is for a write, unless should_abort was called.
LEMMA TrackedWritten ==
  ASSUME ParInv, NEW t \in Tids, ExecutedInv(t), pc[t] \in InPiece \ {"run", "read"},
         t \notin early_abort, NEW x \in tags[t], Tracked(x)
  PROVE  x \in has_write[t]
<1>1. piece[t] \in DOMAIN program[t] /\ x \in Accesses(program[t][piece[t]])
  BY DEF ParInv, PieceInv, CurrentPiece
<1>2. PICK k \in DOMAIN CurrentPiece(t).ops : CurrentPiece(t).ops[k] = [op |-> Write, obj |-> x]
  BY <1>1 DEF Tracked, CurrentPiece
<1>3. QED
  BY <1>2 DEF ExecutedInv

-----------------------------------------------------------------------------

\* Where t installs its tags.
Storing == {"install", "set_version", "set_info"}

\* t has written x.
Wrote(t, x) == \E i \in DOMAIN written[x] : written[x][i] = t

\* Who has written x last.
LastWriter(x) == written[x][Len(written[x])]

\* Until w has committed, u waits for it: directly, or for a transaction that
\* can only abort, at a rank that u does not pass before.
Follows(u, w) ==
  \/ w \in committed \cup deps[u]
  \/ \E t \in deps[u] \cap early_abort : t \notin committed /\ rank[t] <= rank[u]

\* t writes an object once, in the piece that accesses it; while it tells the
\* version and who accessed the object, it is the last that has written it.
WritesInv(t, ord) ==
  /\ \A x \in Objects : Wrote(t, x) => Reached(t, x, ord)
  /\ \A x \in todo[t] :
       pc[t] = "install" \/ (pc[t] \in Storing /\ x # at[t]) => ~Wrote(t, x)
  /\ pc[t] \in {"set_version", "set_info"} =>
       at[t] \in has_write[t] /\ written[at[t]] # <<>> /\ LastWriter(at[t]) = t

\* Who has written an object is ahead of who now holds its lock to write it.
AheadInv(u, ord) ==
  pc[u] \in Storing =>
    \A x \in has_write[u] : \A w \in Tids \ {u} : Wrote(w, x) => Before(w, u, ord)

\* t will abort before it passes its access to x.
StuckAt(t, x) ==
  /\ t \in early_abort
  /\ \E i \in DOMAIN program[t] :
       x \in Accesses(program[t][i]) /\ program[t][i].rank = rank[t]

\* access_info tells who has written a tracked object last, or of a transaction
\* that will abort, unless the writer is still to tell.
TraceInv(x) ==
  Tracked(x) /\ written[x] # <<>> =>
    \/ access_info[x] = LastWriter(x)
    \/ StuckAt(access_info[x], x)
    \/ pc[LastWriter(x)] \in {"set_version", "set_info"} /\ at[LastWriter(x)] = x

\* Who is about to overwrite a tracked object follows its last writer.
HoldInv(u) ==
  \A x \in has_write[u] :
    /\ Tracked(x) /\ ~Wrote(u, x) /\ written[x] # <<>>
    /\ (pc[u] = "add_dep" /\ x \notin todo[u]) \/ pc[u] \in Storing
    => Follows(u, LastWriter(x))

\* Of two writers of a tracked object the earlier one is ahead, and a writer
\* follows the one before.
ChainInv(x, ord) ==
  Tracked(x) =>
    /\ \A i, j \in DOMAIN written[x] : i < j => Before(written[x][i], written[x][j], ord)
    /\ \A j \in DOMAIN written[x] : j > 1 => Follows(written[x][j], written[x][j - 1])

\* The layer of the writers of tracked objects, while nobody has aborted.
PipelineInv(ord) ==
  aborted = {} =>
    /\ \A t \in Tids : WritesInv(t, ord) /\ AheadInv(t, ord) /\ HoldInv(t)
    /\ \A x \in Objects : TraceInv(x) /\ ChainInv(x, ord)

\* In any set, one that nobody is ahead of overwrites none of the others.
LEMMA PipelineInvOrder ==
  ASSUME ParInv, NEW ord \in [Tids -> Nat], PipelineInv(ord)
  PROVE  PipelineOrder
<1> SUFFICES ASSUME aborted = {}, NEW S \in (SUBSET Tids) \ {{}}
             PROVE  \E t \in S : \A u \in S \ {t} : ~OverwritesTracked(t, u)
  BY DEF PipelineOrder
<1>1. PICK t \in S : \A u \in S : ~Before(u, t, ord)
  BY FirstExists
<1>2. ASSUME NEW u \in S \ {t}, OverwritesTracked(t, u) PROVE FALSE
  <2>1. Before(u, t, ord)
    BY <1>2 DEF OverwritesTracked, PipelineInv, ChainInv
  <2>2. QED
    BY <1>1, <2>1
<1>3. QED
  BY <1>2

\* A step leaves ranks numbers.
LEMMA StepRankType ==
  ASSUME ParInv, NEW a \in Tids, Step(a)
  PROVE  rank' \in [Tids -> Nat]
<1>1. rank' \in [Tids -> 0..MaxRank]
  BY StepInfoInv DEF InfoInv
<1>2. QED
  BY <1>1, RankType

\* What only grows while nobody aborts.
LEMMA StepMonotone ==
  ASSUME ParInv, NEW a \in Tids, Step(a), aborted' = {}
  PROVE  /\ aborted = {} /\ ~Abort(a)
         /\ committed \subseteq committed' /\ early_abort \subseteq early_abort'
         /\ \A u \in Tids : deps[u] \subseteq deps'[u] /\ rank[u] <= rank'[u]
         /\ \A u \in early_abort : rank'[u] = rank[u]
<1>0. rank \in [Tids -> Nat] /\ deps \in [Tids -> SUBSET Tids] /\ early_abort \subseteq Tids
  BY RankType DEF ParInv, InfoInv
<1>1. /\ aborted = {} /\ ~Abort(a)
      /\ committed \subseteq committed' /\ early_abort \subseteq early_abort'
  BY DEF Step, StartPiece, ReadOp, WriteOp, LookUpOp, ShouldAbort, Abort, AbortPersist,
     TryCommitPiece, Validate, BeginAddDep, AddDep, BeginInstall, InstallTag, SetAccessInfo,
     EndInstall, CleanUp, EndCleanUp, Commit, PersistTxn, Advance, parVars, infoVars, progVars
<1>2. \A u \in Tids : deps[u] \subseteq deps'[u]
  <2>1. deps[a] \subseteq deps'[a]
    BY <1>0 DEF Step, StartPiece, ReadOp, WriteOp, LookUpOp, ShouldAbort, Abort, AbortPersist,
       TryCommitPiece, Validate, BeginAddDep, AddDep, BeginInstall, InstallTag, SetAccessInfo,
       EndInstall, CleanUp, EndCleanUp, Commit, PersistTxn, Advance, parVars
  <2>2. QED
    BY <2>1, StepOthers
<1>3. CASE StartPiece(a)
  <2>1. rank[a] < rank'[a] /\ a \notin early_abort
    BY <1>0, <1>3 DEF StartPiece, ParInv, PieceInv, CurrentPiece, ProgramsInv, InfoInv
  <2>2. \A u \in Tids \ {a} : rank'[u] = rank[u]
    BY StepOthers
  <2>3. rank' \in [Tids -> Nat]
    BY StepRankType
  <2>4. \A u \in Tids : rank[u] <= rank'[u]
    BY <1>0, <2>1, <2>2, <2>3
  <2>5. QED
    BY <1>0, <1>1, <1>2, <2>1, <2>2, <2>4
<1>4. CASE ~StartPiece(a)
  <2>1. UNCHANGED rank
    BY <1>4, OtherSteps DEF Commit
  <2>2. QED
    BY <1>0, <1>1, <1>2, <2>1
<1>5. QED
  BY <1>3, <1>4

\* Who follows a transaction goes on following it.
LEMMA FollowsKept ==
  ASSUME ParInv, EarlyInv, NEW a \in Tids, Step(a), aborted' = {},
         NEW u \in Tids, NEW w \in Tids, Follows(u, w)
  PROVE  Follows(u, w)'
<1>1. EarlyInv'
  BY StepEarlyInv
<1>2. rank \in [Tids -> Nat] /\ deps \in [Tids -> SUBSET Tids] /\ early_abort' \cap committed' = {}
  BY <1>1, RankType DEF ParInv, InfoInv, EarlyInv
<1>3. rank' \in [Tids -> Nat]
  BY StepRankType
<1>4. CASE w \in committed \cup deps[u]
  BY <1>4, StepMonotone DEF Follows
<1>5. ASSUME NEW t \in deps[u] \cap early_abort, rank[t] <= rank[u] PROVE Follows(u, w)'
  <2>1. t \in deps'[u] \cap early_abort' /\ rank'[t] = rank[t] /\ rank[u] <= rank'[u]
    BY StepMonotone
  <2>2. t \notin committed' /\ rank'[t] <= rank'[u] /\ t \in Tids
    BY <1>2, <1>3, <1>5, <2>1
  <2>3. QED
    BY <2>1, <2>2 DEF Follows
<1>6. QED
  BY <1>4, <1>5 DEF Follows

\* The steps that lead to adding dependencies and to storing.
LEMMA StepTo ==
  ASSUME ParInv, NEW a \in Tids, Step(a)
  PROVE  /\ pc'[a] \in Storing =>
              BeginInstall(a) \/ InstallTag(a) \/ \E x \in Objects : SetAccessInfo(a, x)
         /\ pc'[a] = "add_dep" =>
              /\ BeginAddDep(a) \/ \E x \in Objects : AddDep(a, x)
              /\ UNCHANGED written
<1> USE DEF Labels, Quiet, AllLocked, Storing
<1>0. pc \in [Tids -> Labels]
  BY DEF ParInv, TagsInv, OccTypeOK
<1>1. CASE StartPiece(a) \/ ReadOp(a) \/ WriteOp(a) \/ LookUpOp(a) \/ ShouldAbort(a)
  BY <1>0, <1>1 DEF StartPiece, ReadOp, WriteOp, LookUpOp, ShouldAbort, ReadVersion, ReadData,
     BufferWrite, Running, Goto, occVars
<1>2. CASE Abort(a) \/ AbortPersist(a) \/ Commit(a) \/ PersistTxn(a) \/ EndCleanUp(a)
  BY <1>0, <1>2 DEF Abort, AbortPersist, Commit, PersistTxn, EndCleanUp, CleanedUp, Goto
<1>3. CASE TryCommitPiece(a) \/ Validate(a)
  BY <1>0, <1>3 DEF TryCommitPiece, Validate, BeginLock, LockTag, CheckOwner, BeginCheck,
     CheckVersion, Goto
<1>4. CASE EndInstall(a) \/ CleanUp(a)
  BY <1>0, <1>4 DEF EndInstall, CleanUp, UnlockTag, Goto
<1>5. CASE BeginAddDep(a) \/ \E x \in Objects : AddDep(a, x)
  BY <1>0, <1>5 DEF BeginAddDep, AddDep, CommitRound, Goto, historyVars
<1>6. CASE BeginInstall(a) \/ InstallTag(a) \/ \E x \in Objects : SetAccessInfo(a, x)
  BY <1>0, <1>6 DEF BeginInstall, InstallTag, SetAccessInfo, InstallData, InstallPush, SetVersion,
     Goto
<1>7. QED
  BY <1>1, <1>2, <1>3, <1>4, <1>5, <1>6 DEF Step

\* Two transactions never hold the lock of one object.
LEMMA OneHolder ==
  ASSUME ParInv, NEW t \in Tids, NEW u \in Tids, pc[t] \in AllLocked, pc[u] \in AllLocked,
         NEW x \in has_write[t] \cap has_write[u]
  PROVE  t = u
<1>1. x \in is_lock[t] /\ x \in is_lock[u] /\ x \in Objects
  BY DEF ParInv, TagsInv, RoundInv, OccTypeOK
<1>2. QED
  BY <1>1 DEF ParInv, TagsInv, LocksOwned

\* The writers after a step.
LEMMA StepWritten ==
  ASSUME ParInv, NEW a \in Tids, Step(a)
  PROVE  \/ UNCHANGED written
         \/ \E x \in Objects : InstallData(a, x) /\ InstallTag(a)
BY DEF Step, StartPiece, ReadOp, WriteOp, LookUpOp, ShouldAbort, Abort, AbortPersist,
   TryCommitPiece, Validate, BeginAddDep, AddDep, BeginInstall, InstallTag, SetAccessInfo,
   EndInstall, CleanUp, EndCleanUp, Commit, PersistTxn, ReadVersion, ReadData, BufferWrite,
   BeginLock, LockTag, CheckOwner, BeginCheck, CheckVersion, CommitRound, InstallPush,
   SetVersion, UnlockTag, CleanedUp, occVars, historyVars

\* The step that writes an object: a becomes its last writer.
LEMMA InstallDataWritten ==
  ASSUME ParInv, NEW a \in Tids, NEW x \in Objects, InstallData(a, x)
  PROVE  /\ pc[a] = "install" /\ x \in todo[a] \cap has_write[a] /\ x \in tags[a]
         /\ pc'[a] = "set_version" /\ at'[a] = x /\ UNCHANGED <<todo, has_write, tags>>
         /\ \A y \in Objects \ {x} : written'[y] = written[y]
         /\ Len(written[x]) \in Nat /\ Len(written'[x]) = Len(written[x]) + 1
         /\ DOMAIN written[x] = 1..Len(written[x])
         /\ DOMAIN written'[x] = 1..(Len(written[x]) + 1)
         /\ \A i \in DOMAIN written[x] : written'[x][i] = written[x][i]
         /\ written'[x][Len(written[x]) + 1] = a
         /\ \A t \in Tids, y \in Objects : Wrote(t, y)' <=> Wrote(t, y) \/ (t = a /\ y = x)
<1>1. /\ pc \in [Tids -> Labels] /\ at \in [Tids -> Objects]
      /\ written \in [Objects -> Seq(Tids)] /\ has_write[a] \subseteq tags[a]
  BY DEF ParInv, TagsInv, OccTypeOK
<1>2. written' = [written EXCEPT ![x] = Append(written[x], a)]
  BY DEF InstallData
<1>3. written'[x] = Append(written[x], a) /\ written[x] \in Seq(Tids)
  BY <1>1, <1>2
<1>4. /\ Len(written[x]) \in Nat /\ Len(written'[x]) = Len(written[x]) + 1
      /\ DOMAIN written[x] = 1..Len(written[x])
      /\ DOMAIN written'[x] = 1..(Len(written[x]) + 1)
      /\ \A i \in DOMAIN written[x] : written'[x][i] = written[x][i]
      /\ written'[x][Len(written[x]) + 1] = a
  BY <1>3
<1>5. \A y \in Objects \ {x} : written'[y] = written[y]
  BY <1>1, <1>2
<1>6. ASSUME NEW t \in Tids, NEW y \in Objects
      PROVE  Wrote(t, y)' <=> Wrote(t, y) \/ (t = a /\ y = x)
  <2>1. CASE y # x
    BY <1>5, <2>1 DEF Wrote
  <2>2. CASE y = x
    <3>1. DOMAIN written'[x] = DOMAIN written[x] \cup {Len(written[x]) + 1}
      BY <1>4
    <3>2. QED
      BY <1>4, <2>2, <3>1 DEF Wrote
  <2>3. QED
    BY <2>1, <2>2
<1>7. QED
  BY <1>1, <1>4, <1>5, <1>6 DEF InstallData, Goto, tagVars

\* Every step keeps what is known of a writer,
LEMMA StepWritesInv ==
  ASSUME ParInv, NEW ord \in [Tids -> Nat], NEW n \in Nat, NumbersInv(ord, n),
         NEW a \in Tids, Step(a), NEW new \in [Tids -> Nat], NewNumbers(a, ord, n, new),
         NEW t \in Tids, WritesInv(t, ord)
  PROVE  WritesInv(t, new)'
<1> USE DEF Storing
<1>0. /\ pc \in [Tids -> Labels] /\ todo \in [Tids -> SUBSET Objects] /\ at \in [Tids -> Objects]
      /\ PieceInv(a) /\ tags \in [Tids -> SUBSET Objects] /\ has_write \in [Tids -> SUBSET Objects]
      /\ todo' \in [Tids -> SUBSET Objects]
  BY StepIsTagStep, TagStepInv DEF ParInv, TagsInv, OccTypeOK
<1>1. ASSUME NEW x \in Objects, Wrote(t, x)' PROVE Reached(t, x, new)'
  <2>1. CASE Wrote(t, x)
    BY <2>1, StepReached DEF WritesInv
  <2>2. CASE ~Wrote(t, x)
    <3>1. InstallData(a, x) /\ t = a
      <4>1. PICK y \in Objects : InstallData(a, y)
        BY <1>1, <2>2, StepWritten DEF Wrote
      <4>2. QED
        BY <1>1, <2>2, <4>1, InstallDataWritten
    <3>2. pc[a] = "install" /\ x \in tags[a]
      BY <3>1, InstallDataWritten
    <3>3. ord[a] # 0
      BY <3>2 DEF NumbersInv, Installing
    <3>4. Reached(a, x, ord)
      BY <1>0, <3>2, <3>3 DEF PieceInv, CurrentPiece, InPiece, Labels, AllLocked, Quiet, Ended,
         Reached
    <3>5. QED
      BY <3>1, <3>4, StepReached
  <2>3. QED
    BY <2>1, <2>2
<1>2. CASE t # a
  <2>1. /\ pc'[t] = pc[t] /\ todo'[t] = todo[t] /\ at'[t] = at[t]
        /\ has_write'[t] = has_write[t]
    BY <1>2, StepOthers
  <2>2. \A x \in Objects : Wrote(t, x)' <=> Wrote(t, x)
    BY <1>2, StepWritten, InstallDataWritten DEF Wrote
  <2>3. ASSUME pc[t] \in {"set_version", "set_info"}
        PROVE  /\ written'[at[t]] # <<>>
               /\ written'[at[t]][Len(written'[at[t]])] = t
    <3>1. CASE UNCHANGED written
      BY <2>3, <3>1 DEF WritesInv, LastWriter
    <3>2. ASSUME NEW x \in Objects, InstallData(a, x) PROVE written'[at[t]] = written[at[t]]
      <4>1. pc[a] = "install" /\ x \in has_write[a]
        BY <3>2 DEF InstallData
      <4>2. at[t] \in has_write[t]
        BY <2>3 DEF WritesInv
      <4>3. x # at[t]
        BY <1>2, <2>3, <4>1, <4>2, OneHolder DEF AllLocked
      <4>4. QED
        BY <1>0, <3>2, <4>3, InstallDataWritten
    <3>3. QED
      BY <2>3, <3>1, <3>2, StepWritten DEF WritesInv, LastWriter
  <2>4. QED
    BY <1>0, <1>1, <2>1, <2>2, <2>3 DEF WritesInv, LastWriter
<1>3. CASE t = a
  <2>1. CASE pc'[a] \notin Storing
    BY <1>1, <1>3, <2>1 DEF WritesInv
  <2>2. CASE BeginInstall(a)
    <3>1. pc[a] = "add_dep" /\ pc'[a] = "install" /\ todo'[a] = tags[a] /\ UNCHANGED written
      BY <1>0, <2>2 DEF BeginInstall, Goto, Visit, historyVars
    <3>2. ASSUME NEW x \in tags[a], Wrote(a, x) PROVE FALSE
      <4>1. x \in Objects
        BY <1>0
      <4>2. Reached(a, x, ord) /\ ord[a] = 0
        BY <1>3, <3>1, <3>2, <4>1 DEF WritesInv, NumbersInv, InPiece, Installing, Labels, AllLocked,
           Quiet, Ended
      <4>3. QED
        BY <3>1, <3>2, <4>2, SamePieceRank, RankType DEF InPiece, Labels, AllLocked, Quiet, Ended
    <3>3. QED
      BY <1>1, <1>3, <3>1, <3>2 DEF WritesInv, Wrote
  <2>3. ASSUME NEW x \in Objects, InstallData(a, x) PROVE WritesInv(a, new)'
    <3>1. /\ pc[a] = "install" /\ pc'[a] = "set_version" /\ at'[a] = x /\ todo'[a] = todo[a]
          /\ x \in has_write'[a] /\ written'[x] # <<>>
          /\ written'[x][Len(written'[x])] = a
      BY <2>3, InstallDataWritten
    <3>2. \A y \in todo[a] : y # x => ~Wrote(a, y)'
      BY <1>0, <1>3, <2>3, <3>1, InstallDataWritten DEF WritesInv
    <3>3. QED
      BY <1>1, <1>3, <3>1, <3>2 DEF WritesInv, LastWriter
  <2>4. ASSUME NEW x \in Objects, InstallPush(a, x) PROVE WritesInv(a, new)'
    <3>1. pc[a] = "install" /\ UNCHANGED <<pc, written>> /\ todo'[a] \subseteq todo[a]
      BY <1>0, <2>4 DEF InstallPush, Visited, Visit, historyVars
    <3>2. QED
      BY <1>1, <1>3, <3>1 DEF WritesInv, Wrote
  <2>5. CASE SetVersion(a) /\ Goto(a, "set_info") /\ UNCHANGED todo
    <3>1. /\ pc[a] = "set_version" /\ pc'[a] = "set_info"
          /\ UNCHANGED <<todo, at, has_write, written>>
      BY <1>0, <2>5 DEF SetVersion, Goto, historyVars, tagVars
    <3>2. QED
      BY <1>1, <1>3, <3>1 DEF WritesInv, Wrote, LastWriter
  <2>6. ASSUME NEW x \in Objects, SetAccessInfo(a, x) PROVE WritesInv(a, new)'
    <3>1. /\ pc[a] = "install" \/ (pc[a] = "set_info" /\ x = at[a])
          /\ pc'[a] = "install" /\ todo'[a] = todo[a] \ {x} /\ UNCHANGED written
      BY <1>0, <2>6 DEF SetAccessInfo, Goto, Visited, Visit, historyVars
    <3>2. QED
      BY <1>1, <1>3, <3>1 DEF WritesInv, Wrote
  <2>7. QED
    BY <1>3, <2>1, <2>2, <2>3, <2>4, <2>5, <2>6, StepTo DEF InstallTag
<1>4. QED
  BY <1>2, <1>3

\* that who has written an object is ahead of who holds its lock,
LEMMA StepAheadInv ==
  ASSUME ParInv, NEW ord \in [Tids -> Nat], NEW n \in Nat, NumbersInv(ord, n),
         NEW a \in Tids, Step(a), NEW new \in [Tids -> Nat], NewNumbers(a, ord, n, new),
         aborted' = {}, NEW u \in Tids, \A t \in Tids : WritesInv(t, ord), AheadInv(u, ord)
  PROVE  AheadInv(u, new)'
<1> USE DEF Storing
<1>0. /\ pc \in [Tids -> Labels] /\ PieceInv(a)
      /\ has_write[a] \subseteq tags[a] /\ has_write \in [Tids -> SUBSET Objects]
  BY DEF ParInv, TagsInv, OccTypeOK
<1> SUFFICES ASSUME pc'[u] \in Storing, NEW x \in has_write'[u], NEW w \in Tids \ {u}, Wrote(w, x)'
             PROVE  Before(w, u, new)'
  BY DEF AheadInv
<1>1. CASE u = a /\ BeginInstall(a)
  <2>1. /\ pc[a] = "add_dep" /\ UNCHANGED <<has_write, rank, committed, written>>
        /\ new = [ord EXCEPT ![a] = n]
    BY <1>1 DEF BeginInstall, tagVars, historyVars, parVars, infoVars, NewNumbers, StartPiece,
       Commit
  <2>2. x \in tags[a] /\ x \in Objects /\ Wrote(w, x)
    BY <1>0, <1>1, <2>1 DEF Wrote
  <2>3. rank[a] < rank[w] \/ (rank[a] = rank[w] /\ ord[w] # 0)
    <3>1. Reached(w, x, ord)
      BY <2>2 DEF WritesInv
    <3>2. QED
      BY <2>1, <2>2, <3>1, SamePieceRank DEF InPiece, Labels, AllLocked, Quiet, Ended
  <2>4. a \notin committed /\ ord[w] < n /\ w # a
    BY <1>0, <1>1, <2>1 DEF PieceInv, Ended, NumbersInv
  <2>5. QED
    BY <1>1, <2>1, <2>3, <2>4, RankType DEF Before
<1>2. CASE ~(u = a /\ BeginInstall(a))
  <2>1. pc[u] \in Storing /\ x \in has_write[u] /\ x \in Objects
    <3>1. CASE u # a
      BY <1>0, <3>1, StepOthers
    <3>2. CASE u = a
      <4>1. InstallTag(a) \/ \E y \in Objects : SetAccessInfo(a, y)
        BY <1>2, <3>2, StepTo
      <4>2. UNCHANGED has_write /\ pc[a] \in Storing
        BY <4>1 DEF InstallTag, SetAccessInfo, InstallData, InstallPush, SetVersion, tagVars
      <4>3. QED
        BY <1>0, <3>2, <4>2
    <3>3. QED
      BY <3>1, <3>2
  <2>2. Wrote(w, x)
    <3>1. CASE UNCHANGED written
      BY <3>1 DEF Wrote
    <3>2. ASSUME NEW y \in Objects, InstallData(a, y) PROVE Wrote(w, x)
      <4>1. CASE w = a /\ y = x
        <5>1. pc[a] = "install" /\ x \in has_write[a]
          BY <3>2, <4>1, InstallDataWritten
        <5>2. QED
          BY <2>1, <4>1, <5>1, OneHolder DEF AllLocked
      <4>2. QED
        BY <2>1, <3>2, <4>1, InstallDataWritten
    <3>3. QED
      BY <3>1, <3>2, StepWritten
  <2>3. Before(w, u, ord)
    BY <2>1, <2>2 DEF AheadInv
  <2>4. u = a => ~StartPiece(a) /\ ~Commit(a)
    BY <2>1 DEF StartPiece, Commit
  <2>5. QED
    BY <2>3, <2>4, StepBefore
<1>3. QED
  BY <1>1, <1>2

\* The writers of an object that a step does not write.
LEMMA LastWriterType ==
  ASSUME ParInv, NEW x \in Objects, written[x] # <<>>
  PROVE  /\ LastWriter(x) \in Tids /\ Wrote(LastWriter(x), x)
         /\ Len(written[x]) \in DOMAIN written[x]
<1>1. written[x] \in Seq(Tids)
  BY DEF ParInv, TagsInv, OccTypeOK
<1>2. Len(written[x]) \in DOMAIN written[x] /\ LastWriter(x) \in Tids
  BY <1>1 DEF LastWriter
<1>3. QED
  BY <1>2 DEF LastWriter, Wrote

\* that access_info leads to who has written last,
LEMMA StepTraceInv ==
  ASSUME ParInv, NEW a \in Tids, Step(a), aborted' = {},
         \A t \in Tids : ExecutedInv(t), NEW ord, \A t \in Tids : WritesInv(t, ord),
         NEW x \in Objects, TraceInv(x)
  PROVE  TraceInv(x)'
<1> USE DEF Storing
<1>0. /\ pc \in [Tids -> Labels] /\ at \in [Tids -> Objects] /\ UNCHANGED program
      /\ access_info \in [Objects -> Values] /\ early_abort \subseteq Tids /\ PieceInv(a)
      /\ todo \in [Tids -> SUBSET Objects] /\ has_write[a] \subseteq tags[a]
  BY StepOthers DEF ParInv, TagsInv, OccTypeOK, InfoInv
<1> SUFFICES ASSUME Tracked(x)', written'[x] # <<>>
             PROVE  \/ access_info'[x] = LastWriter(x)'
                    \/ StuckAt(access_info[x], x)'
                    \/ pc'[LastWriter(x)'] \in {"set_version", "set_info"} /\ at'[LastWriter(x)'] = x
  BY DEF TraceInv, LastWriter
<1>1. Tracked(x)
  BY <1>0 DEF Tracked
<1>2. CASE InstallData(a, x)
  <2>1. LastWriter(x)' = a /\ pc'[a] = "set_version" /\ at'[a] = x
    BY <1>2, InstallDataWritten DEF LastWriter
  <2>2. QED
    BY <2>1
<1>3. CASE ~InstallData(a, x)
  <2>1. written'[x] = written[x] /\ LastWriter(x)' = LastWriter(x)
    BY <1>3, StepWritten, InstallDataWritten DEF LastWriter
  <2>2. LastWriter(x) \in Tids /\ written[x] # <<>>
    BY <2>1, LastWriterType
  <2>3. CASE SetAccessInfo(a, x)
    <3>1. /\ x \in todo[a] /\ access_info'[x] = a /\ UNCHANGED <<rank, early_abort>>
          /\ \/ pc[a] = "install" /\ x \notin has_write[a]
             \/ pc[a] = "set_info" /\ x = at[a]
      BY <1>0, <2>3 DEF SetAccessInfo, infoVars, progVars
    <3>2. CASE pc[a] = "set_info" /\ x = at[a]
      BY <2>1, <3>1, <3>2 DEF WritesInv
    <3>3. CASE pc[a] = "install" /\ x \notin has_write[a]
      <4>1. x \in tags[a] /\ a \in early_abort
        BY <1>0, <1>1, <3>1, <3>3, TrackedWritten DEF PieceInv, InPiece, Labels, Quiet,
           AllLocked, Ended
      <4>2. /\ piece[a] \in DOMAIN program[a] /\ x \in Accesses(program[a][piece[a]])
            /\ rank[a] = program[a][piece[a]].rank
        BY <1>0, <3>3, <4>1 DEF PieceInv, CurrentPiece, InPiece, Labels, Quiet, AllLocked, Ended
      <4>3. StuckAt(access_info[x], x)'
        BY <1>0, <3>1, <4>1, <4>2 DEF StuckAt
      <4>4. QED
        BY <4>3
    <3>4. QED
      BY <3>1, <3>2, <3>3
  <2>4. CASE ~SetAccessInfo(a, x)
    <3>1. access_info'[x] = access_info[x]
      BY <1>0, <2>4 DEF Step, StartPiece, ReadOp, WriteOp, LookUpOp, ShouldAbort, Abort,
         AbortPersist, TryCommitPiece, Validate, BeginAddDep, AddDep, BeginInstall, InstallTag,
         SetAccessInfo, EndInstall, CleanUp, EndCleanUp, Commit, PersistTxn, Advance, parVars
    <3>2. CASE access_info[x] = LastWriter(x)
      BY <2>1, <3>1, <3>2
    <3>3. CASE StuckAt(access_info[x], x)
      <4>1. access_info[x] \in early_abort' /\ rank'[access_info[x]] = rank[access_info[x]]
        BY <3>3, StepMonotone DEF StuckAt
      <4>2. StuckAt(access_info[x], x)'
        BY <1>0, <3>1, <3>3, <4>1 DEF StuckAt
      <4>3. QED
        BY <4>2
    <3>4. CASE pc[LastWriter(x)] \in {"set_version", "set_info"} /\ at[LastWriter(x)] = x
      <4>1. CASE LastWriter(x) # a
        <5>1. \A w \in Tids \ {a} : pc'[w] = pc[w] /\ at'[w] = at[w]
          BY StepOthers
        <5>2. QED
          BY <2>1, <2>2, <3>4, <4>1, <5>1
      <4>2. CASE LastWriter(x) = a
        <5>1. CASE SetVersion(a) /\ Goto(a, "set_info") /\ UNCHANGED todo
          BY <1>0, <2>1, <3>4, <4>2, <5>1 DEF SetVersion, Goto
        <5>2. CASE ~SetVersion(a)
          <6>1. UNCHANGED <<pc, at>>
            BY <1>0, <2>4, <3>4, <4>2, <5>2 DEF Step, StartPiece, ReadOp, WriteOp, LookUpOp,
               ShouldAbort, Abort, MayAbort, Running, AbortPersist, TryCommitPiece, Validate,
               BeginLock, LockTag, CheckOwner, BeginCheck, CheckVersion, CommitRound, Checked,
               BeginAddDep, AddDep, BeginInstall, InstallTag, InstallData, InstallPush,
               SetAccessInfo, EndInstall, CleanUp, UnlockTag, EndCleanUp, Commit, PersistTxn,
               ReadVersion, ReadData, BufferWrite
          <6>2. QED
            BY <2>1, <3>4, <6>1
        <5>3. CASE SetVersion(a) /\ ~(Goto(a, "set_info") /\ UNCHANGED todo)
          <6>1. pc[a] = "set_version"
            BY <5>3 DEF SetVersion
          <6>2. FALSE
            BY <1>0, <5>3, <6>1 DEF Step, StartPiece, ReadOp, WriteOp, LookUpOp, ShouldAbort,
               Abort, MayAbort, Running, AbortPersist, TryCommitPiece, Validate, BeginLock,
               LockTag, CheckOwner, BeginCheck, CheckVersion, CommitRound, Checked, BeginAddDep,
               AddDep, BeginInstall, InstallTag, InstallData, InstallPush, SetAccessInfo,
               EndInstall, CleanUp, UnlockTag, EndCleanUp, Commit, PersistTxn, ReadVersion,
               ReadData, BufferWrite
          <6>3. QED
            BY <6>2
        <5>4. QED
          BY <5>1, <5>2, <5>3
      <4>3. QED
        BY <4>1, <4>2
    <3>5. QED
      BY <1>1, <2>2, <3>2, <3>3, <3>4 DEF TraceInv
  <2>5. QED
    BY <2>3, <2>4
<1>4. QED
  BY <1>2, <1>3

\* that who is about to overwrite follows it,
LEMMA StepHoldInv ==
  ASSUME ParInv, EarlyInv, NEW ord \in [Tids -> Nat], NEW n \in Nat, NumbersInv(ord, n),
         DepsInv(ord), NEW a \in Tids, Step(a), aborted' = {}, NEW u \in Tids, HoldInv(u),
         \A t \in Tids : WritesInv(t, ord), \A x \in Objects : TraceInv(x)
  PROVE  HoldInv(u)'
<1> USE DEF Storing
<1>0. /\ pc \in [Tids -> Labels] /\ todo \in [Tids -> SUBSET Objects] /\ PieceInv(a)
      /\ has_write \in [Tids -> SUBSET Objects] /\ has_write[a] \subseteq tags[a]
      /\ access_info \in [Objects -> Values] /\ deps \in [Tids -> SUBSET Tids]
      /\ early_abort \subseteq Tids /\ UNCHANGED program
  BY StepOthers DEF ParInv, TagsInv, OccTypeOK, InfoInv
<1> SUFFICES ASSUME NEW x \in has_write'[u], Tracked(x)', ~Wrote(u, x)', written'[x] # <<>>,
                    (pc'[u] = "add_dep" /\ x \notin todo'[u]) \/ pc'[u] \in Storing
             PROVE  Follows(u, LastWriter(x))'
  BY DEF HoldInv
<1>1. Tracked(x)
  BY <1>0 DEF Tracked
<1>2. /\ x \in has_write[u] /\ x \in Objects
      /\ pc[u] \in {"add_dep"} \cup Storing \/ (pc'[u] = "add_dep" /\ BeginAddDep(u) /\ u = a)
  <2>1. CASE u # a
    BY <1>0, <2>1, StepOthers
  <2>2. CASE u = a
    <3>1. \/ BeginInstall(a) \/ InstallTag(a) \/ BeginAddDep(a)
          \/ \E y \in Objects : SetAccessInfo(a, y) \/ AddDep(a, y)
      BY <2>2, StepTo
    <3>2. /\ UNCHANGED has_write
          /\ pc[a] \in {"add_dep"} \cup Storing \/ BeginAddDep(a)
      BY <3>1 DEF BeginInstall, InstallTag, BeginAddDep, SetAccessInfo, AddDep, InstallData,
         InstallPush, SetVersion, CommitRound, tagVars
    <3>3. BeginAddDep(a) => pc'[a] = "add_dep"
      BY <1>0 DEF BeginAddDep, CommitRound, Goto
    <3>4. QED
      BY <1>0, <2>2, <3>2, <3>3
  <2>3. QED
    BY <2>1, <2>2
<1>3. CASE u = a /\ BeginAddDep(a)
  <2>1. todo'[a] = has_write[a] /\ pc'[a] = "add_dep"
    BY <1>0, <1>3 DEF BeginAddDep, CommitRound, Goto, Visit
  <2>2. QED
    BY <1>2, <1>3, <2>1
<1>4. CASE ~(u = a /\ BeginAddDep(a))
  <2>1. pc[u] \in {"add_dep"} \cup Storing
    BY <1>2, <1>4
  <2>2. written'[x] = written[x] /\ LastWriter(x)' = LastWriter(x) /\ ~Wrote(u, x)
    <3>1. ASSUME InstallData(a, x) PROVE FALSE
      <4>1. pc[a] = "install" /\ x \in has_write[a] /\ Wrote(a, x)'
        BY <1>2, <3>1, InstallDataWritten
      <4>2. a = u
        BY <1>2, <2>1, <4>1, OneHolder DEF AllLocked
      <4>3. QED
        BY <4>1, <4>2
    <3>2. written'[x] = written[x]
      BY <1>2, <3>1, StepWritten, InstallDataWritten
    <3>3. QED
      BY <3>2 DEF LastWriter, Wrote
  <2>3. LastWriter(x) \in Tids /\ Wrote(LastWriter(x), x) /\ written[x] # <<>>
    BY <1>2, <2>2, LastWriterType
  <2>4. CASE (pc[u] = "add_dep" /\ x \notin todo[u]) \/ pc[u] \in Storing
    <3>1. Follows(u, LastWriter(x))
      BY <1>1, <1>2, <2>2, <2>3, <2>4 DEF HoldInv
    <3>2. ASSUME NEW w \in Tids, w = LastWriter(x) PROVE Follows(u, w)'
      BY <3>1, <3>2, FollowsKept
    <3>3. QED
      BY <2>2, <2>3, <3>2 DEF Follows
  <2>5. CASE pc[u] = "add_dep" /\ x \in todo[u]
    <3>1. u = a
      BY <2>5, StepOthers
    <3>2. AddDep(a, x)
      <4>1. BeginInstall(a) \/ \E y \in Objects : AddDep(a, y)
        BY <1>4, <2>5, <3>1, StepTo DEF InstallTag, SetAccessInfo, InstallData, InstallPush,
           SetVersion
      <4>2. ~BeginInstall(a)
        BY <2>5, <3>1 DEF BeginInstall
      <4>3. PICK y \in Objects : AddDep(a, y)
        BY <4>1, <4>2
      <4>4. pc'[a] = "add_dep" /\ todo'[a] = todo[a] \ {y}
        BY <1>0, <4>3, <2>5, <3>1 DEF AddDep, Visited, Visit
      <4>5. QED
        BY <2>5, <3>1, <4>3, <4>4
    <3>3. /\ deps' = [deps EXCEPT ![a] = @ \cup ({access_info[x]} \ (committed \cup {0, a}))]
          /\ UNCHANGED <<rank, committed, early_abort>>
      BY <3>2 DEF AddDep, infoVars, progVars
    <3>4. access_info[x] \notin committed \cup {0, a} => access_info[x] \in deps'[a]
      BY <1>0, <3>3
    <3>5. CASE access_info[x] = LastWriter(x)
      <4>1. access_info[x] \notin {0, a}
        BY <2>2, <2>3, <3>1, <3>5, TidsAssumption
      <4>2. LastWriter(x) \in committed \cup deps'[a]
        BY <3>4, <3>5, <4>1
      <4>3. QED
        BY <2>2, <3>1, <3>3, <4>2 DEF Follows
    <3>6. CASE StuckAt(access_info[x], x)
      <4>1. PICK t \in early_abort : t = access_info[x]
        BY <3>6 DEF StuckAt
      <4>2. PICK i \in DOMAIN program[t] :
              x \in Accesses(program[t][i]) /\ program[t][i].rank = rank[t]
        BY <3>6, <4>1 DEF StuckAt
      <4>3. /\ x \in tags[a] /\ pc[a] \in InPiece /\ ord[a] = 0
            /\ piece[a] \in DOMAIN program[a] /\ x \in Accesses(program[a][piece[a]])
            /\ rank[a] = program[a][piece[a]].rank
        BY <1>0, <1>2, <2>5, <3>1 DEF PieceInv, CurrentPiece, NumbersInv, InPiece, Installing,
           Labels, Quiet, AllLocked, Ended
      <4>4. t \in Tids /\ program[t][i].rank = program[a][piece[a]].rank
        BY <1>0, <4>2, <4>3 DEF ParInv, ProgramsInv
      <4>5. rank[t] = rank[a]
        BY <4>2, <4>3, <4>4
      <4>6. t # a
        <5>1. ASSUME t = a PROVE FALSE
          <6>1. Reached(a, x, ord)
            BY <1>2, <4>1, <5>1, TidsAssumption DEF DepsInv
          <6>2. rank[a] < rank[a] \/ ord[a] # 0
            BY <4>3, <6>1, SamePieceRank
          <6>3. rank[a] \in Nat
            BY RankType
          <6>4. QED
            BY <4>3, <6>2, <6>3
        <5>2. QED
          BY <5>1
      <4>7. t \notin committed
        BY StepMonotone DEF EarlyInv
      <4>8. t # 0
        BY <4>4, TidsAssumption
      <4>9. t \in deps'[a] \cap early_abort' /\ t \notin committed' /\ rank'[t] <= rank'[a]
        BY <3>3, <3>4, <4>1, <4>4, <4>5, <4>6, <4>7, <4>8, RankType
      <4>10. QED
        BY <3>1, <4>9 DEF Follows
    <3>7. CASE pc[LastWriter(x)] \in {"set_version", "set_info"} /\ at[LastWriter(x)] = x
      <4>1. x \in has_write[LastWriter(x)]
        BY <2>3, <3>7 DEF WritesInv
      <4>2. LastWriter(x) = u
        BY <1>2, <2>3, <2>5, <3>7, <4>1, OneHolder DEF AllLocked
      <4>3. QED
        BY <2>2, <2>3, <4>2
    <3>8. QED
      BY <1>1, <1>2, <2>3, <3>5, <3>6, <3>7 DEF TraceInv
  <2>6. QED
    BY <2>1, <2>4, <2>5
<1>5. QED
  BY <1>3, <1>4

\* and that writers follow each other in order.
LEMMA StepChainInv ==
  ASSUME ParInv, EarlyInv, NEW ord \in [Tids -> Nat], NEW n \in Nat, NumbersInv(ord, n),
         NEW a \in Tids, Step(a), NEW new \in [Tids -> Nat], NewNumbers(a, ord, n, new),
         aborted' = {}, \A t \in Tids : WritesInv(t, ord) /\ AheadInv(t, ord) /\ HoldInv(t),
         NEW x \in Objects, ChainInv(x, ord)
  PROVE  ChainInv(x, new)'
<1>0. /\ written[x] \in Seq(Tids) /\ UNCHANGED program /\ aborted = {}
      /\ deps \in [Tids -> SUBSET Tids] /\ early_abort \subseteq Tids
  BY StepOthers, StepMonotone DEF ParInv, TagsInv, OccTypeOK, InfoInv
<1>a. rank \in [Tids -> Nat]
  BY RankType
<1>b. DOMAIN written[x] = 1..Len(written[x]) /\ \A i \in DOMAIN written[x] : written[x][i] \in Tids
  BY <1>0
<1>c. /\ DOMAIN written'[x] = 1..Len(written'[x])
      /\ \A i \in DOMAIN written'[x] : written'[x][i] \in Tids
  <2>1. written'[x] \in Seq(Tids)
    BY StepIsTagStep, TagStepInv DEF ParInv, TagsInv, OccTypeOK
  <2>2. QED
    BY <2>1
<1> SUFFICES ASSUME Tracked(x), NEW j \in DOMAIN written'[x], NEW u \in Tids, u = written'[x][j]
             PROVE  /\ \A i \in DOMAIN written'[x] : i < j =>
                         \A w \in Tids : w = written'[x][i] => Before(w, u, new)'
                    /\ j > 1 => \A w \in Tids : w = written'[x][j - 1] => Follows(u, w)'
  <2> USE DEF Tracked
  <2>1. Tracked(x)' = Tracked(x)
    BY <1>0
  <2>2. \A j \in DOMAIN written'[x] : j > 1 => j - 1 \in DOMAIN written'[x]
    BY <1>c
  <2> HIDE DEF Tracked
  <2>3. QED
    BY <1>c, <2>1, <2>2 DEF ChainInv, Before, Follows
\* A later writer gets on only after the one before it has,
<1>1. ASSUME j \in DOMAIN written[x], j > 1, u = written[x][j],
             NEW v \in Tids, v = written[x][j - 1]
      PROVE  /\ u = a /\ StartPiece(a) => v \in committed \/ HasStarted(v, CurrentPiece(a).rank)
             /\ u = a /\ Commit(a) => v \in committed
  <2>1. Follows(u, v)
    BY <1>1 DEF ChainInv
  <2>2. ASSUME u = a, NEW t \in deps[a] \cap early_abort, t \notin committed, rank[t] <= rank[a]
        PROVE  ~StartPiece(a) /\ ~Commit(a)
    <3>1. ASSUME StartPiece(a) PROVE FALSE
      <4>1. rank[t] > CurrentPiece(a).rank
        BY <2>2, <3>1 DEF StartPiece, DepsStarted, HasStarted
      <4>2. rank[a] < CurrentPiece(a).rank /\ CurrentPiece(a).rank \in Nat
        BY <3>1, PieceStart
      <4>3. rank[t] \in Nat /\ rank[a] \in Nat
        BY <1>0, <1>a, <2>2
      <4>4. QED
        BY <2>2, <4>1, <4>2, <4>3
    <3>2. QED
      BY <2>2, <3>1 DEF Commit
  <2>3. QED
    BY <2>1, <2>2 DEF Follows, StartPiece, DepsStarted, Commit
\* so that no earlier writer falls behind a later one.
<1>2. ASSUME j \in DOMAIN written[x], u = written[x][j],
             NEW i \in DOMAIN written[x], i < j, NEW w \in Tids, w = written[x][i]
      PROVE  Before(w, u, new)'
  <2>1. Before(w, u, ord)
    BY <1>2 DEF ChainInv
  <2>2. j - 1 \in DOMAIN written[x] /\ j > 1 /\ i <= j - 1 /\ i \in Nat /\ j \in Nat
    BY SMTT(30), <1>b, <1>2
  <2>3. PICK v \in Tids : v = written[x][j - 1]
    BY <1>b, <2>2
  <2>4. w = v \/ Before(w, v, ord)
    <3>1. CASE i = j - 1
      BY <1>2, <2>3, <3>1
    <3>2. CASE i < j - 1
      BY <1>2, <2>2, <2>3, <3>2 DEF ChainInv
    <3>3. QED
      BY <2>2, <3>1, <3>2
  <2>5. /\ u = a /\ StartPiece(a) => v \in committed \/ HasStarted(v, CurrentPiece(a).rank)
        /\ u = a /\ Commit(a) => v \in committed
    BY <1>1, <1>2, <2>2, <2>3
  <2>6. u = a /\ StartPiece(a) => w \in committed \/ HasStarted(w, CurrentPiece(a).rank)
    <3>1. ASSUME u = a, StartPiece(a), v \notin committed, HasStarted(v, CurrentPiece(a).rank),
                 Before(w, v, ord)
          PROVE  w \in committed \/ HasStarted(w, CurrentPiece(a).rank)
      <4>1. w \in committed \/ rank[w] >= rank[v]
        BY <1>a, <3>1 DEF Before
      <4>2. CurrentPiece(a).rank \in Nat
        BY <3>1, PieceStart
      <4>3. QED
        BY <1>a, <3>1, <4>1, <4>2 DEF HasStarted
    <3>2. QED
      BY <2>4, <2>5, <3>1 DEF Before
  <2>7. u = a /\ Commit(a) => w \in committed
    BY <2>4, <2>5 DEF Before
  <2>8. QED
    BY <1>0, <2>1, <2>6, <2>7, StepBefore
<1>3. CASE written'[x] = written[x]
  <2>1. ASSUME NEW w \in Tids, w = written[x][j - 1], j > 1 PROVE Follows(u, w)'
    <3>1. Follows(u, w)
      BY <1>3, <2>1 DEF ChainInv
    <3>2. QED
      BY <3>1, FollowsKept
  <2>2. QED
    BY <1>2, <1>3, <2>1
\* A new writer follows the last one, and all are ahead of it.
<1>4. CASE InstallData(a, x)
  <2>1. /\ pc[a] = "install" /\ x \in todo[a] /\ x \in has_write[a] /\ pc'[a] = "set_version"
        /\ x \in has_write'[a]
        /\ Len(written[x]) \in Nat /\ DOMAIN written'[x] = 1..(Len(written[x]) + 1)
        /\ \A i \in DOMAIN written[x] : written'[x][i] = written[x][i]
        /\ written'[x][Len(written[x]) + 1] = a
    BY <1>4, InstallDataWritten
  <2>2. ~Wrote(a, x)
    BY <2>1 DEF WritesInv
  <2>3. ~StartPiece(a) /\ ~Commit(a)
    BY <2>1 DEF StartPiece, Commit
  <2>4. CASE j \in DOMAIN written[x]
    <3>1. u = written[x][j] /\ \A i \in DOMAIN written'[x] : i < j => i \in DOMAIN written[x]
      BY <1>b, <2>1, <2>4
    <3>2. ASSUME NEW w \in Tids, w = written'[x][j - 1], j > 1 PROVE Follows(u, w)'
      <4>1. w = written[x][j - 1]
        <5>1. j - 1 \in DOMAIN written[x]
          BY SMTT(30), <1>b, <2>1, <2>4, <3>2
        <5>2. QED
          BY <2>1, <3>2, <5>1
      <4>2. Follows(u, w)
        BY <2>4, <3>1, <3>2, <4>1 DEF ChainInv
      <4>3. QED
        BY <4>2, FollowsKept
    <3>3. QED
      BY <1>2, <2>1, <2>4, <3>1, <3>2
  <2>5. CASE j = Len(written[x]) + 1
    <3>1. u = a /\ \A i \in DOMAIN written'[x] : i < j => i \in DOMAIN written[x]
      BY <1>b, <2>1, <2>5
    <3>2. ASSUME NEW i \in DOMAIN written'[x], i < j, NEW w \in Tids, w = written'[x][i]
          PROVE  Before(w, a, new)'
      <4>1. Wrote(w, x) /\ w # a
        BY <2>1, <2>2, <3>1, <3>2 DEF Wrote
      <4>2. Before(w, a, ord)
        BY <2>1, <4>1 DEF AheadInv, Storing
      <4>3. QED
        BY <2>3, <4>2, StepBefore
    <3>3. ASSUME NEW w \in Tids, w = written'[x][j - 1], j > 1 PROVE Follows(a, w)'
      <4>1. w = LastWriter(x) /\ written[x] # <<>>
        BY <1>b, <2>1, <2>5, <3>3 DEF LastWriter
      <4>2. Follows(a, w)
        BY <2>1, <2>2, <4>1 DEF HoldInv, Storing
      <4>3. QED
        BY <4>2, FollowsKept
    <3>4. QED
      BY <3>1, <3>2, <3>3
  <2>6. QED
    BY <1>b, <2>1, <2>4, <2>5
<1>5. QED
  BY <1>3, <1>4, StepWritten, InstallDataWritten

-----------------------------------------------------------------------------

\* The inductive invariant: the transactions can be numbered such that who a
\* transaction depends on, and who has written before it, is ahead of it.
IInv ==
  /\ ParInv
  /\ EarlyInv
  /\ \A t \in Tids : ExecutedInv(t)
  /\ \E ord \in [Tids -> Nat], n \in Nat :
       NumbersInv(ord, n) /\ DepsInv(ord) /\ PipelineInv(ord)

\* All layers hold at first, with number 0 for everybody,
LEMMA InitIInv == Init => IInv
<1> SUFFICES ASSUME Init PROVE IInv
  OBVIOUS
<1>1. ParInv
  BY InitParInv
<1>2. EarlyInv /\ \A t \in Tids : ExecutedInv(t)
  BY DEF Init, OccInit, EarlyInv, ExecutedInv, InPiece, Labels, Quiet, AllLocked, Ended
<1> DEFINE none == [t \in Tids |-> 0]
<1>3. none \in [Tids -> Nat]
  OBVIOUS
<1>4. NumbersInv(none, 1)
  BY DEF Init, OccInit, NumbersInv, Installing, InPiece, Labels, Quiet, AllLocked, Ended
<1>5. DepsInv(none)
  BY DEF Init, DepsInv
<1>6. PipelineInv(none)
  <2>1. /\ \A t \in Tids : pc[t] \in {"idle", "done"} /\ has_write[t] = {} /\ todo[t] = {}
        /\ \A x \in Objects : written[x] = <<>>
    BY DEF Init, OccInit
  <2>2. \A t \in Tids : WritesInv(t, none) /\ AheadInv(t, none) /\ HoldInv(t)
    BY <2>1 DEF WritesInv, AheadInv, HoldInv, Storing, Wrote
  <2>3. \A x \in Objects : TraceInv(x) /\ ChainInv(x, none)
    BY <2>1 DEF TraceInv, ChainInv
  <2>4. QED
    BY <2>2, <2>3 DEF PipelineInv
<1>7. QED
  BY <1>1, <1>2, <1>3, <1>4, <1>5, <1>6 DEF IInv

\* and every step keeps them, with the new numbers.
LEMMA StepIInv == IInv /\ [Next]_vars => IInv'
<1> SUFFICES ASSUME IInv, [Next]_vars PROVE IInv'
  OBVIOUS
<1>1. ParInv /\ ParInv' /\ EarlyInv /\ \A t \in Tids : ExecutedInv(t)
  BY StepParInv DEF IInv
<1>2. PICK ord \in [Tids -> Nat], n \in Nat : NumbersInv(ord, n) /\ DepsInv(ord) /\ PipelineInv(ord)
  BY DEF IInv
<1>3. ASSUME NEW a \in Tids, Step(a) PROVE IInv'
  <2>1. EarlyInv' /\ \A t \in Tids : ExecutedInv(t)'
    BY <1>1, <1>3, StepEarlyInv, StepExecutedInv
  <2>2. PICK new \in [Tids -> Nat] : NewNumbers(a, ord, n, new)
    BY NewNumbersExist
  <2>3. NumbersInv(new, n + 1)' /\ DepsInv(new)'
    BY <1>1, <1>2, <1>3, <2>2, StepNumbers, StepDepsInv
  <2>4. PipelineInv(new)'
    <3> SUFFICES ASSUME aborted' = {}
                 PROVE  /\ \A t \in Tids : WritesInv(t, new)' /\ AheadInv(t, new)' /\ HoldInv(t)'
                        /\ \A x \in Objects : TraceInv(x)' /\ ChainInv(x, new)'
      BY DEF PipelineInv
    <3>1. aborted = {}
      BY <1>1, <1>3, StepMonotone
    <3>2. /\ \A t \in Tids : WritesInv(t, ord) /\ AheadInv(t, ord) /\ HoldInv(t)
          /\ \A x \in Objects : TraceInv(x) /\ ChainInv(x, ord)
      BY <1>2, <3>1 DEF PipelineInv
    <3>3. \A t \in Tids : WritesInv(t, new)'
      BY <1>1, <1>2, <1>3, <2>2, <3>2, StepWritesInv
    <3>4. \A t \in Tids : AheadInv(t, new)'
      BY <1>1, <1>2, <1>3, <2>2, <3>2, StepAheadInv
    <3>5. \A t \in Tids : HoldInv(t)'
      BY <1>1, <1>2, <1>3, <3>2, StepHoldInv
    <3>6. \A x \in Objects : TraceInv(x)'
      BY <1>1, <1>3, <3>2, StepTraceInv
    <3>7. \A x \in Objects : ChainInv(x, new)'
      BY <1>1, <1>2, <1>3, <2>2, <3>2, StepChainInv
    <3>8. QED
      BY <3>3, <3>4, <3>5, <3>6, <3>7
  <2>5. QED
    BY <1>1, <2>1, <2>3, <2>4 DEF IInv
<1>4. CASE UNCHANGED vars
  <2>1. UNCHANGED <<program, piece, ip, rank, committed, access_info, deps, early_abort, aborted>>
    BY <1>4 DEF vars, parVars, progVars, infoVars
  <2>2. UNCHANGED <<pc, todo, at, has_write, written>>
    BY <1>4 DEF vars, occVars, tagVars, historyVars
  <2>3. EarlyInv' /\ \A t \in Tids : ExecutedInv(t)'
    BY <1>1, <2>1, <2>2 DEF EarlyInv, ExecutedInv, CurrentOp, CurrentPiece
  <2>4. NumbersInv(ord, n)' /\ DepsInv(ord)'
    BY <1>2, <2>1, <2>2 DEF NumbersInv, DepsInv, Reached, Before
  <2>5. PipelineInv(ord)'
    <3>1. \A t \in Tids : WritesInv(t, ord)' = WritesInv(t, ord)
      BY <2>1, <2>2 DEF WritesInv, Wrote, Reached, LastWriter
    <3>2. \A t \in Tids : AheadInv(t, ord)' = AheadInv(t, ord)
      BY <2>1, <2>2 DEF AheadInv, Wrote, Before
    <3>3. \A t \in Tids : HoldInv(t)' = HoldInv(t)
      BY <2>1, <2>2 DEF HoldInv, Wrote, Follows, LastWriter, Tracked
    <3>4. \A x \in Objects : TraceInv(x)' = TraceInv(x)
      BY <2>1, <2>2 DEF TraceInv, StuckAt, LastWriter, Tracked
    <3>5. \A x \in Objects : ChainInv(x, ord)' = ChainInv(x, ord)
      BY <2>1, <2>2 DEF ChainInv, Before, Follows, Tracked
    <3>6. QED
      BY <1>2, <2>1, <3>1, <3>2, <3>3, <3>4, <3>5 DEF PipelineInv
  <2>6. QED
    BY <1>1, <1>2, <2>3, <2>4, <2>5 DEF IInv
<1>5. QED
  BY <1>3, <1>4 DEF Next, Terminated

\* So they always hold.
LEMMA IInvHolds == Spec => []IInv
BY InitIInv, StepIInv, PTL DEF Spec

\* No circle of transactions waits for each other.
THEOREM DepsAcyclicHolds == Spec => []DepsAcyclic
<1>1. IInv => DepsAcyclic
  BY DepsInvAcyclic DEF IInv
<1>2. QED
  BY <1>1, IInvHolds, PTL

\* Transactions overwrite each other in one order.
THEOREM PipelineOrderHolds == Spec => []PipelineOrder
<1>1. IInv => PipelineOrder
  BY PipelineInvOrder DEF IInv
<1>2. QED
  BY <1>1, IInvHolds, PTL
=============================================================================
