---------------------------- MODULE OccLockProofs ----------------------------
(***************************************************************************)
(* Safety of the version lock, for every set of transactions and objects   *)
(* and every number of tags per object: type correctness, the inductive    *)
(* invariant, and the invariants of OccLock that follow from it.           *)
(***************************************************************************)
EXTENDS OccLock, TLAPS

\* While t is between the two halves of a lock that succeeded, or of the
\* unlock that takes the last hold, the object it works on is its own.
InCall(t) == pc[t] \in {"fresh", "again", "last"}

\* The lock word of an object tells who has holds on it and count_ how many;
\* a transaction inside a call of lock or unlock owns the object of the call.
LockInv ==
  /\ TypeOK
  /\ \A o \in Objects : lock_owner[o] = 0 => count[o] = 0
  /\ \A t \in Tids, o \in Objects : lock_owner[o] = t => count[o] = is_lock[t][o]
  /\ \A t \in Tids, o \in Objects : is_lock[t][o] > 0 => lock_owner[o] = t
  /\ \A t \in Tids, o \in Objects :
       lock_owner[o] = t =>
         is_lock[t][o] > 0 \/ (obj[t] = o /\ pc[t] \in {"fresh", "last"})
  /\ \A t \in Tids :
       /\ InCall(t) => lock_owner[obj[t]] = t
       /\ pc[t] \in {"fresh", "last"} => is_lock[t][obj[t]] = 0
       /\ pc[t] = "again" => is_lock[t][obj[t]] > 0
       /\ pc[t] \in {"fresh", "again"} => is_lock[t][obj[t]] < MaxHolds

\* Nobody owns anything at the start.
LEMMA InitLockInv == Init => LockInv
<1> SUFFICES ASSUME Init PROVE LockInv
  OBVIOUS
<1>1. TypeOK
  BY MaxHoldsAssumption DEF Init, TypeOK
<1>2. QED
  BY <1>1, TidsAssumption DEF Init, LockInv, InCall, TypeOK

\* Every atomic instruction of lock and unlock keeps the invariant.
LEMMA StepLockInv == LockInv /\ [Next]_vars => LockInv'
<1> USE TidsAssumption, MaxHoldsAssumption
<1> SUFFICES ASSUME LockInv, [Next]_vars PROVE LockInv'
  OBVIOUS
<1>1. ASSUME NEW t \in Tids, NEW o \in Objects, LockCas(t, o) PROVE LockInv'
  <2>1. TypeOK'
    BY <1>1 DEF LockCas, Goto, LockInv, TypeOK
  <2>2. ASSUME lock_owner[o] = 0, lock_owner' = [lock_owner EXCEPT ![o] = t],
               Goto(t, "fresh")
        PROVE  LockInv'
    <3>1. count[o] = 0 /\ \A u \in Tids : is_lock[u][o] = 0
      BY <2>2 DEF LockInv, TypeOK
    <3>2. \A u \in Tids : InCall(u) => obj[u] # o
      BY <2>2 DEF LockInv
    <3>3. QED
      BY <1>1, <2>1, <2>2, <3>1, <3>2 DEF LockCas, Goto, LockInv, TypeOK, InCall
  <2>3. ASSUME lock_owner[o] = t, Goto(t, "again"), UNCHANGED lock_owner
        PROVE  LockInv'
    <3>1. is_lock[t][o] > 0
      BY <1>1, <2>3 DEF LockCas, LockInv
    <3>2. QED
      BY <1>1, <2>1, <2>3, <3>1 DEF LockCas, Goto, LockInv, TypeOK, InCall
  <2>4. ASSUME Goto(t, "clean_up"), UNCHANGED lock_owner PROVE LockInv'
    BY <1>1, <2>1, <2>4 DEF LockCas, Goto, LockInv, TypeOK, InCall
  <2>5. QED
    BY <1>1, <2>2, <2>3, <2>4 DEF LockCas
<1>2. ASSUME NEW t \in Tids, LockCount(t) PROVE LockInv'
  <2>1. TypeOK'
    BY <1>2 DEF LockCount, Goto, LockInv, TypeOK
  <2>2. QED
    BY <1>2, <2>1 DEF LockCount, Goto, LockInv, TypeOK, InCall
<1>3. ASSUME NEW t \in Tids, Finish(t) PROVE LockInv'
  BY <1>3 DEF Finish, Goto, LockInv, TypeOK, InCall
<1>4. ASSUME NEW t \in Tids, NEW o \in Objects, UnlockCount(t, o) PROVE LockInv'
  <2>1. lock_owner[o] = t /\ count[o] = is_lock[t][o] /\ count[o] > 0
    BY <1>4 DEF UnlockCount, FetchSub, LockInv, TypeOK
  <2>2. TypeOK'
    BY <1>4, <2>1 DEF UnlockCount, FetchSub, Goto, LockInv, TypeOK
  <2>3. QED
    BY <1>4, <2>1, <2>2 DEF UnlockCount, FetchSub, Goto, LockInv, TypeOK, InCall
<1>5. ASSUME NEW t \in Tids, UnlockOwner(t) PROVE LockInv'
  <2>1. lock_owner[obj[t]] = t /\ count[obj[t]] = 0
    BY <1>5 DEF UnlockOwner, LockInv, TypeOK, InCall
  <2>2. TypeOK'
    BY <1>5 DEF UnlockOwner, Goto, LockInv, TypeOK
  <2>3. QED
    BY <1>5, <2>1, <2>2 DEF UnlockOwner, Goto, LockInv, TypeOK, InCall
<1>6. ASSUME NEW t \in Tids, CleanedUp(t) PROVE LockInv'
  BY <1>6 DEF CleanedUp, Goto, LockInv, TypeOK, InCall
<1>7. CASE UNCHANGED vars
  BY <1>7 DEF vars, LockInv, TypeOK, InCall
<1>8. QED
  BY <1>1, <1>2, <1>3, <1>4, <1>5, <1>6, <1>7 DEF Next, Step

\* The inductive invariant holds in every reachable state.
LEMMA LockInvHolds == Spec => []LockInv
BY InitLockInv, StepLockInv, PTL DEF Spec

-----------------------------------------------------------------------------

\* The variables of the lock keep their types: in particular count_ never
\* goes below zero, so the fetch_sub of unlock never wraps.
THEOREM TypeCorrect == Spec => []TypeOK
<1>1. LockInv => TypeOK
  BY DEF LockInv
<1>2. QED
  BY <1>1, LockInvHolds, PTL

\* No two transactions ever hold one object, however the instructions of
\* lock and unlock interleave.
THEOREM MutualExclusionHolds == Spec => []MutualExclusion
<1>1. LockInv => MutualExclusion
  BY DEF LockInv, MutualExclusion, TypeOK
<1>2. QED
  BY <1>1, LockInvHolds, PTL

\* None of the debug assertions in TVersion::lock and TVersion::unlock fails.
THEOREM AssertionsHoldAlways == Spec => []AssertionsHold
<1>1. ASSUME LockInv, NEW t \in Tids, InCall(t)
      PROVE  /\ lock_owner[obj[t]] = t
             /\ count[obj[t]] = is_lock[t][obj[t]]
  BY <1>1 DEF LockInv, TypeOK
<1>2. LockInv => AssertionsHold
  <2> SUFFICES ASSUME LockInv, NEW t \in Tids, InCall(t)
               PROVE  /\ pc[t] = "fresh" => count[obj[t]] = 0
                      /\ pc[t] = "again" => count[obj[t]] > 0
                      /\ pc[t] = "last"  => /\ lock_owner[obj[t]] # 0
                                            /\ count[obj[t]] = 0
    BY DEF AssertionsHold, InCall
  <2>1. t # 0
    BY TidsAssumption
  <2>2. /\ pc[t] \in {"fresh", "last"} => is_lock[t][obj[t]] = 0
        /\ pc[t] = "again" => is_lock[t][obj[t]] > 0
    BY DEF LockInv
  <2>3. QED
    BY <1>1, <2>1, <2>2
<1>3. QED
  BY <1>2, LockInvHolds, PTL

\* count_ always equals the number of tags that will still unlock the object.
THEOREM CountIsHoldsAlways == Spec => []CountIsHolds
<1>1. LockInv => CountIsHolds
  BY DEF LockInv, CountIsHolds, TypeOK
<1>2. QED
  BY <1>1, LockInvHolds, PTL

-----------------------------------------------------------------------------

\* Every step of the lock's implementation is an Acquire or a Release of the
\* abstract re-entrant lock, or leaves its holds alone.
LEMMA StepRefinesLock ==
  LockInv /\ [Next]_vars => [Abstract!Next]_is_lock
<1> SUFFICES ASSUME LockInv, [Next]_vars PROVE [Abstract!Next]_is_lock
  OBVIOUS
<1>1. ASSUME NEW t \in Tids, LockCount(t) PROVE Abstract!Next
  <2>1. obj[t] \in Objects /\ is_lock[t][obj[t]] < MaxHolds
    BY <1>1 DEF LockInv, TypeOK, LockCount
  <2>2. \A u \in Tids \ {t} : is_lock[u][obj[t]] = 0
    BY <1>1, <2>1 DEF LockInv, TypeOK, LockCount, InCall
  <2>3. Abstract!Acquire(t, obj[t])
    BY <1>1, <2>1, <2>2 DEF LockCount, Abstract!Acquire
  <2>4. QED
    BY <2>1, <2>3 DEF Abstract!Next
<1>2. ASSUME NEW t \in Tids, NEW o \in Objects, UnlockCount(t, o)
      PROVE  Abstract!Next
  BY <1>2 DEF UnlockCount, FetchSub, Abstract!Next, Abstract!Release
<1>3. ASSUME NEW t \in Tids, NEW o \in Objects, LockCas(t, o)
      PROVE  UNCHANGED is_lock
  BY <1>3 DEF LockCas
<1>4. ASSUME NEW t \in Tids, Finish(t) \/ UnlockOwner(t) \/ CleanedUp(t)
      PROVE  UNCHANGED is_lock
  BY <1>4 DEF Finish, UnlockOwner, CleanedUp
<1>5. CASE UNCHANGED vars
  BY <1>5 DEF vars
<1>6. QED
  BY <1>1, <1>2, <1>3, <1>4, <1>5 DEF Next, Step

\* The lock of TVersion implements the abstract lock's safety part: initial
\* states are initial states, every step is an abstract step or a stutter.
THEOREM RefinesLock == Spec => Abstract!Init /\ [][Abstract!Next]_is_lock
<1>1. Init => Abstract!Init
  BY DEF Init, Abstract!Init
<1>2. QED
  BY <1>1, StepRefinesLock, LockInvHolds, PTL DEF Spec

=============================================================================
