------------------------------ MODULE OccLock -------------------------------
(***************************************************************************)
(* The re-entrant version locks of a set of objects, at the granularity of *)
(* their atomic instructions, driven the way TransactionOCC and            *)
(* TransactionParOCC drive them: a running transaction locks each object   *)
(* once per written tag (TTag::lock remembers success in is_lock_), gives  *)
(* up at the first lock that fails, and clean_up, after a commit or a      *)
(* failed lock, unlocks once per locked tag in the order of a hash map.    *)
(*                                                                         *)
(* The debug assertions of lock and unlock only load: each may be          *)
(* evaluated at any moment of the window it guards, so they are stated as  *)
(* the invariant AssertionsHold over those windows, not as steps.          *)
(***************************************************************************)
EXTENDS Naturals

CONSTANTS
  Tids,      \* identifiers of the running transactions; 0 means "nobody"
  Objects,   \* the objects, each with a TVersion of its own
  MaxHolds   \* bound: most tags one transaction has on one object

ASSUME TidsAssumption == Tids \subseteq Nat \ {0}
ASSUME MaxHoldsAssumption == MaxHolds \in Nat \ {0}

VARIABLES
  lock_owner,  \* lock_owner[o]: TVersion.lock_owner_
  count,       \* count[o]: TVersion.count_
  is_lock,     \* is_lock[t][o]: tags of t on o with is_lock_ set
  pc,          \* where each transaction is between two atomic instructions
  obj          \* obj[t]: the object whose lock or unlock t is executing

vars == <<lock_owner, count, is_lock, pc, obj>>

-----------------------------------------------------------------------------

Goto(t, label) == pc' = [pc EXCEPT ![t] = label]

HoldsLocks(t) == \E o \in Objects : is_lock[t][o] > 0

\* Mutant: any owner is taken for the caller.
LockCas_AnyOwner(t, o) ==
  /\ pc[t] = "idle"
  /\ is_lock[t][o] < MaxHolds
  /\ obj' = [obj EXCEPT ![t] = o]
  /\ \/ /\ lock_owner[o] = 0
        /\ lock_owner' = [lock_owner EXCEPT ![o] = t]
        /\ Goto(t, "fresh")
     \/ /\ lock_owner[o] # 0
        /\ Goto(t, "again")
        /\ UNCHANGED lock_owner
  /\ UNCHANGED <<count, is_lock>>

\* lock: the compare_exchange of lock_owner_ from 0 to tid. A transaction
\* that meets somebody else's lock aborts, so it goes to clean_up.
LockCas(t, o) ==
  /\ pc[t] = "idle"
  /\ is_lock[t][o] < MaxHolds
  /\ obj' = [obj EXCEPT ![t] = o]
  /\ \/ /\ lock_owner[o] = 0
        /\ lock_owner' = [lock_owner EXCEPT ![o] = t]
        /\ Goto(t, "fresh")
     \/ /\ lock_owner[o] = t
        /\ Goto(t, "again")
        /\ UNCHANGED lock_owner
     \/ /\ lock_owner[o] \notin {0, t}
        /\ Goto(t, "clean_up")
        /\ UNCHANGED lock_owner
  /\ UNCHANGED <<count, is_lock>>

\* Mutant: a store of 1 in place of the fetch_add.
LockCount_Store(t) ==
  /\ pc[t] \in {"fresh", "again"}
  /\ count' = [count EXCEPT ![obj[t]] = 1]
  /\ is_lock' = [is_lock EXCEPT ![t][obj[t]] = @ + 1]
  /\ Goto(t, "idle")
  /\ UNCHANGED <<lock_owner, obj>>

\* lock: the fetch_add that ends both successful branches; TTag::lock then
\* sets the tag's is_lock_.
LockCount(t) ==
  /\ pc[t] \in {"fresh", "again"}
  /\ count' = [count EXCEPT ![obj[t]] = @ + 1]
  /\ is_lock' = [is_lock EXCEPT ![t][obj[t]] = @ + 1]
  /\ Goto(t, "idle")
  /\ UNCHANGED <<lock_owner, obj>>

\* The transaction has no further tag to lock and runs clean_up.
Finish(t) ==
  /\ pc[t] = "idle"
  /\ HoldsLocks(t)
  /\ Goto(t, "clean_up")
  /\ UNCHANGED <<lock_owner, count, is_lock, obj>>

\* The fetch_sub of unlock for one tag of t on o.
FetchSub(t, o) ==
  /\ pc[t] = "clean_up"
  /\ is_lock[t][o] > 0
  /\ obj' = [obj EXCEPT ![t] = o]
  /\ count' = [count EXCEPT ![o] = @ - 1]

\* Mutant: clean_up does not drop the tag that it has unlocked.
UnlockCount_TagKept(t, o) ==
  /\ FetchSub(t, o)
  /\ Goto(t, IF count[o] = 1 THEN "last" ELSE "clean_up")
  /\ UNCHANGED <<lock_owner, is_lock>>

\* Mutant: the owner is cleared before the count is.
UnlockCount_OwnerFirst(t, o) ==
  /\ FetchSub(t, o)
  /\ is_lock' = [is_lock EXCEPT ![t][o] = @ - 1]
  /\ lock_owner' = [lock_owner EXCEPT ![o] = IF count[o] = 1 THEN 0 ELSE @]
  /\ Goto(t, IF count[o] = 1 THEN "last" ELSE "clean_up")

\* Mutant: the old value of the fetch_sub is taken for the new one.
UnlockCount_NewValue(t, o) ==
  /\ FetchSub(t, o)
  /\ is_lock' = [is_lock EXCEPT ![t][o] = @ - 1]
  /\ Goto(t, IF count[o] = 0 THEN "last" ELSE "clean_up")
  /\ UNCHANGED lock_owner

\* Mutant: one unlock for all tags of the transaction on the object.
UnlockCount_AllTags(t, o) ==
  /\ FetchSub(t, o)
  /\ is_lock' = [is_lock EXCEPT ![t][o] = 0]
  /\ Goto(t, IF count[o] = 1 THEN "last" ELSE "clean_up")
  /\ UNCHANGED lock_owner

\* unlock: the fetch_sub, whose old value decides whether the owner goes.
UnlockCount(t, o) ==
  /\ FetchSub(t, o)
  /\ is_lock' = [is_lock EXCEPT ![t][o] = @ - 1]
  /\ Goto(t, IF count[o] = 1 THEN "last" ELSE "clean_up")
  /\ UNCHANGED lock_owner

\* unlock: the store of 0 into lock_owner_.
UnlockOwner(t) ==
  /\ pc[t] = "last"
  /\ lock_owner' = [lock_owner EXCEPT ![obj[t]] = 0]
  /\ Goto(t, "clean_up")
  /\ UNCHANGED <<count, is_lock, obj>>

\* clean_up has drained the tags; the thread tries again or goes on to its
\* next transaction.
CleanedUp(t) ==
  /\ pc[t] = "clean_up"
  /\ ~HoldsLocks(t)
  /\ Goto(t, "idle")
  /\ UNCHANGED <<lock_owner, count, is_lock, obj>>

Init ==
  /\ lock_owner = [o \in Objects |-> 0]
  /\ count = [o \in Objects |-> 0]
  /\ is_lock = [t \in Tids |-> [o \in Objects |-> 0]]
  /\ pc = [t \in Tids |-> "idle"]
  /\ obj \in [Tids -> Objects]

Step(t) ==
  \/ \E o \in Objects : LockCas(t, o) \/ UnlockCount(t, o)
  \/ LockCount(t) \/ Finish(t) \/ UnlockOwner(t) \/ CleanedUp(t)

Next == \E t \in Tids : Step(t)

\* try_commit and try_commit_piece run straight from their first lock to the
\* end of clean_up without waiting for anyone, so a thread that keeps being
\* scheduled keeps stepping.
Spec == Init /\ [][Next]_vars /\ \A t \in Tids : WF_vars(Step(t))

-----------------------------------------------------------------------------

TypeOK ==
  /\ lock_owner \in [Objects -> Tids \cup {0}]
  /\ count \in [Objects -> Nat]
  /\ is_lock \in [Tids -> [Objects -> 0..MaxHolds]]
  /\ pc \in [Tids -> {"idle", "fresh", "again", "clean_up", "last"}]
  /\ obj \in [Tids -> Objects]

\* Two transactions never hold an object's lock at the same time, in
\* particular not across the two separate updates (count_, lock_owner_) of
\* TVersion::unlock and the two of TVersion::lock.
MutualExclusion ==
  \A o \in Objects, t, u \in Tids :
    is_lock[t][o] > 0 /\ is_lock[u][o] > 0 => t = u

\* The debug_assert!s of TVersion::lock and TVersion::unlock hold at every
\* moment at which they can be evaluated.
AssertionsHold ==
  \A t \in Tids :
    /\ pc[t] = "fresh" => count[obj[t]] = 0
    /\ pc[t] = "again" => count[obj[t]] > 0
    /\ pc[t] = "last"  => lock_owner[obj[t]] # 0 /\ count[obj[t]] = 0

\* count_ is exactly the number of tags that will unlock the object: no hold
\* is lost and none is given back twice, so the fetch_sub of unlock never
\* wraps and lock_owner_ is cleared with the last tag.
CountIsHolds ==
  \A o \in Objects :
    /\ \A t \in Tids : is_lock[t][o] > 0 => count[o] = is_lock[t][o]
    /\ count[o] > 0 => \E t \in Tids : is_lock[t][o] > 0

\* A version lock once taken is given up again, whatever the outcome of the
\* transaction that took it.
EventuallyReleased ==
  \A o \in Objects, t \in Tids : lock_owner[o] = t ~> lock_owner[o] # t

\* Each TVersion implements the abstract re-entrant lock; a hold begins with
\* the fetch_add of lock and ends with the fetch_sub of unlock.
Abstract == INSTANCE ReentrantLock WITH held <- is_lock
ImplementsLock == Abstract!Spec

=============================================================================
