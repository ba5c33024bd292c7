---------------------------- MODULE ReentrantLock ----------------------------
(***************************************************************************)
(* What the version locks of the objects promise to the commit protocols:  *)
(* one transaction at a time may hold an object, several times over (a     *)
(* transaction locks the same TVersion once per tag that refers to it),    *)
(* and the object is free again when its holder has given back every hold. *)
(* OccLock shows the atomic-instruction implementation of TVersion::lock   *)
(* and TVersion::unlock to implement this specification.                   *)
(***************************************************************************)
EXTENDS Naturals

CONSTANTS
  Tids,      \* identifiers of the running transactions
  Objects,   \* the objects, each with a lock of its own
  MaxHolds   \* most holds of one transaction on one object

VARIABLE held  \* held[t][o]: how many holds t has on o

Acquire(t, o) ==
  /\ held[t][o] < MaxHolds
  /\ \A u \in Tids \ {t} : held[u][o] = 0
  /\ held' = [held EXCEPT ![t][o] = @ + 1]

Release(t, o) ==
  /\ held[t][o] > 0
  /\ held' = [held EXCEPT ![t][o] = @ - 1]

Init == held = [t \in Tids |-> [o \in Objects |-> 0]]

Next == \E t \in Tids, o \in Objects : Acquire(t, o) \/ Release(t, o)

\* Holds are given back: the commit protocols never wait while they hold one.
Spec == /\ Init
        /\ [][Next]_held
        /\ \A t \in Tids, o \in Objects : SF_held(Release(t, o))

=============================================================================
