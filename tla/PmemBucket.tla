----------------------------- MODULE PmemBucket ------------------------------
(***************************************************************************)
(* The persistent rows of one bucket (Bucket in tpcc/table.rs): push hands *)
(* out consecutive indexes, and get_pmem_addr turns an index into an       *)
(* address, mapping a new file when the capacity is used up. The bucket    *)
(* begins with one region of PerSize rows; each growth maps as many rows   *)
(* as there are already, so chunk c > 0 has PerSize * 2^(c-1) rows.        *)
(*                                                                         *)
(* Rows get their address in one of two places. Without feature dir it is  *)
(* Bucket::push, called by install under the bucket's lock. With feature   *)
(* dir it is get_pmem_back_row, called while the transaction still runs    *)
(* and holds no lock. The build is chosen once (variable locked).          *)
(*                                                                         *)
(* A step is one atomic access. Writing through an address that is not     *)
(* mapped ends the process (label "fault").                                *)
(***************************************************************************)
EXTENDS Naturals, Sequences, FiniteSets

CONSTANTS
  Threads,
  PerSize,   \* pmem_per_size_, the first capacity
  MaxRows,   \* bound: rows that are pushed
  MaxRoots   \* bound: length of pmem_root_, 16 in the code

\* 1 << n.
Pow2[n \in Nat] == IF n = 0 THEN 1 ELSE 2 * Pow2[n - 1]

\* The tables that are pushed to begin with tens of thousands of rows per
\* bucket, so a bucket never has more threads than first rows.
ASSUME PerSizeAssumption ==
  /\ PerSize \in Nat \ {0} /\ IsFiniteSet(Threads) /\ Cardinality(Threads) <= PerSize
  /\ MaxRoots \in Nat \ {0} /\ MaxRows \in Nat
  /\ MaxRows <= PerSize * Pow2[MaxRoots - 1]

VARIABLES
  pmem_offset,    \* pmem_offset_: the next index
  pmem_cap,       \* pmem_cap_
  pmem_root_idx,  \* pmem_root_idx_
  pmem_root,      \* pmem_root[c]: the region of chunk c, 0 for null
  size,           \* size[r]: rows of the r-th region that was mapped
  unmapped,       \* regions that were unmapped again
  locked,         \* whether addresses are taken under the bucket's lock
  holder,         \* who holds the bucket's lock, {} or {t}
  pc, idx, cap, region, slot,  \* locals of get_pmem_addr
  rows            \* history: rows that got an address

globals == <<pmem_offset, pmem_cap, pmem_root_idx, pmem_root>>
regions == <<size, unmapped>>
locals == <<idx, cap, region, slot>>
vars == <<globals, regions, locked, holder, pc, locals, rows>>

-----------------------------------------------------------------------------

Goto(t, label) == pc' = [pc EXCEPT ![t] = label]

ChunkSize(c) == IF c = 0 THEN PerSize ELSE PerSize * Pow2[c - 1]

\* The chunk of an index: the shifts until its page number is 0.
Chunk(i) == CHOOSE c \in 0..MaxRoots :
  /\ i \div PerSize < Pow2[c]
  /\ c = 0 \/ Pow2[c - 1] <= i \div PerSize

\* Mutant: the place in the page instead of the place in the chunk.
Offset_InPage(i) == i % PerSize

\* Its place there, past the rows of the earlier chunks.
Offset(i) == i - (Pow2[Chunk(i)] \div 2) * PerSize

\* next_pmem_offset.
NextPmemOffset(t) ==
  /\ pc[t] = "idle"
  /\ pmem_offset < MaxRows
  /\ locked => holder = {}
  /\ holder' = IF locked THEN {t} ELSE {}
  /\ idx' = [idx EXCEPT ![t] = pmem_offset]
  /\ pmem_offset' = pmem_offset + 1
  /\ Goto(t, "load_cap")
  /\ UNCHANGED <<pmem_cap, pmem_root_idx, pmem_root, regions, locked, cap, region, slot, rows>>

\* Mutant: the first index past the capacity is let through.
LoadCap_OffByOne(t) ==
  /\ pc[t] = "load_cap"
  /\ cap' = [cap EXCEPT ![t] = pmem_cap]
  /\ Goto(t, IF idx[t] > pmem_cap THEN "mmap_file" ELSE "address")
  /\ UNCHANGED <<globals, regions, locked, holder, idx, region, slot, rows>>

\* get_pmem_addr: is the index past the capacity?
LoadCap(t) ==
  /\ pc[t] = "load_cap"
  /\ cap' = [cap EXCEPT ![t] = pmem_cap]
  /\ Goto(t, IF idx[t] >= pmem_cap THEN "mmap_file" ELSE "address")
  /\ UNCHANGED <<globals, regions, locked, holder, idx, region, slot, rows>>

\* A region of as many rows as the bucket has is mapped first,
MmapFile(t) ==
  /\ pc[t] = "mmap_file"
  /\ size' = Append(size, cap[t])
  /\ region' = [region EXCEPT ![t] = Len(size) + 1]
  /\ Goto(t, "compare_exchange")
  /\ UNCHANGED <<globals, unmapped, locked, holder, idx, cap, slot, rows>>

\* Mutant: the capacity is raised whoever raised it before.
RaiseCap_Always(t) ==
  /\ pc[t] = "compare_exchange"
  /\ pmem_cap' = 2 * pmem_cap
  /\ Goto(t, "root_idx")
  /\ UNCHANGED <<pmem_offset, pmem_root_idx, pmem_root, regions, locked, holder, locals, rows>>

\* Mutant: the capacity grows by the first capacity, the region by all of it.
RaiseCap_Linear(t) ==
  /\ pc[t] = "compare_exchange"
  /\ IF pmem_cap = cap[t]
     THEN pmem_cap' = cap[t] + PerSize /\ Goto(t, "root_idx") /\ UNCHANGED unmapped
     ELSE /\ unmapped' = unmapped \cup {region[t]}
          /\ Goto(t, "address")
          /\ UNCHANGED pmem_cap
  /\ UNCHANGED <<pmem_offset, pmem_root_idx, pmem_root, size, locked, holder, locals, rows>>

\* Mutant: who loses keeps the mapping.
RaiseCap_Leak(t) ==
  /\ pc[t] = "compare_exchange"
  /\ IF pmem_cap = cap[t]
     THEN pmem_cap' = 2 * cap[t] /\ Goto(t, "root_idx")
     ELSE Goto(t, "address") /\ UNCHANGED pmem_cap
  /\ UNCHANGED <<pmem_offset, pmem_root_idx, pmem_root, regions, locked, holder, locals, rows>>

\* then one thread raises the capacity, and the others unmap theirs.
RaiseCap(t) ==
  /\ pc[t] = "compare_exchange"
  /\ IF pmem_cap = cap[t]
     THEN pmem_cap' = 2 * cap[t] /\ Goto(t, "root_idx") /\ UNCHANGED unmapped
     ELSE /\ unmapped' = unmapped \cup {region[t]}
          /\ Goto(t, "address")
          /\ UNCHANGED pmem_cap
  /\ UNCHANGED <<pmem_offset, pmem_root_idx, pmem_root, size, locked, holder, locals, rows>>

\* The new region gets the next slot of pmem_root_,
TakeRootIdx(t) ==
  /\ pc[t] = "root_idx"
  /\ slot' = [slot EXCEPT ![t] = pmem_root_idx + 1]
  /\ pmem_root_idx' = pmem_root_idx + 1
  /\ Goto(t, "store_root")
  /\ UNCHANGED <<pmem_offset, pmem_cap, pmem_root, regions, locked, holder, idx, cap, region, rows>>

\* where only now the other threads find it.
StoreRoot(t) ==
  /\ pc[t] = "store_root"
  /\ pmem_root' = [pmem_root EXCEPT ![slot[t]] = region[t]]
  /\ Goto(t, "address")
  /\ UNCHANGED <<pmem_offset, pmem_cap, pmem_root_idx, regions, locked, holder, locals, rows>>

Mapped(r, i) == r # 0 /\ r \notin unmapped /\ Offset(i) \in 0..(size[r] - 1)

\* The end of get_pmem_addr: the row is written to its address.
Address(t) ==
  LET r == pmem_root[Chunk(idx[t])] IN
  /\ pc[t] = "address"
  /\ rows' = rows \cup {[idx |-> idx[t], region |-> r, offset |-> Offset(idx[t])]}
  /\ Goto(t, IF Mapped(r, idx[t]) THEN "idle" ELSE "fault")
  /\ holder' = {}
  /\ UNCHANGED <<globals, regions, locked, locals>>

\* with_capacity.
Init ==
  /\ pmem_offset = 0
  /\ pmem_cap = PerSize
  /\ pmem_root_idx = 0
  /\ pmem_root = [c \in 0..(MaxRoots - 1) |-> IF c = 0 THEN 1 ELSE 0]
  /\ size = <<PerSize>>
  /\ unmapped = {}
  /\ locked \in BOOLEAN
  /\ holder = {}
  /\ pc = [t \in Threads |-> "idle"]
  /\ idx = [t \in Threads |-> 0]
  /\ cap = [t \in Threads |-> 0]
  /\ region = [t \in Threads |-> 0]
  /\ slot = [t \in Threads |-> 0]
  /\ rows = {}

Step(t) ==
  \/ NextPmemOffset(t) \/ LoadCap(t) \/ MmapFile(t) \/ RaiseCap(t)
  \/ TakeRootIdx(t) \/ StoreRoot(t) \/ Address(t)

Faulted == \E t \in Threads : pc[t] = "fault"

\* All rows of the instance are pushed, or the process is gone.
Terminated ==
  /\ Faulted \/ (pmem_offset = MaxRows /\ \A t \in Threads : pc[t] = "idle")
  /\ UNCHANGED vars

Next == (~Faulted /\ \E t \in Threads : Step(t)) \/ Terminated

Spec == Init /\ [][Next]_vars

-----------------------------------------------------------------------------

TypeOK ==
  /\ pmem_offset \in 0..MaxRows
  /\ pmem_cap \in {ChunkSize(c) : c \in 1..MaxRoots}
  /\ pmem_root_idx \in 0..(MaxRoots - 1)
  /\ size \in Seq(Nat)
  /\ pmem_root \in [0..(MaxRoots - 1) -> 0..Len(size)]
  /\ unmapped \subseteq 1..Len(size)
  /\ holder \subseteq Threads
  /\ idx \in [Threads -> Nat] /\ cap \in [Threads -> Nat]
  /\ region \in [Threads -> 0..Len(size)]
  /\ slot \in [Threads -> 0..(MaxRoots - 1)]
  /\ pc \in [Threads -> {"idle", "load_cap", "mmap_file", "compare_exchange",
                         "root_idx", "store_root", "address", "fault"}]

\* get_pmem_addr returns an address inside a region that is mapped, also when
\* other threads are in the "critical section" of its growth.
InBounds == \A row \in rows : Mapped(row.region, row.idx)

\* Under the bucket's lock it does, however often the bucket grows.
InBoundsUnderLock == locked => InBounds

\* No two rows overlap, whatever chunk they are in and whoever mapped it.
RowsDistinct ==
  \A r, s \in rows :
    r.region = s.region /\ r.offset = s.offset /\ r.region # 0 => r.idx = s.idx

\* The slot of a chunk only ever gets a region of the chunk's size, although
\* the capacity is raised and the slot is taken in two separate steps.
RootsMatchChunks ==
  \A c \in DOMAIN pmem_root : pmem_root[c] # 0 => size[pmem_root[c]] = ChunkSize(c)

\* No mapping is lost: each is the region of a chunk, was unmapped, or belongs
\* to a thread that will do one of the two.
RegionsAccounted ==
  \A r \in 1..Len(size) :
    \/ r \in unmapped /\ \A c \in DOMAIN pmem_root : pmem_root[c] # r
    \/ r \notin unmapped /\ \E c \in DOMAIN pmem_root : pmem_root[c] = r
    \/ r \notin unmapped /\ \E t \in Threads :
         region[t] = r /\ pc[t] \in {"compare_exchange", "root_idx", "store_root"}

=============================================================================
