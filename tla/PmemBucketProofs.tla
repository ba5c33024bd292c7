-------------------------- MODULE PmemBucketProofs ---------------------------
(***************************************************************************)
(* Safety of the persistent rows of a bucket, for every number of threads, *)
(* every first capacity and every number of chunks, with the bucket's lock *)
(* and without it: type correctness and the four invariants of PmemBucket. *)
(*                                                                         *)
(* Only one thread at a time is between raising the capacity and storing   *)
(* the new region, although nothing keeps the others out: who is to raise  *)
(* the capacity again has an index past the next chunk, whose indexes are  *)
(* more than there are threads, so one of them was turned into an address  *)
(* already (LEMMA SomeRowThere), and its region was stored.                *)
(***************************************************************************)
EXTENDS PmemBucket, FiniteSetTheorems, TLAPS

-----------------------------------------------------------------------------
(* The powers of two. What a recursive function is at every number follows *)
(* from the well-foundedness of the numbers, stated for sets of them.      *)

\* A set of numbers with 0 and every successor is the set of all numbers.
LEMMA NatSetInduction ==
  ASSUME NEW T \in SUBSET Nat, 0 \in T, \A n \in T : n + 1 \in T
  PROVE  T = Nat
<1>1. SUFFICES ASSUME Nat \ T # {} PROVE FALSE
  OBVIOUS
<1> DEFINE Less == {ss \in Nat \X Nat : ss[1] < ss[2]}
           R == Nat \ T
<1>2. IsWellFoundedOn(Less, Nat)
  BY NatLessThanWellFounded DEF OpToRel
<1>3. R # {} /\ R \subseteq Nat
  BY <1>1
<1> HIDE DEF Less, R
<1>4. PICK m \in R : \A n \in R : ~(<<n, m>> \in Less)
  BY <1>2, <1>3, WFMin, Zenon
<1>5. m \in Nat /\ m \notin T /\ m # 0
  BY <1>4 DEF R
<1>6. m - 1 \in Nat /\ (m - 1) + 1 = m /\ m - 1 < m
  BY <1>5
<1>7. m - 1 \notin R
  BY <1>4, <1>5, <1>6 DEF Less
<1>8. QED
  BY <1>5, <1>6, <1>7 DEF R

\* f has the powers of two up to the n-th.
Fits(f, n) ==
  /\ f \in [0..n -> Nat \ {0}]
  /\ f[0] = 1
  /\ \A k \in 0..n : k # 0 => f[k] = 2 * f[k - 1]

\* The right-hand side of Pow2.
Doubled(f) == [n \in Nat |-> IF n = 0 THEN 1 ELSE 2 * f[n - 1]]

\* There are functions with the first n powers of two.
LEMMA FitsExists == \A n \in Nat : \E f : Fits(f, n)
<1> DEFINE T == {n \in Nat : \E f : Fits(f, n)}
<1>1. 0 \in T
  <2>1. Fits([k \in 0..0 |-> 1], 0)
    BY DEF Fits
  <2>2. QED
    BY <2>1
<1>2. ASSUME NEW n \in T PROVE n + 1 \in T
  <2>1. PICK f : Fits(f, n)
    OBVIOUS
  <2> DEFINE g == [k \in 0..(n + 1) |-> IF k <= n THEN f[k] ELSE 2 * f[n]]
  <2>2. Fits(g, n + 1)
    BY <2>1 DEF Fits
  <2>3. QED
    BY <2>2
<1>3. T \in SUBSET Nat
  OBVIOUS
<1> HIDE DEF T
<1>4. T = Nat
  BY <1>1, <1>2, <1>3, NatSetInduction, Zenon
<1>5. QED
  BY <1>4 DEF T

\* They agree where both are defined.
LEMMA FitsAgree ==
  ASSUME NEW m \in Nat, NEW n \in Nat, NEW f, NEW g, Fits(f, m), Fits(g, n)
  PROVE  \A k \in Nat : k <= m /\ k <= n => f[k] = g[k]
<1> DEFINE T == {k \in Nat : k <= m /\ k <= n => f[k] = g[k]}
<1>1. 0 \in T
  BY DEF Fits
<1>2. ASSUME NEW k \in T PROVE k + 1 \in T
  <2>1. SUFFICES ASSUME k + 1 <= m, k + 1 <= n PROVE f[k + 1] = g[k + 1]
    OBVIOUS
  <2>2. /\ k + 1 \in 0..m /\ k + 1 \in 0..n /\ k + 1 # 0 /\ (k + 1) - 1 = k
        /\ k <= m /\ k <= n
    BY <2>1
  <2>3. f[k] = g[k]
    BY <2>2
  <2>4. f[k + 1] = 2 * f[k] /\ g[k + 1] = 2 * g[k]
    BY <2>2 DEF Fits
  <2>5. QED
    BY <2>3, <2>4
<1>3. T \in SUBSET Nat
  OBVIOUS
<1> HIDE DEF T
<1>4. T = Nat
  BY <1>1, <1>2, <1>3, NatSetInduction, Zenon
<1>5. QED
  BY <1>4 DEF T

\* So the recursive definition of Pow2 does define a function.
LEMMA Pow2Unfolds == Pow2 = Doubled(Pow2)
<1> DEFINE Approx(n) == CHOOSE f : Fits(f, n)
           F == [n \in Nat |-> Approx(n)[n]]
<1>1. \A n \in Nat : Fits(Approx(n), n)
  BY FitsExists, Zenon
<1> HIDE DEF Approx
<1>2. F[0] = 1
  BY <1>1 DEF Fits
<1>3. ASSUME NEW n \in Nat, n # 0 PROVE F[n] = 2 * F[n - 1]
  <2>1. n - 1 \in Nat /\ n - 1 <= n /\ n - 1 <= n - 1
    BY <1>3
  <2>2. Approx(n)[n - 1] = Approx(n - 1)[n - 1]
    BY <1>1, <2>1, FitsAgree
  <2>3. Approx(n)[n] = 2 * Approx(n)[n - 1]
    BY <1>1, <1>3 DEF Fits
  <2>4. QED
    BY <2>1, <2>2, <2>3
<1>4. F = [n \in Nat |-> F[n]]
  OBVIOUS
<1> HIDE DEF F
<1>5. F = Doubled(F)
  BY <1>2, <1>3, <1>4 DEF Doubled
<1>6. Pow2 = CHOOSE f : f = Doubled(f)
  BY DEF Pow2, Doubled
<1>7. QED
  BY <1>5, <1>6

\* 2^0 is 1, 2^(n+1) is twice 2^n, and all are positive.
LEMMA Pow2Facts ==
  /\ Pow2[0] = 1
  /\ \A n \in Nat : Pow2[n] \in Nat \ {0} /\ Pow2[n + 1] = 2 * Pow2[n]
<1> DEFINE T == {n \in Nat : Pow2[n] \in Nat \ {0}}
<1>1. Pow2[0] = 1 /\ \A n \in Nat : Pow2[n + 1] = 2 * Pow2[n]
  BY Pow2Unfolds DEF Doubled
<1>2. 0 \in T /\ \A n \in T : n + 1 \in T
  BY <1>1
<1>3. T \in SUBSET Nat
  OBVIOUS
<1> HIDE DEF T
<1>4. T = Nat
  BY <1>2, <1>3, NatSetInduction, Zenon
<1>5. QED
  BY <1>1, <1>4 DEF T

-----------------------------------------------------------------------------
(* Chunks. *)

\* The rows of the chunks up to the n-th: the capacity after n growths.
Capacity(n) == PerSize * Pow2[n]

\* The first index of a chunk.
FirstIdx(c) == IF c = 0 THEN 0 ELSE Capacity(c - 1)

\* Capacities double, and begin with PerSize.
LEMMA CapacityFacts ==
  /\ Capacity(0) = PerSize
  /\ \A n \in Nat : /\ Capacity(n) \in Nat /\ Capacity(n) >= PerSize
                    /\ Capacity(n + 1) = 2 * Capacity(n)
                    /\ ChunkSize(n + 1) = Capacity(n)
<1>0. \A a, b \in Nat : /\ a * b \in Nat /\ a * (2 * b) = 2 * (a * b)
                       /\ b >= 1 => a * b >= a
  OBVIOUS
<1>1. Capacity(0) = PerSize
  BY PerSizeAssumption, Pow2Facts DEF Capacity
<1>2. ASSUME NEW n \in Nat
      PROVE  /\ Capacity(n) \in Nat /\ Capacity(n) >= PerSize
             /\ Capacity(n + 1) = 2 * Capacity(n)
             /\ ChunkSize(n + 1) = Capacity(n)
  <2>1. PICK p \in Nat : p = Pow2[n] /\ p >= 1 /\ Pow2[n + 1] = 2 * p
    BY Pow2Facts
  <2>2. PerSize * p \in Nat /\ PerSize * p >= PerSize
    BY <1>0, <2>1, PerSizeAssumption
  <2>3. PerSize * (2 * p) = 2 * (PerSize * p)
    BY <1>0, <2>1, PerSizeAssumption
  <2>4. ChunkSize(n + 1) = Capacity(n)
    BY DEF ChunkSize, Capacity
  <2>5. QED
    BY <2>1, <2>2, <2>3, <2>4 DEF Capacity
<1>3. QED
  BY <1>1, <1>2

\* A later capacity is at least twice an earlier one.
LEMMA CapacityGrows ==
  \A m, n \in Nat : m < n => 2 * Capacity(m) <= Capacity(n)
<1> SUFFICES ASSUME NEW m \in Nat
             PROVE  \A n \in Nat : m < n => 2 * Capacity(m) <= Capacity(n)
  OBVIOUS
<1> DEFINE T == {n \in Nat : m < n => 2 * Capacity(m) <= Capacity(n)}
<1>1. 0 \in T
  OBVIOUS
<1>2. ASSUME NEW n \in T PROVE n + 1 \in T
  <2>1. SUFFICES ASSUME m < n + 1 PROVE 2 * Capacity(m) <= Capacity(n + 1)
    OBVIOUS
  <2>2. /\ Capacity(m) \in Nat /\ Capacity(n) \in Nat
        /\ Capacity(n + 1) = 2 * Capacity(n)
    BY CapacityFacts
  <2>3. m = n \/ m < n
    BY <2>1
  <2>4. QED
    BY <2>2, <2>3
<1>3. T \in SUBSET Nat
  OBVIOUS
<1> HIDE DEF T
<1>4. T = Nat
  BY <1>1, <1>2, <1>3, NatSetInduction, Zenon
<1>5. QED
  BY <1>4 DEF T

\* An index is on a page before the k-th exactly if it is below k pages.
LEMMA PageBefore ==
  ASSUME NEW i \in Nat, NEW k \in Nat
  PROVE  i \div PerSize \in Nat /\ (i \div PerSize < k <=> i < PerSize * k)
<1> DEFINE p == PerSize
<1>1. p \in Nat /\ p > 0
  BY PerSizeAssumption
<1> HIDE DEF p
<1>2. i \div p \in Nat /\ p * (i \div p) <= i /\ i < p * (i \div p) + p
  BY <1>1
<1> DEFINE q == i \div p
<1> HIDE DEF q
<1>3. q \in Nat /\ p * q <= i /\ i < p * q + p
  BY <1>2 DEF q
<1>4. ASSUME q < k PROVE i < p * k
  <2>1. p * (q + 1) <= p * k
    BY <1>1, <1>3, <1>4
  <2>2. QED
    BY <1>1, <1>3, <2>1
<1>5. ASSUME i < p * k, ~(q < k) PROVE FALSE
  <2>1. p * k <= p * q
    BY <1>1, <1>3, <1>5
  <2>2. QED
    BY <1>1, <1>3, <1>5, <2>1
<1>6. QED
  BY <1>3, <1>4, <1>5 DEF p, q

\* An index below the n-th capacity is in a chunk up to the n-th, at a place
\* below the size of that chunk.
LEMMA ChunkFacts ==
  ASSUME NEW n \in Nat, n < MaxRoots, NEW i \in Nat, i < Capacity(n)
  PROVE  /\ Chunk(i) \in 0..n
         /\ FirstIdx(Chunk(i)) <= i /\ i < Capacity(Chunk(i))
         /\ Offset(i) = i - FirstIdx(Chunk(i))
         /\ Offset(i) \in 0..(ChunkSize(Chunk(i)) - 1)
<1> DEFINE Here(c) == FirstIdx(c) <= i /\ i < Capacity(c)
<1>1. \A c \in Nat : /\ i \div PerSize < Pow2[c]
                     /\ c = 0 \/ Pow2[c - 1] <= i \div PerSize
                     <=> Here(c)
  <2> SUFFICES ASSUME NEW c \in Nat
               PROVE  (/\ i \div PerSize < Pow2[c]
                       /\ c = 0 \/ Pow2[c - 1] <= i \div PerSize) <=> Here(c)
    OBVIOUS
  <2>1. i \div PerSize < Pow2[c] <=> i < Capacity(c)
    BY PageBefore, Pow2Facts DEF Capacity
  <2>2. c # 0 => (Pow2[c - 1] <= i \div PerSize <=> Capacity(c - 1) <= i)
    <3>1. SUFFICES ASSUME c # 0
                   PROVE  Pow2[c - 1] <= i \div PerSize <=> Capacity(c - 1) <= i
      OBVIOUS
    <3>2. c - 1 \in Nat /\ Pow2[c - 1] \in Nat /\ Capacity(c - 1) \in Nat
      BY <3>1, Pow2Facts, CapacityFacts
    <3>3. i \div PerSize < Pow2[c - 1] <=> i < Capacity(c - 1)
      BY <3>2, PageBefore DEF Capacity
    <3>4. i \div PerSize \in Nat
      BY <3>2, PageBefore
    <3>5. QED
      BY <3>2, <3>3, <3>4
  <2>3. QED
    BY <2>1, <2>2 DEF FirstIdx
<1>2. \E c \in 0..n : Here(c)
  <2> DEFINE T == {m \in Nat : i < Capacity(m) => \E c \in 0..m : Here(c)}
  <2>1. 0 \in T
    BY DEF FirstIdx
  <2>2. ASSUME NEW m \in T PROVE m + 1 \in T
    BY CapacityFacts DEF FirstIdx
  <2>3. T \in SUBSET Nat
    OBVIOUS
  <2> HIDE DEF T
  <2>4. T = Nat
    BY <2>1, <2>2, <2>3, NatSetInduction, Zenon
  <2>5. QED
    BY <2>4 DEF T
<1>3. \A c, d \in Nat : Here(c) /\ Here(d) => c = d
  <2> SUFFICES ASSUME NEW c \in Nat, NEW d \in Nat, Here(c), Here(d), c < d
               PROVE  FALSE
    OBVIOUS
  <2>1. Capacity(c) \in Nat /\ Capacity(d - 1) \in Nat /\ d - 1 \in Nat
    BY CapacityFacts
  <2>2. c < d - 1 => 2 * Capacity(c) <= Capacity(d - 1)
    BY <2>1, CapacityGrows
  <2>3. Capacity(d - 1) <= i /\ i < Capacity(c)
    BY DEF FirstIdx
  <2>4. QED
    BY <2>1, <2>2, <2>3
<1>4. PICK c \in 0..n : Here(c)
  BY <1>2
<1>5. c \in 0..MaxRoots
  BY PerSizeAssumption
<1>6. Chunk(i) \in 0..MaxRoots /\ Here(Chunk(i))
  BY <1>1, <1>4, <1>5 DEF Chunk
<1>7. Chunk(i) = c
  BY <1>3, <1>4, <1>6, PerSizeAssumption
<1>8. Offset(i) = i - FirstIdx(c)
  <2>1. CASE c = 0
    BY <1>7, <2>1, Pow2Facts, PerSizeAssumption DEF Offset, FirstIdx
  <2>2. CASE c # 0
    <3>1. PICK p \in Nat : p = Pow2[c - 1] /\ Pow2[c] = 2 * p
      BY <2>2, Pow2Facts
    <3>2. Pow2[c] \div 2 = p
      BY <3>1
    <3>3. p * PerSize = PerSize * p
      BY <3>1, PerSizeAssumption
    <3>4. QED
      BY <1>7, <2>2, <3>1, <3>2, <3>3 DEF Offset, FirstIdx, Capacity
  <2>3. QED
    BY <2>1, <2>2
<1>9. i - FirstIdx(c) \in 0..(ChunkSize(c) - 1)
  <2>1. CASE c = 0
    BY <1>4, <2>1, CapacityFacts, PerSizeAssumption DEF FirstIdx, ChunkSize
  <2>2. CASE c # 0
    <3>1. c - 1 \in Nat
      BY <2>2
    <3>2. ChunkSize(c) = Capacity(c - 1) /\ Capacity(c) = 2 * Capacity(c - 1)
      BY <3>1, CapacityFacts
    <3>3. QED
      BY <1>4, <2>2, <3>1, <3>2, CapacityFacts DEF FirstIdx
  <2>3. QED
    BY <2>1, <2>2
<1>10. QED
  BY <1>4, <1>7, <1>8, <1>9

-----------------------------------------------------------------------------
(* The invariant. *)

\* t mapped a region that is neither stored nor unmapped yet.
Owns(t) == pc[t] \in {"compare_exchange", "root_idx", "store_root"}

\* t has raised the capacity and has not stored its region yet.
Raises(t) == pc[t] \in {"root_idx", "store_root"}

\* Who owns a region is the only one, it is nowhere else, and as large as the
\* capacity its owner has read. A stored region is mapped, in one slot.
RegionInv ==
  /\ \A t \in Threads : Owns(t) =>
       /\ region[t] \in 1..Len(size) /\ region[t] \notin unmapped
       /\ size[region[t]] = cap[t]
       /\ \A c \in DOMAIN pmem_root : pmem_root[c] # region[t]
  /\ \A t, u \in Threads : Owns(t) /\ Owns(u) /\ region[t] = region[u] => t = u
  /\ \A c \in DOMAIN pmem_root : pmem_root[c] # 0 => pmem_root[c] \notin unmapped
  /\ \A c, d \in DOMAIN pmem_root :
       pmem_root[c] # 0 /\ pmem_root[c] = pmem_root[d] => c = d

\* The bucket has grown n times: the chunks before the n-th are stored, those
\* after it are not, and the n-th is unless a thread is about to store it.
Grown(n) ==
  /\ n \in 0..(MaxRoots - 1)
  /\ pmem_cap = Capacity(n)
  /\ \A c \in DOMAIN pmem_root : /\ c < n => pmem_root[c] # 0
                                 /\ c > n => pmem_root[c] = 0
  /\ \A t \in Threads : Raises(t) =>
       /\ n > 0 /\ cap[t] = Capacity(n - 1) /\ pmem_root[n] = 0
       /\ pc[t] = "root_idx" => pmem_root_idx = n - 1
       /\ pc[t] = "store_root" => pmem_root_idx = n /\ slot[t] = n
  /\ (\A t \in Threads : ~Raises(t)) => pmem_root_idx = n /\ pmem_root[n] # 0

\* One thread at a time raises the capacity.
GrowthInv ==
  /\ \E n \in Nat : Grown(n)
  /\ \A t, u \in Threads : Raises(t) /\ Raises(u) => t = u

\* An index that was handed out is in the hands of a thread or has a row.
Issued ==
  \A i \in 0..(pmem_offset - 1) :
    \/ \E t \in Threads : pc[t] # "idle" /\ idx[t] = i
    \/ \E row \in rows : row.idx = i

\* An index is never past the next chunk: neither when it is handed out, nor
\* when its thread finds it past the capacity it has read.
IndexInv ==
  /\ \A t \in Threads : pc[t] # "idle" =>
       idx[t] < pmem_offset /\ idx[t] < 2 * pmem_cap
  /\ \A t \in Threads : pc[t] = "mmap_file" \/ Owns(t) =>
       /\ cap[t] <= idx[t] /\ idx[t] < 2 * cap[t] /\ cap[t] <= pmem_cap
       /\ \E n \in Nat : cap[t] = Capacity(n)
  /\ \A t \in Threads : pc[t] \in {"address", "fault"} => idx[t] < pmem_cap

\* A row is where its index says, in the region of its chunk if that was
\* stored, and in bounds as long as the process runs.
RowInv ==
  /\ \A row \in rows :
       /\ row.idx \in 0..(pmem_offset - 1) /\ row.idx < pmem_cap
       /\ row.offset = Offset(row.idx)
       /\ row.region # 0 => row.region = pmem_root[Chunk(row.idx)]
  /\ Faulted \/ InBounds

\* Under the lock one thread is at work and no address is out of bounds.
LockInv ==
  locked => /\ ~Faulted
            /\ \A t \in Threads : pc[t] # "idle" => holder = {t}

\* The inductive invariant.
IInv ==
  /\ TypeOK /\ RegionInv /\ RegionsAccounted /\ RootsMatchChunks /\ GrowthInv
  /\ Issued /\ IndexInv /\ RowInv /\ LockInv

-----------------------------------------------------------------------------
(* More indexes than threads. *)

\* Of PerSize indexes that were handed out one has a row, if there is a
\* thread that holds none of them.
LEMMA SomeRowThere ==
  ASSUME Issued, NEW a \in Nat, NEW k \in Nat, PerSize <= k, a + k <= pmem_offset,
         pmem_offset \in Nat, idx \in [Threads -> Nat],
         NEW t \in Threads, pc[t] # "idle" => idx[t] \notin a..(a + k - 1)
  PROVE  \E row \in rows : row.idx \in a..(a + k - 1)
<1> DEFINE A == a..(a + k - 1)
           U == {u \in Threads : pc[u] # "idle" /\ idx[u] \in A}
           f == [u \in U |-> idx[u]]
<1>1. SUFFICES ASSUME ~\E row \in rows : row.idx \in A PROVE FALSE
  OBVIOUS
<1>2. \A i \in A : i \in 0..(pmem_offset - 1)
  OBVIOUS
<1>3. \A i \in A : \E u \in U : idx[u] = i
  BY <1>1, <1>2 DEF Issued
<1>4. f \in Surjection(U, A)
  <2>1. f \in [U -> A]
    OBVIOUS
  <2>2. \A i \in A : \E u \in U : f[u] = i
    BY <1>3
  <2>3. QED
    BY <2>1, <2>2 DEF Surjection
<1>5. U \in SUBSET (Threads \ {t})
  OBVIOUS
<1> HIDE DEF f, U
<1>6. /\ IsFiniteSet(Threads \ {t}) /\ Cardinality(Threads \ {t}) = Cardinality(Threads) - 1
      /\ Cardinality(Threads) \in Nat
  BY PerSizeAssumption, FS_RemoveElement, FS_CardinalityType
<1>7. IsFiniteSet(U) /\ Cardinality(U) <= Cardinality(Threads \ {t})
  BY <1>5, <1>6, FS_Subset, Zenon
<1>8. Cardinality(A) <= Cardinality(U) /\ Cardinality(U) \in Nat
  BY <1>4, <1>7, FS_Surjection, FS_CardinalityType, Zenon
<1>9. Cardinality(A) = k
  <2>1. a \in Int /\ a + k - 1 \in Int /\ (k > 0 => a <= a + k - 1) /\ a + k - 1 - a + 1 = k
    OBVIOUS
  <2>2. Cardinality(A) = IF a > a + k - 1 THEN 0 ELSE a + k - 1 - a + 1
    BY <2>1, FS_Interval
  <2>3. k > 0
    BY PerSizeAssumption
  <2>4. QED
    BY <2>1, <2>2, <2>3
<1> HIDE DEF A
<1>10. QED
  BY <1>6, <1>7, <1>8, <1>9, PerSizeAssumption

\* A row that is in bounds has its chunk stored.
LEMMA RowStored ==
  ASSUME IInv, ~Faulted, NEW row \in rows
  PROVE  pmem_root[Chunk(row.idx)] # 0
BY DEF IInv, RowInv, InBounds, Mapped

\* The region of a row that has one is that of its chunk, and mapped.
LEMMA RowPlaces ==
  ASSUME IInv, NEW row \in rows, row.region # 0
  PROVE  /\ Chunk(row.idx) \in DOMAIN pmem_root
         /\ row.region = pmem_root[Chunk(row.idx)]
         /\ row.region \in 1..Len(size) /\ row.region \notin unmapped
<1>1. PICK n \in Nat : Grown(n)
  BY DEF IInv, GrowthInv
<1>2. n < MaxRoots /\ row.idx \in Nat /\ row.idx < Capacity(n)
  <2>1. row.idx \in 0..(pmem_offset - 1) /\ row.idx < pmem_cap
    BY DEF IInv, RowInv
  <2>2. n \in 0..(MaxRoots - 1) /\ MaxRoots \in Nat /\ pmem_cap = Capacity(n)
    BY <1>1, PerSizeAssumption DEF Grown
  <2>3. QED
    BY <2>1, <2>2
<1>3. MaxRoots \in Nat
  BY PerSizeAssumption
<1>4. Chunk(row.idx) \in 0..(MaxRoots - 1)
  <2>1. Chunk(row.idx) \in 0..n
    BY <1>2, ChunkFacts
  <2>2. QED
    BY <1>2, <1>3, <2>1
<1>5. pmem_root \in [0..(MaxRoots - 1) -> 0..Len(size)] /\ Len(size) \in Nat
  BY DEF IInv, TypeOK
<1>6. row.region = pmem_root[Chunk(row.idx)]
  BY DEF IInv, RowInv
<1>7. row.region \notin unmapped
  BY <1>4, <1>5, <1>6 DEF IInv, RegionInv
<1>8. QED
  BY <1>4, <1>5, <1>6, <1>7

\* The indexes from the n-th capacity up to twice as many are the next chunk.
LEMMA NextChunk ==
  ASSUME NEW n \in Nat, n + 1 < MaxRoots,
         NEW i \in Capacity(n)..(Capacity(n) + Capacity(n) - 1)
  PROVE  Chunk(i) = n + 1
<1>1. Capacity(n) \in Nat /\ Capacity(n + 1) = 2 * Capacity(n) /\ i \in Nat
  BY CapacityFacts
<1>2. Chunk(i) \in 0..(n + 1) /\ i < Capacity(Chunk(i))
  BY <1>1, ChunkFacts
<1>3. ASSUME Chunk(i) <= n PROVE FALSE
  <2>1. Capacity(Chunk(i)) \in Nat
    BY <1>2, CapacityFacts
  <2>2. Chunk(i) < n => 2 * Capacity(Chunk(i)) <= Capacity(n)
    BY <1>2, CapacityGrows
  <2>3. QED
    BY <1>1, <1>2, <1>3, <2>1, <2>2
<1>4. QED
  BY <1>2, <1>3

-----------------------------------------------------------------------------
(* Every step keeps the invariant. *)

\* The bucket begins with one chunk and no threads at work.
LEMMA InitIInv == Init => IInv
<1> SUFFICES ASSUME Init PROVE IInv
  OBVIOUS
<1>1. /\ ChunkSize(1) = PerSize /\ Capacity(0) = PerSize
      /\ ChunkSize(0) = PerSize /\ PerSize \in Nat \ {0}
      /\ MaxRoots \in Nat \ {0} /\ MaxRows \in Nat
  BY CapacityFacts, PerSizeAssumption DEF ChunkSize
<1>2. TypeOK
  <2>1. pmem_cap \in {ChunkSize(c) : c \in 1..MaxRoots}
    BY <1>1 DEF Init
  <2>2. QED
    BY <1>1, <2>1 DEF Init, TypeOK
<1>3. \A t \in Threads : pc[t] = "idle"
  BY DEF Init
<1>4. \A t \in Threads : ~Owns(t) /\ ~Raises(t)
  BY <1>3 DEF Owns, Raises
<1>5. RegionInv /\ RegionsAccounted /\ RootsMatchChunks
  BY <1>1, <1>4 DEF Init, RegionInv, RegionsAccounted, RootsMatchChunks
<1>6. GrowthInv
  <2>1. Grown(0)
    BY <1>1, <1>4 DEF Init, Grown
  <2>2. QED
    BY <1>4, <2>1 DEF GrowthInv
<1>7. Issued /\ IndexInv
  BY <1>3, <1>4 DEF Init, Issued, IndexInv
<1>8. RowInv /\ LockInv
  BY <1>3 DEF Init, RowInv, LockInv, InBounds, Faulted
<1>9. QED
  BY <1>2, <1>5, <1>6, <1>7, <1>8 DEF IInv

\* A step that touches neither the chunks nor a thread that owns a region
\* leaves what the invariant says of them.
LEMMA ChunksKept ==
  ASSUME IInv, UNCHANGED <<pmem_cap, pmem_root_idx, pmem_root, size, unmapped>>,
         \A u \in Threads : /\ Owns(u)' <=> Owns(u)
                            /\ Owns(u) => /\ pc'[u] = pc[u] /\ region'[u] = region[u]
                                          /\ cap'[u] = cap[u] /\ slot'[u] = slot[u]
  PROVE  RegionInv' /\ RegionsAccounted' /\ RootsMatchChunks' /\ GrowthInv'
<1>1. \A u \in Threads : Raises(u)' <=> Raises(u)
  BY DEF Owns, Raises
<1>2. RegionInv'
  BY DEF IInv, RegionInv
<1>3. RegionsAccounted'
  BY DEF IInv, RegionsAccounted, Owns
<1>4. RootsMatchChunks'
  BY DEF IInv, RootsMatchChunks
<1>5. GrowthInv'
  <2>1. PICK n \in Nat : Grown(n)
    BY DEF IInv, GrowthInv
  <2>2. Grown(n)'
    BY <1>1, <2>1 DEF Grown, Owns, Raises
  <2>3. QED
    BY <1>1, <2>2 DEF IInv, GrowthInv
<1>6. QED
  BY <1>2, <1>3, <1>4, <1>5

\* An index is handed out.
LEMMA NextPmemOffsetKeeps ==
  ASSUME IInv, ~Faulted, NEW t \in Threads, NextPmemOffset(t) PROVE IInv'
<1> USE DEF NextPmemOffset, Goto, globals, regions
<1>0. TypeOK /\ PerSize \in Nat \ {0} /\ MaxRows \in Nat /\ pmem_offset \in Nat
  <2>1. TypeOK
    BY DEF IInv
  <2>2. PerSize \in Nat \ {0} /\ MaxRows \in Nat
    BY PerSizeAssumption
  <2>3. pmem_offset \in 0..MaxRows
    BY <2>1 DEF TypeOK
  <2>4. QED
    BY <2>1, <2>2, <2>3
<1>1. TypeOK'
  BY <1>0 DEF TypeOK
<1>2. RegionInv' /\ RegionsAccounted' /\ RootsMatchChunks' /\ GrowthInv'
  <2>1. \A u \in Threads : /\ Owns(u)' <=> Owns(u)
                           /\ Owns(u) => pc'[u] = pc[u]
    BY <1>0 DEF Owns, TypeOK
  <2>2. QED
    BY <2>1, ChunksKept
<1>3. Issued'
  <2>1. ASSUME NEW i \in 0..(pmem_offset' - 1)
        PROVE  \/ \E u \in Threads : pc'[u] # "idle" /\ idx'[u] = i
               \/ \E row \in rows : row.idx = i
    <3>1. CASE i = pmem_offset
      <4>1. pc'[t] # "idle" /\ idx'[t] = i
        BY <1>0, <3>1 DEF TypeOK
      <4>2. QED
        BY <4>1
    <3>2. CASE i # pmem_offset
      <4>1. i \in 0..(pmem_offset - 1)
        BY <1>0, <2>1, <3>2
      <4>2. ASSUME NEW u \in Threads, pc[u] # "idle", idx[u] = i
            PROVE  pc'[u] # "idle" /\ idx'[u] = i
        BY <1>0, <4>2 DEF TypeOK
      <4>3. QED
        BY <4>1, <4>2 DEF IInv, Issued
    <3>3. QED
      BY <3>1, <3>2
  <2>2. QED
    BY <2>1 DEF Issued
<1>4. pmem_offset < 2 * pmem_cap
  <2>1. PICK n \in Nat : Grown(n)
    BY DEF IInv, GrowthInv
  <2>2. pmem_cap \in Nat /\ PerSize <= pmem_cap
    BY <2>1, CapacityFacts DEF Grown
  <2>3. SUFFICES ASSUME pmem_cap + pmem_cap <= pmem_offset PROVE FALSE
    BY <1>0, <2>2
  <2>4. PICK row \in rows : row.idx \in pmem_cap..(pmem_cap + pmem_cap - 1)
    BY <1>0, <2>2, <2>3, SomeRowThere DEF IInv, TypeOK
  <2>5. row.idx < pmem_cap
    BY DEF IInv, RowInv
  <2>6. QED
    BY <2>2, <2>4, <2>5
<1>5. IndexInv'
  <2>1. /\ pc'[t] = "load_cap" /\ idx'[t] = pmem_offset /\ ~Owns(t)'
        /\ \A u \in Threads \ {t} :
             pc'[u] = pc[u] /\ idx'[u] = idx[u] /\ (Owns(u)' <=> Owns(u))
    BY <1>0 DEF TypeOK, Owns
  <2>2. \A u \in Threads : idx[u] \in Nat
    BY <1>0 DEF TypeOK
  <2>3. \A u \in Threads : pc'[u] # "idle" =>
          idx'[u] < pmem_offset' /\ idx'[u] < 2 * pmem_cap
    BY <1>0, <1>4, <2>1, <2>2 DEF IInv, IndexInv
  <2>4. \A u \in Threads : pc'[u] = "mmap_file" \/ Owns(u)' =>
          /\ cap[u] <= idx'[u] /\ idx'[u] < 2 * cap[u] /\ cap[u] <= pmem_cap
          /\ \E n \in Nat : cap[u] = Capacity(n)
    BY <2>1 DEF IInv, IndexInv
  <2>5. \A u \in Threads : pc'[u] \in {"address", "fault"} => idx'[u] < pmem_cap
    BY <2>1 DEF IInv, IndexInv
  <2>6. QED
    BY <2>3, <2>4, <2>5 DEF IndexInv
<1>6. RowInv'
  BY <1>0 DEF IInv, RowInv, Faulted, InBounds, Mapped
<1>7. LockInv'
  BY <1>0 DEF IInv, LockInv, Faulted, TypeOK
<1>8. QED
  BY <1>1, <1>2, <1>3, <1>5, <1>6, <1>7 DEF IInv

\* The capacity is read.
LEMMA LoadCapKeeps ==
  ASSUME IInv, ~Faulted, NEW t \in Threads, LoadCap(t) PROVE IInv'
<1> USE DEF LoadCap, Goto, globals, regions
<1>0. TypeOK
  BY DEF IInv
<1>1. PICK n \in Nat : pmem_cap = Capacity(n) /\ pmem_cap \in Nat
  BY CapacityFacts DEF IInv, GrowthInv, Grown
<1>2. TypeOK'
  BY <1>0, <1>1 DEF TypeOK
<1>3. RegionInv' /\ RegionsAccounted' /\ RootsMatchChunks' /\ GrowthInv'
  <2>1. \A u \in Threads : /\ Owns(u)' <=> Owns(u)
                           /\ Owns(u) => pc'[u] = pc[u] /\ cap'[u] = cap[u]
    BY <1>0 DEF Owns, TypeOK
  <2>2. QED
    BY <2>1, ChunksKept
<1>4. Issued'
  BY <1>0 DEF IInv, Issued, TypeOK
<1>5. IndexInv'
  <2>1. ASSUME NEW u \in Threads
        PROVE  /\ pc'[u] # "idle" => idx[u] < pmem_offset /\ idx[u] < 2 * pmem_cap
               /\ pc'[u] = "mmap_file" \/ Owns(u)' =>
                    /\ cap'[u] <= idx[u] /\ idx[u] < 2 * cap'[u] /\ cap'[u] <= pmem_cap
                    /\ \E m \in Nat : cap'[u] = Capacity(m)
               /\ pc'[u] \in {"address", "fault"} => idx[u] < pmem_cap
    <3>1. CASE u = t
      BY <1>0, <1>1, <3>1 DEF IInv, IndexInv, TypeOK, Owns
    <3>2. CASE u # t
      BY <1>0, <3>2 DEF IInv, IndexInv, TypeOK, Owns
    <3>3. QED
      BY <3>1, <3>2
  <2>2. QED
    BY <2>1 DEF IndexInv
<1>6. RowInv'
  BY <1>0 DEF IInv, RowInv, Faulted, InBounds, Mapped
<1>7. LockInv'
  BY <1>0 DEF IInv, LockInv, Faulted, TypeOK
<1>8. QED
  BY <1>2, <1>3, <1>4, <1>5, <1>6, <1>7 DEF IInv

\* A region is mapped.
LEMMA MmapFileKeeps ==
  ASSUME IInv, ~Faulted, NEW t \in Threads, MmapFile(t) PROVE IInv'
<1> USE DEF MmapFile, Goto, globals
<1> DEFINE new == Len(size) + 1
<1>0. TypeOK
  BY DEF IInv
<1>1. /\ Len(size) \in Nat /\ new \in Nat /\ cap[t] \in Nat /\ size' \in Seq(Nat)
      /\ Len(size') = new /\ size'[new] = cap[t]
      /\ \A r \in 1..Len(size) : size'[r] = size[r]
  BY <1>0 DEF TypeOK
<1>2. /\ pc[t] = "mmap_file" /\ pc' = [pc EXCEPT ![t] = "compare_exchange"]
      /\ region' = [region EXCEPT ![t] = new]
      /\ UNCHANGED <<pmem_offset, pmem_cap, pmem_root_idx, pmem_root, unmapped, locked,
                     holder, idx, cap, slot, rows>>
  OBVIOUS
<1>3. /\ pmem_root \in [0..(MaxRoots - 1) -> 0..Len(size)]
      /\ unmapped \subseteq 1..Len(size) /\ region \in [Threads -> 0..Len(size)]
      /\ pc \in [Threads -> {"idle", "load_cap", "mmap_file", "compare_exchange",
                             "root_idx", "store_root", "address", "fault"}]
  BY <1>0 DEF TypeOK
<1>4. /\ \A u \in Threads \ {t} : pc'[u] = pc[u] /\ region'[u] = region[u]
      /\ pc'[t] = "compare_exchange" /\ region'[t] = new
  BY <1>2, <1>3
<1> HIDE DEF MmapFile, new
<1>5. TypeOK'
  <2>1. 0..Len(size) \subseteq 0..Len(size') /\ 1..Len(size) \subseteq 1..Len(size')
        /\ new \in 0..Len(size')
    BY <1>1 DEF new
  <2>2. /\ pmem_root' \in [0..(MaxRoots - 1) -> 0..Len(size')]
        /\ unmapped' \subseteq 1..Len(size') /\ region' \in [Threads -> 0..Len(size')]
    BY <1>2, <1>3, <2>1
  <2>3. QED
    BY <1>0, <1>1, <1>2, <2>2 DEF TypeOK
<1>6. /\ \A u \in Threads \ {t} : Owns(u)' <=> Owns(u)
      /\ \A u \in Threads : Raises(u)' <=> Raises(u)
      /\ Owns(t)' /\ ~Owns(t)
  BY <1>2, <1>4 DEF Owns, Raises
<1>7. /\ \A c \in DOMAIN pmem_root : pmem_root[c] # new
      /\ new \notin unmapped /\ \A u \in Threads : region[u] # new
  BY <1>1, <1>3 DEF new
<1>8. RegionInv'
  <2>1. ASSUME NEW u \in Threads, Owns(u)'
        PROVE  /\ region'[u] \in 1..Len(size') /\ region'[u] \notin unmapped
               /\ size'[region'[u]] = cap[u]
               /\ \A c \in DOMAIN pmem_root : pmem_root[c] # region'[u]
    <3>1. CASE u = t
      <4>1. new \in 1..new
        BY <1>1 DEF new
      <4>2. QED
        BY <1>1, <1>4, <1>7, <3>1, <4>1
    <3>2. CASE u # t
      <4>1. /\ region[u] \in 1..Len(size) /\ region[u] \notin unmapped
            /\ size[region[u]] = cap[u]
            /\ \A c \in DOMAIN pmem_root : pmem_root[c] # region[u]
        BY <1>6, <2>1, <3>2 DEF IInv, RegionInv
      <4>2. region[u] \in 1..new
        BY <1>1, <4>1 DEF new
      <4>3. QED
        BY <1>1, <1>4, <3>2, <4>1, <4>2
    <3>3. QED
      BY <3>1, <3>2
  <2>2. ASSUME NEW u \in Threads, NEW v \in Threads, Owns(u)', Owns(v)',
               region'[u] = region'[v]
        PROVE  u = v
    BY <1>4, <1>6, <1>7, <2>2 DEF IInv, RegionInv
  <2>3. QED
    BY <1>2, <2>1, <2>2 DEF IInv, RegionInv
<1>9. RegionsAccounted'
  <2>1. ASSUME NEW r \in 1..Len(size')
        PROVE  \/ r \in unmapped /\ \A c \in DOMAIN pmem_root : pmem_root[c] # r
               \/ r \notin unmapped /\ \E c \in DOMAIN pmem_root : pmem_root[c] = r
               \/ r \notin unmapped /\ \E u \in Threads : region'[u] = r /\ Owns(u)'
    <3>1. CASE r = new
      BY <1>4, <1>6, <1>7, <3>1
    <3>2. CASE r # new
      <4>1. r \in 1..Len(size)
        BY <1>1, <3>2 DEF new
      <4>2. ASSUME NEW u \in Threads, region[u] = r, Owns(u)
            PROVE  region'[u] = r /\ Owns(u)'
        BY <1>4, <1>6, <4>2
      <4>3. \/ r \in unmapped /\ \A c \in DOMAIN pmem_root : pmem_root[c] # r
            \/ r \notin unmapped /\ \E c \in DOMAIN pmem_root : pmem_root[c] = r
            \/ r \notin unmapped /\ \E u \in Threads : region[u] = r /\ Owns(u)
        BY <4>1 DEF IInv, RegionsAccounted, Owns
      <4>4. QED
        BY <4>2, <4>3
    <3>3. QED
      BY <3>1, <3>2
  <2>2. QED
    BY <1>2, <2>1 DEF RegionsAccounted, Owns
<1>10. RootsMatchChunks'
  <2>1. \A c \in DOMAIN pmem_root : pmem_root[c] # 0 => pmem_root[c] \in 1..Len(size)
    BY <1>1, <1>3
  <2>2. QED
    BY <1>1, <1>2, <2>1 DEF IInv, RootsMatchChunks
<1>11. GrowthInv'
  <2>1. PICK n \in Nat : Grown(n)
    BY DEF IInv, GrowthInv
  <2>2. Grown(n)'
    <3>1. \A u \in Threads : Raises(u) => pc'[u] = pc[u]
      BY <1>4, <1>6 DEF Raises
    <3>2. QED
      BY <1>2, <1>6, <2>1, <3>1 DEF Grown
  <2>3. QED
    BY <1>6, <2>2 DEF IInv, GrowthInv
<1>12. Issued'
  <2>1. \A u \in Threads : pc[u] # "idle" => pc'[u] # "idle"
    BY <1>4
  <2>2. QED
    BY <1>2, <2>1 DEF IInv, Issued
<1>13. IndexInv'
  <2>1. \A u \in Threads : /\ pc'[u] # "idle" => pc[u] # "idle"
                           /\ pc'[u] = "mmap_file" \/ Owns(u)' =>
                                pc[u] = "mmap_file" \/ Owns(u)
                           /\ pc'[u] \in {"address", "fault"} =>
                                pc[u] \in {"address", "fault"}
    BY <1>2, <1>4, <1>6
  <2>2. QED
    BY <1>2, <2>1 DEF IInv, IndexInv
<1>14. Faulted' <=> Faulted
  BY <1>2, <1>4 DEF Faulted
<1>15. RowInv'
  <2>1. ASSUME NEW row \in rows, Mapped(row.region, row.idx)
        PROVE  Mapped(row.region, row.idx)'
    <3>1. row.region \in 1..Len(size)
      BY <2>1, RowPlaces DEF Mapped
    <3>2. QED
      BY <1>1, <1>2, <2>1, <3>1 DEF Mapped
  <2>2. QED
    BY <1>2, <1>14, <2>1 DEF IInv, RowInv, InBounds, Mapped
<1>16. LockInv'
  <2>1. \A u \in Threads : pc'[u] # "idle" => pc[u] # "idle"
    BY <1>2, <1>4
  <2>2. QED
    BY <1>2, <1>14, <2>1 DEF IInv, LockInv
<1>17. QED
  BY <1>5, <1>8, <1>9, <1>10, <1>11, <1>12, <1>13, <1>15, <1>16 DEF IInv

\* Who finds the capacity it has read is alone in raising it.
LEMMA NobodyRaises ==
  ASSUME IInv, ~Faulted, NEW t \in Threads, pc[t] = "compare_exchange",
         pmem_cap = cap[t], NEW u \in Threads, Raises(u)
  PROVE  FALSE
<1>1. PICK n \in Nat : Grown(n)
  BY DEF IInv, GrowthInv
<1>2. /\ n \in Nat /\ n > 0 /\ n < MaxRoots /\ pmem_root[n] = 0
      /\ pmem_cap = Capacity(n)
  BY <1>1, PerSizeAssumption DEF Grown
<1>3. n - 1 \in Nat /\ (n - 1) + 1 = n
  BY <1>2
<1>4. /\ Capacity(n - 1) \in Nat /\ PerSize <= Capacity(n - 1)
      /\ Capacity(n) = Capacity(n - 1) + Capacity(n - 1)
  BY <1>3, CapacityFacts, PerSizeAssumption
<1>5. cap[t] <= idx[t] /\ idx[t] < pmem_offset
  BY DEF IInv, IndexInv, Owns
<1>6. pmem_offset \in Nat /\ idx \in [Threads -> Nat]
  BY DEF IInv, TypeOK
<1>7. /\ Capacity(n - 1) + Capacity(n - 1) <= pmem_offset
      /\ idx[t] \notin Capacity(n - 1)..(Capacity(n - 1) + Capacity(n - 1) - 1)
  BY <1>2, <1>4, <1>5, <1>6
<1>8. Issued
  BY DEF IInv
<1>9. PICK row \in rows :
        row.idx \in Capacity(n - 1)..(Capacity(n - 1) + Capacity(n - 1) - 1)
  BY <1>4, <1>6, <1>7, <1>8, SomeRowThere
<1>10. Chunk(row.idx) = n
  BY <1>2, <1>3, <1>9, NextChunk
<1>11. QED
  BY <1>2, <1>10, RowStored

\* The capacity is raised by the one that had read the present one.
LEMMA RaiseCapWins ==
  ASSUME IInv, ~Faulted, NEW t \in Threads, RaiseCap(t), pmem_cap = cap[t]
  PROVE  IInv'
<1>0. TypeOK
  BY DEF IInv
<1>1. /\ pc[t] = "compare_exchange" /\ pmem_cap' = 2 * pmem_cap
      /\ pc' = [pc EXCEPT ![t] = "root_idx"]
      /\ UNCHANGED <<pmem_offset, pmem_root_idx, pmem_root, size, unmapped, locked, holder,
                     idx, cap, region, slot, rows>>
  BY DEF RaiseCap, Goto, locals
<1>2. pc \in [Threads -> {"idle", "load_cap", "mmap_file", "compare_exchange",
                          "root_idx", "store_root", "address", "fault"}]
  BY <1>0 DEF TypeOK
<1>3. \A u \in Threads \ {t} : pc'[u] = pc[u]
  BY <1>1, <1>2
<1>4. pc'[t] = "root_idx"
  BY <1>1, <1>2
<1>5. PICK n \in Nat : Grown(n)
  BY DEF IInv, GrowthInv
<1>6. \A u \in Threads : ~Raises(u)
  BY <1>1, NobodyRaises
<1>7. /\ Capacity(n) \in Nat /\ pmem_cap = Capacity(n) /\ Capacity(n + 1) = 2 * Capacity(n)
      /\ n < MaxRoots /\ MaxRoots \in Nat /\ ChunkSize(n + 2) = Capacity(n + 1)
      /\ Capacity(n) >= PerSize /\ PerSize \in Nat \ {0}
  <2>1. n \in 0..(MaxRoots - 1) /\ pmem_cap = Capacity(n)
    BY <1>5 DEF Grown
  <2>2. MaxRoots \in Nat /\ PerSize \in Nat \ {0}
    BY PerSizeAssumption
  <2>3. ChunkSize((n + 1) + 1) = Capacity(n + 1) /\ (n + 1) + 1 = n + 2
    BY CapacityFacts
  <2>4. QED
    BY <2>1, <2>2, <2>3, CapacityFacts
<1>8. n + 1 < MaxRoots
  <2>1. SUFFICES ASSUME n = MaxRoots - 1 PROVE FALSE
    BY <1>7
  <2>2. Capacity(n) <= idx[t] /\ idx[t] < pmem_offset
    BY <1>1, <1>7 DEF IInv, IndexInv, Owns
  <2>3. MaxRows <= Capacity(n) /\ MaxRows \in Nat
    BY <2>1, PerSizeAssumption DEF Capacity
  <2>4. pmem_offset \in 0..MaxRows /\ idx[t] \in Nat
    BY <1>0 DEF TypeOK
  <2>5. QED
    BY <1>7, <2>2, <2>3, <2>4
<1>9. TypeOK'
  <2>1. pmem_cap' = ChunkSize(n + 2) /\ n + 2 \in 1..MaxRoots
    BY <1>1, <1>7, <1>8
  <2>2. pmem_cap' \in {ChunkSize(c) : c \in 1..MaxRoots}
    BY <2>1
  <2>3. pc' \in [Threads -> {"idle", "load_cap", "mmap_file", "compare_exchange",
                             "root_idx", "store_root", "address", "fault"}]
    BY <1>1, <1>2
  <2>4. QED
    BY <1>0, <1>1, <2>2, <2>3 DEF TypeOK
<1>10. /\ \A u \in Threads : Owns(u)' <=> Owns(u)
       /\ \A u \in Threads : Raises(u)' <=> u = t
  <2>1. Owns(t) /\ Owns(t)' /\ Raises(t)'
    BY <1>1, <1>4 DEF Owns, Raises
  <2>2. \A u \in Threads \ {t} : (Owns(u)' <=> Owns(u)) /\ ~Raises(u)'
    BY <1>3, <1>6 DEF Owns, Raises
  <2>3. QED
    BY <2>1, <2>2
<1>11. RegionInv' /\ RootsMatchChunks'
  BY <1>1, <1>10 DEF IInv, RegionInv, RootsMatchChunks
<1>12. RegionsAccounted'
  <2>1. \A u \in Threads : Owns(u) => pc'[u] \in {"compare_exchange", "root_idx", "store_root"}
    BY <1>10 DEF Owns
  <2>2. QED
    BY <1>1, <2>1 DEF IInv, RegionsAccounted, Owns
<1>13. GrowthInv'
  <2>1. \A c \in DOMAIN pmem_root : /\ c < n + 1 => pmem_root[c] # 0
                                    /\ c > n + 1 => pmem_root[c] = 0
    <3>1. DOMAIN pmem_root = 0..(MaxRoots - 1)
      BY <1>0 DEF TypeOK
    <3>2. \A c \in 0..(MaxRoots - 1) : c < n + 1 => c < n \/ c = n
      BY <1>7
    <3>3. \A c \in 0..(MaxRoots - 1) : c > n + 1 => c > n
      BY <1>7
    <3>4. QED
      BY <1>5, <1>6, <3>1, <3>2, <3>3 DEF Grown
  <2>2. pmem_root[n + 1] = 0
    <3>1. DOMAIN pmem_root = 0..(MaxRoots - 1) /\ n + 1 \in 0..(MaxRoots - 1) /\ n + 1 > n
      BY <1>0, <1>7, <1>8 DEF TypeOK
    <3>2. QED
      BY <1>5, <3>1 DEF Grown
  <2>3. pmem_root_idx = n
    BY <1>5, <1>6 DEF Grown
  <2>4. /\ n + 1 \in 0..(MaxRoots - 1) /\ n + 1 > 0 /\ (n + 1) - 1 = n
        /\ pmem_cap' = Capacity(n + 1) /\ cap[t] = Capacity(n)
    BY <1>1, <1>7, <1>8
  <2>5. Grown(n + 1)'
    BY <1>1, <1>4, <1>10, <2>1, <2>2, <2>3, <2>4 DEF Grown
  <2>6. n + 1 \in Nat
    OBVIOUS
  <2>7. QED
    BY <1>10, <2>5, <2>6 DEF GrowthInv
<1>14. Issued'
  <2>1. \A u \in Threads : pc[u] # "idle" => pc'[u] # "idle"
    BY <1>3, <1>4
  <2>2. QED
    BY <1>1, <2>1 DEF IInv, Issued
<1>15. IndexInv'
  <2>1. \A u \in Threads : /\ pc'[u] # "idle" => pc[u] # "idle"
                           /\ pc'[u] = "mmap_file" \/ Owns(u)' =>
                                pc[u] = "mmap_file" \/ Owns(u)
                           /\ pc'[u] \in {"address", "fault"} =>
                                pc[u] \in {"address", "fault"}
    BY <1>1, <1>3, <1>4, <1>10
  <2>2. pmem_cap \in Nat /\ pmem_cap' \in Nat /\ pmem_cap <= pmem_cap'
    BY <1>1, <1>7
  <2>3. \A u \in Threads : idx[u] \in Nat /\ cap[u] \in Nat
    BY <1>0 DEF TypeOK
  <2>4. QED
    BY <1>1, <2>1, <2>2, <2>3 DEF IInv, IndexInv
<1>16. Faulted' <=> Faulted
  BY <1>1, <1>3, <1>4 DEF Faulted
<1>17. RowInv'
  <2>1. pmem_cap \in Nat /\ pmem_cap' \in Nat /\ pmem_cap <= pmem_cap'
    BY <1>1, <1>7
  <2>2. \A row \in rows : row.idx \in Int
    BY DEF IInv, RowInv
  <2>3. QED
    BY <1>1, <1>16, <2>1, <2>2 DEF IInv, RowInv, InBounds, Mapped
<1>18. LockInv'
  <2>1. \A u \in Threads : pc'[u] # "idle" => pc[u] # "idle"
    BY <1>1, <1>3
  <2>2. QED
    BY <1>1, <1>16, <2>1 DEF IInv, LockInv
<1>19. QED
  BY <1>9, <1>11, <1>12, <1>13, <1>14, <1>15, <1>17, <1>18 DEF IInv

\* The capacity was raised by another thread, and the region is unmapped.
LEMMA RaiseCapLoses ==
  ASSUME IInv, ~Faulted, NEW t \in Threads, RaiseCap(t), pmem_cap # cap[t]
  PROVE  IInv'
<1>0. TypeOK
  BY DEF IInv
<1>1. /\ pc[t] = "compare_exchange" /\ pc' = [pc EXCEPT ![t] = "address"]
      /\ unmapped' = unmapped \cup {region[t]}
      /\ UNCHANGED <<pmem_offset, pmem_cap, pmem_root_idx, pmem_root, size, locked, holder,
                     idx, cap, region, slot, rows>>
  BY DEF RaiseCap, Goto, locals
<1>2. pc \in [Threads -> {"idle", "load_cap", "mmap_file", "compare_exchange",
                          "root_idx", "store_root", "address", "fault"}]
  BY <1>0 DEF TypeOK
<1>3. /\ \A u \in Threads \ {t} : pc'[u] = pc[u]
      /\ pc'[t] = "address"
  BY <1>1, <1>2
<1>4. Owns(t) /\ ~Owns(t)' /\ ~Raises(t) /\ ~Raises(t)'
  BY <1>1, <1>3 DEF Owns, Raises
<1>5. \A u \in Threads \ {t} : (Owns(u)' <=> Owns(u)) /\ (Raises(u)' <=> Raises(u))
  BY <1>3 DEF Owns, Raises
<1>6. /\ region[t] \in 1..Len(size) /\ region[t] \notin unmapped
      /\ \A c \in DOMAIN pmem_root : pmem_root[c] # region[t]
      /\ \A u \in Threads \ {t} : Owns(u) => region[u] # region[t]
  BY <1>4 DEF IInv, RegionInv
<1>7. TypeOK'
  <2>1. unmapped' \subseteq 1..Len(size)
    BY <1>0, <1>1, <1>6 DEF TypeOK
  <2>2. pc' \in [Threads -> {"idle", "load_cap", "mmap_file", "compare_exchange",
                             "root_idx", "store_root", "address", "fault"}]
    BY <1>1, <1>2
  <2>3. QED
    BY <1>0, <1>1, <2>1, <2>2 DEF TypeOK
<1>8. RegionInv'
  BY <1>1, <1>4, <1>5, <1>6 DEF IInv, RegionInv
<1>9. RegionsAccounted'
  <2>1. ASSUME NEW r \in 1..Len(size), r # region[t]
        PROVE  \/ r \in unmapped' /\ \A c \in DOMAIN pmem_root : pmem_root[c] # r
               \/ r \notin unmapped' /\ \E c \in DOMAIN pmem_root : pmem_root[c] = r
               \/ r \notin unmapped' /\ \E u \in Threads : region[u] = r /\ Owns(u)'
    BY <1>1, <1>4, <1>5, <2>1 DEF IInv, RegionsAccounted, Owns
  <2>2. QED
    BY <1>1, <1>6, <2>1 DEF RegionsAccounted, Owns
<1>10. RootsMatchChunks'
  BY <1>1 DEF IInv, RootsMatchChunks
<1>11. PICK n \in Nat : Grown(n)
  BY DEF IInv, GrowthInv
<1>12. GrowthInv'
  <2>1. \A u \in Threads : Raises(u)' <=> Raises(u)
    BY <1>4, <1>5
  <2>2. \A u \in Threads : Raises(u) => pc'[u] = pc[u]
    BY <1>3, <1>4
  <2>3. Grown(n)'
    BY <1>1, <1>11, <2>1, <2>2 DEF Grown
  <2>4. QED
    BY <2>1, <2>3 DEF IInv, GrowthInv
<1>13. Issued'
  <2>1. \A u \in Threads : pc[u] # "idle" => pc'[u] # "idle"
    BY <1>3
  <2>2. QED
    BY <1>1, <2>1 DEF IInv, Issued
<1>14. idx[t] < pmem_cap
  <2>1. PICK m \in Nat : cap[t] = Capacity(m)
    BY <1>4 DEF IInv, IndexInv
  <2>2. pmem_cap = Capacity(n)
    BY <1>11 DEF Grown
  <2>3. /\ Capacity(m) \in Nat /\ Capacity(n) \in Nat
        /\ Capacity(n) >= PerSize /\ PerSize \in Nat \ {0}
    BY CapacityFacts, PerSizeAssumption
  <2>4. cap[t] <= pmem_cap /\ idx[t] < 2 * cap[t] /\ idx[t] \in Nat
    BY <1>0, <1>4 DEF IInv, IndexInv, TypeOK
  <2>5. m # n /\ (n < m => 2 * Capacity(n) <= Capacity(m))
    BY <2>1, <2>2, CapacityGrows
  <2>6. m < n
    BY <2>1, <2>2, <2>3, <2>4, <2>5
  <2>7. 2 * Capacity(m) <= Capacity(n)
    BY <2>6, CapacityGrows
  <2>8. QED
    BY <2>1, <2>2, <2>3, <2>4, <2>7
<1>15. IndexInv'
  <2>1. \A u \in Threads : /\ pc'[u] # "idle" => pc[u] # "idle"
                           /\ pc'[u] = "mmap_file" \/ Owns(u)' =>
                                pc[u] = "mmap_file" \/ Owns(u)
                           /\ pc'[u] \in {"address", "fault"} =>
                                u = t \/ pc[u] \in {"address", "fault"}
    BY <1>1, <1>3, <1>4, <1>5
  <2>2. QED
    BY <1>1, <1>14, <2>1 DEF IInv, IndexInv
<1>16. Faulted' <=> Faulted
  BY <1>1, <1>3 DEF Faulted
<1>17. RowInv'
  <2>1. ASSUME NEW row \in rows, Mapped(row.region, row.idx)
        PROVE  Mapped(row.region, row.idx)'
    <3>1. row.region # region[t]
      BY <1>6, <2>1, RowPlaces DEF Mapped
    <3>2. QED
      BY <1>1, <2>1, <3>1 DEF Mapped
  <2>2. QED
    BY <1>1, <1>16, <2>1 DEF IInv, RowInv, InBounds, Mapped
<1>18. LockInv'
  <2>1. \A u \in Threads : pc'[u] # "idle" => pc[u] # "idle"
    BY <1>1, <1>3
  <2>2. QED
    BY <1>1, <1>16, <2>1 DEF IInv, LockInv
<1>19. QED
  BY <1>7, <1>8, <1>9, <1>10, <1>12, <1>13, <1>15, <1>17, <1>18 DEF IInv

\* The slot of the new region is taken.
LEMMA TakeRootIdxKeeps ==
  ASSUME IInv, ~Faulted, NEW t \in Threads, TakeRootIdx(t) PROVE IInv'
<1>0. TypeOK
  BY DEF IInv
<1>1. /\ pc[t] = "root_idx" /\ pc' = [pc EXCEPT ![t] = "store_root"]
      /\ slot' = [slot EXCEPT ![t] = pmem_root_idx + 1]
      /\ pmem_root_idx' = pmem_root_idx + 1
      /\ UNCHANGED <<pmem_offset, pmem_cap, pmem_root, size, unmapped, locked, holder,
                     idx, cap, region, rows>>
  BY DEF TakeRootIdx, Goto, regions
<1>2. pc \in [Threads -> {"idle", "load_cap", "mmap_file", "compare_exchange",
                          "root_idx", "store_root", "address", "fault"}]
      /\ slot \in [Threads -> 0..(MaxRoots - 1)]
  BY <1>0 DEF TypeOK
<1>3. /\ \A u \in Threads \ {t} : pc'[u] = pc[u] /\ slot'[u] = slot[u]
      /\ pc'[t] = "store_root" /\ slot'[t] = pmem_root_idx + 1
  BY <1>1, <1>2
<1>4. \A u \in Threads : (Owns(u)' <=> Owns(u)) /\ (Raises(u)' <=> Raises(u))
  BY <1>1, <1>3 DEF Owns, Raises
<1>5. Raises(t)
  BY <1>1 DEF Raises
<1>6. PICK n \in Nat : Grown(n)
  BY DEF IInv, GrowthInv
<1>7. /\ n > 0 /\ pmem_root_idx = n - 1 /\ n \in 0..(MaxRoots - 1)
      /\ pmem_root_idx + 1 = n
  BY <1>1, <1>5, <1>6 DEF Grown
<1>8. TypeOK'
  <2>1. pmem_root_idx' \in 0..(MaxRoots - 1) /\ slot' \in [Threads -> 0..(MaxRoots - 1)]
    BY <1>1, <1>2, <1>7
  <2>2. pc' \in [Threads -> {"idle", "load_cap", "mmap_file", "compare_exchange",
                             "root_idx", "store_root", "address", "fault"}]
    BY <1>1, <1>2
  <2>3. QED
    BY <1>0, <1>1, <2>1, <2>2 DEF TypeOK
<1>9. RegionInv' /\ RootsMatchChunks'
  BY <1>1, <1>4 DEF IInv, RegionInv, RootsMatchChunks
<1>10. RegionsAccounted'
  BY <1>1, <1>4 DEF IInv, RegionsAccounted, Owns
<1>11. GrowthInv'
  <2>1. \A u \in Threads : Raises(u) => u = t
    BY <1>5 DEF IInv, GrowthInv
  <2>2. Grown(n)'
    BY <1>1, <1>3, <1>4, <1>5, <1>6, <1>7, <2>1 DEF Grown
  <2>3. QED
    BY <1>4, <2>2 DEF IInv, GrowthInv
<1>12. Issued'
  <2>1. \A u \in Threads : pc[u] # "idle" => pc'[u] # "idle"
    BY <1>3
  <2>2. QED
    BY <1>1, <2>1 DEF IInv, Issued
<1>13. IndexInv'
  <2>1. \A u \in Threads : /\ pc'[u] # "idle" => pc[u] # "idle"
                           /\ pc'[u] = "mmap_file" \/ Owns(u)' =>
                                pc[u] = "mmap_file" \/ Owns(u)
                           /\ pc'[u] \in {"address", "fault"} =>
                                pc[u] \in {"address", "fault"}
    BY <1>1, <1>3, <1>4
  <2>2. QED
    BY <1>1, <2>1 DEF IInv, IndexInv
<1>14. Faulted' <=> Faulted
  BY <1>1, <1>3 DEF Faulted
<1>15. RowInv'
  BY <1>1, <1>14 DEF IInv, RowInv, InBounds, Mapped
<1>16. LockInv'
  <2>1. \A u \in Threads : pc'[u] # "idle" => pc[u] # "idle"
    BY <1>1, <1>3
  <2>2. QED
    BY <1>1, <1>14, <2>1 DEF IInv, LockInv
<1>17. QED
  BY <1>8, <1>9, <1>10, <1>11, <1>12, <1>13, <1>15, <1>16 DEF IInv

\* The new region is stored, and the bucket has grown.
LEMMA StoreRootKeeps ==
  ASSUME IInv, ~Faulted, NEW t \in Threads, StoreRoot(t) PROVE IInv'
<1>0. TypeOK
  BY DEF IInv
<1>1. /\ pc[t] = "store_root" /\ pc' = [pc EXCEPT ![t] = "address"]
      /\ pmem_root' = [pmem_root EXCEPT ![slot[t]] = region[t]]
      /\ UNCHANGED <<pmem_offset, pmem_cap, pmem_root_idx, size, unmapped, locked, holder,
                     idx, cap, region, slot, rows>>
  BY DEF StoreRoot, Goto, regions, locals
<1>2. /\ pc \in [Threads -> {"idle", "load_cap", "mmap_file", "compare_exchange",
                             "root_idx", "store_root", "address", "fault"}]
      /\ pmem_root \in [0..(MaxRoots - 1) -> 0..Len(size)]
      /\ region \in [Threads -> 0..Len(size)] /\ Len(size) \in Nat
  BY <1>0 DEF TypeOK
<1>3. /\ \A u \in Threads \ {t} : pc'[u] = pc[u]
      /\ pc'[t] = "address"
  BY <1>1, <1>2
<1>4. Owns(t) /\ Raises(t) /\ ~Owns(t)' /\ ~Raises(t)'
  BY <1>1, <1>3 DEF Owns, Raises
<1>5. \A u \in Threads \ {t} : (Owns(u)' <=> Owns(u)) /\ ~Raises(u) /\ ~Raises(u)'
  BY <1>3, <1>4 DEF IInv, GrowthInv, Owns, Raises
<1>6. PICK n \in Nat : Grown(n)
  BY DEF IInv, GrowthInv
<1>7. /\ n > 0 /\ n \in 0..(MaxRoots - 1) /\ slot[t] = n /\ pmem_root_idx = n
      /\ cap[t] = Capacity(n - 1) /\ pmem_root[n] = 0 /\ pmem_cap = Capacity(n)
  BY <1>1, <1>4, <1>6 DEF Grown
<1>8. /\ region[t] \in 1..Len(size) /\ region[t] \notin unmapped
      /\ size[region[t]] = cap[t]
      /\ \A c \in DOMAIN pmem_root : pmem_root[c] # region[t]
      /\ \A u \in Threads \ {t} : Owns(u) => region[u] # region[t]
  BY <1>4 DEF IInv, RegionInv
<1>9. region[t] # 0
  BY <1>2, <1>8
<1>10. /\ DOMAIN pmem_root' = DOMAIN pmem_root /\ n \in DOMAIN pmem_root
       /\ pmem_root'[n] = region[t]
       /\ \A c \in DOMAIN pmem_root : c # n => pmem_root'[c] = pmem_root[c]
  BY <1>1, <1>2, <1>7
<1>11. TypeOK'
  <2>1. pmem_root' \in [0..(MaxRoots - 1) -> 0..Len(size)]
    BY <1>1, <1>2
  <2>2. pc' \in [Threads -> {"idle", "load_cap", "mmap_file", "compare_exchange",
                             "root_idx", "store_root", "address", "fault"}]
    BY <1>1, <1>2
  <2>3. QED
    BY <1>0, <1>1, <2>1, <2>2 DEF TypeOK
<1>12. RegionInv'
  <2>1. ASSUME NEW u \in Threads, Owns(u)'
        PROVE  /\ region[u] \in 1..Len(size) /\ region[u] \notin unmapped
               /\ size[region[u]] = cap[u]
               /\ \A c \in DOMAIN pmem_root : pmem_root'[c] # region[u]
    <3>1. u # t /\ Owns(u)
      BY <1>4, <1>5, <2>1
    <3>2. region[u] # region[t]
      BY <1>8, <3>1
    <3>3. QED
      BY <1>10, <3>1, <3>2 DEF IInv, RegionInv
  <2>2. \A u, v \in Threads : Owns(u)' /\ Owns(v)' /\ region[u] = region[v] => u = v
    BY <1>4, <1>5 DEF IInv, RegionInv
  <2>3. \A c \in DOMAIN pmem_root : pmem_root'[c] # 0 => pmem_root'[c] \notin unmapped
    BY <1>8, <1>10 DEF IInv, RegionInv
  <2>4. \A c, d \in DOMAIN pmem_root :
          pmem_root'[c] # 0 /\ pmem_root'[c] = pmem_root'[d] => c = d
    BY <1>8, <1>10 DEF IInv, RegionInv
  <2>5. QED
    BY <1>1, <1>10, <2>1, <2>2, <2>3, <2>4 DEF RegionInv
<1>13. RegionsAccounted'
  <2>1. ASSUME NEW r \in 1..Len(size)
        PROVE  \/ r \in unmapped /\ \A c \in DOMAIN pmem_root : pmem_root'[c] # r
               \/ r \notin unmapped /\ \E c \in DOMAIN pmem_root : pmem_root'[c] = r
               \/ r \notin unmapped /\ \E u \in Threads : region[u] = r /\ Owns(u)'
    <3>1. CASE r = region[t]
      BY <1>8, <1>10, <3>1
    <3>2. CASE r # region[t]
      <4>1. CASE r \in unmapped /\ \A c \in DOMAIN pmem_root : pmem_root[c] # r
        BY <1>10, <3>2, <4>1
      <4>2. CASE r \notin unmapped /\ \E c \in DOMAIN pmem_root : pmem_root[c] = r
        <5>1. PICK c \in DOMAIN pmem_root : pmem_root[c] = r
          BY <4>2
        <5>2. c # n
          BY <1>2, <1>7, <5>1
        <5>3. QED
          BY <1>10, <4>2, <5>1, <5>2
      <4>3. CASE r \notin unmapped /\ \E u \in Threads : region[u] = r /\ Owns(u)
        BY <1>5, <3>2, <4>3
      <4>4. QED
        BY <4>1, <4>2, <4>3 DEF IInv, RegionsAccounted, Owns
    <3>3. QED
      BY <3>1, <3>2
  <2>2. QED
    BY <1>1, <1>10, <2>1 DEF RegionsAccounted, Owns
<1>14. RootsMatchChunks'
  <2>1. cap[t] = ChunkSize(n)
    <3>1. n - 1 \in Nat /\ (n - 1) + 1 = n
      BY <1>7
    <3>2. QED
      BY <1>7, <3>1, CapacityFacts
  <2>2. QED
    BY <1>1, <1>8, <1>10, <2>1 DEF IInv, RootsMatchChunks
<1>15. GrowthInv'
  <2>1. Grown(n)'
    <3>1. \A c \in DOMAIN pmem_root : /\ c < n => pmem_root'[c] # 0
                                      /\ c > n => pmem_root'[c] = 0
      <4>1. \A c \in DOMAIN pmem_root : /\ c < n => pmem_root[c] # 0
                                        /\ c > n => pmem_root[c] = 0
        BY <1>6 DEF Grown
      <4>2. \A c \in DOMAIN pmem_root : c < n \/ c > n => c # n
        BY <1>7
      <4>3. QED
        BY <1>10, <4>1, <4>2
    <3>2. \A u \in Threads : ~Raises(u)'
      BY <1>4, <1>5
    <3>3. QED
      BY <1>1, <1>7, <1>9, <1>10, <3>1, <3>2 DEF Grown
  <2>2. QED
    BY <1>4, <1>5, <2>1 DEF GrowthInv
<1>16. Issued'
  <2>1. \A u \in Threads : pc[u] # "idle" => pc'[u] # "idle"
    BY <1>3
  <2>2. QED
    BY <1>1, <2>1 DEF IInv, Issued
<1>17. IndexInv'
  <2>1. idx[t] < pmem_cap
    <3>1. n - 1 \in Nat /\ (n - 1) + 1 = n
      BY <1>7
    <3>2. pmem_cap = 2 * cap[t]
      BY <1>7, <3>1, CapacityFacts
    <3>3. QED
      BY <1>4, <3>2 DEF IInv, IndexInv
  <2>2. \A u \in Threads : /\ pc'[u] # "idle" => pc[u] # "idle"
                           /\ pc'[u] = "mmap_file" \/ Owns(u)' =>
                                pc[u] = "mmap_file" \/ Owns(u)
                           /\ pc'[u] \in {"address", "fault"} =>
                                u = t \/ pc[u] \in {"address", "fault"}
    BY <1>1, <1>3, <1>4, <1>5
  <2>3. QED
    BY <1>1, <2>1, <2>2 DEF IInv, IndexInv
<1>18. Faulted' <=> Faulted
  BY <1>1, <1>3 DEF Faulted
<1>19. RowInv'
  <2>1. ASSUME NEW row \in rows, row.region # 0
        PROVE  row.region = pmem_root'[Chunk(row.idx)]
    <3>1. /\ Chunk(row.idx) \in DOMAIN pmem_root
          /\ row.region = pmem_root[Chunk(row.idx)]
      BY <2>1, RowPlaces
    <3>2. Chunk(row.idx) # n
      BY <1>7, <2>1, <3>1
    <3>3. QED
      BY <1>10, <3>1, <3>2
  <2>2. QED
    BY <1>1, <1>18, <2>1 DEF IInv, RowInv, InBounds, Mapped
<1>20. LockInv'
  <2>1. \A u \in Threads : pc'[u] # "idle" => pc[u] # "idle"
    BY <1>1, <1>3
  <2>2. QED
    BY <1>1, <1>18, <2>1 DEF IInv, LockInv
<1>21. QED
  BY <1>11, <1>12, <1>13, <1>14, <1>15, <1>16, <1>17, <1>19, <1>20 DEF IInv

\* The address is taken, and the row written if it is mapped.
LEMMA AddressKeeps ==
  ASSUME IInv, ~Faulted, NEW t \in Threads, Address(t) PROVE IInv'
<1> DEFINE i == idx[t]
           r == pmem_root[Chunk(i)]
           new == [idx |-> i, region |-> r, offset |-> Offset(i)]
<1>0. TypeOK
  BY DEF IInv
<1>1. /\ pc[t] = "address" /\ holder' = {} /\ rows' = rows \cup {new}
      /\ pc' = [pc EXCEPT ![t] = IF Mapped(r, i) THEN "idle" ELSE "fault"]
      /\ UNCHANGED <<pmem_offset, pmem_cap, pmem_root_idx, pmem_root, size, unmapped, locked,
                     idx, cap, region, slot>>
  BY DEF Address, Goto, globals, regions, locals
<1>2. /\ new.idx = i /\ new.region = r /\ new.offset = Offset(i)
      /\ i \in Nat
  BY <1>0 DEF TypeOK
<1>3. pc \in [Threads -> {"idle", "load_cap", "mmap_file", "compare_exchange",
                          "root_idx", "store_root", "address", "fault"}]
  BY <1>0 DEF TypeOK
<1>4. /\ \A u \in Threads \ {t} : pc'[u] = pc[u]
      /\ Mapped(r, i) => pc'[t] = "idle"
      /\ ~Mapped(r, i) => pc'[t] = "fault"
  BY <1>1, <1>3
<1> HIDE DEF i, r, new
<1>5. TypeOK'
  <2>1. pc' \in [Threads -> {"idle", "load_cap", "mmap_file", "compare_exchange",
                             "root_idx", "store_root", "address", "fault"}]
    BY <1>1, <1>3
  <2>2. QED
    BY <1>0, <1>1, <2>1 DEF TypeOK
<1>6. RegionInv' /\ RegionsAccounted' /\ RootsMatchChunks' /\ GrowthInv'
  <2>1. ~Owns(t) /\ ~Owns(t)'
    BY <1>1, <1>4 DEF Owns
  <2>2. \A u \in Threads : /\ Owns(u)' <=> Owns(u)
                           /\ Owns(u) => pc'[u] = pc[u]
    BY <1>4, <2>1 DEF Owns
  <2>3. QED
    BY <1>1, <2>2, ChunksKept
<1>7. Issued'
  <2>1. ASSUME NEW j \in 0..(pmem_offset - 1)
        PROVE  \/ \E u \in Threads : pc'[u] # "idle" /\ idx[u] = j
               \/ \E row \in rows' : row.idx = j
    <3>1. CASE j = i
      BY <1>1, <1>2, <3>1
    <3>2. CASE j # i
      BY <1>1, <1>4, <3>2 DEF IInv, Issued, i
    <3>3. QED
      BY <3>1, <3>2
  <2>2. QED
    BY <1>1, <2>1 DEF Issued
<1>8. i < pmem_offset /\ i < pmem_cap
  BY <1>1 DEF IInv, IndexInv, i
<1>9. IndexInv'
  <2>1. \A u \in Threads : /\ pc'[u] # "idle" => pc[u] # "idle"
                           /\ pc'[u] = "mmap_file" \/ Owns(u)' =>
                                pc[u] = "mmap_file" \/ Owns(u)
                           /\ pc'[u] \in {"address", "fault"} =>
                                pc[u] \in {"address", "fault"}
    BY <1>1, <1>4 DEF Owns
  <2>2. QED
    BY <1>1, <2>1 DEF IInv, IndexInv
<1>10. Faulted' <=> ~Mapped(r, i)
  BY <1>1, <1>4 DEF Faulted
<1>11. RowInv'
  <2>1. /\ new.idx \in 0..(pmem_offset - 1) /\ new.idx < pmem_cap
        /\ new.offset = Offset(new.idx)
        /\ new.region = pmem_root[Chunk(new.idx)]
    <3>1. i \in 0..(pmem_offset - 1)
      BY <1>0, <1>2, <1>8 DEF TypeOK
    <3>2. QED
      BY <1>2, <1>8, <3>1 DEF r
  <2>2. Faulted' \/ InBounds'
    BY <1>1, <1>2, <1>10 DEF IInv, RowInv, InBounds, Mapped
  <2>3. QED
    BY <1>1, <2>1, <2>2 DEF IInv, RowInv
<1>12. LockInv'
  <2>1. SUFFICES ASSUME locked PROVE LockInv'
    BY <1>1 DEF LockInv
  <2>2. \A u \in Threads \ {t} : pc[u] = "idle"
    BY <1>1, <2>1 DEF IInv, LockInv
  <2>3. PICK n \in Nat : Grown(n)
    BY DEF IInv, GrowthInv
  <2>4. \A u \in Threads : ~Raises(u)
    BY <1>1, <2>2 DEF Raises
  <2>5. /\ n < MaxRoots /\ i < Capacity(n) /\ n \in 0..(MaxRoots - 1)
        /\ pmem_root[n] # 0
    BY <1>8, <2>3, <2>4, PerSizeAssumption DEF Grown
  <2>6. /\ Chunk(i) \in 0..n
        /\ Offset(i) \in 0..(ChunkSize(Chunk(i)) - 1)
    BY <1>2, <2>5, ChunkFacts
  <2>7. Chunk(i) \in DOMAIN pmem_root
    <3>1. DOMAIN pmem_root = 0..(MaxRoots - 1)
      BY <1>0 DEF TypeOK
    <3>2. MaxRoots \in Nat /\ Chunk(i) \in Nat /\ Chunk(i) <= n
      BY <2>6, PerSizeAssumption
    <3>3. QED
      BY <2>5, <3>1, <3>2
  <2>8. r # 0
    <3>1. Chunk(i) = n \/ Chunk(i) < n
      BY <2>6
    <3>2. QED
      BY <2>3, <2>5, <2>7, <3>1 DEF Grown, r
  <2>9. Mapped(r, i)
    BY <2>6, <2>7, <2>8 DEF Mapped, IInv, RegionInv, RootsMatchChunks, r
  <2>10. QED
    BY <1>1, <1>4, <1>10, <2>2, <2>9 DEF LockInv
<1>13. QED
  BY <1>5, <1>6, <1>7, <1>9, <1>11, <1>12 DEF IInv

\* Every step keeps the invariant.
LEMMA StepIInv == IInv /\ [Next]_vars => IInv'
<1> SUFFICES ASSUME IInv, [Next]_vars PROVE IInv'
  OBVIOUS
<1>1. ASSUME ~Faulted, NEW t \in Threads, Step(t) PROVE IInv'
  <2>1. CASE NextPmemOffset(t)
    BY <1>1, <2>1, NextPmemOffsetKeeps
  <2>2. CASE LoadCap(t)
    BY <1>1, <2>2, LoadCapKeeps
  <2>3. CASE MmapFile(t)
    BY <1>1, <2>3, MmapFileKeeps
  <2>4. CASE RaiseCap(t)
    BY <1>1, <2>4, RaiseCapWins, RaiseCapLoses
  <2>5. CASE TakeRootIdx(t)
    BY <1>1, <2>5, TakeRootIdxKeeps
  <2>6. CASE StoreRoot(t)
    BY <1>1, <2>6, StoreRootKeeps
  <2>7. CASE Address(t)
    BY <1>1, <2>7, AddressKeeps
  <2>8. QED
    BY <1>1, <2>1, <2>2, <2>3, <2>4, <2>5, <2>6, <2>7 DEF Step
<1>2. CASE UNCHANGED vars
  <2>1. UNCHANGED <<pmem_offset, pmem_cap, pmem_root_idx, pmem_root, size, unmapped, locked,
                    holder, pc, idx, cap, region, slot, rows>>
    BY <1>2 DEF vars, globals, regions, locals
  <2>2. TypeOK'
    BY <2>1 DEF IInv, TypeOK
  <2>3. RegionInv' /\ RegionsAccounted' /\ RootsMatchChunks' /\ GrowthInv'
    BY <2>1, ChunksKept DEF Owns
  <2>4. Issued' /\ IndexInv'
    BY <2>1 DEF IInv, Issued, IndexInv, Owns
  <2>5. RowInv' /\ LockInv'
    BY <2>1 DEF IInv, RowInv, LockInv, InBounds, Mapped, Faulted
  <2>6. QED
    BY <2>2, <2>3, <2>4, <2>5 DEF IInv
<1>3. QED
  BY <1>1, <1>2 DEF Next, Terminated

\* The invariant holds in every state.
LEMMA IInvHolds == Spec => []IInv
  BY InitIInv, StepIInv, PTL DEF Spec

-----------------------------------------------------------------------------
(* The theorems. *)

\* All of the bucket's atomics keep their types: the capacity is PerSize
\* doubled fewer times than there are slots, the slot that is taken is one.
THEOREM TypeCorrect == Spec => []TypeOK
<1>1. IInv => TypeOK
  BY DEF IInv
<1>2. QED
  BY <1>1, IInvHolds, PTL

\* Under the bucket's lock, as Bucket::push takes it, get_pmem_addr always
\* returns an address in a region that is mapped, in the first chunk and in
\* those that were added.
THEOREM InBoundsUnderLockHolds == Spec => []InBoundsUnderLock
<1>1. IInv => InBoundsUnderLock
  BY DEF IInv, InBoundsUnderLock, LockInv, RowInv
<1>2. QED
  BY <1>1, IInvHolds, PTL

\* Two indexes never get the same place of the same region.
THEOREM RowsDistinctHolds == Spec => []RowsDistinct
<1>1. IInv => RowsDistinct
  <2> SUFFICES ASSUME IInv, NEW r \in rows, NEW s \in rows, r.region = s.region,
                      r.offset = s.offset, r.region # 0
               PROVE  r.idx = s.idx
    BY DEF RowsDistinct
  <2>1. Chunk(r.idx) = Chunk(s.idx)
    <3>1. /\ Chunk(r.idx) \in DOMAIN pmem_root /\ r.region = pmem_root[Chunk(r.idx)]
          /\ Chunk(s.idx) \in DOMAIN pmem_root /\ s.region = pmem_root[Chunk(s.idx)]
      BY RowPlaces
    <3>2. QED
      BY <3>1 DEF IInv, RegionInv
  <2>2. PICK n \in Nat : Grown(n)
    BY DEF IInv, GrowthInv
  <2>3. n < MaxRoots /\ pmem_cap = Capacity(n)
    BY <2>2, PerSizeAssumption DEF Grown
  <2>4. ASSUME NEW row \in rows
        PROVE  /\ row.idx \in Nat /\ Chunk(row.idx) \in Nat
               /\ row.offset = row.idx - FirstIdx(Chunk(row.idx))
    <3>1. /\ row.idx \in 0..(pmem_offset - 1) /\ row.idx < pmem_cap
          /\ row.offset = Offset(row.idx)
      BY DEF IInv, RowInv
    <3>2. row.idx \in Nat
      BY <3>1
    <3>3. QED
      BY <2>3, <3>1, <3>2, ChunkFacts
  <2>5. \A c \in Nat : FirstIdx(c) \in Nat
    BY CapacityFacts DEF FirstIdx
  <2>6. QED
    BY <2>1, <2>4, <2>5
<1>2. QED
  BY <1>1, IInvHolds, PTL

\* The slot of a chunk only ever gets a region of the chunk's size, although
\* raising the capacity and taking the slot are two steps without a lock.
THEOREM RootsMatchChunksHolds == Spec => []RootsMatchChunks
<1>1. IInv => RootsMatchChunks
  BY DEF IInv
<1>2. QED
  BY <1>1, IInvHolds, PTL

\* No mapping is lost, and none that is in use is unmapped.
THEOREM RegionsAccountedHolds == Spec => []RegionsAccounted
<1>1. IInv => RegionsAccounted
  BY DEF IInv
<1>2. QED
  BY <1>1, IInvHolds, PTL

=============================================================================
