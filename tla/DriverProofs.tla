---------------------------- MODULE DriverProofs -----------------------------
(***************************************************************************)
(* Safety of the benchmark drivers, for every number of workers, every     *)
(* duration and warm-up, every length of a transaction and every width of  *)
(* an identifier: type correctness, unique identifiers, what the report    *)
(* leaves out, and that it stays in its array.                             *)
(***************************************************************************)
EXTENDS Driver, WellFoundedInduction, TLAPS

-----------------------------------------------------------------------------
(* The powers of two. What a recursive function is at every number follows *)
(* from the well-foundedness of the numbers, stated for sets of them.      *)

\* A set of numbers with 0 and every successor is the set of all numbers.
LEMMA NatSetInduction ==
  ASSUME NEW T \in SUBSET Nat, 0 \in T, \A n \in T : n + 1 \in T
  PROVE  T = Nat
<1>1. SUFFICES ASSUME Nat \ T # {} PROVE FALSE
  OBVIOUS
<1> DEFINE Less == {ss \in Nat \X Nat : ss[1] < ss[2]}
           R == Nat \ T
<1>2. IsWellFoundedOn(Less, Nat)
  BY NatLessThanWellFounded DEF OpToRel
<1>3. R # {} /\ R \subseteq Nat
  BY <1>1
<1> HIDE DEF Less, R
<1>4. PICK m \in R : \A n \in R : ~(<<n, m>> \in Less)
  BY <1>2, <1>3, WFMin, Zenon
<1>5. m \in Nat /\ m \notin T /\ m # 0
  BY <1>4 DEF R
<1>6. m - 1 \in Nat /\ (m - 1) + 1 = m /\ m - 1 < m
  BY <1>5
<1>7. m - 1 \notin R
  BY <1>4, <1>5, <1>6 DEF Less
<1>8. QED
  BY <1>5, <1>6, <1>7 DEF R

\* f has the powers of two up to the n-th.
Fits(f, n) ==
  /\ f \in [0..n -> Nat \ {0}]
  /\ f[0] = 1
  /\ \A k \in 0..n : k # 0 => f[k] = 2 * f[k - 1]

\* The right-hand side of Pow2.
Doubled(f) == [n \in Nat |-> IF n = 0 THEN 1 ELSE 2 * f[n - 1]]

\* There are functions with the first n powers of two.
LEMMA FitsExists == \A n \in Nat : \E f : Fits(f, n)
<1> DEFINE T == {n \in Nat : \E f : Fits(f, n)}
<1>1. 0 \in T
  <2>1. Fits([k \in 0..0 |-> 1], 0)
    BY DEF Fits
  <2>2. QED
    BY <2>1
<1>2. ASSUME NEW n \in T PROVE n + 1 \in T
  <2>1. PICK f : Fits(f, n)
    OBVIOUS
  <2> DEFINE g == [k \in 0..(n + 1) |-> IF k <= n THEN f[k] ELSE 2 * f[n]]
  <2>2. Fits(g, n + 1)
    BY <2>1 DEF Fits
  <2>3. QED
    BY <2>2
<1>3. T \in SUBSET Nat
  OBVIOUS
<1> HIDE DEF T
<1>4. T = Nat
  BY <1>1, <1>2, <1>3, NatSetInduction, Zenon
<1>5. QED
  BY <1>4 DEF T

\* They agree where both are defined.
LEMMA FitsAgree ==
  ASSUME NEW m \in Nat, NEW n \in Nat, NEW f, NEW g, Fits(f, m), Fits(g, n)
  PROVE  \A k \in Nat : k <= m /\ k <= n => f[k] = g[k]
<1> DEFINE T == {k \in Nat : k <= m /\ k <= n => f[k] = g[k]}
<1>1. 0 \in T
  BY DEF Fits
<1>2. ASSUME NEW k \in T PROVE k + 1 \in T
  <2>1. SUFFICES ASSUME k + 1 <= m, k + 1 <= n PROVE f[k + 1] = g[k + 1]
    OBVIOUS
  <2>2. /\ k + 1 \in 0..m /\ k + 1 \in 0..n /\ k + 1 # 0 /\ (k + 1) - 1 = k
        /\ k <= m /\ k <= n
    BY <2>1
  <2>3. f[k] = g[k]
    BY <2>2
  <2>4. f[k + 1] = 2 * f[k] /\ g[k + 1] = 2 * g[k]
    BY <2>2 DEF Fits
  <2>5. QED
    BY <2>3, <2>4
<1>3. T \in SUBSET Nat
  OBVIOUS
<1> HIDE DEF T
<1>4. T = Nat
  BY <1>1, <1>2, <1>3, NatSetInduction, Zenon
<1>5. QED
  BY <1>4 DEF T

\* So the recursive definition of Pow2 does define a function.
LEMMA Pow2Unfolds == Pow2 = Doubled(Pow2)
<1> DEFINE Approx(n) == CHOOSE f : Fits(f, n)
           F == [n \in Nat |-> Approx(n)[n]]
<1>1. \A n \in Nat : Fits(Approx(n), n)
  BY FitsExists, Zenon
<1> HIDE DEF Approx
<1>2. F[0] = 1
  BY <1>1 DEF Fits
<1>3. ASSUME NEW n \in Nat, n # 0 PROVE F[n] = 2 * F[n - 1]
  <2>1. n - 1 \in Nat /\ n - 1 <= n /\ n - 1 <= n - 1
    BY <1>3
  <2>2. Approx(n)[n - 1] = Approx(n - 1)[n - 1]
    BY <1>1, <2>1, FitsAgree
  <2>3. Approx(n)[n] = 2 * Approx(n)[n - 1]
    BY <1>1, <1>3 DEF Fits
  <2>4. QED
    BY <2>1, <2>2, <2>3
<1>4. F = [n \in Nat |-> F[n]]
  OBVIOUS
<1> HIDE DEF F
<1>5. F = Doubled(F)
  BY <1>2, <1>3, <1>4 DEF Doubled
<1>6. Pow2 = CHOOSE f : f = Doubled(f)
  BY DEF Pow2, Doubled
<1>7. QED
  BY <1>5, <1>6

\* 2^0 is 1, 2^(n+1) is twice 2^n, and all are positive.
LEMMA Pow2Facts ==
  /\ Pow2[0] = 1
  /\ \A n \in Nat : Pow2[n] \in Nat \ {0} /\ Pow2[n + 1] = 2 * Pow2[n]
<1> DEFINE T == {n \in Nat : Pow2[n] \in Nat \ {0}}
<1>1. Pow2[0] = 1 /\ \A n \in Nat : Pow2[n + 1] = 2 * Pow2[n]
  BY Pow2Unfolds DEF Doubled
<1>2. 0 \in T /\ \A n \in T : n + 1 \in T
  BY <1>1
<1>3. T \in SUBSET Nat
  OBVIOUS
<1> HIDE DEF T
<1>4. T = Nat
  BY <1>2, <1>3, NatSetInduction, Zenon
<1>5. QED
  BY <1>1, <1>4 DEF T

-----------------------------------------------------------------------------
(* Identifiers. *)

\* Powers of two grow.
LEMMA Pow2Grows == \A b, c \in Nat : b <= c => Pow2[b] <= Pow2[c]
<1> SUFFICES ASSUME NEW b \in Nat
             PROVE  \A c \in Nat : b <= c => Pow2[b] <= Pow2[c]
  OBVIOUS
<1> DEFINE T == {c \in Nat : b <= c => Pow2[b] <= Pow2[c]}
<1>1. 0 \in T
  BY Pow2Facts
<1>2. ASSUME NEW c \in T PROVE c + 1 \in T
  <2>1. SUFFICES ASSUME b <= c + 1 PROVE Pow2[b] <= Pow2[c + 1]
    OBVIOUS
  <2>2. Pow2[b] \in Nat /\ Pow2[c] \in Nat /\ Pow2[c + 1] = 2 * Pow2[c]
    BY Pow2Facts
  <2>3. b = c + 1 \/ b <= c
    BY <2>1
  <2>4. QED
    BY <2>2, <2>3
<1>3. T \in SUBSET Nat
  OBVIOUS
<1> HIDE DEF T
<1>4. T = Nat
  BY <1>1, <1>2, <1>3, NatSetInduction, Zenon
<1>5. QED
  BY <1>4 DEF T

\* Half a number has the digits of the number, one position lower.
LEMMA HalfShifts ==
  ASSUME NEW n \in Nat, NEW b \in Nat
  PROVE  (n \div 2) \div Pow2[b] = n \div Pow2[b + 1]
<1>1. PICK p \in Nat \ {0} : p = Pow2[b] /\ Pow2[b + 1] = 2 * p
  BY Pow2Facts
<1>2. PICK h \in Nat : h = n \div 2 /\ 2 * h <= n /\ n < 2 * h + 2
  OBVIOUS
<1> DEFINE q == h \div p
           r == n \div (2 * p)
<1>3. q \in Nat /\ p * q <= h /\ h < p * q + p
  BY <1>1, <1>2
<1>4. r \in Nat /\ (2 * p) * r <= n /\ n < (2 * p) * r + 2 * p
  BY <1>1
<1> HIDE DEF q, r
<1>5. ~(q < r)
  <2>1. SUFFICES ASSUME q + 1 <= r PROVE FALSE
    BY <1>3, <1>4
  <2>2. p * (q + 1) <= p * r
    BY <1>1, <1>3, <1>4, <2>1
  <2>3. p * (q + 1) = p * q + p /\ (2 * p) * r = 2 * (p * r)
    BY <1>1, <1>3, <1>4
  <2>4. p * q \in Nat /\ p * r \in Nat
    BY <1>1, <1>3, <1>4
  <2>5. QED
    BY <1>2, <1>3, <1>4, <2>2, <2>3, <2>4
<1>6. ~(r < q)
  <2>1. SUFFICES ASSUME r + 1 <= q PROVE FALSE
    BY <1>3, <1>4
  <2>2. p * (r + 1) <= p * q
    BY <1>1, <1>3, <1>4, <2>1
  <2>3. p * (r + 1) = p * r + p /\ (2 * p) * r = 2 * (p * r)
    BY <1>1, <1>3, <1>4
  <2>4. p * q \in Nat /\ p * r \in Nat
    BY <1>1, <1>3, <1>4
  <2>5. QED
    BY <1>2, <1>3, <1>4, <2>2, <2>3, <2>4
<1>7. q = r
  BY <1>3, <1>4, <1>5, <1>6
<1>8. QED
  BY <1>1, <1>2, <1>7 DEF q, r

\* A number below 2^k is determined by its k lowest digits.
LEMMA BitsDetermine ==
  \A k \in Nat : \A m, n \in Nat :
    m < Pow2[k] /\ n < Pow2[k] /\ Bits(m, k) = Bits(n, k) => m = n
<1> DEFINE Determined(k) ==
             \A m, n \in Nat :
               m < Pow2[k] /\ n < Pow2[k] /\ Bits(m, k) = Bits(n, k) => m = n
           T == {k \in Nat : Determined(k)}
<1>1. 0 \in T
  BY Pow2Facts
<1>2. ASSUME NEW k \in T PROVE k + 1 \in T
  <2>1. SUFFICES ASSUME NEW m \in Nat, NEW n \in Nat,
                        m < Pow2[k + 1], n < Pow2[k + 1],
                        Bits(m, k + 1) = Bits(n, k + 1)
                 PROVE  m = n
    OBVIOUS
  <2>2. PICK p \in Nat : p = Pow2[k] /\ Pow2[k + 1] = 2 * p
    BY Pow2Facts
  <2>3. /\ m \div 2 \in Nat /\ n \div 2 \in Nat
        /\ m \div 2 < Pow2[k] /\ n \div 2 < Pow2[k]
    BY <2>1, <2>2
  <2>4. \A b \in 0..k : (m \div Pow2[b]) % 2 = 1 <=> (n \div Pow2[b]) % 2 = 1
    BY <2>1 DEF Bits
  <2>5. Bits(m \div 2, k) = Bits(n \div 2, k)
    <3>1. ASSUME NEW b \in 0..(k - 1)
          PROVE  ((m \div 2) \div Pow2[b]) % 2 = 1
                   <=> ((n \div 2) \div Pow2[b]) % 2 = 1
      <4>1. b \in Nat /\ b + 1 \in 0..k
        OBVIOUS
      <4>2. /\ (m \div 2) \div Pow2[b] = m \div Pow2[b + 1]
            /\ (n \div 2) \div Pow2[b] = n \div Pow2[b + 1]
        BY <4>1, HalfShifts
      <4>3. QED
        BY <2>4, <4>1, <4>2
    <3>2. QED
      BY <3>1 DEF Bits
  <2>6. m \div 2 = n \div 2
    BY <2>3, <2>5
  <2>7. m % 2 = 1 <=> n % 2 = 1
    <3>1. m \div Pow2[0] = m /\ n \div Pow2[0] = n
      BY Pow2Facts
    <3>2. QED
      BY <2>4, <3>1
  <2>8. QED
    BY <2>6, <2>7
<1>3. T \in SUBSET Nat
  OBVIOUS
<1> HIDE DEF T
<1>4. T = Nat
  BY <1>1, <1>2, <1>3, NatSetInduction, Zenon
<1>5. QED
  BY <1>4 DEF T

\* A number below 2^k has no digits from the k-th on.
LEMMA NoHighBits ==
  ASSUME NEW n \in Nat, NEW k \in Nat, n < Pow2[k], NEW width \in Nat, k <= width
  PROVE  Bits(n, width) = Bits(n, k)
<1>1. ASSUME NEW b \in 0..(width - 1), (n \div Pow2[b]) % 2 = 1 PROVE b < k
  <2>1. SUFFICES ASSUME k <= b PROVE FALSE
    OBVIOUS
  <2>2. Pow2[k] \in Nat /\ Pow2[b] \in Nat /\ Pow2[k] <= Pow2[b]
    BY <2>1, Pow2Facts, Pow2Grows
  <2>3. n \div Pow2[b] = 0
    BY <2>2
  <2>4. QED
    BY <1>1, <2>3
<1>2. QED
  BY <1>1 DEF Bits

\* Who counts below 2^shift, with a mask that fits above, gives no
\* identifier that another mask or another count gives.
LEMMA NextIdInjective ==
  ASSUME NEW shift \in Nat, NEW width \in Nat, shift <= width,
         NEW m \in Nat, NEW n \in Nat, m < Pow2[shift], n < Pow2[shift],
         NEW v \in Nat, NEW w \in Nat,
         v < Pow2[width - shift], w < Pow2[width - shift],
         NextId(m, v, shift, width) = NextId(n, w, shift, width)
  PROVE  v = w /\ m = n
<1>1. width - shift \in Nat /\ width - shift <= width
  OBVIOUS
<1>2. /\ Bits(m, width) = Bits(m, shift) /\ Bits(n, width) = Bits(n, shift)
      /\ Bits(v, width) = Bits(v, width - shift)
      /\ Bits(w, width) = Bits(w, width - shift)
  BY <1>1, NoHighBits
<1>3. \A x : Bits(x, shift) \subseteq 0..(shift - 1)
  BY DEF Bits
<1>4. \A x : Bits(x, width - shift) \subseteq 0..(width - shift - 1)
  BY DEF Bits
<1>5. ASSUME NEW x \in Nat, NEW u \in Nat,
             Bits(x, width) = Bits(x, shift),
             Bits(u, width) = Bits(u, width - shift)
      PROVE  /\ Bits(x, shift) = NextId(x, u, shift, width) \cap (0..(shift - 1))
             /\ Bits(u, width - shift)
                  = {b \in 0..(width - shift - 1) :
                       b + shift \in NextId(x, u, shift, width)}
  <2> DEFINE Low == Bits(x, shift)
             High == Bits(u, width - shift)
  <2>1. NextId(x, u, shift, width) = Low \cup {b \in 0..(width - 1) : b - shift \in High}
    BY <1>5 DEF NextId
  <2>2. Low \subseteq 0..(shift - 1) /\ High \subseteq 0..(width - shift - 1)
    BY <1>3, <1>4
  <2> HIDE DEF Low, High
  <2>3. Low = NextId(x, u, shift, width) \cap (0..(shift - 1))
    <3>1. \A b \in 0..(shift - 1) : b - shift \notin High
      BY <2>2
    <3>2. \A b \in 0..(shift - 1) : b \in Low <=> b \in NextId(x, u, shift, width)
      BY <2>1, <3>1
    <3>3. QED
      BY <2>2, <3>2
  <2>4. ASSUME NEW b \in 0..(width - shift - 1)
        PROVE  b \in High <=> b + shift \in NextId(x, u, shift, width)
    <3>1. b + shift \in 0..(width - 1) /\ (b + shift) - shift = b /\ b + shift \notin Low
      BY <2>2
    <3>2. QED
      BY <2>1, <3>1
  <2>5. High = {b \in 0..(width - shift - 1) : b + shift \in NextId(x, u, shift, width)}
    BY <2>2, <2>4
  <2>6. QED
    BY <2>3, <2>5 DEF Low, High
<1> DEFINE Id == NextId(m, v, shift, width)
<1>6. /\ Bits(m, shift) = Id \cap (0..(shift - 1))
      /\ Bits(v, width - shift) = {b \in 0..(width - shift - 1) : b + shift \in Id}
  BY <1>2, <1>5
<1>7. /\ Bits(n, shift) = Id \cap (0..(shift - 1))
      /\ Bits(w, width - shift) = {b \in 0..(width - shift - 1) : b + shift \in Id}
  <2>1. Id = NextId(n, w, shift, width)
    OBVIOUS
  <2> HIDE DEF Id
  <2>2. QED
    BY <1>2, <1>5, <2>1
<1>8. Bits(m, shift) = Bits(n, shift) /\ Bits(v, width - shift) = Bits(w, width - shift)
  BY <1>6, <1>7
<1>9. QED
  BY <1>1, <1>8, BitsDetermine

\* Each counter gives every number below it once, so all that was given
\* differs in the count or in the mask.
LEMMA IdsApart == TypeOK => IdsUnique
<1> SUFFICES ASSUME TypeOK PROVE IdsUnique
  OBVIOUS
<1>1. /\ Workers \subseteq Nat /\ 0 \in Nat /\ Main = 0
      /\ TidShift \in Nat /\ TidBits \in Nat /\ TidShift <= TidBits
      /\ OidShift \in Nat /\ OidBits \in Nat /\ OidShift <= OidBits
  BY DriverAssumption DEF Main
<1>2. /\ Workers \subseteq Threads /\ Threads \subseteq Nat
      /\ tid_next \in [Threads -> Nat \ {0}] /\ oid_next \in [Threads -> Nat \ {0}]
  BY <1>1 DEF Threads, TypeOK
<1>3. Pow2[TidShift] \in Nat /\ Pow2[OidShift] \in Nat
  BY <1>1, Pow2Facts
<1>4. TidsUnique
  <2> SUFFICES ASSUME \A w \in Workers : /\ tid_next[w] <= Pow2[TidShift]
                                         /\ w < Pow2[TidBits - TidShift],
                      NEW v \in Workers, NEW w \in Workers,
                      NEW m \in 1..(tid_next[v] - 1), NEW n \in 1..(tid_next[w] - 1),
                      Tid(v, m) = Tid(w, n)
               PROVE  v = w /\ m = n
    BY DEF TidsUnique
  <2>1. tid_next[v] \in Nat /\ tid_next[w] \in Nat /\ v \in Nat /\ w \in Nat
    BY <1>1, <1>2
  <2>2. m \in Nat /\ n \in Nat /\ m < Pow2[TidShift] /\ n < Pow2[TidShift]
    BY <1>3, <2>1
  <2>3. NextId(m, v, TidShift, TidBits) = NextId(n, w, TidShift, TidBits)
    BY DEF Tid
  <2>4. QED
    BY <1>1, <2>1, <2>2, <2>3, NextIdInjective
<1>5. ObjectIdsUnique
  <2> SUFFICES ASSUME \A t \in Threads : /\ oid_next[t] <= Pow2[OidShift]
                                         /\ t < Pow2[OidBits - OidShift],
                      NEW s \in Threads, NEW t \in Threads,
                      NEW m \in 1..(oid_next[s] - 1), NEW n \in 1..(oid_next[t] - 1),
                      ObjectId(s, m) = ObjectId(t, n)
               PROVE  s = t /\ m = n
    BY DEF ObjectIdsUnique
  <2>1. oid_next[s] \in Nat /\ oid_next[t] \in Nat /\ s \in Nat /\ t \in Nat
    BY <1>2
  <2>2. m \in Nat /\ n \in Nat /\ m < Pow2[OidShift] /\ n < Pow2[OidShift]
    BY <1>3, <2>1
  <2>3. NextId(m, s, OidShift, OidBits) = NextId(n, t, OidShift, OidBits)
    BY DEF ObjectId
  <2>4. QED
    BY <1>1, <2>1, <2>2, <2>3, NextIdInjective
<1>6. QED
  BY <1>4, <1>5 DEF IdsUnique

-----------------------------------------------------------------------------
(* The invariant. *)

\* What DriverAssumption says of the constants used below.
LEMMA Constants ==
  /\ Workers \subseteq Nat \ {0} /\ WarmUp \in Nat /\ Slots \in Nat \ {0}
  /\ Loaded \in Nat /\ Durations \subseteq Nat /\ Longest \subseteq Nat \ {0}
BY DriverAssumption

\* The timer ends the run after every worker has passed warm_up_barrier, and
\* who has reached that barrier has reset its counts.
FlagInv ==
  /\ duration \in Nat /\ longest \in Nat \ {0}
  /\ driver = "clock" => timer = "none"
  /\ total_done => timer = "done"
  /\ timer \in {"measuring", "done"} => at_warm = Parties
  /\ \A w \in Workers : w \in at_warm => warmed_up[w]

\* The runs whose report WarmUpExcluded is about.
Punctual == driver = "clock" => longest = 1 /\ WarmUp < duration

\* Whole seconds between a worker's last look at the clock and its start.
SinceStart(w) == sampled[w] - start[w]

\* A worker of the timer driver is past the warm-up at its end.
TimerInv(w) ==
  driver = "timer" /\ pc[w] \in {"warm_wait", "begin", "done"} => warmed_up[w]

\* A punctual worker of the clock driver looks at its clock every second, so
\* it finds the second at which the warm-up ends.
ClockInv(w) ==
  driver = "clock" =>
    /\ pc[w] \notin {"warm_wait", "begin"}
    /\ pc[w] = "loop" =>
         \/ now = sampled[w] + 1 /\ (~warmed_up[w] => SinceStart(w) < WarmUp)
         \/ now = sampled[w] /\ start[w] = sampled[w]
    /\ pc[w] = "run" =>
         now <= sampled[w] + 1 /\ (~warmed_up[w] => SinceStart(w) < WarmUp)
    /\ pc[w] = "done" => warmed_up[w]

\* Past the warm-up a worker has counted the commits that were to be
\* measured; before that, none was.
CountInv(w) ==
  /\ warmed_up[w] => /\ counter[w].success = measured[w]
                     /\ pc[w] = "run" => measuring[w]
  /\ ~warmed_up[w] => measured[w] = 0 /\ ~measuring[w]

\* A stamp for every two seconds, none in the timer driver.
StampInv(w) ==
  /\ driver = "timer" => Len(counter[w].stamps) = 0
  /\ driver = "clock" =>
       prev[w] = 2 * Len(counter[w].stamps) /\ prev[w] <= SinceStart(w)
  /\ pc[w] \in {"start", "start_wait"} => prev[w] = 0
  /\ duration <= 2 * (Slots - 1) => Len(counter[w].stamps) < Slots

\* What is said of one worker.
WorkerInv(w) ==
  /\ TimerInv(w) /\ StampInv(w)
  /\ Punctual => ClockInv(w) /\ CountInv(w)

\* The report is made when no worker runs any more.
ReportInv ==
  /\ report.outcome # "none" => Survivors \cup Panicked = Workers
  /\ WarmUpExcluded /\ ReportInBounds

\* The inductive invariant.
IInv == TypeOK /\ FlagInv /\ (\A w \in Workers : WorkerInv(w)) /\ ReportInv

-----------------------------------------------------------------------------
(* Every step keeps the invariant. *)

\* Where a worker can be.
Labels == {"start", "start_wait", "loop", "warm_wait", "begin", "run", "done",
           "panicked"}

\* The values of a BenchmarkCounter.
Counters == [success : Nat, abort : Nat, new_order : Nat, stamps : Seq(Nat)]

\* TypeOK, one variable after the other.
LEMMA Types ==
  TypeOK <=>
    /\ driver \in {"timer", "clock"} /\ timer \in
         {"none", "start", "start_wait", "warming", "warm_wait", "measuring", "done"}
    /\ at_start \subseteq Parties /\ at_warm \subseteq Parties
    /\ pc \in [Workers -> Labels]
    /\ warm_up_done \in BOOLEAN /\ total_done \in BOOLEAN
    /\ warmed_up \in [Workers -> BOOLEAN]
    /\ inserts \in [Workers -> BOOLEAN] /\ measuring \in [Workers -> BOOLEAN]
    /\ counter \in [Workers -> Counters]
    /\ tid_next \in [Threads -> Nat \ {0}] /\ oid_next \in [Threads -> Nat \ {0}]
    /\ now \in Nat
    /\ start \in [Workers -> Nat] /\ sampled \in [Workers -> Nat]
    /\ prev \in [Workers -> Nat] /\ measured \in [Workers -> Nat]
    /\ \A w \in Workers : start[w] <= sampled[w] /\ sampled[w] <= now
    /\ DOMAIN report = DOMAIN NoReport
BY DEF TypeOK, Labels, Counters

\* While a worker is at work there is no report.
LEMMA NoReportYet ==
  ASSUME IInv, NEW w \in Workers, pc[w] \notin {"done", "panicked"}
  PROVE  report.outcome = "none"
BY DEF IInv, ReportInv, Survivors, Panicked

\* Then a step that leaves the report keeps what is said of it.
LEMMA ReportKept ==
  ASSUME report.outcome = "none", report' = report
  PROVE  ReportInv'
BY DEF ReportInv, WarmUpExcluded, ReportInBounds

\* What is said of a worker whose variables a step leaves alone.
LEMMA WorkerKept ==
  ASSUME NEW w \in Workers, WorkerInv(w),
         UNCHANGED <<driver, duration, longest, now>>,
         pc'[w] = pc[w], warmed_up'[w] = warmed_up[w], counter'[w] = counter[w],
         start'[w] = start[w], sampled'[w] = sampled[w], prev'[w] = prev[w],
         measuring'[w] = measuring[w], measured'[w] = measured[w]
  PROVE  WorkerInv(w)'
BY DEF WorkerInv, TimerInv, StampInv, ClockInv, CountInv, Punctual, SinceStart

\* Nobody has begun, nothing is counted.
LEMMA InitIInv == Init => IInv
<1> SUFFICES ASSUME Init PROVE IInv
  OBVIOUS
<1> USE Constants
<1>1. NewCounter \in Counters /\ NewCounter.success = 0 /\ Len(NewCounter.stamps) = 0
  BY DEF NewCounter, Counters
<1>2. duration \in Nat /\ longest \in Nat \ {0} /\ driver \in {"timer", "clock"}
  BY DEF Init
<1>3. warmed_up \in [Workers -> BOOLEAN]
  BY DEF Init
<1>4. TypeOK
  <2>1. tid_next \in [Threads -> Nat \ {0}] /\ oid_next \in [Threads -> Nat \ {0}]
    BY DEF Init
  <2>2. counter \in [Workers -> Counters]
    BY <1>1 DEF Init
  <2>3. pc \in [Workers -> Labels]
    BY DEF Init, Labels
  <2>4. timer \in {"none", "start", "start_wait", "warming", "warm_wait", "measuring", "done"}
    BY DEF Init
  <2>5. /\ at_start \subseteq Parties /\ at_warm \subseteq Parties
        /\ warm_up_done \in BOOLEAN /\ total_done \in BOOLEAN
    BY DEF Init
  <2>6. inserts \in [Workers -> BOOLEAN] /\ measuring \in [Workers -> BOOLEAN]
    BY DEF Init
  <2>7. /\ now \in Nat
        /\ start \in [Workers -> Nat] /\ sampled \in [Workers -> Nat]
        /\ prev \in [Workers -> Nat] /\ measured \in [Workers -> Nat]
        /\ \A w \in Workers : start[w] <= sampled[w] /\ sampled[w] <= now
    BY DEF Init
  <2>8. DOMAIN report = DOMAIN NoReport
    BY DEF Init
  <2>9. QED
    BY <1>2, <1>3, <2>1, <2>2, <2>3, <2>4, <2>5, <2>6, <2>7, <2>8, Types, Zenon
<1>5. FlagInv
  BY <1>2 DEF Init, FlagInv
<1>6. ASSUME NEW w \in Workers PROVE WorkerInv(w)
  <2>1. /\ pc[w] = "start" /\ counter[w] = NewCounter /\ measured[w] = 0
        /\ ~measuring[w] /\ prev[w] = 0 /\ start[w] = 0 /\ sampled[w] = 0
    BY DEF Init
  <2>2. TimerInv(w)
    BY <2>1 DEF TimerInv
  <2>3. StampInv(w)
    BY <1>1, <2>1 DEF StampInv, SinceStart
  <2>4. ClockInv(w) /\ CountInv(w)
    BY <1>1, <2>1 DEF ClockInv, CountInv
  <2>5. QED
    BY <2>2, <2>3, <2>4 DEF WorkerInv
<1>7. ReportInv
  BY DEF Init, ReportInv, WarmUpExcluded, ReportInBounds, NoReport
<1>8. QED
  BY <1>4, <1>5, <1>6, <1>7 DEF IInv

\* A step of one worker that is at work: what is to be shown of it.
LEMMA StepOfWorker ==
  ASSUME IInv, NEW w \in Workers, pc[w] \notin {"done", "panicked"}, report' = report,
         UNCHANGED <<driver, duration, longest, now>>,
         \A u \in Workers \ {w} :
           /\ pc'[u] = pc[u] /\ warmed_up'[u] = warmed_up[u] /\ counter'[u] = counter[u]
           /\ start'[u] = start[u] /\ sampled'[u] = sampled[u] /\ prev'[u] = prev[u]
           /\ measuring'[u] = measuring[u] /\ measured'[u] = measured[u],
         TypeOK', FlagInv', WorkerInv(w)'
  PROVE  IInv'
<1>1. ASSUME NEW u \in Workers, u # w PROVE WorkerInv(u)'
  <2>1. WorkerInv(u)
    BY DEF IInv
  <2>2. QED
    BY <1>1, <2>1, WorkerKept
<1>2. ReportInv'
  BY NoReportYet, ReportKept
<1>3. QED
  BY <1>1, <1>2 DEF IInv

\* Whoever moves a worker's pc moves no other.
LEMMA OthersStay ==
  ASSUME TypeOK, NEW w \in Workers, NEW label \in Labels, pc' = [pc EXCEPT ![w] = label]
  PROVE  /\ pc' \in [Workers -> Labels] /\ pc'[w] = label
         /\ \A u \in Workers \ {w} : pc'[u] = pc[u]
BY Types

\* A worker reaches start_barrier.
LEMMA ArriveKeeps ==
  ASSUME IInv, NEW w \in Workers, Arrive(w) PROVE IInv'
<1>1. /\ pc[w] = "start" /\ pc' = [pc EXCEPT ![w] = "start_wait"]
      /\ at_start' = at_start \cup {w}
      /\ UNCHANGED <<driver, duration, longest, timer, warm_up_done, total_done, at_warm,
                     warmed_up, counter, tid_next, oid_next, inserts, now, start, sampled,
                     prev, measuring, measured, report>>
  BY DEF Arrive, config, flags, clocks, history
<1>2. /\ pc' \in [Workers -> Labels] /\ pc'[w] = "start_wait"
      /\ \A u \in Workers \ {w} : pc'[u] = pc[u]
  BY <1>1, OthersStay DEF IInv, Labels
<1>3. TypeOK'
  <2>1. Parties' = Parties /\ w \in Parties
    BY <1>1 DEF Parties
  <2>2. QED
    BY <1>1, <1>2, <2>1, Types DEF IInv, TypeOK, Labels
<1>4. FlagInv'
  BY <1>1 DEF IInv, FlagInv, Parties
<1>5. WorkerInv(w)'
  <2>1. WorkerInv(w)
    BY DEF IInv
  <2>2. QED
    BY <1>1, <1>2, <2>1 DEF WorkerInv, TimerInv, StampInv, ClockInv, CountInv, Punctual,
       SinceStart
<1>6. QED
  BY <1>1, <1>2, <1>3, <1>4, <1>5, StepOfWorker

\* A worker's loop begins.
LEMMA StartKeeps ==
  ASSUME IInv, NEW w \in Workers, Start(w) PROVE IInv'
<1>1. /\ pc[w] = "start_wait" /\ pc' = [pc EXCEPT ![w] = "loop"]
      /\ start' = [start EXCEPT ![w] = now] /\ sampled' = [sampled EXCEPT ![w] = now]
      /\ UNCHANGED <<driver, duration, longest, timer, warm_up_done, total_done, at_start,
                     at_warm, warmed_up, counter, tid_next, oid_next, inserts, now, prev,
                     measuring, measured, report>>
  BY DEF Start, config, flags, history
<1>2. /\ pc' \in [Workers -> Labels] /\ pc'[w] = "loop"
      /\ \A u \in Workers \ {w} : pc'[u] = pc[u]
  BY <1>1, OthersStay DEF IInv, Labels
<1>3. /\ start' \in [Workers -> Nat] /\ sampled' \in [Workers -> Nat]
      /\ start'[w] = now /\ sampled'[w] = now /\ now \in Nat
      /\ \A u \in Workers \ {w} : start'[u] = start[u] /\ sampled'[u] = sampled[u]
  BY <1>1, Types DEF IInv
<1>4. TypeOK'
  <2>1. \A u \in Workers : start'[u] <= sampled'[u] /\ sampled'[u] <= now
    BY <1>3, Types DEF IInv
  <2>2. Parties' = Parties
    BY <1>1 DEF Parties
  <2>3. {start', sampled', prev', measured'} \subseteq [Workers -> Nat]
    BY <1>1, <1>3, Types DEF IInv
  <2>4. QED
    BY <1>1, <1>2, <2>1, <2>2, <2>3 DEF IInv, TypeOK, Labels
<1>5. FlagInv'
  BY <1>1 DEF IInv, FlagInv, Parties
<1>6. WorkerInv(w)'
  <2>1. WorkerInv(w)
    BY DEF IInv
  <2>2. StampInv(w)'
    <3>1. prev[w] = 0 /\ now - now = 0
      BY <1>1, <1>3, <2>1 DEF WorkerInv, StampInv
    <3>2. QED
      BY <1>1, <1>2, <1>3, <2>1, <3>1 DEF WorkerInv, StampInv, SinceStart
  <2>3. TimerInv(w)' /\ (Punctual' => ClockInv(w)' /\ CountInv(w)')
    BY <1>1, <1>2, <1>3, <2>1 DEF WorkerInv, TimerInv, ClockInv, CountInv, Punctual
  <2>4. QED
    BY <2>2, <2>3 DEF WorkerInv
<1>7. QED
  BY <1>1, <1>2, <1>3, <1>4, <1>5, <1>6, StepOfWorker

\* A step of the timer: it changes nothing of the workers or the report.
LEMMA TimerStepKeeps ==
  ASSUME IInv, TimerStep PROVE IInv'
<1>1. UNCHANGED <<driver, duration, longest, pc, warmed_up, counter, tid_next, oid_next,
                  inserts, now, start, sampled, prev, measuring, measured, report>>
  BY DEF TimerStep, TimerArrive, TimerStart, EndWarmUp, TimerMeasure, EndRun, config,
     clocks, history
<1>2. Parties' = Parties /\ Survivors' = Survivors /\ Panicked' = Panicked
  BY <1>1 DEF Parties, Survivors, Panicked
<1>3. driver = "timer"
  <2>1. timer # "none"
    BY DEF TimerStep, TimerArrive, TimerStart, EndWarmUp, TimerMeasure, EndRun
  <2>2. QED
    BY <2>1 DEF IInv, FlagInv, TypeOK
<1>4. TheTimer \in Parties
  BY <1>3 DEF Parties
<1>5. /\ timer' \in {"start_wait", "warming", "warm_wait", "measuring", "done"}
      /\ at_start' \subseteq Parties /\ at_warm' \subseteq Parties
      /\ warm_up_done' \in BOOLEAN /\ total_done' \in BOOLEAN
  BY <1>4 DEF IInv, TypeOK, TimerStep, TimerArrive, TimerStart, EndWarmUp,
     TimerMeasure, EndRun, flags
<1>6. TypeOK'
  BY <1>1, <1>2, <1>5 DEF IInv, TypeOK
<1>7. FlagInv'
  <2>1. TheTimer \notin Workers
    BY Constants DEF TheTimer
  <2>2. \A w \in Workers : w \in at_warm' => warmed_up[w]
    BY <2>1 DEF IInv, FlagInv, TimerStep, TimerArrive, TimerStart, EndWarmUp,
       TimerMeasure, EndRun
  <2>3. total_done' => timer' = "done"
    BY DEF IInv, FlagInv, TimerStep, TimerArrive, TimerStart, EndWarmUp, TimerMeasure,
       EndRun, flags
  <2>4. timer' \in {"measuring", "done"} => at_warm' = Parties
    BY DEF IInv, FlagInv, TimerStep, TimerArrive, TimerStart, EndWarmUp, TimerMeasure,
       EndRun
  <2>5. QED
    BY <1>1, <1>2, <1>3, <2>2, <2>3, <2>4 DEF IInv, FlagInv
<1>8. \A w \in Workers : WorkerInv(w)'
  BY <1>1, WorkerKept DEF IInv
<1>9. ReportInv'
  BY <1>1, <1>2 DEF IInv, ReportInv, WarmUpExcluded, ReportInBounds
<1>10. QED
  BY <1>6, <1>7, <1>8, <1>9 DEF IInv

\* The worker sees that the warm-up is over, and forgets what it counted.
LEMMA ResetCountsKeeps ==
  ASSUME IInv, NEW w \in Workers, ResetCounts(w) PROVE IInv'
<1>1. /\ driver = "timer" /\ pc[w] = "loop" /\ ~warmed_up[w]
      /\ counter' = [counter EXCEPT ![w] = NewCounter]
      /\ warmed_up' = [warmed_up EXCEPT ![w] = TRUE]
      /\ at_warm' = at_warm \cup {w}
      /\ pc' = [pc EXCEPT ![w] = "warm_wait"]
      /\ UNCHANGED <<driver, duration, longest, timer, warm_up_done, total_done, at_start,
                     tid_next, oid_next, inserts, now, start, sampled, prev, measuring,
                     measured, report>>
  BY DEF ResetCounts, config, flags, clocks, history
<1>2. /\ pc' \in [Workers -> Labels] /\ pc'[w] = "warm_wait"
      /\ \A u \in Workers \ {w} : pc'[u] = pc[u]
  BY <1>1, OthersStay DEF IInv, Labels
<1>3. NewCounter \in Counters /\ NewCounter.success = 0 /\ Len(NewCounter.stamps) = 0
  BY DEF NewCounter, Counters
<1>4. /\ counter' \in [Workers -> Counters] /\ counter'[w] = NewCounter
      /\ \A u \in Workers \ {w} : counter'[u] = counter[u]
  BY <1>1, <1>3, Types DEF IInv
<1>5. /\ warmed_up' \in [Workers -> BOOLEAN] /\ warmed_up'[w]
      /\ \A u \in Workers \ {w} : warmed_up'[u] = warmed_up[u]
  BY <1>1, Types DEF IInv
<1>6. w \in Parties /\ Parties' = Parties /\ w # TheTimer
  BY <1>1, Constants DEF Parties, TheTimer
<1>7. TypeOK'
  <2>1. {warmed_up', inserts', measuring'} \subseteq [Workers -> BOOLEAN]
    BY <1>1, <1>5, Types DEF IInv
  <2>2. at_warm' \subseteq Parties'
    BY <1>1, <1>6 DEF IInv, TypeOK
  <2>3. QED
    BY <1>1, <1>2, <1>4, <1>6, <2>1, <2>2 DEF IInv, TypeOK, Labels, Counters
<1>8. FlagInv'
  <2>1. timer \in {"measuring", "done"} => at_warm' = Parties
    BY <1>1, <1>6 DEF IInv, FlagInv
  <2>2. \A u \in Workers : u \in at_warm' => warmed_up'[u]
    BY <1>1, <1>5 DEF IInv, FlagInv
  <2>3. QED
    BY <1>1, <1>6, <2>1, <2>2 DEF IInv, FlagInv
<1>9. WorkerInv(w)'
  <2>1. WorkerInv(w)
    BY DEF IInv
  <2>2. TimerInv(w)' /\ ClockInv(w)'
    BY <1>1, <1>5 DEF TimerInv, ClockInv
  <2>3. StampInv(w)'
    BY <1>1, <1>2, <1>3, <1>4, Constants DEF StampInv
  <2>4. Punctual' => CountInv(w)'
    BY <1>1, <1>2, <1>3, <1>4, <1>5, <2>1 DEF WorkerInv, CountInv, Punctual
  <2>5. QED
    BY <2>2, <2>3, <2>4 DEF WorkerInv
<1>10. QED
  BY <1>1, <1>2, <1>4, <1>5, <1>7, <1>8, <1>9, StepOfWorker

\* A worker passes warm_up_barrier.
LEMMA MeasureKeeps ==
  ASSUME IInv, NEW w \in Workers, Measure(w) PROVE IInv'
<1>1. /\ pc[w] = "warm_wait" /\ pc' = [pc EXCEPT ![w] = "begin"]
      /\ UNCHANGED <<driver, duration, longest, timer, warm_up_done, total_done, at_start,
                     at_warm, warmed_up, counter, tid_next, oid_next, inserts, now, start,
                     sampled, prev, measuring, measured, report>>
  BY DEF Measure, config, flags, clocks, history
<1>2. /\ pc' \in [Workers -> Labels] /\ pc'[w] = "begin"
      /\ \A u \in Workers \ {w} : pc'[u] = pc[u]
  BY <1>1, OthersStay DEF IInv, Labels
<1>3. Parties' = Parties
  BY <1>1 DEF Parties
<1>4. TypeOK'
  BY <1>1, <1>2, <1>3 DEF IInv, TypeOK, Labels
<1>5. FlagInv'
  BY <1>1, <1>3 DEF IInv, FlagInv
<1>6. WorkerInv(w)'
  <2>1. WorkerInv(w)
    BY DEF IInv
  <2>2. QED
    BY <1>1, <1>2, <2>1 DEF WorkerInv, TimerInv, StampInv, ClockInv, CountInv, Punctual,
       SinceStart
<1>7. QED
  BY <1>1, <1>2, <1>4, <1>5, <1>6, StepOfWorker

\* A worker of the timer driver begins a transaction.
LEMMA BeginKeeps ==
  ASSUME IInv, NEW w \in Workers, Begin(w) PROVE IInv'
<1>1. /\ driver = "timer" /\ pc[w] \in {"begin", "loop"}
      /\ pc' = [pc EXCEPT ![w] = "run"]
      /\ tid_next' = [tid_next EXCEPT ![w] = @ + 1]
      /\ \E new \in BOOLEAN : inserts' = [inserts EXCEPT ![w] = new]
      /\ measuring' = [measuring EXCEPT ![w] = warmed_up[w]]
      /\ UNCHANGED <<driver, duration, longest, timer, warm_up_done, total_done, at_start,
                     at_warm, warmed_up, counter, oid_next, now, start, sampled, prev,
                     measured, report>>
  BY DEF Begin, config, flags, clocks
<1>2. /\ pc' \in [Workers -> Labels] /\ pc'[w] = "run"
      /\ \A u \in Workers \ {w} : pc'[u] = pc[u]
  BY <1>1, OthersStay DEF IInv, Labels
<1>3. /\ measuring' \in [Workers -> BOOLEAN] /\ measuring'[w] = warmed_up[w]
      /\ \A u \in Workers \ {w} : measuring'[u] = measuring[u]
  BY <1>1, Types DEF IInv
<1>4. inserts' \in [Workers -> BOOLEAN]
  BY <1>1, Types DEF IInv
<1>5. w \in Threads /\ tid_next' \in [Threads -> Nat \ {0}]
  <2>1. w \in Threads
    BY DEF Threads
  <2>2. tid_next[w] + 1 \in Nat \ {0}
    BY <2>1, Types DEF IInv
  <2>3. QED
    BY <1>1, <2>1, <2>2, Types DEF IInv
<1>6. Parties' = Parties
  BY <1>1 DEF Parties
<1>7. TypeOK'
  <2>1. {warmed_up', inserts', measuring'} \subseteq [Workers -> BOOLEAN]
    BY <1>1, <1>3, <1>4, Types DEF IInv
  <2>2. {tid_next', oid_next'} \subseteq [Threads -> Nat \ {0}]
    BY <1>1, <1>5, Types DEF IInv
  <2>3. QED
    BY <1>1, <1>2, <1>6, <2>1, <2>2 DEF IInv, TypeOK, Labels
<1>8. FlagInv'
  BY <1>1, <1>6 DEF IInv, FlagInv
<1>9. WorkerInv(w)'
  <2>1. WorkerInv(w)
    BY DEF IInv
  <2>2. TimerInv(w)' /\ ClockInv(w)'
    BY <1>1, <1>2 DEF TimerInv, ClockInv
  <2>3. StampInv(w)'
    BY <1>1, <1>2, <2>1 DEF WorkerInv, StampInv
  <2>4. Punctual' => CountInv(w)'
    BY <1>1, <1>3, <2>1 DEF WorkerInv, CountInv, Punctual
  <2>5. QED
    BY <2>2, <2>3, <2>4 DEF WorkerInv
<1>10. QED
  BY <1>1, <1>2, <1>3, <1>7, <1>8, <1>9, StepOfWorker

\* The run is over, and every worker has passed warm_up_barrier.
LEMMA StopKeeps ==
  ASSUME IInv, NEW w \in Workers, Stop(w) PROVE IInv'
<1>1. /\ driver = "timer" /\ pc[w] \in {"begin", "loop"} /\ total_done
      /\ pc' = [pc EXCEPT ![w] = "done"]
      /\ UNCHANGED <<driver, duration, longest, timer, warm_up_done, total_done, at_start,
                     at_warm, warmed_up, counter, tid_next, oid_next, inserts, now, start,
                     sampled, prev, measuring, measured, report>>
  BY DEF Stop, config, flags, clocks, history
<1>2. /\ pc' \in [Workers -> Labels] /\ pc'[w] = "done"
      /\ \A u \in Workers \ {w} : pc'[u] = pc[u]
  BY <1>1, OthersStay DEF IInv, Labels
<1>3. Parties' = Parties /\ w \in Parties
  BY <1>1 DEF Parties
<1>4. TypeOK'
  BY <1>1, <1>2, <1>3 DEF IInv, TypeOK, Labels
<1>5. FlagInv'
  BY <1>1, <1>3 DEF IInv, FlagInv
<1>6. WorkerInv(w)'
  <2>1. WorkerInv(w)
    BY DEF IInv
  <2>2. warmed_up[w]
    BY <1>1, <1>3 DEF IInv, FlagInv
  <2>3. QED
    BY <1>1, <1>2, <2>1, <2>2 DEF WorkerInv, TimerInv, StampInv, ClockInv, CountInv,
       Punctual, SinceStart
<1>7. QED
  BY <1>1, <1>2, <1>4, <1>5, <1>6, StepOfWorker

\* The head of the clock driver's loop.
LEMMA SampleKeeps ==
  ASSUME IInv, NEW w \in Workers, Sample(w) PROVE IInv'
<1> DEFINE reset   == WarmUpEnds(w)
           elapsed == IF reset THEN 0 ELSE now - start[w]
           last    == IF reset THEN 0 ELSE prev[w]
           count   == IF reset THEN NewCounter ELSE counter[w]
           due     == StampDue(elapsed, last)
           stamped == IF due THEN [count EXCEPT !.stamps = Append(@, count.success)]
                      ELSE count
           measure == measuring[w] \/ warmed_up[w] \/ now - start[w] >= WarmUp
<1>1. /\ driver = "clock" /\ pc[w] = "loop" /\ sampled[w] - start[w] < duration
      /\ sampled' = [sampled EXCEPT ![w] = now]
      /\ start' = [start EXCEPT ![w] = IF reset THEN now ELSE start[w]]
      /\ warmed_up' = [warmed_up EXCEPT ![w] = warmed_up[w] \/ reset]
      /\ prev' = [prev EXCEPT ![w] = IF due THEN elapsed ELSE last]
      /\ counter' = [counter EXCEPT ![w] = stamped]
      /\ measuring' = [measuring EXCEPT ![w] = measure]
      /\ pc' = [pc EXCEPT ![w] = "run"]
      /\ tid_next' = [tid_next EXCEPT ![w] = @ + 1]
      /\ UNCHANGED <<driver, duration, longest, timer, warm_up_done, total_done, at_start,
                     at_warm, oid_next, inserts, now, measured, report>>
  BY DEF Sample, config, flags
<1>2. /\ pc' \in [Workers -> Labels] /\ pc'[w] = "run"
      /\ \A u \in Workers \ {w} : pc'[u] = pc[u]
  BY <1>1, OthersStay DEF IInv, Labels
<1>3. /\ now \in Nat /\ start[w] \in Nat /\ sampled[w] \in Nat /\ prev[w] \in Nat
      /\ start[w] <= sampled[w] /\ sampled[w] <= now /\ counter[w] \in Counters
      /\ measured[w] \in Nat /\ measuring[w] \in BOOLEAN /\ warmed_up[w] \in BOOLEAN
  BY Types DEF IInv
<1>4. reset <=> (~warmed_up[w] /\ now - start[w] = WarmUp)
  BY DEF WarmUpEnds
<1>5. due <=> elapsed = last + 2
  BY DEF StampDue
<1>6. NewCounter \in Counters /\ NewCounter.success = 0 /\ Len(NewCounter.stamps) = 0
  BY DEF NewCounter, Counters
<1>7. elapsed \in Nat /\ last \in Nat /\ count \in Counters
  BY <1>3, <1>6
<1> HIDE DEF reset, elapsed, last, count, due
<1>8. /\ stamped \in Counters /\ stamped.success = count.success
      /\ due => Len(stamped.stamps) = Len(count.stamps) + 1
      /\ ~due => stamped = count
  <2>1. /\ count.success \in Nat /\ count.stamps \in Seq(Nat)
        /\ count = [success |-> count.success, abort |-> count.abort,
                    new_order |-> count.new_order, stamps |-> count.stamps]
    BY <1>7 DEF Counters
  <2>2. /\ Append(count.stamps, count.success) \in Seq(Nat)
        /\ Len(Append(count.stamps, count.success)) = Len(count.stamps) + 1
    BY <2>1
  <2>3. CASE due
    <3>1. stamped = [count EXCEPT !.stamps = Append(count.stamps, count.success)]
      BY <2>3
    <3>2. QED
      BY <1>7, <2>2, <2>3, <3>1 DEF Counters
  <2>4. CASE ~due
    BY <1>7, <2>4
  <2>5. QED
    BY <2>3, <2>4
<1> HIDE DEF stamped
<1>9. /\ start'[w] = (IF reset THEN now ELSE start[w]) /\ sampled'[w] = now
      /\ prev'[w] = (IF due THEN elapsed ELSE last) /\ counter'[w] = stamped
      /\ warmed_up'[w] = (warmed_up[w] \/ reset) /\ measuring'[w] = measure
  BY <1>1, Types DEF IInv
<1>10. \A u \in Workers \ {w} :
         /\ start'[u] = start[u] /\ sampled'[u] = sampled[u] /\ prev'[u] = prev[u]
         /\ counter'[u] = counter[u] /\ warmed_up'[u] = warmed_up[u]
         /\ measuring'[u] = measuring[u]
  BY <1>1, Types DEF IInv
<1>11. TypeOK'
  <2>1. {warmed_up', inserts', measuring'} \subseteq [Workers -> BOOLEAN]
    <3>1. (warmed_up[w] \/ reset) \in BOOLEAN /\ measure \in BOOLEAN
      OBVIOUS
    <3>2. warmed_up' \in [Workers -> BOOLEAN] /\ measuring' \in [Workers -> BOOLEAN]
      BY <1>1, <3>1, Types DEF IInv
    <3>3. QED
      BY <1>1, <3>2, Types DEF IInv
  <2>2. {tid_next', oid_next'} \subseteq [Threads -> Nat \ {0}]
    <3>1. w \in Threads
      BY DEF Threads
    <3>2. tid_next[w] + 1 \in Nat \ {0}
      BY <3>1, Types DEF IInv
    <3>3. QED
      BY <1>1, <3>1, <3>2, Types DEF IInv
  <2>3. {start', sampled', prev', measured'} \subseteq [Workers -> Nat]
    BY <1>1, <1>3, <1>7, Types DEF IInv
  <2>4. counter' \in [Workers -> Counters]
    BY <1>1, <1>8, Types DEF IInv
  <2>5. \A u \in Workers : start'[u] <= sampled'[u] /\ sampled'[u] <= now
    BY <1>3, <1>9, <1>10, Types DEF IInv
  <2>6. Parties' = Parties
    BY <1>1 DEF Parties
  <2>7. QED
    BY <1>1, <1>2, <2>1, <2>2, <2>3, <2>4, <2>5, <2>6 DEF IInv, TypeOK, Labels, Counters
<1>12. FlagInv'
  <2>1. \A u \in Workers : u \in at_warm => warmed_up'[u]
    BY <1>9, <1>10 DEF IInv, FlagInv
  <2>2. QED
    BY <1>1, <2>1 DEF IInv, FlagInv, Parties
<1>13. WorkerInv(w)
  BY DEF IInv
<1>14. StampInv(w)'
  <2>1. CASE reset
    <3>1. ~due /\ last = 0 /\ count = NewCounter
      BY <1>5, <2>1 DEF elapsed, last, count
    <3>2. /\ start'[w] = now /\ sampled'[w] = now /\ prev'[w] = 0
          /\ Len(counter'[w].stamps) = 0 /\ now - now = 0
      BY <1>3, <1>6, <1>8, <1>9, <2>1, <3>1
    <3>3. QED
      BY <1>1, <1>2, <3>2, Constants DEF StampInv, SinceStart
  <2>2. CASE ~reset
    <3>1. PICK k \in Nat : k = Len(counter[w].stamps)
      BY <1>3 DEF Counters
    <3>2. elapsed = now - start[w] /\ last = prev[w] /\ count = counter[w]
      BY <2>2 DEF elapsed, last, count
    <3>3. /\ prev[w] = 2 * k /\ prev[w] <= sampled[w] - start[w]
          /\ duration <= 2 * (Slots - 1) => k < Slots
      BY <1>1, <1>13, <3>1 DEF WorkerInv, StampInv, SinceStart
    <3>4. start'[w] = start[w] /\ sampled'[w] = now
      BY <1>9, <2>2
    <3>5. CASE due
      <4>1. Len(counter'[w].stamps) = k + 1 /\ prev'[w] = now - start[w]
        BY <1>8, <1>9, <3>1, <3>2, <3>5
      <4>2. now - start[w] = 2 * k + 2
        BY <1>5, <3>2, <3>3, <3>5
      <4>3. duration <= 2 * (Slots - 1) => k + 1 < Slots
        <5>1. duration \in Nat /\ Slots \in Nat
          BY Constants DEF IInv, FlagInv
        <5>2. 2 * k < duration
          BY <1>1, <1>3, <3>3, <5>1
        <5>3. QED
          BY <5>1, <5>2
      <4>4. QED
        BY <1>1, <1>2, <3>4, <4>1, <4>2, <4>3 DEF StampInv, SinceStart
    <3>6. CASE ~due
      <4>1. Len(counter'[w].stamps) = k /\ prev'[w] = prev[w]
        BY <1>8, <1>9, <3>1, <3>2, <3>6
      <4>2. prev[w] <= now - start[w]
        BY <1>3, <3>3
      <4>3. QED
        BY <1>1, <1>2, <3>3, <3>4, <4>1, <4>2 DEF StampInv, SinceStart
    <3>7. QED
      BY <3>5, <3>6
  <2>3. QED
    BY <2>1, <2>2
<1>15. ASSUME Punctual PROVE ClockInv(w)' /\ CountInv(w)'
  <2>1. ClockInv(w) /\ CountInv(w)
    BY <1>13, <1>15 DEF WorkerInv
  <2>2. WarmUp \in Nat
    BY Constants
  <2>3. ~warmed_up[w] => now - start[w] <= WarmUp
    <3>1. SUFFICES ASSUME ~warmed_up[w] PROVE now - start[w] <= WarmUp
      OBVIOUS
    <3>2. \/ now = sampled[w] + 1 /\ sampled[w] - start[w] < WarmUp
          \/ now = sampled[w] /\ start[w] = sampled[w]
      BY <1>1, <2>1, <3>1 DEF ClockInv, SinceStart
    <3>3. QED
      BY <1>3, <2>2, <3>2
  <2>4. CASE warmed_up[w] \/ reset
    <3>1. warmed_up'[w] /\ counter'[w].success = measured[w]
      <4>1. CASE reset
        BY <1>4, <1>6, <1>8, <1>9, <2>1, <4>1 DEF CountInv, count
      <4>2. CASE warmed_up[w]
        BY <1>4, <1>8, <1>9, <2>1, <4>2 DEF CountInv, count
      <4>3. QED
        BY <2>4, <4>1, <4>2
    <3>2. measuring'[w]
      <4>1. CASE reset
        <5>1. now - start[w] >= WarmUp
          BY <1>4, <2>2, <4>1
        <5>2. QED
          BY <1>9, <5>1
      <4>2. CASE warmed_up[w]
        BY <1>9, <4>2
      <4>3. QED
        BY <2>4, <4>1, <4>2
    <3>3. now <= sampled'[w] + 1
      BY <1>3, <1>9
    <3>4. QED
      BY <1>1, <1>2, <3>1, <3>2, <3>3 DEF ClockInv, CountInv
  <2>5. CASE ~warmed_up[w] /\ ~reset
    <3>1. now - start[w] < WarmUp
      BY <1>3, <1>4, <2>2, <2>3, <2>5
    <3>2. ~warmed_up'[w] /\ ~measuring'[w] /\ measured[w] = 0
      BY <1>3, <1>9, <2>1, <2>2, <2>5, <3>1 DEF CountInv
    <3>3. now <= sampled'[w] + 1 /\ SinceStart(w)' < WarmUp
      BY <1>3, <1>9, <2>5, <3>1 DEF SinceStart
    <3>4. QED
      BY <1>1, <1>2, <3>2, <3>3 DEF ClockInv, CountInv
  <2>6. QED
    BY <2>4, <2>5
<1>16. WorkerInv(w)'
  BY <1>1, <1>14, <1>15 DEF WorkerInv, TimerInv, Punctual
<1>17. QED
  BY <1>1, <1>2, <1>10, <1>11, <1>12, <1>16, StepOfWorker

\* The worker of the clock driver has looked at its clock past the duration.
LEMMA TimeOutKeeps ==
  ASSUME IInv, NEW w \in Workers, TimeOut(w) PROVE IInv'
<1>1. /\ driver = "clock" /\ pc[w] = "loop" /\ sampled[w] - start[w] >= duration
      /\ pc' = [pc EXCEPT ![w] = "done"]
      /\ UNCHANGED <<driver, duration, longest, timer, warm_up_done, total_done, at_start,
                     at_warm, warmed_up, counter, tid_next, oid_next, inserts, now, start,
                     sampled, prev, measuring, measured, report>>
  BY DEF TimeOut, config, flags, clocks, history
<1>2. /\ pc' \in [Workers -> Labels] /\ pc'[w] = "done"
      /\ \A u \in Workers \ {w} : pc'[u] = pc[u]
  BY <1>1, OthersStay DEF IInv, Labels
<1>3. Parties' = Parties
  BY <1>1 DEF Parties
<1>4. TypeOK'
  BY <1>1, <1>2, <1>3 DEF IInv, TypeOK, Labels
<1>5. FlagInv'
  BY <1>1, <1>3 DEF IInv, FlagInv
<1>6. WorkerInv(w)'
  <2>1. WorkerInv(w)
    BY DEF IInv
  <2>2. Punctual => warmed_up[w]
    <3>1. SUFFICES ASSUME Punctual, ~warmed_up[w] PROVE FALSE
      BY Types DEF IInv
    <3>2. WarmUp < duration
      BY <1>1, <3>1 DEF Punctual
    <3>3. sampled[w] - start[w] < WarmUp \/ start[w] = sampled[w]
      BY <1>1, <2>1, <3>1 DEF WorkerInv, ClockInv, SinceStart
    <3>4. start[w] \in Nat /\ sampled[w] \in Nat /\ duration \in Nat /\ WarmUp \in Nat
      BY Types, Constants DEF IInv, FlagInv
    <3>5. QED
      BY <1>1, <3>2, <3>3, <3>4
  <2>3. TimerInv(w)' /\ StampInv(w)'
    BY <1>1, <1>2, <2>1 DEF WorkerInv, TimerInv, StampInv, SinceStart
  <2>4. Punctual' => ClockInv(w)' /\ CountInv(w)'
    BY <1>1, <1>2, <2>1, <2>2 DEF WorkerInv, ClockInv, CountInv, Punctual, SinceStart
  <2>5. QED
    BY <2>3, <2>4 DEF WorkerInv
<1>7. QED
  BY <1>1, <1>2, <1>4, <1>5, <1>6, StepOfWorker

\* A second passes. A punctual worker has looked at its clock within it.
LEMMA TickKeeps ==
  ASSUME IInv, Tick PROVE IInv'
<1>1. /\ driver = "clock" /\ now' = now + 1
      /\ \A w \in Workers : /\ pc[w] \in {"run", "done", "panicked"}
                            /\ pc[w] = "run" => now - sampled[w] < longest
      /\ UNCHANGED <<driver, duration, longest, timer, warm_up_done, total_done, at_start,
                     at_warm, pc, warmed_up, counter, tid_next, oid_next, inserts, start,
                     sampled, prev, measuring, measured, report>>
  BY DEF Tick, config, flags, history
<1>2. PICK v \in Workers : pc[v] = "run"
  BY DEF Tick
<1>3. TypeOK'
  <2>1. now' \in Nat /\ \A w \in Workers : start[w] <= sampled[w] /\ sampled[w] <= now'
    BY <1>1, Types DEF IInv
  <2>2. Parties' = Parties
    BY <1>1 DEF Parties
  <2>3. QED
    BY <1>1, <2>1, <2>2 DEF IInv, TypeOK
<1>4. FlagInv'
  BY <1>1 DEF IInv, FlagInv, Parties
<1>5. ASSUME NEW w \in Workers PROVE WorkerInv(w)'
  <2>1. WorkerInv(w)
    BY DEF IInv
  <2>2. TimerInv(w)' /\ StampInv(w)' /\ (Punctual' => CountInv(w)')
    BY <1>1, <2>1 DEF WorkerInv, TimerInv, StampInv, CountInv, Punctual, SinceStart
  <2>3. Punctual' => ClockInv(w)'
    <3>1. pc[w] = "run" /\ Punctual => now' <= sampled[w] + 1
      <4>1. SUFFICES ASSUME pc[w] = "run", longest = 1 PROVE now' <= sampled[w] + 1
        BY <1>1 DEF Punctual
      <4>2. now \in Nat /\ sampled[w] \in Nat /\ now - sampled[w] < 1
        BY <1>1, <4>1, Types DEF IInv
      <4>3. QED
        BY <1>1, <4>2
    <3>2. pc[w] # "loop"
      BY <1>1
    <3>3. QED
      BY <1>1, <2>1, <3>1, <3>2 DEF WorkerInv, ClockInv, Punctual, SinceStart
  <2>4. QED
    BY <2>2, <2>3 DEF WorkerInv
<1>6. ReportInv'
  <2>1. report.outcome = "none"
    BY <1>2, NoReportYet
  <2>2. QED
    BY <1>1, <2>1, ReportKept
<1>7. QED
  BY <1>3, <1>4, <1>5, <1>6 DEF IInv

\* A transaction creates a row or does not.
LEMMA CreateType ==
  ASSUME TypeOK, NEW w \in Workers, Create(w)
  PROVE  oid_next' \in [Threads -> Nat \ {0}]
<1>1. w \in Threads
  BY DEF Threads
<1>2. oid_next \in [Threads -> Nat \ {0}] /\ oid_next[w] + 1 \in Nat \ {0}
  BY <1>1, Types
<1>3. QED
  BY <1>1, <1>2 DEF Create

\* A counter is a record of its fields.
LEMMA CounterParts ==
  ASSUME NEW c \in Counters
  PROVE  \E m \in Nat, a \in Nat, n \in Nat, st \in Seq(Nat) :
           c = [success |-> m, abort |-> a, new_order |-> n, stamps |-> st]
<1>1. /\ c.success \in Nat /\ c.abort \in Nat /\ c.new_order \in Nat
      /\ c.stamps \in Seq(Nat)
      /\ c = [success |-> c.success, abort |-> c.abort, new_order |-> c.new_order,
              stamps |-> c.stamps]
  BY DEF Counters
<1>2. QED
  BY <1>1

\* A transaction commits and is counted.
LEMMA CommitKeeps ==
  ASSUME IInv, NEW w \in Workers, Commit(w) PROVE IInv'
<1> DEFINE one == IF measuring[w] THEN 1 ELSE 0
           order == IF driver = "timer" /\ inserts[w] THEN 1 ELSE 0
           c == [counter[w] EXCEPT !.success = @ + 1, !.new_order = @ + order]
<1>1. /\ pc[w] = "run" /\ (driver = "clock" => now > sampled[w])
      /\ counter' = [counter EXCEPT ![w].success = @ + 1, ![w].new_order = @ + order]
      /\ measured' = [measured EXCEPT ![w] = @ + one]
      /\ Create(w)
      /\ pc' = [pc EXCEPT ![w] = "loop"]
      /\ UNCHANGED <<driver, duration, longest, timer, warm_up_done, total_done, at_start,
                     at_warm, warmed_up, tid_next, inserts, now, start, sampled, prev,
                     measuring, report>>
  BY DEF Commit, config, flags, clocks
<1>2. /\ pc' \in [Workers -> Labels] /\ pc'[w] = "loop"
      /\ \A u \in Workers \ {w} : pc'[u] = pc[u]
  BY <1>1, OthersStay DEF IInv, Labels
<1>3. /\ counter \in [Workers -> Counters] /\ counter[w] \in Counters
      /\ measured \in [Workers -> Nat] /\ measured[w] \in Nat
      /\ now \in Nat /\ sampled[w] \in Nat
  BY Types DEF IInv
<1>4. one \in Nat /\ (measuring[w] => one = 1) /\ (~measuring[w] => one = 0)
      /\ order \in Nat
  OBVIOUS
<1> HIDE DEF one, order
<1>5. /\ c \in Counters /\ c.success = counter[w].success + 1
      /\ c.stamps = counter[w].stamps
  <2>1. PICK m \in Nat, a \in Nat, n \in Nat, st \in Seq(Nat) :
          counter[w] = [success |-> m, abort |-> a, new_order |-> n, stamps |-> st]
    BY <1>3, CounterParts
  <2>2. c = [success |-> m + 1, abort |-> a, new_order |-> n + order, stamps |-> st]
    <3> DEFINE d == [counter[w] EXCEPT !.success = @ + 1]
    <3>1. d = [success |-> m + 1, abort |-> a, new_order |-> n, stamps |-> st]
      BY <2>1
    <3>2. c = [d EXCEPT !.new_order = @ + order]
      OBVIOUS
    <3> HIDE DEF c, d
    <3>3. QED
      BY <3>1, <3>2
  <2>3. m + 1 \in Nat /\ n + order \in Nat
    BY <1>4
  <2> HIDE DEF c
  <2>4. QED
    BY <2>1, <2>2, <2>3 DEF Counters
<1>6. counter' = [counter EXCEPT ![w] = c]
  BY <1>1, <1>3 DEF Counters
<1> HIDE DEF c
<1>7. /\ counter' \in [Workers -> Counters] /\ counter'[w] = c
      /\ \A u \in Workers \ {w} : counter'[u] = counter[u]
  BY <1>3, <1>5, <1>6
<1>8. /\ measured' \in [Workers -> Nat] /\ measured'[w] = measured[w] + one
      /\ \A u \in Workers \ {w} : measured'[u] = measured[u]
  BY <1>1, <1>3, <1>4
<1>9. TypeOK'
  <2>1. {tid_next', oid_next'} \subseteq [Threads -> Nat \ {0}]
    BY <1>1, CreateType, Types DEF IInv
  <2>2. {start', sampled', prev', measured'} \subseteq [Workers -> Nat]
    BY <1>1, <1>8, Types DEF IInv
  <2>3. Parties' = Parties
    BY <1>1 DEF Parties
  <2>4. QED
    BY <1>1, <1>2, <1>7, <2>1, <2>2, <2>3 DEF IInv, TypeOK, Labels, Counters
<1>10. FlagInv'
  BY <1>1 DEF IInv, FlagInv, Parties
<1>11. WorkerInv(w)'
  <2>1. WorkerInv(w)
    BY DEF IInv
  <2>2. TimerInv(w)' /\ StampInv(w)'
    BY <1>1, <1>2, <1>5, <1>7, <2>1 DEF WorkerInv, TimerInv, StampInv, SinceStart
  <2>3. Punctual => ClockInv(w)'
    <3>1. driver = "clock" /\ Punctual => now = sampled[w] + 1
      BY <1>1, <1>3, <2>1 DEF WorkerInv, ClockInv
    <3>2. QED
      BY <1>1, <1>2, <2>1, <3>1 DEF WorkerInv, ClockInv, SinceStart
  <2>4. Punctual => CountInv(w)'
    BY <1>1, <1>2, <1>4, <1>5, <1>7, <1>8, <2>1 DEF WorkerInv, CountInv
  <2>5. QED
    BY <1>1, <2>2, <2>3, <2>4 DEF WorkerInv, Punctual
<1>12. QED
  BY <1>1, <1>2, <1>7, <1>8, <1>9, <1>10, <1>11, StepOfWorker

\* A transaction fails and is run again.
LEMMA RetryKeeps ==
  ASSUME IInv, NEW w \in Workers, Retry(w) PROVE IInv'
<1> DEFINE c == [counter[w] EXCEPT !.abort = @ + 1]
<1>1. /\ pc[w] = "run" /\ counter' = [counter EXCEPT ![w].abort = @ + 1]
      /\ Create(w)
      /\ UNCHANGED <<driver, duration, longest, timer, warm_up_done, total_done, at_start,
                     at_warm, pc, warmed_up, tid_next, inserts, now, start, sampled, prev,
                     measuring, measured, report>>
  BY DEF Retry, config, flags, clocks, history
<1>2. counter \in [Workers -> Counters] /\ counter[w] \in Counters
  BY Types DEF IInv
<1>3. /\ c \in Counters /\ c.success = counter[w].success
      /\ c.stamps = counter[w].stamps
  <2>1. PICK m \in Nat, a \in Nat, n \in Nat, st \in Seq(Nat) :
          counter[w] = [success |-> m, abort |-> a, new_order |-> n, stamps |-> st]
    BY <1>2, CounterParts
  <2>2. c = [success |-> m, abort |-> a + 1, new_order |-> n, stamps |-> st]
    BY <2>1
  <2> HIDE DEF c
  <2>3. QED
    BY <2>1, <2>2 DEF Counters
<1>4. counter' = [counter EXCEPT ![w] = c]
  BY <1>1, <1>2 DEF Counters
<1> HIDE DEF c
<1>5. /\ counter' \in [Workers -> Counters] /\ counter'[w] = c
      /\ \A u \in Workers \ {w} : counter'[u] = counter[u]
  BY <1>2, <1>3, <1>4
<1>6. TypeOK'
  <2>1. {tid_next', oid_next'} \subseteq [Threads -> Nat \ {0}]
    BY <1>1, CreateType, Types DEF IInv
  <2>2. Parties' = Parties
    BY <1>1 DEF Parties
  <2>3. QED
    BY <1>1, <1>5, <2>1, <2>2 DEF IInv, TypeOK, Counters
<1>7. FlagInv'
  BY <1>1 DEF IInv, FlagInv, Parties
<1>8. WorkerInv(w)'
  <2>1. WorkerInv(w)
    BY DEF IInv
  <2>2. QED
    BY <1>1, <1>3, <1>5, <2>1 DEF WorkerInv, TimerInv, StampInv, ClockInv, CountInv,
       Punctual, SinceStart
<1>9. QED
  BY <1>1, <1>5, <1>6, <1>7, <1>8, StepOfWorker

\* A transaction panics, and its worker with it.
LEMMA PanicKeeps ==
  ASSUME IInv, NEW w \in Workers, Panic(w) PROVE IInv'
<1>1. /\ pc[w] = "run" /\ pc' = [pc EXCEPT ![w] = "panicked"]
      /\ UNCHANGED <<driver, duration, longest, timer, warm_up_done, total_done, at_start,
                     at_warm, warmed_up, counter, tid_next, oid_next, inserts, now, start,
                     sampled, prev, measuring, measured, report>>
  BY DEF Panic, config, flags, clocks, history
<1>2. /\ pc' \in [Workers -> Labels] /\ pc'[w] = "panicked"
      /\ \A u \in Workers \ {w} : pc'[u] = pc[u]
  BY <1>1, OthersStay DEF IInv, Labels
<1>3. Parties' = Parties
  BY <1>1 DEF Parties
<1>4. TypeOK'
  BY <1>1, <1>2, <1>3 DEF IInv, TypeOK, Labels
<1>5. FlagInv'
  BY <1>1, <1>3 DEF IInv, FlagInv
<1>6. WorkerInv(w)'
  <2>1. WorkerInv(w)
    BY DEF IInv
  <2>2. QED
    BY <1>1, <1>2, <2>1 DEF WorkerInv, TimerInv, StampInv, ClockInv, CountInv, Punctual,
       SinceStart
<1>7. QED
  BY <1>1, <1>2, <1>4, <1>5, <1>6, StepOfWorker

\* The report sums up what the invariant says of every survivor.
LEMMA ReportKeeps ==
  ASSUME IInv, Report PROVE IInv'
<1>1. /\ Survivors \cup Panicked = Workers
      /\ report' = [outcome |-> Outcome, success |-> Total("success"),
                    abort |-> Total("abort"), new_order |-> Total("new_order")]
      /\ UNCHANGED <<driver, duration, longest, timer, warm_up_done, total_done, at_start,
                     at_warm, pc, warmed_up, counter, tid_next, oid_next, inserts, now,
                     start, sampled, prev, measuring, measured>>
  BY DEF Report, config, flags, clocks, history
<1>2. report'.outcome = Outcome /\ report'.success = Total("success")
  BY <1>1
<1>3. /\ Parties' = Parties /\ Survivors' = Survivors /\ Panicked' = Panicked
  BY <1>1 DEF Parties, Survivors, Panicked
<1>4. TypeOK'
  <2>1. DOMAIN report' = DOMAIN NoReport
    BY <1>1 DEF NoReport
  <2>2. QED
    BY <1>1, <1>3, <2>1 DEF IInv, TypeOK
<1>5. FlagInv'
  BY <1>1, <1>3 DEF IInv, FlagInv
<1>6. \A w \in Workers : WorkerInv(w)'
  BY <1>1, WorkerKept DEF IInv
<1>7. WarmUpExcluded'
  <2>1. SUFFICES ASSUME Punctual
                 PROVE  Total("success") = SumFunction([w \in Survivors |-> measured[w]])
    BY <1>1, <1>2, <1>3 DEF WarmUpExcluded, Punctual
  <2>2. ASSUME NEW w \in Survivors PROVE counter[w].success = measured[w]
    <3>1. w \in Workers /\ pc[w] = "done"
      BY DEF Survivors
    <3>2. TimerInv(w) /\ ClockInv(w) /\ CountInv(w)
      BY <2>1, <3>1 DEF IInv, WorkerInv
    <3>3. driver \in {"timer", "clock"}
      BY Types DEF IInv
    <3>4. warmed_up[w]
      BY <3>1, <3>2, <3>3 DEF TimerInv, ClockInv
    <3>5. QED
      BY <3>2, <3>4 DEF CountInv
  <2>3. [w \in Survivors |-> counter[w].success] = [w \in Survivors |-> measured[w]]
    BY <2>2
  <2>4. Total("success") = SumFunction([w \in Survivors |-> counter[w].success])
    BY DEF Total
  <2>5. QED
    BY <2>3, <2>4
<1>8. ReportInBounds'
  <2>1. SUFFICES ASSUME duration <= 2 * (Slots - 1) PROVE Outcome # "out of bounds"
    BY <1>1, <1>2 DEF ReportInBounds
  <2>2. ASSUME NEW w \in Survivors PROVE ~(Len(counter[w].stamps) >= Slots)
    <3>1. w \in Workers
      BY DEF Survivors
    <3>2. Len(counter[w].stamps) < Slots
      BY <2>1, <3>1 DEF IInv, WorkerInv, StampInv
    <3>3. Len(counter[w].stamps) \in Nat /\ Slots \in Nat
      BY <3>1, Types, Constants DEF IInv, Counters
    <3>4. QED
      BY <3>2, <3>3
  <2>3. QED
    BY <2>2 DEF Outcome
<1>9. ReportInv'
  BY <1>1, <1>3, <1>7, <1>8 DEF ReportInv
<1>10. QED
  BY <1>4, <1>5, <1>6, <1>9 DEF IInv

\* Every step keeps the invariant.
LEMMA StepIInv == IInv /\ [Next]_vars => IInv'
<1> SUFFICES ASSUME IInv, [Next]_vars PROVE IInv'
  OBVIOUS
<1>1. ASSUME NEW w \in Workers, WorkerStep(w) PROVE IInv'
  <2>1. CASE Arrive(w) \/ Start(w) \/ ResetCounts(w) \/ Measure(w)
    BY <2>1, ArriveKeeps, StartKeeps, ResetCountsKeeps, MeasureKeeps
  <2>2. CASE Begin(w) \/ Stop(w) \/ Sample(w) \/ TimeOut(w)
    BY <2>2, BeginKeeps, StopKeeps, SampleKeeps, TimeOutKeeps
  <2>3. CASE Commit(w) \/ Retry(w) \/ Panic(w)
    BY <2>3, CommitKeeps, RetryKeeps, PanicKeeps
  <2>4. QED
    BY <1>1, <2>1, <2>2, <2>3 DEF WorkerStep
<1>2. CASE TimerStep
  BY <1>2, TimerStepKeeps
<1>3. CASE Tick
  BY <1>3, TickKeeps
<1>4. CASE Report
  BY <1>4, ReportKeeps
<1>5. CASE UNCHANGED vars
  <2>1. UNCHANGED <<driver, duration, longest, timer, warm_up_done, total_done, at_start,
                    at_warm, pc, warmed_up, counter, tid_next, oid_next, inserts, now,
                    start, sampled, prev, measuring, measured, report>>
    BY <1>5 DEF vars, config, flags, clocks, history
  <2>2. /\ Parties' = Parties /\ Survivors' = Survivors /\ Panicked' = Panicked
    BY <2>1 DEF Parties, Survivors, Panicked
  <2>3. TypeOK' /\ FlagInv'
    BY <2>1, <2>2 DEF IInv, TypeOK, FlagInv
  <2>4. \A w \in Workers : WorkerInv(w)'
    BY <2>1, WorkerKept DEF IInv
  <2>5. ReportInv'
    BY <2>1, <2>2 DEF IInv, ReportInv, WarmUpExcluded, ReportInBounds
  <2>6. QED
    BY <2>3, <2>4, <2>5 DEF IInv
<1>6. QED
  BY <1>1, <1>2, <1>3, <1>4, <1>5 DEF Next

\* The invariant holds in every state.
LEMMA IInvHolds == Spec => []IInv
  BY InitIInv, StepIInv, PTL DEF Spec

-----------------------------------------------------------------------------
(* The theorems. *)

\* The flags, barriers, counters and clocks of a run keep their types, and
\* no worker's clock runs ahead of the time.
THEOREM TypeCorrect == Spec => []TypeOK
<1>1. IInv => TypeOK
  BY DEF IInv
<1>2. QED
  BY <1>1, IInvHolds, PTL

\* report_stat sums up the commits past the warm-up and no others: always in
\* the timer driver, and in the clock driver if no transaction takes longer
\* than a second.
THEOREM WarmUpExcludedHolds == Spec => []WarmUpExcluded
<1>1. IInv => WarmUpExcluded
  BY DEF IInv, ReportInv
<1>2. QED
  BY <1>1, IInvHolds, PTL

\* report_stat stays inside total_timestamps whenever the run is no longer
\* than two seconds for each slot but the first, however long its
\* transactions are.
THEOREM ReportInBoundsHolds == Spec => []ReportInBounds
<1>1. IInv => ReportInBounds
  BY DEF IInv, ReportInv
<1>2. QED
  BY <1>1, IInvHolds, PTL

\* No Tid and no ObjectId is given twice while counters and masks fit in
\* their words (TidFac::get_next, OidFac::get_next).
THEOREM IdsUniqueHolds == Spec => []IdsUnique
<1>1. IInv => IdsUnique
  BY IdsApart DEF IInv
<1>2. QED
  BY <1>1, IInvHolds, PTL

=============================================================================
