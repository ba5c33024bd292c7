------------------------------- MODULE Driver -------------------------------
(***************************************************************************)
(* The benchmark drivers of pnvm: worker threads that run transactions in  *)
(* a loop, count them, and are stopped and summed up.                      *)
(*                                                                         *)
(* Two drivers share the counters, the identifier factories and the        *)
(* report.  The "timer" driver (run_tpcc, run_ycsb) has a thread that      *)
(* raises warm_up_done and total_done; two barriers of all workers and the *)
(* timer bracket the warm-up.  In the "clock" driver (run_pc_tpcc) every   *)
(* worker reads its own clock between two transactions and compares whole  *)
(* seconds for equality.  The loop of run_nvm_occ_micro is the same, but   *)
(* report_stat no longer supports its configuration.                       *)
(*                                                                         *)
(* A transaction is what happens between `begin' and its end: it may be    *)
(* retried, and it may panic (a missing row, an index out of bounds).      *)
(* Time passes only in the clock driver, in whole seconds; the             *)
(* transactions of a worker within one second are one, because the loop    *)
(* head does nothing twice in the same second.                             *)
(***************************************************************************)
EXTENDS Integers, Sequences, FiniteSets, FiniteSetsExt

CONSTANTS
  Workers,       \* the thread numbers i of the workers, also their masks
  Loaded,        \* number of objects the main thread creates with mask 0
  TidShift,      \* bits of a Tid below the mask: 24
  TidBits,       \* bits of a Tid: 32
  OidShift,      \* bits of an ObjectId below the mask: 52
  OidBits,       \* bits of an ObjectId: 64
  Slots,         \* length of total_timestamps: 17
  Durations,     \* the durations of a run, in seconds
  WarmUp,        \* warmup_time, in seconds
  Longest,       \* bounds on how long a transaction takes, in seconds
  MaxTxns,       \* bound: transactions of a worker of the timer driver
  MaxAborts,     \* bound: aborts of a worker
  MaxPanics      \* bound: workers that panic

ASSUME DriverAssumption ==
  /\ Workers \subseteq Nat \ {0} /\ IsFiniteSet(Workers)
  /\ Loaded \in Nat /\ WarmUp \in Nat /\ Slots \in Nat \ {0}
  /\ {TidShift, TidBits, OidShift, OidBits} \subseteq Nat
  /\ TidShift <= TidBits /\ OidShift <= OidBits
  /\ Durations \subseteq Nat /\ Longest \subseteq Nat \ {0}
  /\ {MaxTxns, MaxAborts, MaxPanics} \subseteq Nat

VARIABLES
  driver,             \* "timer" or "clock"
  duration, longest,  \* this run's choice from Durations and Longest
  timer,              \* where the Timer thread is
  warm_up_done, total_done,
  at_start, at_warm,  \* who has reached start_barrier, warm_up_barrier
  pc,                 \* where each worker is
  warmed_up,          \* loc_warm_up_done, or no_warmup of the clock driver
  counter,            \* the BenchmarkCounter of each worker
  tid_next, oid_next, \* next_id_ of TidFac and OidFac of each thread
  inserts,            \* whether the running transaction creates a row
  now,                \* whole seconds since the clock driver began
  start, sampled,     \* each worker's `start', and when it last read now
  prev,               \* prev_timestamp
  measuring,          \* history: the running transaction is past the warm-up
  measured,           \* history: commits past the warm-up
  report              \* what report_stat did

flags == <<warm_up_done, total_done>>
clocks == <<now, start, sampled, prev>>
config == <<driver, duration, longest>>
history == <<measuring, measured>>
vars == <<config, timer, flags, at_start, at_warm, pc, warmed_up, counter,
          tid_next, oid_next, inserts, clocks, history, report>>

Main == 0
TheTimer == -1
Threads == Workers \cup {Main}
\* A mutant for the runs: barriers of thread_num, not thread_num + 1.
Parties_NoTimer == Workers

Parties == IF driver = "timer" THEN Workers \cup {TheTimer} ELSE Workers

-----------------------------------------------------------------------------
(* Identifiers: the counter and the shifted mask, or-ed in a word.         *)

\* 1 << n.
Pow2[n \in Nat] == IF n = 0 THEN 1 ELSE 2 * Pow2[n - 1]

\* A word as the set of the positions of its ones.
Bits(n, width) == {b \in 0 .. width - 1 : (n \div Pow2[b]) % 2 = 1}

\* A mutant for the runs: the mask shifted one position too few.
NextId_Shift(n, mask, shift, width) ==
  Bits(n, width)
    \cup {b \in 0 .. width - 1 : b - (shift - 1) \in Bits(mask, width)}

NextId(n, mask, shift, width) ==
  Bits(n, width) \cup {b \in 0 .. width - 1 : b - shift \in Bits(mask, width)}

Tid(w, n) == NextId(n, w, TidShift, TidBits)
ObjectId(w, n) == NextId(n, w, OidShift, OidBits)

-----------------------------------------------------------------------------
NewCounter == [success |-> 0, abort |-> 0, new_order |-> 0, stamps |-> <<>>]

NoReport == [outcome |-> "none", success |-> 0, abort |-> 0, new_order |-> 0]

Init ==
  /\ driver \in {"timer", "clock"}
  /\ duration \in Durations /\ longest \in Longest
  /\ driver = "timer" => duration = Min(Durations) /\ longest = Min(Longest)
  /\ timer = IF driver = "timer" THEN "start" ELSE "none"
  /\ warm_up_done = FALSE /\ total_done = FALSE
  /\ at_start = {} /\ at_warm = {}
  /\ pc = [w \in Workers |-> "start"]
  /\ \/ warmed_up = [w \in Workers |-> FALSE]
     \/ driver = "clock" /\ warmed_up = [w \in Workers |-> TRUE]
  /\ counter = [w \in Workers |-> NewCounter]
  /\ tid_next = [t \in Threads |-> 1]
  /\ oid_next = [t \in Threads |-> IF t = Main THEN Loaded + 1 ELSE 1]
  /\ inserts = [w \in Workers |-> FALSE]
  /\ now = 0
  /\ start = [w \in Workers |-> 0] /\ sampled = [w \in Workers |-> 0]
  /\ prev = [w \in Workers |-> 0]
  /\ measuring = [w \in Workers |-> FALSE]
  /\ measured = [w \in Workers |-> 0]
  /\ report = NoReport

\* The worker sets its masks and reaches start_barrier.
Arrive(w) ==
  /\ pc[w] = "start"
  /\ pc' = [pc EXCEPT ![w] = "start_wait"]
  /\ at_start' = at_start \cup {w}
  /\ UNCHANGED <<config, timer, flags, at_warm, warmed_up, counter, tid_next,
                 oid_next, inserts, clocks, history, report>>

\* All parties are there; BenchmarkCounter::start, and the loop begins.
Start(w) ==
  /\ pc[w] = "start_wait" /\ at_start = Parties
  /\ pc' = [pc EXCEPT ![w] = "loop"]
  /\ start' = [start EXCEPT ![w] = now]
  /\ sampled' = [sampled EXCEPT ![w] = now]
  /\ UNCHANGED <<config, timer, flags, at_start, at_warm, warmed_up, counter,
                 tid_next, oid_next, inserts, now, prev, history, report>>

-----------------------------------------------------------------------------
(* The timer thread: util_count_down.                                      *)

TimerArrive ==
  /\ timer = "start"
  /\ timer' = "start_wait" /\ at_start' = at_start \cup {TheTimer}
  /\ UNCHANGED <<config, flags, at_warm, pc, warmed_up, counter, tid_next,
                 oid_next, inserts, clocks, history, report>>

TimerStart ==
  /\ timer = "start_wait" /\ at_start = Parties
  /\ timer' = "warming"
  /\ UNCHANGED <<config, flags, at_start, at_warm, pc, warmed_up, counter,
                 tid_next, oid_next, inserts, clocks, history, report>>

\* The mutant: the timer raises the flag and does not join the barrier.
EndWarmUp_NoWait ==
  /\ timer = "warming"
  /\ warm_up_done' = TRUE /\ timer' = "measuring"
  /\ UNCHANGED <<config, total_done, at_start, at_warm, pc, warmed_up, counter,
                 tid_next, oid_next, inserts, clocks, history, report>>

EndWarmUp ==
  /\ timer = "warming"
  /\ warm_up_done' = TRUE
  /\ at_warm' = at_warm \cup {TheTimer} /\ timer' = "warm_wait"
  /\ UNCHANGED <<config, total_done, at_start, pc, warmed_up, counter,
                 tid_next, oid_next, inserts, clocks, history, report>>

TimerMeasure ==
  /\ timer = "warm_wait" /\ at_warm = Parties
  /\ timer' = "measuring"
  /\ UNCHANGED <<config, flags, at_start, at_warm, pc, warmed_up, counter,
                 tid_next, oid_next, inserts, clocks, history, report>>

EndRun ==
  /\ timer = "measuring"
  /\ total_done' = TRUE /\ timer' = "done"
  /\ UNCHANGED <<config, warm_up_done, at_start, at_warm, pc, warmed_up,
                 counter, tid_next, oid_next, inserts, clocks, history,
                 report>>

-----------------------------------------------------------------------------
(* The loop of a worker of the timer driver.                               *)

\* The mutant: the flag is passed and the counts are kept.
ResetCounts_Kept(w) ==
  /\ driver = "timer" /\ pc[w] = "loop"
  /\ ~total_done /\ warm_up_done /\ ~warmed_up[w]
  /\ warmed_up' = [warmed_up EXCEPT ![w] = TRUE]
  /\ at_warm' = at_warm \cup {w}
  /\ pc' = [pc EXCEPT ![w] = "warm_wait"]
  /\ UNCHANGED <<config, timer, flags, at_start, counter, tid_next, oid_next,
                 inserts, clocks, history, report>>

\* The flag is seen for the first time: reset_cnt, then the barrier.
ResetCounts(w) ==
  /\ driver = "timer" /\ pc[w] = "loop"
  /\ ~total_done /\ warm_up_done /\ ~warmed_up[w]
  /\ counter' = [counter EXCEPT ![w] = NewCounter]
  /\ warmed_up' = [warmed_up EXCEPT ![w] = TRUE]
  /\ at_warm' = at_warm \cup {w}
  /\ pc' = [pc EXCEPT ![w] = "warm_wait"]
  /\ UNCHANGED <<config, timer, flags, at_start, tid_next, oid_next, inserts,
                 clocks, history, report>>

Measure(w) ==
  /\ pc[w] = "warm_wait" /\ at_warm = Parties
  /\ pc' = [pc EXCEPT ![w] = "begin"]
  /\ UNCHANGED <<config, timer, flags, at_start, at_warm, warmed_up, counter,
                 tid_next, oid_next, inserts, clocks, history, report>>

\* get_thd_next, and a transaction that creates a row or does not.
Begin(w) ==
  /\ driver = "timer" /\ tid_next[w] <= MaxTxns
  /\ \/ pc[w] = "begin"
     \/ pc[w] = "loop" /\ ~total_done /\ (warm_up_done => warmed_up[w])
  /\ pc' = [pc EXCEPT ![w] = "run"]
  /\ tid_next' = [tid_next EXCEPT ![w] = @ + 1]
  /\ \E new \in BOOLEAN : inserts' = [inserts EXCEPT ![w] = new]
  /\ measuring' = [measuring EXCEPT ![w] = warmed_up[w]]
  /\ UNCHANGED <<config, timer, flags, at_start, at_warm, warmed_up, counter,
                 oid_next, clocks, measured, report>>

\* total_done is seen: the worker returns a copy of its counter.
Stop(w) ==
  /\ driver = "timer" /\ pc[w] \in {"loop", "begin"}
  /\ total_done
  /\ pc[w] = "begin" => tid_next[w] > MaxTxns
  /\ pc' = [pc EXCEPT ![w] = "done"]
  /\ UNCHANGED <<config, timer, flags, at_start, at_warm, warmed_up, counter,
                 tid_next, oid_next, inserts, clocks, history, report>>

-----------------------------------------------------------------------------
(* The loop of a worker of the clock driver.                               *)

\* The worker reads its clock, ends the warm-up when the seconds are equal
\* to warmup_time, stamps when two seconds have passed, and begins.
WarmUpEnds(w) == ~warmed_up[w] /\ now - start[w] = WarmUp

\* The mutant: a stamp every second.
StampDue_EverySecond(elapsed, last) == elapsed = last + 1

StampDue(elapsed, last) == elapsed = last + 2

Sample(w) ==
  LET reset   == WarmUpEnds(w)
      elapsed == IF reset THEN 0 ELSE now - start[w]
      last    == IF reset THEN 0 ELSE prev[w]
      count   == IF reset THEN NewCounter ELSE counter[w]
      due     == StampDue(elapsed, last)
  IN  /\ driver = "clock" /\ pc[w] = "loop"
      /\ sampled[w] - start[w] < duration
      /\ sampled' = [sampled EXCEPT ![w] = now]
      /\ start' = [start EXCEPT ![w] = IF reset THEN now ELSE @]
      /\ warmed_up' = [warmed_up EXCEPT ![w] = @ \/ reset]
      /\ prev' = [prev EXCEPT ![w] = IF due THEN elapsed ELSE last]
      /\ counter' = [counter EXCEPT ![w] =
                       IF due
                       THEN [count EXCEPT !.stamps = Append(@, count.success)]
                       ELSE count]
      /\ measuring' = [measuring EXCEPT ![w] =
                         @ \/ warmed_up[w] \/ now - start[w] >= WarmUp]
      /\ pc' = [pc EXCEPT ![w] = "run"]
      /\ tid_next' = [tid_next EXCEPT ![w] = @ + 1]
      /\ UNCHANGED <<config, timer, flags, at_start, at_warm, oid_next,
                     inserts, now, measured, report>>

\* The last sample was past the duration.
TimeOut(w) ==
  /\ driver = "clock" /\ pc[w] = "loop"
  /\ sampled[w] - start[w] >= duration
  /\ pc' = [pc EXCEPT ![w] = "done"]
  /\ UNCHANGED <<config, timer, flags, at_start, at_warm, warmed_up, counter,
                 tid_next, oid_next, inserts, clocks, history, report>>

\* A second passes; nobody takes longer than `longest' for a transaction,
\* and the loop head takes no time.
Tick ==
  /\ driver = "clock"
  /\ \E w \in Workers : pc[w] = "run"
  /\ \A w \in Workers :
       /\ pc[w] \in {"run", "done", "panicked"}
       /\ pc[w] = "run" => now - sampled[w] < longest
  /\ now' = now + 1
  /\ UNCHANGED <<config, timer, flags, at_start, at_warm, pc, warmed_up,
                 counter, tid_next, oid_next, inserts, start, sampled, prev,
                 history, report>>

-----------------------------------------------------------------------------
(* How a transaction ends.                                                 *)

\* Every attempt of a transaction that inserts creates its row anew.
Create(w) ==
  oid_next' = IF inserts[w] THEN [oid_next EXCEPT ![w] = @ + 1] ELSE oid_next

Commit(w) ==
  /\ pc[w] = "run"
  /\ driver = "clock" => now > sampled[w]
  /\ counter' = [counter EXCEPT
       ![w].success = @ + 1,
       ![w].new_order = @ + IF driver = "timer" /\ inserts[w] THEN 1 ELSE 0]
  /\ measured' = [measured EXCEPT ![w] = @ + IF measuring[w] THEN 1 ELSE 0]
  /\ Create(w)
  /\ pc' = [pc EXCEPT ![w] = "loop"]
  /\ UNCHANGED <<config, timer, flags, at_start, at_warm, warmed_up, tid_next,
                 inserts, clocks, measuring, report>>

\* try_commit returned false: the same transaction, under the same
\* identifier, is run again.
Retry(w) ==
  /\ driver = "timer" /\ pc[w] = "run" /\ counter[w].abort < MaxAborts
  /\ counter' = [counter EXCEPT ![w].abort = @ + 1]
  /\ Create(w)
  /\ UNCHANGED <<config, timer, flags, at_start, at_warm, pc, warmed_up,
                 tid_next, inserts, clocks, history, report>>

Panicked == {w \in Workers : pc[w] = "panicked"}

Panic(w) ==
  /\ pc[w] = "run" /\ Cardinality(Panicked) < MaxPanics
  /\ pc' = [pc EXCEPT ![w] = "panicked"]
  /\ UNCHANGED <<config, timer, flags, at_start, at_warm, warmed_up, counter,
                 tid_next, oid_next, inserts, clocks, history, report>>

-----------------------------------------------------------------------------
(* report_stat: join every worker, sum the counters of those that did not  *)
(* panic, slot i + 1 for stamp i, and divide by the longest time counted.  *)

Survivors == {w \in Workers : pc[w] = "done"}

Total(field) == SumFunction([w \in Survivors |-> counter[w][field]])

Outcome ==
  IF \E w \in Survivors : Len(counter[w].stamps) >= Slots THEN "out of bounds"
  ELSE IF Survivors = {} THEN "division by zero"
  ELSE "made"

Report ==
  /\ report = NoReport
  /\ Survivors \cup Panicked = Workers
  /\ report' = [outcome   |-> Outcome,
                success   |-> Total("success"),
                abort     |-> Total("abort"),
                new_order |-> Total("new_order")]
  /\ UNCHANGED <<config, timer, flags, at_start, at_warm, pc, warmed_up,
                 counter, tid_next, oid_next, inserts, clocks, history>>

-----------------------------------------------------------------------------
WorkerStep(w) ==
  \/ Arrive(w) \/ Start(w)
  \/ ResetCounts(w) \/ Measure(w) \/ Begin(w) \/ Stop(w)
  \/ Sample(w) \/ TimeOut(w)
  \/ Commit(w) \/ Retry(w) \/ Panic(w)

TimerStep == TimerArrive \/ TimerStart \/ EndWarmUp \/ TimerMeasure \/ EndRun

Next == (\E w \in Workers : WorkerStep(w)) \/ TimerStep \/ Tick \/ Report

(* Every thread runs, time passes, and every transaction ends: the modules *)
(* of the protocols say when it does.                                      *)
Spec == Init /\ [][Next]_vars
          /\ \A w \in Workers : WF_vars(WorkerStep(w))
          /\ WF_vars(TimerStep) /\ WF_vars(Tick) /\ WF_vars(Report)

-----------------------------------------------------------------------------
TypeOK ==
  /\ driver \in {"timer", "clock"} /\ timer \in
       {"none", "start", "start_wait", "warming", "warm_wait", "measuring",
        "done"}
  /\ at_start \subseteq Parties /\ at_warm \subseteq Parties
  /\ pc \in [Workers -> {"start", "start_wait", "loop", "warm_wait", "begin",
                         "run", "done", "panicked"}]
  /\ {warm_up_done, total_done} \subseteq BOOLEAN
  /\ {warmed_up, inserts, measuring} \subseteq [Workers -> BOOLEAN]
  /\ counter \in [Workers -> [success : Nat, abort : Nat, new_order : Nat,
                              stamps : Seq(Nat)]]
  /\ {tid_next, oid_next} \subseteq [Threads -> Nat \ {0}]
  /\ now \in Nat
  /\ {start, sampled, prev, measured} \subseteq [Workers -> Nat]
  /\ \A w \in Workers : start[w] <= sampled[w] /\ sampled[w] <= now
  /\ DOMAIN report = DOMAIN NoReport

\* Identifiers are never given twice while the counters fit below the mask
\* and the masks above it (get_next of TidFac and OidFac merges both into one
\* word): neither a Tid, nor an ObjectId of the tables or of a worker. The locks
\* of every protocol are reentrant for a Tid: one that is given twice to
\* running transactions would let both through.
TidsUnique ==
  (\A w \in Workers : /\ tid_next[w] <= Pow2[TidShift]
                      /\ w < Pow2[TidBits - TidShift])
    => \A v, w \in Workers :
         \A m \in 1 .. tid_next[v] - 1, n \in 1 .. tid_next[w] - 1 :
           Tid(v, m) = Tid(w, n) => v = w /\ m = n

ObjectIdsUnique ==
  (\A t \in Threads : /\ oid_next[t] <= Pow2[OidShift]
                      /\ t < Pow2[OidBits - OidShift])
    => \A s, t \in Threads :
         \A m \in 1 .. oid_next[s] - 1, n \in 1 .. oid_next[t] - 1 :
           ObjectId(s, m) = ObjectId(t, n) => s = t /\ m = n

IdsUnique == TidsUnique /\ ObjectIdsUnique

\* The report sums up exactly the commits past the warm-up of the workers
\* that survive.  In the clock driver this needs every transaction to be
\* shorter than a second, or the equality test of the seconds with
\* warmup_time can be jumped over, and a warm-up shorter than the run.
WarmUpExcluded ==
  /\ report.outcome = "made"
  /\ driver = "clock" => longest = 1 /\ WarmUp < duration
  => report.success = SumFunction([w \in Survivors |-> measured[w]])

\* report_stat stays inside total_timestamps as long as the run is no longer
\* than two seconds for each of its slots but the first.
ReportInBounds ==
  duration <= 2 * (Slots - 1) => report.outcome # "out of bounds"

\* A run ends with a report, unless a worker of the timer driver panics
\* before it has reached warm_up_barrier: then the timer, the other workers
\* and the join wait for it for ever.
EventuallyReported ==
  <>(\/ report # NoReport
     \/ driver = "timer" /\ \E w \in Panicked : ~warmed_up[w])

=============================================================================
