----------------------------- MODULE Histogram -----------------------------
(***************************************************************************)
(* ia_histogram.c: every doer (worker thread) measures into a histogram of *)
(* its own and folds it now and then into the global one, and the doers    *)
(* agree without a coordinator on when a row of the timeline is printed:   *)
(*                                                                         *)
(*   - doers_active counts the doers, doers_merged those of them that have *)
(*     contributed to the row being collected; the last one prints it and  *)
(*     starts the next one by advancing merge_evo;                         *)
(*   - a doer whose merge_evo is one ahead of the global one has           *)
(*     contributed already.                                                *)
(*                                                                         *)
(* A step is what a thread does between two accesses to state that another *)
(* thread can change at that moment.  Under the mutex that is only         *)
(* doers_active, which ia_histogram_destroy decrements without locking:    *)
(* ia_histogram_checkpoint reads it three times, in three steps.           *)
(*                                                                         *)
(* Abstracted: latency_sum_square and volume_sum (kept like                *)
(* latency_sum_ns), the text of the rows, the csv copy of them.            *)
(***************************************************************************)
EXTENDS Integers, FiniteSets

CONSTANTS
    Doers,          \* the threads that measure (iadoer)
    Benches,        \* the benchmarks enabled by ia_run
    Buckets,        \* indexes of the table of latency buckets
    BucketOf,       \* latency -> bucket, computed by BucketSearch.tla
    IntervalMerge,  \* INTERVAL_MERGE
    IntervalStat,   \* INTERVAL_STAT
    ClockModulus,   \* 2^64: differences of time stamps are unsigned
    MaxClock,       \* bound: the clock stops here
    MaxRuns,        \* bound: benchmark runs of a doer
    MaxOps          \* bound: operations measured in one run

ASSUME DoersAssumption == IsFiniteSet(Doers)
ASSUME NobodyAssumption == "nobody" \notin Doers
ASSUME BenchesAssumption == Benches # {}
ASSUME BoundsAssumption ==
    /\ MaxClock \in Nat \ {0} /\ MaxRuns \in Nat \ {0} /\ MaxOps \in Nat
    /\ IntervalMerge \in Nat /\ IntervalStat \in Nat
    /\ ClockModulus \in Nat \ {0}
ASSUME BucketOfAssumption == BucketOf \in [0 .. MaxClock -> Buckets]

VARIABLES
    clock,          \* ia_timestamp_ns()
    mutex,          \* global.mutex: the doer that holds it, or Nobody
    doers_active,
    doers_merged,
    merge_evo,      \* global.merge_evo
    checkpoint_ns,  \* global.checkpoint_ns
    per_bench,      \* global.per_bench
    hg,             \* [Doers -> iahistogram]
    pc,             \* [Doers -> Labels], where the doer is
    stamp,          \* [Doers -> time], its local t0 or now, 0 out of scope
    ops,            \* [Doers -> operations measured in this run]
    back,           \* [Doers -> label to go on at after the mutex]
    todo,           \* [Doers -> benchmark runs still to do]
    failed,         \* ioarena.failed
    outcome         \* how the process ended, or "running"

shared == <<mutex, doers_active, doers_merged, merge_evo, checkpoint_ns,
            per_bench>>
local == <<hg, pc, stamp, back, ops, todo>>
vars == <<clock, shared, local, failed, outcome>>

Nobody == "nobody"
Times == 0 .. MaxClock
Unset == MaxClock + 1                     \* ~0ull, above every latency

Labels ==
    {"new",       \* before ia_histogram_init
     "ready",     \* between two benchmark runs
     "bench",     \* in the loop of ia_run_benchmark
     "op",        \* an operation of the driver is running
     "trylock",   \* ia_histogram_add: before pthread_mutex_trylock
     "lock",      \* ia_histogram_merge: waits for the mutex
     "merge",     \* ia_histogram_merge_locked: holds the mutex
     "check",     \* ia_histogram_checkpoint: before its ia_fatal test
     "publish",   \* ia_histogram_checkpoint: before its assert
     "relock",    \* ia_histogram_destroy: waits for the mutex
     "leave",     \* ia_histogram_destroy: decrements without the mutex
     "gone",      \* destroyed
     "unused"}    \* destroyed, but never enabled: stays counted

(* now - since on ia_timestamp_t: a late "now" wraps around. *)
Elapsed(now, since) == (now - since) % ClockModulus

Zero == [n |-> 0, sum |-> 0]              \* struct iastat
NoBuckets == [k \in Buckets |-> 0]

(* ia_histogram_enable: the global histogram of a benchmark. *)
EmptyBench ==
    [acc |-> Zero, min |-> Unset, max |-> 0, whole_min |-> Unset,
     whole_max |-> 0, begin_ns |-> 0, end_ns |-> 0, buckets |-> NoBuckets]

(* The memset of ia_histogram_init. *)
EmptyHistogram(evo, b) ==
    [enabled |-> FALSE, bench |-> b, merge_evo |-> evo, checkpoint_ns |-> 0,
     begin_ns |-> 0, end_ns |-> 0, acc |-> Zero, last |-> Zero,
     min |-> 0, max |-> 0, buckets |-> NoBuckets]

(* Mutant: the counts merged in the run before are not forgotten. *)
ResetKeepsLast(h, b) ==
    [EmptyHistogram(h.merge_evo, b) EXCEPT
        !.min = Unset, !.checkpoint_ns = clock, !.enabled = TRUE,
        !.last = h.last]

(* ia_histogram_reset. *)
ResetHistogram(h, b) ==
    [EmptyHistogram(h.merge_evo, b) EXCEPT
        !.min = Unset, !.checkpoint_ns = clock, !.enabled = TRUE]

Init ==
    /\ clock = 1
    /\ mutex = Nobody
    /\ doers_active = 0
    /\ doers_merged = 0
    /\ merge_evo = 0
    /\ checkpoint_ns = clock
    /\ per_bench = [b \in Benches |-> EmptyBench]
    /\ hg = [d \in Doers |-> EmptyHistogram(0, CHOOSE b \in Benches : TRUE)]
    /\ pc = [d \in Doers |-> "new"]
    /\ stamp = [d \in Doers |-> 0]
    /\ back = [d \in Doers |-> "bench"]
    /\ ops = [d \in Doers |-> 0]
    /\ todo \in [Doers -> 1 .. MaxRuns]
    /\ failed = FALSE
    /\ outcome = "running"

Goto(d, label) == pc' = [pc EXCEPT ![d] = label]

(* Both barriers of ia_run: no doer starts before all of them exist ...   *)
Started == \A d \in Doers : pc[d] # "new"
(* ... and ia_run goes on when all of them are destroyed. *)
Finished == \A d \in Doers : pc[d] \in {"gone", "unused"}

----------------------------------------------------------------------------
(* The life of a doer's histogram. *)

(* Mutant: doers_active is set, not incremented. *)
HistogramInitOnce(d) ==
    /\ pc[d] = "new"
    /\ hg' = [hg EXCEPT ![d] = EmptyHistogram(merge_evo, @.bench)]
    /\ doers_active' = 1
    /\ Goto(d, "ready")
    /\ UNCHANGED <<clock, mutex, doers_merged, merge_evo, checkpoint_ns,
                   per_bench, stamp, back, ops, todo, failed, outcome>>

(* ia_histogram_init, called by ia_run for one doer after the other. *)
HistogramInit(d) ==
    /\ pc[d] = "new"
    /\ hg' = [hg EXCEPT ![d] = EmptyHistogram(merge_evo, @.bench)]
    /\ doers_active' = doers_active + 1
    /\ Goto(d, "ready")
    /\ UNCHANGED <<clock, mutex, doers_merged, merge_evo, checkpoint_ns,
                   per_bench, stamp, back, ops, todo, failed, outcome>>

(* ia_run_benchmark begins with ia_histogram_reset. *)
HistogramReset(d, b) ==
    /\ Started
    /\ pc[d] = "ready"
    /\ todo[d] > 0
    /\ hg' = [hg EXCEPT ![d] = ResetHistogram(@, b)]
    /\ todo' = [todo EXCEPT ![d] = @ - 1]
    /\ Goto(d, "bench")
    /\ UNCHANGED <<clock, shared, stamp, back, ops, failed, outcome>>

(* t0 = ia_timestamp_ns(), before the driver is called. *)
OperationStart(d) ==
    /\ pc[d] = "bench"
    /\ ops[d] < MaxOps
    /\ stamp' = [stamp EXCEPT ![d] = clock]
    /\ Goto(d, "op")
    /\ UNCHANGED <<clock, shared, hg, back, ops, todo, failed, outcome>>

(* One more operation in h, that began at t0 and ends now. *)
Accumulated(h, t0) ==
    LET latency == clock - t0 IN
    [h EXCEPT !.begin_ns = IF @ = 0 THEN t0 ELSE @,
              !.end_ns = clock,
              !.acc = [n |-> @.n + 1, sum |-> @.sum + latency],
              !.min = IF @ > latency THEN latency ELSE @,
              !.max = IF @ < latency THEN latency ELSE @,
              !.buckets[BucketOf[latency]] = @ + 1]

(* ia_histogram_add up to its trylock; merge_evo is read unlocked. *)
HistogramAdd(d) ==
    /\ pc[d] = "op"
    /\ hg' = [hg EXCEPT ![d] = Accumulated(@, stamp[d])]
    /\ ops' = [ops EXCEPT ![d] = @ + 1]
    /\ IF /\ Elapsed(clock, hg[d].checkpoint_ns) >= IntervalMerge
          /\ hg[d].merge_evo = merge_evo
       THEN Goto(d, "trylock") /\ stamp' = [stamp EXCEPT ![d] = clock]
       ELSE Goto(d, "bench") /\ stamp' = [stamp EXCEPT ![d] = 0]
    /\ UNCHANGED <<clock, shared, back, todo, failed, outcome>>

(* pthread_mutex_trylock gives up when the mutex is taken. *)
TryLock(d) ==
    /\ pc[d] = "trylock"
    /\ IF mutex = Nobody
       THEN mutex' = d /\ Goto(d, "merge") /\ UNCHANGED stamp
       ELSE /\ Goto(d, "bench")
            /\ stamp' = [stamp EXCEPT ![d] = 0]
            /\ UNCHANGED mutex
    /\ back' = [back EXCEPT ![d] = "bench"]
    /\ UNCHANGED <<clock, doers_active, doers_merged, merge_evo,
                   checkpoint_ns, per_bench, hg, ops, todo, failed, outcome>>

(* The end of ia_run_benchmark: ia_histogram_merge takes "now", then waits *)
(* for the mutex.  A run that ends early has failed, and is the last one.  *)
BenchmarkEnd(d) ==
    /\ pc[d] = "bench"
    /\ IF ops[d] = MaxOps
       THEN UNCHANGED <<todo, failed>>
       ELSE todo' = [todo EXCEPT ![d] = 0] /\ failed' = TRUE
    /\ IF hg[d].acc.n = hg[d].last.n
       THEN Goto(d, "ready") /\ UNCHANGED stamp
       ELSE Goto(d, "lock") /\ stamp' = [stamp EXCEPT ![d] = clock]
    /\ ops' = [ops EXCEPT ![d] = 0]
    /\ UNCHANGED <<clock, shared, hg, back, outcome>>

Lock(d) ==
    /\ pc[d] = "lock"
    /\ mutex = Nobody
    /\ mutex' = d
    /\ back' = [back EXCEPT ![d] = "ready"]
    /\ Goto(d, "merge")
    /\ UNCHANGED <<clock, doers_active, doers_merged, merge_evo,
                   checkpoint_ns, per_bench, hg, stamp, ops, todo, failed,
                   outcome>>

----------------------------------------------------------------------------
(* Under the mutex. *)

(* The first half of ia_histogram_merge_locked: src's news added to dst. *)
Merged(dst, src) ==
    [dst EXCEPT
        !.acc = [n |-> @.n + (src.acc.n - src.last.n),
                 sum |-> @.sum + (src.acc.sum - src.last.sum)],
        !.buckets = [k \in Buckets |-> @[k] + src.buckets[k]],
        !.begin_ns = IF @ = 0 \/ @ > src.begin_ns THEN src.begin_ns ELSE @,
        !.end_ns = IF @ < src.end_ns THEN src.end_ns ELSE @,
        !.min = IF @ > src.min THEN src.min ELSE @,
        !.max = IF @ < src.max THEN src.max ELSE @]

(* What ia_histogram_add forgets after it has merged at "now". *)
Forgotten(h, now) ==
    [h EXCEPT !.checkpoint_ns = now, !.min = Unset, !.max = 0,
              !.last = h.acc, !.buckets = NoBuckets]

(* pthread_mutex_unlock and what follows it; merge_locked has advanced the *)
(* doer's merge_evo by "seen".                                              *)
Unlock(d, seen) ==
    LET h == [hg[d] EXCEPT !.merge_evo = @ + seen] IN
    /\ mutex' = Nobody
    /\ hg' = [hg EXCEPT ![d] =
                 IF back[d] = "bench" THEN Forgotten(h, stamp[d]) ELSE h]
    /\ stamp' = [stamp EXCEPT ![d] = 0]
    /\ Goto(d, back[d])

(* Mutant: the counters are compared off by one. *)
MergeLockedEarly(d) ==
    /\ pc[d] = "merge"
    /\ per_bench' = [per_bench EXCEPT ![hg[d].bench] = Merged(@, hg[d])]
    /\ IF /\ hg[d].merge_evo = merge_evo
          /\ Elapsed(stamp[d], checkpoint_ns) >= IntervalStat
       THEN /\ doers_merged' = doers_merged + 1
            /\ IF doers_active > doers_merged + 2
               THEN Unlock(d, 1)
               ELSE Goto(d, "check") /\ UNCHANGED <<mutex, hg, stamp>>
       ELSE Unlock(d, 0) /\ UNCHANGED doers_merged
    /\ UNCHANGED <<clock, doers_active, merge_evo, checkpoint_ns, back, ops,
                   todo, failed, outcome>>

(* ia_histogram_merge_locked up to the first read of doers_active in      *)
(* ia_histogram_checkpoint(now).                                          *)
MergeLocked(d) ==
    /\ pc[d] = "merge"
    /\ per_bench' = [per_bench EXCEPT ![hg[d].bench] = Merged(@, hg[d])]
    /\ IF /\ hg[d].merge_evo = merge_evo
          /\ Elapsed(stamp[d], checkpoint_ns) >= IntervalStat
       THEN /\ doers_merged' = doers_merged + 1
            /\ IF doers_active > doers_merged + 1
               THEN Unlock(d, 1)
               ELSE Goto(d, "check") /\ UNCHANGED <<mutex, hg, stamp>>
       ELSE Unlock(d, 0) /\ UNCHANGED doers_merged
    /\ UNCHANGED <<clock, doers_active, merge_evo, checkpoint_ns, back, ops,
                   todo, failed, outcome>>

(* The end of a row: what ia_histogram_checkpoint does to a benchmark. *)
RowEnd(h) ==
    [h EXCEPT !.whole_min = IF @ > h.min THEN h.min ELSE @,
              !.whole_max = IF @ < h.max THEN h.max ELSE @,
              !.min = Unset, !.max = 0]

(* ia_histogram_checkpoint's test of the counters, then the row itself. *)
Checkpoint(d) ==
    /\ pc[d] = "check"
    /\ IF doers_active # doers_merged
       THEN outcome' = "fatal" /\ UNCHANGED <<pc, checkpoint_ns, per_bench>>
       ELSE /\ checkpoint_ns' = stamp[d]
            /\ per_bench' = [b \in Benches |-> RowEnd(per_bench[b])]
            /\ Goto(d, "publish")
            /\ UNCHANGED outcome
    /\ UNCHANGED <<clock, mutex, doers_active, doers_merged, merge_evo, hg,
                   stamp, back, ops, todo, failed>>

(* Its assert, and the beginning of the next row. *)
Publish(d) ==
    /\ pc[d] = "publish"
    /\ IF doers_active # doers_merged
       THEN outcome' = "fatal" /\ UNCHANGED <<mutex, doers_merged, merge_evo,
                                             hg, pc, stamp>>
       ELSE /\ doers_merged' = 0
            /\ merge_evo' = merge_evo + 1
            /\ Unlock(d, 1)
            /\ UNCHANGED outcome
    /\ UNCHANGED <<clock, doers_active, checkpoint_ns, per_bench, back, ops,
                   todo, failed>>

----------------------------------------------------------------------------
(* The end of a doer's histogram. *)

(* ia_histogram_destroy up to its unlocked read of merge_evo. *)
HistogramDestroy(d) ==
    /\ Started
    /\ pc[d] = "ready"
    /\ todo[d] = 0
    /\ hg[d].enabled
    /\ hg' = [hg EXCEPT ![d].enabled = FALSE]
    /\ Goto(d, IF hg[d].merge_evo = merge_evo + 1 THEN "relock" ELSE "leave")
    /\ UNCHANGED <<clock, shared, stamp, back, ops, todo, failed, outcome>>

(* Mutant: having locked, it does not look again. *)
DestroyLockedBlindly(d) ==
    /\ pc[d] = "relock"
    /\ mutex = Nobody
    /\ doers_merged' = doers_merged - 1
    /\ doers_active' = doers_active - 1
    /\ Goto(d, "gone")
    /\ UNCHANGED <<clock, mutex, merge_evo, checkpoint_ns, per_bench, hg,
                   stamp, back, ops, todo, failed, outcome>>

(* Mutant: it leaves without taking its contribution back. *)
DestroyLockedKeepsMerged(d) ==
    /\ pc[d] = "relock"
    /\ mutex = Nobody
    /\ doers_active' = doers_active - 1
    /\ Goto(d, "gone")
    /\ UNCHANGED <<clock, mutex, doers_merged, merge_evo, checkpoint_ns,
                   per_bench, hg, stamp, back, ops, todo, failed, outcome>>

(* Mutant: it waits until the row it contributed to is printed. *)
DestroyLockedWaits(d) ==
    /\ pc[d] = "relock"
    /\ mutex = Nobody
    /\ IF hg[d].merge_evo = merge_evo + 1
       THEN UNCHANGED vars
       ELSE /\ doers_active' = doers_active - 1
            /\ Goto(d, "gone")
            /\ UNCHANGED <<clock, mutex, doers_merged, merge_evo,
                           checkpoint_ns, per_bench, hg, stamp, back, ops,
                           todo, failed, outcome>>

(* The branch that locks, and looks again. *)
DestroyLocked(d) ==
    /\ pc[d] = "relock"
    /\ mutex = Nobody
    /\ doers_merged' = IF hg[d].merge_evo = merge_evo + 1
                       THEN doers_merged - 1 ELSE doers_merged
    /\ doers_active' = doers_active - 1
    /\ Goto(d, "gone")
    /\ UNCHANGED <<clock, mutex, merge_evo, checkpoint_ns, per_bench, hg,
                   stamp, back, ops, todo, failed, outcome>>

(* The branch that does not lock. *)
DestroyUnlocked(d) ==
    /\ pc[d] = "leave"
    /\ doers_active' = doers_active - 1
    /\ Goto(d, "gone")
    /\ UNCHANGED <<clock, mutex, doers_merged, merge_evo, checkpoint_ns,
                   per_bench, hg, stamp, back, ops, todo, failed, outcome>>

(* thread_new or an option of the driver failed: the doer is destroyed    *)
(* before its first ia_histogram_reset, and doers_active keeps it.        *)
DestroyUnused(d) ==
    /\ Started
    /\ pc[d] = "ready"
    /\ ~hg[d].enabled
    /\ failed' = TRUE
    /\ Goto(d, "unused")
    /\ UNCHANGED <<clock, shared, hg, stamp, back, ops, todo, outcome>>

----------------------------------------------------------------------------
(* ia_run behind its second barrier. *)

(* ia_histogram_checkpoint(0), then ia_histogram_print. *)
FinalReport ==
    /\ outcome = "running"
    /\ Finished
    /\ ~failed
    /\ IF doers_active # doers_merged
       THEN outcome' = "fatal" /\ UNCHANGED shared
       ELSE /\ checkpoint_ns' = clock
            /\ per_bench' = [b \in Benches |-> RowEnd(per_bench[b])]
            /\ doers_merged' = 0
            /\ merge_evo' = merge_evo + 1
            /\ outcome' = "reported"
            /\ UNCHANGED <<mutex, doers_active>>
    /\ UNCHANGED <<clock, local, failed>>

(* goto bailout: exit(EXIT_FAILURE) without a report. *)
Bailout ==
    /\ outcome = "running"
    /\ Finished
    /\ failed
    /\ outcome' = "bailout"
    /\ UNCHANGED <<clock, shared, local, failed>>

Tick ==
    /\ outcome = "running"
    /\ clock < MaxClock
    /\ clock' = clock + 1
    /\ UNCHANGED <<shared, local, failed, outcome>>

(* The process is over. *)
Exited == outcome # "running" /\ UNCHANGED vars

DoerStep(d) ==
    /\ outcome = "running"
    /\ \/ HistogramInit(d)
       \/ \E b \in Benches : HistogramReset(d, b)
       \/ OperationStart(d)
       \/ HistogramAdd(d)
       \/ TryLock(d)
       \/ BenchmarkEnd(d)
       \/ Lock(d)
       \/ MergeLocked(d)
       \/ Checkpoint(d)
       \/ Publish(d)
       \/ HistogramDestroy(d)
       \/ DestroyLocked(d)
       \/ DestroyUnlocked(d)
       \/ DestroyUnused(d)

Next ==
    \/ \E d \in Doers : DoerStep(d)
    \/ FinalReport
    \/ Bailout
    \/ Tick
    \/ Exited

(* Every thread is scheduled again and again; the mutex is handed on. *)
Fairness ==
    /\ \A d \in Doers : WF_vars(DoerStep(d))
    /\ WF_vars(FinalReport \/ Bailout)

Spec == Init /\ [][Next]_vars /\ Fairness

----------------------------------------------------------------------------
(* Properties. *)

StatType == [n : Nat, sum : Nat]

HistogramType ==
    [enabled : BOOLEAN, bench : Benches, merge_evo : Nat,
     checkpoint_ns : Times, begin_ns : Times, end_ns : Times, acc : StatType,
     last : StatType, min : 0 .. Unset, max : Times,
     buckets : [Buckets -> Nat]]

BenchType ==
    [acc : [n : Int, sum : Int], min : 0 .. Unset, max : Times,
     whole_min : 0 .. Unset, whole_max : Times, begin_ns : Times,
     end_ns : Times, buckets : [Buckets -> Nat]]

(* Every variable has its type; the counters of doers may not go negative *)
(* (they are signed in the code, and compared).                           *)
TypeOK ==
    /\ clock \in 1 .. MaxClock
    /\ mutex \in Doers \cup {Nobody}
    /\ doers_active \in Nat
    /\ doers_merged \in Nat
    /\ merge_evo \in Nat
    /\ checkpoint_ns \in Times
    /\ per_bench \in [Benches -> BenchType]
    /\ hg \in [Doers -> HistogramType]
    /\ pc \in [Doers -> Labels]
    /\ stamp \in [Doers -> Times]
    /\ back \in [Doers -> {"bench", "ready"}]
    /\ ops \in [Doers -> 0 .. MaxOps]
    /\ todo \in [Doers -> 0 .. MaxRuns]
    /\ failed \in BOOLEAN
    /\ outcome \in {"running", "reported", "bailout", "fatal"}

(* ia_histogram_checkpoint never reaches its ia_fatal and never fails its *)
(* assert: the doers counted and the doers merged agree at every read,    *)
(* whoever is being destroyed meanwhile without the mutex.                *)
NoFatal == outcome # "fatal"

(* The doers that doers_active counts. *)
Active == {d \in Doers : pc[d] \notin {"new", "gone"}}

(* The doers that doers_merged counts: those one ahead in merge_evo, and  *)
(* the one that is about to print the row.                                *)
Contributed ==
    {d \in Active : \/ hg[d].merge_evo = merge_evo + 1
                    \/ pc[d] \in {"check", "publish"}}

(* doers_merged is exactly the number of doers that contributed to the    *)
(* row being collected and are still counted, at every moment.            *)
MergedIsContributed == doers_merged = Cardinality(Contributed)

(* A row of the timeline is printed only when every doer still counted    *)
(* has contributed to it: the counters meet for no other reason.          *)
RowsComplete ==
    [][merge_evo' # merge_evo => Active \subseteq Contributed]_vars

----------------------------------------------------------------------------
(* The inductive invariant behind NoFatal and RowsComplete. *)

Holding == {"merge", "check", "publish"}
Running == {"bench", "op", "trylock", "lock"} \cup Holding

(* Local facts: stamps are not in the future, and who is enabled. *)
LocalInv ==
    \A d \in Doers :
        /\ stamp[d] <= clock
        /\ pc[d] = "op" => ops[d] < MaxOps
        /\ pc[d] \in Running => hg[d].enabled
        /\ pc[d] = "unused" => failed

(* Mutual exclusion. *)
MutexInv == \A d \in Doers : pc[d] \in Holding <=> mutex = d

(* The barrier: nobody has started while somebody is new. *)
BarrierInv ==
    \A d, e \in Doers : pc[d] = "new" => pc[e] \in {"new", "ready"}

(* A counted doer is in step or one ahead; one that has not run, or is    *)
(* leaving without the mutex, or is printing the row, is in step.         *)
EvoInv ==
    \A d \in Active :
        /\ hg[d].merge_evo \in {merge_evo, merge_evo + 1}
        /\ \/ pc[d] \in {"check", "publish", "leave", "unused"}
           \/ pc[d] = "ready" /\ ~hg[d].enabled
           => hg[d].merge_evo = merge_evo

(* Whoever got past the first test of doers_active may rely on it: all    *)
(* that are still counted have contributed, and so need the mutex to go.  *)
RowInv ==
    \A d \in Doers :
        pc[d] \in {"check", "publish"} => Active \subseteq Contributed

CountInv ==
    /\ doers_active = Cardinality(Active)
    /\ MergedIsContributed

IInv ==
    /\ TypeOK /\ NoFatal /\ LocalInv /\ MutexInv /\ BarrierInv /\ EvoInv
    /\ RowInv /\ CountInv

----------------------------------------------------------------------------
(* The process ends: no doer waits for the mutex for ever, and the row    *)
(* protocol never keeps one from leaving.                                 *)
Termination == <>(outcome # "running")
=============================================================================
