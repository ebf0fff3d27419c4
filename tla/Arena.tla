------------------------------- MODULE Arena -------------------------------
(***************************************************************************)
(* The threads of a benchmark: ia_run and ia_spread of ia.c, the doer's    *)
(* thread, ia_doer_fulfil of ia_benchmark.c, the two barriers, and the way *)
(* out of the process.                                                     *)
(*                                                                         *)
(* Participant 0 is the main thread, 1, 2, ... the doers it spawns.  The   *)
(* main thread is a doer too when some benchmarks are left for it ("here"  *)
(* in ia_run).  What happens inside a benchmark is one step that succeeds  *)
(* or fails.  Of the histograms only doers_active is left: no row of the   *)
(* timeline falls due, so doers_merged stays 0 (Histogram.tla has the      *)
(* rest).                                                                  *)
(***************************************************************************)
EXTENDS Integers, FiniteSets, Sequences

CONSTANTS
    Benches,        \* benchmarks a configuration may ask for
    MinThreads,     \* smallest -r and -w: 0, or below (atoi takes anything)
    MaxReaders,     \* bound on -r
    MaxWriters      \* bound on -w

ASSUME ArenaAssumption ==
    MinThreads \in Int /\ MaxReaders \in Nat /\ MaxWriters \in Nat

Order == <<"set", "batch", "crud", "delete", "iterate", "get">>
ReadOnly == {"iterate", "get"}
TwoKeySpaces == {"batch", "crud"}             \* bench_mask_2keyspace
Writing == {"set", "batch", "crud", "delete"} \* bench_mask_write

NRepeat == 1              \* conf.nrepeat has no option
Participants == 0 .. MaxReaders + MaxWriters
Barriers == {"start", "finish"}

VARIABLES
    conf,           \* benches, rthr, wthr, continuous_completing
    set_rd, set_wr, \* what is left for the main thread
    nth, key_space, \* of ia_spread
    pc, mask, space, rc, left, passes,    \* of the participants
    ctx,            \* who has a context of the driver
    enabled,        \* whose histogram has been reset (enabled == 42)
    counted,        \* whom doers_active counts
    doers_count, doers_done, failed,
    canary, waiting,                      \* of the barriers
    driver,         \* "open" or "closed"
    reported,       \* ia_histogram_checkpoint(0) and the report are done
    outcome         \* "running", or how the process ended

config == <<conf, set_rd, set_wr, nth, key_space>>
barriers == <<canary, waiting>>
ending == <<driver, reported, outcome>>
vars == <<config, pc, mask, space, rc, left, passes, ctx, enabled, counted,
          doers_count, doers_done, failed, barriers, ending>>

Init ==
    /\ conf \in [benches : SUBSET Benches,
                 rthr : MinThreads .. MaxReaders,
                 wthr : MinThreads .. MaxWriters,
                 continuous_completing : BOOLEAN]
    /\ set_rd = {} /\ set_wr = {}
    /\ nth = 0 /\ key_space = 0
    /\ pc = [p \in Participants |-> IF p = 0 THEN "run" ELSE "none"]
    /\ mask = [p \in Participants |-> {}]
    /\ space = [p \in Participants |-> 0]
    /\ rc = [p \in Participants |-> 0]
    /\ left = [p \in Participants |-> {}]
    /\ passes = [p \in Participants |-> 0]
    /\ ctx = {} /\ enabled = {} /\ counted = {}
    /\ doers_count = 0 /\ doers_done = 0 /\ failed = FALSE
    /\ canary = [b \in Barriers |-> 0]
    /\ waiting = [b \in Barriers |-> {}]
    /\ driver = "open"
    /\ reported = FALSE
    /\ outcome = "running"

Goto(p, label) == pc' = [pc EXCEPT ![p] = label]

(* exit(EXIT_FAILURE), wherever the other threads are. *)
Exit == outcome' = "exit_failure"

----------------------------------------------------------------------------
(* The main thread prepares. *)

(* ia_run up to the barriers.  A read or write set that is empty needs no *)
(* threads.  The key generator may refuse the sizes; a barrier for zero   *)
(* threads, or for 2^32 - n of them, is refused too; ia_run then returns, *)
(* and main frees everything.                                             *)
RunSetup ==
    LET rd == conf.benches \cap ReadOnly
        wr == conf.benches \ ReadOnly
        rthr == IF rd = {} THEN 0 ELSE conf.rthr
        wthr == IF wr = {} THEN 0 ELSE conf.wthr
    IN /\ pc[0] = "run"
       /\ set_rd' = rd /\ set_wr' = wr
       /\ conf' = IF conf.benches = {} THEN conf
                  ELSE [conf EXCEPT !.rthr = rthr, !.wthr = wthr]
       /\ \/ conf.benches # {} /\ rthr + wthr + 1 > 0 /\ Goto(0, "spread_rd")
          \/ Goto(0, "free")
       /\ UNCHANGED <<nth, key_space, mask, space, rc, left, passes, ctx,
                      enabled, counted, doers_count, doers_done, failed,
                      barriers, ending>>

(* ia_doer_init for participant p. *)
DoerInit(p, m, k) ==
    /\ mask' = [mask EXCEPT ![p] = m]
    /\ space' = [space EXCEPT ![p] = k]
    /\ counted' = counted \cup {p}
    /\ doers_count' = doers_count + 1

(* Mutant: readers use up key spaces too. *)
NextKeySpaceForAll(m) ==
    IF m \cap TwoKeySpaces = {} THEN key_space + 1 ELSE key_space + 2

(* Mutant: one key space is enough for everybody. *)
NextKeySpaceSingle(m) ==
    IF m \cap Writing = {} THEN key_space ELSE key_space + 1

(* The key space of the next doer with mask m. *)
NextKeySpace(m) ==
    IF m \cap Writing = {} THEN key_space
    ELSE IF m \cap TwoKeySpaces = {} THEN key_space + 1 ELSE key_space + 2

(* One round of the loop of ia_spread, over "set" (conf.separate has no   *)
(* option: the mask is the whole set).  Running out of memory or threads  *)
(* ends the process.                                                      *)
SpreadOne(m) ==
    /\ nth' = nth + 1
    /\ key_space' = NextKeySpace(m)
    /\ DoerInit(nth + 1, m, NextKeySpace(m))
    /\ pc' = [pc EXCEPT ![nth + 1] = "start"]

(* After the threads of a set it is nobody else's to do. *)
SpreadReaders ==
    /\ pc[0] = "spread_rd"
    /\ IF nth < conf.rthr
       THEN SpreadOne(conf.benches \cap ReadOnly) /\ set_rd' = {}
       ELSE /\ Goto(0, "spread_wr")
            /\ UNCHANGED <<nth, key_space, mask, space, counted, doers_count,
                           set_rd>>
    /\ UNCHANGED <<conf, set_wr, rc, left, passes, ctx, enabled, doers_done,
                   failed, barriers, ending>>

Spawned(n) == IF n > 0 THEN n ELSE 0

SpreadWriters ==
    /\ pc[0] = "spread_wr"
    /\ IF nth < Spawned(conf.rthr) + conf.wthr
       THEN SpreadOne(conf.benches \ ReadOnly) /\ set_wr' = {}
       ELSE /\ Goto(0, "here")
            /\ UNCHANGED <<nth, key_space, mask, space, counted, doers_count,
                           set_wr>>
    /\ UNCHANGED <<conf, set_rd, rc, left, passes, ctx, enabled, doers_done,
                   failed, barriers, ending>>

(* What is left is done here, in key space 0. *)
Here ==
    /\ pc[0] = "here"
    /\ IF set_rd \cup set_wr # {}
       THEN DoerInit(0, set_rd \cup set_wr, 0)
       ELSE UNCHANGED <<mask, space, counted, doers_count>>
    /\ Goto(0, "start")
    /\ UNCHANGED <<config, rc, left, passes, ctx, enabled, doers_done, failed,
                   barriers, ending>>

(* ia_spread, ia_doer_init or ia_get_rusage fails: goto bailout. *)
SetupBailout ==
    /\ pc[0] \in {"spread_rd", "spread_wr", "here", "closing"}
    /\ Exit
    /\ UNCHANGED <<config, pc, mask, space, rc, left, passes, ctx, enabled,
                   counted, doers_count, doers_done, failed, barriers, driver,
                   reported>>

----------------------------------------------------------------------------
(* The barriers: the last participant to arrive lets everybody go. *)

Threshold == conf.rthr + conf.wthr + 1

(* Where participant p goes from barrier b. *)
Beyond(b, p) ==
    IF b = "start" THEN IF mask[p] = {} THEN "finish" ELSE "fulfil"
    ELSE IF p = 0 THEN "closing" ELSE "end"

BarrierWait(p, b) ==
    /\ pc[p] = b
    /\ IF canary[b] + 1 = Threshold
       THEN /\ canary' = [canary EXCEPT ![b] = 0]
            /\ waiting' = [waiting EXCEPT ![b] = {}]
            /\ pc' = [q \in Participants |->
                        IF q \in waiting[b] \cup {p} THEN Beyond(b, q)
                        ELSE pc[q]]
       ELSE /\ canary' = [canary EXCEPT ![b] = @ + 1]
            /\ waiting' = [waiting EXCEPT ![b] = @ \cup {p}]
            /\ Goto(p, "blocked")
    /\ UNCHANGED <<config, mask, space, rc, left, passes, ctx, enabled,
                   counted, doers_count, doers_done, failed, ending>>

----------------------------------------------------------------------------
(* A doer: ia_doer_fulfil, and around it ia_doer_thread. *)

(* thread_new, then the options.  An option that is refused leaves the    *)
(* context behind.                                                        *)
ThreadNew(p) ==
    /\ pc[p] = "fulfil"
    /\ \/ ctx' = ctx \cup {p} /\ Goto(p, "loop") /\ UNCHANGED rc
       \/ /\ ctx' = ctx \/ ctx' = ctx \cup {p}
          /\ rc' = [rc EXCEPT ![p] = -1]
          /\ Goto(p, "fulfilled")
    /\ UNCHANGED <<config, mask, space, left, passes, enabled, counted,
                   doers_count, doers_done, failed, barriers, ending>>

(* The condition of the loop.  (It reads doers_done, then doers_count; as *)
(* one only grows and the other only shrinks by now, both reads together  *)
(* give what one of the two moments would give.)                          *)
Loop(p) ==
    /\ pc[p] = "loop"
    /\ IF \/ passes[p] < NRepeat
          \/ conf.continuous_completing /\ doers_done < doers_count
       THEN left' = [left EXCEPT ![p] = mask[p]] /\ Goto(p, "pass")
       ELSE Goto(p, "dispose") /\ UNCHANGED left
    /\ UNCHANGED <<config, mask, space, rc, passes, ctx, enabled, counted,
                   doers_count, doers_done, failed, barriers, ending>>

(* The benchmark of S that comes first in the enum. *)
FirstOf(S) == Order[CHOOSE i \in 1 .. Len(Order) :
                       /\ Order[i] \in S
                       /\ \A j \in 1 .. i - 1 : Order[j] \notin S]

(* ia_run_benchmark, which enables the histogram.  A failure ends the     *)
(* pass.                                                                  *)
RunBenchmark(p) ==
    /\ pc[p] = "pass"
    /\ left[p] # {}
    /\ enabled' = enabled \cup {p}
    /\ \/ left' = [left EXCEPT ![p] = @ \ {FirstOf(@)}] /\ UNCHANGED rc
       \/ left' = [left EXCEPT ![p] = {}] /\ rc' = [rc EXCEPT ![p] = 1]
    /\ UNCHANGED <<config, pc, mask, space, passes, ctx, counted, doers_count,
                   doers_done, failed, barriers, ending>>

(* Mutant: every pass counts, not just the nrepeat-th. *)
PassEndEvery(p) ==
    /\ pc[p] = "pass"
    /\ left[p] = {}
    /\ passes' = [passes EXCEPT ![p] = IF @ < NRepeat THEN @ + 1 ELSE @]
    /\ doers_done' = doers_done + 1
    /\ Goto(p, "passed")
    /\ UNCHANGED <<config, mask, space, rc, left, ctx, enabled, counted,
                   doers_count, failed, barriers, ending>>

(* Mutant: a pass that failed does not count. *)
PassEndSuccess(p) ==
    /\ pc[p] = "pass"
    /\ left[p] = {}
    /\ passes' = [passes EXCEPT ![p] = IF @ < NRepeat THEN @ + 1 ELSE @]
    /\ doers_done' = IF passes[p] + 1 = NRepeat /\ rc[p] = 0
                     THEN doers_done + 1 ELSE doers_done
    /\ Goto(p, "passed")
    /\ UNCHANGED <<config, mask, space, rc, left, ctx, enabled, counted,
                   doers_count, failed, barriers, ending>>

(* ++count == nrepeat; passes beyond nrepeat are not told apart. *)
PassEnd(p) ==
    /\ pc[p] = "pass"
    /\ left[p] = {}
    /\ IF passes[p] < NRepeat
       THEN /\ passes' = [passes EXCEPT ![p] = @ + 1]
            /\ doers_done' = IF passes[p] + 1 = NRepeat THEN doers_done + 1
                             ELSE doers_done
       ELSE UNCHANGED <<passes, doers_done>>
    /\ Goto(p, "passed")
    /\ UNCHANGED <<config, mask, space, rc, left, ctx, enabled, counted,
                   doers_count, failed, barriers, ending>>

(* if (rc || ioarena.failed) break *)
CheckFailed(p) ==
    /\ pc[p] = "passed"
    /\ Goto(p, IF rc[p] # 0 \/ failed THEN "dispose" ELSE "loop")
    /\ UNCHANGED <<config, mask, space, rc, left, passes, ctx, enabled,
                   counted, doers_count, doers_done, failed, barriers, ending>>

(* Mutant: the context is not disposed of. *)
DisposeNot(p) ==
    /\ pc[p] = "dispose"
    /\ Goto(p, "fulfilled")
    /\ UNCHANGED <<config, mask, space, rc, left, passes, ctx, enabled,
                   counted, doers_count, doers_done, failed, barriers, ending>>

(* thread_dispose. *)
Dispose(p) ==
    /\ pc[p] = "dispose"
    /\ ctx' = ctx \ {p}
    /\ Goto(p, "fulfilled")
    /\ UNCHANGED <<config, mask, space, rc, left, passes, enabled, counted,
                   doers_count, doers_done, failed, barriers, ending>>

(* Mutant: only the errors of benchmarks (above zero) are told. *)
FulfilledPositive(p) ==
    /\ pc[p] = "fulfilled"
    /\ IF p = 0 THEN Goto(p, "finish") /\ UNCHANGED failed
                ELSE /\ Goto(p, "destroy")
                     /\ failed' = (failed \/ rc[p] > 0)
    /\ UNCHANGED <<config, mask, space, rc, left, passes, ctx, enabled,
                   counted, doers_count, doers_done, barriers, ending>>

(* Mutant: only the errors of the driver's thread_new are told. *)
FulfilledNegative(p) ==
    /\ pc[p] = "fulfilled"
    /\ IF p = 0 THEN Goto(p, "finish") /\ UNCHANGED failed
                ELSE /\ Goto(p, "destroy")
                     /\ failed' = (failed \/ rc[p] < 0)
    /\ UNCHANGED <<config, mask, space, rc, left, passes, ctx, enabled,
                   counted, doers_count, doers_done, barriers, ending>>

(* Back from ia_doer_fulfil: a thread tells that it failed and destroys   *)
(* its doer, the main thread goes to the barrier first.                   *)
Fulfilled(p) ==
    /\ pc[p] = "fulfilled"
    /\ IF p = 0 THEN Goto(p, "finish") /\ UNCHANGED failed
                ELSE /\ Goto(p, "destroy")
                     /\ failed' = (failed \/ rc[p] # 0)
    /\ UNCHANGED <<config, mask, space, rc, left, passes, ctx, enabled,
                   counted, doers_count, doers_done, barriers, ending>>

(* ia_doer_destroy: doers_count, ... *)
DoerDestroy(p) ==
    /\ pc[p] = "destroy"
    /\ doers_count' = doers_count - 1
    /\ Goto(p, "uncount")
    /\ UNCHANGED <<config, mask, space, rc, left, passes, ctx, enabled,
                   counted, doers_done, failed, barriers, ending>>

(* ... then doers_active, if the histogram was ever enabled. *)
HistogramDestroy(p) ==
    /\ pc[p] = "uncount"
    /\ counted' = IF p \in enabled THEN counted \ {p} ELSE counted
    /\ enabled' = enabled \ {p}
    /\ Goto(p, IF p = 0 THEN "report" ELSE "finish")
    /\ UNCHANGED <<config, mask, space, rc, left, passes, ctx, doers_count,
                   doers_done, failed, barriers, ending>>

----------------------------------------------------------------------------
(* The main thread behind the second barrier. *)

(* "here" is destroyed only if it succeeded. *)
Closing ==
    /\ pc[0] = "closing"
    /\ IF rc[0] # 0
       THEN Exit /\ UNCHANGED pc
       ELSE /\ Goto(0, IF mask[0] = {} THEN "report" ELSE "destroy")
            /\ UNCHANGED outcome
    /\ UNCHANGED <<config, mask, space, rc, left, passes, ctx, enabled,
                   counted, doers_count, doers_done, failed, barriers, driver,
                   reported>>

(* ia_histogram_checkpoint(0), with doers_merged = 0, and the report. *)
Report ==
    /\ pc[0] = "report"
    /\ IF failed THEN Exit /\ UNCHANGED <<pc, reported>>
       ELSE IF Cardinality(counted) # 0
       THEN outcome' = "fatal" /\ UNCHANGED <<pc, reported>>
       ELSE reported' = TRUE /\ Goto(0, "free") /\ UNCHANGED outcome
    /\ UNCHANGED <<config, mask, space, rc, left, passes, ctx, enabled,
                   counted, doers_count, doers_done, failed, barriers, driver>>

(* ia_free closes the driver, and main returns. *)
Free ==
    /\ pc[0] = "free"
    /\ driver' = "closed"
    /\ outcome' = "exit"
    /\ UNCHANGED <<config, pc, mask, space, rc, left, passes, ctx, enabled,
                   counted, doers_count, doers_done, failed, barriers,
                   reported>>

MainStep ==
    \/ RunSetup \/ SpreadReaders \/ SpreadWriters \/ Here \/ SetupBailout
    \/ Closing \/ Report \/ Free

DoerStep(p) ==
    \/ \E b \in Barriers : BarrierWait(p, b)
    \/ ThreadNew(p) \/ Loop(p) \/ RunBenchmark(p) \/ PassEnd(p)
    \/ CheckFailed(p) \/ Dispose(p) \/ Fulfilled(p) \/ DoerDestroy(p)
    \/ HistogramDestroy(p)

Exited == outcome # "running" /\ UNCHANGED vars

Next ==
    \/ outcome = "running" /\ MainStep
    \/ \E p \in Participants : outcome = "running" /\ DoerStep(p)
    \/ Exited

(* Every thread is scheduled again and again. *)
Fairness ==
    /\ WF_vars(outcome = "running" /\ MainStep)
    /\ \A p \in Participants : WF_vars(outcome = "running" /\ DoerStep(p))

Spec == Init /\ [][Next]_vars /\ Fairness

----------------------------------------------------------------------------
(* Properties. *)

Labels ==
    {"none", "run", "spread_rd", "spread_wr", "here", "start", "blocked",
     "fulfil", "loop", "pass", "passed", "dispose", "fulfilled", "destroy",
     "uncount", "finish", "closing", "report", "free", "end"}

TypeOK ==
    /\ conf \in [benches : SUBSET Benches, rthr : Int, wthr : Int,
                 continuous_completing : BOOLEAN]
    /\ set_rd \subseteq Benches /\ set_wr \subseteq Benches
    /\ nth \in Participants /\ key_space \in 0 .. 2 * MaxWriters
    /\ pc \in [Participants -> Labels]
    /\ mask \in [Participants -> SUBSET Benches]
    /\ space \in [Participants -> Nat]
    /\ rc \in [Participants -> {-1, 0, 1}]
    /\ left \in [Participants -> SUBSET Benches]
    /\ passes \in [Participants -> 0 .. NRepeat]
    /\ ctx \subseteq Participants /\ enabled \subseteq Participants
    /\ counted \subseteq Participants
    /\ doers_count \in 0 .. Cardinality(Participants)
    /\ doers_done \in 0 .. Cardinality(Participants)
    /\ failed \in BOOLEAN /\ reported \in BOOLEAN
    /\ canary \in [Barriers -> Nat]
    /\ waiting \in [Barriers -> SUBSET Participants]
    /\ driver \in {"open", "closed"}
    /\ outcome \in {"running", "exit", "exit_failure", "fatal"}

(* The final ia_histogram_checkpoint(0) finds doers_active at zero: the   *)
(* main thread is let through the second barrier only when every doer has *)
(* destroyed its histogram, and no doer that did not run gets that far.   *)
NoFatal == outcome # "fatal"

(* The driver is closed only when no doer has a context any more, so that *)
(* no driver function runs on a closed database.                          *)
ClosedWithoutContexts == driver = "closed" => ctx = {}

Doing == {p \in Participants : mask[p] # {}}

(* What is reported is complete: every benchmark asked for has been run   *)
(* to its end, by everybody it was spread to.                             *)
ReportComplete ==
    reported =>
        /\ UNION {mask[p] : p \in Doing} = conf.benches
        /\ \A p \in Doing : passes[p] >= NRepeat /\ rc[p] = 0

(* The key spaces a doer writes to. *)
WriteSpaces(p) ==
    IF mask[p] \cap Writing = {} THEN {}
    ELSE IF mask[p] \cap TwoKeySpaces = {} THEN {space[p]}
    ELSE {space[p], space[p] + 1}

(* No two doers write to the same key space (a set of one would otherwise *)
(* be undone by the delete of the other, and inserts would collide).      *)
WritersApart ==
    \A p, q \in Participants :
        p # q => WriteSpaces(p) \cap WriteSpaces(q) = {}

(* With -c nobody stops before everybody has completed a pass, unless     *)
(* somebody failed: the doers_done of the loop of ia_doer_fulfil is not   *)
(* outrun by the doers_count that leaving doers decrement.                *)
CompletesTogether ==
    [][\A p \in Participants :
         (conf.continuous_completing /\ pc[p] = "loop" /\ pc'[p] = "dispose")
         => \/ \A q \in Doing : passes[q] >= NRepeat
            \/ \E q \in Doing : rc[q] # 0]_vars

(* The process ends, whatever fails and wherever: nobody is left waiting  *)
(* at a barrier.  The one exception is thread_new or an option failing in *)
(* the main thread with -c: it tells nobody (failed is set by threads     *)
(* only), keeps its place in doers_count, and the others never stop.      *)
Terminates ==
    \/ <>(outcome # "running")
    \/ <>(conf.continuous_completing /\ rc[0] = -1)
=============================================================================
