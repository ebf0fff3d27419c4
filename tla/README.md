# ioarena: a TLA+ development

`ioarena` is a benchmarking tool for embedded key-value stores. One process
opens one database through a *driver*, starts reader and writer threads (the
*doers*), lets each of them run a list of benchmarks, collects latencies in a
shared histogram and prints a timeline and a final report. This directory
models that program, checks the models with TLC on small instances and proves
all safety results but one (`KeysDistinct`) with TLAPS for instances of any
size.

All source paths below are relative to the repository root; line numbers of
every definition are in `PROJECT.json` under `map`.

## 1. The system

| Part | Source | State | Operations |
|---|---|---|---|
| histogram | `src/ia_histogram.c` | per doer: `IA_HISTOGRAM` (buckets, sums, `merge_evo`, `whole_min/max`, checkpoints); global: the list of merged histograms, `doers_active`, `doers_merged`, `merge_evo`, time of the last row, one mutex | init, enable, add, merge, destroy, checkpoint, report |
| run and doers | `src/ia.c`, `src/ia_benchmark.c`, `src/ia_main.c` | `ioarena` (configuration, two barriers, `doers_count`, `doers_done`, `failed`), one `iadoer` per thread | `ia_run`, `ia_spread`, `ia_doer_thread`, `ia_doer_fulfil` |
| benchmark runner | `src/ia_benchmark.c` | loop counters, return code | `ia_run_benchmark`, `ia_quadruple`: calls `begin`, `next`, `done` of the driver |
| key generator | `src/ia_kv.c` | width, period, permutation table; per generator base and serial; pools of prepared pairs | `ia_kvgen_setup`, `_init`, `_rewind`, `ia_kvpool_*`, `ia_kvgen_get`, mixing of serials to points |
| start and configuration | `src/ia_main.c`, `src/ia.c`, `src/ia_config.c` | `iaconfig`: strings, masks, counts | options, `ia_init`, `ia_free` |
| drivers | `src/drivers/*.c` | private: environment and handle, shared by all threads; per doer: `iacontext` (transaction, cursor, batch, iterator) | `open`, `close`, `option`, `thread_new`, `thread_dispose`, `begin`, `next`, `done` |
| time, log, rusage | `src/ia_time.c`, `src/ia_log.c`, `src/ia_rusage.c` | none of interest | input and output |
| databases | git submodules | external | - |

**How they interact.** `main` fills the configuration and opens the driver;
`ia_run` sets up the keys and decides which benchmarks run in the main thread
and which in threads of their own. A doer initialises its histograms, creates
a driver context, meets the others at the first barrier, and loops over its
benchmarks in `ia_doer_fulfil`. For every operation the runner takes keys from
the generator, calls the driver, and adds the latency to its own histogram,
which merges itself into the shared one from time to time. When a doer has
finished it destroys its histograms, meets the others at the second barrier,
and the main thread prints the report.

**What is hard.**

* The histogram shares two counters between threads, and some reads and one
  decrement of them are done *without* the mutex, with an `ia_fatal` and an
  `assert` demanding that they agree.
* Time stamps are taken before the mutex is waited for, and are then stale.
* Two ways of merging (trylock during a benchmark, which may fail, and lock at
  its end) must together merge everything once.
* With `-c` doers repeat their work until all have done it once, whilst others
  fail and leave.
* The runner calls `done` after some failures and not after others, and
  overwrites some return codes; each driver keeps handles across calls and
  renews them.
* Four drivers give all doers one handle with one transaction, which they begin,
  write in, commit and roll back for one another.
* `open` of a driver may fail at every step, and `close` follows all the same.
* The generator divides one numbering of keys among doers with integer
  divisions that round, and cuts points to a width.
* The threads are stopped from outside by nobody: every wait must end by
  itself.

The full list, with lines, is `hazards` in `PROJECT.json`. Nothing in the
program is restarted from persistent state, so there is no crash recovery to
model: a database is created anew or only measured.

**What makes each part correct.**

* histogram: the assertions cannot fail; every operation measured is counted
  once, in its bucket; a row covers every doer; nobody waits for ever.
* run: the report is printed only if everything was done, the driver is closed
  after the last context, writers use separate keys, and the process ends.
* runner and drivers: an operation is applied entirely or not at all, what was
  acknowledged is there, a failure is reported, and no handle is misused, kept
  or lost, with the exceptions that the properties name (section 5).
* keys: every doer goes over every key of its share exactly once in a run, and
  two different written keys never coincide.
* start: what runs is what the command line asked for, and everything is given
  back exactly once however the start ends.

## 2. Modules

| Module | Models | Checked by |
|---|---|---|
| `Histogram` | `ia_histogram.c` as used by the doers | `MCHistogram.cfg` |
| `SharedHistogram` | what the histogram promises: one shared histogram, every addition atomic | |
| `HistogramRefinement` | the mapping from the one to the other | `MCHistogram.cfg` |
| `BucketSearch` | the binary search of `ia_histogram_add` | `BucketSearch.cfg` |
| `Arena` | `ia_run`, `ia_spread`, doers, barriers, end of the process | `Arena.cfg` |
| `ArenaEmulated` | the same with the barrier of `ia_main.c` | `ArenaSpurious.cfg` |
| `KeyGen` | key spaces, generators, pools, loops that use them | `KeyGen.cfg` |
| `KeyShuffle` | filling, shuffling and stirring the table of the mixing function | `KeyMix.cfg` |
| `KeyMix` | the same with exclusive or bit by bit, the mixing function, the text of a key | `KeyMix.cfg` |
| `DriverCalls` | names and results at the interface of a driver | |
| `Runner` | `ia_doer_fulfil`, `ia_run_benchmark`, `ia_quadruple`, every call of a driver as one step | |
| `Lmdb`, `Mdbx` | the drivers `ia_lmdb.c`, `ia_mdbx.c` | |
| `Cursors` | cursors and iterators as the libraries offer them, over a snapshot or over what is there | |
| `Contexts` | what drivers share whose contexts have a transaction or a batch of their own | |
| `WriteBatch` | the drivers `ia_rocksdb.c`, `ia_leveldb.c` | |
| `Sophia`, `WiredTiger`, `ForestDb`, `Upscaledb` | the drivers of these names | |
| `SharedHandle` | what drivers share that have one handle, and one transaction, for all doers | |
| `Sqlite3`, `Iowow` | the drivers `ia_sqlite3.c`, `ia_iowow.c` | |
| `Vedis` | the driver `ia_vedisdb.c`, and `ia_unqlite.c` where it differs | |
| `KeyStore` | what a driver promises: a set of keys changed by atomic operations | |
| `TxnBench` | composition of `Runner` with `Lmdb` or `Mdbx` | `MCTxnBench.cfg` |
| `ContextBench` | composition of `Runner` with the drivers over `Contexts` | `MCContextBench.cfg` |
| `HandleBench` | composition of `Runner` with the drivers over `SharedHandle` | `MCHandleBench.cfg`, `MCHandleVedis.cfg` |
| `Startup` | `main`, `ia_init`, `ia_free`, `ia_config.c`, options and `open` of drivers | `MCStartup*.cfg` |
| `HistogramProofs` | theorems about `Histogram`, `HistogramRefinement` and `BucketSearch` | |
| `KeyGenProofs` | theorems about `KeyGen` and `KeyShuffle` | |
| `ArenaProofs`, `TxnBenchProofs`, `ContextBenchProofs`, `HandleBenchProofs`, `StartupProofs` | theorems about the modules of these names | |
| `RunnerProofs` | the invariant of `Runner` and lemmas on its moves and keys, for the proofs of its compositions | |

`MC*` modules hold the constant values of the runs. A definition with the
comment "Mutant: ..." is a wrong form of a definition that follows it, as a
plausible bug would make it; no specification uses it, and `mutants` in
`PROJECT.json` says which property each one breaks.

### Correspondence with the code

**Histogram.** One action per stretch of code between two points where another
thread can be observed: the beginning and the end of an operation, trylock,
the wait for the mutex, the merging under it, the two parts of
`ia_histogram_checkpoint`, and in `ia_histogram_destroy` the read of
`merge_evo` without the mutex and what follows it with or without the mutex. The critical section is *not* one step, because
`ia_histogram_destroy` decrements `doers_active` without the mutex: a
checkpoint therefore compares, tests for `ia_fatal` and asserts in separate
steps. The clock is a variable that time advances; intervals are wrapped
unsigned differences (`ClockModulus`), so that a stale stamp gives the huge
number it gives in C. Counts, sums, minima, maxima, buckets and the first and
last time of a benchmark are kept, since each is merged by a rule of its own;
the mapping from latencies to buckets is a constant, which `BucketSearch`
accounts for, and quantiles and rates, which are computed while printing, are
left out.

**BucketSearch.** The loop of lines 335-350, one step per round, for every
strictly increasing table of bounds. `begin/2 + end/2` is kept as written: it
rounds down twice.

**Arena.** A benchmark is one step that succeeds or fails; everything around
it (both barriers, `failed`, `doers_done`, `doers_count`, the histogram's
counters as far as the final checkpoint depends on them, contexts of the
driver) is kept. `ArenaEmulated` adds spurious wakeups, which the replacement of
`pthread_barrier_t` in `ia_main.c` does not guard against. The smallest
thread count is a constant (`MinThreads`), since counts come unchecked from
`atoi`; the runs start at 0.

**KeyGen.** Serials, bases and points are numbers; widths of 3 to 6 bits stand
for the widths 16, 24, ... 64 among which `ia_kvgen_setup` chooses. Pools
advance their generators for a whole batch even if only a part is used.
**KeyShuffle** has one step per round of the three loops of `kv_sbox_init`;
exclusive or is a parameter, with the laws that the loops rely on as assumption.
**KeyMix** gives the parameter its value, for which TLC evaluates the laws, and
keeps the 16-bit mixing function bit by bit, and the part of `kv_fill` that makes the characters of a printable key: six bits each, the bits
left over kept and mixed into a further round. A character is the number that
indexes the alphabet. The permutation table has four entries instead of 2048,
with all shuffles.

**Runner and drivers.** `Runner` says which call comes next and
what the runner does with its result; the driver module says what a call does
and which results are possible, with failing library calls as a
nondeterministic choice limited by `MaxFaults`. The libraries themselves are
external: they are modelled by what the drivers rely on (one write transaction
at a time, snapshots for readers, cursors bound to transactions, batches
written atomically).

In `Contexts` a doer has a transaction of its own: a record of the keys it puts
and deletes, `txn[d]`, which for sophia may also be the database itself, put in
the transaction's place by SET, DELETE and GET; a cursor; and `held`, the other
handles (entry, session, file, store, result, document) whose release the
drivers are responsible for. A document of sophia whose only pointer,
`ctx->entry`, was overwritten stays in `held` as "lost": nothing in the driver
can release it any more. `ForestDb` reads, clears and acts on
`needsCompact` in three steps, since nothing protects it. In `SharedHandle` there is
one transaction: `data` is what the handle shows and `saved` what would be left
if the transaction were undone. A `begin`, a write or a commit of any doer acts
on it. `HandleBench` keeps a history variable, `told`, of what doers were told
is done, and compares it with `saved` after `ia_free`.

**Startup.** A command line is a sequence of options; each is one step, and so
is every part of `ia_init` that can fail. `-D`, `-B` and `-p` free a string and
copy their argument in its place, or leave a null pointer if there is no memory;
`strings` counts, for each of the three, the copies made less those freed. The loop of `ia_mdbx_option` takes one
step per round. `open` of each of the twelve drivers is one action, with the
modes it refuses and with what it leaves behind in `priv` (the private
structure) and `handle` (the database in it: null, open, closed, or "junk" where
a driver takes memory from `malloc` and does not write it) when it fails half
way; dummy and debug are not among the drivers.

## 3. Runs

| Run | Question | Instance |
|---|---|---|
| `histogram` | Do the counters agree at every read, are rows complete, is anything lost, repeated or changed by merging and resetting, and does everybody get through? | 2 doers, 2 runs of 2 operations each, clock to 2 |
| `bucket_search` | Is the bucket right, for every table? | up to 7 bounds, latencies to 8 |
| `arena` | Report, closing, writers' keys, `-c`, end of the process | up to 1 reader and 2 writers, benchmarks set, crud, get, every failure |
| `arena_spurious` | (violation) finding 1 below | up to 1 reader and 1 writer |
| `key_gen` | Does every run cover its keys, and are written keys distinct? | up to 3 readers, 3 writers, 7 keys, batches of 3, 3 runs |
| `key_mix` | Is the table a permutation, and have different points different texts? | all shuffles of 4 entries, all 65536 points, keys of 3 characters |
| `lmdb_mdbx` | Handles, atomicity, hidden failures; does every doer end? | both drivers, 2 doers, four ways in which `ia_run` spreads benchmarks, 3 operations, batches of 2, one failure, up to 2 passes |
| `contexts` | Stray handles, the shared database, acknowledged writes, atomicity | rocksdb (and leveldb), sophia, wiredtiger, forestdb, upscaledb; 2 doers, six ways of spreading, 3 operations, batches of 2, one failure, up to 2 passes |
| `shared_handle` | Is what doers were told in the database at the end, although they share one transaction? | sqlite3, vedisdb, unqlite, iowow; 2 doers, six ways of spreading, otherwise the same, one pass |
| `vedisdb_ignore` | (violation) finding 3 below | vedisdb, one doer deletes and one gets, on an empty database |
| `startup` | What runs is what was asked for; all is given back | every line of up to 3 options and many of 4, 12 drivers, one failure |
| `startup_unknown_option` | (violation) finding 2 below | lines with a name mdbx does not know |

**Why the bounds are enough to be interesting.** Two doers of the
histogram are one in a checkpoint, or waiting for the mutex, and one that leaves
without it; two runs make a doer that has contributed come back. That a third
one changes nothing is what the proofs say, which are for any number. A clock from 1 to 2 with intervals of 1 gives rows that
are due, not due, and due because of a stale stamp (taken at 1, used after a
row was printed at 2). In `arena` two writers are
the least for which key spaces can collide and for which one leaves whilst one
repeats. Seven keys with batches of three leave a last batch that is used in
part, and are divided by 2 and 3 with a remainder. In the driver runs, three
operations with batches of two give a full and a partial batch; one failure
reaches every error path of every call. A second pass makes generators go round
and handles that were kept meet another benchmark: lmdb and mdbx renew them,
and sophia keeps the document of its last GET in the context, where the ITERATE
of the next pass finds it. A second pass is given to readers, which with `-c`
repeat theirs while the main thread still writes. The drivers that share one
handle keep nothing between benchmarks but the transaction, which every
benchmark of every doer meets, so one pass is enough. With `-w 2` both writers
have the same benchmarks, because no option sets `conf.separate`.
With keys of three characters and a width of 16 bits, twelve bits go into the
first two characters and four are left over for the third, so that every bit is
needed.
`BucketSearch` has tables of one to seven bounds, even and odd, and so every
small window the rounding can produce.

`CHECK_DEADLOCK` is on in every run: where a system ends, its specification has
an explicit step for having ended.

**Fairness.** Every specification with a liveness property assumes weak
fairness of each thread's steps and nothing else: the operating system runs
every thread that can run. A mutex or a write transaction is a step that is
disabled whilst somebody else holds it. No strong fairness is needed, because a
doer makes only finitely many attempts and the others run out of work: at
worst it waits for all of them to end. Time, failures and
spurious wakeups get no fairness: they may happen and need not. `Startup` is
one thread, with weak fairness of its step.

## 4. Proofs

`HistogramProofs` proves of `Histogram`, for every finite set of doers, any
buckets, intervals, clock modulus and bounds (the named assumptions in
`Histogram.tla`):

* `TypeCorrect`: `TypeOK`, by which the counters never become negative;
* `CountersAgree`: `NoFatal`, the `ia_fatal` and the `assert` of
  `ia_histogram_checkpoint` are unreachable;
* `MergedCount`: `MergedIsContributed`, `doers_merged` is the number of active
  doers that have contributed to the row being collected;
* `EveryRowComplete`: `RowsComplete`, a row is printed only if every counted
  doer is in it;
* `HistogramImplementsShared`: `RefinesSharedHistogram`, the doers' histograms
  and the global ones together are the one histogram of `SharedHistogram`, and
  the final report is exactly what was measured.

The invariants the program relies on are not inductive, because the two
counters are changed at different times and one of them without the mutex.
The inductive invariant `IInv` (theorem `Invariance`) strengthens them by

* `LocalInv`: time stamps are not in the future, and which histograms are
  enabled at which place;
* `MutexInv`: a doer is inside the critical section exactly if it holds the
  mutex;
* `BarrierInv`: nobody has started while somebody is not yet counted;
* `EvoInv`: a counted doer's `merge_evo` is the global one (it is *in step*) or
  one ahead (it has contributed); a doer about to leave without the mutex, or
  in a checkpoint, is in step;
* `RowInv`: while a doer is in a checkpoint, every counted doer has
  contributed;
* `CountInv`: `doers_active` and `doers_merged` are the cardinalities of the
  sets `Active` and `Contributed`.

The argument is then: `Contributed` is a subset of `Active`, and a doer that
decrements `doers_active` without the mutex is in `Active` but not in
`Contributed`. If a checkpoint has seen the two sizes equal then the sets are
equal, so there is no such doer; every other change needs the mutex, which the
checkpoint holds. So its next two tests agree with the first. `Cardinality`
facts come from `FiniteSetTheorems` and are collected in a few lemmas at the top
of the module; the induction step has one step per action.

The refinement is shown step by step. The mapping (`TotalOf`) combines, for
each benchmark, what its global histogram knows with the *news* of every doer:
what it has measured in a run and not merged. Sums are written as numbers of
pairs (`SumOf`), so that the theorems on finite sets apply to them, and least
and greatest values exist because the natural numbers are well founded
(`LeastNatural`). Then summaries can be joined in any order, and the news of
the doer that moves can be taken out of the total (`SplitOff`):
`ia_histogram_add` adds an operation to them and so to the total
(`HistogramAddMeasures`), `ia_histogram_merge_locked` moves them to the global
histogram (`MergeLockedNews`), `ia_histogram_checkpoint` moves the extremes of
the row to the whole (`CheckpointNews`), and every other step changes no total.
The last holds because of `NewsInv` (in `HistogramRefinement.tla`): only a doer
with news merges, and so never overwrites `begin_ns` of the global histogram by
the 0 of an empty one; one without news has an empty private histogram whose
time span the global one covers, so that it may leave without merging or go on
after it.

Of the binary search (`BucketSearch`, which the module extends as well) it
proves, for tables of every length: it stays in the table (`SearchTypes`), finds
the bucket (`SearchCorrect`, with the invariant that the bucket is never outside
the window), and comes nearer to its end in every round of the search and of the
scan that follows it (`SearchProgress`), so that it ends.

`ArenaProofs` proves of `Arena`, for any number of readers and writers that is
not negative (the hypothesis `MinThreads \in Nat` of every theorem; the
observation on negative counts in section 5 is why it is needed) and for
barriers that do not wake up spuriously (finding 1): `TypeOK`
(`TypeCorrect`), `NoFatal` (`FinalCheckpointFindsNobody`),
`ClosedWithoutContexts` (`ClosedAfterContexts`), `ReportComplete`
(`ReportIsComplete`), `WritersApart` (`WritersKeepApart`) and
`CompletesTogether` (`CompleteTogether`). The inductive invariant says what
`ia_spread` has given away so far (`SpreadInv`, `MaskInv`, with the key spaces
as a closed formula `UsedUp`), that a barrier's canary is the number of those
that wait at it (`BarrierInv`), and, from where the main thread is, in which of
three phases everybody is (`PhaseInv`): before the first barrier, between them,
behind the second. `DoerInv` says what each place of a doer implies for its
result, its context and its histogram, `CountInv` that `doers_count` and
`doers_done` are the sizes of the sets they stand for. The argument: a barrier
lets go when as many have come as take part, which are then all of them, so
behind the second barrier every doer has left the histogram or has told of its
failure.

`KeyGenProofs` proves of `KeyGen`, for any numbers of threads and keys, any
batch length and any widths: `GeneratorsInStep` (`InStep`), `RunCoversSpace`
(`CoversSpace`) and `WrittenKeysDistinct` (`KeysStayDistinct`). In a run the
keys used so far are a *walk*: the remainders of consecutive serials; a walk of
as many steps as the period meets every key once. A pool holds the walk that
continues the one used. Points that
are written lie in an interval no longer than `maxkey`, which the modulus that
setup chose exceeds, so that their remainders differ. That powers
of two are numbers (`2 ^ w \in Nat`) is an assumption of `KeyGen.tla`, since the
prover does not know exponentiation; TLC evaluates it.
Of `KeyShuffle`, which the module extends as well, it proves
`StaysPermutation` (`TablePermutes`), for a table of any size (the program's has
2048 entries, TLC's 4) and any exclusive or with `a ^ (a ^ b) = b` and
`b ^ (a ^ b) = a` that stays in the table. The invariant (`ShuffleInv`) is that
the table without the indexes already stirred in is a permutation; with all of
them, the entries `x ^ sbox[x]` are that permutation again.

`TxnBenchProofs` proves of the doers on lmdb or mdbx, for any number of doers,
operations, benchmarks, batch lengths, passes and failures: `HandlesFit`
(`CallsFit`), `PresentIsFound` (`NoKeyMissed`), `Acknowledged`
(`AcknowledgedShows`), `FailedBeginFails` (`FailedBeginNoticed`), `Released`
(`DisposeReleases`) and the refinement of `KeyStore`, `OperationsAtomic`
(`WholeOperations`). The inductive invariant has a part for each call of the
runner (`BeginOK`, `NextOK`, `DoneOK`, `OutsideOK`): the kind of transaction a
context has before and after the call, and its view, which for a write
transaction is the database plus exactly what this operation or batch has put
and deleted so far (`Earlier`, `Written` of `RunnerProofs`). `WriterInv` says
that whoever has a write transaction is the writer, by which nobody else
commits while the view is in use.

`ContextBenchProofs` proves of the doers on rocksdb, leveldb, sophia,
wiredtiger, forestdb or upscaledb, as generally: `HandlesInOrder`
(`HandlesKept`), `DatabaseLasts` (`DatabaseKept`), `Acknowledged`
(`AcknowledgedShows`), `PresentIsFound` (`NoKeyMissed`) and `OperationsAtomic`
(`WholeOperations`). Here several doers commit at any time, so an operation of a
doer survives only because the others do not write its keys
(`SpacesAssumption` of `Runner.tla`, which is `WritersApart` of `Arena`, proved
there). The five drivers are reduced to a few common outcomes of a call
(`*Out`); each driver has a lemma that its calls have these outcomes, and the
invariant is then shown once for each outcome. What becomes of sophia's
documents needs an invariant of its own (`EntryInv`, theorem `DocumentsKept`),
on the doers that have neither CRUD nor BATCH and do not repeat a GET with
something before it: the context of such a doer has a document only where
nothing that overwrites it can follow, namely in GET, which is the last
benchmark of a pass, in ITERATE, whose `done` destroys it, and after a failure
(`KeepsEntry`); so none of them is lost.

`HandleBenchProofs` proves of the doers that share one handle of sqlite3,
vedisdb, unqlite or iowow, as generally: `ToldIsKept` (`KeepsTold`),
`OverlapNoticed` (`OverlapsNoticed`) and `CursorsReleased`
(`CursorsGivenBack`). None of the three says anything before the doers have
left, so the inductive invariant has to say what leads there. A CRUD or a BATCH
is `Within` from its BEGIN to its COMMIT, or `Doomed` as soon as a code comes
back that will make it fail. `TxnInv`: with sqlite3 a transaction has somebody
in it or somebody is doomed, so that what is left open at the end was left by a
doer that failed; and after a BEGIN that was refused there is one doer too many
in the transaction (`Excess`: two of them, or one and no transaction), which
only the failure of a COMMIT resolves. `KeysInv`: as long as nothing is at
`Risk`, the database differs from `told` exactly by what the operations under
way have put and deleted (`PutsOf`, `DelsOf`); for unqlite and iowow nothing
that was told is ever missing. As for the other drivers, each has a lemma that
its calls have the outcomes `Out`, and the invariant is shown for these.

`StartupProofs` proves of `Startup`, for command lines of any length, any names
of options of the mdbx driver and any number of failures: `RunsWhatWasAsked`
(`StartupRuns`), `OpenedAsAsked` (`StartupOpens`) and `GivenBack`
(`StartupReleases`). `StartupAssumption` says only what getopt and the
arguments' types guarantee: a command line is a sequence of options, the
argument of `-o` a list of at least one item (the text after a last comma
included), that of `-B` a list of names, that of `-k` a number; and no option of
the driver has an empty name. The properties speak of the whole command line and
of the end; the inductive invariant (`StartupInv`, theorem `StartupInvariance`)
says what is true in between. `AskedFor`: in the loop of `ia_configparse` the
configuration is what the options read so far ask for, and the driver options
are the arguments of the `-o` among them, in order (`Collected`). `Settled`:
while they are passed on, every global of `ia_mdbx.c` is what the last item read
so far says on it. `LoopInv`: what is left of the item list is its end, so that
the place reached is known; when the test of a name returns 1, the whole list is
settled. `ReleaseInv`: which blocks and handles there are to give back at each
place, none of them freed, and that of each string exactly one copy exists while
the configuration points to it and none otherwise (`Accounted`), so that
`ia_configfree` at the end leaves none. One lemma per action (options, `open` of the drivers)
reduces it to a common effect (`ParseEffect`, `OpenEffect`), and the invariant is
shown for that. At the end, the order of items in the lists passed on is that of
the items on the command line (`LastWordIsSetting`).

What `RunnerProofs` has for the three compositions of `Runner`: `RunnerInv`, which relates the place of a doer
to the call that it waits for and to its counters; one move per call
(`Move*`), to which every step of the runner is reduced; and the keys of a
batch, whose first and second keys stay different for as long as the batch is
not longer than the period.

**Only model-checked**: all liveness (`Terminates`, `AllEnd` and the others:
fairness is out of the prover's reach), and `KeysDistinct` of `KeyMix`, which
computes with `Bitwise`, whose operators are recursive.

## 5. Findings

1. `ia_main.c:78`: the replacement of `pthread_barrier_wait` does not wait in a
   loop. A spurious wakeup lets the main thread pass the second barrier early,
   and the final checkpoint aborts (run `arena_spurious`).
2. `ia_mdbx.c:48`: an option whose name the mdbx driver does not know is not
   refused: the loop looking for it never ends (run `startup_unknown_option`).
3. `ia_vedisdb.c:209`: the result of a delete is replaced by 0 or -1 before it
   is compared with `VEDIS_NOTFOUND`, so that a missing key fails the benchmark
   in spite of `-i` (run `vedisdb_ignore`).

Observations that contradict no statement of the repository, and are part of
the models:

* If a batch cannot be created, the rocksdb and leveldb drivers write its
  operations one by one and the BATCH benchmark counts as a success; the
  runner overwrites the result of `begin`. wiredtiger and upscaledb go on
  without a transaction likewise, and forestdb never has one for a BATCH.
  `OperationsAtomic` of `ContextBench` names these exceptions and no others.
* forestdb: `needsCompact` is read and cleared without synchronisation, so the
  comment "Compact before the first operation after opening the file" holds for
  the doer that compacts and not for the others, which may be ahead of it. A
  context whose store cannot be opened is lost with its file.
* sophia: SET, DELETE and the `begin` of ITERATE overwrite `ctx->entry` without
  destroying the document there (`ia_sophia.c:227`, `:237`, `:151`). A GET leaves
  its document there, and a GET ends every operation of CRUD and BATCH, so each
  of these after the first loses a document; so does a pass that ends in GET, if
  it is repeated and begins with something else. `HandlesInOrder` names these
  doers and no others. A GET that finds nothing returns 0 whenever something is
  in the transaction's place (`:255`), so `PresentIsFound`, which says that a key
  that is present never counts as missing, says little of sophia's GET.
* lmdb and mdbx call `abort` on the same handle after a failed `commit`
  (`ia_lmdb.c:207`, `ia_mdbx.c:319`). The models take the failed commit and the
  abort as one step, which leaves nothing in the database and no transaction, and
  do not ask whether the library accepts it: `HandlesFit` says nothing of it.
* sqlite3: with several writers a BEGIN meets the transaction of another doer;
  a CRUD then fails, and a BATCH goes on in the other's transaction until one
  COMMIT finds none (`OverlapNoticed`). If a CRUD or a BATCH is broken off, what
  others were told is done may be lost when the connection is closed. A failing
  DELETE or GET closes the connection for everybody, and `ia_free` closes it
  again, as it does after a failed open.
* vedisdb: a busy commit rolls back what other doers have written; and a failing
  `vedis_open` returns a code that `ia_init` does not take for a failure, so the
  benchmarks run without a database.
* upscaledb and unqlite close handles that were never written when `open` fails
  early; iowow uses a null pointer when memory runs out in `open`, and leaves
  the cursor of a failed iteration open.
* `ia_config.c:205`, `ia.c:184`: a negative number of readers or writers is
  accepted and makes the barriers too small for the threads of the other kind;
  the final checkpoint then aborts. `Arena` with `MinThreads = -1` shows it.
* With `-c`, a failure of the main thread in `thread_new` or an option is not
  told to the other doers, which then go on for ever; `Terminates` excepts this
  case by name.
* Rows of the timeline can carry a time before that of the row before, because
  time stamps are taken before the mutex.
* The printed range of a bucket is shifted by one against what the search puts
  into it.

## 6. Not modelled

* The text of reports, logs, csv files, usage; `ia_get_rusage` beyond its
  failure; the real clock.
* The drivers dummy and debug, which keep no state.
* The databases themselves, which are not part of the repository.
* Running out of memory, except for contexts, configuration strings, drivers'
  private structures and batches.
* The text of values, which nothing reads; keys that are not printable (no
  option sets `conf.binary`) or numbers (`DEBUG_KEYGEN`, for debugging); keys of
  more than 16 bits or four characters, which are out of reach of enumeration.
* The values of keys: drivers are checked on which keys are there.
* Conflicts between transactions: the libraries' refusals of them are failures
  of a call like any other.
* The cut of the benchmark list at 127 characters; `conf.separate`, which no
  option sets.

## 7. Plan

Done, in this order: the histogram with its abstract specification and proofs;
the bucket search with proofs; the run and its doers; the keys; the
runner with the transactional drivers lmdb and mdbx; start and configuration;
the drivers whose contexts have a transaction of their own (rocksdb, leveldb,
sophia, wiredtiger, forestdb, upscaledb) and those that share one handle
(sqlite3, vedisdb, unqlite, iowow), with their `open` and `close` in `Startup`;
the text of keys; proofs for each of them.

Left to model: the life of a doer's histograms inside `Arena`, by composing
`Arena` with the actions of `Histogram` instead of the counters that the final
checkpoint depends on.
