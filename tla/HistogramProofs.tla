-------------------------- MODULE HistogramProofs --------------------------
(***************************************************************************)
(* The row protocol of ia_histogram.c is safe for any number of doers,     *)
(* benchmarks and operations and for any intervals.                        *)
(*                                                                         *)
(* The argument: doers_active and doers_merged are the sizes of two sets,  *)
(* Active and Contributed (CountInv).  A doer that decrements doers_active *)
(* without the mutex is in step with the global merge_evo (EvoInv), so it  *)
(* is in Active and not in Contributed.  While it is counted the two sizes *)
(* differ and no row is printed; once a doer has seen them equal, no other *)
(* doer of that kind is left (RowInv), and the rest need the mutex.        *)
(*                                                                         *)
(* And it implements SharedHistogram.  Summaries form a commutative monoid *)
(* under Join, in which the total of a benchmark is what its global        *)
(* histogram knows joined with the news of every doer (SplitOff).  Adding  *)
(* an operation to one doer's news adds it to the total (Measured); a      *)
(* merge moves news from the one to the other (MergeJoins); whoever starts *)
(* or ends a run, or goes on after a merge, has no news and a time span    *)
(* that is known already (NewsInv, StaleAbsorbed).                         *)
(*                                                                         *)
(* Last, the search for the bucket of a latency (BucketSearch.tla).        *)
(***************************************************************************)
EXTENDS HistogramRefinement, BucketSearch, FiniteSetTheorems, TLAPS

(* The helpers on histograms keep their types. *)

(* What the empty values are. *)
LEMMA EmptyTypes ==
    /\ NoBuckets \in [Buckets -> Nat]
    /\ Zero \in StatType
    /\ \A evo \in Nat, b \in Benches :
          /\ EmptyHistogram(evo, b) \in HistogramType
          /\ EmptyHistogram(evo, b).merge_evo = evo
          /\ EmptyHistogram(evo, b).enabled = FALSE
          /\ EmptyHistogram(evo, b).bench = b
    /\ EmptyBench \in BenchType
<1> USE BoundsAssumption
<1>1. NoBuckets \in [Buckets -> Nat] /\ Zero \in StatType
  BY DEF NoBuckets, Zero, StatType
<1>2. 0 \in Times /\ 0 \in 0 .. Unset /\ Unset \in 0 .. Unset
  BY DEF Times, Unset
<1>3. ASSUME NEW evo \in Nat, NEW b \in Benches
      PROVE  /\ EmptyHistogram(evo, b) \in HistogramType
             /\ EmptyHistogram(evo, b).merge_evo = evo
             /\ EmptyHistogram(evo, b).enabled = FALSE
             /\ EmptyHistogram(evo, b).bench = b
  BY <1>1, <1>2 DEF EmptyHistogram, HistogramType
<1>4. EmptyBench \in BenchType
  BY <1>1, <1>2 DEF EmptyBench, BenchType, Zero
<1> QED  BY <1>1, <1>3, <1>4

(* ia_histogram_reset keeps merge_evo. *)
LEMMA ResetType ==
    ASSUME clock \in 1 .. MaxClock, NEW h \in HistogramType, NEW b \in Benches
    PROVE  /\ ResetHistogram(h, b) \in HistogramType
           /\ ResetHistogram(h, b).merge_evo = h.merge_evo
           /\ ResetHistogram(h, b).enabled = TRUE
<1>1. clock \in Times /\ Unset \in 0 .. Unset
  BY BoundsAssumption DEF Times, Unset
<1>2. h.merge_evo \in Nat
  BY DEF HistogramType
<1> DEFINE e == EmptyHistogram(h.merge_evo, b)
<1>3. e \in HistogramType /\ e.merge_evo = h.merge_evo
  BY <1>2, EmptyTypes
<1> HIDE DEF e
<1>4. LET r == [e EXCEPT !.min = Unset, !.checkpoint_ns = clock,
                          !.enabled = TRUE]
      IN  /\ r \in HistogramType
          /\ r.merge_evo = h.merge_evo
          /\ r.enabled = TRUE
  BY <1>1, <1>3 DEF HistogramType
<1> QED  BY <1>4 DEF ResetHistogram, e

(* ia_histogram_add measures no negative latency and keeps merge_evo. *)
LEMMA AccumulatedType ==
    ASSUME clock \in 1 .. MaxClock, NEW h \in HistogramType,
           NEW t0 \in Times, t0 <= clock
    PROVE  /\ Accumulated(h, t0) \in HistogramType
           /\ Accumulated(h, t0).merge_evo = h.merge_evo
           /\ Accumulated(h, t0).enabled = h.enabled
<1> DEFINE spent == clock - t0
<1>1. spent \in Times /\ clock \in Times /\ spent \in 0 .. Unset
  BY BoundsAssumption DEF Times, Unset
<1>2. BucketOf[spent] \in Buckets
  BY <1>1, BucketOfAssumption DEF Times
<1>3. h.buckets \in [Buckets -> Nat] /\ h.acc.n \in Nat /\ h.acc.sum \in Nat
      /\ h.min \in Int /\ h.max \in Int
  BY DEF HistogramType, StatType, Times
<1> HIDE DEF spent
<1>4. [h.buckets EXCEPT ![BucketOf[spent]] = @ + 1] \in [Buckets -> Nat]
  BY <1>2, <1>3
<1>5. [n |-> h.acc.n + 1, sum |-> h.acc.sum + spent] \in StatType
  BY <1>1, <1>3 DEF StatType, Times
<1> DEFINE r == [h EXCEPT !.begin_ns = IF @ = 0 THEN t0 ELSE @,
                   !.end_ns = clock,
                   !.acc = [n |-> @.n + 1, sum |-> @.sum + spent],
                   !.min = IF @ > spent THEN spent ELSE @,
                   !.max = IF @ < spent THEN spent ELSE @,
                   !.buckets[BucketOf[spent]] = @ + 1]
<1>6. r \in HistogramType /\ r.merge_evo = h.merge_evo
      /\ r.enabled = h.enabled
  BY <1>1, <1>4, <1>5 DEF HistogramType
<1>7. Accumulated(h, t0) = r
  BY DEF Accumulated, spent
<1> QED  BY <1>6, <1>7

(* What the add branch forgets does not touch merge_evo. *)
LEMMA ForgottenType ==
    ASSUME NEW h \in HistogramType, NEW now \in Times
    PROVE  /\ Forgotten(h, now) \in HistogramType
           /\ Forgotten(h, now).merge_evo = h.merge_evo
           /\ Forgotten(h, now).enabled = h.enabled
<1>1. 0 \in Times /\ Unset \in 0 .. Unset
  BY BoundsAssumption DEF Times, Unset
<1> QED  BY <1>1, EmptyTypes DEF Forgotten, HistogramType

(* Merging into, and ending the row of, the histogram of a benchmark. *)
LEMMA BenchTypes ==
    ASSUME NEW g \in BenchType, NEW h \in HistogramType
    PROVE  Merged(g, h) \in BenchType /\ RowEnd(g) \in BenchType
<1>1. 0 \in Times /\ Unset \in 0 .. Unset
  BY BoundsAssumption DEF Times, Unset
<1>2. RowEnd(g) \in BenchType
  BY <1>1 DEF RowEnd, BenchType
<1>3. [n |-> g.acc.n + (h.acc.n - h.last.n),
       sum |-> g.acc.sum + (h.acc.sum - h.last.sum)] \in [n : Int, sum : Int]
  BY DEF BenchType, HistogramType, StatType
<1>4. [k \in Buckets |-> g.buckets[k] + h.buckets[k]] \in [Buckets -> Nat]
  BY DEF BenchType, HistogramType
<1>5. Merged(g, h) \in BenchType
  <2> DEFINE acc == [n |-> g.acc.n + (h.acc.n - h.last.n),
                     sum |-> g.acc.sum + (h.acc.sum - h.last.sum)]
             buckets == [k \in Buckets |-> g.buckets[k] + h.buckets[k]]
  <2>1. /\ acc \in [n : Int, sum : Int] /\ buckets \in [Buckets -> Nat]
        /\ g \in BenchType
        /\ h.begin_ns \in Times /\ h.end_ns \in Times
        /\ h.min \in 0 .. Unset /\ h.max \in Times
    BY <1>3, <1>4 DEF HistogramType
  <2>2. Merged(g, h) =
          [g EXCEPT
             !.acc = acc, !.buckets = buckets,
             !.begin_ns = IF @ = 0 \/ @ > h.begin_ns THEN h.begin_ns ELSE @,
             !.end_ns = IF @ < h.end_ns THEN h.end_ns ELSE @,
             !.min = IF @ > h.min THEN h.min ELSE @,
             !.max = IF @ < h.max THEN h.max ELSE @]
    BY DEF Merged
  <2> HIDE DEF acc, buckets
  <2> QED  BY <2>1, <2>2 DEF BenchType
<1> QED  BY <1>2, <1>5

----------------------------------------------------------------------------
(* The two sets are finite, and one is part of the other. *)
LEMMA Sizes ==
    /\ Contributed \subseteq Active
    /\ IsFiniteSet(Active) /\ Cardinality(Active) \in Nat
    /\ IsFiniteSet(Contributed) /\ Cardinality(Contributed) \in Nat
<1>1. Contributed \subseteq Active /\ Active \subseteq Doers
  BY DEF Contributed, Active
<1>2. IsFiniteSet(Active) /\ IsFiniteSet(Contributed)
  BY <1>1, DoersAssumption, FS_Subset
<1> QED  BY <1>1, <1>2, FS_CardinalityType

(* A step of one doer between labels that count alike, which moves no      *)
(* merge_evo and no counter, keeps what is said about the sets.            *)
LEMMA QuietStep ==
    ASSUME IInv, NEW d \in Doers, NEW label,
           label \notin {"new", "gone", "check", "publish"},
           pc[d] \notin {"new", "gone", "check", "publish"},
           pc' = [pc EXCEPT ![d] = label],
           UNCHANGED <<merge_evo, doers_active, doers_merged>>,
           \A e \in Doers : hg'[e].merge_evo = hg[e].merge_evo
    PROVE  CountInv' /\ RowInv'
<1>1. pc \in [Doers -> Labels]
  BY DEF IInv, TypeOK
<1>2. Active' = Active
  BY <1>1 DEF Active
<1>3. Contributed' = Contributed
  BY <1>1, <1>2 DEF Contributed, Active
<1>4. CountInv'
  BY <1>2, <1>3 DEF IInv, CountInv, MergedIsContributed
<1>5. RowInv'
  BY <1>1, <1>2, <1>3 DEF IInv, RowInv
<1> QED  BY <1>4, <1>5

(* Initially nobody is counted. *)
LEMMA InitIInv == Init => IInv
<1> SUFFICES ASSUME Init PROVE IInv
  OBVIOUS
<1>1. PICK b \in Benches : b = CHOOSE c \in Benches : TRUE
  BY BenchesAssumption
<1>2. hg = [d \in Doers |-> EmptyHistogram(0, b)]
  BY <1>1 DEF Init
<1>3. \A d \in Doers : hg[d] \in HistogramType
  BY <1>2, EmptyTypes
<1>4. TypeOK
  <2>1. per_bench \in [Benches -> BenchType]
    BY EmptyTypes DEF Init
  <2>2. hg \in [Doers -> HistogramType]
    BY <1>2, <1>3
  <2>3. todo \in [Doers -> 0 .. MaxRuns]
    BY BoundsAssumption DEF Init
  <2>4. /\ pc \in [Doers -> Labels]
        /\ stamp \in [Doers -> Times]
        /\ back \in [Doers -> {"bench", "ready"}]
        /\ ops \in [Doers -> 0 .. MaxOps]
        /\ clock \in 1 .. MaxClock
        /\ checkpoint_ns \in Times
    BY BoundsAssumption DEF Init, Labels, Times
  <2> QED  BY <2>1, <2>2, <2>3, <2>4 DEF Init, TypeOK
<1>5. Active = {} /\ Contributed = {}
  BY DEF Init, Active, Contributed
<1>6. CountInv
  BY <1>5, FS_EmptySet DEF Init, CountInv, MergedIsContributed
<1>7. NoFatal /\ LocalInv /\ BarrierInv /\ EvoInv /\ RowInv
  BY <1>5 DEF Init, NoFatal, LocalInv, BarrierInv, EvoInv, RowInv, Running,
              Holding
<1>8. MutexInv
  BY NobodyAssumption DEF Init, MutexInv, Holding, Nobody
<1> QED  BY <1>4, <1>6, <1>7, <1>8 DEF IInv

----------------------------------------------------------------------------
(* One lemma per step of a doer; first the steps that do not count. *)

(* A run of a benchmark begins. *)
LEMMA HistogramResetInv ==
    ASSUME IInv, outcome = "running", NEW d \in Doers, NEW b \in Benches,
           HistogramReset(d, b)
    PROVE  IInv'
<1> USE DEF HistogramReset, Goto, shared, local
<1>0. TypeOK /\ LocalInv /\ MutexInv /\ BarrierInv /\ EvoInv
  BY DEF IInv
<1>hg. /\ hg' \in [Doers -> HistogramType]
       /\ \A e \in Doers : hg'[e].merge_evo = hg[e].merge_evo
       /\ \A e \in Doers : hg'[e].enabled =
                             IF e = d THEN TRUE ELSE hg[e].enabled
  <2>1. /\ hg \in [Doers -> HistogramType] /\ hg[d] \in HistogramType
        /\ clock \in 1 .. MaxClock
    BY <1>0 DEF TypeOK
  <2>2. hg' = [hg EXCEPT ![d] = ResetHistogram(hg[d], b)]
    OBVIOUS
  <2>3. /\ ResetHistogram(hg[d], b) \in HistogramType
        /\ ResetHistogram(hg[d], b).merge_evo = hg[d].merge_evo
        /\ ResetHistogram(hg[d], b).enabled = TRUE
    BY <2>1, ResetType
  <2> QED  BY <2>1, <2>2, <2>3
<1>typ. TypeOK'
  BY <1>0, <1>hg, BoundsAssumption DEF TypeOK, Labels, Times
<1>cnt. CountInv' /\ RowInv'
  BY <1>0, <1>hg, QuietStep DEF TypeOK
<1>loc. LocalInv'
  BY <1>0, <1>hg, NobodyAssumption
  DEF TypeOK, Times, Nobody, LocalInv, Running, Holding, Active, Started
<1>mtx. MutexInv'
  BY <1>0, <1>hg, NobodyAssumption
  DEF TypeOK, Nobody, MutexInv, Running, Holding
<1>bar. BarrierInv'
  BY <1>0, <1>hg DEF TypeOK, BarrierInv, Running, Active, Started
<1>evo. EvoInv'
  BY <1>0, <1>hg DEF TypeOK, EvoInv, Running, Active, Started
<1> QED
  BY <1>typ, <1>cnt, <1>loc, <1>mtx, <1>bar, <1>evo DEF IInv, NoFatal

(* An operation of the driver begins. *)
LEMMA OperationStartInv ==
    ASSUME IInv, outcome = "running", NEW d \in Doers,
           OperationStart(d)
    PROVE  IInv'
<1> USE DEF OperationStart, Goto, shared, local
<1>0. TypeOK /\ LocalInv /\ MutexInv /\ BarrierInv /\ EvoInv
  BY DEF IInv
<1>hg. /\ hg' = hg
       /\ \A e \in Doers : /\ hg'[e].merge_evo = hg[e].merge_evo
                           /\ hg'[e].enabled = hg[e].enabled
  OBVIOUS
<1>typ. TypeOK'
  BY <1>0, <1>hg, BoundsAssumption DEF TypeOK, Labels, Times
<1>cnt. CountInv' /\ RowInv'
  BY <1>0, <1>hg, QuietStep DEF TypeOK
<1>inv. LocalInv' /\ MutexInv' /\ BarrierInv' /\ EvoInv'
  BY <1>0, <1>hg, NobodyAssumption
  DEF TypeOK, Times, Nobody, LocalInv, MutexInv, BarrierInv, EvoInv, Running,
      Holding, Active
<1> QED  BY <1>typ, <1>cnt, <1>inv DEF IInv, NoFatal

(* An operation is measured. *)
LEMMA HistogramAddInv ==
    ASSUME IInv, outcome = "running", NEW d \in Doers,
           HistogramAdd(d)
    PROVE  IInv'
<1> USE DEF HistogramAdd, Goto, shared, local
<1>0. TypeOK /\ LocalInv /\ MutexInv /\ BarrierInv /\ EvoInv
  BY DEF IInv
<1>hg. /\ hg' \in [Doers -> HistogramType]
       /\ \A e \in Doers : /\ hg'[e].merge_evo = hg[e].merge_evo
                           /\ hg'[e].enabled = hg[e].enabled
  <2>1. /\ clock \in 1 .. MaxClock /\ hg[d] \in HistogramType
        /\ stamp[d] \in Times /\ stamp[d] <= clock
    BY <1>0 DEF TypeOK, LocalInv
  <2> DEFINE r == Accumulated(hg[d], stamp[d])
  <2>2. /\ r \in HistogramType /\ r.merge_evo = hg[d].merge_evo
        /\ r.enabled = hg[d].enabled
    BY <2>1, AccumulatedType
  <2>3. hg' = [hg EXCEPT ![d] = r]
    OBVIOUS
  <2> HIDE DEF r
  <2> QED  BY <1>0, <2>2, <2>3 DEF TypeOK
<1>ops. ops' \in [Doers -> 0 .. MaxOps]
  BY <1>0, BoundsAssumption DEF TypeOK, LocalInv
<1>typ. TypeOK'
  BY <1>0, <1>hg, <1>ops, BoundsAssumption DEF TypeOK, Labels, Times
<1>cnt. CountInv' /\ RowInv'
  BY <1>0, <1>hg, QuietStep DEF TypeOK
<1>inv. LocalInv' /\ MutexInv' /\ BarrierInv' /\ EvoInv'
  BY <1>0, <1>hg, NobodyAssumption
  DEF TypeOK, Times, Nobody, LocalInv, MutexInv, BarrierInv, EvoInv, Running,
      Holding, Active
<1> QED  BY <1>typ, <1>cnt, <1>inv DEF IInv, NoFatal

(* The mutex is taken, or not. *)
LEMMA TryLockInv ==
    ASSUME IInv, outcome = "running", NEW d \in Doers,
           TryLock(d)
    PROVE  IInv'
<1> USE DEF TryLock, Goto, shared, local
<1>0. TypeOK /\ LocalInv /\ MutexInv /\ BarrierInv /\ EvoInv
  BY DEF IInv
<1>hg. /\ hg' = hg
       /\ \A e \in Doers : /\ hg'[e].merge_evo = hg[e].merge_evo
                           /\ hg'[e].enabled = hg[e].enabled
  OBVIOUS
<1>typ. TypeOK'
  BY <1>0, <1>hg, BoundsAssumption DEF TypeOK, Labels, Times
<1>cnt. CountInv' /\ RowInv'
  BY <1>0, <1>hg, QuietStep DEF TypeOK
<1>inv. LocalInv' /\ MutexInv' /\ BarrierInv' /\ EvoInv'
  BY <1>0, <1>hg, NobodyAssumption
  DEF TypeOK, Times, Nobody, LocalInv, MutexInv, BarrierInv, EvoInv, Running,
      Holding, Active
<1> QED  BY <1>typ, <1>cnt, <1>inv DEF IInv, NoFatal

(* A run ends. *)
LEMMA BenchmarkEndInv ==
    ASSUME IInv, outcome = "running", NEW d \in Doers,
           BenchmarkEnd(d)
    PROVE  IInv'
<1> USE DEF BenchmarkEnd, Goto, shared, local
<1>0. TypeOK /\ LocalInv /\ MutexInv /\ BarrierInv /\ EvoInv
  BY DEF IInv
<1>hg. /\ hg' = hg
       /\ \A e \in Doers : /\ hg'[e].merge_evo = hg[e].merge_evo
                           /\ hg'[e].enabled = hg[e].enabled
  OBVIOUS
<1>lft. todo' \in [Doers -> 0 .. MaxRuns] /\ failed' \in BOOLEAN
  <2>1. CASE ops[d] = MaxOps
    BY <1>0, <2>1 DEF TypeOK
  <2>2. CASE ops[d] # MaxOps
    BY <1>0, <2>2, BoundsAssumption DEF TypeOK
  <2> QED  BY <2>1, <2>2
<1>pcs. /\ pc' \in [Doers -> Labels] /\ stamp' \in [Doers -> Times]
        /\ ops' \in [Doers -> 0 .. MaxOps]
  BY <1>0, BoundsAssumption DEF TypeOK, Labels, Times
<1>typ. TypeOK'
  BY <1>0, <1>hg, <1>lft, <1>pcs DEF TypeOK
<1>cnt. CountInv' /\ RowInv'
  BY <1>0, <1>hg, QuietStep DEF TypeOK
<1>inv. LocalInv' /\ MutexInv' /\ BarrierInv' /\ EvoInv'
  BY <1>0, <1>hg, NobodyAssumption
  DEF TypeOK, Times, Nobody, LocalInv, MutexInv, BarrierInv, EvoInv, Running,
      Holding, Active
<1> QED  BY <1>typ, <1>cnt, <1>inv DEF IInv, NoFatal

(* The mutex is taken. *)
LEMMA LockInv ==
    ASSUME IInv, outcome = "running", NEW d \in Doers,
           Lock(d)
    PROVE  IInv'
<1> USE DEF Lock, Goto, shared, local
<1>0. TypeOK /\ LocalInv /\ MutexInv /\ BarrierInv /\ EvoInv
  BY DEF IInv
<1>hg. /\ hg' = hg
       /\ \A e \in Doers : /\ hg'[e].merge_evo = hg[e].merge_evo
                           /\ hg'[e].enabled = hg[e].enabled
  OBVIOUS
<1>typ. TypeOK'
  BY <1>0, <1>hg, BoundsAssumption DEF TypeOK, Labels, Times
<1>cnt. CountInv' /\ RowInv'
  BY <1>0, <1>hg, QuietStep DEF TypeOK
<1>inv. LocalInv' /\ MutexInv' /\ BarrierInv' /\ EvoInv'
  BY <1>0, <1>hg, NobodyAssumption
  DEF TypeOK, Times, Nobody, LocalInv, MutexInv, BarrierInv, EvoInv, Running,
      Holding, Active
<1> QED  BY <1>typ, <1>cnt, <1>inv DEF IInv, NoFatal

(* The doer decides how to leave. *)
LEMMA HistogramDestroyInv ==
    ASSUME IInv, outcome = "running", NEW d \in Doers,
           HistogramDestroy(d)
    PROVE  IInv'
<1> USE DEF HistogramDestroy, Goto, shared, local
<1>0. TypeOK /\ LocalInv /\ MutexInv /\ BarrierInv /\ EvoInv
  BY DEF IInv
<1>hg. /\ hg' \in [Doers -> HistogramType]
       /\ \A e \in Doers : hg'[e].merge_evo = hg[e].merge_evo
       /\ \A e \in Doers : hg'[e].enabled =
                             IF e = d THEN FALSE ELSE hg[e].enabled
  <2> DEFINE r == [hg[d] EXCEPT !.enabled = FALSE]
  <2>1. /\ r \in HistogramType /\ r.merge_evo = hg[d].merge_evo
        /\ r.enabled = FALSE
    <3>1. hg[d] \in HistogramType
      BY <1>0 DEF TypeOK
    <3> QED  BY <3>1 DEF HistogramType
  <2>2. hg' = [hg EXCEPT ![d] = r]
    OBVIOUS
  <2> HIDE DEF r
  <2> QED  BY <1>0, <2>1, <2>2 DEF TypeOK
<1>typ. TypeOK'
  BY <1>0, <1>hg, BoundsAssumption DEF TypeOK, Labels, Times
<1>cnt. CountInv' /\ RowInv'
  BY <1>0, <1>hg, QuietStep DEF TypeOK
<1>inv. LocalInv' /\ MutexInv' /\ BarrierInv' /\ EvoInv'
  BY <1>0, <1>hg, NobodyAssumption
  DEF TypeOK, Times, Nobody, LocalInv, MutexInv, BarrierInv, EvoInv, Running,
      Holding, Active, Started
<1> QED  BY <1>typ, <1>cnt, <1>inv DEF IInv, NoFatal

(* A doer that never ran leaves. *)
LEMMA DestroyUnusedInv ==
    ASSUME IInv, outcome = "running", NEW d \in Doers,
           DestroyUnused(d)
    PROVE  IInv'
<1> USE DEF DestroyUnused, Goto, shared, local
<1>0. TypeOK /\ LocalInv /\ MutexInv /\ BarrierInv /\ EvoInv
  BY DEF IInv
<1>hg. /\ hg' = hg
       /\ \A e \in Doers : /\ hg'[e].merge_evo = hg[e].merge_evo
                           /\ hg'[e].enabled = hg[e].enabled
  OBVIOUS
<1>typ. TypeOK'
  BY <1>0, <1>hg, BoundsAssumption DEF TypeOK, Labels, Times
<1>cnt. CountInv' /\ RowInv'
  BY <1>0, <1>hg, QuietStep DEF TypeOK
<1>inv. LocalInv' /\ MutexInv' /\ BarrierInv' /\ EvoInv'
  BY <1>0, <1>hg, NobodyAssumption
  DEF TypeOK, Times, Nobody, LocalInv, MutexInv, BarrierInv, EvoInv, Running,
      Holding, Active, Started
<1> QED  BY <1>typ, <1>cnt, <1>inv DEF IInv, NoFatal

----------------------------------------------------------------------------
(* Now the steps that count. *)

(* One more doer, in step with the row that is being collected. *)
LEMMA HistogramInitInv ==
    ASSUME IInv, outcome = "running", NEW d \in Doers, HistogramInit(d)
    PROVE  IInv'
<1> USE DEF HistogramInit, Goto
<1>0. TypeOK /\ LocalInv /\ MutexInv /\ BarrierInv /\ EvoInv /\ RowInv
      /\ CountInv
  BY DEF IInv
<1>hg. /\ hg' \in [Doers -> HistogramType]
       /\ hg'[d].merge_evo = merge_evo
       /\ \A e \in Doers \ {d} : hg'[e] = hg[e]
  <2> DEFINE r == EmptyHistogram(merge_evo, hg[d].bench)
  <2>1. r \in HistogramType /\ r.merge_evo = merge_evo
    <3>1. merge_evo \in Nat /\ hg[d].bench \in Benches
      BY <1>0 DEF TypeOK, HistogramType
    <3> QED  BY <3>1, EmptyTypes
  <2>2. hg' = [hg EXCEPT ![d] = r]
    OBVIOUS
  <2> HIDE DEF r
  <2> QED  BY <1>0, <2>1, <2>2 DEF TypeOK
<1>typ. TypeOK'
  BY <1>0, <1>hg DEF TypeOK, Labels
<1>all. \A e \in Doers : pc[e] \in {"new", "ready"}
  BY <1>0 DEF BarrierInv
<1>act. Active' = Active \cup {d} /\ d \notin Active
  BY <1>0 DEF TypeOK, Active
<1>con. Contributed' = Contributed
  <2>1. merge_evo # merge_evo + 1
    BY <1>0 DEF TypeOK
  <2> QED  BY <1>0, <1>act, <1>hg, <2>1 DEF TypeOK, Contributed, Active
<1>cnt. CountInv'
  BY <1>0, <1>act, <1>con, Sizes, FS_AddElement
  DEF CountInv, MergedIsContributed
<1>row. RowInv'
  BY <1>0, <1>all DEF TypeOK, RowInv
<1>inv. LocalInv' /\ MutexInv' /\ BarrierInv' /\ EvoInv'
  BY <1>0, <1>hg, <1>all, NobodyAssumption
  DEF TypeOK, Times, Nobody, LocalInv, MutexInv, BarrierInv, EvoInv, Running,
      Holding, Active
<1> QED  BY <1>typ, <1>cnt, <1>row, <1>inv DEF IInv, NoFatal

(* The doer leaves with the mutex: out of both sets, or of one. *)
LEMMA DestroyLockedInv ==
    ASSUME IInv, outcome = "running", NEW d \in Doers, DestroyLocked(d)
    PROVE  IInv'
<1> USE DEF DestroyLocked, Goto
<1>0. TypeOK /\ LocalInv /\ MutexInv /\ BarrierInv /\ EvoInv /\ RowInv
      /\ CountInv
  BY DEF IInv
<1>act. Active' = Active \ {d} /\ d \in Active
  BY <1>0 DEF TypeOK, Active
<1>con. Contributed' = Contributed \ {d}
        /\ (d \in Contributed <=> hg[d].merge_evo = merge_evo + 1)
  BY <1>0, <1>act DEF TypeOK, Contributed, Active
<1>cnt. CountInv'
  BY <1>0, <1>act, <1>con, Sizes, FS_RemoveElement
  DEF CountInv, MergedIsContributed
<1>nat. doers_active' \in Nat /\ doers_merged' \in Nat
  <2>1. IsFiniteSet(Active') /\ IsFiniteSet(Contributed')
    BY <1>act, <1>con, Sizes, FS_RemoveElement
  <2> QED  BY <1>cnt, <2>1, FS_CardinalityType
           DEF CountInv, MergedIsContributed
<1>typ. TypeOK'
  BY <1>0, <1>nat DEF TypeOK, Labels
<1>row. RowInv'
  BY <1>0, <1>act, <1>con DEF TypeOK, RowInv
<1>inv. LocalInv' /\ MutexInv' /\ BarrierInv' /\ EvoInv'
  BY <1>0, NobodyAssumption
  DEF TypeOK, Times, Nobody, LocalInv, MutexInv, BarrierInv, EvoInv, Running,
      Holding, Active
<1> QED  BY <1>typ, <1>cnt, <1>row, <1>inv DEF IInv, NoFatal

(* The doer leaves without the mutex: it is in step, so it has not         *)
(* contributed, and nobody is printing a row.                              *)
LEMMA DestroyUnlockedInv ==
    ASSUME IInv, outcome = "running", NEW d \in Doers, DestroyUnlocked(d)
    PROVE  IInv'
<1> USE DEF DestroyUnlocked, Goto
<1>0. TypeOK /\ LocalInv /\ MutexInv /\ BarrierInv /\ EvoInv /\ RowInv
      /\ CountInv
  BY DEF IInv
<1>act. Active' = Active \ {d} /\ d \in Active
  BY <1>0 DEF TypeOK, Active
<1>evo. hg[d].merge_evo = merge_evo /\ merge_evo # merge_evo + 1
  BY <1>0, <1>act DEF TypeOK, EvoInv
<1>con. Contributed' = Contributed /\ d \notin Contributed
  BY <1>0, <1>act, <1>evo DEF TypeOK, Contributed, Active
<1>cnt. CountInv'
  BY <1>0, <1>act, <1>con, Sizes, FS_RemoveElement
  DEF CountInv, MergedIsContributed
<1>nat. doers_active' \in Nat
  <2>1. IsFiniteSet(Active')
    BY <1>act, Sizes, FS_RemoveElement
  <2> QED  BY <1>cnt, <2>1, FS_CardinalityType DEF CountInv
<1>typ. TypeOK'
  BY <1>0, <1>nat DEF TypeOK, Labels
<1>row. RowInv'
  BY <1>0, <1>act, <1>con DEF TypeOK, RowInv
<1>inv. LocalInv' /\ MutexInv' /\ BarrierInv' /\ EvoInv'
  BY <1>0, NobodyAssumption
  DEF TypeOK, Times, Nobody, LocalInv, MutexInv, BarrierInv, EvoInv, Running,
      Holding, Active
<1> QED  BY <1>typ, <1>cnt, <1>row, <1>inv DEF IInv, NoFatal

(* What unlocking does to the doer that unlocks. *)
LEMMA UnlockFacts ==
    ASSUME TypeOK, NEW d \in Doers, NEW seen \in {0, 1}, Unlock(d, seen)
    PROVE  /\ hg' \in [Doers -> HistogramType]
           /\ hg'[d].merge_evo = hg[d].merge_evo + seen
           /\ hg'[d].enabled = hg[d].enabled
           /\ \A e \in Doers \ {d} : hg'[e] = hg[e]
           /\ stamp' \in [Doers -> Times]
           /\ \A e \in Doers : stamp'[e] = IF e = d THEN 0 ELSE stamp[e]
           /\ mutex' = Nobody
           /\ pc' = [pc EXCEPT ![d] = back[d]]
           /\ back[d] \in {"bench", "ready"}
<1>1. hg[d] \in HistogramType /\ stamp[d] \in Times /\ 0 \in Times
  BY BoundsAssumption DEF TypeOK, Times
<1> DEFINE h == [hg[d] EXCEPT !.merge_evo = @ + seen]
           r == IF back[d] = "bench" THEN Forgotten(h, stamp[d]) ELSE h
<1>2. /\ h \in HistogramType /\ h.merge_evo = hg[d].merge_evo + seen
      /\ h.enabled = hg[d].enabled
  BY <1>1 DEF HistogramType
<1> HIDE DEF h
<1>3. /\ r \in HistogramType /\ r.merge_evo = hg[d].merge_evo + seen
      /\ r.enabled = hg[d].enabled
  BY <1>1, <1>2, ForgottenType
<1>4. hg' = [hg EXCEPT ![d] = r]
  BY DEF Unlock, h
<1> HIDE DEF r
<1>5. /\ hg' \in [Doers -> HistogramType] /\ hg'[d] = r
      /\ \A e \in Doers \ {d} : hg'[e] = hg[e]
  BY <1>3, <1>4 DEF TypeOK
<1>6. /\ stamp' \in [Doers -> Times]
      /\ \A e \in Doers : stamp'[e] = IF e = d THEN 0 ELSE stamp[e]
  BY <1>1 DEF Unlock, TypeOK
<1> QED  BY <1>3, <1>5, <1>6 DEF Unlock, Goto, TypeOK

(* The doer merges: it contributes to the row, prints it next if it is the *)
(* last one to contribute, or leaves the row alone.                        *)
LEMMA MergeLockedInv ==
    ASSUME IInv, outcome = "running", NEW d \in Doers, MergeLocked(d)
    PROVE  IInv'
<1>0. TypeOK /\ LocalInv /\ MutexInv /\ BarrierInv /\ EvoInv /\ RowInv
      /\ CountInv
  BY DEF IInv
<1>1. /\ d \in Active /\ merge_evo \in Nat /\ hg[d].enabled
      /\ pc[d] = "merge" /\ pc \in [Doers -> Labels]
      /\ hg[d].merge_evo \in {merge_evo, merge_evo + 1}
  BY <1>0 DEF MergeLocked, TypeOK, Active, LocalInv, EvoInv, Running, Holding
<1>2. per_bench' \in [Benches -> BenchType]
  <2>1. hg[d] \in HistogramType /\ hg[d].bench \in Benches
        /\ per_bench \in [Benches -> BenchType]
    BY <1>0 DEF TypeOK, HistogramType
  <2> DEFINE m == Merged(per_bench[hg[d].bench], hg[d])
  <2>2. m \in BenchType
    BY <2>1, BenchTypes
  <2>3. per_bench' = [per_bench EXCEPT ![hg[d].bench] = m]
    BY DEF MergeLocked
  <2> HIDE DEF m
  <2> QED  BY <2>1, <2>2, <2>3
<1>3. /\ UNCHANGED <<clock, doers_active, merge_evo, checkpoint_ns, back, ops,
                     todo, failed, outcome>>
  BY DEF MergeLocked
<1>4. \A e \in Doers : e # d => pc[e] \notin Holding
  BY <1>0, <1>1 DEF MutexInv, Holding
<1>5. d \in Contributed <=> hg[d].merge_evo = merge_evo + 1
  BY <1>1 DEF Contributed
<1>6. CASE Unlock(d, 0) /\ UNCHANGED doers_merged
  <2> USE <1>6
  <2>hg. /\ hg' \in [Doers -> HistogramType]
         /\ \A e \in Doers : /\ hg'[e].merge_evo = hg[e].merge_evo
                             /\ hg'[e].enabled = hg[e].enabled
    <3>1. hg[d].merge_evo + 0 = hg[d].merge_evo
      BY <1>1
    <3> QED  BY <1>0, <3>1, UnlockFacts
  <2>un. /\ stamp' \in [Doers -> Times]
         /\ \A e \in Doers : stamp'[e] = IF e = d THEN 0 ELSE stamp[e]
         /\ mutex' = Nobody /\ pc' = [pc EXCEPT ![d] = back[d]]
         /\ back[d] \in {"bench", "ready"}
    BY <1>0, UnlockFacts
  <2>typ. TypeOK'
    BY <1>0, <1>2, <1>3, <2>hg, <2>un DEF TypeOK, Labels
  <2>cnt. CountInv' /\ RowInv'
    BY <1>1, <1>3, <2>hg, <2>un, QuietStep
  <2>inv. LocalInv' /\ MutexInv' /\ BarrierInv' /\ EvoInv'
    BY <1>0, <1>1, <1>3, <1>4, <2>hg, <2>un, NobodyAssumption
    DEF TypeOK, Times, Nobody, LocalInv, MutexInv, BarrierInv, EvoInv,
        Running, Holding, Active
  <2> QED  BY <1>3, <2>typ, <2>cnt, <2>inv DEF IInv, NoFatal
<1>7. CASE /\ hg[d].merge_evo = merge_evo
           /\ doers_merged' = doers_merged + 1
           /\ Unlock(d, 1)
  <2> USE <1>7
  <2>hg. /\ hg' \in [Doers -> HistogramType]
         /\ hg'[d].merge_evo = merge_evo + 1
         /\ \A e \in Doers \ {d} : hg'[e].merge_evo = hg[e].merge_evo
         /\ \A e \in Doers : hg'[e].enabled = hg[e].enabled
    BY <1>0, <1>1, UnlockFacts
  <2>un. /\ stamp' \in [Doers -> Times]
         /\ \A e \in Doers : stamp'[e] = IF e = d THEN 0 ELSE stamp[e]
         /\ mutex' = Nobody /\ pc' = [pc EXCEPT ![d] = back[d]]
         /\ back[d] \in {"bench", "ready"}
    BY <1>0, UnlockFacts
  <2>typ. TypeOK'
    BY <1>0, <1>2, <1>3, <2>hg, <2>un DEF TypeOK, Labels
  <2>act. Active' = Active
    BY <1>1, <2>un DEF Active
  <2>con. Contributed' = Contributed \cup {d} /\ d \notin Contributed
    BY <1>1, <1>3, <1>5, <2>act, <2>hg, <2>un DEF Contributed, Active
  <2>cnt. CountInv'
    BY <1>0, <1>3, <2>act, <2>con, Sizes, FS_AddElement
    DEF CountInv, MergedIsContributed
  <2>row. RowInv'
    BY <1>0, <1>1, <2>un, <2>act, <2>con DEF RowInv
  <2>inv. LocalInv' /\ MutexInv' /\ BarrierInv' /\ EvoInv'
    BY <1>0, <1>1, <1>3, <1>4, <2>hg, <2>un, NobodyAssumption
    DEF TypeOK, Times, Nobody, LocalInv, MutexInv, BarrierInv, EvoInv,
        Running, Holding, Active
  <2> QED  BY <1>3, <2>typ, <2>cnt, <2>row, <2>inv DEF IInv, NoFatal
<1>8. CASE /\ hg[d].merge_evo = merge_evo
           /\ doers_merged' = doers_merged + 1
           /\ ~(doers_active > doers_merged + 1)
           /\ Goto(d, "check") /\ UNCHANGED <<mutex, hg, stamp>>
  <2> USE <1>8 DEF Goto
  <2>typ. TypeOK'
    BY <1>0, <1>2, <1>3 DEF TypeOK, Labels
  <2>act. Active' = Active
    BY <1>1 DEF Active
  <2>con. Contributed' = Contributed \cup {d} /\ d \notin Contributed
    BY <1>1, <1>3, <1>5, <2>act DEF Contributed, Active
  <2>cnt. CountInv'
    BY <1>0, <1>3, <2>act, <2>con, Sizes, FS_AddElement
    DEF CountInv, MergedIsContributed
  <2>row. RowInv'
    <3>1. Contributed' \in SUBSET Active
      BY <1>1, <2>con, Sizes
    <3>2. Cardinality(Active) <= Cardinality(Contributed')
      BY <1>0, <1>3, <2>act, <2>cnt, Sizes
      DEF TypeOK, CountInv, MergedIsContributed
    <3>3. Cardinality(Contributed') \in Nat
      BY <3>1, Sizes, FS_Subset, FS_CardinalityType
    <3>4. Active = Contributed'
      BY <3>1, <3>2, <3>3, Sizes, FS_Subset
    <3> QED  BY <3>4, <2>act DEF RowInv
  <2>inv. LocalInv' /\ MutexInv' /\ BarrierInv' /\ EvoInv'
    BY <1>0, <1>1, <1>3
    DEF TypeOK, LocalInv, MutexInv, BarrierInv, EvoInv, Running, Holding,
        Active
  <2> QED  BY <1>3, <2>typ, <2>cnt, <2>row, <2>inv DEF IInv, NoFatal
<1> QED  BY <1>6, <1>7, <1>8 DEF MergeLocked

(* The doer prints the row: its test of the counters cannot fail. *)
LEMMA CheckpointInv ==
    ASSUME IInv, outcome = "running", NEW d \in Doers, Checkpoint(d)
    PROVE  IInv'
<1>0. TypeOK /\ LocalInv /\ MutexInv /\ BarrierInv /\ EvoInv /\ RowInv
      /\ CountInv
  BY DEF IInv
<1>1. pc[d] = "check" /\ pc \in [Doers -> Labels]
  BY <1>0 DEF Checkpoint, TypeOK
<1>2. doers_active = doers_merged
  <2>1. Active = Contributed
    BY <1>0, <1>1, Sizes DEF RowInv
  <2> QED  BY <1>0, <2>1 DEF CountInv, MergedIsContributed
<1>3. /\ checkpoint_ns' = stamp[d]
      /\ per_bench' = [b \in Benches |-> RowEnd(per_bench[b])]
      /\ pc' = [pc EXCEPT ![d] = "publish"]
      /\ UNCHANGED <<clock, mutex, doers_active, doers_merged, merge_evo, hg,
                     stamp, back, ops, todo, failed, outcome>>
  BY <1>2 DEF Checkpoint, Goto
<1>4. per_bench' \in [Benches -> BenchType]
  <2>1. \A b \in Benches : per_bench[b] \in BenchType
    BY <1>0 DEF TypeOK
  <2>2. hg[d] \in HistogramType
    BY <1>0 DEF TypeOK
  <2>3. \A b \in Benches : RowEnd(per_bench[b]) \in BenchType
    BY <2>1, <2>2, BenchTypes
  <2> QED  BY <1>3, <2>3
<1>typ. TypeOK'
  BY <1>0, <1>3, <1>4 DEF TypeOK, Labels
<1>act. Active' = Active
  BY <1>1, <1>3 DEF Active
<1>con. Contributed' = Contributed
  BY <1>1, <1>3, <1>act DEF Contributed, Active
<1>cnt. CountInv'
  BY <1>0, <1>3, <1>act, <1>con DEF CountInv, MergedIsContributed
<1>row. RowInv'
  BY <1>0, <1>1, <1>act, <1>con DEF RowInv
<1>inv. LocalInv' /\ MutexInv' /\ BarrierInv' /\ EvoInv'
  BY <1>0, <1>1, <1>3
  DEF TypeOK, LocalInv, MutexInv, BarrierInv, EvoInv, Running, Holding,
      Active
<1> QED  BY <1>3, <1>typ, <1>cnt, <1>row, <1>inv DEF IInv, NoFatal

(* The doer starts the next row, to which nobody has contributed. *)
LEMMA PublishInv ==
    ASSUME IInv, outcome = "running", NEW d \in Doers, Publish(d)
    PROVE  /\ IInv'
           /\ Active \subseteq Contributed
<1>0. TypeOK /\ LocalInv /\ MutexInv /\ BarrierInv /\ EvoInv /\ RowInv
      /\ CountInv
  BY DEF IInv
<1>1. /\ pc[d] = "publish" /\ pc \in [Doers -> Labels] /\ merge_evo \in Nat
      /\ d \in Active /\ hg[d].merge_evo = merge_evo
  BY <1>0 DEF Publish, TypeOK, Active, EvoInv
<1>all. Active = Contributed
  BY <1>0, <1>1, Sizes DEF RowInv
<1>2. doers_active = doers_merged
  BY <1>0, <1>all DEF CountInv, MergedIsContributed
<1>3. /\ doers_merged' = 0 /\ merge_evo' = merge_evo + 1 /\ Unlock(d, 1)
      /\ UNCHANGED <<clock, doers_active, checkpoint_ns, per_bench, back, ops,
                     todo, failed, outcome>>
  BY <1>2 DEF Publish
<1>4. \A e \in Doers : e # d => pc[e] \notin Holding
  BY <1>0, <1>1 DEF MutexInv, Holding
<1>hg. /\ hg' \in [Doers -> HistogramType]
       /\ hg'[d].merge_evo = merge_evo + 1
       /\ \A e \in Doers \ {d} : hg'[e].merge_evo = hg[e].merge_evo
       /\ \A e \in Doers : hg'[e].enabled = hg[e].enabled
  BY <1>0, <1>1, <1>3, UnlockFacts
<1>un. /\ stamp' \in [Doers -> Times]
       /\ \A e \in Doers : stamp'[e] = IF e = d THEN 0 ELSE stamp[e]
       /\ mutex' = Nobody /\ pc' = [pc EXCEPT ![d] = back[d]]
       /\ back[d] \in {"bench", "ready"}
  BY <1>0, <1>3, UnlockFacts
<1>typ. TypeOK'
  BY <1>0, <1>3, <1>hg, <1>un DEF TypeOK, Labels
<1>act. Active' = Active
  BY <1>1, <1>un DEF Active
<1>evo. \A e \in Active : hg'[e].merge_evo = merge_evo'
  BY <1>1, <1>3, <1>4, <1>all, <1>hg DEF Contributed, Active, Holding
<1>con. Contributed' = {}
  BY <1>1, <1>3, <1>4, <1>act, <1>evo, <1>un
  DEF Contributed, Active, Holding
<1>cnt. CountInv'
  BY <1>0, <1>3, <1>act, <1>con, FS_EmptySet
  DEF CountInv, MergedIsContributed
<1>row. RowInv'
  BY <1>1, <1>4, <1>un DEF RowInv, Holding
<1>inv. LocalInv' /\ MutexInv' /\ BarrierInv' /\ EvoInv'
  <2>1. LocalInv' /\ MutexInv' /\ BarrierInv'
    BY <1>0, <1>1, <1>3, <1>4, <1>hg, <1>un, NobodyAssumption
    DEF TypeOK, Times, Nobody, LocalInv, MutexInv, BarrierInv, Running,
        Holding
  <2>2. EvoInv'
    BY <1>act, <1>evo DEF EvoInv
  <2> QED  BY <2>1, <2>2
<1> QED  BY <1>3, <1>all, <1>typ, <1>cnt, <1>row, <1>inv DEF IInv, NoFatal

----------------------------------------------------------------------------
(* The main thread, and time. *)

(* Behind the second barrier nobody is counted any more, so that the       *)
(* counters agree.                                                         *)
LEMMA FinalReportInv ==
    ASSUME IInv, FinalReport
    PROVE  /\ IInv'
           /\ Active \subseteq Contributed
<1>0. TypeOK /\ LocalInv /\ MutexInv /\ BarrierInv /\ EvoInv /\ RowInv
      /\ CountInv
  BY DEF IInv
<1>1. \A d \in Doers : pc[d] = "gone"
  BY <1>0 DEF FinalReport, Finished, LocalInv
<1>2. Active = {} /\ Contributed = {}
  BY <1>1 DEF Active, Contributed
<1>3. doers_active = doers_merged
  BY <1>0, <1>2, FS_EmptySet DEF CountInv, MergedIsContributed
<1>4. /\ checkpoint_ns' = clock
      /\ per_bench' = [b \in Benches |-> RowEnd(per_bench[b])]
      /\ doers_merged' = 0
      /\ merge_evo' = merge_evo + 1
      /\ outcome' = "reported"
      /\ UNCHANGED <<mutex, doers_active, clock, hg, pc, stamp, back, ops,
                     todo, failed>>
  BY <1>3 DEF FinalReport, local
<1>5. per_bench' \in [Benches -> BenchType]
  <2>1. \A b \in Benches : RowEnd(per_bench[b]) \in BenchType
    <3>1. ASSUME NEW b \in Benches PROVE RowEnd(per_bench[b]) \in BenchType
      <4>1. per_bench[b] \in BenchType
        BY <1>0 DEF TypeOK
      <4>2. EmptyHistogram(0, b) \in HistogramType
        BY EmptyTypes
      <4> QED  BY <4>1, <4>2, BenchTypes
    <3> QED  BY <3>1
  <2> QED  BY <1>4, <2>1
<1>6. TypeOK'
  BY <1>0, <1>4, <1>5 DEF TypeOK, Times
<1>7. Active' = {} /\ Contributed' = {}
  BY <1>1, <1>4 DEF Active, Contributed
<1>8. CountInv'
  BY <1>0, <1>2, <1>4, <1>7, FS_EmptySet DEF CountInv, MergedIsContributed
<1>9. LocalInv' /\ MutexInv' /\ BarrierInv' /\ EvoInv' /\ RowInv'
  BY <1>0, <1>1, <1>4, <1>7
  DEF LocalInv, MutexInv, BarrierInv, EvoInv, RowInv, Running, Holding
<1> QED  BY <1>2, <1>4, <1>6, <1>8, <1>9 DEF IInv, NoFatal

(* exit(EXIT_FAILURE) changes nothing else. *)
LEMMA BailoutInv ==
    ASSUME IInv, Bailout
    PROVE  IInv'
BY DEF Bailout, shared, local, IInv, TypeOK, NoFatal, LocalInv, MutexInv,
       BarrierInv, EvoInv, RowInv, CountInv, MergedIsContributed, Active,
       Contributed

(* Time only moves on. *)
LEMMA TickInv ==
    ASSUME IInv, Tick
    PROVE  IInv'
<1>1. /\ clock' = clock + 1 /\ clock < MaxClock
      /\ UNCHANGED <<mutex, doers_active, doers_merged, merge_evo,
                     checkpoint_ns, per_bench, hg, pc, stamp, back, ops,
                     todo, failed, outcome>>
  BY DEF Tick, shared, local
<1>2. TypeOK'
  BY <1>1, BoundsAssumption DEF IInv, TypeOK
<1>3. LocalInv'
  BY <1>1 DEF IInv, TypeOK, LocalInv, Times
<1>4. MutexInv' /\ BarrierInv' /\ EvoInv' /\ RowInv' /\ CountInv' /\ NoFatal'
  BY <1>1 DEF IInv, NoFatal, MutexInv, BarrierInv, EvoInv, RowInv, CountInv,
              MergedIsContributed, Active, Contributed
<1> QED  BY <1>2, <1>3, <1>4 DEF IInv

(* A step that changes nothing keeps everything. *)
LEMMA StutterInv ==
    ASSUME IInv, UNCHANGED vars
    PROVE  IInv'
BY DEF vars, shared, local, IInv, TypeOK, NoFatal, LocalInv, MutexInv,
       BarrierInv, EvoInv, RowInv, CountInv, MergedIsContributed, Active,
       Contributed

(* The invariant is inductive. *)
LEMMA NextIInv == IInv /\ [Next]_vars => IInv'
<1> SUFFICES ASSUME IInv, [Next]_vars PROVE IInv'
  OBVIOUS
<1>1. ASSUME NEW d \in Doers, DoerStep(d) PROVE IInv'
  BY <1>1, HistogramInitInv, HistogramResetInv, OperationStartInv,
     HistogramAddInv, TryLockInv, BenchmarkEndInv, LockInv, MergeLockedInv,
     CheckpointInv, PublishInv, HistogramDestroyInv, DestroyLockedInv,
     DestroyUnlockedInv, DestroyUnusedInv
  DEF DoerStep
<1>2. CASE FinalReport
  BY <1>2, FinalReportInv
<1>3. CASE Bailout
  BY <1>3, BailoutInv
<1>4. CASE Tick
  BY <1>4, TickInv
<1>5. CASE Exited \/ UNCHANGED vars
  BY <1>5, StutterInv DEF Exited
<1> QED  BY <1>1, <1>2, <1>3, <1>4, <1>5 DEF Next

(* The inductive invariant holds in every state. *)
THEOREM Invariance == Spec => []IInv
<1> QED  BY InitIInv, NextIInv, PTL DEF Spec

(* Types, and the counters of ia_histogram.c never negative. *)
THEOREM TypeCorrect == Spec => []TypeOK
<1>1. IInv => TypeOK
  BY DEF IInv
<1> QED  BY <1>1, Invariance, PTL

(* The ia_fatal and the assert of ia_histogram_checkpoint are never        *)
(* reached with counters that differ.                                      *)
THEOREM CountersAgree == Spec => []NoFatal
<1>1. IInv => NoFatal
  BY DEF IInv
<1> QED  BY <1>1, Invariance, PTL

(* doers_merged counts the doers that have contributed to the row.         *)
THEOREM MergedCount == Spec => []MergedIsContributed
<1>1. IInv => MergedIsContributed
  BY DEF IInv, CountInv
<1> QED  BY <1>1, Invariance, PTL

(* A row is printed only when all doers still counted contributed to it.   *)
THEOREM EveryRowComplete == Spec => RowsComplete
<1> DEFINE Complete == merge_evo' # merge_evo => Active \subseteq Contributed
<1>1. IInv /\ [Next]_vars => [Complete]_vars
  <2> SUFFICES ASSUME IInv, Next PROVE Complete
    OBVIOUS
  <2>1. ASSUME NEW d \in Doers, DoerStep(d) PROVE Complete
    <3>1. CASE Publish(d)
      BY <2>1, <3>1, PublishInv DEF DoerStep
    <3>2. CASE ~Publish(d)
      BY <2>1, <3>2
      DEF DoerStep, HistogramInit, HistogramReset, OperationStart,
          HistogramAdd, TryLock, BenchmarkEnd, Lock, MergeLocked, Checkpoint,
          HistogramDestroy, DestroyLocked, DestroyUnlocked, DestroyUnused,
          shared
    <3> QED  BY <3>1, <3>2
  <2>2. CASE FinalReport
    BY <2>2, FinalReportInv
  <2>3. CASE Bailout \/ Tick \/ Exited
    BY <2>3 DEF Bailout, Tick, Exited, vars, shared
  <2> QED  BY <2>1, <2>2, <2>3 DEF Next
<1> QED  BY <1>1, Invariance, PTL DEF Spec, RowsComplete

----------------------------------------------------------------------------
(* Histogram implements SharedHistogram.  First what summaries are made   *)
(* of: sums, extremes, and how they are joined.                           *)

(* Every set of natural numbers has a least element. *)
LEMMA LeastNatural ==
    ASSUME NEW S \in SUBSET Nat, S # {}
    PROVE  \E m \in S : \A x \in S : m <= x
<1>1. PICK m \in S : \A x \in S : ~(<<x, m>> \in OpToRel(<, Nat))
  BY NatLessThanWellFounded, WFMin
<1>2. \A x \in S : ~(x < m)
  BY <1>1 DEF OpToRel
<1> QED  BY <1>2

(* Min and Max of the community modules are what their names say. *)
LEMMA MinIsLeast ==
    ASSUME NEW S \in SUBSET Nat, S # {}
    PROVE  Min(S) \in S /\ \A x \in S : Min(S) <= x
  BY LeastNatural DEF Min

(* Max needs a bound: the clock. *)
LEMMA MaxIsGreatest ==
    ASSUME NEW B \in Nat, NEW S \in SUBSET (0 .. B), S # {}
    PROVE  Max(S) \in S /\ \A x \in S : x <= Max(S)
<1> DEFINE T == {B - x : x \in S}
<1>1. T \in SUBSET Nat /\ T # {}
  <2>1. \A x \in S : B - x \in Nat
    OBVIOUS
  <2>2. T \in SUBSET Nat
    BY <2>1
  <2>3. PICK x \in S : TRUE
    OBVIOUS
  <2>4. B - x \in T
    OBVIOUS
  <2> QED  BY <2>2, <2>4
<1>2. PICK t \in T : \A y \in T : t <= y
  BY <1>1, LeastNatural
<1>3. PICK m \in S : t = B - m
  OBVIOUS
<1>4. \A x \in S : x <= m
  <2> TAKE x \in S
  <2>1. B - x \in T
    OBVIOUS
  <2>2. B - m <= B - x
    BY <1>2, <1>3, <2>1
  <2>3. m \in Int /\ x \in Int
    OBVIOUS
  <2> QED  BY <2>2, <2>3
<1> QED  BY <1>4 DEF Max

(* The pairs that SumOf counts. *)
Pairs(f) == UNION {{x} \X (1 .. f[x]) : x \in DOMAIN f}

(* A pair is counted for one element of the domain. *)
LEMMA PairsIn ==
    ASSUME NEW f, NEW p
    PROVE  p \in Pairs(f) <=> \E x \in DOMAIN f : p \in {x} \X (1 .. f[x])
  BY DEF Pairs

(* A sum over a finite set is a natural number. *)
LEMMA SumIsNatural ==
    ASSUME NEW D, IsFiniteSet(D), NEW f \in [D -> Nat]
    PROVE  IsFiniteSet(Pairs(f)) /\ SumOf(f) \in Nat
<1> DEFINE S == {{x} \X (1 .. f[x]) : x \in D}
           q == [x \in D |-> {x} \X (1 .. f[x])]
<1>1. q \in Surjection(D, S)
  BY DEF Surjection
<1>2. IsFiniteSet(S)
  BY <1>1, FS_Surjection
<1>3. ASSUME NEW T \in S PROVE IsFiniteSet(T)
  <2>1. PICK x \in D : T = {x} \X (1 .. f[x])
    OBVIOUS
  <2>2. IsFiniteSet({x})
    BY FS_Singleton
  <2>3. 1 \in Int /\ f[x] \in Int
    OBVIOUS
  <2>4. IsFiniteSet(1 .. f[x])
    BY <2>3, FS_Interval
  <2> QED  BY <2>1, <2>2, <2>4, FS_Product
<1>4. Pairs(f) = UNION S
  BY DEF Pairs
<1>5. IsFiniteSet(Pairs(f))
  BY <1>2, <1>3, <1>4, FS_UNION
<1>6. SumOf(f) = Cardinality(Pairs(f))
  BY DEF SumOf, Pairs
<1> QED  BY <1>5, <1>6, FS_CardinalityType

(* One element of a sum can be taken out of it. *)
LEMMA SumSplit ==
    ASSUME NEW D, IsFiniteSet(D), NEW f \in [D -> Nat], NEW d \in D,
           NEW r \in [D -> Nat], r[d] = 0,
           \A x \in D : x # d => r[x] = f[x]
    PROVE  SumOf(r) \in Nat /\ SumOf(f) = SumOf(r) + f[d]
<1> DEFINE A == {d} \X (1 .. f[d])
<1>0. r \in [D -> Nat] /\ r[d] = 0 /\ \A x \in D \ {d} : r[x] = f[x]
  OBVIOUS
<1>1. IsFiniteSet(Pairs(r)) /\ SumOf(r) \in Nat
  BY <1>0, SumIsNatural
<1>2. IsFiniteSet(A) /\ Cardinality(A) = f[d]
  <2>1. IsFiniteSet({d}) /\ Cardinality({d}) = 1
    BY FS_Singleton
  <2>2. IsFiniteSet(1 .. f[d]) /\ Cardinality(1 .. f[d]) = f[d]
    <3>1. 1 \in Int /\ f[d] \in Int /\ f[d] >= 0
      OBVIOUS
    <3> QED  BY <3>1, FS_Interval
  <2>3. /\ IsFiniteSet(A)
        /\ Cardinality(A) = Cardinality({d}) * Cardinality(1 .. f[d])
    BY <2>1, <2>2, FS_Product
  <2>4. f[d] \in Nat
    OBVIOUS
  <2> QED  BY <2>1, <2>2, <2>3, <2>4
<1>3. Pairs(f) = Pairs(r) \cup A
  <2>1. ASSUME NEW p \in Pairs(f) PROVE p \in Pairs(r) \cup A
    <3>1. PICK x \in D : p \in {x} \X (1 .. f[x])
      BY <2>1, PairsIn
    <3>2. CASE x = d
      BY <3>1, <3>2
    <3>3. CASE x # d
      <4>1. x \in DOMAIN r /\ p \in {x} \X (1 .. r[x])
        BY <3>1, <3>3, <1>0
      <4> QED  BY <4>1, PairsIn
    <3> QED  BY <3>2, <3>3
  <2>2. ASSUME NEW p \in Pairs(r) PROVE p \in Pairs(f)
    <3>1. PICK x \in D : p \in {x} \X (1 .. r[x])
      BY <2>2, <1>0, PairsIn
    <3>2. x # d
      BY <3>1, <1>0
    <3>3. x \in DOMAIN f /\ p \in {x} \X (1 .. f[x])
      BY <3>1, <3>2, <1>0
    <3> QED  BY <3>3, PairsIn
  <2>3. ASSUME NEW p \in A PROVE p \in Pairs(f)
    <3>1. d \in DOMAIN f /\ p \in {d} \X (1 .. f[d])
      BY <2>3
    <3> QED  BY <3>1, PairsIn
  <2> QED  BY <2>1, <2>2, <2>3
<1>4. Pairs(r) \cap A = {}
  <2> SUFFICES ASSUME NEW p \in Pairs(r), p \in A PROVE FALSE
    OBVIOUS
  <2>1. PICK x \in D : p \in {x} \X (1 .. r[x])
    BY <1>0, PairsIn
  <2>2. x = d
    BY <2>1
  <2> QED  BY <2>1, <2>2, <1>0
<1>5. Cardinality(Pairs(f)) = Cardinality(Pairs(r)) + f[d]
  <2>1. Cardinality(Pairs(r) \cap A) = 0
    BY <1>4, FS_EmptySet
  <2>2. Cardinality(Pairs(r)) \in Nat
    BY <1>1, FS_CardinalityType
  <2>3. Cardinality(Pairs(r) \cup A) =
          Cardinality(Pairs(r)) + Cardinality(A) - Cardinality(Pairs(r) \cap A)
    BY <1>1, <1>2, FS_Union
  <2>4. f[d] \in Nat
    OBVIOUS
  <2> HIDE DEF A
  <2> QED  BY <1>2, <1>3, <2>1, <2>2, <2>3, <2>4
<1>6. SumOf(f) = Cardinality(Pairs(f)) /\ SumOf(r) = Cardinality(Pairs(r))
  BY DEF SumOf, Pairs
<1> QED  BY <1>1, <1>5, <1>6

(* A sum of zeros. *)
LEMMA SumOfZeros ==
    ASSUME NEW D, NEW f \in [D -> {0}]
    PROVE  SumOf(f) = 0
<1>1. Pairs(f) = {}
  <2> SUFFICES ASSUME NEW p \in Pairs(f) PROVE FALSE
    OBVIOUS
  <2>1. PICK x \in D : p \in {x} \X (1 .. f[x])
    BY PairsIn
  <2> QED  BY <2>1
<1>2. SumOf(f) = Cardinality(Pairs(f))
  BY DEF SumOf, Pairs
<1> QED  BY <1>1, <1>2, FS_EmptySet

(* Summaries can be joined; Combined joins them all. *)
Summary ==
    [n : Int, sum : Int, min : 0 .. Unset, max : Times, begin_ns : Times,
     end_ns : Times, buckets : [Buckets -> Int]]

NewsType ==
    [n : Nat, sum : Nat, min : 0 .. Unset, max : Times, begin_ns : Times,
     end_ns : Times, buckets : [Buckets -> Nat]]

Join(s, t) ==
    [n |-> s.n + t.n, sum |-> s.sum + t.sum,
     min |-> Shared!Lesser(s.min, t.min),
     max |-> Shared!Greater(s.max, t.max),
     begin_ns |-> Shared!Earlier(s.begin_ns, t.begin_ns),
     end_ns |-> Shared!Greater(s.end_ns, t.end_ns),
     buckets |-> [k \in Buckets |-> s.buckets[k] + t.buckets[k]]]

(* What the helpers of SharedHistogram.tla choose. *)
LEMMA Chosen ==
    ASSUME NEW x \in Int, NEW y \in Int, NEW z \in Int
    PROVE  /\ LET m == Shared!Lesser(x, Shared!Lesser(y, z))
              IN  m \in {x, y, z} /\ m <= x /\ m <= y /\ m <= z
           /\ LET m == Shared!Greater(x, Shared!Greater(y, z))
              IN  m \in {x, y, z} /\ x <= m /\ y <= m /\ z <= m
  BY DEF Shared!Lesser, Shared!Greater

(* A function and an element that is not in its range as one set. *)
Values(a, v) == {a} \cup {v[e] : e \in Doers}

(* One doer's least latency can be taken out of the minimum. *)
LEMMA MinSplit ==
    ASSUME NEW a \in 0 .. Unset, NEW v \in [Doers -> 0 .. Unset],
           NEW d \in Doers, NEW r \in [Doers -> 0 .. Unset],
           r[d] = Unset, \A e \in Doers : e # d => r[e] = v[e]
    PROVE  /\ Min(Values(Unset, r)) \in 0 .. Unset
           /\ Min(Values(a, v)) =
                Shared!Lesser(Min(Values(Unset, r)), Shared!Lesser(a, v[d]))
<1> DEFINE S == Values(a, v)
           T == Values(Unset, r)
<1>0. Unset \in Nat
  BY BoundsAssumption DEF Unset
<1>1. r \in [Doers -> 0 .. Unset] /\ \A e \in Doers : e # d => r[e] = v[e]
  OBVIOUS
<1>2. r[d] = Unset
  OBVIOUS
<1>3. S \in SUBSET Nat /\ a \in S /\ \A e \in Doers : v[e] \in S
  BY <1>0 DEF Values
<1>4. T \in SUBSET Nat /\ Unset \in T /\ \A e \in Doers : r[e] \in T
  BY <1>0, <1>1 DEF Values
<1>5. \A x \in S : x = a \/ \E e \in Doers : x = v[e]
  BY DEF Values
<1>6. \A x \in T : x = Unset \/ \E e \in Doers : e # d /\ x = v[e]
  BY <1>1, <1>2 DEF Values
<1> HIDE DEF S, T
<1>7. Min(S) \in S /\ \A x \in S : Min(S) <= x
  BY <1>3, MinIsLeast
<1>8. Min(T) \in T /\ \A x \in T : Min(T) <= x
  BY <1>4, MinIsLeast
<1> DEFINE m == Shared!Lesser(Min(T), Shared!Lesser(a, v[d]))
<1>10. /\ a <= Unset /\ a \in Nat /\ v[d] <= Unset /\ v[d] \in Nat
       /\ Min(T) \in Nat
  <2>1. a <= Unset /\ a \in Nat /\ v[d] <= Unset /\ v[d] \in Nat
    BY <1>0
  <2>2. Min(T) \in Nat
    BY <1>4, <1>8
  <2> QED  BY <2>1, <2>2
<1>9. m \in Nat /\ m <= Min(T) /\ m <= a /\ m <= v[d]
      /\ (m = Min(T) \/ m = a \/ m = v[d])
  BY <1>10, Chosen
<1> HIDE DEF m
<1>11. m \in S
  <2>1. CASE m = Min(T)
    <3>1. CASE Min(T) = Unset
      BY <2>1, <3>1, <1>0, <1>3, <1>9, <1>10
    <3>2. CASE \E e \in Doers : e # d /\ Min(T) = v[e]
      BY <2>1, <3>2, <1>3
    <3> QED  BY <3>1, <3>2, <1>6, <1>8
  <2>2. CASE m = a \/ m = v[d]
    BY <2>2, <1>3
  <2> QED  BY <2>1, <2>2, <1>9
<1>12. m <= Min(S)
  <2>1. CASE Min(S) = a
    BY <2>1, <1>9
  <2>2. ASSUME NEW e \in Doers, Min(S) = v[e] PROVE m <= Min(S)
    <3>1. CASE e = d
      BY <2>2, <3>1, <1>9
    <3>2. CASE e # d
      <4>1. v[e] \in T
        BY <3>2, <1>1, <1>4
      <4>2. Min(T) \in Nat /\ v[e] \in Nat
        BY <1>4, <1>8, <4>1
      <4> QED  BY <2>2, <4>1, <4>2, <1>8, <1>9
    <3> QED  BY <3>1, <3>2
  <2> QED  BY <2>1, <2>2, <1>5, <1>7
<1>13. Min(S) <= m /\ Min(S) \in Nat
  BY <1>3, <1>7, <1>11
<1>14. Min(S) = m
  BY <1>9, <1>12, <1>13
<1>15. Min(T) <= Unset
  BY <1>4, <1>8
<1>16. Min(T) \in 0 .. Unset
  BY <1>0, <1>10, <1>15
<1> QED  BY <1>14, <1>16 DEF m, S, T

(* The same for the greatest, which is 0 where there is none. *)
LEMMA MaxSplit ==
    ASSUME NEW a \in Times, NEW v \in [Doers -> Times], NEW d \in Doers,
           NEW r \in [Doers -> Times],
           r[d] = 0, \A e \in Doers : e # d => r[e] = v[e]
    PROVE  /\ Max(Values(0, r)) \in Times
           /\ Max(Values(a, v)) =
                Shared!Greater(Max(Values(0, r)), Shared!Greater(a, v[d]))
<1> DEFINE S == Values(a, v)
           T == Values(0, r)
<1>0. MaxClock \in Nat /\ Times = 0 .. MaxClock
  BY BoundsAssumption DEF Times
<1>1. r \in [Doers -> Times] /\ \A e \in Doers : e # d => r[e] = v[e]
  OBVIOUS
<1>2. r[d] = 0
  OBVIOUS
<1>3. S \in SUBSET (0 .. MaxClock) /\ a \in S /\ \A e \in Doers : v[e] \in S
  BY <1>0 DEF Values
<1>4. T \in SUBSET (0 .. MaxClock) /\ 0 \in T /\ \A e \in Doers : r[e] \in T
  BY <1>0, <1>1 DEF Values
<1>5. \A x \in S : x = a \/ \E e \in Doers : x = v[e]
  BY DEF Values
<1>6. \A x \in T : x = 0 \/ \E e \in Doers : e # d /\ x = v[e]
  BY <1>1, <1>2 DEF Values
<1> HIDE DEF S, T
<1>7. Max(S) \in S /\ \A x \in S : x <= Max(S)
  BY <1>0, <1>3, MaxIsGreatest
<1>8. Max(T) \in T /\ \A x \in T : x <= Max(T)
  BY <1>0, <1>4, MaxIsGreatest
<1> DEFINE m == Shared!Greater(Max(T), Shared!Greater(a, v[d]))
<1>10. /\ 0 <= a /\ a \in Nat /\ 0 <= v[d] /\ v[d] \in Nat
       /\ S \in SUBSET Nat /\ T \in SUBSET Nat
  BY <1>0, <1>3, <1>4
<1>15. Max(T) \in Nat /\ Max(S) \in Nat
  BY <1>7, <1>8, <1>10
<1>9. m \in Nat /\ Max(T) <= m /\ a <= m /\ v[d] <= m
      /\ (m = Max(T) \/ m = a \/ m = v[d])
  BY <1>10, <1>15, Chosen
<1> HIDE DEF m
<1>11. m \in S
  <2>1. CASE m = Max(T)
    <3>1. CASE Max(T) = 0
      BY <2>1, <3>1, <1>0, <1>3, <1>9, <1>10
    <3>2. CASE \E e \in Doers : e # d /\ Max(T) = v[e]
      BY <2>1, <3>2, <1>3
    <3> QED  BY <3>1, <3>2, <1>6, <1>8
  <2>2. CASE m = a \/ m = v[d]
    BY <2>2, <1>3
  <2> QED  BY <2>1, <2>2, <1>9
<1>12. Max(S) <= m
  <2>1. CASE Max(S) = a
    BY <2>1, <1>9
  <2>2. ASSUME NEW e \in Doers, Max(S) = v[e] PROVE Max(S) <= m
    <3>1. CASE e = d
      BY <2>2, <3>1, <1>9
    <3>2. CASE e # d
      <4>1. v[e] \in T
        BY <3>2, <1>1, <1>4
      <4>2. Max(T) \in Nat /\ v[e] \in Nat
        BY <1>10, <1>15, <4>1
      <4> QED  BY <2>2, <4>1, <4>2, <1>8, <1>9
    <3> QED  BY <3>1, <3>2
  <2> QED  BY <2>1, <2>2, <1>5, <1>7
<1>13. m <= Max(S) /\ Max(S) \in Nat
  BY <1>7, <1>11, <1>15
<1>14. Max(S) = m
  BY <1>9, <1>12, <1>13
<1>16. Max(T) \in Times
  BY <1>0, <1>4, <1>8
<1> QED  BY <1>14, <1>16 DEF m, S, T

(* The same for the earliest, where 0 is "not yet". *)
LEMMA FirstSplit ==
    ASSUME NEW a \in Times, NEW v \in [Doers -> Times], NEW d \in Doers,
           NEW r \in [Doers -> Times],
           r[d] = 0, \A e \in Doers : e # d => r[e] = v[e]
    PROVE  /\ LeastOrZero(Values(0, r) \ {0}) \in Times
           /\ LeastOrZero(Values(a, v) \ {0}) =
                Shared!Earlier(LeastOrZero(Values(0, r) \ {0}),
                               Shared!Earlier(a, v[d]))
<1> DEFINE S == Values(a, v) \ {0}
           T == Values(0, r) \ {0}
<1>0. MaxClock \in Nat /\ Times = 0 .. MaxClock
  BY BoundsAssumption DEF Times
<1>1. r \in [Doers -> Times] /\ \A e \in Doers : e # d => r[e] = v[e]
  OBVIOUS
<1>2. r[d] = 0
  OBVIOUS
<1>3. S \in SUBSET Nat /\ 0 \notin S
  BY <1>0 DEF Values
<1>4. T \in SUBSET Nat /\ 0 \notin T /\ T \subseteq Times
  BY <1>0, <1>1 DEF Values
<1>5. \A x : x \in S <=> x # 0 /\ (x = a \/ \E e \in Doers : x = v[e])
  BY DEF Values
<1>6. \A x : x \in T <=> x # 0 /\ \E e \in Doers : e # d /\ x = v[e]
  BY <1>1, <1>2 DEF Values
<1> HIDE DEF S, T
<1>7. \A x : x \in S <=> x \in T \/ (x # 0 /\ (x = a \/ x = v[d]))
  BY <1>5, <1>6
<1>8. a \in Nat /\ v[d] \in Nat
  BY <1>0
<1> DEFINE c == Shared!Earlier(a, v[d])
<1>9. /\ c \in Nat
      /\ c = 0 => a = 0 /\ v[d] = 0
      /\ c # 0 => c = a \/ c = v[d]
      /\ a # 0 => c <= a
      /\ v[d] # 0 => c <= v[d]
      /\ a # 0 \/ v[d] # 0 => c # 0
  BY <1>8 DEF Shared!Earlier, Shared!Lesser
<1> HIDE DEF c
<1>10. ASSUME T = {}
       PROVE  LeastOrZero(S) = Shared!Earlier(LeastOrZero(T), c)
  <2>1. LeastOrZero(T) = 0
    BY <1>10 DEF LeastOrZero
  <2>2. Shared!Earlier(LeastOrZero(T), c) = c
    BY <2>1 DEF Shared!Earlier
  <2>3. CASE c = 0
    <3>1. S = {}
      BY <2>3, <1>7, <1>9, <1>10
    <3> QED  BY <2>2, <2>3, <3>1 DEF LeastOrZero
  <2>4. CASE c # 0
    <3>1. c \in S
      BY <2>4, <1>7, <1>9
    <3>2. Min(S) \in S /\ \A x \in S : Min(S) <= x
      BY <1>3, <3>1, MinIsLeast
    <3>3. c <= Min(S) /\ Min(S) <= c
      BY <1>7, <1>9, <1>10, <3>1, <3>2
    <3>6. Min(S) \in Nat
      BY <1>3, <3>2
    <3>4. Min(S) = c
      BY <3>3, <3>6, <1>9
    <3>5. LeastOrZero(S) = c
      BY <3>1, <3>4 DEF LeastOrZero
    <3> QED  BY <2>2, <3>5
  <2> QED  BY <2>3, <2>4
<1>11. ASSUME T # {}
       PROVE  LeastOrZero(S) = Shared!Earlier(LeastOrZero(T), c)
  <2>1. Min(T) \in T /\ \A x \in T : Min(T) <= x
    BY <1>4, <1>11, MinIsLeast
  <2>2. LeastOrZero(T) = Min(T) /\ Min(T) \in Nat /\ Min(T) # 0
    BY <1>4, <1>11, <2>1 DEF LeastOrZero
  <2>3. S # {}
    BY <1>7, <1>11
  <2>4. Min(S) \in S /\ Min(S) \in Nat /\ \A x \in S : Min(S) <= x
    BY <1>3, <2>3, MinIsLeast
  <2> DEFINE m == Shared!Earlier(Min(T), c)
  <2>5. /\ m \in Nat /\ m # 0
        /\ m <= Min(T)
        /\ c # 0 => m <= c
        /\ m = Min(T) \/ (c # 0 /\ m = c)
    BY <2>2, <1>9 DEF Shared!Earlier, Shared!Lesser
  <2> HIDE DEF m
  <2>6. m \in S
    BY <2>1, <2>5, <1>7, <1>9
  <2>7. m <= Min(S)
    <3>1. CASE Min(S) \in T
      <4>1. Min(T) <= Min(S)
        BY <2>1, <3>1
      <4> QED  BY <4>1, <2>2, <2>4, <2>5
    <3>2. CASE Min(S) # 0 /\ (Min(S) = a \/ Min(S) = v[d])
      <4>1. c # 0 /\ c <= Min(S)
        BY <3>2, <1>9
      <4> QED  BY <4>1, <2>4, <2>5, <1>9
    <3> QED  BY <3>1, <3>2, <2>4, <1>7
  <2>8. Min(S) = m
    BY <2>4, <2>5, <2>6, <2>7
  <2>9. LeastOrZero(S) = Min(S)
    BY <2>3 DEF LeastOrZero
  <2> QED  BY <2>2, <2>8, <2>9 DEF m
<1>12. LeastOrZero(T) \in Times
  <2>1. CASE T = {}
    BY <2>1, <1>0 DEF LeastOrZero
  <2>2. CASE T # {}
    BY <2>2, <1>4, MinIsLeast DEF LeastOrZero
  <2> QED  BY <2>1, <2>2
<1>13. LeastOrZero(S) = Shared!Earlier(LeastOrZero(T), c)
  BY <1>10, <1>11
<1> QED  BY <1>12, <1>13 DEF S, T, c

(* Nothing is a summary, and adds nothing. *)
LEMMA NothingType == Nothing \in NewsType /\ Nothing \in Summary
  BY BoundsAssumption
  DEF Nothing, NewsType, Summary, Unset, Times, NoBuckets

(* Combining is joining with each doer's news, in any order: those of     *)
(* doer d may come last.                                                  *)
LEMMA SplitOff ==
    ASSUME NEW s \in Summary, NEW news \in [Doers -> NewsType],
           NEW d \in Doers
    PROVE  LET rest == Combined(Nothing, [news EXCEPT ![d] = Nothing])
           IN  /\ rest \in Summary
               /\ Combined(s, news) = Join(rest, Join(s, news[d]))
<1> DEFINE w == [news EXCEPT ![d] = Nothing]
           rest == Combined(Nothing, w)
           x == news[d]
           j == Join(rest, Join(s, x))
<1>0. MaxClock \in Nat /\ Unset \in Nat /\ Times = 0 .. MaxClock
  BY BoundsAssumption DEF Unset, Times
<1>1. w \in [Doers -> NewsType] /\ w[d] = Nothing
      /\ \A e \in Doers : e # d => w[e] = news[e]
  BY NothingType
<1> HIDE DEF w
<1>2. rest.n \in Int /\ Combined(s, news).n = j.n
  <2> DEFINE v == [e \in Doers |-> news[e].n]
             r == [e \in Doers |-> w[e].n]
  <2>1. v \in [Doers -> Nat] /\ v[d] = x.n
    BY DEF NewsType
  <2>2. /\ r \in [Doers -> Nat] /\ r[d] = 0
        /\ \A e \in Doers : e # d => r[e] = v[e]
    BY <1>1 DEF Nothing, NewsType
  <2>3. SumOf(r) \in Nat /\ SumOf(v) = SumOf(r) + v[d]
    <3> HIDE DEF v, r
    <3> QED  BY <2>1, <2>2, DoersAssumption, SumSplit
  <2>4. rest.n = 0 + SumOf(r) /\ Combined(s, news).n = s.n + SumOf(v)
    BY DEF Combined, Nothing
  <2>5. j.n = rest.n + (s.n + x.n)
    BY DEF Join
  <2>6. s.n \in Int /\ x.n \in Int
    BY DEF Summary, NewsType
  <2> HIDE DEF v, r, rest, j, x
  <2> QED  BY <2>1, <2>3, <2>4, <2>5, <2>6
<1>3. rest.sum \in Int /\ Combined(s, news).sum = j.sum
  <2> DEFINE v == [e \in Doers |-> news[e].sum]
             r == [e \in Doers |-> w[e].sum]
  <2>1. v \in [Doers -> Nat] /\ v[d] = x.sum
    BY DEF NewsType
  <2>2. /\ r \in [Doers -> Nat] /\ r[d] = 0
        /\ \A e \in Doers : e # d => r[e] = v[e]
    BY <1>1 DEF Nothing, NewsType
  <2>3. SumOf(r) \in Nat /\ SumOf(v) = SumOf(r) + v[d]
    <3> HIDE DEF v, r
    <3> QED  BY <2>1, <2>2, DoersAssumption, SumSplit
  <2>4. rest.sum = 0 + SumOf(r) /\ Combined(s, news).sum = s.sum + SumOf(v)
    BY DEF Combined, Nothing
  <2>5. j.sum = rest.sum + (s.sum + x.sum)
    BY DEF Join
  <2>6. s.sum \in Int /\ x.sum \in Int
    BY DEF Summary, NewsType
  <2> HIDE DEF v, r, rest, j, x
  <2> QED  BY <2>1, <2>3, <2>4, <2>5, <2>6
<1>4. ASSUME NEW k \in Buckets
      PROVE  /\ rest.buckets[k] \in Int
             /\ Combined(s, news).buckets[k] = j.buckets[k]
  <2> DEFINE v == [e \in Doers |-> news[e].buckets[k]]
             r == [e \in Doers |-> w[e].buckets[k]]
  <2>1. v \in [Doers -> Nat] /\ v[d] = x.buckets[k]
    BY DEF NewsType
  <2>2. /\ r \in [Doers -> Nat] /\ r[d] = 0
        /\ \A e \in Doers : e # d => r[e] = v[e]
    BY <1>1 DEF Nothing, NoBuckets, NewsType
  <2>3. SumOf(r) \in Nat /\ SumOf(v) = SumOf(r) + v[d]
    <3> HIDE DEF v, r
    <3> QED  BY <2>1, <2>2, DoersAssumption, SumSplit
  <2>4. /\ rest.buckets[k] = NoBuckets[k] + SumOf(r)
        /\ Combined(s, news).buckets[k] = s.buckets[k] + SumOf(v)
    BY DEF Combined, Nothing
  <2>5. j.buckets[k] = rest.buckets[k] + (s.buckets[k] + x.buckets[k])
    BY DEF Join
  <2>6. s.buckets[k] \in Int /\ x.buckets[k] \in Int /\ NoBuckets[k] = 0
    BY DEF Summary, NewsType, NoBuckets
  <2> HIDE DEF v, r, rest, j, x
  <2> QED  BY <2>1, <2>3, <2>4, <2>5, <2>6
<1>5. rest.min \in 0 .. Unset /\ Combined(s, news).min = j.min
  <2> DEFINE v == [e \in Doers |-> news[e].min]
             r == [e \in Doers |-> w[e].min]
  <2>1. v \in [Doers -> 0 .. Unset] /\ v[d] = x.min
    BY DEF NewsType
  <2>2. /\ r \in [Doers -> 0 .. Unset] /\ r[d] = Unset
        /\ \A e \in Doers : e # d => r[e] = v[e]
    BY <1>1 DEF Nothing, NewsType
  <2>3. rest.min = Min(Values(Unset, r))
        /\ Combined(s, news).min = Min(Values(s.min, v))
    BY DEF Combined, Nothing, Values
  <2>4. j.min = Shared!Lesser(rest.min, Shared!Lesser(s.min, x.min))
    BY DEF Join
  <2>5. s.min \in 0 .. Unset
    BY DEF Summary
  <2> HIDE DEF v, r, rest, j, x
  <2> QED  BY <2>1, <2>2, <2>3, <2>4, <2>5, MinSplit
<1>6. rest.max \in Times /\ Combined(s, news).max = j.max
  <2> DEFINE v == [e \in Doers |-> news[e].max]
             r == [e \in Doers |-> w[e].max]
  <2>1. v \in [Doers -> Times] /\ v[d] = x.max
    BY DEF NewsType
  <2>2. /\ r \in [Doers -> Times] /\ r[d] = 0
        /\ \A e \in Doers : e # d => r[e] = v[e]
    BY <1>1 DEF Nothing, NewsType
  <2>3. rest.max = Max(Values(0, r))
        /\ Combined(s, news).max = Max(Values(s.max, v))
    BY DEF Combined, Nothing, Values
  <2>4. j.max = Shared!Greater(rest.max, Shared!Greater(s.max, x.max))
    BY DEF Join
  <2>5. s.max \in Times
    BY DEF Summary
  <2> HIDE DEF v, r, rest, j, x
  <2> QED  BY <2>1, <2>2, <2>3, <2>4, <2>5, MaxSplit
<1>7. rest.end_ns \in Times /\ Combined(s, news).end_ns = j.end_ns
  <2> DEFINE v == [e \in Doers |-> news[e].end_ns]
             r == [e \in Doers |-> w[e].end_ns]
  <2>1. v \in [Doers -> Times] /\ v[d] = x.end_ns
    BY DEF NewsType
  <2>2. /\ r \in [Doers -> Times] /\ r[d] = 0
        /\ \A e \in Doers : e # d => r[e] = v[e]
    BY <1>1 DEF Nothing, NewsType
  <2>3. rest.end_ns = Max(Values(0, r))
        /\ Combined(s, news).end_ns = Max(Values(s.end_ns, v))
    BY DEF Combined, Nothing, Values
  <2>4. j.end_ns = Shared!Greater(rest.end_ns,
                                  Shared!Greater(s.end_ns, x.end_ns))
    BY DEF Join
  <2>5. s.end_ns \in Times
    BY DEF Summary
  <2> HIDE DEF v, r, rest, j, x
  <2> QED  BY <2>1, <2>2, <2>3, <2>4, <2>5, MaxSplit
<1>8. rest.begin_ns \in Times /\ Combined(s, news).begin_ns = j.begin_ns
  <2> DEFINE v == [e \in Doers |-> news[e].begin_ns]
             r == [e \in Doers |-> w[e].begin_ns]
  <2>1. v \in [Doers -> Times] /\ v[d] = x.begin_ns
    BY DEF NewsType
  <2>2. /\ r \in [Doers -> Times] /\ r[d] = 0
        /\ \A e \in Doers : e # d => r[e] = v[e]
    BY <1>1 DEF Nothing, NewsType
  <2>3. /\ rest.begin_ns = LeastOrZero(Values(0, r) \ {0})
        /\ Combined(s, news).begin_ns =
             LeastOrZero(Values(s.begin_ns, v) \ {0})
    BY DEF Combined, Nothing, Values
  <2>4. j.begin_ns = Shared!Earlier(rest.begin_ns,
                                    Shared!Earlier(s.begin_ns, x.begin_ns))
    BY DEF Join
  <2>5. s.begin_ns \in Times
    BY DEF Summary
  <2> HIDE DEF v, r, rest, j, x
  <2> QED  BY <2>1, <2>2, <2>3, <2>4, <2>5, FirstSplit
<1>9. rest \in Summary
  <2>1. rest.buckets \in [Buckets -> Int]
    <3>1. rest.buckets =
            [k \in Buckets |-> rest.buckets[k]]
      BY DEF Combined
    <3> HIDE DEF rest
    <3> QED  BY <3>1, <1>4
  <2>2. rest = [n |-> rest.n, sum |-> rest.sum, min |-> rest.min,
                max |-> rest.max, begin_ns |-> rest.begin_ns,
                end_ns |-> rest.end_ns, buckets |-> rest.buckets]
    BY DEF Combined
  <2> HIDE DEF rest
  <2> QED  BY <2>1, <2>2, <1>2, <1>3, <1>5, <1>6, <1>7, <1>8 DEF Summary
<1>10. Combined(s, news) = j
  <2> DEFINE c == Combined(s, news)
  <2>1. c.buckets = j.buckets
    <3>1. c.buckets = [k \in Buckets |-> c.buckets[k]]
      BY DEF Combined
    <3>2. j.buckets = [k \in Buckets |-> j.buckets[k]]
      BY DEF Join
    <3> HIDE DEF j
    <3> QED  BY <3>1, <3>2, <1>4
  <2>2. c = [n |-> c.n, sum |-> c.sum, min |-> c.min, max |-> c.max,
             begin_ns |-> c.begin_ns, end_ns |-> c.end_ns,
             buckets |-> c.buckets]
    BY DEF Combined
  <2>3. j = [n |-> j.n, sum |-> j.sum, min |-> j.min, max |-> j.max,
             begin_ns |-> j.begin_ns, end_ns |-> j.end_ns,
             buckets |-> j.buckets]
    BY DEF Join
  <2> HIDE DEF c, j
  <2>4. c = j
    BY <2>1, <2>2, <2>3, <1>2, <1>3, <1>5, <1>6, <1>7, <1>8 DEF c
  <2> QED  BY <2>4 DEF c
<1> QED  BY <1>9, <1>10 DEF w

(* Joining keeps the type. *)
LEMMA JoinType ==
    ASSUME NEW s \in Summary, NEW t \in Summary
    PROVE  Join(s, t) \in Summary
<1>0. MaxClock \in Nat /\ Unset \in Nat
  BY BoundsAssumption DEF Unset
<1>1. s.n + t.n \in Int /\ s.sum + t.sum \in Int
  BY DEF Summary
<1>2. Shared!Lesser(s.min, t.min) \in 0 .. Unset
  BY DEF Summary, Shared!Lesser
<1>3. /\ Shared!Greater(s.max, t.max) \in Times
      /\ Shared!Greater(s.end_ns, t.end_ns) \in Times
  BY DEF Summary, Shared!Greater
<1>4. Shared!Earlier(s.begin_ns, t.begin_ns) \in Times
  BY DEF Summary, Shared!Earlier, Shared!Lesser
<1>5. [k \in Buckets |-> s.buckets[k] + t.buckets[k]] \in [Buckets -> Int]
  BY DEF Summary
<1> QED  BY <1>1, <1>2, <1>3, <1>4, <1>5 DEF Join, Summary

(* News are a summary, of natural numbers. *)
LEMMA NewsIsSummary ==
    ASSUME NEW x \in NewsType
    PROVE  x \in Summary
  BY DEF NewsType, Summary

(* One doer's news may be replaced by others, if the merged part changes  *)
(* so that the two together stay the same.                                *)
LEMMA Replaced ==
    ASSUME NEW s \in Summary, NEW t \in Summary, NEW d \in Doers,
           NEW news \in [Doers -> NewsType], NEW more \in [Doers -> NewsType],
           \A e \in Doers : e # d => more[e] = news[e],
           Join(t, more[d]) = Join(s, news[d])
    PROVE  Combined(t, more) = Combined(s, news)
<1> DEFINE Rest(w) == Combined(Nothing, [w EXCEPT ![d] = Nothing])
<1>1. [more EXCEPT ![d] = Nothing] = [news EXCEPT ![d] = Nothing]
  OBVIOUS
<1>2. Rest(more) = Rest(news)
  BY <1>1
<1>3. Combined(s, news) = Join(Rest(news), Join(s, news[d]))
  BY SplitOff
<1>4. Combined(t, more) = Join(Rest(more), Join(t, more[d]))
  BY SplitOff
<1> HIDE DEF Rest
<1> QED  BY <1>2, <1>3, <1>4

(* Adding an operation to a part adds it to the whole. *)
LEMMA JoinWith ==
    ASSUME NEW s \in Summary, NEW x \in Summary,
           NEW now \in 1 .. MaxClock, NEW t0 \in 1 .. now
    PROVE  Join(s, Shared!With(x, t0, now)) = Shared!With(Join(s, x), t0, now)
<1> DEFINE y == Shared!With(x, t0, now)
           j == Join(s, x)
           l == Join(s, y)
           r == Shared!With(j, t0, now)
           lat == now - t0
<1>0. /\ MaxClock \in Nat /\ now \in Nat /\ t0 \in Nat /\ t0 # 0
      /\ lat \in Nat /\ BucketOf[lat] \in Buckets
  <2>1. MaxClock \in Nat /\ now \in Nat /\ t0 \in Nat /\ t0 # 0
    BY BoundsAssumption
  <2>2. lat \in 0 .. MaxClock
    BY <2>1
  <2> QED  BY <2>1, <2>2, BucketOfAssumption
<1>1. l.n = r.n
  BY DEF Join, Shared!With, Summary
<1>2. l.sum = r.sum
  <2>1. s.sum \in Int /\ x.sum \in Int
    BY DEF Summary
  <2>2. l.sum = s.sum + (x.sum + lat) /\ r.sum = (s.sum + x.sum) + lat
    BY DEF Join, Shared!With
  <2> HIDE DEF l, r, lat
  <2> QED  BY <1>0, <2>1, <2>2
<1>3. l.min = r.min
  <2>1. s.min \in Int /\ x.min \in Int
    BY DEF Summary
  <2>2. /\ l.min = Shared!Lesser(s.min, Shared!Lesser(x.min, lat))
        /\ r.min = Shared!Lesser(Shared!Lesser(s.min, x.min), lat)
    BY DEF Join, Shared!With
  <2> HIDE DEF l, r, lat
  <2> QED  BY <1>0, <2>1, <2>2 DEF Shared!Lesser
<1>4. l.max = r.max
  <2>1. s.max \in Int /\ x.max \in Int
    BY DEF Summary, Times
  <2>2. /\ l.max = Shared!Greater(s.max, Shared!Greater(x.max, lat))
        /\ r.max = Shared!Greater(Shared!Greater(s.max, x.max), lat)
    BY DEF Join, Shared!With
  <2> HIDE DEF l, r, lat
  <2> QED  BY <1>0, <2>1, <2>2 DEF Shared!Greater
<1>5. l.end_ns = r.end_ns
  <2>1. s.end_ns \in Int /\ x.end_ns \in Int
    BY DEF Summary, Times
  <2>2. /\ l.end_ns = Shared!Greater(s.end_ns, Shared!Greater(x.end_ns, now))
        /\ r.end_ns = Shared!Greater(Shared!Greater(s.end_ns, x.end_ns), now)
    BY DEF Join, Shared!With
  <2> HIDE DEF l, r, lat
  <2> QED  BY <1>0, <2>1, <2>2 DEF Shared!Greater
<1>6. l.begin_ns = r.begin_ns
  <2>1. s.begin_ns \in Nat /\ x.begin_ns \in Nat
    BY <1>0 DEF Summary, Times
  <2>2. /\ l.begin_ns = Shared!Earlier(s.begin_ns,
                                       Shared!Earlier(x.begin_ns, t0))
        /\ r.begin_ns = Shared!Earlier(Shared!Earlier(s.begin_ns, x.begin_ns),
                                       t0)
    BY DEF Join, Shared!With
  <2> HIDE DEF l, r, lat
  <2> QED  BY <1>0, <2>1, <2>2 DEF Shared!Earlier, Shared!Lesser
<1>7. l.buckets = r.buckets
  <2>1. s.buckets \in [Buckets -> Int] /\ x.buckets \in [Buckets -> Int]
    BY DEF Summary
  <2>2. l.buckets = [k \in Buckets |-> s.buckets[k] + y.buckets[k]]
    BY DEF Join
  <2>3. y.buckets = [x.buckets EXCEPT ![BucketOf[lat]] = @ + 1]
    BY DEF Shared!With
  <2>4. r.buckets = [j.buckets EXCEPT ![BucketOf[lat]] = @ + 1]
    BY DEF Shared!With
  <2>5. j.buckets = [k \in Buckets |-> s.buckets[k] + x.buckets[k]]
    BY DEF Join
  <2> HIDE DEF l, r, y, j, lat
  <2>6. j.buckets \in [Buckets -> Int]
    BY <2>1, <2>5
  <2>7. \A k \in Buckets : l.buckets[k] = r.buckets[k]
    BY <1>0, <2>1, <2>2, <2>3, <2>4, <2>5, <2>6
  <2>8. DOMAIN r.buckets = Buckets
    BY <2>4, <2>6
  <2>9. r.buckets = [k \in Buckets |-> r.buckets[k]]
    BY <2>4, <2>6
  <2>10. l.buckets = [k \in Buckets |-> l.buckets[k]]
    BY <2>2
  <2> QED  BY <2>7, <2>9, <2>10
<1>8. l = [n |-> l.n, sum |-> l.sum, min |-> l.min, max |-> l.max,
           begin_ns |-> l.begin_ns, end_ns |-> l.end_ns,
           buckets |-> l.buckets]
  BY DEF Join
<1>9. r = [n |-> r.n, sum |-> r.sum, min |-> r.min, max |-> r.max,
           begin_ns |-> r.begin_ns, end_ns |-> r.end_ns,
           buckets |-> r.buckets]
  BY DEF Shared!With
<1> HIDE DEF l, r
<1>10. l = r
  BY <1>1, <1>2, <1>3, <1>4, <1>5, <1>6, <1>7, <1>8, <1>9
<1> QED  BY <1>10 DEF l, r, y, j

(* One doer measures an operation: so does the whole. *)
LEMMA Measured ==
    ASSUME NEW s \in Summary, NEW d \in Doers,
           NEW news \in [Doers -> NewsType], NEW more \in [Doers -> NewsType],
           NEW now \in 1 .. MaxClock, NEW t0 \in 1 .. now,
           \A e \in Doers : e # d => more[e] = news[e],
           more[d] = Shared!With(news[d], t0, now)
    PROVE  Combined(s, more) = Shared!With(Combined(s, news), t0, now)
<1> DEFINE rest == Combined(Nothing, [news EXCEPT ![d] = Nothing])
<1>1. [more EXCEPT ![d] = Nothing] = [news EXCEPT ![d] = Nothing]
  OBVIOUS
<1>2. /\ rest \in Summary
      /\ Combined(s, news) = Join(rest, Join(s, news[d]))
  BY SplitOff
<1>3. Combined(s, more) = Join(rest, Join(s, more[d]))
  <2>1. Combined(s, more) =
          Join(Combined(Nothing, [more EXCEPT ![d] = Nothing]),
               Join(s, more[d]))
    BY SplitOff
  <2> QED  BY <1>1, <2>1
<1> HIDE DEF rest
<1>4. news[d] \in Summary
  BY NewsIsSummary
<1>5. Join(s, more[d]) = Shared!With(Join(s, news[d]), t0, now)
  BY <1>4, JoinWith
<1>6. Join(s, news[d]) \in Summary
  BY <1>4, JoinType
<1>7. Join(rest, Shared!With(Join(s, news[d]), t0, now)) =
        Shared!With(Join(rest, Join(s, news[d])), t0, now)
  BY <1>2, <1>6, JoinWith
<1> QED  BY <1>2, <1>3, <1>5, <1>7

(* With no news the whole is what was merged. *)
LEMMA NoMoreNews ==
    ASSUME NEW s \in Summary
    PROVE  Combined(s, [d \in Doers |-> Nothing]) = s
<1> DEFINE news == [d \in Doers |-> Nothing]
           c == Combined(s, news)
<1>0. /\ MaxClock \in Nat /\ Unset \in Nat /\ Times = 0 .. MaxClock
      /\ Unset = MaxClock + 1
  BY BoundsAssumption DEF Times, Unset
<1>1. SumOf([d \in Doers |-> 0]) = 0
  BY SumOfZeros
<1>2. c.n = s.n /\ c.sum = s.sum
  <2>1. [d \in Doers |-> news[d].n] = [d \in Doers |-> 0]
    BY DEF Nothing
  <2>2. [d \in Doers |-> news[d].sum] = [d \in Doers |-> 0]
    BY DEF Nothing
  <2>3. c.n = s.n + 0 /\ c.sum = s.sum + 0
    BY <1>1, <2>1, <2>2 DEF Combined
  <2>4. s.n \in Int /\ s.sum \in Int
    BY DEF Summary
  <2> QED  BY <2>3, <2>4
<1>3. c.buckets = s.buckets
  <2>1. ASSUME NEW k \in Buckets PROVE c.buckets[k] = s.buckets[k]
    <3>1. [d \in Doers |-> news[d].buckets[k]] = [d \in Doers |-> 0]
      BY DEF Nothing, NoBuckets
    <3>2. c.buckets[k] = s.buckets[k] + 0
      BY <1>1, <3>1 DEF Combined
    <3>3. s.buckets[k] \in Int
      BY DEF Summary
    <3> QED  BY <3>2, <3>3
  <2>2. c.buckets = [k \in Buckets |-> c.buckets[k]]
    BY DEF Combined
  <2>3. s.buckets = [k \in Buckets |-> s.buckets[k]]
    BY DEF Summary
  <2> HIDE DEF c
  <2> QED  BY <2>1, <2>2, <2>3
<1>4. c.min = s.min
  <2> DEFINE S == {s.min} \cup {news[d].min : d \in Doers}
  <2>1. s.min \in 0 .. Unset
    BY DEF Summary
  <2>2. \A x \in S : x = s.min \/ x = Unset
    BY DEF Nothing
  <2>3. S \in SUBSET Nat /\ s.min \in S
    BY <1>0, <2>1, <2>2
  <2>4. c.min = Min(S)
    BY DEF Combined
  <2> HIDE DEF S, c
  <2>5. Min(S) \in S /\ Min(S) <= s.min
    BY <2>3, MinIsLeast
  <2> QED  BY <1>0, <2>1, <2>2, <2>4, <2>5
<1>5. ASSUME NEW a \in Times, NEW S, a \in S, \A x \in S : x = a \/ x = 0
      PROVE  Max(S) = a /\ LeastOrZero(S \ {0}) = a
  <2>1. S \in SUBSET (0 .. MaxClock)
    BY <1>0, <1>5
  <2>2. Max(S) \in S /\ a <= Max(S)
    BY <1>0, <1>5, <2>1, MaxIsGreatest
  <2>3. Max(S) = a
    <3>1. a \in Nat
      BY <1>0
    <3>2. Max(S) = a \/ Max(S) = 0
      BY <1>5, <2>2
    <3> QED  BY <2>2, <3>1, <3>2
  <2>4. CASE a = 0
    BY <1>5, <2>3, <2>4 DEF LeastOrZero
  <2>5. CASE a # 0
    <3>1. S \ {0} = {a}
      BY <1>5, <2>5
    <3>2. Min({a}) \in {a}
      BY <1>0, MinIsLeast
    <3> QED  BY <2>3, <3>1, <3>2 DEF LeastOrZero
  <2> QED  BY <2>4, <2>5
<1>6. c.max = s.max
  <2> DEFINE S == {s.max} \cup {news[d].max : d \in Doers}
  <2>1. s.max \in Times /\ s.max \in S /\ \A x \in S : x = s.max \/ x = 0
    BY DEF Summary, Nothing
  <2>2. c.max = Max(S)
    BY DEF Combined
  <2> HIDE DEF S, c
  <2> QED  BY <1>5, <2>1, <2>2
<1>7. c.end_ns = s.end_ns
  <2> DEFINE S == {s.end_ns} \cup {news[d].end_ns : d \in Doers}
  <2>1. /\ s.end_ns \in Times /\ s.end_ns \in S
        /\ \A x \in S : x = s.end_ns \/ x = 0
    BY DEF Summary, Nothing
  <2>2. c.end_ns = Max(S)
    BY DEF Combined
  <2> HIDE DEF S, c
  <2> QED  BY <1>5, <2>1, <2>2
<1>8. c.begin_ns = s.begin_ns
  <2> DEFINE S == {s.begin_ns} \cup {news[d].begin_ns : d \in Doers}
  <2>1. /\ s.begin_ns \in Times /\ s.begin_ns \in S
        /\ \A x \in S : x = s.begin_ns \/ x = 0
    BY DEF Summary, Nothing
  <2>2. c.begin_ns = LeastOrZero(S \ {0})
    BY DEF Combined
  <2> HIDE DEF S, c
  <2> QED  BY <1>5, <2>1, <2>2
<1>9. c = [n |-> c.n, sum |-> c.sum, min |-> c.min, max |-> c.max,
           begin_ns |-> c.begin_ns, end_ns |-> c.end_ns,
           buckets |-> c.buckets]
  BY DEF Combined
<1>10. s = [n |-> s.n, sum |-> s.sum, min |-> s.min, max |-> s.max,
            begin_ns |-> s.begin_ns, end_ns |-> s.end_ns,
            buckets |-> s.buckets]
  BY DEF Summary
<1> HIDE DEF c
<1>11. c = s
  BY <1>2, <1>3, <1>4, <1>6, <1>7, <1>8, <1>9, <1>10
<1> QED  BY <1>11 DEF c

(* The histograms of the doers and the global ones as summaries. *)

(* What is known of a benchmark is a summary. *)
LEMMA KnownType ==
    ASSUME NEW g \in BenchType
    PROVE  /\ Known(g) \in Summary
           /\ Known(g).min = Shared!Lesser(g.min, g.whole_min)
           /\ Known(g).max = Shared!Greater(g.max, g.whole_max)
<1>0. MaxClock \in Nat /\ Unset \in Nat /\ Times = 0 .. MaxClock
  BY BoundsAssumption DEF Times, Unset
<1>1. Min({g.min, g.whole_min}) = Shared!Lesser(g.min, g.whole_min)
  <2>1. g.min \in Nat /\ g.whole_min \in Nat
    BY <1>0 DEF BenchType
  <2>2. /\ Min({g.min, g.whole_min}) \in {g.min, g.whole_min}
        /\ \A x \in {g.min, g.whole_min} : Min({g.min, g.whole_min}) <= x
    BY <2>1, MinIsLeast
  <2> QED  BY <2>1, <2>2 DEF Shared!Lesser
<1>2. Max({g.max, g.whole_max}) = Shared!Greater(g.max, g.whole_max)
  <2>1. g.max \in 0 .. MaxClock /\ g.whole_max \in 0 .. MaxClock
    BY <1>0 DEF BenchType
  <2>2. {g.max, g.whole_max} \in SUBSET (0 .. MaxClock)
    BY <2>1
  <2>3. /\ Max({g.max, g.whole_max}) \in {g.max, g.whole_max}
        /\ \A x \in {g.max, g.whole_max} : x <= Max({g.max, g.whole_max})
    BY <1>0, <2>2, MaxIsGreatest
  <2> QED  BY <1>0, <2>1, <2>3 DEF Shared!Greater
<1>3. Shared!Lesser(g.min, g.whole_min) \in 0 .. Unset
  BY DEF BenchType, Shared!Lesser
<1>4. Shared!Greater(g.max, g.whole_max) \in Times
  BY DEF BenchType, Shared!Greater
<1>5. g.buckets \in [Buckets -> Int]
  BY DEF BenchType
<1>6. Known(g) \in Summary
  BY <1>1, <1>2, <1>3, <1>4, <1>5 DEF Known, Summary, BenchType
<1> QED  BY <1>1, <1>2, <1>6 DEF Known

(* So is what a doer has not merged, if nothing was unmeasured. *)
LEMMA UnreportedType ==
    ASSUME NEW h \in HistogramType, h.last.n <= h.acc.n,
           h.last.sum <= h.acc.sum
    PROVE  Unreported(h) \in NewsType
<1>1. h.acc.n - h.last.n \in Nat /\ h.acc.sum - h.last.sum \in Nat
  BY DEF HistogramType, StatType
<1> QED  BY <1>1 DEF Unreported, NewsType, HistogramType

(* News that are none, of a time span that is known, change nothing. *)
LEMMA Absorbed ==
    ASSUME NEW s \in Summary, NEW x \in NewsType, x.n = 0, x.sum = 0,
           x.min = Unset, x.max = 0, x.buckets = NoBuckets, Covered(x, s)
    PROVE  Join(s, x) = s
<1>0. MaxClock \in Nat /\ Unset \in Nat /\ Times = 0 .. MaxClock
  BY BoundsAssumption DEF Times, Unset
<1>1. s.n + x.n = s.n /\ s.sum + x.sum = s.sum
  BY DEF Summary
<1>2. Shared!Lesser(s.min, x.min) = s.min
  BY <1>0 DEF Summary, Shared!Lesser
<1>3. Shared!Greater(s.max, x.max) = s.max
  BY <1>0 DEF Summary, Shared!Greater
<1>4. Shared!Greater(s.end_ns, x.end_ns) = s.end_ns
  BY <1>0 DEF Summary, NewsType, Shared!Greater, Covered
<1>5. Shared!Earlier(s.begin_ns, x.begin_ns) = s.begin_ns
  BY <1>0 DEF Summary, NewsType, Shared!Earlier, Shared!Lesser, Covered
<1>6. [k \in Buckets |-> s.buckets[k] + x.buckets[k]] = s.buckets
  BY DEF Summary, NoBuckets
<1>7. s = [n |-> s.n, sum |-> s.sum, min |-> s.min, max |-> s.max,
           begin_ns |-> s.begin_ns, end_ns |-> s.end_ns,
           buckets |-> s.buckets]
  BY DEF Summary
<1> QED  BY <1>1, <1>2, <1>3, <1>4, <1>5, <1>6, <1>7 DEF Join

(* In particular a doer that is not in a run changes nothing. *)
LEMMA NothingAbsorbed ==
    ASSUME NEW s \in Summary
    PROVE  Join(s, Nothing) = s
<1>1. Covered(Nothing, s)
  BY BoundsAssumption DEF Covered, Nothing, Summary, Times
<1>2. /\ Nothing.n = 0 /\ Nothing.sum = 0 /\ Nothing.min = Unset
      /\ Nothing.max = 0 /\ Nothing.buckets = NoBuckets
  BY DEF Nothing
<1> QED  BY <1>1, <1>2, NothingType, Absorbed

(* A histogram without news adds nothing. *)
LEMMA StaleAbsorbed ==
    ASSUME NEW g \in BenchType, NEW h \in HistogramType,
           h.acc.n = h.last.n, NoNews(h), Covered(h, g)
    PROVE  Join(Known(g), Unreported(h)) = Known(g)
<1> DEFINE x == Unreported(h)
           s == Known(g)
<1>1. h.acc.n \in Nat /\ h.acc.sum \in Nat
  BY DEF HistogramType, StatType
<1>2. h.last.n <= h.acc.n /\ h.last.sum <= h.acc.sum
  BY <1>1 DEF NoNews
<1>3. x \in NewsType
  BY <1>2, UnreportedType
<1>4. /\ x.n = 0 /\ x.sum = 0 /\ x.min = Unset /\ x.max = 0
      /\ x.buckets = NoBuckets
  BY <1>1 DEF Unreported, NoNews
<1>5. Covered(x, s)
  BY DEF Covered, Unreported, Known
<1>6. s \in Summary
  BY KnownType
<1> QED  BY <1>3, <1>4, <1>5, <1>6, Absorbed

(* ia_histogram_merge_locked joins the doer's news to what is known, if   *)
(* the doer has measured anything.                                        *)
LEMMA MergeJoins ==
    ASSUME NEW g \in BenchType, NEW h \in HistogramType, h.begin_ns # 0
    PROVE  Known(Merged(g, h)) = Join(Known(g), Unreported(h))
<1> DEFINE m == Merged(g, h)
           l == Known(m)
           r == Join(Known(g), Unreported(h))
<1>0. MaxClock \in Nat /\ Unset \in Nat /\ Times = 0 .. MaxClock
  BY BoundsAssumption DEF Times, Unset
<1>1. m \in BenchType
  BY BenchTypes
<1>2. /\ m.acc = [n |-> g.acc.n + (h.acc.n - h.last.n),
                  sum |-> g.acc.sum + (h.acc.sum - h.last.sum)]
      /\ m.buckets = [k \in Buckets |-> g.buckets[k] + h.buckets[k]]
  BY DEF Merged, BenchType
<1>3. /\ m.begin_ns = IF g.begin_ns = 0 \/ g.begin_ns > h.begin_ns
                      THEN h.begin_ns ELSE g.begin_ns
      /\ m.end_ns = IF g.end_ns < h.end_ns THEN h.end_ns ELSE g.end_ns
  BY DEF Merged, BenchType
<1>4. /\ m.min = IF g.min > h.min THEN h.min ELSE g.min
      /\ m.max = IF g.max < h.max THEN h.max ELSE g.max
      /\ m.whole_min = g.whole_min /\ m.whole_max = g.whole_max
  BY DEF Merged, BenchType
<1>5. /\ g.min \in Nat /\ g.max \in Nat /\ g.whole_min \in Nat
      /\ g.whole_max \in Nat /\ g.begin_ns \in Nat /\ g.end_ns \in Nat
      /\ h.min \in Nat /\ h.max \in Nat /\ h.begin_ns \in Nat
      /\ h.end_ns \in Nat
  BY <1>0 DEF BenchType, HistogramType
<1> HIDE DEF m
<1>6. l.min = r.min
  <2>1. l.min = Shared!Lesser(m.min, m.whole_min)
    BY <1>1, KnownType
  <2>2. r.min = Shared!Lesser(Shared!Lesser(g.min, g.whole_min), h.min)
    BY KnownType DEF Join, Unreported
  <2> HIDE DEF l, r
  <2> QED  BY <1>4, <1>5, <2>1, <2>2 DEF Shared!Lesser
<1>7. l.max = r.max
  <2>1. l.max = Shared!Greater(m.max, m.whole_max)
    BY <1>1, KnownType
  <2>2. r.max = Shared!Greater(Shared!Greater(g.max, g.whole_max), h.max)
    BY KnownType DEF Join, Unreported
  <2> HIDE DEF l, r
  <2> QED  BY <1>4, <1>5, <2>1, <2>2 DEF Shared!Greater
<1>8. l.begin_ns = r.begin_ns
  <2>1. l.begin_ns = m.begin_ns
    BY DEF Known
  <2>2. r.begin_ns = Shared!Earlier(g.begin_ns, h.begin_ns)
    BY DEF Join, Unreported, Known
  <2> HIDE DEF l, r
  <2> QED  BY <1>3, <1>5, <2>1, <2>2 DEF Shared!Earlier, Shared!Lesser
<1>9. l.end_ns = r.end_ns
  <2>1. l.end_ns = m.end_ns
    BY DEF Known
  <2>2. r.end_ns = Shared!Greater(g.end_ns, h.end_ns)
    BY DEF Join, Unreported, Known
  <2> HIDE DEF l, r
  <2> QED  BY <1>3, <1>5, <2>1, <2>2 DEF Shared!Greater
<1>10. l.n = r.n /\ l.sum = r.sum /\ l.buckets = r.buckets
  BY <1>2 DEF Known, Join, Unreported
<1>11. l = [n |-> l.n, sum |-> l.sum, min |-> l.min, max |-> l.max,
            begin_ns |-> l.begin_ns, end_ns |-> l.end_ns,
            buckets |-> l.buckets]
  BY DEF Known
<1>12. r = [n |-> r.n, sum |-> r.sum, min |-> r.min, max |-> r.max,
            begin_ns |-> r.begin_ns, end_ns |-> r.end_ns,
            buckets |-> r.buckets]
  BY DEF Join
<1> HIDE DEF l, r
<1>13. l = r
  BY <1>6, <1>7, <1>8, <1>9, <1>10, <1>11, <1>12
<1> QED  BY <1>13 DEF l, r, m

(* ... and then the global histogram covers the doer's. *)
LEMMA MergeCovers ==
    ASSUME NEW g \in BenchType, NEW h \in HistogramType, h.begin_ns # 0
    PROVE  Covered(h, Merged(g, h))
<1>1. /\ Merged(g, h).begin_ns = IF g.begin_ns = 0 \/ g.begin_ns > h.begin_ns
                                 THEN h.begin_ns ELSE g.begin_ns
      /\ Merged(g, h).end_ns = IF g.end_ns < h.end_ns
                               THEN h.end_ns ELSE g.end_ns
  BY DEF Merged, BenchType
<1>2. /\ g.begin_ns \in Nat /\ g.end_ns \in Nat
      /\ h.begin_ns \in Nat /\ h.end_ns \in Nat
  BY BoundsAssumption DEF BenchType, HistogramType, Times
<1> QED  BY <1>1, <1>2 DEF Covered

(* ia_histogram_checkpoint moves the extremes of the row to the whole. *)
LEMMA RowEndKnows ==
    ASSUME NEW g \in BenchType
    PROVE  /\ Known(RowEnd(g)) = Known(g)
           /\ RowEnd(g).whole_min = Known(g).min
           /\ RowEnd(g).whole_max = Known(g).max
<1> DEFINE m == RowEnd(g)
           l == Known(m)
           r == Known(g)
<1>0. MaxClock \in Nat /\ Unset \in Nat /\ Times = 0 .. MaxClock
  BY BoundsAssumption DEF Times, Unset
<1>1. m \in BenchType
  <2>1. 0 \in Times /\ Unset \in 0 .. Unset
    BY <1>0
  <2> QED  BY <2>1 DEF RowEnd, BenchType
<1>2. /\ m.acc = g.acc /\ m.buckets = g.buckets
      /\ m.begin_ns = g.begin_ns /\ m.end_ns = g.end_ns
      /\ m.min = Unset /\ m.max = 0
  BY DEF RowEnd, BenchType
<1>3. /\ m.whole_min = IF g.whole_min > g.min THEN g.min ELSE g.whole_min
      /\ m.whole_max = IF g.whole_max < g.max THEN g.max ELSE g.whole_max
  BY DEF RowEnd, BenchType
<1>4. /\ g.min \in 0 .. Unset /\ g.max \in Nat /\ g.whole_min \in 0 .. Unset
      /\ g.whole_max \in Nat
  BY <1>0 DEF BenchType
<1> HIDE DEF m
<1>5. r.min = Shared!Lesser(g.min, g.whole_min)
      /\ r.max = Shared!Greater(g.max, g.whole_max)
  BY KnownType
<1>6. l.min = Shared!Lesser(m.min, m.whole_min)
      /\ l.max = Shared!Greater(m.max, m.whole_max)
  BY <1>1, KnownType
<1>7. l.min = r.min /\ m.whole_min = r.min
  <2> HIDE DEF l, r
  <2> QED  BY <1>0, <1>2, <1>3, <1>4, <1>5, <1>6 DEF Shared!Lesser
<1>8. l.max = r.max /\ m.whole_max = r.max
  <2> HIDE DEF l, r
  <2> QED  BY <1>0, <1>2, <1>3, <1>4, <1>5, <1>6 DEF Shared!Greater
<1>9. l = r
  <2>1. /\ l.n = r.n /\ l.sum = r.sum /\ l.begin_ns = r.begin_ns
        /\ l.end_ns = r.end_ns /\ l.buckets = r.buckets
    BY <1>2 DEF Known
  <2>2. l = [n |-> l.n, sum |-> l.sum, min |-> l.min, max |-> l.max,
             begin_ns |-> l.begin_ns, end_ns |-> l.end_ns,
             buckets |-> l.buckets]
    BY DEF Known
  <2>3. r = [n |-> r.n, sum |-> r.sum, min |-> r.min, max |-> r.max,
             begin_ns |-> r.begin_ns, end_ns |-> r.end_ns,
             buckets |-> r.buckets]
    BY DEF Known
  <2> HIDE DEF l, r
  <2> QED  BY <1>7, <1>8, <2>1, <2>2, <2>3
<1> QED  BY <1>7, <1>8, <1>9 DEF l, r, m

(* ia_histogram_add adds one operation to the doer's news. *)
LEMMA AddMeasures ==
    ASSUME clock \in 1 .. MaxClock, NEW h \in HistogramType,
           NEW t0 \in 1 .. clock, h.begin_ns <= t0, h.end_ns <= clock,
           h.last.n <= h.acc.n, h.last.sum <= h.acc.sum
    PROVE  Unreported(Accumulated(h, t0)) =
             Shared!With(Unreported(h), t0, clock)
<1> DEFINE a == Accumulated(h, t0)
           x == Unreported(h)
           l == Unreported(a)
           r == Shared!With(x, t0, clock)
           lat == clock - t0
<1>0. MaxClock \in Nat /\ clock \in Nat /\ t0 \in Nat /\ t0 # 0
      /\ lat \in Nat
  BY BoundsAssumption
<1>1. /\ h.acc.n \in Nat /\ h.last.n \in Nat /\ h.acc.sum \in Nat
      /\ h.last.sum \in Nat /\ h.min \in Int /\ h.max \in Int
      /\ h.begin_ns \in Nat /\ h.end_ns \in Nat
  BY DEF HistogramType, StatType, Times
<1>2. /\ a.begin_ns = (IF h.begin_ns = 0 THEN t0 ELSE h.begin_ns)
      /\ a.end_ns = clock
      /\ a.acc = [n |-> h.acc.n + 1, sum |-> h.acc.sum + lat]
      /\ a.last = h.last
  BY DEF Accumulated, HistogramType
<1>3. /\ a.min = (IF h.min > lat THEN lat ELSE h.min)
      /\ a.max = (IF h.max < lat THEN lat ELSE h.max)
      /\ a.buckets = [h.buckets EXCEPT ![BucketOf[lat]] = @ + 1]
  BY DEF Accumulated, HistogramType
<1> HIDE DEF a
<1>4. /\ l.n = a.acc.n - a.last.n /\ l.sum = a.acc.sum - a.last.sum
      /\ l.min = a.min /\ l.max = a.max /\ l.begin_ns = a.begin_ns
      /\ l.end_ns = a.end_ns /\ l.buckets = a.buckets
  BY DEF Unreported
<1>5. /\ x.n = h.acc.n - h.last.n /\ x.sum = h.acc.sum - h.last.sum
      /\ x.min = h.min /\ x.max = h.max /\ x.begin_ns = h.begin_ns
      /\ x.end_ns = h.end_ns /\ x.buckets = h.buckets
  BY DEF Unreported
<1> HIDE DEF x
<1>6. /\ r.n = x.n + 1 /\ r.sum = x.sum + lat
      /\ r.min = Shared!Lesser(x.min, lat)
      /\ r.max = Shared!Greater(x.max, lat)
      /\ r.begin_ns = Shared!Earlier(x.begin_ns, t0)
      /\ r.end_ns = Shared!Greater(x.end_ns, clock)
      /\ r.buckets = [x.buckets EXCEPT ![BucketOf[lat]] = @ + 1]
  BY DEF Shared!With
<1>7. l = [n |-> l.n, sum |-> l.sum, min |-> l.min, max |-> l.max,
           begin_ns |-> l.begin_ns, end_ns |-> l.end_ns,
           buckets |-> l.buckets]
  BY DEF Unreported
<1>8. r = [n |-> r.n, sum |-> r.sum, min |-> r.min, max |-> r.max,
           begin_ns |-> r.begin_ns, end_ns |-> r.end_ns,
           buckets |-> r.buckets]
  BY DEF Shared!With
<1> HIDE DEF l, r, lat
<1>9. l.n = r.n /\ l.sum = r.sum
  <2>1. a.acc.n = h.acc.n + 1 /\ a.acc.sum = h.acc.sum + lat
    BY <1>2
  <2>2. l.n = (h.acc.n + 1) - h.last.n /\ r.n = (h.acc.n - h.last.n) + 1
    BY <1>2, <1>4, <1>5, <1>6, <2>1
  <2>3. /\ l.sum = (h.acc.sum + lat) - h.last.sum
        /\ r.sum = (h.acc.sum - h.last.sum) + lat
    BY <1>2, <1>4, <1>5, <1>6, <2>1
  <2> QED  BY <1>0, <1>1, <2>2, <2>3
<1>10. l.min = r.min
  BY <1>0, <1>1, <1>3, <1>4, <1>5, <1>6 DEF Shared!Lesser
<1>11. l.max = r.max
  BY <1>0, <1>1, <1>3, <1>4, <1>5, <1>6 DEF Shared!Greater
<1>12. l.begin_ns = r.begin_ns
  BY <1>0, <1>1, <1>2, <1>4, <1>5, <1>6 DEF Shared!Earlier, Shared!Lesser
<1>13. l.end_ns = r.end_ns
  BY <1>0, <1>1, <1>2, <1>4, <1>5, <1>6 DEF Shared!Greater
<1>14. l.buckets = r.buckets
  BY <1>3, <1>4, <1>5, <1>6
<1>15. l = r
  BY <1>7, <1>8, <1>9, <1>10, <1>11, <1>12, <1>13, <1>14
<1> QED  BY <1>15 DEF l, r, a, x

----------------------------------------------------------------------------
(* Then what each step does to the news of the doers and to the totals.   *)

(* What is true of a doer's news stays true while others go on. *)
LEMMA NewsLast ==
    ASSUME NEW label, NEW h \in HistogramType, NEW t0,
           NEW g \in BenchType, NEW f \in BenchType, Covered(g, f),
           NEW now \in Nat, NEW later \in Nat, now <= later,
           NewsOk(label, h, g, t0, now)
    PROVE  NewsOk(label, h, f, t0, later)
<1>1. /\ h.begin_ns \in Nat /\ h.end_ns \in Nat /\ g.begin_ns \in Nat
      /\ g.end_ns \in Nat /\ f.begin_ns \in Nat /\ f.end_ns \in Nat
  BY BoundsAssumption DEF HistogramType, BenchType, Times
<1>2. Covered(h, g) => Covered(h, f)
  BY <1>1 DEF Covered
<1>3. h.begin_ns <= now /\ h.end_ns <= now =>
        h.begin_ns <= later /\ h.end_ns <= later
  BY <1>1
<1> QED  BY <1>2, <1>3 DEF NewsOk

(* A step of doer d keeps NewsInv if it keeps d's own part of it. *)
LEMMA NewsStep ==
    ASSUME TypeOK, TypeOK', NewsInv, NEW d \in Doers, clock <= clock',
           \A b \in Benches : Covered(per_bench[b], per_bench'[b]),
           \A e \in Doers : e # d => /\ pc'[e] = pc[e] /\ hg'[e] = hg[e]
                                     /\ stamp'[e] = stamp[e],
           NewsOk(pc'[d], hg'[d], per_bench'[hg'[d].bench], stamp'[d], clock')
    PROVE  NewsInv'
<1> SUFFICES ASSUME NEW e \in Doers, e # d
             PROVE  NewsOk(pc[e], hg[e], per_bench'[hg[e].bench], stamp[e],
                           clock')
  BY DEF NewsInv
<1> DEFINE b == hg[e].bench
<1>1. /\ hg[e] \in HistogramType /\ b \in Benches
      /\ clock \in Nat /\ clock' \in Nat
  BY BoundsAssumption DEF TypeOK, HistogramType
<1>2. per_bench[b] \in BenchType /\ per_bench'[b] \in BenchType
  BY <1>1 DEF TypeOK
<1>3. NewsOk(pc[e], hg[e], per_bench[b], stamp[e], clock)
  BY DEF NewsInv
<1> QED  BY <1>1, <1>2, <1>3, NewsLast

(* The news of every doer have their type. *)
LEMMA NewsTyped ==
    ASSUME NEW label, NEW h \in HistogramType, NEW g, NEW t0, NEW now,
           NewsOk(label, h, g, t0, now), label \in Unmerged
    PROVE  Unreported(h) \in NewsType
  BY UnreportedType DEF NewsOk

(* The total of a benchmark stays the same if what doer d and the global  *)
(* histogram know of it together does.                                    *)
LEMMA TotalSame ==
    ASSUME TypeOK, TypeOK', NewsInv, NewsInv', NEW d \in Doers,
           NEW b \in Benches,
           \A e \in Doers : e # d => pc'[e] = pc[e] /\ hg'[e] = hg[e],
           Join(Known(per_bench'[b]), News(d, b)') =
             Join(Known(per_bench[b]), News(d, b))
    PROVE  TotalOf(b)' = TotalOf(b)
<1> DEFINE news == [e \in Doers |-> News(e, b)]
           more == [e \in Doers |-> News(e, b)']
           s == Known(per_bench[b])
           t == Known(per_bench'[b])
<1>1. s \in Summary /\ t \in Summary
  BY KnownType DEF TypeOK
<1>2. news \in [Doers -> NewsType]
  <2> SUFFICES ASSUME NEW e \in Doers PROVE News(e, b) \in NewsType
    OBVIOUS
  <2>1. hg[e] \in HistogramType
    BY DEF TypeOK
  <2>2. NewsOk(pc[e], hg[e], per_bench[hg[e].bench], stamp[e], clock)
    BY DEF NewsInv
  <2> QED  BY <2>1, <2>2, NewsTyped, NothingType DEF News
<1>3. more \in [Doers -> NewsType]
  <2> SUFFICES ASSUME NEW e \in Doers PROVE News(e, b)' \in NewsType
    OBVIOUS
  <2>1. hg'[e] \in HistogramType
    BY DEF TypeOK
  <2>2. NewsOk(pc'[e], hg'[e], per_bench'[hg'[e].bench], stamp'[e], clock')
    BY DEF NewsInv
  <2> QED  BY <2>1, <2>2, NewsTyped, NothingType DEF News
<1>4. \A e \in Doers : e # d => more[e] = news[e]
  BY DEF News
<1>5. Join(t, more[d]) = Join(s, news[d])
  OBVIOUS
<1>6. TotalOf(b) = Combined(s, news)
  BY DEF TotalOf
<1>7. TotalOf(b)' = Combined(t, more)
  BY DEF TotalOf
<1> HIDE DEF s, t, news, more
<1> QED  BY <1>1, <1>2, <1>3, <1>4, <1>5, <1>6, <1>7, Replaced

(* A step of doer d that merges nothing. *)
LEMMA UnmergedStep ==
    ASSUME TypeOK, TypeOK', NewsInv, NEW d \in Doers,
           clock' = clock, per_bench' = per_bench,
           \A e \in Doers : e # d => /\ pc'[e] = pc[e] /\ hg'[e] = hg[e]
                                     /\ stamp'[e] = stamp[e],
           NewsOk(pc'[d], hg'[d], per_bench[hg'[d].bench], stamp'[d], clock),
           \A b \in Benches : Join(Known(per_bench[b]), News(d, b)') =
                                Join(Known(per_bench[b]), News(d, b))
    PROVE  NewsInv' /\ \A b \in Benches : TotalOf(b)' = TotalOf(b)
<1>1. clock <= clock'
  BY BoundsAssumption DEF TypeOK
<1>2. ASSUME NEW b \in Benches PROVE Covered(per_bench[b], per_bench'[b])
  <2>1. per_bench[b] \in BenchType
    BY DEF TypeOK
  <2>2. per_bench[b].begin_ns \in Int /\ per_bench[b].end_ns \in Int
    BY <2>1 DEF BenchType, Times
  <2> QED  BY <2>2 DEF Covered
<1>3. NewsInv'
  BY <1>1, <1>2, NewsStep
<1>4. ASSUME NEW b \in Benches PROVE TotalOf(b)' = TotalOf(b)
  BY <1>3, TotalSame
<1> QED  BY <1>3, <1>4

(* What NewsInv says of one doer, and the types around it. *)
LEMMA NewsOfDoer ==
    ASSUME TypeOK, NewsInv, NEW d \in Doers
    PROVE  /\ NewsOk(pc[d], hg[d], per_bench[hg[d].bench], stamp[d], clock)
           /\ hg[d] \in HistogramType /\ hg[d].bench \in Benches
           /\ per_bench[hg[d].bench] \in BenchType
           /\ clock \in Nat /\ stamp[d] \in Times
           /\ pc[d] \in Labels /\ pc \in [Doers -> Labels]
           /\ stamp \in [Doers -> Times] /\ hg \in [Doers -> HistogramType]
<1>1. hg[d] \in HistogramType /\ hg[d].bench \in Benches
  BY DEF TypeOK, HistogramType
<1> QED  BY <1>1, BoundsAssumption DEF TypeOK, NewsInv

(* ia_histogram_init measures nothing. *)
LEMMA HistogramInitNews ==
    ASSUME TypeOK, TypeOK', NewsInv, NEW d \in Doers, HistogramInit(d)
    PROVE  NewsInv' /\ \A b \in Benches : TotalOf(b)' = TotalOf(b)
<1>0. /\ pc[d] = "new" /\ pc'[d] = "ready" /\ clock' = clock
      /\ per_bench' = per_bench
      /\ \A e \in Doers : e # d => /\ pc'[e] = pc[e] /\ hg'[e] = hg[e]
                                   /\ stamp'[e] = stamp[e]
  BY NewsOfDoer DEF HistogramInit, Goto
<1>1. NewsOk(pc'[d], hg'[d], per_bench[hg'[d].bench], stamp'[d], clock)
  BY <1>0 DEF NewsOk, Running, Holding, Unmerged
<1>2. ASSUME NEW b \in Benches PROVE News(d, b)' = News(d, b)
  BY <1>0 DEF News, Unmerged
<1> QED  BY <1>0, <1>1, <1>2, UnmergedStep

(* ia_histogram_reset: the doer starts a run with nothing. *)
LEMMA HistogramResetNews ==
    ASSUME TypeOK, TypeOK', NewsInv, NEW d \in Doers, NEW c \in Benches,
           HistogramReset(d, c)
    PROVE  NewsInv' /\ \A b \in Benches : TotalOf(b)' = TotalOf(b)
<1> DEFINE h == ResetHistogram(hg[d], c)
<1>0. /\ pc[d] = "ready" /\ pc'[d] = "bench" /\ clock' = clock
      /\ per_bench' = per_bench /\ hg'[d] = h
      /\ \A e \in Doers : e # d => /\ pc'[e] = pc[e] /\ hg'[e] = hg[e]
                                   /\ stamp'[e] = stamp[e]
  BY NewsOfDoer DEF HistogramReset, Goto, shared
<1>1. /\ h.acc = Zero /\ h.last = Zero /\ h.min = Unset /\ h.max = 0
      /\ h.begin_ns = 0 /\ h.end_ns = 0 /\ h.buckets = NoBuckets
      /\ h.bench = c
  BY DEF ResetHistogram, EmptyHistogram
<1>2. h \in HistogramType /\ clock \in Nat /\ per_bench[c] \in BenchType
  BY <1>0, BoundsAssumption DEF TypeOK
<1> HIDE DEF h
<1>3. NoNews(h) /\ Covered(h, per_bench[c])
  <2>1. 0 <= per_bench[c].end_ns
    BY <1>2, BoundsAssumption DEF BenchType, Times
  <2> QED  BY <1>1, <2>1 DEF NoNews, Covered, Zero
<1>4. NewsOk(pc'[d], hg'[d], per_bench[hg'[d].bench], stamp'[d], clock)
  BY <1>0, <1>1, <1>2, <1>3 DEF NewsOk, Zero
<1>5. ASSUME NEW b \in Benches
      PROVE  Join(Known(per_bench[b]), News(d, b)') =
               Join(Known(per_bench[b]), News(d, b))
  <2>1. News(d, b) = Nothing
    BY <1>0 DEF News, Unmerged
  <2>2. Known(per_bench[b]) \in Summary
    BY KnownType DEF TypeOK
  <2>3. CASE b = c
    <3>1. News(d, b)' = Unreported(h)
      BY <2>3, <1>0, <1>1 DEF News, Unmerged
    <3>2. Join(Known(per_bench[c]), Unreported(h)) = Known(per_bench[c])
      BY <1>1, <1>2, <1>3, StaleAbsorbed
    <3> QED  BY <2>1, <2>2, <2>3, <3>1, <3>2, NothingAbsorbed
  <2>4. CASE b # c
    BY <2>1, <2>4, <1>0, <1>1 DEF News
  <2> QED  BY <2>3, <2>4
<1> QED  BY <1>0, <1>4, <1>5, UnmergedStep

(* An operation that is running is not measured yet. *)
LEMMA OperationStartNews ==
    ASSUME TypeOK, TypeOK', NewsInv, NEW d \in Doers, OperationStart(d)
    PROVE  NewsInv' /\ \A b \in Benches : TotalOf(b)' = TotalOf(b)
<1>0. /\ pc[d] = "bench" /\ pc'[d] = "op" /\ clock' = clock
      /\ per_bench' = per_bench /\ hg' = hg /\ stamp'[d] = clock
      /\ \A e \in Doers : e # d => /\ pc'[e] = pc[e] /\ hg'[e] = hg[e]
                                   /\ stamp'[e] = stamp[e]
  BY NewsOfDoer DEF OperationStart, Goto, shared
<1>1. NewsOk("bench", hg[d], per_bench[hg[d].bench], stamp[d], clock)
      /\ clock >= 1
  BY <1>0, NewsOfDoer DEF TypeOK
<1>2. NewsOk(pc'[d], hg'[d], per_bench[hg'[d].bench], stamp'[d], clock)
  BY <1>0, <1>1 DEF NewsOk, Running, Holding, Unmerged
<1>3. ASSUME NEW b \in Benches PROVE News(d, b)' = News(d, b)
  BY <1>0 DEF News, Unmerged
<1> QED  BY <1>0, <1>2, <1>3, UnmergedStep

(* Trying to lock leaves the news where they are. *)
LEMMA TryLockNews ==
    ASSUME TypeOK, TypeOK', NewsInv, NEW d \in Doers, TryLock(d)
    PROVE  NewsInv' /\ \A b \in Benches : TotalOf(b)' = TotalOf(b)
<1>0. /\ pc[d] = "trylock" /\ pc'[d] \in {"merge", "bench"} /\ clock' = clock
      /\ per_bench' = per_bench /\ hg' = hg
      /\ \A e \in Doers : e # d => /\ pc'[e] = pc[e] /\ hg'[e] = hg[e]
                                   /\ stamp'[e] = stamp[e]
  BY NewsOfDoer DEF TryLock, Goto
<1>1. NewsOk("trylock", hg[d], per_bench[hg[d].bench], stamp[d], clock)
  BY <1>0, NewsOfDoer
<1>2. NewsOk(pc'[d], hg'[d], per_bench[hg'[d].bench], stamp'[d], clock)
  BY <1>0, <1>1 DEF NewsOk, Running, Holding, Unmerged
<1>3. ASSUME NEW b \in Benches PROVE News(d, b)' = News(d, b)
  BY <1>0 DEF News, Unmerged
<1> QED  BY <1>0, <1>2, <1>3, UnmergedStep

(* Nor does getting the mutex at the end of the run move any. *)
LEMMA LockNews ==
    ASSUME TypeOK, TypeOK', NewsInv, NEW d \in Doers, Lock(d)
    PROVE  NewsInv' /\ \A b \in Benches : TotalOf(b)' = TotalOf(b)
<1>0. /\ pc[d] = "lock" /\ pc'[d] = "merge" /\ clock' = clock
      /\ per_bench' = per_bench /\ hg' = hg /\ stamp' = stamp
      /\ \A e \in Doers : e # d => /\ pc'[e] = pc[e] /\ hg'[e] = hg[e]
                                   /\ stamp'[e] = stamp[e]
  BY NewsOfDoer DEF Lock, Goto
<1>1. NewsOk("lock", hg[d], per_bench[hg[d].bench], stamp[d], clock)
  BY <1>0, NewsOfDoer
<1>2. NewsOk(pc'[d], hg'[d], per_bench[hg'[d].bench], stamp'[d], clock)
  BY <1>0, <1>1 DEF NewsOk, Running, Holding, Unmerged
<1>3. ASSUME NEW b \in Benches PROVE News(d, b)' = News(d, b)
  BY <1>0 DEF News, Unmerged
<1> QED  BY <1>0, <1>2, <1>3, UnmergedStep

(* A run may end without ia_histogram_merge only when it has no news. *)
LEMMA BenchmarkEndNews ==
    ASSUME TypeOK, TypeOK', NewsInv, NEW d \in Doers, BenchmarkEnd(d)
    PROVE  NewsInv' /\ \A b \in Benches : TotalOf(b)' = TotalOf(b)
<1>0. /\ pc[d] = "bench" /\ clock' = clock
      /\ IF hg[d].acc.n = hg[d].last.n THEN pc'[d] = "ready"
                                       ELSE pc'[d] = "lock"
      /\ per_bench' = per_bench /\ hg' = hg
      /\ \A e \in Doers : e # d => /\ pc'[e] = pc[e] /\ hg'[e] = hg[e]
                                   /\ stamp'[e] = stamp[e]
  BY NewsOfDoer DEF BenchmarkEnd, Goto, shared
<1>1. /\ NewsOk("bench", hg[d], per_bench[hg[d].bench], stamp[d], clock)
      /\ hg[d] \in HistogramType /\ hg[d].bench \in Benches
      /\ per_bench[hg[d].bench] \in BenchType
  BY <1>0, NewsOfDoer
<1>2. NewsOk(pc'[d], hg'[d], per_bench[hg'[d].bench], stamp'[d], clock)
  <2>1. CASE hg[d].acc.n = hg[d].last.n
    BY <2>1, <1>0 DEF NewsOk, Running, Holding, Unmerged
  <2>2. CASE hg[d].acc.n # hg[d].last.n
    BY <2>2, <1>0, <1>1 DEF NewsOk, Running, Holding, Unmerged
  <2> QED  BY <2>1, <2>2
<1>3. ASSUME NEW b \in Benches
      PROVE  Join(Known(per_bench[b]), News(d, b)') =
               Join(Known(per_bench[b]), News(d, b))
  <2>1. CASE hg[d].bench # b \/ hg[d].acc.n # hg[d].last.n
    BY <2>1, <1>0 DEF News, Unmerged
  <2>2. CASE hg[d].bench = b /\ hg[d].acc.n = hg[d].last.n
    <3>1. News(d, b)' = Nothing /\ News(d, b) = Unreported(hg[d])
      BY <2>2, <1>0 DEF News, Unmerged
    <3>2. NoNews(hg[d]) /\ Covered(hg[d], per_bench[b])
      BY <2>2, <1>1 DEF NewsOk, Unmerged
    <3>3. Join(Known(per_bench[b]), Unreported(hg[d])) = Known(per_bench[b])
      BY <2>2, <3>2, <1>1, StaleAbsorbed
    <3>4. Known(per_bench[b]) \in Summary
      BY <2>2, <1>1, KnownType
    <3> QED  BY <3>1, <3>3, <3>4, NothingAbsorbed
  <2> QED  BY <2>1, <2>2
<1> QED  BY <1>0, <1>2, <1>3, UnmergedStep

(* A doer that is between runs, or leaves, has nothing left to merge. *)
LEMMA LeavingNews ==
    ASSUME TypeOK, TypeOK', NewsInv, NEW d \in Doers,
           HistogramDestroy(d) \/ DestroyLocked(d) \/ DestroyUnlocked(d)
             \/ DestroyUnused(d)
    PROVE  NewsInv' /\ \A b \in Benches : TotalOf(b)' = TotalOf(b)
<1>0. /\ pc[d] \in {"ready", "relock", "leave"}
      /\ pc'[d] \in {"relock", "leave", "gone", "unused"} /\ clock' = clock
      /\ per_bench' = per_bench
      /\ \A e \in Doers : e # d => /\ pc'[e] = pc[e] /\ hg'[e] = hg[e]
                                   /\ stamp'[e] = stamp[e]
  <2>0. /\ pc \in [Doers -> Labels] /\ stamp \in [Doers -> Times]
        /\ hg \in [Doers -> HistogramType]
    BY NewsOfDoer
  <2>1. CASE HistogramDestroy(d)
    BY <2>0, <2>1 DEF HistogramDestroy, Goto, shared
  <2>2. CASE DestroyLocked(d)
    BY <2>0, <2>2 DEF DestroyLocked, Goto
  <2>3. CASE DestroyUnlocked(d)
    BY <2>0, <2>3 DEF DestroyUnlocked, Goto
  <2>4. CASE DestroyUnused(d)
    BY <2>0, <2>4 DEF DestroyUnused, Goto, shared
  <2> QED  BY <2>1, <2>2, <2>3, <2>4
<1>1. NewsOk(pc'[d], hg'[d], per_bench[hg'[d].bench], stamp'[d], clock)
  BY <1>0 DEF NewsOk, Running, Holding, Unmerged
<1>2. ASSUME NEW b \in Benches PROVE News(d, b)' = News(d, b)
  BY <1>0 DEF News, Unmerged
<1> QED  BY <1>0, <1>1, <1>2, UnmergedStep

(* A doer that has merged and unlocks has no news: it forgets them, or is *)
(* at the end of its run.                                                 *)
LEMMA UnlockNews ==
    ASSUME TypeOK, NEW d \in Doers, NEW seen \in {0, 1}, Unlock(d, seen),
           NEW G \in [Benches -> BenchType], NEW now,
           Covered(hg[d], G[hg[d].bench]),
           hg[d].begin_ns <= now, hg[d].end_ns <= now
    PROVE  /\ hg'[d].bench = hg[d].bench
           /\ NewsOk(pc'[d], hg'[d], G[hg'[d].bench], stamp'[d], now)
           /\ \A b \in Benches : Join(Known(G[b]), News(d, b)') = Known(G[b])
           /\ \A e \in Doers : e # d => /\ pc'[e] = pc[e] /\ hg'[e] = hg[e]
                                        /\ stamp'[e] = stamp[e]
<1> DEFINE h == hg[d]
           k == hg'[d]
           b0 == hg[d].bench
<1>0. /\ hg' \in [Doers -> HistogramType]
      /\ \A e \in Doers \ {d} : hg'[e] = hg[e]
      /\ \A e \in Doers : stamp'[e] = IF e = d THEN 0 ELSE stamp[e]
      /\ pc' = [pc EXCEPT ![d] = back[d]]
      /\ back[d] \in {"bench", "ready"}
  BY UnlockFacts
<1>1. /\ pc \in [Doers -> Labels] /\ hg \in [Doers -> HistogramType]
      /\ h \in HistogramType /\ b0 \in Benches
  BY DEF TypeOK, HistogramType
<1>2. /\ pc'[d] = back[d] /\ k \in HistogramType
      /\ \A e \in Doers : e # d => /\ pc'[e] = pc[e] /\ hg'[e] = hg[e]
                                   /\ stamp'[e] = stamp[e]
  BY <1>0, <1>1
<1>3. /\ k.bench = h.bench /\ k.begin_ns = h.begin_ns
      /\ k.end_ns = h.end_ns
      /\ back[d] = "bench" => /\ k.last = k.acc /\ k.min = Unset
                              /\ k.max = 0 /\ k.buckets = NoBuckets
  <2> DEFINE m == [h EXCEPT !.merge_evo = @ + seen]
             f == Forgotten(m, stamp[d])
  <2>1. m \in HistogramType /\ m.bench = h.bench
        /\ m.begin_ns = h.begin_ns /\ m.end_ns = h.end_ns
    BY <1>1 DEF HistogramType
  <2>2. hg'[d] = IF back[d] = "bench" THEN f ELSE m
    BY <1>1 DEF Unlock
  <2> HIDE DEF m
  <2>3. /\ f.bench = m.bench /\ f.begin_ns = m.begin_ns
        /\ f.end_ns = m.end_ns /\ f.last = f.acc /\ f.min = Unset
        /\ f.max = 0 /\ f.buckets = NoBuckets
    BY <2>1 DEF Forgotten, HistogramType
  <2> HIDE DEF f
  <2> QED  BY <2>1, <2>2, <2>3
<1> HIDE DEF h, k
<1>4. Covered(k, G[b0]) /\ G[b0] \in BenchType
  <2>1. Covered(h, G[b0]) /\ G[b0] \in BenchType
    BY <1>1 DEF h
  <2> QED  BY <1>3, <2>1 DEF Covered
<1>5. k.begin_ns <= now /\ k.end_ns <= now
  BY <1>3 DEF h
<1>6. NewsOk(pc'[d], k, G[b0], stamp'[d], now)
  <2>1. CASE back[d] = "ready"
    BY <2>1, <1>2 DEF NewsOk, Running, Holding, Unmerged
  <2>2. CASE back[d] = "bench"
    <3>1. k.acc.n \in Int /\ k.acc.sum \in Int
      BY <1>2 DEF HistogramType, StatType
    <3>2. NoNews(k) /\ k.last.n <= k.acc.n /\ k.last.sum <= k.acc.sum
      BY <2>2, <3>1, <1>3 DEF NoNews
    <3> QED  BY <2>2, <3>2, <1>2, <1>3, <1>4, <1>5 DEF NewsOk
  <2> QED  BY <2>1, <2>2, <1>0
<1>7. ASSUME NEW b \in Benches
      PROVE  Join(Known(G[b]), News(d, b)') = Known(G[b])
  <2>1. Known(G[b]) \in Summary
    BY KnownType
  <2>2. CASE News(d, b)' = Nothing
    BY <2>1, <2>2, NothingAbsorbed
  <2>3. CASE News(d, b)' # Nothing
    <3>1. /\ pc'[d] \in Unmerged /\ k.bench = b
          /\ News(d, b)' = Unreported(k)
      BY <2>3 DEF News, k
    <3>2. back[d] = "bench"
      BY <3>1, <1>0, <1>2 DEF Unmerged
    <3>3. b = b0
      BY <3>1, <1>3 DEF h
    <3>4. NoNews(k) /\ k.acc.n = k.last.n
      BY <3>2, <1>3 DEF NoNews
    <3> QED  BY <3>1, <3>3, <3>4, <1>2, <1>4, StaleAbsorbed
  <2> QED  BY <2>2, <2>3
<1> QED  BY <1>2, <1>3, <1>6, <1>7 DEF h, k

(* ia_histogram_merge_locked moves the news to the global histogram. *)
LEMMA MergeLockedNews ==
    ASSUME TypeOK, TypeOK', NewsInv, NEW d \in Doers, MergeLocked(d)
    PROVE  NewsInv' /\ \A b \in Benches : TotalOf(b)' = TotalOf(b)
<1> DEFINE h == hg[d]
           b0 == hg[d].bench
           g == per_bench[b0]
           m == Merged(g, h)
<1>0. /\ NewsOk(pc[d], h, g, stamp[d], clock) /\ h \in HistogramType
      /\ b0 \in Benches /\ g \in BenchType /\ clock \in Nat
      /\ pc \in [Doers -> Labels]
      /\ per_bench \in [Benches -> BenchType]
      /\ per_bench' \in [Benches -> BenchType]
  BY NewsOfDoer DEF TypeOK
<1>1. /\ pc[d] = "merge" /\ clock' = clock
      /\ per_bench' = [per_bench EXCEPT ![b0] = m]
  BY DEF MergeLocked
<1>2. /\ h.begin_ns # 0 /\ h.begin_ns <= clock /\ h.end_ns <= clock
  BY <1>0, <1>1 DEF NewsOk, Running, Holding, Unmerged
<1>3. m \in BenchType /\ Covered(h, m)
      /\ Known(m) = Join(Known(g), Unreported(h))
  BY <1>0, <1>2, BenchTypes, MergeCovers, MergeJoins
<1>4. Covered(g, m)
  <2>1. /\ m.begin_ns = (IF g.begin_ns = 0 \/ g.begin_ns > h.begin_ns
                         THEN h.begin_ns ELSE g.begin_ns)
        /\ m.end_ns = (IF g.end_ns < h.end_ns THEN h.end_ns ELSE g.end_ns)
    BY <1>0 DEF Merged, BenchType
  <2>2. /\ g.begin_ns \in Nat /\ g.end_ns \in Nat
        /\ h.begin_ns \in Nat /\ h.end_ns \in Nat
    BY <1>0, BoundsAssumption DEF BenchType, HistogramType, Times
  <2> HIDE DEF m, g, h
  <2> QED  BY <2>1, <2>2, <1>2 DEF Covered
<1> HIDE DEF m
<1>5. per_bench'[b0] = m
      /\ \A b \in Benches : b # b0 => per_bench'[b] = per_bench[b]
  BY <1>0, <1>1
<1>6. \A b \in Benches : Covered(per_bench[b], per_bench'[b])
  <2>1. ASSUME NEW b \in Benches, b # b0
        PROVE  Covered(per_bench[b], per_bench[b])
    <3>1. per_bench[b].begin_ns \in Int /\ per_bench[b].end_ns \in Int
      BY <1>0 DEF BenchType, Times
    <3> QED  BY <3>1 DEF Covered
  <2> QED  BY <2>1, <1>4, <1>5
<1>7. \/ pc' = [pc EXCEPT ![d] = "check"] /\ hg' = hg /\ stamp' = stamp
      \/ \E seen \in {0, 1} : Unlock(d, seen)
  BY DEF MergeLocked, Goto
<1>8. /\ NewsOk(pc'[d], hg'[d], per_bench'[hg'[d].bench], stamp'[d], clock')
      /\ \A b \in Benches : Join(Known(per_bench'[b]), News(d, b)') =
                              Known(per_bench'[b])
      /\ \A e \in Doers : e # d => /\ pc'[e] = pc[e] /\ hg'[e] = hg[e]
                                   /\ stamp'[e] = stamp[e]
  <2>1. CASE /\ pc' = [pc EXCEPT ![d] = "check"]
             /\ hg' = hg /\ stamp' = stamp
    <3>1. /\ pc'[d] = "check"
          /\ \A e \in Doers : e # d => pc'[e] = pc[e]
      BY <2>1, <1>0
    <3>2. NewsOk("check", h, m, stamp[d], clock)
      BY <1>2, <1>3 DEF NewsOk, Unmerged
    <3>3. ASSUME NEW b \in Benches
          PROVE  Join(Known(per_bench'[b]), News(d, b)') =
                   Known(per_bench'[b])
      <4>1. News(d, b)' = Nothing
        BY <3>1 DEF News, Unmerged
      <4>2. Known(per_bench'[b]) \in Summary
        BY <1>0, KnownType
      <4> QED  BY <4>1, <4>2, NothingAbsorbed
    <3> QED  BY <2>1, <3>1, <3>2, <3>3, <1>1, <1>5
  <2>2. ASSUME NEW seen \in {0, 1}, Unlock(d, seen)
        PROVE  <1>8!:
    <3>1. Covered(hg[d], per_bench'[hg[d].bench])
      BY <1>3, <1>5
    <3>2. hg[d].begin_ns <= clock /\ hg[d].end_ns <= clock
      BY <1>2
    <3> QED  BY <2>2, <3>1, <3>2, <1>0, <1>1, UnlockNews
  <2> QED  BY <2>1, <2>2, <1>7
<1>9. NewsInv'
  <2>1. clock <= clock'
    BY <1>0, <1>1
  <2> QED  BY <2>1, <1>6, <1>8, NewsStep
<1>10. ASSUME NEW b \in Benches PROVE TotalOf(b)' = TotalOf(b)
  <2>1. Join(Known(per_bench[b]), News(d, b)) = Known(per_bench'[b])
    <3>1. CASE b = b0
      <4>1. News(d, b) = Unreported(h)
        BY <3>1, <1>1 DEF News, Unmerged
      <4> QED  BY <3>1, <4>1, <1>3, <1>5
    <3>2. CASE b # b0
      <4>1. News(d, b) = Nothing
        BY <3>2 DEF News
      <4>2. Known(per_bench[b]) \in Summary
        BY <1>0, KnownType
      <4> QED  BY <3>2, <4>1, <4>2, <1>5, NothingAbsorbed
    <3> QED  BY <3>1, <3>2
  <2> QED  BY <2>1, <1>8, <1>9, TotalSame
<1> QED  BY <1>9, <1>10

(* Publishing the row: the doer goes on without its old news. *)
LEMMA PublishNews ==
    ASSUME TypeOK, TypeOK', NewsInv, NEW d \in Doers, Publish(d),
           outcome' # "fatal"
    PROVE  NewsInv' /\ \A b \in Benches : TotalOf(b)' = TotalOf(b)
<1>0. /\ pc[d] = "publish" /\ clock' = clock /\ per_bench' = per_bench
      /\ Unlock(d, 1)
  BY DEF Publish
<1>1. /\ NewsOk(pc[d], hg[d], per_bench[hg[d].bench], stamp[d], clock)
      /\ hg[d].bench \in Benches /\ per_bench \in [Benches -> BenchType]
  BY NewsOfDoer DEF TypeOK
<1>2. /\ Covered(hg[d], per_bench[hg[d].bench])
      /\ hg[d].begin_ns <= clock /\ hg[d].end_ns <= clock
  BY <1>0, <1>1 DEF NewsOk, Running, Holding
<1>3. /\ NewsOk(pc'[d], hg'[d], per_bench[hg'[d].bench], stamp'[d], clock)
      /\ \A b \in Benches : Join(Known(per_bench[b]), News(d, b)') =
                              Known(per_bench[b])
      /\ \A e \in Doers : e # d => /\ pc'[e] = pc[e] /\ hg'[e] = hg[e]
                                   /\ stamp'[e] = stamp[e]
  BY <1>0, <1>1, <1>2, UnlockNews
<1>4. ASSUME NEW b \in Benches
      PROVE  Join(Known(per_bench[b]), News(d, b)) = Known(per_bench[b])
  <2>1. News(d, b) = Nothing
    BY <1>0 DEF News, Unmerged
  <2>2. Known(per_bench[b]) \in Summary
    BY <1>1, KnownType
  <2> QED  BY <2>1, <2>2, NothingAbsorbed
<1>5. \A b \in Benches : Join(Known(per_bench[b]), News(d, b)') =
                           Join(Known(per_bench[b]), News(d, b))
  BY <1>3, <1>4
<1> QED  BY <1>0, <1>3, <1>5, UnmergedStep

(* A row ends: nothing known is forgotten. *)
LEMMA RowEndCovers ==
    ASSUME NEW g \in BenchType
    PROVE  Covered(g, RowEnd(g))
<1>1. RowEnd(g).begin_ns = g.begin_ns /\ RowEnd(g).end_ns = g.end_ns
  BY DEF RowEnd, BenchType
<1>2. g.begin_ns \in Int /\ g.end_ns \in Int
  BY DEF BenchType, Times
<1> QED  BY <1>1, <1>2 DEF Covered

(* ia_histogram_checkpoint changes no total. *)
LEMMA CheckpointNews ==
    ASSUME TypeOK, TypeOK', NewsInv, NEW d \in Doers, Checkpoint(d),
           outcome' # "fatal"
    PROVE  NewsInv' /\ \A b \in Benches : TotalOf(b)' = TotalOf(b)
<1> DEFINE b0 == hg[d].bench
           g == per_bench[b0]
<1>0. /\ NewsOk(pc[d], hg[d], g, stamp[d], clock)
      /\ hg[d] \in HistogramType /\ b0 \in Benches /\ g \in BenchType
      /\ clock \in Nat /\ pc \in [Doers -> Labels]
      /\ per_bench \in [Benches -> BenchType]
      /\ per_bench' \in [Benches -> BenchType]
  BY NewsOfDoer DEF TypeOK
<1>1. /\ pc[d] = "check" /\ pc'[d] = "publish" /\ clock' = clock
      /\ hg' = hg /\ stamp' = stamp
      /\ \A e \in Doers : e # d => pc'[e] = pc[e]
      /\ \A b \in Benches : per_bench'[b] = RowEnd(per_bench[b])
  BY <1>0 DEF Checkpoint, Goto
<1>2. \A b \in Benches : Covered(per_bench[b], per_bench'[b])
  BY <1>0, <1>1, RowEndCovers
<1>3. NewsOk("check", hg[d], per_bench'[b0], stamp[d], clock)
  BY <1>0, <1>1, <1>2, NewsLast
<1>4. NewsOk(pc'[d], hg'[d], per_bench'[hg'[d].bench], stamp'[d], clock')
  BY <1>1, <1>3 DEF NewsOk, Running, Holding, Unmerged
<1>5. NewsInv'
  <2>1. clock <= clock'
    BY <1>0, <1>1
  <2> QED  BY <2>1, <1>1, <1>2, <1>4, NewsStep
<1>6. ASSUME NEW b \in Benches PROVE TotalOf(b)' = TotalOf(b)
  <2>1. News(d, b) = Nothing /\ News(d, b)' = Nothing
    BY <1>1 DEF News, Unmerged
  <2>2. Known(per_bench'[b]) = Known(per_bench[b])
    BY <1>0, <1>1, RowEndKnows
  <2> QED  BY <2>1, <2>2, <1>1, <1>5, TotalSame
<1> QED  BY <1>5, <1>6

(* The variables of SharedHistogram.tla. *)
Total == [b \in Benches |-> TotalOf(b)]
Reported ==
    IF outcome = "reported" THEN [b \in Benches |-> Printed(b)] ELSE <<>>

(* ia_histogram_add measures one operation of the doer's benchmark. *)
LEMMA HistogramAddMeasures ==
    ASSUME IInv, TypeOK', NewsInv, outcome = "running", NEW d \in Doers,
           HistogramAdd(d), NEW c \in Benches, c = hg[d].bench
    PROVE  NewsInv' /\ Shared!Measure(c)
<1> DEFINE h == hg[d]
           g == per_bench[c]
           t0 == stamp[d]
           a == Accumulated(h, t0)
<1>0. TypeOK /\ LocalInv
  BY DEF IInv
<1>1. /\ NewsOk(pc[d], h, g, t0, clock) /\ h \in HistogramType
      /\ g \in BenchType /\ clock \in 1 .. MaxClock
      /\ clock \in Nat /\ pc \in [Doers -> Labels]
      /\ hg \in [Doers -> HistogramType] /\ stamp \in [Doers -> Times]
      /\ per_bench \in [Benches -> BenchType]
  BY <1>0, NewsOfDoer DEF TypeOK
<1>2. /\ pc[d] = "op" /\ hg'[d] = a /\ clock' = clock
      /\ per_bench' = per_bench /\ outcome' = outcome
      /\ pc'[d] \in {"trylock", "bench"}
      /\ \A e \in Doers : e # d => /\ pc'[e] = pc[e] /\ hg'[e] = hg[e]
                                   /\ stamp'[e] = stamp[e]
  BY <1>1 DEF HistogramAdd, Goto, shared
<1>3. /\ t0 \in 1 .. clock /\ h.begin_ns <= t0 /\ h.end_ns <= clock
      /\ h.begin_ns <= clock
      /\ h.last.n <= h.acc.n /\ h.last.sum <= h.acc.sum
  <2>1. /\ 1 <= t0 /\ h.begin_ns <= t0 /\ h.end_ns <= clock
        /\ h.begin_ns <= clock
        /\ h.last.n <= h.acc.n /\ h.last.sum <= h.acc.sum
    BY <1>1, <1>2 DEF NewsOk, Running, Unmerged
  <2>2. t0 <= clock /\ t0 \in Nat
    BY <1>0, <1>1, BoundsAssumption DEF LocalInv, Times
  <2> QED  BY <1>1, <2>1, <2>2
<1>4. Unreported(a) = Shared!With(Unreported(h), t0, clock)
  BY <1>1, <1>3, AddMeasures
<1>5. /\ a.bench = c /\ a.begin_ns # 0 /\ a.begin_ns <= clock
      /\ a.end_ns = clock
      /\ a.acc.n = h.acc.n + 1 /\ a.acc.sum = h.acc.sum + (clock - t0)
      /\ a.last = h.last
  <2>1. /\ a.bench = h.bench
        /\ a.begin_ns = (IF h.begin_ns = 0 THEN t0 ELSE h.begin_ns)
        /\ a.end_ns = clock
        /\ a.acc = [n |-> h.acc.n + 1, sum |-> h.acc.sum + (clock - t0)]
        /\ a.last = h.last
    BY <1>1 DEF Accumulated, HistogramType
  <2> HIDE DEF a
  <2>2. a.begin_ns # 0 /\ a.begin_ns <= clock
    BY <2>1, <1>1, <1>3
  <2> QED  BY <2>1, <2>2
<1> HIDE DEF a
<1>6. /\ a.last.n <= a.acc.n /\ a.last.sum <= a.acc.sum
      /\ a.acc.n # a.last.n
  <2>1. /\ h.acc.n \in Nat /\ h.last.n \in Nat /\ h.acc.sum \in Nat
        /\ h.last.sum \in Nat
    BY <1>1 DEF HistogramType, StatType
  <2>2. clock - t0 \in Nat
    BY <1>1, <1>3
  <2> HIDE DEF h, t0
  <2> QED  BY <2>1, <2>2, <1>3, <1>5
<1>7. NewsOk(pc'[d], hg'[d], per_bench'[hg'[d].bench], stamp'[d], clock')
  <2>1. a.end_ns <= clock
    BY <1>1, <1>5
  <2> HIDE DEF h, t0
  <2> QED  BY <2>1, <1>2, <1>5, <1>6 DEF NewsOk
<1>8. NewsInv'
  <2>1. clock <= clock'
    BY <1>1, <1>2
  <2>2. ASSUME NEW b \in Benches PROVE Covered(per_bench[b], per_bench'[b])
    <3>1. per_bench[b].begin_ns \in Int /\ per_bench[b].end_ns \in Int
      BY <1>1 DEF BenchType, Times
    <3> QED  BY <3>1, <1>2 DEF Covered
  <2> QED  BY <2>1, <2>2, <1>0, <1>2, <1>7, NewsStep
<1>9. ASSUME NEW b \in Benches, b # c PROVE TotalOf(b)' = TotalOf(b)
  <2>1. News(d, b) = Nothing /\ News(d, b)' = Nothing
    BY <1>9, <1>2, <1>5 DEF News
  <2> QED  BY <2>1, <1>0, <1>2, <1>8, TotalSame
<1>10. TotalOf(c)' = Shared!With(TotalOf(c), t0, clock)
  <2> DEFINE news == [e \in Doers |-> News(e, c)]
             more == [e \in Doers |-> IF e = d THEN Unreported(a)
                                              ELSE News(e, c)]
             s == Known(g)
  <2>1. s \in Summary
    BY <1>1, KnownType
  <2>2. news \in [Doers -> NewsType]
    <3> SUFFICES ASSUME NEW e \in Doers PROVE News(e, c) \in NewsType
      OBVIOUS
    <3>1. NewsOk(pc[e], hg[e], per_bench[hg[e].bench], stamp[e], clock)
          /\ hg[e] \in HistogramType
      BY <1>0, NewsOfDoer
    <3> QED  BY <3>1, NewsTyped, NothingType DEF News
  <2>3. more \in [Doers -> NewsType]
    <3>1. a \in HistogramType
      BY <1>2 DEF TypeOK
    <3>2. Unreported(a) \in NewsType
      BY <3>1, <1>6, UnreportedType
    <3> QED  BY <2>2, <3>2
  <2>4. news[d] = Unreported(h) /\ more[d] = Unreported(a)
    BY <1>2 DEF News, Unmerged
  <2>5. TotalOf(c) = Combined(s, news)
    BY DEF TotalOf
  <2>6. [e \in Doers |-> News(e, c)'] = more
    <3>1. ASSUME NEW e \in Doers, e # d PROVE News(e, c)' = News(e, c)
      BY <3>1, <1>2 DEF News
    <3>2. News(d, c)' = Unreported(a)
      BY <1>2, <1>5 DEF News, Unmerged
    <3> QED  BY <3>1, <3>2
  <2> HIDE DEF news, more
  <2>7. TotalOf(c)' = Combined(Known(per_bench'[c]),
                               [e \in Doers |-> News(e, c)'])
    BY DEF TotalOf
  <2>8. TotalOf(c)' = Combined(s, more)
    BY <2>6, <2>7, <1>2
  <2>9. \A e \in Doers : e # d => more[e] = news[e]
    BY DEF more, news
  <2>10. more[d] = Shared!With(news[d], t0, clock)
    BY <2>4, <1>4
  <2> HIDE DEF s, t0, g
  <2>11. Combined(s, more) = Shared!With(Combined(s, news), t0, clock)
    BY <2>1, <2>2, <2>3, <2>9, <2>10, <1>1, <1>3, Measured
  <2> QED  BY <2>5, <2>8, <2>11
<1>11. Total' = [Total EXCEPT ![c] = Shared!With(@, t0, clock)]
  BY <1>9, <1>10 DEF Total
<1>12. /\ Reported = Shared!NotReported /\ Reported' = Reported
  BY <1>2 DEF Reported, Shared!NotReported
<1> QED  BY <1>1, <1>3, <1>8, <1>11, <1>12 DEF Shared!Measure, Total, Reported

(* When all doers are gone, all is merged, and what is reported is exact. *)
LEMMA FinalReportReports ==
    ASSUME TypeOK, TypeOK', NewsInv, FinalReport, outcome' # "fatal"
    PROVE  NewsInv' /\ Shared!Report
<1>0. /\ outcome = "running" /\ outcome' = "reported" /\ Finished
      /\ pc' = pc
      /\ per_bench' = [b \in Benches |-> RowEnd(per_bench[b])]
  BY DEF FinalReport, local
<1>1. NewsInv'
  <2> SUFFICES ASSUME NEW d \in Doers
               PROVE  NewsOk(pc'[d], hg'[d], per_bench'[hg'[d].bench],
                             stamp'[d], clock')
    BY DEF NewsInv
  <2>1. pc'[d] \in {"gone", "unused"}
    BY <1>0 DEF Finished
  <2> QED  BY <2>1 DEF NewsOk, Running, Holding, Unmerged
<1>2. ASSUME NEW b \in Benches
      PROVE  /\ TotalOf(b) = Known(per_bench[b])
             /\ TotalOf(b)' = Known(per_bench[b])
             /\ Printed(b)' = Known(per_bench[b])
  <2> DEFINE g == per_bench[b]
             none == [d \in Doers |-> Nothing]
  <2>1. g \in BenchType /\ per_bench'[b] = RowEnd(g)
    BY <1>0 DEF TypeOK
  <2>2. Known(g) \in Summary
    BY <2>1, KnownType
  <2>3. /\ Known(RowEnd(g)) = Known(g)
        /\ RowEnd(g).whole_min = Known(g).min
        /\ RowEnd(g).whole_max = Known(g).max
    BY <2>1, RowEndKnows
  <2>4. \A d \in Doers : News(d, b) = Nothing /\ News(d, b)' = Nothing
    BY <1>0 DEF News, Finished, Unmerged
  <2>5. [d \in Doers |-> News(d, b)] = none
        /\ [d \in Doers |-> News(d, b)'] = none
    BY <2>4
  <2>6. TotalOf(b) = Combined(Known(g), none)
    BY <2>5 DEF TotalOf
  <2>7. TotalOf(b)' = Combined(Known(per_bench'[b]), none)
    BY <2>5 DEF TotalOf
  <2>8. Combined(Known(g), none) = Known(g)
    BY <2>2, NoMoreNews
  <2>9. Printed(b)' = Known(g)
    <3> DEFINE r == RowEnd(g)
    <3>1. /\ r.acc = g.acc /\ r.begin_ns = g.begin_ns
          /\ r.end_ns = g.end_ns /\ r.buckets = g.buckets
      BY <2>1 DEF RowEnd, BenchType
    <3>2. Printed(b)' = [n |-> r.acc.n, sum |-> r.acc.sum,
                         min |-> r.whole_min, max |-> r.whole_max,
                         begin_ns |-> r.begin_ns, end_ns |-> r.end_ns,
                         buckets |-> r.buckets]
      BY <2>1 DEF Printed
    <3>3. Known(g) = [n |-> g.acc.n, sum |-> g.acc.sum,
                      min |-> Known(g).min, max |-> Known(g).max,
                      begin_ns |-> g.begin_ns, end_ns |-> g.end_ns,
                      buckets |-> g.buckets]
      BY DEF Known
    <3> HIDE DEF r
    <3> QED  BY <2>3, <3>1, <3>2, <3>3 DEF r
  <2> QED  BY <2>1, <2>3, <2>6, <2>7, <2>8, <2>9
<1>3. Total' = Total
  BY <1>2 DEF Total
<1>4. Reported = Shared!NotReported /\ Reported' = Total
  <2>1. [b \in Benches |-> Printed(b)'] = [b \in Benches |-> TotalOf(b)]
    BY <1>2
  <2> QED  BY <2>1, <1>0 DEF Reported, Total, Shared!NotReported
<1> QED  BY <1>1, <1>3, <1>4 DEF Shared!Report, Total, Reported

(* Time passes, and the process ends: nothing is measured. *)
LEMMA OthersNews ==
    ASSUME TypeOK, TypeOK', NewsInv, Tick \/ Bailout \/ UNCHANGED vars
    PROVE  NewsInv' /\ Total' = Total /\ Reported' = Reported
<1>0. /\ per_bench' = per_bench /\ hg' = hg /\ pc' = pc /\ stamp' = stamp
      /\ clock' \in {clock, clock + 1}
      /\ \/ outcome' = outcome
         \/ outcome = "running" /\ outcome' = "bailout"
  BY DEF Tick, Bailout, vars, shared, local
<1>1. NewsInv'
  <2> SUFFICES ASSUME NEW d \in Doers
               PROVE  NewsOk(pc[d], hg[d], per_bench[hg[d].bench], stamp[d],
                             clock')
    BY <1>0 DEF NewsInv
  <2> DEFINE g == per_bench[hg[d].bench]
  <2>1. /\ NewsOk(pc[d], hg[d], g, stamp[d], clock) /\ clock \in Nat
        /\ hg[d] \in HistogramType /\ g \in BenchType
    BY NewsOfDoer
  <2>2. Covered(g, g)
    <3>1. g.begin_ns \in Int /\ g.end_ns \in Int
      BY <2>1 DEF BenchType, Times
    <3> QED  BY <3>1 DEF Covered
  <2>3. clock' \in Nat /\ clock <= clock'
    BY <2>1, <1>0
  <2> QED  BY <2>1, <2>2, <2>3, NewsLast
<1>2. ASSUME NEW b \in Benches
      PROVE  TotalOf(b)' = TotalOf(b) /\ Printed(b)' = Printed(b)
  <2>1. \A d \in Doers : News(d, b)' = News(d, b)
    BY <1>0 DEF News
  <2>2. [d \in Doers |-> News(d, b)'] = [d \in Doers |-> News(d, b)]
    BY <2>1
  <2>3. TotalOf(b)' = Combined(Known(per_bench'[b]),
                               [d \in Doers |-> News(d, b)'])
    BY DEF TotalOf
  <2>4. TotalOf(b)' = TotalOf(b)
    BY <2>2, <2>3, <1>0 DEF TotalOf
  <2>5. Printed(b)' = Printed(b)
    BY <1>0 DEF Printed
  <2> QED  BY <2>4, <2>5
<1>3. Total' = Total
  BY <1>2 DEF Total
<1>4. [b \in Benches |-> Printed(b)'] = [b \in Benches |-> Printed(b)]
  BY <1>2
<1>5. Reported' = Reported
  BY <1>0, <1>4 DEF Reported
<1> QED  BY <1>1, <1>3, <1>5

(* At the start nothing is measured. *)
LEMMA InitRefines ==
    ASSUME Init
    PROVE  NewsInv /\ Shared!Init
<1>0. /\ per_bench = [b \in Benches |-> EmptyBench]
      /\ pc = [d \in Doers |-> "new"] /\ outcome = "running"
  BY DEF Init
<1>1. NewsInv
  <2> SUFFICES ASSUME NEW d \in Doers
               PROVE  NewsOk(pc[d], hg[d], per_bench[hg[d].bench], stamp[d],
                             clock)
    BY DEF NewsInv
  <2>1. pc[d] = "new"
    BY <1>0
  <2> QED  BY <2>1 DEF NewsOk, Running, Holding, Unmerged
<1>2. EmptyBench \in BenchType
  BY EmptyTypes
<1>3. Known(EmptyBench) = Nothing
  <2> DEFINE s == Known(EmptyBench)
  <2>1. s.min = Shared!Lesser(EmptyBench.min, EmptyBench.whole_min)
        /\ s.max = Shared!Greater(EmptyBench.max, EmptyBench.whole_max)
    BY <1>2, KnownType
  <2>2. s.min = Unset /\ s.max = 0
    BY <2>1 DEF EmptyBench, Shared!Lesser, Shared!Greater
  <2>3. /\ s.n = 0 /\ s.sum = 0 /\ s.begin_ns = 0 /\ s.end_ns = 0
        /\ s.buckets = NoBuckets
    BY DEF Known, EmptyBench, Zero
  <2>4. s = [n |-> s.n, sum |-> s.sum, min |-> s.min, max |-> s.max,
             begin_ns |-> s.begin_ns, end_ns |-> s.end_ns,
             buckets |-> s.buckets]
    BY DEF Known
  <2> HIDE DEF s
  <2>5. s = Nothing
    BY <2>2, <2>3, <2>4 DEF Nothing
  <2> QED  BY <2>5 DEF s
<1>4. Nothing = Shared!Empty
  BY DEF Nothing, NoBuckets, Unset, Shared!Empty, Shared!Unset
<1>5. ASSUME NEW b \in Benches PROVE TotalOf(b) = Shared!Empty
  <2>1. \A d \in Doers : News(d, b) = Nothing
    BY <1>0 DEF News, Unmerged
  <2>2. [d \in Doers |-> News(d, b)] = [d \in Doers |-> Nothing]
    BY <2>1
  <2>3. per_bench[b] = EmptyBench
    BY <1>0
  <2>4. TotalOf(b) = Combined(Nothing, [d \in Doers |-> Nothing])
    BY <2>2, <2>3, <1>3 DEF TotalOf
  <2> QED  BY <2>4, <1>4, NothingType, NoMoreNews
<1>6. Shared!Init
  <2>1. Total = [b \in Benches |-> Shared!Empty]
    BY <1>5 DEF Total
  <2>2. Reported = Shared!NotReported
    BY <1>0 DEF Reported, Shared!NotReported
  <2> QED  BY <2>1, <2>2 DEF Shared!Init, Total, Reported
<1> QED  BY <1>1, <1>6

(* Every step is a step of SharedHistogram.tla, or none. *)
LEMMA NextRefines ==
    ASSUME IInv, IInv', NewsInv, [Next]_vars
    PROVE  NewsInv' /\ [Shared!Next]_<<Total, Reported>>
<1>0. TypeOK /\ TypeOK' /\ outcome' # "fatal"
  BY DEF IInv, NoFatal
<1>1. ASSUME NEW d \in Doers, outcome = "running", outcome' = "running",
             NewsInv' /\ \A b \in Benches : TotalOf(b)' = TotalOf(b)
      PROVE  NewsInv' /\ Total' = Total /\ Reported' = Reported
  BY <1>1 DEF Total, Reported
<1>2. ASSUME NEW d \in Doers, DoerStep(d)
      PROVE  NewsInv' /\ [Shared!Next]_<<Total, Reported>>
  <2>0. outcome = "running"
    BY <1>2 DEF DoerStep
  <2>1. CASE HistogramAdd(d)
    <3>1. PICK c \in Benches : c = hg[d].bench
      BY <1>0 DEF TypeOK, HistogramType
    <3>2. NewsInv' /\ Shared!Measure(c)
      BY <2>0, <2>1, <1>0, <3>1, HistogramAddMeasures
    <3> QED  BY <3>2 DEF Shared!Next
  <2>2. CASE ~HistogramAdd(d)
    <3>1. outcome' = "running"
      BY <2>0, <2>2, <1>0, <1>2
      DEF DoerStep, HistogramInit, HistogramReset, OperationStart, TryLock,
          BenchmarkEnd, Lock, MergeLocked, Checkpoint, Publish,
          HistogramDestroy, DestroyLocked, DestroyUnlocked, DestroyUnused
    <3>2. NewsInv' /\ \A b \in Benches : TotalOf(b)' = TotalOf(b)
      BY <2>0, <2>2, <1>0, <1>2, HistogramInitNews, HistogramResetNews,
         OperationStartNews, TryLockNews, BenchmarkEndNews, LockNews,
         MergeLockedNews, CheckpointNews, PublishNews, LeavingNews
      DEF DoerStep
    <3>3. NewsInv' /\ Total' = Total /\ Reported' = Reported
      BY <2>0, <3>1, <3>2, <1>1
    <3> QED  BY <3>3
  <2> QED  BY <2>1, <2>2
<1>3. CASE FinalReport
  <2>1. NewsInv' /\ Shared!Report
    BY <1>0, <1>3, FinalReportReports
  <2> QED  BY <2>1 DEF Shared!Next
<1>4. CASE Tick \/ Bailout \/ UNCHANGED vars
  BY <1>0, <1>4, OthersNews
<1> QED  BY <1>2, <1>3, <1>4 DEF Next, Exited

(* ia_histogram.c with its threads, its unlocked reads and its merging now *)
(* and then is the one histogram of SharedHistogram.tla: every operation   *)
(* measured is in the totals exactly once, from the moment it is added,    *)
(* and the final report is exactly all of them.                            *)
THEOREM HistogramImplementsShared == Spec => RefinesSharedHistogram
<1>1. Init => NewsInv /\ Shared!Init
  BY InitRefines
<1>2. IInv /\ IInv' /\ NewsInv /\ [Next]_vars =>
        NewsInv' /\ [Shared!Next]_<<Total, Reported>>
  BY NextRefines
<1>3. [Shared!Next]_<<Total, Reported>> =>
        [Shared!Next]_<<[b \in Benches |-> TotalOf(b)],
                        IF outcome = "reported"
                        THEN [b \in Benches |-> Printed(b)] ELSE <<>> >>
  BY DEF Total, Reported
<1> QED
  BY <1>1, <1>2, <1>3, Invariance, PTL
  DEF Spec, RefinesSharedHistogram, Shared!Spec
----------------------------------------------------------------------------
(* The search of ia_histogram_add for the bucket of a latency, which makes *)
(* BucketOf, is right for every table, of any size, and every latency.     *)
(* The one thing to know about the doubly rounded middle is that it is     *)
(* never before begin and always before end (MiddleInside).                *)

(* begin/2 + end/2 stays inside the window. *)
LEMMA MiddleInside ==
    ASSUME NEW b \in Nat, NEW e \in Nat, b < e
    PROVE  /\ (b \div 2) + (e \div 2) \in Nat
           /\ b <= (b \div 2) + (e \div 2)
           /\ (b \div 2) + (e \div 2) < e
OBVIOUS

(* The invariant is inductive. *)
LEMMA SearchInductive ==
    /\ SearchInit => SearchInv
    /\ SearchInv /\ [SearchNext]_search_vars => SearchInv'
<1>1. SearchInit => SearchInv
  BY SearchAssumption DEF SearchInit, SearchInv, SearchTypeOK, Increasing
<1>2. ASSUME SearchInv, Halve PROVE SearchInv'
  <2> USE SearchAssumption DEF SearchInv, SearchTypeOK
  <2>0. /\ UNCHANGED <<count, bounds, latency>>
        /\ Increasing(bounds, count)'
    BY <1>2 DEF Halve, Increasing
  <2>1. CASE Middle = begin
    <3>1. ASSUME end < count - 1 PROVE latency <= bounds[end]
      <4>1. end - 1 \in 0 .. count - 1 /\ end - 1 < end
        BY <1>2, <3>1
      <4>2. bounds[end - 1] < bounds[end]
        BY <1>2, <4>1 DEF Increasing
      <4> QED  BY <1>2, <3>1, <4>1, <4>2
    <3>2. mid' = end /\ stage' = "scan" /\ begin' = begin /\ end' = end
      BY <1>2, <2>1 DEF Halve
    <3> QED  BY <1>2, <2>0, <3>1, <3>2
  <2>2. CASE Middle # begin
    <3>1. count > 1
      BY <1>2, <2>2 DEF Middle
    <3>2. /\ begin < Middle /\ Middle < end
          /\ Middle \in Nat
      BY <1>2, <2>2, <3>1, MiddleInside DEF Middle
    <3>3. CASE bounds[Middle - 1] < latency
      BY <1>2, <2>0, <2>2, <3>1, <3>2, <3>3 DEF Halve
    <3>4. CASE ~(bounds[Middle - 1] < latency)
      <4>1. latency <= bounds[Middle - 1]
        BY <1>2, <3>2, <3>4
      <4> QED  BY <1>2, <2>0, <2>2, <3>1, <3>2, <3>4, <4>1 DEF Halve
    <3> QED  BY <3>3, <3>4
  <2> QED  BY <2>1, <2>2
<1>3. ASSUME SearchInv, Scan PROVE SearchInv'
  <2> USE SearchAssumption DEF SearchInv, SearchTypeOK
  <2>0. /\ UNCHANGED <<count, bounds, latency, begin, end>>
        /\ Increasing(bounds, count)'
    BY <1>3 DEF Scan, Increasing
  <2>1. CASE mid > begin /\ ~(bounds[mid - 1] < latency)
    <3>1. latency <= bounds[mid - 1]
      BY <1>3, <2>1
    <3> QED  BY <1>3, <2>0, <2>1, <3>1 DEF Scan
  <2>2. CASE ~(mid > begin /\ ~(bounds[mid - 1] < latency))
    <3>1. mid > 0 => bounds[mid - 1] < latency
      <4>1. CASE mid > begin
        BY <1>3, <2>2, <4>1
      <4>2. CASE mid = begin
        BY <1>3, <4>2
      <4> QED  BY <1>3, <4>1, <4>2 DEF Scan
    <3>2. stage' = "found" /\ mid' = mid
      BY <1>3, <2>2 DEF Scan
    <3>3. begin <= mid /\ mid <= end
          /\ (mid < count - 1 => latency <= bounds[mid])
      BY <1>3 DEF Scan
    <3> QED  BY <1>3, <2>0, <3>1, <3>2, <3>3
  <2> QED  BY <2>1, <2>2
<1>4. ASSUME SearchInv, UNCHANGED search_vars PROVE SearchInv'
  BY <1>4 DEF search_vars, SearchInv, SearchTypeOK, Increasing
<1> QED  BY <1>1, <1>2, <1>3, <1>4 DEF SearchNext, Found

(* The search of ia_histogram_add finds the bucket of the latency.         *)
THEOREM SearchCorrect == SearchSpec => []FoundIsBucket
<1>1. SearchInv => FoundIsBucket
  BY DEF SearchInv, SearchTypeOK, FoundIsBucket,
         IsBucketOf
<1> QED  BY <1>1, SearchInductive, PTL DEF SearchSpec

(* It reads the table only where it has entries.                           *)
THEOREM SearchTypes == SearchSpec => []SearchTypeOK
<1>1. SearchInv => SearchTypeOK
  BY DEF SearchInv
<1> QED  BY <1>1, SearchInductive, PTL DEF SearchSpec

(* Every round of the loop makes the window smaller, so that it ends.      *)
THEOREM SearchProgress == SearchSpec => WindowShrinks
<1> DEFINE Shrinks ==
        /\ stage = "halve" /\ stage' = "halve" => end' - begin' < end - begin
        /\ stage = "scan" /\ stage' = "scan" => mid' < mid /\ begin <= mid'
<1>1. SearchInv /\ [SearchNext]_search_vars => [Shrinks]_search_vars
  <2> SUFFICES ASSUME SearchInv, SearchNext PROVE [Shrinks]_search_vars
    OBVIOUS
  <2>1. CASE Halve
    <3>1. CASE Middle = begin
      BY <2>1, <3>1 DEF Halve
    <3>2. CASE Middle # begin
      <4>1. count > 1
        BY <3>2 DEF Middle, SearchInv, SearchTypeOK
      <4>2. /\ begin < Middle /\ Middle < end
            /\ Middle \in Nat
        BY <3>2, <4>1, MiddleInside
        DEF Middle, SearchInv, SearchTypeOK
      <4> QED  BY <2>1, <3>2, <4>2
               DEF Halve, SearchInv, SearchTypeOK
    <3> QED  BY <3>1, <3>2
  <2>2. CASE Scan \/ Found
    BY <2>2 DEF Scan, Found, SearchInv, SearchTypeOK
  <2> QED  BY <2>1, <2>2 DEF SearchNext
<1> QED  BY <1>1, SearchInductive, PTL DEF SearchSpec, WindowShrinks
=============================================================================
