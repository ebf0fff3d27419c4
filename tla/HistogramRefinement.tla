------------------------ MODULE HistogramRefinement ------------------------
(***************************************************************************)
(* Histogram.tla implements SharedHistogram.tla: at every moment the       *)
(* global histogram and what the doers have not merged yet are together    *)
(* one histogram of every operation measured so far, and that is what the  *)
(* final report prints.                                                    *)
(***************************************************************************)
EXTENDS Histogram, FiniteSetsExt

(* Where a doer may have news that are not in per_bench yet: in a run,    *)
(* until ia_histogram_merge_locked has added them.                        *)
Unmerged == {"bench", "op", "trylock", "lock", "merge"}

Nothing ==
    [n |-> 0, sum |-> 0, min |-> Unset, max |-> 0, begin_ns |-> 0,
     end_ns |-> 0, buckets |-> NoBuckets]

(* What a doer's histogram has measured since it was merged. *)
Unreported(h) ==
    [n |-> h.acc.n - h.last.n, sum |-> h.acc.sum - h.last.sum,
     min |-> h.min, max |-> h.max, begin_ns |-> h.begin_ns,
     end_ns |-> h.end_ns, buckets |-> h.buckets]

(* What doer d has measured in benchmark b and not merged yet. *)
News(d, b) ==
    IF pc[d] \in Unmerged /\ hg[d].bench = b
    THEN Unreported(hg[d]) ELSE Nothing

(* What a global histogram has, in the rows printed and in the next one. *)
Known(g) ==
    [n |-> g.acc.n, sum |-> g.acc.sum, min |-> Min({g.min, g.whole_min}),
     max |-> Max({g.max, g.whole_max}), begin_ns |-> g.begin_ns,
     end_ns |-> g.end_ns, buckets |-> g.buckets]

(* The sum of a function of natural numbers, as a number of pairs. *)
SumOf(f) == Cardinality(UNION {{x} \X (1 .. f[x]) : x \in DOMAIN f})

LeastOrZero(S) == IF S = {} THEN 0 ELSE Min(S)

(* The summary s and the news of all doers in one summary. *)
Combined(s, news) ==
    [n        |-> s.n + SumOf([d \in Doers |-> news[d].n]),
     sum      |-> s.sum + SumOf([d \in Doers |-> news[d].sum]),
     min      |-> Min({s.min} \cup {news[d].min : d \in Doers}),
     max      |-> Max({s.max} \cup {news[d].max : d \in Doers}),
     begin_ns |-> LeastOrZero(({s.begin_ns} \cup
                               {news[d].begin_ns : d \in Doers}) \ {0}),
     end_ns   |-> Max({s.end_ns} \cup {news[d].end_ns : d \in Doers}),
     buckets  |-> [k \in Buckets |->
                     s.buckets[k] +
                     SumOf([d \in Doers |-> news[d].buckets[k]])]]

(* All that is known about benchmark b, wherever it is kept. *)
TotalOf(b) ==
    Combined(Known(per_bench[b]), [d \in Doers |-> News(d, b)])

(* What ia_histogram_print prints of benchmark b. *)
Printed(b) ==
    LET g == per_bench[b] IN
    [n |-> g.acc.n, sum |-> g.acc.sum, min |-> g.whole_min,
     max |-> g.whole_max, begin_ns |-> g.begin_ns, end_ns |-> g.end_ns,
     buckets |-> g.buckets]

Shared == INSTANCE SharedHistogram WITH
    total <- [b \in Benches |-> TotalOf(b)],
    report <- IF outcome = "reported" THEN [b \in Benches |-> Printed(b)]
              ELSE <<>>

(* No operation measured is lost, counted twice or changed by merging,    *)
(* whatever the interleaving, and the final report is exact: each         *)
(* ia_histogram_add adds one operation, nothing else adds or drops any.   *)
RefinesSharedHistogram == Shared!Spec

----------------------------------------------------------------------------
(* Why merging loses nothing. *)

(* The time span of g contains that of h, if h has one. *)
Covered(h, g) ==
    /\ h.end_ns <= g.end_ns
    /\ h.begin_ns # 0 => g.begin_ns # 0 /\ g.begin_ns <= h.begin_ns

(* A histogram with nothing new in it since the last merge. *)
NoNews(h) ==
    /\ h.acc.sum = h.last.sum
    /\ h.min = Unset /\ h.max = 0 /\ h.buckets = NoBuckets

(* Nothing that a doer measured is in its future, and only news are        *)
(* merged; one that has none, or has merged them, is covered by the global *)
(* histogram g of its benchmark.                                           *)
NewsOk(label, h, g, t0, now) ==
    /\ label \in Running => h.begin_ns <= now /\ h.end_ns <= now
    /\ label \in Unmerged =>
          /\ h.last.n <= h.acc.n /\ h.last.sum <= h.acc.sum
          /\ h.acc.n = h.last.n => NoNews(h) /\ Covered(h, g)
          /\ h.acc.n # h.last.n => h.begin_ns # 0
    /\ label = "op" => 1 <= t0 /\ h.begin_ns <= t0
    /\ label \in {"trylock", "lock", "merge"} => h.acc.n # h.last.n
    /\ label \in {"check", "publish"} => h.begin_ns # 0 /\ Covered(h, g)

NewsInv ==
    \A d \in Doers :
        NewsOk(pc[d], hg[d], per_bench[hg[d].bench], stamp[d], clock)
=============================================================================
