-------------------------- MODULE SharedHistogram --------------------------
(***************************************************************************)
(* What ia_histogram.c promises, without its threads: one histogram per    *)
(* benchmark, to which every measured operation is added exactly once, and *)
(* one final report of all of them.  Histogram.tla keeps a private         *)
(* histogram per doer and merges it now and then; HistogramRefinement.tla  *)
(* shows that nobody can tell the difference.                              *)
(***************************************************************************)
EXTENDS Naturals

CONSTANTS Benches,    \* the benchmarks that are enabled
          Buckets,    \* the latency buckets
          MaxClock,   \* time stamps are 1 .. MaxClock
          BucketOf    \* latency -> bucket

VARIABLES total,      \* [Benches -> summary of the operations measured]
          report      \* what was reported, or NotReported

Unset == MaxClock + 1              \* ~0ull, above every latency
NotReported == <<>>

(* A summary with nothing in it. *)
Empty ==
    [n |-> 0, sum |-> 0, min |-> Unset, max |-> 0,
     begin_ns |-> 0, end_ns |-> 0, buckets |-> [k \in Buckets |-> 0]]

Lesser(x, y) == IF y < x THEN y ELSE x
Greater(x, y) == IF x < y THEN y ELSE x

(* 0 is "not yet" in begin_ns. *)
Earlier(x, y) == IF x = 0 THEN y ELSE IF y = 0 THEN x ELSE Lesser(x, y)

(* One more operation, that ran from t0 to now. *)
With(s, t0, now) ==
    [n        |-> s.n + 1,
     sum      |-> s.sum + (now - t0),
     min      |-> Lesser(s.min, now - t0),
     max      |-> Greater(s.max, now - t0),
     begin_ns |-> Earlier(s.begin_ns, t0),
     end_ns   |-> Greater(s.end_ns, now),
     buckets  |-> [s.buckets EXCEPT ![BucketOf[now - t0]] = @ + 1]]

Init == /\ total = [b \in Benches |-> Empty]
        /\ report = NotReported

Measure(b) ==
    /\ report = NotReported
    /\ \E now \in 1 .. MaxClock : \E t0 \in 1 .. now :
         total' = [total EXCEPT ![b] = With(@, t0, now)]
    /\ UNCHANGED report

Report ==
    /\ report = NotReported
    /\ report' = total
    /\ UNCHANGED total

Next == Report \/ \E b \in Benches : Measure(b)

Spec == Init /\ [][Next]_<<total, report>>
=============================================================================
