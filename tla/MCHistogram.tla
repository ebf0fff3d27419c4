---------------------------- MODULE MCHistogram ----------------------------
(* Histogram.tla on a small instance. *)
EXTENDS HistogramRefinement, TLC

CONSTANTS d1, d2

MCBucketOf == [l \in 0 .. MaxClock |-> IF l = 0 THEN 0 ELSE 1]
=============================================================================
