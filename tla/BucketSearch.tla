---------------------------- MODULE BucketSearch ----------------------------
(***************************************************************************)
(* The search of ia_histogram_add for the bucket of a latency: a binary    *)
(* search whose middle is begin/2 + end/2 (not (begin+end)/2), which stops *)
(* when the middle is the beginning and finishes with a linear scan.       *)
(* bounds[i] is the upper bound of bucket i; the last bucket takes         *)
(* whatever is left.                                                       *)
(***************************************************************************)
EXTENDS Integers

CONSTANTS MaxCount,     \* bound: tables of 1 .. MaxCount buckets
          MaxLatency    \* bound: latencies and upper bounds

ASSUME SearchAssumption == MaxCount \in Nat /\ MaxLatency \in Nat

VARIABLES count,    \* ST_HISTOGRAM_COUNT
          bounds,   \* ia_histogram_buckets
          latency,
          begin, end, mid,
          stage        \* "halve", "scan" or "found"

search_vars == <<count, bounds, latency, begin, end, mid, stage>>

(* The tables the code may have: increasing, like ia_histogram_buckets. *)
Increasing(f, n) == \A i, j \in 0 .. n - 1 : i < j => f[i] < f[j]

(* Mutant: the window begins with one bucket too many. *)
InitPastTheEnd ==
    /\ count \in 1 .. MaxCount
    /\ bounds \in {f \in [0 .. count - 1 -> 0 .. MaxLatency] :
                       Increasing(f, count)}
    /\ latency \in 0 .. MaxLatency
    /\ begin = 0 /\ end = count /\ mid = 0
    /\ stage = "halve"

SearchInit ==
    /\ count \in 1 .. MaxCount
    /\ bounds \in {f \in [0 .. count - 1 -> 0 .. MaxLatency] :
                       Increasing(f, count)}
    /\ latency \in 0 .. MaxLatency
    /\ begin = 0
    /\ end = count - 1
    /\ mid = 0
    /\ stage = "halve"

(* Mutant: the middle is rounded up. *)
MiddleUp == (begin + end + 1) \div 2

Middle == (begin \div 2) + (end \div 2)

(* One round of while (1). *)
Halve ==
    /\ stage = "halve"
    /\ IF Middle = begin
       THEN mid' = end /\ stage' = "scan" /\ UNCHANGED <<begin, end>>
       ELSE /\ mid' = Middle
            /\ IF bounds[Middle - 1] < latency
               THEN begin' = Middle /\ UNCHANGED end
               ELSE end' = Middle /\ UNCHANGED begin
            /\ UNCHANGED stage
    /\ UNCHANGED <<count, bounds, latency>>

(* Mutant: a latency equal to an upper bound goes to the next bucket. *)
ScanInclusive ==
    /\ stage = "scan"
    /\ IF mid > begin /\ ~(bounds[mid - 1] <= latency)
       THEN mid' = mid - 1 /\ UNCHANGED stage
       ELSE stage' = "found" /\ UNCHANGED mid
    /\ UNCHANGED <<count, bounds, latency, begin, end>>

(* One round of the for loop. *)
Scan ==
    /\ stage = "scan"
    /\ IF mid > begin /\ ~(bounds[mid - 1] < latency)
       THEN mid' = mid - 1 /\ UNCHANGED stage
       ELSE stage' = "found" /\ UNCHANGED mid
    /\ UNCHANGED <<count, bounds, latency, begin, end>>

Found == stage = "found" /\ UNCHANGED search_vars

SearchNext == Halve \/ Scan \/ Found

SearchSpec == SearchInit /\ [][SearchNext]_search_vars

----------------------------------------------------------------------------
(* The indexes used are in the table, at every access. *)
SearchTypeOK ==
    /\ count \in 1 .. MaxCount
    /\ bounds \in [0 .. count - 1 -> 0 .. MaxLatency]
    /\ latency \in 0 .. MaxLatency
    /\ begin \in 0 .. count - 1
    /\ end \in 0 .. count - 1
    /\ mid \in 0 .. count - 1
    /\ stage \in {"halve", "scan", "found"}

(* What the bucket of a latency is: the only one whose upper bound is not *)
(* below the latency while that of the bucket before it is.               *)
IsBucketOf(i) ==
    /\ i > 0 => bounds[i - 1] < latency
    /\ i < count - 1 => latency <= bounds[i]

(* The search of ia_histogram_add increments the right bucket, for every  *)
(* table and latency, the bounds themselves and those around included.    *)
FoundIsBucket == stage = "found" => IsBucketOf(mid)

(* What is left to search always shrinks, so that the search ends: no     *)
(* round of the first loop keeps begin and end, although begin/2 + end/2  *)
(* rounds twice, and the second loop counts down to begin.                *)
WindowShrinks ==
    [][/\ stage = "halve" /\ stage' = "halve" => end' - begin' < end - begin
       /\ stage = "scan" /\ stage' = "scan" => mid' < mid /\ begin <= mid']_search_vars

(* The inductive invariant: the bucket is in the window. *)
SearchInv ==
    /\ SearchTypeOK
    /\ Increasing(bounds, count)
    /\ count > 1 => begin < end
    /\ begin > 0 => bounds[begin - 1] < latency
    /\ end < count - 1 => latency <= bounds[end - 1]
    /\ stage # "halve" =>
         /\ begin <= mid /\ mid <= end
         /\ mid < count - 1 => latency <= bounds[mid]
    /\ stage = "found" /\ mid > 0 => bounds[mid - 1] < latency
=============================================================================
