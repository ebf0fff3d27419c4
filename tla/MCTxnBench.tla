----------------------------- MODULE MCTxnBench -----------------------------
(* The ways in which ia_run spreads benchmarks over two doers. *)
EXTENDS TxnBench, TLC

CONSTANTS d1, d2

Job(mask, space, start, n) ==
    [mask |-> mask, space |-> space, start |-> start, passes |-> n]

Two(m1, s1, m2, s2, at2, n) ==
    (d1 :> Job(m1, s1, 0, n)) @@ (d2 :> Job(m2, s2, at2, n))

MCJobs ==
      \* -r 1: the reader has the key space of the main thread
    { Two({"set", "delete"}, 0, {"get"}, 0, 1, 2),
      Two({"batch"}, 0, {"iterate", "get"}, 0, 1, 1),
      \* -w 1: the reader is the main thread, with a key space of its own
      Two({"crud", "delete"}, 2, {"iterate", "get"}, 0, 0, 1),
      \* -w 2
      Two({"batch", "delete"}, 2, {"batch", "delete"}, 4, 0, 1) }
=============================================================================
