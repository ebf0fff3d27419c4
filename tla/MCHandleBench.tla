--------------------------- MODULE MCHandleBench ---------------------------
(* The ways in which ia_run spreads benchmarks over two doers. *)
EXTENDS HandleBench, TLC

CONSTANTS d1, d2

Job(mask, space, start) ==
    [mask |-> mask, space |-> space, start |-> start, passes |-> 1]

Two(m1, s1, m2, s2, at2) ==
    (d1 :> Job(m1, s1, 0)) @@ (d2 :> Job(m2, s2, at2))

MCJobs ==
      \* -r 1: the reader has the key space of the main thread
    { Two({"set", "delete"}, 0, {"iterate", "get"}, 0, 1),
      Two({"batch"}, 0, {"get"}, 0, 1),
      \* -w 2
      Two({"crud", "delete"}, 2, {"crud", "delete"}, 4, 0),
      Two({"set", "crud"}, 2, {"set", "crud"}, 4, 0),
      Two({"batch"}, 2, {"batch"}, 4, 0),
      Two({"batch", "crud"}, 2, {"batch", "crud"}, 4, 0) }

(* -r 1 -B delete,get -i, on an empty database *)
VedisJobs == { Two({"delete"}, 0, {"get"}, 0, 1) }
=============================================================================
