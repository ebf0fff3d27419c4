--------------------------- MODULE MCContextBench ---------------------------
(* The ways in which ia_run spreads benchmarks over two doers. *)
EXTENDS ContextBench, TLC

CONSTANTS d1, d2

Job(mask, space, start, n) ==
    [mask |-> mask, space |-> space, start |-> start, passes |-> n]

Two(m1, s1, n1, m2, s2, at2, n2) ==
    (d1 :> Job(m1, s1, 0, n1)) @@ (d2 :> Job(m2, s2, at2, n2))

MCJobs ==
      \* -r 1: the reader has the key space of the main thread
    { Two({"set", "delete"}, 0, 1, {"iterate", "get"}, 0, 1, 1),
      \* -r 1 -c: while the main thread writes, time for two passes
      Two({"batch"}, 0, 1, {"get"}, 0, 1, 2),
      Two({"set"}, 0, 1, {"iterate", "get"}, 0, 1, 2),
      \* -w 1: the reader is the main thread, with a key space of its own
      Two({"batch"}, 2, 1, {"iterate"}, 0, 0, 1),
      \* -w 2
      Two({"batch", "delete"}, 2, 1, {"batch", "delete"}, 4, 0, 1),
      Two({"crud"}, 2, 1, {"crud"}, 4, 0, 1) }
=============================================================================
