------------------------------ MODULE KeyStore ------------------------------
(***************************************************************************)
(* What the benchmarks of ia_benchmark.c may do to a database, whatever    *)
(* its driver: an operation happens as a whole or not at all.  A SET puts  *)
(* one key, a DELETE removes one; a CRUD puts two keys and removes one of  *)
(* them again, of which only the other one shows; a BATCH is up to         *)
(* BatchLength such operations at once.                                    *)
(***************************************************************************)
EXTENDS Naturals, FiniteSets

CONSTANTS Count, BatchLength,
          First         \* key spaces of first generators

VARIABLE data           \* the keys in the database

Lasting(s) == {s} \X (0 .. Count - 1)

Init == data = {}

Put(s) ==
    \E S \in SUBSET Lasting(s) :
        Cardinality(S) \in 1 .. BatchLength /\ data' = data \cup S

Remove(s) == \E k \in Lasting(s) : data' = data \ {k}

Next == \E s \in First : Put(s) \/ Remove(s)

Spec == Init /\ [][Next]_data
=============================================================================
