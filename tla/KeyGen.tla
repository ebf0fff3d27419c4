------------------------------- MODULE KeyGen -------------------------------
(***************************************************************************)
(* Which keys a doer works on: the split of the key range by ia_run and    *)
(* ia_spread, and the generators and pools of ia_kv.c.                     *)
(*                                                                         *)
(* A key is known by its point; KeyMix.tla is about the bytes made of it.  *)
(* Doers share no generator, so one of them (doer) is followed through its *)
(* benchmarks, whichever it is; what all of them have is a function of the *)
(* configuration.                                                          *)
(***************************************************************************)
EXTENDS Integers, FiniteSets, Sequences

CONSTANTS MaxReaders, MaxWriters,   \* bounds on -r and -w
          MaxPeriod,                \* bound on -n
          BatchLength,              \* conf.batch_length
          Widths,                   \* the widths of ia_kvgen_setup, in bits
          MaxRuns                   \* bound: benchmarks run by the doer

ASSUME KeyGenAssumption ==
    /\ MaxReaders \in Nat /\ MaxWriters \in Nat /\ MaxPeriod \in Nat
    /\ BatchLength \in Nat \ {0} /\ MaxRuns \in Nat
    /\ Widths \subseteq Nat /\ IsFiniteSet(Widths)
    /\ \A w \in Widths : 2 ^ w \in Nat

VARIABLES rthr, wthr,         \* threads, as corrected by ia_run
          two,                \* set_wr has batch or crud: bench_mask_2keyspace
          period,             \* conf.count
          modulus,            \* 2^(8*width), or 0: setup failed
          doer,               \* the doer that is followed
          serial,             \* [{"a", "b"} -> serial of the generator]
          pool,               \* [{"a", "b"} -> points not pulled yet]
          pc, i,              \* of ia_run_benchmark
          used,               \* [{"a", "b"} -> points used in this run]
          runs

config == <<rthr, wthr, two, period, modulus, doer>>
vars == <<config, serial, pool, pc, i, used, runs>>

Gens == {"a", "b"}

----------------------------------------------------------------------------
(* The configuration: ia_run and ia_spread. *)

Larger(x, y) == IF x < y THEN y ELSE x
Doers == 0 .. rthr + wthr     \* 0 is the main thread

nsectors == Larger(1, Larger(rthr, wthr))
(* Mutant: the second key space of batch and crud is forgotten. *)
nspacesSingle == Larger(1, wthr)

nspaces == Larger(1, wthr) * (IF two THEN 2 ELSE 1)

(* Without writers the main thread writes; with them it does not. *)
Writes(d) == IF wthr = 0 THEN d = 0 ELSE d > rthr

(* ia_spread counts key_space up for every writer, by two if it needs two; *)
(* readers and the main thread have the first one.                         *)
KeySpace(d) == IF d > rthr THEN (d - rthr) * (IF two THEN 2 ELSE 1) ELSE 0

(* ia_kvgen_init: base and first serial of a generator.  The sector is the *)
(* number of the doer.                                                     *)
Base(d, g) == (KeySpace(d) + IF g = "b" THEN 1 ELSE 0) * period
FirstSerial(d) == ((period * d) \div nsectors) % period

(* The points that doer d writes. *)
Written(d) ==
    IF ~Writes(d) THEN {}
    ELSE Base(d, "a") .. Base(d, "a") + period * (IF two THEN 2 ELSE 1) - 1

(* ia_kvgen_setup: the first width that holds maxkey. *)
maxkey == period * nspaces
Fitting == {w \in Widths : maxkey < 2 ^ w - 1}
SetupModulus ==
    IF maxkey < 2 \/ Fitting = {} THEN 0
    ELSE 2 ^ (CHOOSE w \in Fitting : \A v \in Fitting : w <= v)

Init ==
    /\ rthr \in 0 .. MaxReaders
    /\ wthr \in 0 .. MaxWriters
    /\ two \in BOOLEAN
    /\ period \in 1 .. MaxPeriod
    /\ modulus = SetupModulus
    /\ doer \in Doers
    /\ serial = [g \in Gens |-> FirstSerial(doer)]
    /\ pool = [g \in Gens |-> <<>>]
    /\ pc = "idle"
    /\ i = 0
    /\ used = [g \in Gens |-> {}]
    /\ runs = 0

----------------------------------------------------------------------------
(* The generators and the pools. *)

(* gen->base + gen->serial, k calls from now. *)
PointAfter(g, k) == Base(doer, g) + ((serial[g] + k) % period)

(* ia_kvgen_get from the generators G. *)
KvgenGet(G) ==
    /\ used' = [g \in Gens |->
                  IF g \in G THEN used[g] \cup {PointAfter(g, 0)} ELSE used[g]]
    /\ serial' = [g \in Gens |->
                    IF g \in G THEN (serial[g] + 1) % period ELSE serial[g]]

(* Mutant: the last pair of a pool comes again in the next one. *)
KvpoolInitOverlap ==
    /\ pool' = [g \in Gens |-> [k \in 1 .. BatchLength |->
                                   PointAfter(g, k - 1)]]
    /\ serial' = [g \in Gens |-> (serial[g] + BatchLength - 1) % period]

(* Mutant: both pools are filled from the first generator. *)
KvpoolInitFromA ==
    /\ pool' = [pool EXCEPT
                   !["a"] = [k \in 1 .. BatchLength |-> PointAfter("a", k - 1)],
                   !["b"] = [k \in 1 .. BatchLength |->
                               PointAfter("a", BatchLength + k - 1)]]
    /\ serial' = [serial EXCEPT !["a"] = (@ + 2 * BatchLength) % period]

(* ia_kvpool_init of both pools. *)
KvpoolInit ==
    /\ pool' = [g \in Gens |-> [k \in 1 .. BatchLength |->
                                   PointAfter(g, k - 1)]]
    /\ serial' = [g \in Gens |-> (serial[g] + BatchLength) % period]

----------------------------------------------------------------------------
(* ia_run_benchmark, as far as keys go. *)

Starts(label) ==
    /\ modulus > 0
    /\ pc = "idle" /\ runs < MaxRuns
    /\ pc' = label
    /\ i' = 0
    /\ used' = [g \in Gens |-> {}]
    /\ runs' = runs + 1
    /\ UNCHANGED <<config, serial, pool>>

(* SET, DELETE and GET use one key each, CRUD two, BATCH two from pools. *)
RunSingle == Starts("single")
RunCrud == two /\ Writes(doer) /\ Starts("crud")
RunBatch == two /\ Writes(doer) /\ Starts("batch")

Single ==
    /\ pc = "single" /\ i < period
    /\ KvgenGet({"a"})
    /\ i' = i + 1
    /\ UNCHANGED <<config, pool, pc, runs>>

Crud ==
    /\ pc = "crud" /\ i < period
    /\ KvgenGet({"a", "b"})
    /\ i' = i + 1
    /\ UNCHANGED <<config, pool, pc, runs>>

Batch ==
    /\ pc = "batch" /\ i < period
    /\ KvpoolInit
    /\ pc' = "pull"
    /\ UNCHANGED <<config, i, used, runs>>

(* One round of the loop over the pools; it ends with the last operation  *)
(* of the run or with the pool.  ia_kvpool_pull fails on an empty pool,   *)
(* and the benchmark then ends as if it had succeeded.                    *)
Pull ==
    /\ pc = "pull"
    /\ IF pool["a"] = <<>>
       THEN pc' = "stopped" /\ UNCHANGED <<used, pool, i>>
       ELSE /\ used' = [g \in Gens |-> used[g] \cup {Head(pool[g])}]
            /\ pool' = [g \in Gens |-> Tail(pool[g])]
            /\ i' = i + 1
            /\ pc' = IF i + 1 = period \/ Len(pool["a"]) = 1 THEN "batch"
                     ELSE "pull"
    /\ UNCHANGED <<config, serial, runs>>

(* bailout: the pools are destroyed. *)
RunEnd ==
    /\ pc \in {"single", "crud", "batch"} /\ i = period
    /\ pc' = "idle"
    /\ pool' = [g \in Gens |-> <<>>]
    /\ UNCHANGED <<config, serial, i, used, runs>>

Idle == pc = "idle" /\ (runs = MaxRuns \/ modulus = 0) /\ UNCHANGED vars

Next ==
    \/ RunSingle \/ RunCrud \/ RunBatch
    \/ Single \/ Crud \/ Batch \/ Pull \/ RunEnd \/ Idle

Spec == Init /\ [][Next]_vars

----------------------------------------------------------------------------
(* Properties. *)

Space(g) == Base(doer, g) .. Base(doer, g) + period - 1

(* The -n operations of a benchmark use each key of the doer's key space  *)
(* exactly once, wherever the sector starts, and also when the last pool  *)
(* is used in part only: a delete finds what a set or a batch left.  A    *)
(* batch never finds its pool empty, which would end the benchmark early  *)
(* and without an error.                                                  *)
RunCoversSpace ==
    /\ pc # "stopped"
    /\ pc \in {"single", "crud", "batch"} /\ i = period =>
          /\ used["a"] = Space("a")
          /\ pc # "single" => used["b"] = Space("b")

(* The two generators of a doer are in step when a benchmark begins, and  *)
(* between its operations, although SET, DELETE and GET use one of them.  *)
GeneratorsInStep ==
    pc \in {"idle", "crud", "batch", "pull"} => serial["a"] = serial["b"]

(* Different points that somebody writes stay different in the bits that  *)
(* make the key, although key spaces are counted from one and points go   *)
(* beyond maxkey.                                                         *)
WrittenKeysDistinct ==
    modulus > 0 =>
        LET W == UNION {Written(d) : d \in Doers}
        IN  Cardinality({p % modulus : p \in W}) = Cardinality(W)

=============================================================================
