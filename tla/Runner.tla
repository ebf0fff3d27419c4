------------------------------- MODULE Runner -------------------------------
(***************************************************************************)
(* ia_doer_fulfil and ia_run_benchmark of ia_benchmark.c: which calls of   *)
(* the driver a doer makes, in which order, and what it makes of their     *)
(* return codes.                                                           *)
(*                                                                         *)
(* Keys are pairs of a key space and a serial number (KeyGen.tla has the   *)
(* generators in detail), measuring is Histogram.tla.  The options that    *)
(* follow thread_new are left out: ia_mdbx_option, the only one there is,  *)
(* accepts everything for a context.  Memory that runs out is, too.        *)
(***************************************************************************)
EXTENDS DriverCalls, Sequences

CONSTANTS Jobs,         \* ways to spread the work over the doers
          BatchLength,  \* conf.batch_length
          MaxPasses     \* bound: passes over a set of benchmarks

(* What ia_doer_init gets: the benchmarks, the key space of the first     *)
(* generator (the second has the one after it), and where it starts; and  *)
(* for how many passes, with -c, the other doers leave it time.           *)
JobType == [mask : SUBSET Steps, space : Spaces, start : 0 .. Count - 1,
            passes : 1 .. MaxPasses]

ASSUME RunnerAssumption ==
    /\ Jobs \subseteq [Doers -> JobType]
    /\ BatchLength \in Nat \ {0} /\ MaxPasses \in Nat \ {0}

Single == {"set", "delete", "get"}
Quadruple == {"batch", "crud"}

(* The key spaces that a doer writes to, which no two doers share: this is *)
(* WritersApart of Arena.tla.                                              *)
WriteSpaces(jb) ==
    IF jb.mask \cap ({"set", "delete"} \cup Quadruple) = {} THEN {}
    ELSE IF jb.mask \cap Quadruple = {} THEN {jb.space}
    ELSE {jb.space, jb.space + 1}

ASSUME SpacesAssumption ==
    \A jobs \in Jobs : \A d, e \in Doers :
        d # e => WriteSpaces(jobs[d]) \cap WriteSpaces(jobs[e]) = {}

VARIABLES ignore,       \* conf.ignore_keynotfound
          pc,           \* [Doers -> Labels]
          job,          \* [Doers -> JobType]
          serial,       \* where the generators stand as a benchmark begins
          left,         \* benchmarks left in this pass
          passes,       \* passes begun
          bench,        \* the benchmark being run
          i, j,         \* its operations done, in all and in this batch
          q,            \* position in ia_quadruple
          rc,
          begun         \* history: every begin of this benchmark succeeded

runner == <<ignore, pc, job, serial, left, passes, bench, i, j, q, rc,
            begun>>

Order == <<"set", "batch", "crud", "delete", "iterate", "get">>
FirstOf(S) == Order[CHOOSE n \in 1 .. Len(Order) :
                       /\ Order[n] \in S
                       /\ \A m \in 1 .. n - 1 : Order[m] \notin S]

GenA == 0               \* the generators, by the distance of their spaces
GenB == 1

(* ia_quadruple: what is asked of the driver, and with which key. *)
QuadrupleCalls ==
    <<<<"set", GenB>>, <<"set", GenA>>, <<"delete", GenB>>, <<"get", GenA>>>>

Labels == {"new", "pass", "begin", "next", "done", "dispose", "end"}

RunnerInit ==
    /\ ignore \in BOOLEAN
    /\ pc = [d \in Doers |-> "new"]
    /\ job \in Jobs
    /\ serial = [d \in Doers |-> job[d].start]
    /\ left = [d \in Doers |-> {}]
    /\ passes = [d \in Doers |-> 0]
    /\ bench = [d \in Doers |-> "set"]
    /\ i = [d \in Doers |-> 0]
    /\ j = [d \in Doers |-> 0]
    /\ q = [d \in Doers |-> 1]
    /\ rc = [d \in Doers |-> 0]
    /\ begun = [d \in Doers |-> TRUE]

----------------------------------------------------------------------------
(* Calls of the driver. *)

Ask(d, label, fn, step, key) ==
    /\ pc' = [pc EXCEPT ![d] = label]
    /\ call' = [call EXCEPT ![d] = Request(fn, step, key)]

(* The call that d waits for has returned. *)
Returned(d, label) == pc[d] = label /\ call[d].fn = "return"

AskBegin(d) == Ask(d, "begin", "begin", bench[d], NoKey)
AskDone(d) == Ask(d, "done", "done", bench[d], NoKey)

(* The key of the n-th operation: generators go round. *)
KeyOf(d, g, n) == <<job[d].space + g, (serial[d] + n) % Count>>

AskNext(d, step, g, n) == Ask(d, "next", "next", step, KeyOf(d, g, n))

AskIterate(d) == Ask(d, "next", "next", "iterate", NoKey)

(* The n-th call of ia_quadruple, for operation k. *)
AskQuadruple(d, n, k) ==
    AskNext(d, QuadrupleCalls[n][1], QuadrupleCalls[n][2], k)

(* bailout: back in ia_doer_fulfil with rc. *)
Leave(d, code) ==
    /\ rc' = [rc EXCEPT ![d] = code]
    /\ pc' = [pc EXCEPT ![d] = "pass"]
    /\ call' = [call EXCEPT ![d] = Request("none", bench[d], NoKey)]

(* ENOENT is no error with -i. *)
Tolerated(code) == IF code = ENOENT /\ ignore THEN 0 ELSE code

----------------------------------------------------------------------------
(* ia_doer_fulfil. *)

(* Back from thread_new: without a context the doer gives up. *)
ThreadNewReturned(d) ==
    /\ Returned(d, "new")
    /\ IF call[d].rc = 0
       THEN /\ passes' = [passes EXCEPT ![d] = 1]
            /\ left' = [left EXCEPT ![d] = job[d].mask]
            /\ Leave(d, 0)
       ELSE /\ pc' = [pc EXCEPT ![d] = "end"]
            /\ rc' = [rc EXCEPT ![d] = -1]
            /\ UNCHANGED <<call, passes, left>>
    /\ UNCHANGED <<ignore, job, serial, bench, i, j, q, begun>>

(* The next benchmark of the pass. *)
RunBenchmark(d) ==
    LET b == FirstOf(left[d]) IN
    /\ pc[d] = "pass" /\ rc[d] = 0 /\ left[d] # {}
    /\ bench' = [bench EXCEPT ![d] = b]
    /\ left' = [left EXCEPT ![d] = @ \ {b}]
    /\ i' = [i EXCEPT ![d] = 0]
    /\ j' = [j EXCEPT ![d] = 0]
    /\ begun' = [begun EXCEPT ![d] = TRUE]
    /\ Ask(d, "begin", "begin", b, NoKey)
    /\ UNCHANGED <<ignore, job, serial, passes, q, rc>>

(* With -c another pass may follow, if nothing failed. *)
PassAgain(d) ==
    /\ pc[d] = "pass" /\ rc[d] = 0 /\ left[d] = {}
    /\ passes[d] < job[d].passes
    /\ passes' = [passes EXCEPT ![d] = @ + 1]
    /\ left' = [left EXCEPT ![d] = job[d].mask]
    /\ UNCHANGED <<call, ignore, pc, job, serial, bench, i, j, q, rc, begun>>

(* thread_dispose. *)
AskDispose(d) ==
    /\ pc[d] = "pass" /\ (rc[d] # 0 \/ left[d] = {})
    /\ Ask(d, "dispose", "thread_dispose", bench[d], NoKey)
    /\ UNCHANGED <<ignore, job, serial, left, passes, bench, i, j, q, rc,
                   begun>>

Disposed(d) ==
    /\ Returned(d, "dispose")
    /\ pc' = [pc EXCEPT ![d] = "end"]
    /\ UNCHANGED <<call, ignore, job, serial, left, passes, bench, i, j, q, rc,
                   begun>>

----------------------------------------------------------------------------
(* ia_run_benchmark. *)

(* Back from begin.  BATCH goes on whatever the code is: it is overwritten *)
(* by that of the first ia_quadruple.                                      *)
BeginReturned(d) ==
    LET r == call[d].rc IN
    /\ Returned(d, "begin")
    /\ begun' = [begun EXCEPT ![d] = @ /\ r = 0]
    /\ \/ /\ bench[d] \in Single
          /\ IF r = 0 THEN AskNext(d, bench[d], GenA, i[d]) ELSE AskDone(d)
          /\ rc' = [rc EXCEPT ![d] = r]
          /\ UNCHANGED <<j, q>>
       \/ /\ bench[d] = "crud"
          /\ IF r = 0
             THEN AskQuadruple(d, 1, i[d]) /\ rc' = [rc EXCEPT ![d] = 0]
             ELSE Leave(d, r)
          /\ q' = [q EXCEPT ![d] = 1]
          /\ UNCHANGED j
       \/ /\ bench[d] = "batch"
          /\ AskQuadruple(d, 1, i[d])
          /\ rc' = [rc EXCEPT ![d] = r]
          /\ q' = [q EXCEPT ![d] = 1]
          /\ j' = [j EXCEPT ![d] = 0]
       \/ /\ bench[d] = "iterate"
          /\ \/ r = 0 /\ AskIterate(d)
                      /\ rc' = [rc EXCEPT ![d] = 0]
             \/ r = ENOENT /\ AskDone(d) /\ rc' = [rc EXCEPT ![d] = 0]
             \/ r = -1 /\ Leave(d, r)
          /\ UNCHANGED <<j, q>>
    /\ UNCHANGED <<ignore, job, serial, left, passes, bench, i>>

(* Back from next in SET, DELETE and GET: done is called in any case. *)
SingleNextReturned(d) ==
    /\ Returned(d, "next") /\ bench[d] \in Single
    /\ rc' = [rc EXCEPT ![d] = call[d].rc]
    /\ AskDone(d)
    /\ UNCHANGED <<ignore, job, serial, left, passes, bench, i, j, q, begun>>

(* Mutant: done is called in any case, as in SET. *)
QuadrupleNextDone(d) ==
    LET last == q[d] = Len(QuadrupleCalls)
    IN /\ Returned(d, "next") /\ bench[d] \in Quadruple
       /\ IF call[d].rc = 0 /\ ~last
          THEN /\ AskQuadruple(d, q[d] + 1, i[d])
               /\ q' = [q EXCEPT ![d] = @ + 1]
               /\ UNCHANGED <<i, j>>
          ELSE /\ AskDone(d)
               /\ q' = [q EXCEPT ![d] = 1]
               /\ i' = [i EXCEPT ![d] = IF bench[d] = "batch"
                                       THEN @ + 1 ELSE @]
               /\ UNCHANGED j
       /\ rc' = [rc EXCEPT ![d] = call[d].rc]
       /\ UNCHANGED <<ignore, job, serial, left, passes, bench, begun>>

(* Back from next in ia_quadruple.  After its last call CRUD is done, and *)
(* BATCH when all operations are, or those of this batch; a failure ends  *)
(* the benchmark without done.                                            *)
QuadrupleNextReturned(d) ==
    LET code == IF q[d] > 2 THEN Tolerated(call[d].rc) ELSE call[d].rc
        last == q[d] = Len(QuadrupleCalls)
        batch == last /\ bench[d] = "batch"
    IN /\ Returned(d, "next") /\ bench[d] \in Quadruple
       /\ \/ code # 0 /\ Leave(d, code) /\ UNCHANGED <<i, j, q>>
          \/ /\ code = 0 /\ ~last
             /\ AskQuadruple(d, q[d] + 1, i[d])
             /\ q' = [q EXCEPT ![d] = @ + 1]
             /\ rc' = [rc EXCEPT ![d] = 0]
             /\ UNCHANGED <<i, j>>
          \/ /\ code = 0 /\ last
             /\ i' = [i EXCEPT ![d] = IF batch THEN @ + 1 ELSE @]
             /\ j' = [j EXCEPT ![d] = IF batch THEN @ + 1 ELSE @]
             /\ IF batch /\ i[d] + 1 # Count /\ j[d] + 1 # BatchLength
                THEN AskQuadruple(d, 1, i[d] + 1) ELSE AskDone(d)
             /\ q' = [q EXCEPT ![d] = 1]
             /\ rc' = [rc EXCEPT ![d] = 0]
       /\ UNCHANGED <<ignore, job, serial, left, passes, bench, begun>>

(* Mutant: only keys that are found count as operations. *)
IterateNextFound(d) ==
    LET r == call[d].rc IN
    /\ Returned(d, "next") /\ bench[d] = "iterate"
    /\ i' = [i EXCEPT ![d] = IF r = 0 THEN @ + 1 ELSE @]
    /\ \/ r = -1 /\ Leave(d, r)
       \/ /\ r # -1
          /\ IF r = 0 /\ i[d] + 1 # Count
             THEN AskIterate(d) ELSE AskDone(d)
          /\ rc' = [rc EXCEPT ![d] = 0]
    /\ UNCHANGED <<ignore, job, serial, left, passes, bench, j, q, begun>>

(* Back from next in ITERATE: not found is an operation too, and the end  *)
(* of the iteration, not of the benchmark.                                *)
IterateNextReturned(d) ==
    LET r == call[d].rc IN
    /\ Returned(d, "next") /\ bench[d] = "iterate"
    /\ i' = [i EXCEPT ![d] = @ + 1]
    /\ \/ r = -1 /\ Leave(d, r)
       \/ /\ r # -1
          /\ IF r = 0 /\ i[d] + 1 # Count
             THEN AskIterate(d) ELSE AskDone(d)
          /\ rc' = [rc EXCEPT ![d] = 0]
    /\ UNCHANGED <<ignore, job, serial, left, passes, bench, j, q, begun>>

(* Keys that a BATCH takes from a generator: ia_kvpool_init fetches those  *)
(* of a whole batch, the last one included.                                *)
Pooled == BatchLength * ((Count + BatchLength - 1) \div BatchLength)

(* Mutant: the code of done replaces that of begin and next. *)
DoneReturnedLast(d) ==
    LET code == call[d].rc
        n == IF bench[d] \in Single \cup {"crud"} THEN i[d] + 1 ELSE i[d]
    IN /\ Returned(d, "done")
       /\ IF code = 0 /\ n < Count
          THEN AskBegin(d) /\ rc' = [rc EXCEPT ![d] = 0]
          ELSE Leave(d, code)
       /\ i' = [i EXCEPT ![d] = IF code = 0 THEN n ELSE @]
       /\ UNCHANGED <<ignore, job, serial, left, passes, bench, j, q, begun>>

(* Back from done: the next round of the loop, or the end of it. *)
DoneReturned(d) ==
    LET own == Tolerated(rc[d])     \* rc of begin and next; rc2 is done's
        code == IF own = 0 THEN call[d].rc ELSE own
        n == IF bench[d] \in Single \cup {"crud"} THEN i[d] + 1 ELSE i[d]
    IN /\ Returned(d, "done")
       /\ serial' = IF bench[d] = "batch" /\ code = 0 /\ n = Count
                    THEN [serial EXCEPT ![d] = (@ + Pooled) % Count]
                    ELSE serial
       /\ IF code = 0 /\ n < Count
          THEN AskBegin(d) /\ rc' = [rc EXCEPT ![d] = 0]
          ELSE Leave(d, code)
       /\ i' = [i EXCEPT ![d] = IF code = 0 THEN n ELSE @]
       /\ UNCHANGED <<ignore, job, left, passes, bench, j, q, begun>>

RunnerStep(d) ==
    /\ \/ ThreadNewReturned(d) \/ RunBenchmark(d) \/ PassAgain(d)
       \/ AskDispose(d) \/ Disposed(d) \/ BeginReturned(d)
       \/ SingleNextReturned(d) \/ QuadrupleNextReturned(d)
       \/ IterateNextReturned(d) \/ DoneReturned(d)
    /\ UNCHANGED faults

(* The benchmark has been told that what it did is done, and db shows it:  *)
(* the key of a SET, no key of a DELETE, of a CRUD the first key and not   *)
(* the second, and so for every operation of a batch.                      *)
Acknowledges(d) == Returned(d, "done") /\ rc[d] = 0 /\ call[d].rc = 0

Shown(d, db) ==
    LET ops == IF bench[d] = "batch" THEN i[d] - j[d] .. i[d] - 1 ELSE {i[d]}
    IN /\ bench[d] \in {"set"} \cup Quadruple =>
            \A k \in ops : KeyOf(d, GenA, k) \in db
       /\ bench[d] \in Quadruple =>
            \A k \in ops : KeyOf(d, GenB, k) \notin db
       /\ bench[d] = "delete" => KeyOf(d, GenA, i[d]) \notin db
=============================================================================
