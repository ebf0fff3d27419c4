---------------------------- MODULE ContextBench ----------------------------
(***************************************************************************)
(* Doers that run benchmarks (Runner.tla) on a database where each of them *)
(* has transactions, or batches of writes, of its own: the rocksdb or      *)
(* leveldb driver, the sophia, the wiredtiger, the forestdb or the         *)
(* upscaledb driver.                                                       *)
(***************************************************************************)
EXTENDS Runner, WriteBatch, Sophia, WiredTiger, ForestDb, Upscaledb

CONSTANT Drivers        \* the drivers there may be

ASSUME DriverAssumption ==
    Drivers \subseteq {"rocksdb", "sophia", "wiredtiger", "forestdb",
                       "upscaledb"}

VARIABLE chosen         \* conf.driver; "rocksdb" is leveldb too

(* History: the keys that have been in the database all the time since    *)
(* the doer last called begin.                                            *)
VARIABLE before

driver == <<context, needCheckpoints, forestdb>>
vars == <<call, faults, runner, driver, chosen, before>>

Init ==
    /\ CallsInit /\ RunnerInit /\ ContextsInit /\ WtInit /\ FdbInit
    /\ chosen \in Drivers
    /\ chosen # "wiredtiger" => ~needCheckpoints
    /\ before = [d \in Doers |-> {}]

DriverStep(d) ==
    /\ \/ chosen = "rocksdb" /\ WbStep(d) /\ UNCHANGED forestdb
       \/ chosen = "sophia" /\ SophiaStep(d) /\ UNCHANGED forestdb
       \/ chosen = "wiredtiger" /\ WtStep(d) /\ UNCHANGED forestdb
       \/ chosen = "upscaledb" /\ UpsStep(d) /\ UNCHANGED forestdb
       \/ chosen = "forestdb" /\ FdbStep(d)
    /\ UNCHANGED needCheckpoints

Watch ==
    before' = [d \in Doers |->
                 IF call'[d].fn = "begin" /\ call[d].fn # "begin"
                 THEN data' ELSE before[d] \cap data']

Step(d) ==
    /\ \/ RunnerStep(d) /\ UNCHANGED driver
       \/ DriverStep(d) /\ UNCHANGED runner
    /\ Watch /\ UNCHANGED chosen

Ended == \A d \in Doers : pc[d] = "end"

(* ia_free, when ia_run is back. *)
Free ==
    /\ Ended /\ Close
    /\ UNCHANGED <<runner, needCheckpoints, forestdb, chosen, before>>

Exited == db = "closed" /\ UNCHANGED vars

Next == (\E d \in Doers : Step(d)) \/ Free \/ Exited

Spec == Init /\ [][Next]_vars

----------------------------------------------------------------------------
(* Properties. *)

(* forestdb: the file of a context that could not be completed, which      *)
(* ia_forestdb_thread_new loses.                                           *)
Abandoned(d) == chosen = "forestdb" /\ passes[d] = 0 /\ held[d] = {"file"}

(* sophia: a doer whose GETs are followed by something else loses the      *)
(* documents that they leave in its context: in CRUD and BATCH, where a    *)
(* GET ends every operation, or when a pass that ends with GET is repeated *)
(* and the next one begins with SET, DELETE or ITERATE.                    *)
LosesDocuments(d) ==
    /\ chosen = "sophia"
    /\ \/ job[d].mask \cap Quadruple # {}
       \/ "get" \in job[d].mask /\ job[d].mask # {"get"} /\ passes[d] > 1

(* Handles are where the driver expects them.  begin never overwrites a    *)
(* transaction, a batch or an iterator that an earlier failure left        *)
(* behind, and SET, DELETE and GET never meet one, which would swallow     *)
(* what they write; sophia writes without a transaction only in a BATCH    *)
(* whose begin failed, which the runner does not look at; the iterator of  *)
(* forestdb is never asked for a document past the end.  No document of    *)
(* sophia is overwritten, and lost, but by the doers named above.  And a   *)
(* doer that has left holds nothing else, except for a context of forestdb *)
(* that was abandoned.                                                     *)
HandlesInOrder ==
    \A d \in Doers :
        LET c == call[d] IN
        /\ c.fn = "begin" =>
             /\ txn[d] = NoTxn
             /\ chosen # "wiredtiger" => cursor[d] = NoCursor
        /\ bench[d] \in Single => txn[d].kind # "open"
        /\ c.fn = "next" /\ c.step \in {"set", "delete"} =>
             \/ chosen # "sophia" \/ txn[d] # NoTxn
             \/ bench[d] = "batch" /\ ~begun[d]
        /\ c.fn = "next" /\ c.step = "iterate" =>
             /\ cursor[d] # NoCursor
             /\ chosen = "forestdb" => Ahead(cursor[d], data) # {}
        /\ "lost" \in held[d] => LosesDocuments(d)
        /\ pc[d] = "end" =>
             /\ txn[d] = NoTxn /\ cursor[d] = NoCursor
             /\ held[d] \subseteq {"lost"} \/ Abandoned(d)

(* In SET, DELETE and GET sophia's context holds the database in the place *)
(* of a transaction, and disposing of the context destroys whatever is     *)
(* there: no doer that fails takes the database away from the others.      *)
DatabaseLasts == db # "destroyed"

(* What a doer has been told is done is in the database: no commit that    *)
(* failed passes for a success.                                            *)
Acknowledged == \A d \in Doers : Acknowledges(d) => Shown(d, data)

(* A key that has been in the database since before begin is never         *)
(* reported missing, and within a CRUD or a BATCH none is, although GET    *)
(* looks for it in the transaction.  (sophia's GET, which looks in the     *)
(* database, reports no key missing as long as there is a transaction.)    *)
PresentIsFound ==
    \A d \in Doers :
        Returned(d, "next") /\ call[d].rc = ENOENT =>
            \/ bench[d] = "iterate"
            \/ bench[d] \in Single /\ call[d].key \notin before[d]

(* forestdb has no transaction for a BATCH, and rocksdb, wiredtiger and    *)
(* upscaledb go on without one when begin failed: puts and deletes then    *)
(* show one by one.                                                        *)
Unbatched(d) ==
    /\ bench[d] = "batch" /\ (chosen = "forestdb" \/ ~begun[d])
    /\ \/ call[d].step = "set" /\ data' = data \cup {call[d].key}
       \/ call[d].step = "delete" /\ data' = data \ {call[d].key}

(* Every operation shows in the database as a whole or not at all, those   *)
(* of doers that fail half way through included, with no other exception.  *)
Store == INSTANCE KeyStore WITH
             First <- {f[d].space : f \in Jobs, d \in Doers}
OperationsAtomic ==
    Store!Init /\ [][Store!Next \/ \E d \in Doers : Unbatched(d)]_data
=============================================================================
