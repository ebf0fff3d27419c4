------------------------------ MODULE TxnBench ------------------------------
(***************************************************************************)
(* Doers that run benchmarks (Runner.tla) on a database with transactions: *)
(* the lmdb driver (Lmdb.tla) or the mdbx driver (Mdbx.tla).               *)
(***************************************************************************)
EXTENDS Runner, Mdbx

CONSTANT Drivers        \* the drivers there may be

ASSUME DriverAssumption == Drivers \subseteq {"lmdb", "mdbx"}

VARIABLE chosen         \* conf.driver

(* History: the keys that have been in the database all the time since    *)
(* the doer last called begin.                                            *)
VARIABLE before

vars == <<call, faults, runner, driver, before, chosen>>

Init ==
    /\ CallsInit /\ RunnerInit /\ DriverInit
    /\ chosen \in Drivers
    /\ before = [d \in Doers |-> {}]

DriverStep(d) ==
    \/ chosen = "lmdb" /\ LmdbStep(d)
    \/ chosen = "mdbx" /\ MdbxStep(d)

Watch ==
    before' = [d \in Doers |->
                 IF call'[d].fn = "begin" /\ call[d].fn # "begin"
                 THEN data' ELSE before[d] \cap data']

Step(d) ==
    /\ \/ RunnerStep(d) /\ UNCHANGED driver
       \/ DriverStep(d) /\ UNCHANGED runner
    /\ Watch /\ UNCHANGED chosen

Ended == \A d \in Doers : pc[d] = "end"

(* ia_free, when ia_run is back. *)
Free == Ended /\ Close /\ UNCHANGED <<runner, before, chosen>>

Exited == env = "closed" /\ UNCHANGED vars

Next == (\E d \in Doers : Step(d)) \/ Free \/ Exited

(* Every thread is scheduled again and again.  Whoever waits for the write *)
(* transaction has no claim to get it in turn: weak fairness.              *)
Fairness == (\A d \in Doers : WF_vars(Step(d))) /\ WF_vars(Free)

Spec == Init /\ [][Next]_vars /\ Fairness

----------------------------------------------------------------------------
(* Properties. *)

(* No call of the library gets a handle that does not fit: a transaction  *)
(* is renewed only if it was reset (never a write transaction left over   *)
(* from a failure), a cursor is used only in the transaction it belongs   *)
(* to, and without a transaction of the right kind the driver is asked    *)
(* for nothing, unless its begin failed.                                  *)
HandlesFit ==
    \A d \in Doers :
        LET c == call[d]
            kind == txn[d].kind
        IN /\ c.fn = "begin" /\ c.step \in ReadSteps =>
                kind \in {"none", "reset"}
           /\ c.fn = "next" /\ c.step = "iterate" =>
                kind = "read" /\ cursor[d].kind = "bound"
           /\ c.fn = "next" /\ c.step \in {"set", "delete"} /\ begun[d] =>
                kind = "write"
           /\ c.fn = "next" /\ c.step = "get" /\ begun[d] =>
                kind \in {"read", "write"}
           /\ c.fn = "done" /\ c.step \in WriteSteps /\ begun[d] =>
                kind = "write"

(* A key that has been in the database since before begin is never        *)
(* reported missing: the transaction that is renewed does not read an old *)
(* snapshot, not even when other doers share the key space.  Within one   *)
(* CRUD or BATCH the keys just put are always found.                      *)
PresentIsFound ==
    \A d \in Doers :
        Returned(d, "next") /\ call[d].rc = ENOENT =>
            \/ bench[d] = "iterate"
            \/ bench[d] \in Single /\ call[d].key \notin before[d]

(* What a doer has been told is done is in the database: no commit that    *)
(* failed passes for a success, and none is of an older state that undoes  *)
(* what other doers committed meanwhile.                                   *)
Acknowledged == \A d \in Doers : Acknowledges(d) => Shown(d, data)

(* A benchmark whose begin failed is not passed off as a success, not     *)
(* even BATCH, which overwrites the code that begin returned.             *)
FailedBeginFails ==
    \A d \in Doers : pc[d] = "pass" /\ ~begun[d] => rc[d] # 0

(* A doer that has left holds nothing: no cursor, no transaction, and not *)
(* the one write transaction, which others may be waiting for.            *)
Released ==
    \A d \in Doers :
        pc[d] = "end" =>
            txn[d] = NoTxn /\ cursor[d] = NoCursor /\ writer # d

(* Every operation shows in the database as a whole or not at all, those  *)
(* of doers that fail half way through included.                          *)
Store == INSTANCE KeyStore WITH
             First <- {f[d].space : f \in Jobs, d \in Doers}
OperationsAtomic == Store!Spec

(* Every doer comes to its end: nobody waits for the write transaction    *)
(* for ever, and no loop goes on without progress.                        *)
AllEnd == <>Ended
=============================================================================
