-------------------------------- MODULE Mdbx --------------------------------
(***************************************************************************)
(* drivers/ia_mdbx.c, which is ia_lmdb.c (Lmdb.tla) with three             *)
(* differences: the handle is opened in a read transaction, so nobody      *)
(* waits there; mdbx_txn_abort may fail; and so may mdbx_txn_reset, which  *)
(* also refuses NULL.  An abort that fails in thread_new or thread_dispose *)
(* stops the program (assert) and is left out.                             *)
(***************************************************************************)
EXTENDS Lmdb

(* ia_mdbx_thread_new, after the look at the handle. *)
MdbxDbiOpen(d) ==
    /\ at[d] = "dbi"
    /\ \/ Works /\ dbi' = "open" /\ Return(d, 0)
       \/ Fails /\ dbi' \in {dbi, "open"} /\ Return(d, -1)
    /\ Goto(d, "out")
    /\ UNCHANGED <<data, writer, txn, cursor>>

MdbxThreadNew(d) == ThreadNew(d) \/ MdbxDbiOpen(d)

(* ia_mdbx_begin, when mdbx_txn_abort fails. *)
MdbxAbortFails(d) ==
    /\ Called(d, "begin", WriteSteps) /\ txn[d] # NoTxn
    /\ Fails /\ Return(d, -1)
    /\ SetCursor(d, NoCursor)
    /\ SetTxn(d, NoTxn)
    /\ UNCHANGED <<data, writer, dbi, at>>

MdbxBegin(d) ==
    BeginWrite(d) \/ MdbxAbortFails(d) \/ TxnBegin(d) \/ BeginRead(d)

(* Mutant: the code of mdbx_txn_reset is not looked at. *)
MdbxDoneReadBlindly(d) ==
    \/ DoneRead(d)
    \/ /\ Called(d, "done", ReadSteps)
       /\ Fails /\ Return(d, 0)
       /\ UNCHANGED <<data, writer, dbi, txn, cursor, at>>

(* ia_mdbx_done: if the reset fails, the transaction goes on. *)
MdbxDoneRead(d) ==
    \/ txn[d] # NoTxn /\ DoneRead(d)
    \/ /\ Called(d, "done", ReadSteps)
       /\ (Works /\ txn[d] = NoTxn) \/ Fails
       /\ Return(d, -1)
       /\ UNCHANGED <<data, writer, dbi, txn, cursor, at>>

MdbxDone(d) == DoneWrite(d) \/ MdbxDoneRead(d)

MdbxNext(d) == NextSet(d) \/ NextDelete(d) \/ NextGet(d) \/ NextIterate(d)

(* ia_mdbx_thread_dispose. *)
MdbxThreadDispose(d) == ThreadDispose(d)

MdbxStep(d) ==
    /\ \/ MdbxThreadNew(d) \/ MdbxBegin(d) \/ MdbxDone(d) \/ MdbxNext(d)
       \/ MdbxThreadDispose(d)
    /\ UNCHANGED env
=============================================================================
