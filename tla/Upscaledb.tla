----------------------------- MODULE Upscaledb -----------------------------
(***************************************************************************)
(* drivers/ia_upscaledb.c.  Every operation is given the transaction of    *)
(* the context, or NULL, and then goes to the database.                    *)
(***************************************************************************)
EXTENDS Contexts

UpsThreadNew(d) ==
    /\ Called(d, "thread_new", Steps)
    /\ Return(d, 0)
    /\ UNCHANGED <<faults, context>>

(* ia_upscaledb_thread_dispose. *)
UpsThreadDispose(d) ==
    /\ Called(d, "thread_dispose", Steps)
    /\ SetCursor(d, NoCursor) /\ SetTxn(d, NoTxn)
    /\ Return(d, 0)
    /\ UNCHANGED <<faults, data, held, db>>

----------------------------------------------------------------------------
(* ia_upscaledb_begin. *)
UpsBeginSingle(d) ==
    /\ Called(d, "begin", SingleSteps)
    /\ Return(d, 0)
    /\ UNCHANGED <<faults, context>>

UpsBeginIterate(d) ==
    /\ Called(d, "begin", {"iterate"})
    /\ \/ Works /\ SetCursor(d, Live) /\ Return(d, 0)
       \/ /\ Fails /\ UNCHANGED cursor
          /\ Return(d, IF cursor[d] = NoCursor THEN -1 ELSE 0)
    /\ UNCHANGED <<data, txn, held, db>>

(* What is looked at is the transaction, not the status: one that was      *)
(* there before would hide the failure.                                    *)
UpsBeginTxn(d) ==
    /\ Called(d, "begin", TxnSteps)
    /\ \/ Works /\ SetTxn(d, OpenTxn) /\ Return(d, 0)
       \/ /\ Fails /\ UNCHANGED txn
          /\ Return(d, IF txn[d] = NoTxn THEN -1 ELSE 0)
    /\ UNCHANGED <<data, cursor, held, db>>

----------------------------------------------------------------------------
(* ia_upscaledb_done. *)
UpsDoneSingle(d) ==
    /\ Called(d, "done", SingleSteps)
    /\ Return(d, 0)
    /\ UNCHANGED <<faults, context>>

UpsDoneIterate(d) ==
    /\ Called(d, "done", {"iterate"})
    /\ SetCursor(d, NoCursor) /\ Return(d, 0)
    /\ UNCHANGED <<faults, data, txn, held, db>>

(* A transaction that cannot be committed is kept. *)
UpsDoneTxn(d) ==
    /\ Called(d, "done", TxnSteps)
    /\ \/ Works /\ Commit(d) /\ Return(d, 0)
       \/ txn[d] # NoTxn /\ Fails /\ Return(d, -1) /\ UNCHANGED <<data, txn>>
    /\ UNCHANGED <<cursor, held, db>>

----------------------------------------------------------------------------
(* ia_upscaledb_next. *)
UpsNextSet(d) ==
    /\ Called(d, "next", {"set"})
    /\ \/ Works /\ Put(d, call[d].key) /\ Return(d, 0)
       \/ Fails /\ Return(d, -1) /\ UNCHANGED <<data, txn>>
    /\ UNCHANGED <<cursor, held, db>>

UpsNextDelete(d) ==
    LET k == call[d].key IN
    /\ Called(d, "next", {"delete"})
    /\ \/ k \in Visible(d) /\ Works /\ Remove(d, k) /\ Return(d, 0)
       \/ /\ k \notin Visible(d) /\ Works
          /\ Return(d, ENOENT) /\ UNCHANGED <<data, txn>>
       \/ Fails /\ Return(d, -1) /\ UNCHANGED <<data, txn>>
    /\ UNCHANGED <<cursor, held, db>>

(* A key that is missing is not reported. *)
UpsNextGet(d) ==
    /\ Called(d, "next", {"get"})
    /\ (Works /\ Return(d, 0)) \/ (Fails /\ Return(d, -1))
    /\ UNCHANGED context

UpsNextIterate(d) ==
    /\ Called(d, "next", {"iterate"})
    /\ \/ /\ Works /\ Ahead(cursor[d], data) # {}
          /\ SetCursor(d, Moved(cursor[d], data)) /\ Return(d, 0)
       \/ /\ Works /\ Ahead(cursor[d], data) = {}
          /\ Return(d, ENOENT) /\ UNCHANGED cursor
       \/ Fails /\ Return(d, -1) /\ UNCHANGED cursor
    /\ UNCHANGED <<data, txn, held, db>>

UpsStep(d) ==
    \/ UpsThreadNew(d) \/ UpsThreadDispose(d)
    \/ UpsBeginSingle(d) \/ UpsBeginIterate(d) \/ UpsBeginTxn(d)
    \/ UpsDoneSingle(d) \/ UpsDoneIterate(d) \/ UpsDoneTxn(d)
    \/ UpsNextSet(d) \/ UpsNextDelete(d) \/ UpsNextGet(d) \/ UpsNextIterate(d)
=============================================================================
