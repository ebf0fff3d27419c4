----------------------------- MODULE WiredTiger -----------------------------
(***************************************************************************)
(* drivers/ia_wiredtiger.c.  The session and the cursor of a context last  *)
(* as long as it does, and operations that find no transaction go to the   *)
(* database.  Whether removing a key that is missing is an error is left   *)
(* to the library.                                                         *)
(***************************************************************************)
EXTENDS Contexts

VARIABLE needCheckpoints        \* priv->need_checkpoints

WtInit == needCheckpoints \in BOOLEAN

(* ia_wiredtiger_thread_new undoes what it has done, if it fails. *)
WtThreadNew(d) ==
    /\ Called(d, "thread_new", Steps)
    /\ \/ /\ Works /\ Return(d, 0)
          /\ SetHeld(d, {"session"}) /\ SetCursor(d, Live)
       \/ Fails /\ Return(d, -1) /\ UNCHANGED <<held, cursor>>
    /\ UNCHANGED <<data, txn, db>>

(* ia_wiredtiger_thread_dispose. *)
WtThreadDispose(d) ==
    /\ Called(d, "thread_dispose", Steps)
    /\ SetCursor(d, NoCursor) /\ SetTxn(d, NoTxn) /\ SetHeld(d, {})
    /\ Return(d, 0)
    /\ UNCHANGED <<faults, data, db>>

----------------------------------------------------------------------------
(* ia_wiredtiger_begin. *)
WtBeginTxn(d) ==
    /\ Called(d, "begin", TxnSteps)
    /\ \/ Works /\ SetTxn(d, OpenTxn) /\ Return(d, 0)
       \/ Fails /\ Return(d, -1) /\ UNCHANGED txn
    /\ UNCHANGED <<data, cursor, held, db>>

WtBeginSingle(d) ==
    /\ Called(d, "begin", SingleSteps)
    /\ Return(d, 0)
    /\ UNCHANGED <<faults, data, txn, cursor, held, db>>

WtBeginIterate(d) ==
    /\ Called(d, "begin", {"iterate"})
    /\ \/ Works /\ SetCursor(d, Live) /\ Return(d, 0)
       \/ Fails /\ Return(d, -1) /\ UNCHANGED cursor
    /\ UNCHANGED <<data, txn, held, db>>

----------------------------------------------------------------------------
(* ia_wiredtiger_done. *)

(* Mutant: a commit that failed is rolled back and passes for a success. *)
WtDoneWriteBlindly(d) ==
    /\ Called(d, "done", TxnSteps \cup {"set", "delete"})
    /\ \/ Works /\ Commit(d) /\ Return(d, 0)
       \/ Fails /\ SetTxn(d, NoTxn) /\ Return(d, 0) /\ UNCHANGED data
    /\ UNCHANGED <<cursor, held, db>>

(* What is written is committed, and rolled back if that fails; a         *)
(* checkpoint that fails changes nothing any more.                         *)
WtDoneWrite(d) ==
    /\ Called(d, "done", TxnSteps \cup {"set", "delete"})
    /\ \/ Works /\ Commit(d) /\ Return(d, 0)
       \/ /\ txn[d] # NoTxn /\ Fails
          /\ SetTxn(d, NoTxn) /\ Return(d, -1) /\ UNCHANGED data
       \/ needCheckpoints /\ Fails /\ Commit(d) /\ Return(d, -1)
    /\ UNCHANGED <<cursor, held, db>>

WtDoneRead(d) ==
    /\ Called(d, "done", {"iterate", "get"})
    /\ Return(d, 0)
    /\ UNCHANGED <<faults, data, txn, cursor, held, db>>

----------------------------------------------------------------------------
(* ia_wiredtiger_next. *)
WtNextSet(d) ==
    /\ Called(d, "next", {"set"})
    /\ \/ Works /\ Put(d, call[d].key) /\ Return(d, 0)
       \/ Fails /\ Return(d, -1) /\ UNCHANGED <<data, txn>>
    /\ UNCHANGED <<cursor, held, db>>

WtNextDelete(d) ==
    /\ Called(d, "next", {"delete"})
    /\ \/ Works /\ Remove(d, call[d].key) /\ Return(d, 0)
       \/ /\ IF call[d].key \in Visible(d) THEN Fails ELSE Works
          /\ Return(d, -1) /\ UNCHANGED <<data, txn>>
    /\ UNCHANGED <<cursor, held, db>>

WtNextGet(d) ==
    /\ Called(d, "next", {"get"})
    /\ \/ Works /\ Return(d, IF call[d].key \in Visible(d) THEN 0 ELSE ENOENT)
       \/ Fails /\ Return(d, -1)
    /\ UNCHANGED <<data, txn, cursor, held, db>>

WtNextIterate(d) ==
    /\ Called(d, "next", {"iterate"})
    /\ \/ /\ Works /\ Ahead(cursor[d], data) # {}
          /\ SetCursor(d, Moved(cursor[d], data)) /\ Return(d, 0)
       \/ /\ Works /\ Ahead(cursor[d], data) = {}
          /\ Return(d, ENOENT) /\ UNCHANGED cursor
       \/ Fails /\ Return(d, -1) /\ UNCHANGED cursor
    /\ UNCHANGED <<data, txn, held, db>>

WtStep(d) ==
    \/ WtThreadNew(d) \/ WtThreadDispose(d)
    \/ WtBeginTxn(d) \/ WtBeginSingle(d) \/ WtBeginIterate(d)
    \/ WtDoneWrite(d) \/ WtDoneRead(d)
    \/ WtNextSet(d) \/ WtNextDelete(d) \/ WtNextGet(d) \/ WtNextIterate(d)
=============================================================================
