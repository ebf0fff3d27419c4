----------------------------- MODULE WriteBatch -----------------------------
(***************************************************************************)
(* drivers/ia_rocksdb.c and drivers/ia_leveldb.c, which do the same with   *)
(* two libraries.  In the place of a transaction a context has a batch of  *)
(* writes, and besides an iterator and the memory of the last value read.  *)
(* Filling a batch and moving an iterator cannot fail.                     *)
(***************************************************************************)
EXTENDS Contexts

----------------------------------------------------------------------------
(* thread_new and thread_dispose. *)
WbThreadNew(d) ==
    /\ Called(d, "thread_new", Steps)
    /\ Return(d, 0)
    /\ UNCHANGED <<faults, context>>

WbThreadDispose(d) ==
    /\ Called(d, "thread_dispose", Steps)
    /\ SetHeld(d, {}) /\ SetCursor(d, NoCursor) /\ SetTxn(d, NoTxn)
    /\ Return(d, 0)
    /\ UNCHANGED <<faults, data, db>>

----------------------------------------------------------------------------
(* begin. *)
WbBeginSingle(d) ==
    /\ Called(d, "begin", SingleSteps)
    /\ Return(d, 0)
    /\ UNCHANGED <<faults, context>>

WbBeginIterate(d) ==
    /\ Called(d, "begin", {"iterate"})
    /\ \/ Works /\ SetCursor(d, Snapshot(data)) /\ Return(d, 0)
       \/ Fails /\ SetCursor(d, NoCursor) /\ Return(d, -1)
    /\ UNCHANGED <<data, txn, held, db>>

WbBeginBatch(d) ==
    /\ Called(d, "begin", TxnSteps)
    /\ \/ Works /\ SetTxn(d, OpenTxn) /\ Return(d, 0)
       \/ Fails /\ SetTxn(d, NoTxn) /\ Return(d, -1)
    /\ UNCHANGED <<data, cursor, held, db>>

----------------------------------------------------------------------------
(* done. *)
WbDoneSingle(d) ==
    /\ Called(d, "done", SingleSteps)
    /\ IF call[d].step = "get" THEN SetHeld(d, {}) ELSE UNCHANGED held
    /\ Return(d, 0)
    /\ UNCHANGED <<faults, data, cursor, txn, db>>

(* Mutant: the iterator is kept for the next time. *)
WbDoneIterateKeep(d) ==
    /\ Called(d, "done", {"iterate"})
    /\ Return(d, 0)
    /\ UNCHANGED <<faults, context>>

WbDoneIterate(d) ==
    /\ Called(d, "done", {"iterate"})
    /\ SetCursor(d, NoCursor)
    /\ Return(d, 0)
    /\ UNCHANGED <<faults, data, txn, held, db>>

WbDoneBatch(d) ==
    /\ Called(d, "done", TxnSteps)
    /\ \/ Works /\ Commit(d) /\ Return(d, 0)
       \/ txn[d] # NoTxn /\ Fails /\ Return(d, -1) /\ UNCHANGED <<data, txn>>
    /\ UNCHANGED <<cursor, held, db>>

----------------------------------------------------------------------------
(* next. *)

(* Mutant: writes go to the database although there is a batch. *)
WbNextSetThrough(d) ==
    /\ Called(d, "next", {"set"})
    /\ \/ Works /\ data' = data \cup {call[d].key} /\ Return(d, 0)
       \/ Fails /\ Return(d, -1) /\ UNCHANGED data
    /\ UNCHANGED <<txn, cursor, held, db>>

(* To the batch, if there is one. *)
WbNextSet(d) ==
    /\ Called(d, "next", {"set"})
    /\ \/ Works /\ Put(d, call[d].key) /\ Return(d, 0)
       \/ txn[d] = NoTxn /\ Fails /\ Return(d, -1) /\ UNCHANGED <<data, txn>>
    /\ UNCHANGED <<cursor, held, db>>

(* A key that is missing is not reported. *)
WbNextDelete(d) ==
    /\ Called(d, "next", {"delete"})
    /\ \/ Works /\ Remove(d, call[d].key) /\ Return(d, 0)
       \/ txn[d] = NoTxn /\ Fails /\ Return(d, -1) /\ UNCHANGED <<data, txn>>
    /\ UNCHANGED <<cursor, held, db>>

(* Mutant: the batch is not considered. *)
WbNextGetStrict(d) ==
    LET found == call[d].key \in data IN
    /\ Called(d, "next", {"get"})
    /\ Works
    /\ SetHeld(d, IF found THEN {"result"} ELSE {})
    /\ Return(d, IF found THEN 0 ELSE ENOENT)
    /\ UNCHANGED <<data, txn, cursor, db>>

(* From the database, never from the batch: in a batch a key that is       *)
(* missing is not reported either.                                         *)
WbNextGet(d) ==
    LET found == call[d].key \in data IN
    /\ Called(d, "next", {"get"})
    /\ \/ /\ Works /\ SetHeld(d, IF found THEN {"result"} ELSE {})
          /\ Return(d, IF found \/ txn[d] # NoTxn THEN 0 ELSE ENOENT)
       \/ Fails /\ SetHeld(d, {}) /\ Return(d, -1)
    /\ UNCHANGED <<data, txn, cursor, db>>

WbNextIterate(d) ==
    /\ Called(d, "next", {"iterate"})
    /\ IF Ahead(cursor[d], data) # {}
       THEN SetCursor(d, Moved(cursor[d], data)) /\ Return(d, 0)
       ELSE UNCHANGED cursor /\ Return(d, ENOENT)
    /\ UNCHANGED <<faults, data, txn, held, db>>

WbStep(d) ==
    \/ WbThreadNew(d) \/ WbThreadDispose(d)
    \/ WbBeginSingle(d) \/ WbBeginIterate(d) \/ WbBeginBatch(d)
    \/ WbDoneSingle(d) \/ WbDoneIterate(d) \/ WbDoneBatch(d)
    \/ WbNextSet(d) \/ WbNextDelete(d) \/ WbNextGet(d) \/ WbNextIterate(d)
=============================================================================
