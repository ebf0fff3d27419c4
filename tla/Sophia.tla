------------------------------- MODULE Sophia -------------------------------
(***************************************************************************)
(* drivers/ia_sophia.c.  Outside BATCH and CRUD the context has the        *)
(* database itself in the place of the transaction.                        *)
(*                                                                         *)
(* The string "sophia.error" belongs to the environment, not to a call:    *)
(* when a key is missing, or an iteration at its end, an error of any doer *)
(* may still be there.  A NULL transaction is refused.                     *)
(*                                                                         *)
(* The document of a GET stays in ctx->entry.  SET, DELETE and the begin   *)
(* of ITERATE overwrite the pointer without looking: the document is then  *)
(* "lost", and nothing will ever give it back.                             *)
(***************************************************************************)
EXTENDS Contexts

TheDb == [NoTxn EXCEPT !.kind = "db"]

(* What is held besides ctx->entry, when that is destroyed or consumed, or *)
(* when it is overwritten.                                                 *)
EntryGone(d) == held[d] \ {"entry"}
EntryLost(d) ==
    EntryGone(d) \cup (IF "entry" \in held[d] THEN {"lost"} ELSE {})

SophiaThreadNew(d) ==
    /\ Called(d, "thread_new", Steps)
    /\ Return(d, 0)
    /\ UNCHANGED <<faults, data, txn, cursor, held, db>>

(* ia_sophia_thread_dispose destroys whatever is in the place of the       *)
(* transaction.                                                            *)
SophiaThreadDispose(d) ==
    /\ Called(d, "thread_dispose", Steps)
    /\ db' = IF txn[d] = TheDb THEN "destroyed" ELSE db
    /\ SetCursor(d, NoCursor) /\ SetTxn(d, NoTxn)
    /\ SetHeld(d, EntryGone(d)) /\ Return(d, 0)
    /\ UNCHANGED <<faults, data>>

----------------------------------------------------------------------------
(* ia_sophia_begin. *)
SophiaBeginSingle(d) ==
    /\ Called(d, "begin", SingleSteps)
    /\ SetTxn(d, TheDb) /\ Return(d, 0)
    /\ UNCHANGED <<faults, data, cursor, held, db>>

SophiaBeginTxn(d) ==
    /\ Called(d, "begin", TxnSteps)
    /\ \/ Works /\ SetTxn(d, OpenTxn) /\ Return(d, 0)
       \/ Fails /\ SetTxn(d, NoTxn) /\ Return(d, -1)
    /\ UNCHANGED <<data, cursor, held, db>>

SophiaBeginIterate(d) ==
    /\ Called(d, "begin", {"iterate"})
    /\ \/ /\ Works /\ Return(d, 0)
          /\ SetCursor(d, Snapshot(data))
          /\ SetHeld(d, EntryLost(d) \cup {"entry"})
       \/ /\ Fails /\ Return(d, -1)
          /\ SetCursor(d, NoCursor) /\ UNCHANGED held
    /\ UNCHANGED <<data, txn, db>>

----------------------------------------------------------------------------
(* ia_sophia_done. *)

(* Mutant: the database stays in the place of the transaction. *)
SophiaDoneSingleKeep(d) ==
    /\ Called(d, "done", SingleSteps)
    /\ Return(d, 0)
    /\ UNCHANGED <<faults, data, txn, cursor, held, db>>

SophiaDoneSingle(d) ==
    /\ Called(d, "done", SingleSteps)
    /\ SetTxn(d, NoTxn) /\ Return(d, 0)
    /\ UNCHANGED <<faults, data, cursor, held, db>>

(* Without a transaction, which could not be begun, there is nothing to do. *)
SophiaDoneTxn(d) ==
    /\ Called(d, "done", TxnSteps)
    /\ \/ Works /\ Commit(d) /\ Return(d, 0)
       \/ /\ txn[d] # NoTxn /\ Fails
          /\ SetTxn(d, NoTxn) /\ Return(d, -1) /\ UNCHANGED data
    /\ UNCHANGED <<cursor, held, db>>

SophiaDoneIterate(d) ==
    /\ Called(d, "done", {"iterate"})
    /\ SetHeld(d, EntryGone(d)) /\ SetCursor(d, NoCursor)
    /\ SetTxn(d, NoTxn) /\ Return(d, 0)
    /\ UNCHANGED <<faults, data, db>>

----------------------------------------------------------------------------
(* ia_sophia_next. *)

(* The document is kept when it could not be written; what was there       *)
(* before is lost.                                                         *)
SophiaNextWrite(d, step, Write(_, _)) ==
    /\ Called(d, "next", {step})
    /\ \/ /\ txn[d] # NoTxn /\ Works
          /\ Write(d, call[d].key)
          /\ SetHeld(d, EntryLost(d)) /\ Return(d, 0)
       \/ /\ IF txn[d] = NoTxn THEN Works ELSE Fails
          /\ SetHeld(d, EntryLost(d) \cup {"entry"}) /\ Return(d, -1)
          /\ UNCHANGED <<data, txn>>
    /\ UNCHANGED <<cursor, db>>

SophiaNextSet(d) == SophiaNextWrite(d, "set", Put)
SophiaNextDelete(d) == SophiaNextWrite(d, "delete", Remove)

(* There is no entry: rc, or the error that somebody else has left. *)
SophiaNoEntry(d, rc) ==
    /\ SetHeld(d, EntryGone(d))
    /\ \/ Works /\ Return(d, rc)
       \/ Works /\ faults > 0 /\ Return(d, -1)

(* From the database, not from the transaction; a key that is missing is   *)
(* reported only if there is neither.                                      *)
SophiaNextGet(d) ==
    /\ Called(d, "next", {"get"})
    /\ \/ /\ call[d].key \in data
          /\ Works /\ Return(d, 0)
          /\ SetHeld(d, EntryGone(d) \cup {"entry"})
       \/ /\ call[d].key \notin data
          /\ SophiaNoEntry(d, IF txn[d] # NoTxn THEN 0 ELSE ENOENT)
       \/ /\ Fails /\ Return(d, -1)
          /\ \/ SetHeld(d, EntryGone(d))
             \/ SetHeld(d, EntryGone(d) \cup {"entry"})
    /\ UNCHANGED <<data, txn, cursor, db>>

SophiaNextIterate(d) ==
    /\ Called(d, "next", {"iterate"})
    /\ \/ /\ Ahead(cursor[d], data) # {} /\ Works
          /\ SetCursor(d, Moved(cursor[d], data)) /\ Return(d, 0)
          /\ UNCHANGED held
       \/ /\ Ahead(cursor[d], data) = {} /\ SophiaNoEntry(d, ENOENT)
          /\ UNCHANGED cursor
       \/ /\ Fails /\ Return(d, -1)
          /\ SetHeld(d, EntryGone(d)) \/ UNCHANGED held
          /\ UNCHANGED cursor
    /\ UNCHANGED <<data, txn, db>>

SophiaStep(d) ==
    \/ SophiaThreadNew(d) \/ SophiaThreadDispose(d)
    \/ SophiaBeginSingle(d) \/ SophiaBeginTxn(d) \/ SophiaBeginIterate(d)
    \/ SophiaDoneSingle(d) \/ SophiaDoneTxn(d) \/ SophiaDoneIterate(d)
    \/ SophiaNextSet(d) \/ SophiaNextDelete(d)
    \/ SophiaNextGet(d) \/ SophiaNextIterate(d)
=============================================================================
