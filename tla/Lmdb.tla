-------------------------------- MODULE Lmdb --------------------------------
(***************************************************************************)
(* drivers/ia_lmdb.c.  A context has a transaction and a cursor; the       *)
(* handle of the database (dbi) belongs to all of them and is opened by    *)
(* whoever needs it first.                                                 *)
(*                                                                         *)
(* Of the library, which is not in the repository, the driver relies on    *)
(* this: there is one write transaction at a time, and mdb_txn_begin waits *)
(* for it; a transaction works on a view of its own, which a commit        *)
(* publishes; a read transaction that was reset can be renewed; calls      *)
(* without a transaction (NULL) are refused; any call may fail.            *)
(***************************************************************************)
EXTENDS DriverCalls

VARIABLES data,         \* the keys in the database, committed
          writer,       \* who has the write transaction, or Nobody
          dbi,          \* self->dbi: "invalid" or "open"
          txn,          \* [Doers -> ctx->txn]
          cursor,       \* [Doers -> ctx->cursor]
          at,           \* [Doers -> where in the driver the doer is]
          env           \* the environment: "open" or "closed"

driver == <<data, writer, dbi, txn, cursor, at, env>>

Nobody == "nobody"

ASSUME NobodyAssumption == Nobody \notin Doers

(* A transaction: none (NULL), or one that reads or writes a view, or one *)
(* that was reset.                                                        *)
NoTxn == [kind |-> "none", view |-> {}]
Reading == [kind |-> "read", view |-> data]
Writing == [kind |-> "write", view |-> data]
Reset == [kind |-> "reset", view |-> {}]

(* A cursor: none (NULL), or open with a number of keys passed; "bound"   *)
(* while the transaction it was opened or renewed with is running.        *)
NoCursor == [kind |-> "none", passed |-> 0]
Bound == [kind |-> "bound", passed |-> 0]
Loose(c) == IF c.kind = "none" THEN c ELSE [c EXCEPT !.kind = "loose"]

DriverInit ==
    /\ data = {}
    /\ writer = Nobody
    /\ dbi = "invalid"
    /\ txn = [d \in Doers |-> NoTxn]
    /\ cursor = [d \in Doers |-> NoCursor]
    /\ at = [d \in Doers |-> "out"]
    /\ env = "open"

Called(d, fn, steps) ==
    /\ at[d] = "out"
    /\ call[d].fn = fn
    /\ call[d].step \in steps

SetTxn(d, t) == txn' = [txn EXCEPT ![d] = t]
SetCursor(d, c) == cursor' = [cursor EXCEPT ![d] = c]
Goto(d, label) == at' = [at EXCEPT ![d] = label]

(* mdb_txn_abort gives the write transaction up. *)
WithoutWriter(d) == IF writer = d THEN Nobody ELSE writer

WriteSteps == {"set", "batch", "crud", "delete"}
ReadSteps == {"iterate", "get"}

----------------------------------------------------------------------------
(* ia_lmdb_thread_new. *)

(* The handle is looked at without any lock. *)
ThreadNew(d) ==
    /\ Called(d, "thread_new", Steps)
    /\ \/ dbi = "invalid" /\ Goto(d, "dbi") /\ Works /\ UNCHANGED call
       \/ dbi = "open" /\ Works /\ Return(d, 0) /\ UNCHANGED at
       \/ dbi = "open" /\ Fails /\ Return(d, -1) /\ UNCHANGED at
    /\ UNCHANGED <<data, writer, dbi, txn, cursor>>

(* A write transaction, just to open the handle. *)
DbiBegin(d) ==
    /\ at[d] = "dbi"
    /\ \/ /\ Works /\ writer = Nobody
          /\ writer' = d
          /\ Goto(d, "dbi_open") /\ UNCHANGED call
       \/ Fails /\ Goto(d, "out") /\ Return(d, -1) /\ UNCHANGED writer
    /\ UNCHANGED <<data, dbi, txn, cursor>>

DbiOpen(d) ==
    /\ at[d] = "dbi_open"
    /\ \/ Works /\ dbi' = "open" /\ Return(d, 0)
       \/ Fails /\ dbi' \in {dbi, "open"} /\ Return(d, -1)
    /\ writer' = Nobody
    /\ Goto(d, "out")
    /\ UNCHANGED <<data, txn, cursor>>

----------------------------------------------------------------------------
(* ia_lmdb_begin. *)

(* For writing: what is left of the last transaction is closed first ... *)
BeginWrite(d) ==
    /\ Called(d, "begin", WriteSteps)
    /\ SetCursor(d, NoCursor)
    /\ SetTxn(d, NoTxn)
    /\ writer' = WithoutWriter(d)
    /\ Goto(d, "begin")
    /\ UNCHANGED <<call, faults, data, dbi>>

(* ... then mdb_txn_begin waits for other writers. *)
TxnBegin(d) ==
    /\ at[d] = "begin"
    /\ \/ /\ Works /\ writer = Nobody
          /\ writer' = d
          /\ SetTxn(d, Writing) /\ Return(d, 0)
       \/ Fails /\ Return(d, -1) /\ UNCHANGED <<writer, txn>>
    /\ Goto(d, "out")
    /\ UNCHANGED <<data, dbi, cursor>>

(* Mutant: a transaction that is there is not renewed. *)
BeginReadOld(d) ==
    /\ Called(d, "begin", ReadSteps)
    /\ Works /\ Return(d, 0)
    /\ SetTxn(d, IF txn[d] = NoTxn THEN Reading
                 ELSE [txn[d] EXCEPT !.kind = "read"])
    /\ SetCursor(d, IF call[d].step = "iterate" THEN Bound ELSE cursor[d])
    /\ UNCHANGED <<data, writer, dbi, at>>

(* For reading: mdb_txn_renew, or else (with the same outcome) a new      *)
(* transaction.  The cursor of a transaction that is over is left alone   *)
(* until an iteration renews it, or else opens a new one.                 *)
BeginRead(d) ==
    /\ Called(d, "begin", ReadSteps)
    /\ \/ /\ Works /\ SetTxn(d, Reading) /\ Return(d, 0)
          /\ IF call[d].step = "iterate" THEN SetCursor(d, Bound)
             ELSE UNCHANGED cursor
       \/ /\ Fails       \* no transaction
          /\ SetTxn(d, NoTxn) /\ Return(d, -1)
          /\ SetCursor(d, Loose(cursor[d]))
       \/ /\ Fails       \* no cursor
          /\ call[d].step = "iterate"
          /\ SetTxn(d, Reading) /\ Return(d, -1)
          /\ SetCursor(d, NoCursor)
    /\ UNCHANGED <<data, writer, dbi, at>>

----------------------------------------------------------------------------
(* ia_lmdb_done. *)

(* Mutant: the code of mdb_txn_commit is not looked at. *)
DoneWriteBlindly(d) ==
    /\ Called(d, "done", WriteSteps)
    /\ \/ Works /\ data' = txn[d].view
       \/ Fails /\ UNCHANGED data
    /\ Return(d, 0)
    /\ SetTxn(d, NoTxn)
    /\ writer' = WithoutWriter(d)
    /\ UNCHANGED <<dbi, cursor, at>>

(* mdb_txn_commit, or else mdb_txn_abort; both refuse NULL. *)
DoneWrite(d) ==
    /\ Called(d, "done", WriteSteps)
    /\ \/ /\ Works /\ txn[d].kind = "write"
          /\ data' = txn[d].view
          /\ Return(d, 0)
       \/ Works /\ txn[d].kind = "none" /\ UNCHANGED data /\ Return(d, -1)
       \/ Fails /\ UNCHANGED data /\ Return(d, -1)
    /\ SetTxn(d, NoTxn)
    /\ writer' = WithoutWriter(d)
    /\ UNCHANGED <<dbi, cursor, at>>

(* mdb_txn_reset, which returns nothing. *)
DoneRead(d) ==
    /\ Called(d, "done", ReadSteps)
    /\ SetTxn(d, IF txn[d] = NoTxn THEN NoTxn ELSE Reset)
    /\ SetCursor(d, Loose(cursor[d]))
    /\ Return(d, 0)
    /\ UNCHANGED <<faults, data, writer, dbi, at>>

----------------------------------------------------------------------------
(* ia_lmdb_next. *)

(* A call of the library with a transaction that does not run is refused. *)
Live(d, kinds) == txn[d].kind \in kinds

NextSet(d) ==
    /\ Called(d, "next", {"set"})
    /\ \/ /\ Works /\ Live(d, {"write"})
          /\ txn' = [txn EXCEPT ![d].view = @ \cup {call[d].key}]
          /\ Return(d, 0)
       \/ Works /\ ~Live(d, {"write"}) /\ Return(d, -1) /\ UNCHANGED txn
       \/ Fails /\ Return(d, -1) /\ UNCHANGED txn
    /\ UNCHANGED <<data, writer, dbi, cursor, at>>

NextDelete(d) ==
    /\ Called(d, "next", {"delete"})
    /\ \/ /\ Works /\ Live(d, {"write"})
          /\ txn' = [txn EXCEPT ![d].view = @ \ {call[d].key}]
          /\ Return(d, IF call[d].key \in txn[d].view THEN 0 ELSE ENOENT)
       \/ Works /\ ~Live(d, {"write"}) /\ Return(d, -1) /\ UNCHANGED txn
       \/ Fails /\ Return(d, -1) /\ UNCHANGED txn
    /\ UNCHANGED <<data, writer, dbi, cursor, at>>

NextGet(d) ==
    /\ Called(d, "next", {"get"})
    /\ \/ /\ Works /\ Live(d, {"read", "write"})
          /\ Return(d, IF call[d].key \in txn[d].view THEN 0 ELSE ENOENT)
       \/ Works /\ ~Live(d, {"read", "write"}) /\ Return(d, -1)
       \/ Fails /\ Return(d, -1)
    /\ UNCHANGED <<data, writer, dbi, txn, cursor, at>>

(* mdb_cursor_get(MDB_NEXT). *)
NextIterate(d) ==
    /\ Called(d, "next", {"iterate"})
    /\ \/ /\ Works
          /\ IF cursor[d].passed < Cardinality(txn[d].view)
             THEN /\ cursor' = [cursor EXCEPT ![d].passed = @ + 1]
                  /\ Return(d, 0)
             ELSE Return(d, ENOENT) /\ UNCHANGED cursor
       \/ Fails /\ Return(d, -1) /\ UNCHANGED cursor
    /\ UNCHANGED <<data, writer, dbi, txn, at>>

----------------------------------------------------------------------------
(* Mutant: the transaction is not aborted. *)
ThreadDisposeCursor(d) ==
    /\ Called(d, "thread_dispose", Steps)
    /\ SetCursor(d, NoCursor)
    /\ Return(d, 0)
    /\ UNCHANGED <<faults, data, writer, dbi, txn, at>>

(* ia_lmdb_thread_dispose. *)
ThreadDispose(d) ==
    /\ Called(d, "thread_dispose", Steps)
    /\ SetCursor(d, NoCursor)
    /\ SetTxn(d, NoTxn)
    /\ writer' = WithoutWriter(d)
    /\ Return(d, 0)
    /\ UNCHANGED <<faults, data, dbi, at>>

(* ia_lmdb_close. *)
Close ==
    /\ env = "open"
    /\ env' = "closed"
    /\ dbi' = "invalid"
    /\ UNCHANGED <<call, faults, data, writer, txn, cursor, at>>

LmdbStep(d) ==
    /\ \/ ThreadNew(d) \/ DbiBegin(d) \/ DbiOpen(d)
       \/ BeginWrite(d) \/ TxnBegin(d) \/ BeginRead(d)
       \/ DoneWrite(d) \/ DoneRead(d)
       \/ NextSet(d) \/ NextDelete(d) \/ NextGet(d) \/ NextIterate(d)
       \/ ThreadDispose(d)
    /\ UNCHANGED env
=============================================================================
