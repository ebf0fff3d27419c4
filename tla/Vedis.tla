------------------------------- MODULE Vedis -------------------------------
(***************************************************************************)
(* drivers/ia_vedisdb.c and, below, drivers/ia_unqlite.c.  The libraries   *)
(* begin a transaction when something is written without one, and closing  *)
(* the handle commits it; to begin one within it changes nothing.          *)
(***************************************************************************)
EXTENDS SharedHandle

(* ia_vedisdb_thread_new, ia_unqlite_thread_new. *)
VedisThreadNew(d) == Called(d, "thread_new", Steps) /\ Nothing(d)
VedisThreadDispose(d) == Called(d, "thread_dispose", Steps) /\ Nothing(d)

(* ia_vedisdb_begin. *)
VedisBeginTxn(d) ==
    /\ Called(d, "begin", TxnSteps)
    /\ \/ Works /\ open' = TRUE /\ Return(d, 0)
       \/ Fails /\ Return(d, -1) /\ UNCHANGED open
    /\ UNCHANGED <<data, saved, cursor, handle>>

VedisBeginOther(d) == Called(d, "begin", Steps \ TxnSteps) /\ Nothing(d)

(* Mutant: whatever the error is, the transaction is rolled back, and the  *)
(* error forgotten.                                                        *)
VedisDoneTxnAlways(d) ==
    /\ Called(d, "done", TxnSteps)
    /\ \/ Works /\ Commit /\ Return(d, 0)
       \/ Works /\ Rollback /\ Return(d, 0)
    /\ UNCHANGED <<cursor, handle>>

(* ia_vedisdb_done: if the database is busy, what all doers have written   *)
(* since the last commit is rolled back.                                   *)
VedisDoneTxn(d) ==
    /\ Called(d, "done", TxnSteps)
    /\ \/ Works /\ Commit /\ Return(d, 0)
       \/ Fails /\ Rollback /\ Return(d, -1)
       \/ Fails /\ Return(d, -1) /\ UNCHANGED <<data, saved, open>>
    /\ UNCHANGED <<cursor, handle>>

VedisDoneOther(d) == Called(d, "done", Steps \ TxnSteps) /\ Nothing(d)

(* ia_vedisdb_next. *)
VedisNextSet(d) ==
    /\ Called(d, "next", {"set"})
    /\ \/ Works /\ Enlist(data \cup {call[d].key}) /\ Return(d, 0)
       \/ Fails /\ Return(d, -1) /\ UNCHANGED <<data, saved, open>>
    /\ UNCHANGED <<cursor, handle>>

(* The code of the library is replaced by 0 or -1 before it is compared    *)
(* with VEDIS_NOTFOUND and VEDIS_BUSY.                                     *)
VedisNextDelete(d) ==
    LET found == call[d].key \in data IN
    /\ Called(d, "next", {"delete"})
    /\ \/ found /\ Works /\ Enlist(data \ {call[d].key}) /\ Return(d, 0)
       \/ /\ IF found THEN Fails ELSE Works
          /\ Return(d, -1) /\ UNCHANGED <<data, saved, open>>
    /\ UNCHANGED <<cursor, handle>>

VedisNextGet(d) ==
    /\ Called(d, "next", {"get"})
    /\ \/ Works /\ Return(d, IF call[d].key \in data THEN 0 ELSE ENOENT)
       \/ Fails /\ Return(d, -1)
    /\ UNCHANGED shared

(* ENOSYS. *)
VedisNextIterate(d) ==
    /\ Called(d, "next", {"iterate"})
    /\ Return(d, -1)
    /\ UNCHANGED <<faults, shared>>

(* ia_vedisdb_close, ia_unqlite_close. *)
VedisClose == Commit /\ handle' = "closed" /\ UNCHANGED cursor

VedisStep(d) ==
    \/ VedisThreadNew(d) \/ VedisThreadDispose(d)
    \/ VedisBeginTxn(d) \/ VedisBeginOther(d)
    \/ VedisDoneTxn(d) \/ VedisDoneOther(d)
    \/ VedisNextSet(d) \/ VedisNextDelete(d)
    \/ VedisNextGet(d) \/ VedisNextIterate(d)

----------------------------------------------------------------------------
(* ia_unqlite.c: a transaction that cannot be committed stays, and there   *)
(* are cursors.                                                            *)
UnqThreadDispose(d) ==
    /\ Called(d, "thread_dispose", Steps)
    /\ SetCursor(d, NoCursor) /\ Return(d, 0)
    /\ UNCHANGED <<faults, data, saved, open, handle>>

UnqBeginIterate(d) ==
    /\ Called(d, "begin", {"iterate"})
    /\ \/ Works /\ SetCursor(d, Live) /\ Return(d, 0)
       \/ Fails /\ Return(d, -1) /\ UNCHANGED cursor
    /\ UNCHANGED <<data, saved, open, handle>>

UnqBeginSingle(d) == Called(d, "begin", SingleSteps) /\ Nothing(d)

UnqDoneIterate(d) ==
    /\ Called(d, "done", {"iterate"})
    /\ SetCursor(d, NoCursor) /\ Return(d, 0)
    /\ UNCHANGED <<faults, data, saved, open, handle>>

UnqDoneSingle(d) == Called(d, "done", SingleSteps) /\ Nothing(d)

UnqDoneTxn(d) ==
    /\ Called(d, "done", TxnSteps)
    /\ \/ Works /\ Commit /\ Return(d, 0)
       \/ Fails /\ Return(d, -1) /\ UNCHANGED <<data, saved, open>>
    /\ UNCHANGED <<cursor, handle>>

UnqNextDelete(d) ==
    LET found == call[d].key \in data IN
    /\ Called(d, "next", {"delete"})
    /\ \/ found /\ Works /\ Enlist(data \ {call[d].key}) /\ Return(d, 0)
       \/ /\ ~found /\ Works
          /\ Return(d, ENOENT) /\ UNCHANGED <<data, saved, open>>
       \/ Fails /\ Return(d, -1) /\ UNCHANGED <<data, saved, open>>
    /\ UNCHANGED <<cursor, handle>>

UnqNextIterate(d) == Called(d, "next", {"iterate"}) /\ Iterate(d)

UnqStep(d) ==
    \/ VedisThreadNew(d) \/ UnqThreadDispose(d)
    \/ VedisBeginTxn(d) \/ UnqBeginIterate(d) \/ UnqBeginSingle(d)
    \/ UnqDoneTxn(d) \/ UnqDoneIterate(d) \/ UnqDoneSingle(d)
    \/ VedisNextSet(d) \/ UnqNextDelete(d)
    \/ VedisNextGet(d) \/ UnqNextIterate(d)
=============================================================================
