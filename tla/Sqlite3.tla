------------------------------ MODULE Sqlite3 ------------------------------
(***************************************************************************)
(* drivers/ia_sqlite3.c.  A BEGIN within a transaction and a COMMIT        *)
(* without one are refused; closing the handle undoes a transaction, and   *)
(* is refused while there are statements that were not finalized.  On a    *)
(* handle that was closed every call is refused (SQLITE_MISUSE).           *)
(***************************************************************************)
EXTENDS SharedHandle

VARIABLE pending        \* whether a statement was not finalized

SqlInit == pending = FALSE

SqlThreadNew(d) ==
    Called(d, "thread_new", Steps) /\ Nothing(d) /\ UNCHANGED pending

SqlThreadDispose(d) ==
    Called(d, "thread_dispose", Steps) /\ Nothing(d) /\ UNCHANGED pending

(* A statement that is refused, or fails. *)
Refused(cond) == IF handle # "open" \/ cond THEN Works ELSE Fails

(* ia_sqlite3_begin. *)
SqlBeginTxn(d) ==
    /\ Called(d, "begin", TxnSteps)
    /\ \/ /\ handle = "open" /\ ~open /\ Works
          /\ open' = TRUE /\ Return(d, 0)
       \/ Refused(open) /\ Return(d, -1) /\ UNCHANGED open
    /\ UNCHANGED <<data, saved, cursor, handle, pending>>

SqlBeginOther(d) ==
    /\ Called(d, "begin", Steps \ TxnSteps)
    /\ Nothing(d) /\ UNCHANGED pending

(* Mutant: a COMMIT that finds no transaction is taken for done. *)
SqlDoneTxnAny(d) ==
    /\ Called(d, "done", TxnSteps)
    /\ \/ Works /\ Commit /\ Return(d, 0)
       \/ Fails /\ Return(d, -1) /\ UNCHANGED <<data, saved, open>>
    /\ UNCHANGED <<cursor, handle, pending>>

(* ia_sqlite3_done. *)
SqlDoneTxn(d) ==
    /\ Called(d, "done", TxnSteps)
    /\ \/ handle = "open" /\ open /\ Works /\ Commit /\ Return(d, 0)
       \/ Refused(~open) /\ Return(d, -1) /\ UNCHANGED <<data, saved, open>>
    /\ UNCHANGED <<cursor, handle, pending>>

SqlDoneOther(d) ==
    /\ Called(d, "done", Steps \ TxnSteps)
    /\ Nothing(d) /\ UNCHANGED pending

(* ia_sqlite3_next.  A key that is there cannot be inserted; the statement *)
(* that failed is not finalized, if it was prepared.                       *)
SqlNextSet(d) ==
    /\ Called(d, "next", {"set"})
    /\ \/ /\ handle = "open" /\ call[d].key \notin data /\ Works
          /\ Write(data \cup {call[d].key}) /\ Return(d, 0)
          /\ UNCHANGED pending
       \/ /\ Refused(call[d].key \in data) /\ Return(d, -1)
          /\ pending' \in {pending, pending \/ handle = "open"}
          /\ UNCHANGED <<data, saved, open>>
    /\ UNCHANGED <<cursor, handle>>

(* sqlite3_close, of a handle that the other doers go on using. *)
CloseEarly ==
    IF handle # "open" \/ pending
    THEN UNCHANGED <<data, saved, open, handle>>
    ELSE Rollback /\ handle' = "dangling"

(* A key that is missing is not reported. *)
SqlNextDelete(d) ==
    /\ Called(d, "next", {"delete"})
    /\ \/ /\ handle = "open" /\ Works
          /\ Write(data \ {call[d].key}) /\ Return(d, 0)
          /\ UNCHANGED handle
       \/ Refused(FALSE) /\ Return(d, -1) /\ CloseEarly
    /\ UNCHANGED <<cursor, pending>>

SqlNextGet(d) ==
    /\ Called(d, "next", {"get"})
    /\ \/ /\ handle = "open" /\ Works /\ Return(d, 0)
          /\ UNCHANGED <<data, saved, open, handle>>
       \/ Refused(FALSE) /\ Return(d, -1) /\ CloseEarly
    /\ UNCHANGED <<cursor, pending>>

(* ENOSYS. *)
SqlNextIterate(d) ==
    /\ Called(d, "next", {"iterate"})
    /\ Return(d, -1)
    /\ UNCHANGED <<faults, shared, pending>>

(* ia_sqlite3_close, at the end of the program. *)
SqlClose == Rollback /\ handle' = "closed" /\ UNCHANGED <<cursor, pending>>

SqlStep(d) ==
    \/ SqlThreadNew(d) \/ SqlThreadDispose(d)
    \/ SqlBeginTxn(d) \/ SqlBeginOther(d) \/ SqlDoneTxn(d) \/ SqlDoneOther(d)
    \/ SqlNextSet(d) \/ SqlNextDelete(d) \/ SqlNextGet(d) \/ SqlNextIterate(d)
=============================================================================
