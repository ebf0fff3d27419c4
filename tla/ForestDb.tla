------------------------------ MODULE ForestDb ------------------------------
(***************************************************************************)
(* drivers/ia_forestdb.c.  Only CRUD has a transaction: a BATCH is written *)
(* operation by operation and committed at its end, as SET and DELETE are. *)
(* What is written shows at once, a commit makes it last.                  *)
(*                                                                         *)
(* The first begin of all compacts the file; who is first is found out     *)
(* with a flag that is shared and not protected.  Whether deleting a key   *)
(* that is missing is an error is left to the library; an iterator cannot  *)
(* be placed in an empty database.                                         *)
(***************************************************************************)
EXTENDS Contexts

VARIABLES needsCompact,         \* priv->needsCompact
          at                    \* [Doers -> where in ia_forestdb_begin]

forestdb == <<needsCompact, at>>

FdbInit ==
    /\ needsCompact = TRUE
    /\ at = [d \in Doers |-> "out"]

(* ia_forestdb_thread_new: when it fails the context is lost, and with it  *)
(* the file, if it was open already.                                       *)
FdbThreadNew(d) ==
    /\ Called(d, "thread_new", Steps)
    /\ \/ Works /\ SetHeld(d, {"file", "kvs"}) /\ Return(d, 0)
       \/ /\ Fails /\ Return(d, -1)
          /\ SetHeld(d, {}) \/ SetHeld(d, {"file"})
    /\ UNCHANGED <<data, txn, cursor, db, forestdb>>

(* ia_forestdb_thread_dispose. *)
FdbThreadDispose(d) ==
    /\ Called(d, "thread_dispose", Steps)
    /\ SetCursor(d, NoCursor) /\ SetTxn(d, NoTxn) /\ SetHeld(d, {})
    /\ Return(d, 0)
    /\ UNCHANGED <<faults, data, db, forestdb>>

----------------------------------------------------------------------------
(* ia_forestdb_begin. *)
Goto(d, place) == at' = [at EXCEPT ![d] = place]

(* The look at the flag, its change, and fdb_compact. *)
FdbLook(d) ==
    /\ Called(d, "begin", Steps) /\ at[d] = "out" /\ needsCompact
    /\ Goto(d, "flag")
    /\ UNCHANGED <<call, faults, context, needsCompact>>

FdbFlag(d) ==
    /\ at[d] = "flag"
    /\ needsCompact' = FALSE
    /\ Goto(d, "compact")
    /\ UNCHANGED <<call, faults, context>>

FdbCompact(d) ==
    /\ at[d] = "compact"
    /\ \/ Works /\ Goto(d, "rest") /\ UNCHANGED call
       \/ Fails /\ Goto(d, "out") /\ Return(d, -1)
    /\ UNCHANGED <<context, needsCompact>>

(* The rest of begin. *)
Compacted(d, steps) ==
    /\ Called(d, "begin", steps)
    /\ at[d] = "rest" \/ (at[d] = "out" /\ ~needsCompact)
    /\ Goto(d, "out")
    /\ UNCHANGED needsCompact

FdbBeginCrud(d) ==
    /\ Compacted(d, {"crud"})
    /\ \/ Works /\ SetTxn(d, OpenTxn) /\ Return(d, 0)
       \/ Fails /\ Return(d, -1) /\ UNCHANGED txn
    /\ UNCHANGED <<data, cursor, held, db>>

FdbBeginOther(d) ==
    /\ Compacted(d, SingleSteps \cup {"batch"})
    /\ Return(d, 0)
    /\ UNCHANGED <<faults, context>>

(* An iterator that cannot be placed is kept. *)
FdbBeginIterate(d) ==
    /\ Compacted(d, {"iterate"})
    /\ \/ /\ Works /\ SetCursor(d, Snapshot(data))
          /\ Return(d, IF data = {} THEN -1 ELSE 0)
       \/ /\ Fails /\ Return(d, -1)
          /\ SetCursor(d, Snapshot(data)) \/ UNCHANGED cursor
    /\ UNCHANGED <<data, txn, held, db>>

----------------------------------------------------------------------------
(* ia_forestdb_done. *)

(* A transaction that could not be ended is forgotten by the context, and  *)
(* goes when the file is closed.                                           *)
FdbDoneCrud(d) ==
    /\ Called(d, "done", {"crud"})
    /\ \/ Works /\ Commit(d) /\ Return(d, 0)
       \/ /\ txn[d] # NoTxn /\ Fails
          /\ SetTxn(d, NoTxn) /\ Return(d, -1) /\ UNCHANGED data
    /\ UNCHANGED <<cursor, held, db, forestdb>>

FdbDoneCommit(d) ==
    /\ Called(d, "done", {"batch", "delete", "set"})
    /\ (Works /\ Return(d, 0)) \/ (Fails /\ Return(d, -1))
    /\ UNCHANGED <<context, forestdb>>

FdbDoneGet(d) ==
    /\ Called(d, "done", {"get"})
    /\ SetHeld(d, held[d] \ {"result"}) /\ Return(d, 0)
    /\ UNCHANGED <<faults, data, txn, cursor, db, forestdb>>

FdbDoneIterate(d) ==
    /\ Called(d, "done", {"iterate"})
    /\ SetHeld(d, held[d] \ {"doc"}) /\ SetCursor(d, NoCursor)
    /\ \/ Works /\ Return(d, 0)
       \/ cursor[d] # NoCursor /\ Fails /\ Return(d, -1)
    /\ UNCHANGED <<data, txn, db, forestdb>>

----------------------------------------------------------------------------
(* ia_forestdb_next. *)
FdbNextSet(d) ==
    /\ Called(d, "next", {"set"})
    /\ \/ Works /\ Put(d, call[d].key) /\ Return(d, 0)
       \/ Fails /\ Return(d, -1) /\ UNCHANGED <<data, txn>>
    /\ UNCHANGED <<cursor, held, db, forestdb>>

FdbNextDelete(d) ==
    /\ Called(d, "next", {"delete"})
    /\ \/ Works /\ Remove(d, call[d].key) /\ Return(d, 0)
       \/ /\ IF call[d].key \in Visible(d) THEN Fails ELSE Works
          /\ Return(d, -1) /\ UNCHANGED <<data, txn>>
    /\ UNCHANGED <<cursor, held, db, forestdb>>

(* In a transaction a key that is missing is not reported. *)
FdbNextGet(d) ==
    LET found == call[d].key \in Visible(d)
        rest == held[d] \ {"result"}
    IN /\ Called(d, "next", {"get"})
       /\ \/ /\ Works
             /\ SetHeld(d, IF found THEN rest \cup {"result"} ELSE rest)
             /\ Return(d, IF found \/ txn[d] # NoTxn THEN 0 ELSE ENOENT)
          \/ Fails /\ SetHeld(d, rest) /\ Return(d, -1)
       /\ UNCHANGED <<data, txn, cursor, db, forestdb>>

(* The document, and a step forward, which fails at the last one. *)
FdbNextIterate(d) ==
    /\ Called(d, "next", {"iterate"})
    /\ \/ /\ Works /\ SetCursor(d, Moved(cursor[d], data))
          /\ SetHeld(d, held[d] \cup {"doc"})
          /\ Return(d, IF Ahead(Moved(cursor[d], data), data) = {}
                       THEN ENOENT ELSE 0)
       \/ /\ Fails /\ Return(d, -1) /\ UNCHANGED cursor
          /\ SetHeld(d, held[d] \cup {"doc"}) \/ UNCHANGED held
    /\ UNCHANGED <<data, txn, db, forestdb>>

FdbStep(d) ==
    \/ FdbThreadNew(d) \/ FdbThreadDispose(d)
    \/ FdbLook(d) \/ FdbFlag(d) \/ FdbCompact(d)
    \/ FdbBeginCrud(d) \/ FdbBeginOther(d) \/ FdbBeginIterate(d)
    \/ FdbDoneCrud(d) \/ FdbDoneCommit(d) \/ FdbDoneGet(d) \/ FdbDoneIterate(d)
    \/ FdbNextSet(d) \/ FdbNextDelete(d) \/ FdbNextGet(d) \/ FdbNextIterate(d)
=============================================================================
