---------------------------- MODULE SharedHandle ----------------------------
(***************************************************************************)
(* What the drivers sqlite3, vedisdb, unqlite and iowow have in common:    *)
(* all doers use one handle of the database, and a transaction, if there   *)
(* is one, belongs to the handle, so that everybody writes in it and       *)
(* whoever commits it commits what all have written.                       *)
(*                                                                         *)
(* Of the libraries, which are not in the repository, the drivers rely on  *)
(* this: calls on the handle are atomic, and a call that fails has no      *)
(* effect.                                                                 *)
(***************************************************************************)
EXTENDS Cursors

VARIABLES data,         \* the keys that the handle shows
          saved,        \* the keys without those of the transaction
          open,         \* whether there is a transaction
          cursor,       \* [Doers -> the cursor of the context]
          handle        \* "open", "dangling" (closed but used) or "closed"

shared == <<data, saved, open, cursor, handle>>

SharedInit ==
    /\ data = {} /\ saved = {} /\ open = FALSE
    /\ cursor = [d \in Doers |-> NoCursor]
    /\ handle = "open"

Called(d, fn, steps) == call[d].fn = fn /\ call[d].step \in steps

SetCursor(d, x) == cursor' = [cursor EXCEPT ![d] = x]

SingleSteps == {"get", "set", "delete"}
TxnSteps == {"batch", "crud"}

(* A call that does nothing and succeeds. *)
Nothing(d) == Return(d, 0) /\ UNCHANGED <<faults, shared>>

----------------------------------------------------------------------------
(* Calls of the libraries. *)

(* The keys become new: for good, unless there is a transaction ... *)
Write(new) ==
    /\ data' = new
    /\ saved' = IF open THEN saved ELSE new
    /\ UNCHANGED open

(* ... or in a transaction, which is begun if there is none. *)
Enlist(new) == data' = new /\ open' = TRUE /\ UNCHANGED saved

Commit == saved' = data /\ open' = FALSE /\ UNCHANGED data

Rollback == data' = saved /\ open' = FALSE /\ UNCHANGED saved

(* The next key of an iteration, or its end. *)
Iterate(d) ==
    /\ \/ /\ Works /\ Ahead(cursor[d], data) # {}
          /\ SetCursor(d, Moved(cursor[d], data)) /\ Return(d, 0)
       \/ /\ Works /\ Ahead(cursor[d], data) = {}
          /\ Return(d, ENOENT) /\ UNCHANGED cursor
       \/ Fails /\ Return(d, -1) /\ UNCHANGED cursor
    /\ UNCHANGED <<data, saved, open, handle>>
=============================================================================
