------------------------------ MODULE Contexts ------------------------------
(***************************************************************************)
(* What the drivers rocksdb, leveldb, sophia, wiredtiger, forestdb and     *)
(* upscaledb have in common: a context has a transaction or a batch, a     *)
(* cursor and other handles of its own, and the database is shared.        *)
(*                                                                         *)
(* Of the libraries, which are not in the repository, the drivers rely on  *)
(* this: operations outside a transaction are atomic, a transaction sees   *)
(* what it has written itself and shows it to others when it is committed, *)
(* all at once, and any call may fail without effect.                      *)
(***************************************************************************)
EXTENDS Cursors

VARIABLES data,         \* the keys in the database
          txn,          \* [Doers -> the transaction of the context]
          cursor,       \* [Doers -> its cursor or iterator]
          held,         \* [Doers -> its other handles]
          db            \* "open", "destroyed" (too early) or "closed"

context == <<data, txn, cursor, held, db>>

(* A transaction: the keys that it puts and those that it deletes. *)
NoTxn == [kind |-> "none", puts |-> {}, dels |-> {}]
OpenTxn == [NoTxn EXCEPT !.kind = "open"]

Handles == {"entry", "lost", "session", "file", "kvs", "result", "doc"}

ContextsInit ==
    /\ data = {}
    /\ txn = [d \in Doers |-> NoTxn]
    /\ cursor = [d \in Doers |-> NoCursor]
    /\ held = [d \in Doers |-> {}]
    /\ db = "open"

Called(d, fn, steps) == call[d].fn = fn /\ call[d].step \in steps

SetTxn(d, x) == txn' = [txn EXCEPT ![d] = x]
SetCursor(d, x) == cursor' = [cursor EXCEPT ![d] = x]
SetHeld(d, x) == held' = [held EXCEPT ![d] = x]

SingleSteps == {"get", "set", "delete"}
TxnSteps == {"batch", "crud"}

----------------------------------------------------------------------------
(* Calls of the libraries. *)

(* The keys that d sees in its transaction, or without one. *)
Visible(d) == (data \cup txn[d].puts) \ txn[d].dels

(* In the transaction, if there is one. *)
Put(d, k) ==
    IF txn[d].kind = "open"
    THEN /\ SetTxn(d, [txn[d] EXCEPT !.puts = @ \cup {k}, !.dels = @ \ {k}])
         /\ UNCHANGED data
    ELSE data' = data \cup {k} /\ UNCHANGED txn

Remove(d, k) ==
    IF txn[d].kind = "open"
    THEN /\ SetTxn(d, [txn[d] EXCEPT !.puts = @ \ {k}, !.dels = @ \cup {k}])
         /\ UNCHANGED data
    ELSE data' = data \ {k} /\ UNCHANGED txn

Commit(d) == data' = Visible(d) /\ SetTxn(d, NoTxn)

(* Driver->close, by ia_free. *)
Close ==
    /\ db # "closed" /\ db' = "closed"
    /\ UNCHANGED <<call, faults, data, txn, cursor, held>>
=============================================================================
