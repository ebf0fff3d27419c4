------------------------------- MODULE Iowow -------------------------------
(***************************************************************************)
(* drivers/ia_iowow.c.  There are no transactions: what BATCH and CRUD     *)
(* write is written for good at once.                                      *)
(***************************************************************************)
EXTENDS SharedHandle

IowowThreadNew(d) == Called(d, "thread_new", Steps) /\ Nothing(d)

(* ia_iowow_thread_dispose does not close the cursor. *)
IowowThreadDispose(d) == Called(d, "thread_dispose", Steps) /\ Nothing(d)

(* ia_iowow_begin. *)
IowowBeginIterate(d) ==
    /\ Called(d, "begin", {"iterate"})
    /\ \/ Works /\ SetCursor(d, Live) /\ Return(d, 0)
       \/ Fails /\ Return(d, -1) /\ UNCHANGED cursor
    /\ UNCHANGED <<data, saved, open, handle>>

IowowBeginOther(d) == Called(d, "begin", Steps \ {"iterate"}) /\ Nothing(d)

(* Mutant: the cursor is kept for the next iteration. *)
IowowDoneIterateKeep(d) == Called(d, "done", {"iterate"}) /\ Nothing(d)

(* ia_iowow_done. *)
IowowDoneIterate(d) ==
    /\ Called(d, "done", {"iterate"})
    /\ SetCursor(d, NoCursor)
    /\ (Works /\ Return(d, 0)) \/ (Fails /\ Return(d, -1))
    /\ UNCHANGED <<data, saved, open, handle>>

IowowDoneOther(d) == Called(d, "done", Steps \ {"iterate"}) /\ Nothing(d)

(* ia_iowow_next. *)
IowowNextSet(d) ==
    /\ Called(d, "next", {"set"})
    /\ \/ Works /\ Write(data \cup {call[d].key}) /\ Return(d, 0)
       \/ Fails /\ Return(d, -1) /\ UNCHANGED <<data, saved, open>>
    /\ UNCHANGED <<cursor, handle>>

IowowNextDelete(d) ==
    LET found == call[d].key \in data IN
    /\ Called(d, "next", {"delete"})
    /\ \/ /\ Works /\ Write(data \ {call[d].key})
          /\ Return(d, IF found THEN 0 ELSE ENOENT)
       \/ Fails /\ Return(d, -1) /\ UNCHANGED <<data, saved, open>>
    /\ UNCHANGED <<cursor, handle>>

IowowNextGet(d) ==
    /\ Called(d, "next", {"get"})
    /\ \/ Works /\ Return(d, IF call[d].key \in data THEN 0 ELSE ENOENT)
       \/ Fails /\ Return(d, -1)
    /\ UNCHANGED shared

IowowNextIterate(d) == Called(d, "next", {"iterate"}) /\ Iterate(d)

(* ia_iowow_close. *)
IowowClose == handle' = "closed" /\ UNCHANGED <<data, saved, open, cursor>>

IowowStep(d) ==
    \/ IowowThreadNew(d) \/ IowowThreadDispose(d)
    \/ IowowBeginIterate(d) \/ IowowBeginOther(d)
    \/ IowowDoneIterate(d) \/ IowowDoneOther(d)
    \/ IowowNextSet(d) \/ IowowNextDelete(d)
    \/ IowowNextGet(d) \/ IowowNextIterate(d)
=============================================================================
