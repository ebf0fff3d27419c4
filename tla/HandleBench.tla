---------------------------- MODULE HandleBench ----------------------------
(***************************************************************************)
(* Doers that run benchmarks (Runner.tla) on one handle that they share:   *)
(* the sqlite3, the vedisdb, the unqlite or the iowow driver.              *)
(***************************************************************************)
EXTENDS Runner, Sqlite3, Vedis, Iowow

CONSTANT Drivers        \* the drivers there may be

ASSUME DriverAssumption ==
    Drivers \subseteq {"sqlite3", "vedisdb", "unqlite", "iowow"}

VARIABLE chosen         \* conf.driver

(* History: the keys there should be, from all that doers have been told   *)
(* is done.                                                                *)
VARIABLE told

vars == <<call, faults, runner, shared, pending, chosen, told>>

Init ==
    /\ CallsInit /\ RunnerInit /\ SharedInit /\ SqlInit
    /\ chosen \in Drivers
    /\ told = {}

DriverStep(d) ==
    \/ chosen = "sqlite3" /\ SqlStep(d)
    \/ chosen = "vedisdb" /\ VedisStep(d) /\ UNCHANGED pending
    \/ chosen = "unqlite" /\ UnqStep(d) /\ UNCHANGED pending
    \/ chosen = "iowow" /\ IowowStep(d) /\ UNCHANGED pending

(* d has been told that the operations of bench[d] are done. *)
Tell(d) ==
    LET ops == IF bench[d] = "batch" THEN i[d] - j[d] .. i[d] - 1 ELSE {i[d]}
        keys == {KeyOf(d, GenA, k) : k \in ops}
    IN told' = IF ~Acknowledges(d) THEN told
               ELSE CASE bench[d] \in {"set"} \cup Quadruple -> told \cup keys
                      [] bench[d] = "delete" -> told \ keys
                      [] OTHER -> told

Step(d) ==
    /\ \/ RunnerStep(d) /\ Tell(d) /\ UNCHANGED <<shared, pending>>
       \/ DriverStep(d) /\ UNCHANGED <<runner, told>>
    /\ UNCHANGED chosen

Ended == \A d \in Doers : pc[d] = "end"

(* ia_free, when ia_run is back. *)
Free ==
    /\ Ended /\ handle # "closed"
    /\ \/ chosen = "sqlite3" /\ SqlClose
       \/ chosen \in {"vedisdb", "unqlite"} /\ VedisClose /\ UNCHANGED pending
       \/ chosen = "iowow" /\ IowowClose /\ UNCHANGED pending
    /\ UNCHANGED <<call, faults, runner, chosen, told>>

Exited == handle = "closed" /\ UNCHANGED vars

Next == (\E d \in Doers : Step(d)) \/ Free \/ Exited

Spec == Init /\ [][Next]_vars

----------------------------------------------------------------------------
(* Properties. *)

(* Some doer has left a CRUD or a BATCH half done, or undone. *)
Broken == \E d \in Doers : bench[d] \in Quadruple /\ rc[d] # 0

(* What remains of a shared transaction is lost with sqlite3, for those    *)
(* too who were told that theirs is done, when somebody has left a CRUD or *)
(* a BATCH without a COMMIT; vedisdb rolls back what others have written.  *)
Lossy == Broken /\ chosen \in {"sqlite3", "vedisdb"}

(* After the program has closed the database, what doers were told is done *)
(* is there, with no other exceptions; and if no CRUD or BATCH failed,     *)
(* nothing else is, no matter how doers began and committed the            *)
(* transaction that they share.                                            *)
ToldIsKept ==
    handle = "closed" =>
        /\ Lossy \/ told \subseteq saved
        /\ Broken \/ saved = told

(* A BEGIN that is refused because another doer is in the transaction does *)
(* not pass unnoticed: BATCH goes on, in the transaction of the other, but *)
(* one COMMIT is missing in the end, and somebody fails.                   *)
OverlapNoticed ==
    chosen = "sqlite3" /\ Ended =>
        (\A d \in Doers : begun[d]) \/ (\E d \in Doers : rc[d] # 0)

(* A doer that has left holds no cursor, except that of an iteration that  *)
(* failed half way, which iowow does not close.                            *)
CursorsReleased ==
    \A d \in Doers :
        pc[d] = "end" =>
            \/ cursor[d] = NoCursor
            \/ chosen = "iowow" /\ bench[d] = "iterate" /\ rc[d] # 0

(* The option -i, which the usage text explains with "ignore key-not-found *)
(* error": no DELETE or GET fails because a key is missing.                *)
MissingIgnored ==
    \A d \in Doers :
        ignore /\ faults = 0 /\ bench[d] \in {"delete", "get"} => rc[d] # -1
=============================================================================
