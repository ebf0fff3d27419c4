------------------------- MODULE HandleBenchProofs -------------------------
(***************************************************************************)
(* sqlite3, vedisdb, unqlite and iowow under the benchmarks, for any       *)
(* doers, jobs and numbers of operations: as many calls of the libraries   *)
(* as you like may fail.                                                   *)
(*                                                                         *)
(* The argument: a doer in a CRUD or a BATCH is in the transaction that    *)
(* all share, or believes so (Within), until its COMMIT; or its benchmark  *)
(* is bound to fail (Doomed).  A transaction has somebody in it, so that   *)
(* what is left of one when all have gone was left by a doer that failed.  *)
(* If two are in one transaction, or one is in none, that stays so until a *)
(* COMMIT fails (Excess).  As long as nothing is at risk, the database     *)
(* differs from what doers were told only by the operations under way      *)
(* (Keeps, Matches).                                                       *)
(***************************************************************************)
EXTENDS HandleBench, RunnerProofs, TLAPS

(* The code that ia_quadruple makes of the answer to next. *)
Outcome(d) == IF q[d] > 2 THEN Tolerated(call[d].rc) ELSE call[d].rc

(* A CRUD or a BATCH has failed, or is about to learn that it has. *)
Doomed(d) ==
    /\ bench[d] \in Quadruple
    /\ \/ pc[d] \in {"pass", "dispose", "end"} /\ rc[d] # 0
       \/ Returned(d, "begin") /\ call[d].rc # 0 /\ bench[d] = "crud"
       \/ Returned(d, "next") /\ Outcome(d) # 0
       \/ Returned(d, "done") /\ call[d].rc # 0

(* A CRUD or a BATCH is between its BEGIN and its COMMIT. *)
Within(d) ==
    /\ bench[d] \in Quadruple /\ ~Doomed(d)
    /\ \/ Returned(d, "begin") \/ pc[d] = "next"
       \/ pc[d] = "done" /\ call[d].fn = "done"

SomeDoomed == \E d \in Doers : Doomed(d)
SomeWithin == \E d \in Doers : Within(d)

(* There are more doers in a transaction than BEGINs that succeeded. *)
Excess ==
    \/ ~open /\ SomeWithin
    \/ \E d, e \in Doers : d # e /\ Within(d) /\ Within(e)

(* What has been written may get lost. *)
Risk == SomeDoomed \/ (handle = "dangling" /\ SomeWithin)

(* A SET or DELETE has been applied. *)
Applied(d) ==
    \/ Returned(d, "next") /\ call[d].rc = 0
    \/ pc[d] = "done" /\ rc[d] = 0

(* What the benchmark has put or deleted and was not told of yet. *)
PutsOf(d) ==
    IF bench[d] = "set" /\ Applied(d) THEN {KeyA(d)}
    ELSE IF bench[d] \notin Quadruple \/ Doomed(d) THEN {}
    ELSE IF pc[d] = "next"
         THEN PutsAfter(d, IF call[d].fn = "next" THEN q[d] - 1 ELSE q[d])
    ELSE IF pc[d] = "done" THEN Written(d) ELSE {}

DelsOf(d) == IF bench[d] = "delete" /\ Applied(d) THEN {KeyA(d)} ELSE {}

Keeps ==
    /\ \A d \in Doers : PutsOf(d) \subseteq data
    /\ \A k \in told : k \notin data => \E d \in Doers : k \in DelsOf(d)

Matches ==
    /\ \A d \in Doers : DelsOf(d) \cap data = {}
    /\ \A k \in data : k \notin told => \E d \in Doers : k \in PutsOf(d)

KeysInv ==
    /\ chosen \in {"unqlite", "iowow"} \/ ~Risk => Keeps
    /\ ~Risk => Matches

(* Only first keys last. *)
ToldInv ==
    \A k \in told : \E d \in Doers :
        job[d].mask \cap Writes # {} /\ k[1] = job[d].space

(* A BEGIN has failed. *)
Missed(d) == ~begun[d] \/ (Returned(d, "begin") /\ call[d].rc # 0)

TxnInv ==
    /\ ~open => saved = data
    /\ chosen = "iowow" => ~open
    /\ handle = "dangling" => chosen = "sqlite3" /\ ~open
    /\ chosen = "sqlite3" =>
         /\ open => SomeWithin \/ SomeDoomed
         /\ (\E d \in Doers : Missed(d)) => Excess \/ SomeDoomed

AnswerOK(d) ==
    /\ pc[d] = "new" => bench[d] \notin Quadruple
    /\ Returned(d, "done") /\ bench[d] \in Single => call[d].rc = 0
    /\ /\ Returned(d, "begin") /\ chosen = "sqlite3"
       /\ bench[d] \notin Quadruple
       => call[d].rc = 0

CursorOK(d) ==
    cursor[d] # NoCursor =>
        \/ /\ chosen = "unqlite"
           /\ pc[d] \notin {"new", "end"} /\ ~Returned(d, "dispose")
        \/ /\ chosen = "iowow" /\ bench[d] = "iterate"
           /\ \/ Returned(d, "begin") \/ pc[d] = "next"
              \/ pc[d] = "done" /\ call[d].fn = "done"
              \/ pc[d] \in {"pass", "dispose", "end"} /\ rc[d] # 0

HandleType ==
    /\ open \in BOOLEAN /\ handle \in {"open", "dangling", "closed"}
    /\ chosen \in Drivers
    /\ cursor = [d \in Doers |-> cursor[d]]

IInv ==
    /\ RunnerInv /\ HandleType
    /\ \A d \in Doers : CursorOK(d) /\ AnswerOK(d)
    /\ handle = "closed" => Ended /\ ToldIsKept /\ OverlapNoticed
    /\ handle # "closed" => KeysInv /\ ToldInv /\ TxnInv

----------------------------------------------------------------------------
(* Steps of others, and steps of the runner. *)

(* The invariant holds at the start. *)
LEMMA InitInv == Init => IInv
<1> SUFFICES ASSUME Init PROVE IInv
  OBVIOUS
<1>1. RunnerInv
  BY RunnerInitInv DEF Init
<1>2. HandleType
  BY DEF Init, SharedInit, HandleType
<1>3. \A d \in Doers : /\ pc[d] = "new" /\ bench[d] = "set" /\ begun[d]
                       /\ cursor[d] = NoCursor
  BY DEF Init, RunnerInit, SharedInit
<1>4. \A d \in Doers : /\ ~Doomed(d) /\ ~Within(d) /\ PutsOf(d) = {}
                       /\ DelsOf(d) = {} /\ ~Missed(d)
  BY <1>3 DEF Doomed, Within, PutsOf, DelsOf, Missed, Returned, Applied,
     Quadruple
<1>5. KeysInv /\ ToldInv /\ TxnInv
  BY <1>4 DEF Init, SharedInit, KeysInv, Keeps, Matches, ToldInv, TxnInv
<1>6. \A d \in Doers : CursorOK(d) /\ AnswerOK(d)
  BY <1>3 DEF CursorOK, AnswerOK, Returned, Quadruple
<1> QED  BY <1>1, <1>2, <1>5, <1>6 DEF IInv, Init, SharedInit

(* What does not concern e leaves its status as it is. *)
LEMMA SameStatus ==
    ASSUME NEW e \in Doers, SameFor(e)
    PROVE  /\ (Doomed(e)' <=> Doomed(e)) /\ (Within(e)' <=> Within(e))
           /\ PutsOf(e)' = PutsOf(e) /\ DelsOf(e)' = DelsOf(e)
           /\ (Missed(e)' <=> Missed(e))
<1>1. /\ ignore' = ignore /\ job' = job /\ pc'[e] = pc[e]
      /\ serial'[e] = serial[e] /\ bench'[e] = bench[e] /\ i'[e] = i[e]
      /\ j'[e] = j[e] /\ q'[e] = q[e] /\ rc'[e] = rc[e]
      /\ begun'[e] = begun[e] /\ call'[e] = call[e]
  BY DEF SameFor
<1>2. (Doomed(e)' <=> Doomed(e))
  BY <1>1 DEF Doomed, Returned, Outcome, Tolerated
<1>3. (Within(e)' <=> Within(e))
  BY <1>1, <1>2 DEF Within, Returned
<1>4. (Applied(e)' <=> Applied(e)) /\ (Missed(e)' <=> Missed(e))
  BY <1>1 DEF Applied, Missed, Returned
<1>5. \A g, n : KeyOf(e, g, n)' = KeyOf(e, g, n)
  BY <1>1 DEF KeyOf
<1>6. /\ KeyA(e)' = KeyA(e) /\ KeyB(e)' = KeyB(e)
      /\ Batched(e)' = Batched(e)
  BY <1>1, <1>5 DEF KeyA, KeyB, Batched
<1>7. Written(e)' = Written(e) /\ Earlier(e)' = Earlier(e)
  BY <1>1, <1>6 DEF Written, Earlier
<1>8. \A n : PutsAfter(e, n)' = PutsAfter(e, n)
  BY <1>6, <1>7 DEF PutsAfter
<1>9. PutsOf(e)' = PutsOf(e)
  BY <1>1, <1>2, <1>4, <1>6, <1>7, <1>8 DEF PutsOf
<1>10. DelsOf(e)' = DelsOf(e)
  BY <1>1, <1>4, <1>6 DEF DelsOf
<1> QED  BY <1>2, <1>3, <1>4, <1>9, <1>10

(* A step of the runner changes nobody's status: what becomes of a         *)
(* benchmark is decided when a call is answered.  What it has put and      *)
(* deleted is forgotten when it is told.                                   *)
LEMMA RunnerStatus ==
    ASSUME RunnerInv, NEW d \in Doers, AnswerOK(d), RunnerStep(d)
    PROVE  /\ (Doomed(d)' <=> Doomed(d)) /\ (Within(d)' <=> Within(d))
           /\ Missed(d)' => Missed(d)
           /\ IF Returned(d, "done") THEN PutsOf(d)' = {} /\ DelsOf(d)' = {}
              ELSE PutsOf(d)' = PutsOf(d) /\ DelsOf(d)' = DelsOf(d)
           /\ pc'[d] # "new"
<1>0. /\ Move(d) /\ job' = job /\ ignore' = ignore /\ RunnerType
      /\ bench[d] \in Steps /\ q[d] \in 1 .. 4 /\ pc[d] \in Labels
      /\ i[d] \in Nat /\ j[d] \in Nat
      /\ rc[d] \in Codes /\ call[d].rc \in Codes /\ begun[d] \in BOOLEAN
  BY RunnerMoves DEF RunnerInv, RunnerType, CallType
<1>1. CallOK(d) /\ CountOK(d)
  BY DEF RunnerInv, RunnerOK
<1> USE DEF Returned, ToPass, ToCall, InBench, Counts
<1>n. ASSUME pc'[d] \notin {"next", "done"}
      PROVE  PutsOf(d)' = {} /\ DelsOf(d)' = {}
  BY <1>n DEF PutsOf, DelsOf, Applied
<1>m. ASSUME pc[d] \notin {"next", "done"}
      PROVE  PutsOf(d) = {} /\ DelsOf(d) = {}
  BY <1>m DEF PutsOf, DelsOf, Applied
<1>k. UNCHANGED <<serial[d], i[d]>> => KeyA(d)' = KeyA(d) /\ KeyB(d)' = KeyB(d)
  BY <1>0 DEF KeyA, KeyB, KeyOf
<1>2. CASE MoveNew(d)
  <2>1. bench[d] \notin Quadruple
    BY <1>2 DEF AnswerOK, MoveNew
  <2> QED  BY <1>2, <1>n, <1>m, <2>1 DEF MoveNew, Doomed, Within, Missed
<1>3. CASE MoveStart(d)
  <2>1. ~Doomed(d) /\ ~Within(d)
    BY <1>3 DEF MoveStart, Doomed, Within
  <2>2. ~Doomed(d)' /\ ~Within(d)' /\ ~Missed(d)'
    BY <1>3 DEF MoveStart, Doomed, Within, Missed
  <2> QED  BY <1>3, <1>n, <1>m, <2>1, <2>2 DEF MoveStart
<1>4. CASE MoveAgain(d)
  BY <1>4, <1>n, <1>m DEF MoveAgain, Doomed, Within, Missed
<1>5. CASE MoveDispose(d)
  BY <1>5, <1>n, <1>m DEF MoveDispose, Doomed, Within, Missed
<1>6. CASE MoveEnd(d)
  BY <1>6, <1>n, <1>m DEF MoveEnd, Doomed, Within, Missed
<1>7. CASE MoveSingle(d)
  <2>1. bench[d] \notin Quadruple /\ bench'[d] = bench[d]
    BY <1>7 DEF MoveSingle, Single, Quadruple
  <2>2. /\ pc[d] = "next" /\ call[d].fn = "return" /\ rc'[d] = call[d].rc
        /\ pc'[d] = "done" /\ call'[d].fn = "done"
    BY <1>7 DEF MoveSingle
  <2>3. (Applied(d)' <=> Applied(d))
    BY <2>2 DEF Applied
  <2>4. PutsOf(d)' = PutsOf(d) /\ DelsOf(d)' = DelsOf(d)
    BY <1>7, <1>k, <2>1, <2>3 DEF PutsOf, DelsOf, MoveSingle
  <2> QED  BY <1>7, <2>1, <2>2, <2>4 DEF MoveSingle, Doomed, Within, Missed
<1>8. CASE MoveIterate(d)
  <2>1. /\ bench'[d] = "iterate" /\ bench[d] = "iterate"
        /\ "iterate" \notin Quadruple
    BY <1>8 DEF MoveIterate, Quadruple
  <2>2. PutsOf(d)' = PutsOf(d) /\ DelsOf(d)' = DelsOf(d)
    BY <2>1 DEF PutsOf, DelsOf
  <2> QED  BY <1>8, <2>1, <2>2 DEF MoveIterate, Doomed, Within, Missed
<1>9. CASE MoveDone(d)
  <2>1. bench[d] \in Quadruple => rc[d] = 0
    BY <1>1, <1>9 DEF CountOK, MoveDone
  <2>2. Tolerated(0) = 0
    BY DEF Tolerated, ENOENT
  <2>3. PutsOf(d)' = {} /\ DelsOf(d)' = {}
    BY <1>9, <1>n DEF MoveDone
  <2>4. pc[d] = "done" /\ call[d].fn = "return" /\ pc'[d] \in {"begin", "pass"}
    BY <1>9 DEF MoveDone
  <2>5. (Doomed(d)' <=> Doomed(d))
    BY <1>9, <2>1, <2>2 DEF MoveDone, Doomed
  <2>6. (Within(d)' <=> Within(d)) /\ (Missed(d)' => Missed(d))
    BY <1>9, <2>4 DEF MoveDone, Within, Missed
  <2> QED  BY <2>3, <2>4, <2>5, <2>6
<1>10. CASE MoveBegin(d)
  <2>1. /\ pc[d] = "begin" /\ call[d].fn = "return" /\ bench'[d] = bench[d]
        /\ pc'[d] \in {"next", "done", "pass"} /\ call'[d].fn # "return"
    BY <1>10 DEF MoveBegin
  <2>2. PutsOf(d) = {} /\ DelsOf(d) = {}
    BY <1>m, <2>1
  <2>3. Missed(d)' => Missed(d)
    BY <1>0, <1>10, <2>1 DEF MoveBegin, Missed
  <2>4. CASE bench[d] \in Quadruple
    <3>1. bench[d] \notin Single /\ bench[d] # "iterate" /\ bench[d] # "set"
          /\ bench[d] # "delete"
      BY <2>4 DEF Single, Quadruple
    <3>2. CASE call[d].rc = 0 \/ bench[d] = "batch"
      <4>1. /\ pc'[d] = "next" /\ call'[d].fn = "next" /\ q'[d] = 1
            /\ bench[d] = "batch" => j'[d] = 0
            /\ i'[d] = i[d]
        BY <1>10, <3>1, <3>2, <2>4 DEF MoveBegin, Quadruple
      <4>2. Within(d) /\ Within(d)' /\ ~Doomed(d) /\ ~Doomed(d)'
        BY <2>1, <2>4, <3>2, <4>1 DEF Within, Doomed
      <4>3. Earlier(d)' = {}
        BY <1>0, <2>1, <4>1 DEF Earlier, Batched
      <4>4. PutsAfter(d, 0)' = {}
        BY <4>3 DEF PutsAfter
      <4>5. (q[d] - 1)' = 0
        BY <4>1
      <4>6. PutsOf(d)' = {} /\ DelsOf(d)' = {}
        BY <2>1, <3>1, <4>1, <4>2, <4>4, <4>5 DEF PutsOf, DelsOf
      <4> QED  BY <2>1, <2>2, <2>3, <4>2, <4>6
    <3>3. CASE call[d].rc # 0 /\ bench[d] # "batch"
      <4>1. pc'[d] = "pass" /\ rc'[d] # 0 /\ bench[d] = "crud"
        BY <1>10, <3>1, <3>3, <2>4 DEF MoveBegin, Quadruple
      <4>2. ~Within(d) /\ ~Within(d)' /\ Doomed(d) /\ Doomed(d)'
        BY <2>1, <2>4, <3>3, <4>1 DEF Within, Doomed
      <4> QED  BY <1>n, <2>1, <2>2, <2>3, <4>1, <4>2
    <3> QED  BY <3>2, <3>3
  <2>5. CASE bench[d] \notin Quadruple
    <3>1. ~Doomed(d) /\ ~Within(d) /\ ~Doomed(d)' /\ ~Within(d)'
      BY <2>1, <2>5 DEF Doomed, Within
    <3>2. ~Applied(d)' \/ bench[d] = "iterate"
      BY <1>10, <2>1, <2>5 DEF MoveBegin, Applied
    <3>3. PutsOf(d)' = {} /\ DelsOf(d)' = {}
      BY <2>1, <2>5, <3>2 DEF PutsOf, DelsOf
    <3> QED  BY <2>1, <2>2, <2>3, <3>1, <3>3
  <2> QED  BY <2>4, <2>5
<1>11. CASE MoveQuadruple(d)
  <2>1. /\ pc[d] = "next" /\ call[d].fn = "return" /\ bench'[d] = bench[d]
        /\ bench[d] \in Quadruple /\ bench[d] # "set" /\ bench[d] # "delete"
        /\ pc'[d] \in {"next", "done", "pass"} /\ call'[d].fn # "return"
        /\ serial'[d] = serial[d] /\ begun'[d] = begun[d]
    BY <1>11 DEF MoveQuadruple, Quadruple
  <2>2. DelsOf(d) = {} /\ DelsOf(d)' = {} /\ (Missed(d)' => Missed(d))
    BY <2>1 DEF DelsOf, Missed
  <2>3. CASE Outcome(d) # 0
    <3>1. pc'[d] = "pass" /\ rc'[d] # 0
      BY <1>11, <2>3 DEF MoveQuadruple, Outcome
    <3>2. Doomed(d) /\ Doomed(d)' /\ ~Within(d) /\ ~Within(d)'
      BY <2>1, <2>3, <3>1 DEF Doomed, Within
    <3>3. PutsOf(d) = {} /\ PutsOf(d)' = {}
      BY <2>1, <3>2 DEF PutsOf
    <3> QED  BY <2>1, <2>2, <3>1, <3>2, <3>3
  <2>4. CASE Outcome(d) = 0
    <3>1. \/ /\ q[d] # 4 /\ pc'[d] = "next" /\ call'[d].fn = "next"
             /\ q'[d] = q[d] + 1 /\ i'[d] = i[d] /\ j'[d] = j[d]
          \/ /\ q[d] = 4 /\ bench[d] = "batch" /\ q'[d] = 1
             /\ i'[d] = i[d] + 1 /\ j'[d] = j[d] + 1
             /\ ToCall(d, "next") \/ ToCall(d, "done")
          \/ /\ q[d] = 4 /\ bench[d] = "crud" /\ q'[d] = 1
             /\ i'[d] = i[d] /\ j'[d] = j[d] /\ ToCall(d, "done")
      BY <1>11, <2>4 DEF MoveQuadruple, Outcome
    <3>2. ~Doomed(d) /\ ~Doomed(d)' /\ Within(d) /\ Within(d)'
      BY <2>1, <2>4, <3>1 DEF Doomed, Within
    <3>3. PutsOf(d) = PutsAfter(d, q[d])
      BY <2>1, <3>2 DEF PutsOf
    <3>4. CASE q[d] # 4
      <4>1. Earlier(d)' = Earlier(d) /\ KeyA(d)' = KeyA(d) /\ KeyB(d)' = KeyB(d)
        BY <1>0, <1>k, <2>1, <3>1, <3>4 DEF Earlier, Batched, KeyOf
      <4>2. (q[d] - 1)' = q[d]
        BY <1>0, <3>1, <3>4
      <4>4. \A n : PutsAfter(d, n)' = PutsAfter(d, n)
        BY <4>1 DEF PutsAfter
      <4>5. PutsOf(d)' = PutsAfter(d, q[d])
        BY <2>1, <3>1, <3>2, <3>4, <4>2, <4>4 DEF PutsOf
      <4> QED  BY <2>1, <2>2, <3>2, <3>3, <4>5
    <3>5. CASE q[d] = 4
      <4>1. PutsOf(d) = Earlier(d) \cup {KeyA(d)}
        BY <3>3, <3>5 DEF PutsAfter
      <4>2. CASE bench[d] = "batch"
        <5>1. Batched(d)' = PutsOf(d)
          BY <1>0, <2>1, <3>1, <3>5, <4>1, <4>2, BatchGrows DEF Earlier
        <5>2. Earlier(d)' = PutsOf(d) /\ Written(d)' = PutsOf(d)
          BY <2>1, <4>2, <5>1 DEF Earlier, Written
        <5>3. (q[d] - 1)' = 0
          BY <3>1, <3>5
        <5>4. PutsAfter(d, 0)' = PutsOf(d)
          BY <5>2 DEF PutsAfter
        <5>5. PutsOf(d)' = PutsOf(d)
          BY <2>1, <3>1, <3>2, <3>5, <4>2, <5>2, <5>3, <5>4 DEF PutsOf
        <5> QED  BY <2>1, <2>2, <3>2, <5>5
      <4>3. CASE bench[d] # "batch"
        <5>1. /\ pc'[d] = "done" /\ i'[d] = i[d]
          BY <3>1, <3>5, <4>3
        <5>2. Written(d)' = {KeyA(d)} /\ PutsOf(d) = {KeyA(d)}
          BY <1>k, <2>1, <4>1, <4>3, <5>1 DEF Written, Earlier
        <5>3. PutsOf(d)' = Written(d)'
          BY <2>1, <3>2, <5>1 DEF PutsOf
        <5> QED  BY <2>1, <2>2, <3>2, <5>2, <5>3
      <4> QED  BY <4>2, <4>3
    <3> QED  BY <3>4, <3>5
  <2> QED  BY <2>3, <2>4
<1> QED  BY <1>0, <1>2, <1>3, <1>4, <1>5, <1>6, <1>7, <1>8, <1>9, <1>10, <1>11
         DEF Move

----------------------------------------------------------------------------
(* What the drivers do, in common. *)

(* What all doers have written since the last COMMIT is undone. *)
Undone(d, r) ==
    /\ r = -1 /\ data' = saved
    /\ \/ chosen = "sqlite3" /\ handle' = "dangling"
       \/ /\ chosen = "vedisdb" /\ call[d].fn = "done"
          /\ call[d].step \in Quadruple

(* A call of next that has changed the database. *)
Changes(d, r) == /\ call[d].fn = "next" /\ call[d].step \in {"set", "delete"}
                 /\ r = 0

DataOut(d, r) ==
    LET c == call[d] IN
    /\ ~open' => saved' = data'
    /\ c.fn = "next" /\ c.step = "set" =>
         r # ENOENT /\ (r = 0 => data' = data \cup {c.key})
    /\ c.fn = "next" /\ c.step = "delete" /\ r = 0 => data' = data \ {c.key}
    /\ c.fn = "next" /\ c.step \in {"delete", "get"} /\ r = ENOENT =>
         c.key \notin data
    /\ ~Changes(d, r) => data' = data \/ Undone(d, r)
    /\ c.fn = "done" /\ c.step \in Single => r = 0

(* BEGIN and COMMIT of sqlite3, and its handle. *)
SqlOut(d, r) ==
    LET c == call[d]
        txn == c.step \in Quadruple
    IN /\ handle' = handle \/ handle' = "dangling"
       /\ handle' = "dangling" => ~open'
       /\ c.fn = "begin" /\ ~txn => r = 0
       /\ c.fn = "begin" /\ txn /\ r = 0 => ~open /\ open'
       /\ c.fn = "done" /\ txn /\ r = 0 => open /\ ~open'
       /\ open' = open \/ handle' = "dangling"
            \/ (c.fn \in {"begin", "done"} /\ txn /\ r = 0)
       /\ handle = "dangling" /\ (c.fn = "next" \/ (c.fn = "done" /\ txn)) =>
            r = -1

CursorOut(d) ==
    LET c == call[d] IN
    /\ cursor' = [e \in Doers |-> cursor'[e]]
    /\ \A e \in Doers : e # d => cursor'[e] = cursor[e]
    /\ chosen \in {"sqlite3", "vedisdb"} => cursor' = cursor
    /\ chosen = "unqlite" =>
         /\ c.fn = "thread_new" => cursor'[d] = cursor[d]
         /\ c.fn = "thread_dispose" => cursor'[d] = NoCursor
    /\ chosen = "iowow" =>
         /\ c.fn \in {"thread_new", "thread_dispose"} => cursor'[d] = cursor[d]
         /\ c.fn \in {"begin", "done"} /\ c.step # "iterate" =>
              cursor'[d] = cursor[d]
         /\ c.fn = "done" /\ c.step = "iterate" => cursor'[d] = NoCursor
         /\ c.fn = "next" /\ c.step # "iterate" => cursor'[d] = cursor[d]

Out(d, r) ==
    /\ call[d].fn \in Functions /\ Return(d, r) /\ r \in Codes
    /\ open' \in BOOLEAN
    /\ DataOut(d, r) /\ CursorOut(d)
    /\ chosen = "sqlite3" => SqlOut(d, r)
    /\ chosen # "sqlite3" => handle' = handle
    /\ chosen = "iowow" => ~open'

(* Setting the cursor of d touches no other. *)
LEMMA CursorType ==
    ASSUME HandleType, NEW d \in Doers, NEW x,
           SetCursor(d, x) \/ cursor' = cursor
    PROVE  /\ cursor' = [e \in Doers |-> cursor'[e]]
           /\ \A e \in Doers : e # d => cursor'[e] = cursor[e]
           /\ SetCursor(d, x) => cursor'[d] = x
BY DEF HandleType, SetCursor

(* A call has one answer. *)
LEMMA OneAnswer ==
    ASSUME RunnerInv, NEW d \in Doers, NEW r \in Codes, Return(d, r)
    PROVE  /\ \A s \in Codes : Return(d, s) => s = r
           /\ call'[d].fn = "return" /\ call'[d].rc = r
<1>1. call[d] \in CallType /\ call \in [Doers -> CallType]
  BY DEF RunnerInv, RunnerType
<1>2. \A s \in Codes : Return(d, s) => call'[d] = Answer(call[d], s)
  BY <1>1 DEF Return
<1>3. \A s \in Codes : /\ Answer(call[d], s).rc = s
                        /\ Answer(call[d], s).fn = "return"
  BY <1>1, AnswerType
<1> QED  BY <1>2, <1>3

(* What ia_sqlite3.c answers, and does. *)
LEMMA SqlAnswers ==
    ASSUME IInv, NEW d \in Doers, SqlStep(d), chosen = "sqlite3",
           handle # "closed", NEW r \in Codes, Return(d, r)
    PROVE  Out(d, r)
<1> USE DEF Called
<1>0. /\ open \in BOOLEAN /\ handle \in {"open", "dangling"}
      /\ ~open => saved = data
      /\ handle = "dangling" => ~open
  BY DEF IInv, HandleType, TxnInv
<1>u. /\ Return(d, 0) => r = 0
      /\ Return(d, -1) => r = -1
      /\ Return(d, ENOENT) => r = ENOENT
  BY OneAnswer DEF IInv, Codes
<1>i. LET s == IF call[d].key \in data THEN 0 ELSE ENOENT
      IN Return(d, s) => r = s
  BY OneAnswer DEF IInv, Codes
<1>c. UNCHANGED cursor => CursorOut(d)
  BY CursorType DEF CursorOut, IInv, HandleType
<1>1. CASE SqlThreadNew(d)
  BY <1>0, <1>1, <1>c, <1>u DEF SqlThreadNew, Out, DataOut, SqlOut, Nothing,
     shared, Steps, TxnSteps, SingleSteps, Quadruple, Single, Functions,
     ENOENT, Changes
<1>2. CASE SqlThreadDispose(d)
  BY <1>0, <1>2, <1>c, <1>u DEF SqlThreadDispose, Out, DataOut, SqlOut,
     Nothing, shared, Steps, TxnSteps, SingleSteps, Quadruple, Single,
     Functions, ENOENT, Changes
<1>3. CASE SqlBeginTxn(d)
  <2>1. \/ handle = "open" /\ ~open /\ open' = TRUE /\ r = 0
        \/ r = -1 /\ UNCHANGED open
    BY <1>u, <1>3 DEF SqlBeginTxn
  <2>2. /\ call[d].fn = "begin" /\ call[d].step \in Quadruple
        /\ UNCHANGED <<data, saved, cursor, handle>>
    BY <1>3 DEF SqlBeginTxn, Called, TxnSteps, Quadruple
  <2>3. DataOut(d, r)
    BY <1>0, <2>1, <2>2 DEF DataOut, Changes, Undone, Single, Quadruple, ENOENT
  <2>4. SqlOut(d, r)
    BY <1>0, <2>1, <2>2 DEF SqlOut, Quadruple
  <2>5. open' \in BOOLEAN
    BY <1>0, <2>1, <2>2
  <2> QED  BY <1>c, <2>2, <2>3, <2>4, <2>5 DEF Out, Functions
<1>4. CASE SqlBeginOther(d)
  BY <1>0, <1>4, <1>c, <1>u DEF SqlBeginOther, Out, DataOut, SqlOut, Nothing,
     shared, Steps, TxnSteps, SingleSteps, Quadruple, Single, Functions,
     ENOENT, Changes
<1>5. CASE SqlDoneTxn(d)
  <2>1. \/ handle = "open" /\ open /\ Commit /\ r = 0
        \/ r = -1 /\ UNCHANGED <<data, saved, open>>
    BY <1>u, <1>5 DEF SqlDoneTxn
  <2>2. /\ call[d].fn = "done" /\ call[d].step \in Quadruple
        /\ UNCHANGED <<cursor, handle>>
    BY <1>5 DEF SqlDoneTxn, Called, TxnSteps, Quadruple
  <2>3. DataOut(d, r)
    BY <1>0, <2>1, <2>2 DEF DataOut, Changes, Undone, Single, Quadruple,
       ENOENT, Commit
  <2>4. SqlOut(d, r)
    BY <1>0, <2>1, <2>2 DEF SqlOut, Quadruple, Commit
  <2>5. open' \in BOOLEAN
    BY <1>0, <2>1, <2>2 DEF Commit
  <2> QED  BY <1>c, <2>2, <2>3, <2>4, <2>5 DEF Out, Functions
<1>6. CASE SqlDoneOther(d)
  BY <1>0, <1>6, <1>c, <1>u DEF SqlDoneOther, Out, DataOut, SqlOut, Nothing,
     shared, Steps, TxnSteps, SingleSteps, Quadruple, Single, Functions,
     ENOENT, Changes
<1>7. CASE SqlNextSet(d)
  <2>1. \/ handle = "open" /\ Write(data \cup {call[d].key}) /\ r = 0
        \/ r = -1 /\ UNCHANGED <<data, saved, open>>
    BY <1>u, <1>7 DEF SqlNextSet
  <2>2. /\ call[d].fn = "next" /\ call[d].step = "set"
        /\ UNCHANGED <<cursor, handle>>
    BY <1>7 DEF SqlNextSet, Called, TxnSteps, Quadruple
  <2>3. DataOut(d, r)
    BY <1>0, <2>1, <2>2 DEF DataOut, Changes, Undone, Single, Quadruple,
       ENOENT, Write
  <2>4. SqlOut(d, r)
    BY <1>0, <2>1, <2>2 DEF SqlOut, Quadruple, Write
  <2>5. open' \in BOOLEAN
    BY <1>0, <2>1, <2>2 DEF Write
  <2> QED  BY <1>c, <2>2, <2>3, <2>4, <2>5 DEF Out, Functions
<1>8. CASE SqlNextDelete(d)
  <2>1. \/ /\ handle = "open" /\ Write(data \ {call[d].key}) /\ r = 0
           /\ UNCHANGED handle
        \/ r = -1 /\ CloseEarly
    BY <1>u, <1>8 DEF SqlNextDelete
  <2>2. /\ call[d].fn = "next" /\ call[d].step = "delete"
        /\ UNCHANGED <<cursor>>
    BY <1>8 DEF SqlNextDelete, Called, TxnSteps, Quadruple
  <2>3. DataOut(d, r)
    BY <1>0, <2>1, <2>2 DEF DataOut, Changes, Undone, Single, Quadruple,
       ENOENT, Write, CloseEarly, Rollback
  <2>4. SqlOut(d, r)
    BY <1>0, <2>1, <2>2 DEF SqlOut, Quadruple, Write, CloseEarly, Rollback
  <2>5. open' \in BOOLEAN
    BY <1>0, <2>1, <2>2 DEF Write, CloseEarly, Rollback
  <2> QED  BY <1>c, <2>2, <2>3, <2>4, <2>5 DEF Out, Functions
<1>9. CASE SqlNextGet(d)
  <2>1. \/ /\ handle = "open" /\ r = 0
           /\ UNCHANGED <<data, saved, open, handle>>
        \/ r = -1 /\ CloseEarly
    BY <1>u, <1>9 DEF SqlNextGet
  <2>2. /\ call[d].fn = "next" /\ call[d].step = "get"
        /\ UNCHANGED <<cursor>>
    BY <1>9 DEF SqlNextGet, Called, TxnSteps, Quadruple
  <2>3. DataOut(d, r)
    BY <1>0, <2>1, <2>2 DEF DataOut, Changes, Undone, Single, Quadruple,
       ENOENT, CloseEarly, Rollback
  <2>4. SqlOut(d, r)
    BY <1>0, <2>1, <2>2 DEF SqlOut, Quadruple, CloseEarly, Rollback
  <2>5. open' \in BOOLEAN
    BY <1>0, <2>1, <2>2 DEF CloseEarly, Rollback
  <2> QED  BY <1>c, <2>2, <2>3, <2>4, <2>5 DEF Out, Functions
<1>10. CASE SqlNextIterate(d)
  BY <1>0, <1>10, <1>c, <1>u DEF SqlNextIterate, Out, DataOut, SqlOut, Nothing,
     shared, Steps, TxnSteps, SingleSteps, Quadruple, Single, Functions,
     ENOENT, Changes
<1> QED  BY <1>1, <1>2, <1>3, <1>4, <1>5, <1>6, <1>7, <1>8, <1>9, <1>10
         DEF SqlStep

(* What ia_vedisdb.c answers, and does. *)
LEMMA VedisAnswers ==
    ASSUME IInv, NEW d \in Doers, VedisStep(d), chosen = "vedisdb",
           handle # "closed", NEW r \in Codes, Return(d, r)
    PROVE  Out(d, r)
<1> USE DEF Called
<1>0. open \in BOOLEAN /\ (~open => saved = data)
  BY DEF IInv, HandleType, TxnInv
<1>u. /\ Return(d, 0) => r = 0
      /\ Return(d, -1) => r = -1
      /\ Return(d, ENOENT) => r = ENOENT
  BY OneAnswer DEF IInv, Codes
<1>i. LET s == IF call[d].key \in data THEN 0 ELSE ENOENT
      IN Return(d, s) => r = s
  BY OneAnswer DEF IInv, Codes
<1>c. UNCHANGED cursor => CursorOut(d)
  BY CursorType DEF CursorOut, IInv, HandleType
<1>1. CASE VedisThreadNew(d) \/ VedisThreadDispose(d) \/ VedisBeginOther(d)
           \/ VedisDoneOther(d) \/ VedisNextIterate(d)
  BY <1>0, <1>1, <1>c, <1>u DEF VedisThreadNew, VedisThreadDispose,
     VedisBeginOther, VedisDoneOther, VedisNextIterate, Out, DataOut, Nothing,
     shared, Steps, TxnSteps, SingleSteps, Quadruple, Single, Functions,
     ENOENT, Changes
<1>2. CASE VedisBeginTxn(d)
  <2>1. \/ open' = TRUE /\ r = 0
        \/ r = -1 /\ UNCHANGED open
    BY <1>u, <1>2 DEF VedisBeginTxn
  <2>2. /\ call[d].fn = "begin" /\ call[d].step \in Quadruple
        /\ UNCHANGED <<data, saved, cursor, handle>>
    BY <1>2 DEF VedisBeginTxn, Called, TxnSteps, Quadruple
  <2>3. DataOut(d, r)
    BY <1>0, <2>1, <2>2 DEF DataOut, Changes, Undone, Single, Quadruple, ENOENT
  <2>5. open' \in BOOLEAN /\ handle' = handle
    BY <1>0, <2>1, <2>2
  <2> QED  BY <1>c, <2>2, <2>3, <2>5 DEF Out, Functions
<1>3. CASE VedisDoneTxn(d)
  <2>1. \/ Commit /\ r = 0
        \/ Rollback /\ r = -1
        \/ r = -1 /\ UNCHANGED <<data, saved, open>>
    BY <1>u, <1>3 DEF VedisDoneTxn
  <2>2. /\ call[d].fn = "done" /\ call[d].step \in Quadruple
        /\ UNCHANGED <<cursor, handle>>
    BY <1>3 DEF VedisDoneTxn, Called, TxnSteps, Quadruple
  <2>3. DataOut(d, r)
    BY <1>0, <2>1, <2>2 DEF DataOut, Changes, Undone, Single, Quadruple,
       ENOENT, Commit, Rollback
  <2>5. open' \in BOOLEAN /\ handle' = handle
    BY <1>0, <2>1, <2>2 DEF Commit, Rollback
  <2> QED  BY <1>c, <2>2, <2>3, <2>5 DEF Out, Functions
<1>4. CASE VedisNextSet(d)
  <2>1. \/ Enlist(data \cup {call[d].key}) /\ r = 0
        \/ r = -1 /\ UNCHANGED <<data, saved, open>>
    BY <1>u, <1>4 DEF VedisNextSet
  <2>2. /\ call[d].fn = "next" /\ call[d].step = "set"
        /\ UNCHANGED <<cursor, handle>>
    BY <1>4 DEF VedisNextSet, Called, TxnSteps, Quadruple
  <2>3. DataOut(d, r)
    BY <1>0, <2>1, <2>2 DEF DataOut, Changes, Undone, Single, Quadruple,
       ENOENT, Enlist
  <2>5. open' \in BOOLEAN /\ handle' = handle
    BY <1>0, <2>1, <2>2 DEF Enlist
  <2> QED  BY <1>c, <2>2, <2>3, <2>5 DEF Out, Functions
<1>5. CASE VedisNextDelete(d)
  <2>1. \/ Enlist(data \ {call[d].key}) /\ r = 0
        \/ r = -1 /\ UNCHANGED <<data, saved, open>>
    BY <1>u, <1>5 DEF VedisNextDelete
  <2>2. /\ call[d].fn = "next" /\ call[d].step = "delete"
        /\ UNCHANGED <<cursor, handle>>
    BY <1>5 DEF VedisNextDelete, Called, TxnSteps, Quadruple
  <2>3. DataOut(d, r)
    BY <1>0, <2>1, <2>2 DEF DataOut, Changes, Undone, Single, Quadruple,
       ENOENT, Enlist
  <2>5. open' \in BOOLEAN /\ handle' = handle
    BY <1>0, <2>1, <2>2 DEF Enlist
  <2> QED  BY <1>c, <2>2, <2>3, <2>5 DEF Out, Functions
<1>6. CASE VedisNextGet(d)
  <2>1. \/ r = -1
        \/ call[d].key \in data /\ r = 0
        \/ call[d].key \notin data /\ r = ENOENT
    BY <1>u, <1>i, <1>6 DEF VedisNextGet, shared
  <2>2. /\ call[d].fn = "next" /\ call[d].step = "get"
        /\ UNCHANGED <<data, saved, open, cursor, handle>>
    BY <1>6 DEF VedisNextGet, Called, shared
  <2>3. DataOut(d, r)
    BY <1>0, <2>1, <2>2 DEF DataOut, Changes, Undone, Single, Quadruple, ENOENT
  <2>5. open' \in BOOLEAN /\ handle' = handle
    BY <1>0, <2>1, <2>2
  <2> QED  BY <1>c, <2>2, <2>3, <2>5 DEF Out, Functions
<1> QED  BY <1>1, <1>2, <1>3, <1>4, <1>5, <1>6 DEF VedisStep

(* What ia_unqlite.c answers, and does. *)
LEMMA UnqAnswers ==
    ASSUME IInv, NEW d \in Doers, UnqStep(d), chosen = "unqlite",
           handle # "closed", NEW r \in Codes, Return(d, r)
    PROVE  Out(d, r)
<1> USE DEF Called
<1>0. open \in BOOLEAN /\ (~open => saved = data)
  BY DEF IInv, HandleType, TxnInv
<1>u. /\ Return(d, 0) => r = 0
      /\ Return(d, -1) => r = -1
      /\ Return(d, ENOENT) => r = ENOENT
  BY OneAnswer DEF IInv, Codes
<1>i. LET s == IF call[d].key \in data THEN 0 ELSE ENOENT
      IN Return(d, s) => r = s
  BY OneAnswer DEF IInv, Codes
<1>c. /\ UNCHANGED cursor /\ call[d].fn # "thread_dispose" => CursorOut(d)
      /\ \A x : /\ SetCursor(d, x)
                /\ call[d].fn \notin {"thread_new", "thread_dispose"}
                => CursorOut(d)
      /\ SetCursor(d, NoCursor) /\ call[d].fn # "thread_new" => CursorOut(d)
  BY CursorType DEF CursorOut, IInv, HandleType
<1>1. CASE VedisThreadNew(d) \/ UnqBeginSingle(d) \/ UnqDoneSingle(d)
  BY <1>0, <1>1, <1>c, <1>u DEF VedisThreadNew, UnqBeginSingle, UnqDoneSingle,
     Out, DataOut, Nothing, shared, Steps, TxnSteps, SingleSteps, Quadruple,
     Single, Functions, ENOENT, Changes
<1>2. CASE UnqThreadDispose(d) \/ UnqDoneIterate(d)
  BY <1>0, <1>2, <1>c, <1>u DEF UnqThreadDispose, UnqDoneIterate, Out, DataOut,
     Nothing, shared, Steps, TxnSteps, SingleSteps, Quadruple, Single,
     Functions, ENOENT, Changes
<1>3. CASE VedisBeginTxn(d)
  <2>1. \/ open' = TRUE /\ r = 0
        \/ r = -1 /\ UNCHANGED open
    BY <1>u, <1>3 DEF VedisBeginTxn
  <2>2. /\ call[d].fn = "begin" /\ call[d].step \in Quadruple
        /\ UNCHANGED <<data, saved, cursor, handle>>
    BY <1>3 DEF VedisBeginTxn, Called, TxnSteps, Quadruple
  <2>3. DataOut(d, r)
    BY <1>0, <2>1, <2>2 DEF DataOut, Changes, Undone, Single, Quadruple, ENOENT
  <2>5. open' \in BOOLEAN /\ handle' = handle
    BY <1>0, <2>1, <2>2
  <2> QED  BY <1>c, <2>2, <2>3, <2>5 DEF Out, Functions
<1>4. CASE UnqBeginIterate(d)
  BY <1>0, <1>4, <1>c, <1>u DEF UnqBeginIterate, Out, DataOut, Nothing, shared,
     Steps, TxnSteps, SingleSteps, Quadruple, Single, Functions, ENOENT,
     Changes
<1>5. CASE UnqDoneTxn(d)
  <2>1. \/ Commit /\ r = 0
        \/ r = -1 /\ UNCHANGED <<data, saved, open>>
    BY <1>u, <1>5 DEF UnqDoneTxn
  <2>2. /\ call[d].fn = "done" /\ call[d].step \in Quadruple
        /\ UNCHANGED <<cursor, handle>>
    BY <1>5 DEF UnqDoneTxn, Called, TxnSteps, Quadruple
  <2>3. DataOut(d, r)
    BY <1>0, <2>1, <2>2 DEF DataOut, Changes, Undone, Single, Quadruple,
       ENOENT, Commit
  <2>5. open' \in BOOLEAN /\ handle' = handle
    BY <1>0, <2>1, <2>2 DEF Commit
  <2> QED  BY <1>c, <2>2, <2>3, <2>5 DEF Out, Functions
<1>6. CASE VedisNextSet(d)
  <2>1. \/ Enlist(data \cup {call[d].key}) /\ r = 0
        \/ r = -1 /\ UNCHANGED <<data, saved, open>>
    BY <1>u, <1>6 DEF VedisNextSet
  <2>2. /\ call[d].fn = "next" /\ call[d].step = "set"
        /\ UNCHANGED <<cursor, handle>>
    BY <1>6 DEF VedisNextSet, Called, TxnSteps, Quadruple
  <2>3. DataOut(d, r)
    BY <1>0, <2>1, <2>2 DEF DataOut, Changes, Undone, Single, Quadruple,
       ENOENT, Enlist
  <2>5. open' \in BOOLEAN /\ handle' = handle
    BY <1>0, <2>1, <2>2 DEF Enlist
  <2> QED  BY <1>c, <2>2, <2>3, <2>5 DEF Out, Functions
<1>7. CASE UnqNextDelete(d)
  <2>1. \/ Enlist(data \ {call[d].key}) /\ r = 0
        \/ /\ call[d].key \notin data /\ r = ENOENT
           /\ UNCHANGED <<data, saved, open>>
        \/ r = -1 /\ UNCHANGED <<data, saved, open>>
    BY <1>u, <1>7 DEF UnqNextDelete
  <2>2. /\ call[d].fn = "next" /\ call[d].step = "delete"
        /\ UNCHANGED <<cursor, handle>>
    BY <1>7 DEF UnqNextDelete, Called, TxnSteps, Quadruple
  <2>3. DataOut(d, r)
    BY <1>0, <2>1, <2>2 DEF DataOut, Changes, Undone, Single, Quadruple,
       ENOENT, Enlist
  <2>5. open' \in BOOLEAN /\ handle' = handle
    BY <1>0, <2>1, <2>2 DEF Enlist
  <2> QED  BY <1>c, <2>2, <2>3, <2>5 DEF Out, Functions
<1>8. CASE VedisNextGet(d)
  <2>1. \/ r = -1
        \/ call[d].key \in data /\ r = 0
        \/ call[d].key \notin data /\ r = ENOENT
    BY <1>u, <1>i, <1>8 DEF VedisNextGet, shared
  <2>2. /\ call[d].fn = "next" /\ call[d].step = "get"
        /\ UNCHANGED <<data, saved, open, cursor, handle>>
    BY <1>8 DEF VedisNextGet, Called, shared
  <2>3. DataOut(d, r)
    BY <1>0, <2>1, <2>2 DEF DataOut, Changes, Undone, Single, Quadruple, ENOENT
  <2>5. open' \in BOOLEAN /\ handle' = handle
    BY <1>0, <2>1, <2>2
  <2> QED  BY <1>c, <2>2, <2>3, <2>5 DEF Out, Functions
<1>9. CASE UnqNextIterate(d)
  BY <1>0, <1>9, <1>c, <1>u DEF UnqNextIterate, Iterate, Out, DataOut, Nothing,
     shared, Steps, TxnSteps, SingleSteps, Quadruple, Single, Functions,
     ENOENT, Changes
<1> QED  BY <1>1, <1>2, <1>3, <1>4, <1>5, <1>6, <1>7, <1>8, <1>9 DEF UnqStep

(* What ia_iowow.c answers, and does. *)
LEMMA IowowAnswers ==
    ASSUME IInv, NEW d \in Doers, IowowStep(d), chosen = "iowow",
           handle # "closed", NEW r \in Codes, Return(d, r)
    PROVE  Out(d, r)
<1> USE DEF Called
<1>0. open = FALSE /\ saved = data
  BY DEF IInv, HandleType, TxnInv
<1>u. /\ Return(d, 0) => r = 0
      /\ Return(d, -1) => r = -1
      /\ Return(d, ENOENT) => r = ENOENT
  BY OneAnswer DEF IInv, Codes
<1>i. LET s == IF call[d].key \in data THEN 0 ELSE ENOENT
      IN Return(d, s) => r = s
  BY OneAnswer DEF IInv, Codes
<1>c. /\ /\ UNCHANGED cursor
         /\ ~(call[d].fn = "done" /\ call[d].step = "iterate")
         => CursorOut(d)
      /\ \A x : /\ SetCursor(d, x) /\ call[d].fn \in {"begin", "next"}
                /\ call[d].step = "iterate"
                => CursorOut(d)
      /\ /\ SetCursor(d, NoCursor)
         /\ call[d].fn = "done" /\ call[d].step = "iterate"
         => CursorOut(d)
  BY CursorType DEF CursorOut, IInv, HandleType
<1>1. CASE IowowThreadNew(d) \/ IowowThreadDispose(d) \/ IowowBeginOther(d)
           \/ IowowDoneOther(d)
  BY <1>0, <1>1, <1>c, <1>u DEF IowowThreadNew, IowowThreadDispose,
     IowowBeginOther, IowowDoneOther, Out, DataOut, Nothing, shared, Steps,
     TxnSteps, SingleSteps, Quadruple, Single, Functions, ENOENT, Changes
<1>2. CASE IowowBeginIterate(d)
  BY <1>0, <1>2, <1>c, <1>u DEF IowowBeginIterate, Out, DataOut, Nothing,
     shared, Steps, TxnSteps, SingleSteps, Quadruple, Single, Functions,
     ENOENT, Changes
<1>3. CASE IowowDoneIterate(d)
  BY <1>0, <1>3, <1>c, <1>u DEF IowowDoneIterate, Out, DataOut, Nothing,
     shared, Steps, TxnSteps, SingleSteps, Quadruple, Single, Functions,
     ENOENT, Changes
<1>4. CASE IowowNextSet(d)
  <2>1. \/ Write(data \cup {call[d].key}) /\ r = 0
        \/ r = -1 /\ UNCHANGED <<data, saved, open>>
    BY <1>u, <1>4 DEF IowowNextSet
  <2>2. /\ call[d].fn = "next" /\ call[d].step = "set"
        /\ UNCHANGED <<cursor, handle>>
    BY <1>4 DEF IowowNextSet, Called, TxnSteps, Quadruple
  <2>3. DataOut(d, r)
    BY <1>0, <2>1, <2>2 DEF DataOut, Changes, Undone, Single, Quadruple,
       ENOENT, Write
  <2>5. open' \in BOOLEAN /\ handle' = handle /\ ~open'
    BY <1>0, <2>1, <2>2 DEF Write
  <2> QED  BY <1>c, <2>2, <2>3, <2>5 DEF Out, Functions
<1>5. CASE IowowNextDelete(d)
  <2>1. \/ /\ Write(data \ {call[d].key})
           /\ r = IF call[d].key \in data THEN 0 ELSE ENOENT
        \/ r = -1 /\ UNCHANGED <<data, saved, open>>
    BY <1>u, <1>i, <1>5 DEF IowowNextDelete
  <2>2. /\ call[d].fn = "next" /\ call[d].step = "delete"
        /\ UNCHANGED <<cursor, handle>>
    BY <1>5 DEF IowowNextDelete, Called, TxnSteps, Quadruple
  <2>3. DataOut(d, r)
    BY <1>0, <2>1, <2>2 DEF DataOut, Changes, Undone, Single, Quadruple,
       ENOENT, Write
  <2>5. open' \in BOOLEAN /\ handle' = handle /\ ~open'
    BY <1>0, <2>1, <2>2 DEF Write
  <2> QED  BY <1>c, <2>2, <2>3, <2>5 DEF Out, Functions
<1>6. CASE IowowNextGet(d)
  <2>1. \/ r = -1
        \/ call[d].key \in data /\ r = 0
        \/ call[d].key \notin data /\ r = ENOENT
    BY <1>u, <1>i, <1>6 DEF IowowNextGet, shared
  <2>2. /\ call[d].fn = "next" /\ call[d].step = "get"
        /\ UNCHANGED <<data, saved, open, cursor, handle>>
    BY <1>6 DEF IowowNextGet, Called, shared
  <2>3. DataOut(d, r)
    BY <1>0, <2>1, <2>2 DEF DataOut, Changes, Undone, Single, Quadruple, ENOENT
  <2>5. open' \in BOOLEAN /\ handle' = handle /\ ~open'
    BY <1>0, <2>1, <2>2
  <2> QED  BY <1>c, <2>2, <2>3, <2>5 DEF Out, Functions
<1>7. CASE IowowNextIterate(d)
  BY <1>0, <1>7, <1>c, <1>u DEF IowowNextIterate, Iterate, Out, DataOut,
     Nothing, shared, Steps, TxnSteps, SingleSteps, Quadruple, Single,
     Functions, ENOENT, Changes
<1> QED  BY <1>1, <1>2, <1>3, <1>4, <1>5, <1>6, <1>7 DEF IowowStep

(* Every step of a driver is an answer, with an outcome as above. *)
LEMMA DriverAnswers ==
    ASSUME IInv, NEW d \in Doers, DriverStep(d), handle # "closed"
    PROVE  \E r \in Codes : Out(d, r)
<1> DEFINE s == IF call[d].key \in data THEN 0 ELSE ENOENT
           A == \E r \in Codes : Return(d, r)
<1>c. {0, -1, ENOENT, s} \subseteq Codes
  BY DEF Codes
<1> HIDE DEF s
<1>a. Return(d, 0) \/ Return(d, -1) \/ Return(d, ENOENT) \/ Return(d, s) => A
  BY <1>c
<1>b. Nothing(d) => Return(d, 0)
  BY DEF Nothing
<1>i. Iterate(d) => Return(d, 0) \/ Return(d, -1) \/ Return(d, ENOENT)
  BY DEF Iterate
<1>1. CASE chosen = "sqlite3" /\ SqlStep(d)
  <2>1. A
    BY <1>1, <1>a, <1>b DEF SqlStep, SqlThreadNew, SqlThreadDispose,
       SqlBeginTxn, SqlBeginOther, SqlDoneTxn, SqlDoneOther, SqlNextSet,
       SqlNextDelete, SqlNextGet, SqlNextIterate
  <2> QED  BY <1>1, <2>1, SqlAnswers
<1>2. CASE chosen = "vedisdb" /\ VedisStep(d)
  <2>1. A
    BY <1>2, <1>a, <1>b DEF VedisStep, VedisThreadNew, VedisThreadDispose,
       VedisBeginTxn, VedisBeginOther, VedisDoneTxn, VedisDoneOther,
       VedisNextSet, VedisNextDelete, VedisNextGet, VedisNextIterate, s
  <2> QED  BY <1>2, <2>1, VedisAnswers
<1>3. CASE chosen = "unqlite" /\ UnqStep(d)
  <2>1. A
    BY <1>3, <1>a, <1>b, <1>i DEF UnqStep, VedisThreadNew, UnqThreadDispose,
       VedisBeginTxn, UnqBeginIterate, UnqBeginSingle, UnqDoneTxn,
       UnqDoneIterate, UnqDoneSingle, VedisNextSet, UnqNextDelete,
       VedisNextGet, UnqNextIterate, s
  <2> QED  BY <1>3, <2>1, UnqAnswers
<1>4. CASE chosen = "iowow" /\ IowowStep(d)
  <2>1. A
    BY <1>4, <1>a, <1>b, <1>i DEF IowowStep, IowowThreadNew,
       IowowThreadDispose, IowowBeginIterate, IowowBeginOther,
       IowowDoneIterate, IowowDoneOther, IowowNextSet, IowowNextDelete,
       IowowNextGet, IowowNextIterate, s
  <2> QED  BY <1>4, <2>1, IowowAnswers
<1> QED  BY <1>1, <1>2, <1>3, <1>4 DEF DriverStep

----------------------------------------------------------------------------
(* What an answer makes of the doer that gets it. *)

(* The answer to a call of d, and nothing else that concerns the runner. *)
Answered(d, r) ==
    /\ IInv /\ handle # "closed" /\ Out(d, r) /\ UNCHANGED runner

(* An answer moves nobody, and changes no key. *)
LEMMA AnswerPlace ==
    ASSUME NEW d \in Doers, NEW r \in Codes, Answered(d, r)
    PROVE  /\ RunnerInv' /\ \A e \in Doers : e # d => SameFor(e)
           /\ call'[d].fn = "return" /\ call'[d].rc = r
           /\ pc' = pc /\ bench' = bench /\ q' = q /\ rc' = rc
           /\ begun' = begun /\ ignore' = ignore /\ job' = job
           /\ KeyA(d)' = KeyA(d) /\ KeyB(d)' = KeyB(d)
           /\ Written(d)' = Written(d)
           /\ \A n : PutsAfter(d, n)' = PutsAfter(d, n)
<1>1. RunnerInv /\ Return(d, r) /\ call[d].fn \in Functions /\ UNCHANGED runner
  BY DEF Answered, IInv, Out
<1>2. RunnerInv' /\ \A e \in Doers : e # d => SameFor(e)
  BY <1>1, AnswerKeeps
<1>3. call'[d].fn = "return" /\ call'[d].rc = r
  BY <1>1, OneAnswer
<1>4. /\ pc' = pc /\ bench' = bench /\ q' = q /\ rc' = rc /\ i' = i /\ j' = j
      /\ begun' = begun /\ ignore' = ignore /\ job' = job /\ serial' = serial
  BY <1>1 DEF runner
<1>5. \A g, n : KeyOf(d, g, n)' = KeyOf(d, g, n)
  BY <1>4 DEF KeyOf
<1>6. KeyA(d)' = KeyA(d) /\ KeyB(d)' = KeyB(d) /\ Batched(d)' = Batched(d)
  BY <1>4, <1>5 DEF KeyA, KeyB, Batched
<1>7. Written(d)' = Written(d) /\ Earlier(d)' = Earlier(d)
  BY <1>4, <1>6 DEF Written, Earlier
<1>8. \A n : PutsAfter(d, n)' = PutsAfter(d, n)
  BY <1>6, <1>7 DEF PutsAfter
<1> QED  BY <1>2, <1>3, <1>4, <1>6, <1>7, <1>8

(* A CRUD or a BATCH gets in with begin, stays in with next, and gets out  *)
(* with done; and failures doom it.                                        *)
LEMMA AnswerStatus ==
    ASSUME NEW d \in Doers, NEW r \in Codes, Answered(d, r)
    PROVE  LET fn == call[d].fn
               txn == bench[d] \in Quadruple
           IN /\ fn = "begin" /\ txn =>
                   /\ ~Within(d) /\ ~Doomed(d)
                   /\ Within(d)' <=> (r = 0 \/ bench[d] = "batch")
                   /\ Doomed(d)' <=> ~Within(d)'
              /\ fn = "next" /\ txn =>
                   /\ Within(d) /\ ~Doomed(d)
                   /\ Doomed(d)' <=>
                        (IF q[d] > 2 THEN Tolerated(r) ELSE r) # 0
                   /\ Within(d)' <=> ~Doomed(d)'
              /\ fn = "done" /\ txn =>
                   /\ Within(d) /\ ~Doomed(d)
                   /\ Doomed(d)' <=> r # 0
                   /\ ~Within(d)'
              /\ ~txn \/ fn \notin {"begin", "next", "done"} =>
                   (Doomed(d)' <=> Doomed(d)) /\ ~Within(d)' /\ ~Within(d)
<1>0. /\ call'[d].fn = "return" /\ call'[d].rc = r
      /\ pc' = pc /\ bench' = bench /\ q' = q /\ rc' = rc /\ ignore' = ignore
  BY AnswerPlace
<1>1. /\ RunnerInv /\ call[d].fn \in Functions
      /\ AnswerOK(d)
  BY DEF Answered, IInv, Out
<1>2. /\ call[d].fn = "thread_new" => pc[d] = "new"
      /\ call[d].fn = "begin" => pc[d] = "begin"
      /\ call[d].fn = "next" => pc[d] = "next"
      /\ call[d].fn = "done" => pc[d] = "done"
      /\ call[d].fn = "thread_dispose" => pc[d] = "dispose"
  BY <1>1, CallPlace
<1>3. \A c : Tolerated(c)' = Tolerated(c)
  BY <1>0 DEF Tolerated
<1>4. Outcome(d)' = IF q[d] > 2 THEN Tolerated(r) ELSE r
  BY <1>0, <1>3 DEF Outcome
<1>5. CASE bench[d] \notin Quadruple
  BY <1>0, <1>5 DEF Within, Doomed
<1>6. CASE bench[d] \in Quadruple /\ call[d].fn = "begin"
  BY <1>0, <1>2, <1>6 DEF Within, Doomed, Returned, Quadruple
<1>7. CASE bench[d] \in Quadruple /\ call[d].fn = "next"
  BY <1>0, <1>2, <1>4, <1>7 DEF Within, Doomed, Returned, Quadruple
<1>8. CASE bench[d] \in Quadruple /\ call[d].fn = "done"
  BY <1>0, <1>2, <1>8 DEF Within, Doomed, Returned, Quadruple
<1>9. CASE bench[d] \in Quadruple /\ call[d].fn = "thread_dispose"
  BY <1>0, <1>2, <1>9 DEF Within, Doomed, Returned, Quadruple
<1>10. CASE bench[d] \in Quadruple /\ call[d].fn = "thread_new"
  BY <1>1, <1>2, <1>10 DEF AnswerOK
<1> QED  BY <1>1, <1>5, <1>6, <1>7, <1>8, <1>9, <1>10 DEF Functions

(* The doers, after an answer: the others are where they were, and the one *)
(* that was in a transaction still is, or is doomed, unless it committed.  *)
LEMMA AnswerAll ==
    ASSUME NEW d \in Doers, NEW r \in Codes, Answered(d, r)
    PROVE  /\ \A e \in Doers \ {d} :
                /\ (Doomed(e)' <=> Doomed(e)) /\ (Within(e)' <=> Within(e))
                /\ PutsOf(e)' = PutsOf(e) /\ DelsOf(e)' = DelsOf(e)
                /\ (Missed(e)' <=> Missed(e))
           /\ Doomed(d) => Doomed(d)'
           /\ Within(d) => \/ Within(d)' \/ Doomed(d)'
                           \/ /\ call[d].fn = "done" /\ r = 0
                              /\ bench[d] \in Quadruple
                              /\ call[d].step \in Quadruple
           /\ SomeDoomed => SomeDoomed'
<1>1. \A e \in Doers \ {d} : SameFor(e)
  BY AnswerPlace
<1>2. \A e \in Doers \ {d} :
         /\ (Doomed(e)' <=> Doomed(e)) /\ (Within(e)' <=> Within(e))
         /\ PutsOf(e)' = PutsOf(e) /\ DelsOf(e)' = DelsOf(e)
         /\ (Missed(e)' <=> Missed(e))
  BY <1>1, SameStatus
<1>3. RunnerInv /\ call[d].fn \in Functions
  BY DEF Answered, IInv, Out
<1>4. call[d].fn = "done" => call[d].step = bench[d]
  BY <1>3, CallPlace
<1>5. Doomed(d) => Doomed(d)'
  BY <1>3, AnswerStatus DEF Functions
<1>6. Within(d) => \/ Within(d)' \/ Doomed(d)'
                   \/ /\ call[d].fn = "done" /\ r = 0
                      /\ bench[d] \in Quadruple
  BY <1>3, AnswerStatus DEF Functions
<1>7. SomeDoomed => SomeDoomed'
  BY <1>2, <1>5 DEF SomeDoomed
<1> QED  BY <1>2, <1>4, <1>5, <1>6, <1>7

(* What is at risk remains so, and what is undone was at risk. *)
LEMMA AnswerRisk ==
    ASSUME NEW d \in Doers, NEW r \in Codes, Answered(d, r), chosen' = chosen
    PROVE  /\ Risk => Risk'
           /\ Undone(d, r) => data' = data \/ Risk'
<1>0. /\ TxnInv /\ open \in BOOLEAN
      /\ handle' = "dangling" => chosen = "sqlite3"
  BY DEF Answered, IInv, HandleType, TxnInv, Out
<1>1. /\ SomeDoomed => SomeDoomed'
      /\ \A e \in Doers \ {d} : Within(e) => Within(e)'
      /\ Within(d) => \/ Within(d)' \/ Doomed(d)'
                      \/ /\ call[d].fn = "done" /\ r = 0
                         /\ call[d].step \in Quadruple
  BY AnswerAll
<1>2. SomeWithin /\ handle' = "dangling"
      /\ ~(call[d].fn = "done" /\ r = 0 /\ call[d].step \in Quadruple) => Risk'
  BY <1>1 DEF Risk, SomeWithin, SomeDoomed
<1>3. handle = "dangling" =>
        /\ handle' = "dangling"
        /\ ~(call[d].fn = "done" /\ r = 0 /\ call[d].step \in Quadruple)
  <2> SUFFICES ASSUME handle = "dangling"
               PROVE  /\ handle' = "dangling"
                      /\ ~(/\ call[d].fn = "done" /\ r = 0
                           /\ call[d].step \in Quadruple)
    OBVIOUS
  <2>1. SqlOut(d, r)
    BY <1>0 DEF TxnInv, Answered, Out
  <2> QED  BY <2>1 DEF SqlOut
<1>4. Risk => Risk'
  BY <1>1, <1>2, <1>3 DEF Risk
<1>5. ASSUME Undone(d, r) PROVE data' = data \/ Risk'
  <2>1. CASE chosen = "sqlite3" /\ handle' = "dangling" /\ data' = saved
    <3>1. data' = data \/ SomeWithin \/ SomeDoomed
      BY <1>0, <2>1 DEF TxnInv
    <3>2. r # 0
      BY <1>5 DEF Undone
    <3> QED  BY <1>1, <1>2, <2>1, <3>1, <3>2 DEF Risk
  <2>2. CASE call[d].fn = "done" /\ call[d].step \in Quadruple /\ r = -1
    <3>1. RunnerInv
      BY DEF Answered, IInv
    <3>2. bench[d] \in Quadruple
      BY <2>2, <3>1, CallPlace
    <3>3. Doomed(d)'
      BY <2>2, <3>2, AnswerStatus
    <3> QED  BY <3>3 DEF Risk, SomeDoomed
  <2> QED  BY <1>5, <2>1, <2>2 DEF Undone
<1> QED  BY <1>4, <1>5

(* Answers keep TxnInv: a transaction keeps somebody in it, and after a    *)
(* BEGIN that was refused there remains one doer too many.                 *)
LEMMA AnswerTxn ==
    ASSUME NEW d \in Doers, NEW r \in Codes, Answered(d, r), chosen' = chosen
    PROVE  TxnInv'
<1>0. /\ TxnInv /\ open \in BOOLEAN /\ open' \in BOOLEAN /\ DataOut(d, r)
      /\ RunnerInv /\ call[d].fn \in Functions
      /\ chosen = "iowow" => ~open'
      /\ chosen = "sqlite3" => SqlOut(d, r)
      /\ chosen # "sqlite3" => handle' = handle
  BY DEF Answered, IInv, HandleType, Out
<1>1. /\ SomeDoomed => SomeDoomed'
      /\ \A e \in Doers \ {d} : /\ Within(e) => Within(e)'
                                /\ Missed(e)' => Missed(e)
      /\ Within(d) => \/ Within(d)' \/ Doomed(d)'
                      \/ /\ call[d].fn = "done" /\ r = 0
                         /\ call[d].step \in Quadruple
  BY AnswerAll
<1>b. /\ call[d].fn = "begin" => call[d].step = bench[d]
      /\ call[d].fn = "done" => call[d].step = bench[d]
  BY <1>0, CallPlace
<1>2. ~open' => saved' = data'
  BY <1>0 DEF DataOut
<1>3. ASSUME handle' = "dangling" PROVE chosen = "sqlite3" /\ ~open'
  <2>1. chosen = "sqlite3"
    BY <1>0, <1>3 DEF TxnInv
  <2> QED  BY <1>0, <1>3, <2>1 DEF SqlOut
<1>4. ASSUME chosen = "sqlite3", open' PROVE SomeWithin' \/ SomeDoomed'
  <2>1. SqlOut(d, r) /\ handle' # "dangling"
    BY <1>0, <1>3, <1>4
  <2>2. \/ open
        \/ call[d].fn = "begin" /\ call[d].step \in Quadruple /\ r = 0
    BY <1>0, <1>4, <2>1 DEF SqlOut
  <2>3. ~(call[d].fn = "done" /\ r = 0 /\ call[d].step \in Quadruple)
    BY <1>4, <2>1 DEF SqlOut
  <2>4. CASE open
    <3>1. SomeWithin \/ SomeDoomed
      BY <1>0, <1>4, <2>4 DEF TxnInv
    <3> QED  BY <1>1, <2>3, <3>1 DEF SomeWithin, SomeDoomed
  <2>5. CASE call[d].fn = "begin" /\ call[d].step \in Quadruple /\ r = 0
    <3>1. Within(d)'
      BY <1>b, <2>5, AnswerStatus
    <3> QED  BY <3>1 DEF SomeWithin
  <2> QED  BY <2>2, <2>4, <2>5
<1>5. ASSUME chosen = "sqlite3", NEW m \in Doers, Missed(m)'
      PROVE  Excess' \/ SomeDoomed'
  <2>1. SqlOut(d, r)
    BY <1>0, <1>5
  <2>2. /\ call[d].fn = "done" /\ r = 0 /\ call[d].step \in Quadruple =>
             open /\ ~open'
        /\ \/ open' = open \/ ~open'
           \/ /\ call[d].fn = "begin" /\ call[d].step \in Quadruple
              /\ r = 0
    BY <1>0, <2>1 DEF SqlOut
  <2>3. ASSUME NEW e \in Doers, Within(e), ~open
        PROVE  Excess' \/ SomeDoomed'
    <3>1. CASE e = d
      <4>1. call[d].fn # "begin" \/ call[d].step \notin Quadruple
        BY <1>b, <2>3, <3>1, AnswerStatus
      <4>2. ~open'
        BY <2>2, <2>3, <4>1
      <4> QED  BY <1>1, <2>2, <2>3, <3>1, <4>2
               DEF Excess, SomeWithin, SomeDoomed
    <3>2. CASE e # d
      <4>1. Within(e)'
        BY <1>1, <2>3, <3>2
      <4>2. ~open' \/ Within(d)'
        BY <1>b, <2>2, <2>3, AnswerStatus
      <4> QED  BY <3>2, <4>1, <4>2 DEF Excess, SomeWithin
    <3> QED  BY <3>1, <3>2
  <2>4. ASSUME NEW e \in Doers, NEW f \in Doers, e # f, Within(e), Within(f)
        PROVE  Excess' \/ SomeDoomed'
    <3>1. CASE e # d /\ f # d
      BY <1>1, <2>4, <3>1 DEF Excess
    <3>2. ASSUME NEW g \in Doers, g # d, Within(g), Within(d)
          PROVE  Excess' \/ SomeDoomed'
      <4>1. Within(g)'
        BY <1>1, <3>2
      <4>2. Within(d)' \/ Doomed(d)' \/ ~open'
        BY <1>1, <2>2, <3>2
      <4> QED  BY <3>2, <4>1, <4>2 DEF Excess, SomeWithin, SomeDoomed
    <3> QED  BY <2>4, <3>1, <3>2
  <2>5. CASE \E e \in Doers : Missed(e)
    <3>1. Excess \/ SomeDoomed
      BY <1>0, <1>5, <2>5 DEF TxnInv
    <3> QED  BY <1>1, <2>3, <2>4, <3>1 DEF Excess, SomeWithin
  <2>6. CASE ~\E e \in Doers : Missed(e)
    <3>1. m = d
      BY <1>1, <1>5, <2>6
    <3>2. /\ call'[d].fn = "return" /\ call'[d].rc = r /\ pc' = pc
          /\ begun' = begun
      BY AnswerPlace
    <3>3. pc[d] = "begin" /\ r # 0
      BY <1>5, <2>6, <3>1, <3>2 DEF Missed, Returned
    <3>4. call[d].fn = "begin"
      BY <1>0, <3>3, CallPlace DEF Functions
    <3>5. bench[d] \in Quadruple
      BY <1>b, <2>1, <3>3, <3>4 DEF SqlOut
    <3>6. CASE Doomed(d)'
      BY <3>6 DEF SomeDoomed
    <3>7. CASE Within(d)'
      <4>1. CASE ~open'
        BY <3>7, <4>1 DEF Excess, SomeWithin
      <4>2. CASE open'
        <5>1. open
          BY <2>2, <3>3, <4>2
        <5>2. SomeWithin \/ SomeDoomed
          BY <1>0, <1>5, <5>1 DEF TxnInv
        <5>3. ~Within(d)
          BY <3>4, <3>5, AnswerStatus
        <5> QED  BY <1>1, <3>7, <5>2, <5>3 DEF Excess, SomeWithin
      <4> QED  BY <4>1, <4>2
    <3> QED  BY <3>4, <3>5, <3>6, <3>7, AnswerStatus
  <2> QED  BY <2>5, <2>6
<1> QED  BY <1>0, <1>2, <1>3, <1>4, <1>5 DEF TxnInv

(* What the one that gets the answer has put and deleted. *)
LEMMA AnswerSets ==
    ASSUME NEW d \in Doers, NEW r \in Codes, Answered(d, r)
    PROVE  LET next == call[d].fn = "next"
               txn == bench[d] \in Quadruple
           IN /\ next /\ bench[d] = "set" =>
                   /\ PutsOf(d) = {} /\ DelsOf(d) = {} /\ DelsOf(d)' = {}
                   /\ PutsOf(d)' = IF r = 0 THEN {KeyA(d)} ELSE {}
              /\ next /\ bench[d] = "delete" =>
                   /\ PutsOf(d) = {} /\ DelsOf(d) = {} /\ PutsOf(d)' = {}
                   /\ DelsOf(d)' = IF r = 0 THEN {KeyA(d)} ELSE {}
              /\ next /\ txn =>
                   /\ PutsOf(d) = PutsAfter(d, q[d] - 1)
                   /\ PutsOf(d)' = IF Doomed(d)' THEN {}
                                   ELSE PutsAfter(d, q[d])
                   /\ DelsOf(d) = {} /\ DelsOf(d)' = {}
              /\ ~(next /\ (txn \/ bench[d] \in {"set", "delete"})) =>
                   /\ PutsOf(d)' = IF Doomed(d)' THEN {} ELSE PutsOf(d)
                   /\ DelsOf(d)' = DelsOf(d)
<1>0. /\ call'[d].fn = "return" /\ call'[d].rc = r
      /\ pc' = pc /\ bench' = bench /\ q' = q /\ rc' = rc
      /\ KeyA(d)' = KeyA(d) /\ Written(d)' = Written(d)
      /\ \A n : PutsAfter(d, n)' = PutsAfter(d, n)
  BY AnswerPlace
<1>1. RunnerInv /\ call[d].fn \in Functions /\ bench[d] \in Steps
  BY DEF Answered, IInv, Out, RunnerInv, RunnerType
<1>2. /\ call[d].fn = "thread_new" => pc[d] = "new"
      /\ call[d].fn = "begin" => pc[d] = "begin"
      /\ call[d].fn = "next" => pc[d] = "next"
      /\ call[d].fn = "done" => pc[d] = "done"
      /\ call[d].fn = "thread_dispose" => pc[d] = "dispose"
  BY <1>1, CallPlace
<1>a. /\ call[d].fn = "next" => ~Applied(d) /\ (Applied(d)' <=> r = 0)
      /\ call[d].fn = "done" => (Applied(d)' <=> Applied(d))
      /\ call[d].fn \notin {"next", "done"} => ~Applied(d) /\ ~Applied(d)'
  BY <1>0, <1>1, <1>2 DEF Applied, Returned, Functions
<1>b. /\ bench[d] \notin Quadruple => ~Doomed(d)
      /\ bench[d] \notin Quadruple => ~Doomed(d)'
  BY <1>0 DEF Doomed
<1>3. CASE bench[d] = "set"
  BY <1>0, <1>a, <1>b, <1>3 DEF PutsOf, DelsOf, Quadruple
<1>4. CASE bench[d] = "delete"
  BY <1>0, <1>a, <1>b, <1>4 DEF PutsOf, DelsOf, Quadruple
<1>5. CASE bench[d] \in {"get", "iterate"}
  BY <1>0, <1>b, <1>5 DEF PutsOf, DelsOf, Quadruple
<1>6. CASE bench[d] \in Quadruple
  <2>1. DelsOf(d) = {} /\ DelsOf(d)' = {} /\ bench[d] \notin {"set", "delete"}
    BY <1>0, <1>6 DEF DelsOf, Quadruple
  <2>2. CASE call[d].fn = "next"
    <3>1. ~Doomed(d)
      BY <1>6, <2>2, AnswerStatus
    <3>2. PutsOf(d) = PutsAfter(d, q[d] - 1)
      BY <1>2, <1>6, <2>1, <2>2, <3>1 DEF PutsOf
    <3>3. PutsOf(d)' = IF Doomed(d)' THEN {} ELSE PutsAfter(d, q[d])
      BY <1>0, <1>2, <1>6, <2>1, <2>2 DEF PutsOf
    <3> QED  BY <1>6, <2>1, <2>2, <3>2, <3>3
  <2>3. CASE call[d].fn # "next"
    <3>1. pc[d] # "next"
      BY <1>1, <1>2, <2>3 DEF Functions
    <3>2. PutsOf(d) = IF Doomed(d) THEN {}
                      ELSE IF pc[d] = "done" THEN Written(d) ELSE {}
      BY <1>6, <2>1, <3>1 DEF PutsOf
    <3>3. PutsOf(d)' = IF Doomed(d)' THEN {}
                       ELSE IF pc[d] = "done" THEN Written(d) ELSE {}
      BY <1>0, <1>6, <2>1, <3>1 DEF PutsOf
    <3>4. Doomed(d) => Doomed(d)'
      BY AnswerAll
    <3> QED  BY <1>6, <2>1, <2>3, <3>2, <3>3, <3>4
  <2> QED  BY <2>2, <2>3
<1> QED  BY <1>1, <1>3, <1>4, <1>5, <1>6 DEF Steps, Quadruple

(* Benchmarks write to key spaces of their own. *)
LEMMA PutsSpace ==
    ASSUME RunnerInv, NEW e \in Doers, NEW k \in PutsOf(e) \cup DelsOf(e)
    PROVE  k[1] \in WriteSpaces(job[e])
<1>1. pc[e] \in {"next", "done"} /\ bench[e] \in Writes
  BY DEF PutsOf, DelsOf, Applied, Returned, Writes
<1>2. /\ job[e].space \in WriteSpaces(job[e])
      /\ bench[e] \in Quadruple => job[e].space + 1 \in WriteSpaces(job[e])
  BY <1>1, OwnSpaces
<1>3. /\ KeyA(e)[1] = job[e].space /\ KeyB(e)[1] = job[e].space + 1
      /\ \A x \in Earlier(e) \cup Written(e) : x[1] = job[e].space
  BY KeySets
<1>4. k = KeyA(e) \/ k \in Earlier(e) \cup Written(e)
      \/ (bench[e] \in Quadruple /\ k = KeyB(e))
  BY DEF PutsOf, DelsOf, PutsAfter
<1> QED  BY <1>2, <1>3, <1>4

(* A key that d writes is not one of another's. *)
LEMMA NotTheirs ==
    ASSUME RunnerInv, NEW d \in Doers, call[d].fn = "next",
           bench[d] \in Writes, NEW e \in Doers, e # d
    PROVE  /\ KeyA(d) \notin PutsOf(e) /\ KeyA(d) \notin DelsOf(e)
           /\ bench[d] \in Quadruple =>
                KeyB(d) \notin PutsOf(e) /\ KeyB(d) \notin DelsOf(e)
<1>1. pc[d] = "next"
  BY CallPlace
<1>2. /\ job[d].space \in WriteSpaces(job[d])
      /\ bench[d] \in Quadruple => job[d].space + 1 \in WriteSpaces(job[d])
  BY <1>1, OwnSpaces
<1>3. KeyA(d)[1] = job[d].space /\ KeyB(d)[1] = job[d].space + 1
  BY KeySets
<1>4. WriteSpaces(job[d]) \cap WriteSpaces(job[e]) = {}
  BY SpacesAssumption DEF RunnerInv, RunnerType
<1>5. \A k \in PutsOf(e) \cup DelsOf(e) : k[1] \in WriteSpaces(job[e])
  BY PutsSpace
<1> QED  BY <1>2, <1>3, <1>4, <1>5

(* Nobody was told of a second key. *)
LEMMA SecondUntold ==
    ASSUME RunnerInv, ToldInv, NEW d \in Doers, call[d].fn = "next",
           bench[d] \in Quadruple
    PROVE  KeyB(d) \notin told
<1>1. bench[d] \in job[d].mask
  BY CallPlace DEF RunnerInv, RunnerOK, CountOK
<1>2. job[d].mask \cap Quadruple # {} /\ job[d].mask \cap Writes # {}
  BY <1>1 DEF Writes
<1>3. KeyB(d)[1] = job[d].space + 1 /\ job[d].space \in Nat
  BY KeySets, JobFacts DEF RunnerInv, RunnerType
<1>4. \A e \in Doers :
        job[e].mask \cap Writes # {} => job[d].space + 1 # job[e].space
  BY <1>2, <1>3, SpacesApart DEF RunnerInv, RunnerType
<1> QED  BY <1>3, <1>4 DEF ToldInv

(* Keys of one doer come or go: by the keys only. *)
LEMMA KeepsByStep ==
    ASSUME NEW d \in Doers, Keeps, told' = told,
           \A e \in Doers \ {d} :
               PutsOf(e)' = PutsOf(e) /\ DelsOf(e)' = DelsOf(e),
           \A e \in Doers \ {d} : PutsOf(e) \subseteq data',
           PutsOf(d)' \subseteq data',
           DelsOf(d) \subseteq DelsOf(d)',
           \A k \in told : k \in data => k \in data' \/ k \in DelsOf(d)'
    PROVE  Keeps'
<1>1. \A e \in Doers : PutsOf(e)' \subseteq data'
  OBVIOUS
<1>2. ASSUME NEW k \in told, k \notin data'
      PROVE  \E e \in Doers : k \in DelsOf(e)'
  <2>1. CASE k \in data
    BY <1>2, <2>1
  <2>2. CASE k \notin data
    <3>1. PICK e \in Doers : k \in DelsOf(e)
      BY <2>2 DEF Keeps
    <3> QED  BY <3>1
  <2> QED  BY <2>1, <2>2
<1> QED  BY <1>1, <1>2 DEF Keeps

(* The same for Matches. *)
LEMMA MatchesByStep ==
    ASSUME NEW d \in Doers, Matches, told' = told,
           \A e \in Doers \ {d} :
               PutsOf(e)' = PutsOf(e) /\ DelsOf(e)' = DelsOf(e),
           \A e \in Doers \ {d} : DelsOf(e) \cap data' \subseteq data,
           DelsOf(d)' \cap data' = {},
           \A k \in PutsOf(d) : k \in PutsOf(d)' \/ k \notin data',
           \A k \in data' : k \in data \/ k \in PutsOf(d)'
    PROVE  Matches'
<1>1. ASSUME NEW e \in Doers PROVE DelsOf(e)' \cap data' = {}
  <2>1. CASE e = d
    BY <2>1
  <2>2. CASE e # d
    <3>1. DelsOf(e)' = DelsOf(e) /\ DelsOf(e) \cap data = {}
      BY <2>2 DEF Matches
    <3>2. DelsOf(e) \cap data' \subseteq data
      BY <2>2
    <3> QED  BY <3>1, <3>2
  <2> QED  BY <2>1, <2>2
<1>2. ASSUME NEW k \in data', k \notin told
      PROVE  \E e \in Doers : k \in PutsOf(e)'
  <2>1. CASE k \in PutsOf(d)'
    BY <2>1
  <2>2. CASE k \in data
    <3>1. PICK e \in Doers : k \in PutsOf(e)
      BY <1>2, <2>2 DEF Matches
    <3>2. CASE e = d
      BY <1>2, <3>1, <3>2
    <3>3. CASE e # d
      BY <3>1, <3>3
    <3> QED  BY <3>2, <3>3
  <2> QED  BY <2>1, <2>2
<1> QED  BY <1>1, <1>2 DEF Matches

(* Answers keep KeysInv: what next puts or deletes is what the doer is     *)
(* credited with, and nothing of the others.                               *)
LEMMA AnswerKeys ==
    ASSUME NEW d \in Doers, NEW r \in Codes, Answered(d, r), chosen' = chosen,
           told' = told
    PROVE  KeysInv'
<1>0. /\ RunnerInv /\ KeysInv /\ ToldInv /\ DataOut(d, r)
      /\ bench[d] \in Steps /\ q[d] \in 1 .. 4 /\ call[d].fn \in Functions
  BY DEF Answered, IInv, Out, RunnerInv, RunnerType
<1>1. \A e \in Doers \ {d} :
         PutsOf(e)' = PutsOf(e) /\ DelsOf(e)' = DelsOf(e)
  BY AnswerAll
<1>2. Risk => Risk'
  BY AnswerRisk
<1>d. Doomed(d)' => Risk'
  BY DEF Risk, SomeDoomed
<1>3. CASE Changes(d, r)
  <2>1. /\ call[d].fn = "next" /\ call[d].step \in {"set", "delete"}
        /\ r = 0
    BY <1>3 DEF Changes
  <2>2. /\ pc[d] = "next"
        /\ bench[d] \in Single => call[d].step = bench[d]
        /\ bench[d] = "iterate" => call[d].step = "iterate"
        /\ bench[d] \in Quadruple =>
             /\ q[d] \in {1, 2} <=> call[d].step = "set"
             /\ q[d] = 3 <=> call[d].step = "delete"
             /\ q[d] = 4 <=> call[d].step = "get"
        /\ bench[d] \in Single => call[d].key = KeyA(d)
        /\ bench[d] \in Quadruple /\ q[d] \in {1, 3} => call[d].key = KeyB(d)
        /\ bench[d] \in Quadruple /\ q[d] \in {2, 4} => call[d].key = KeyA(d)
    BY <1>0, <2>1, CallPlace DEF KeyA, KeyB
  <2>3. bench[d] \in {"set", "delete"} \cup Quadruple
    BY <1>0, <2>1, <2>2 DEF Steps, Single, Quadruple
  <2>4. \A e \in Doers \ {d} :
          /\ KeyA(d) \notin PutsOf(e) /\ KeyA(d) \notin DelsOf(e)
          /\ bench[d] \in Quadruple =>
               KeyB(d) \notin PutsOf(e) /\ KeyB(d) \notin DelsOf(e)
    BY <1>0, <2>1, <2>3, NotTheirs DEF Writes
  <2>k. \A e \in Doers \ {d} :
          call[d].key \notin PutsOf(e) /\ call[d].key \notin DelsOf(e)
    BY <1>0, <2>2, <2>3, <2>4 DEF Single
  <2>5. bench[d] \in Quadruple => ~Doomed(d)'
    <3>1. (IF q[d] > 2 THEN Tolerated(r) ELSE r) = 0
      BY <2>1 DEF Tolerated, ENOENT
    <3> QED  BY <2>1, <3>1, AnswerStatus
  <2>6. CASE call[d].step = "set"
    <3>1. data' = data \cup {call[d].key}
      BY <1>0, <2>1, <2>6 DEF DataOut
    <3>2. /\ PutsOf(d)' = PutsOf(d) \cup {call[d].key}
          /\ DelsOf(d) = {} /\ DelsOf(d)' = {}
      <4>1. CASE bench[d] = "set"
        BY <2>1, <2>2, <4>1, AnswerSets DEF Single
      <4>2. CASE bench[d] \in Quadruple
        <5>1. /\ PutsOf(d) = PutsAfter(d, q[d] - 1)
              /\ PutsOf(d)' = PutsAfter(d, q[d])
              /\ DelsOf(d) = {} /\ DelsOf(d)' = {}
          BY <2>1, <2>5, <4>2, AnswerSets
        <5>2. /\ PutsAfter(d, 1) = PutsAfter(d, 0) \cup {KeyB(d)}
              /\ PutsAfter(d, 2) = PutsAfter(d, 1) \cup {KeyA(d)}
          BY <1>0, QuadrupleSets
        <5>3. CASE q[d] = 1
          <6>1. q[d] - 1 = 0
            BY <5>3
          <6> QED  BY <2>2, <4>2, <5>1, <5>2, <5>3, <6>1
        <5>4. CASE q[d] = 2
          <6>1. q[d] - 1 = 1
            BY <5>4
          <6> QED  BY <2>2, <4>2, <5>1, <5>2, <5>4, <6>1
        <5> QED  BY <2>2, <2>6, <4>2, <5>3, <5>4
      <4> QED  BY <2>2, <2>3, <2>6, <4>1, <4>2 DEF Single
    <3>3. Keeps => Keeps'
      <4> HAVE Keeps
      <4>1. \A e \in Doers : PutsOf(e) \subseteq data
        BY DEF Keeps
      <4> QED  BY <1>1, <3>1, <3>2, <4>1, KeepsByStep
    <3>4. Matches => Matches'
      BY <1>1, <2>k, <3>1, <3>2, MatchesByStep
    <3> QED  BY <1>0, <1>2, <3>3, <3>4 DEF KeysInv
  <2>7. CASE call[d].step = "delete"
    <3>1. data' = data \ {call[d].key}
      BY <1>0, <2>1, <2>7 DEF DataOut
    <3>2. /\ \/ DelsOf(d)' = {call[d].key}
             \/ DelsOf(d)' = {} /\ call[d].key \notin told
          /\ DelsOf(d) = {} /\ PutsOf(d)' = PutsOf(d) \ {call[d].key}
      <4>1. CASE bench[d] = "delete"
        BY <2>1, <2>2, <4>1, AnswerSets DEF Single
      <4>2. CASE bench[d] \in Quadruple
        <5>1. q[d] = 3 /\ call[d].key = KeyB(d)
          BY <2>2, <2>7, <4>2
        <5>2. q[d] - 1 = 2
          BY <5>1
        <5>3. /\ PutsOf(d) = PutsAfter(d, q[d] - 1)
              /\ PutsOf(d)' = PutsAfter(d, q[d])
              /\ DelsOf(d) = {} /\ DelsOf(d)' = {}
          BY <2>1, <2>5, <4>2, AnswerSets
        <5>4. PutsAfter(d, 3) = PutsAfter(d, 2) \ {KeyB(d)}
          BY <1>0, QuadrupleSets
        <5>5. KeyB(d) \notin told
          BY <1>0, <2>1, <4>2, SecondUntold
        <5> QED  BY <5>1, <5>2, <5>3, <5>4, <5>5
      <4> QED  BY <2>2, <2>3, <2>7, <4>1, <4>2 DEF Single
    <3>3. Keeps => Keeps'
      <4> HAVE Keeps
      <4>1. \A e \in Doers : PutsOf(e) \subseteq data
        BY DEF Keeps
      <4> QED  BY <1>1, <2>k, <3>1, <3>2, <4>1, KeepsByStep
    <3>4. Matches => Matches'
      BY <1>1, <3>1, <3>2, MatchesByStep
    <3> QED  BY <1>0, <1>2, <3>3, <3>4 DEF KeysInv
  <2> QED  BY <2>1, <2>6, <2>7
<1>4. CASE ~Changes(d, r)
  <2>1. data' = data \/ (Risk' /\ chosen \in {"sqlite3", "vedisdb"})
    <3>1. data' = data \/ Undone(d, r)
      BY <1>0, <1>4 DEF DataOut
    <3> QED  BY <3>1, AnswerRisk DEF Undone
  <2>2. DelsOf(d)' = DelsOf(d)
    <3>1. call[d].fn = "next" /\ bench[d] = "delete" => r # 0
      BY <1>0, <1>4, CallPlace DEF Changes, Single
    <3> QED  BY <1>0, <3>1, AnswerSets
  <2>3. /\ PutsOf(d)' \subseteq PutsOf(d)
        /\ ~Risk' /\ Keeps => PutsOf(d)' = PutsOf(d)
    <3>1. CASE ~(/\ call[d].fn = "next"
                 /\ bench[d] \in {"set", "delete"} \cup Quadruple)
      BY <1>d, <3>1, AnswerSets
    <3>2. CASE call[d].fn = "next" /\ bench[d] \in {"set", "delete"}
      <4>1. bench[d] = "set" => r # 0
        BY <1>0, <1>4, <3>2, CallPlace DEF Changes, Single
      <4> QED  BY <3>2, <4>1, AnswerSets
    <3>3. CASE call[d].fn = "next" /\ bench[d] \in Quadruple
      <4>1. /\ PutsOf(d) = PutsAfter(d, q[d] - 1)
            /\ PutsOf(d)' = IF Doomed(d)' THEN {} ELSE PutsAfter(d, q[d])
        BY <3>3, AnswerSets
      <4>2. CASE Doomed(d)'
        BY <1>d, <4>1, <4>2
      <4>3. CASE ~Doomed(d)'
        <5>1. (IF q[d] > 2 THEN Tolerated(r) ELSE r) = 0
          BY <3>3, <4>3, AnswerStatus
        <5>2. /\ q[d] \in {1, 2} <=> call[d].step = "set"
              /\ q[d] = 3 <=> call[d].step = "delete"
              /\ q[d] = 3 => call[d].key = KeyB(d)
          BY <1>0, <3>3, CallPlace DEF KeyB
        <5>3. q[d] \notin {1, 2}
          BY <1>0, <1>4, <3>3, <5>1, <5>2 DEF Changes
        <5>4. /\ PutsAfter(d, 3) = PutsAfter(d, 2) \ {KeyB(d)}
              /\ PutsAfter(d, 4) = PutsAfter(d, 3)
              /\ KeyB(d) \in PutsAfter(d, 2)
          BY <1>0, QuadrupleSets
        <5>5. CASE q[d] = 3
          <6>1. q[d] - 1 = 2
            BY <5>5
          <6>2. r = ENOENT
            BY <1>4, <3>3, <5>1, <5>2, <5>5 DEF Changes, Tolerated
          <6>3. KeyB(d) \notin data
            BY <1>0, <3>3, <5>2, <5>5, <6>2 DEF DataOut
          <6>4. ~Keeps
            BY <4>1, <5>4, <6>1, <6>3 DEF Keeps
          <6> QED  BY <4>1, <4>3, <5>4, <5>5, <6>1, <6>4
        <5>6. CASE q[d] = 4
          <6>1. q[d] - 1 = 3
            BY <5>6
          <6> QED  BY <4>1, <4>3, <5>4, <5>6, <6>1
        <5> QED  BY <1>0, <5>3, <5>5, <5>6
      <4> QED  BY <4>2, <4>3
    <3> QED  BY <3>1, <3>2, <3>3
  <2>4. Keeps /\ data' = data => Keeps'
    <3> HAVE Keeps /\ data' = data
    <3>1. \A e \in Doers : PutsOf(e) \subseteq data
      BY DEF Keeps
    <3> QED  BY <1>1, <2>2, <2>3, <3>1, KeepsByStep
  <2>5. Matches /\ Keeps /\ data' = data /\ ~Risk' => Matches'
    <3> HAVE Matches /\ Keeps /\ data' = data /\ ~Risk'
    <3>1. DelsOf(d) \cap data = {}
      BY DEF Matches
    <3> QED  BY <1>1, <2>2, <2>3, <3>1, MatchesByStep
  <2> QED  BY <1>0, <1>2, <2>1, <2>4, <2>5 DEF KeysInv
<1> QED  BY <1>3, <1>4

(* Answers keep what is known of cursors and of answers. *)
LEMMA AnswerCursor ==
    ASSUME NEW d \in Doers, NEW r \in Codes, Answered(d, r), chosen' = chosen,
           NEW e \in Doers
    PROVE  CursorOK(e)' /\ AnswerOK(e)'
<1>0. /\ RunnerInv /\ call[d].fn \in Functions /\ CursorOut(d) /\ DataOut(d, r)
      /\ chosen = "sqlite3" => SqlOut(d, r)
      /\ CursorOK(e) /\ AnswerOK(e) /\ chosen \in Drivers
  BY DEF Answered, IInv, Out, HandleType
<1>1. /\ call'[d].fn = "return" /\ call'[d].rc = r
      /\ pc' = pc /\ bench' = bench /\ rc' = rc
  BY AnswerPlace
<1>2. /\ call[d].fn = "thread_new" => pc[d] = "new"
      /\ call[d].fn = "begin" => pc[d] = "begin" /\ call[d].step = bench[d]
      /\ call[d].fn = "next" => pc[d] = "next"
      /\ call[d].fn = "done" => pc[d] = "done" /\ call[d].step = bench[d]
      /\ call[d].fn = "thread_dispose" => pc[d] = "dispose"
      /\ call[d].fn = "next" /\ bench[d] \in Single => call[d].step = bench[d]
      /\ call[d].fn = "next" /\ bench[d] \in Quadruple =>
           call[d].step \in {"set", "delete", "get"}
  <2>1. q[d] \in 1 .. 4
    BY <1>0 DEF RunnerInv, RunnerType
  <2> QED  BY <1>0, <2>1, CallPlace
<1>3. CASE e # d
  <2>1. SameFor(e) /\ cursor'[e] = cursor[e]
    BY <1>0, <1>3, AnswerPlace DEF CursorOut
  <2>2. UNCHANGED <<pc[e], bench[e], rc[e], call[e]>>
    BY <2>1 DEF SameFor
  <2> QED  BY <1>0, <2>1, <2>2 DEF CursorOK, AnswerOK, Returned
<1>4. CASE e = d
  <2>1. AnswerOK(d)'
    <3>1. pc[d] = "new" => bench[d] \notin Quadruple
      BY <1>0, <1>4 DEF AnswerOK
    <3>2. pc[d] = "done" => call[d].fn = "done"
      BY <1>0, <1>2 DEF Functions
    <3>3. pc[d] = "begin" => call[d].fn = "begin"
      BY <1>0, <1>2 DEF Functions
    <3>4. pc[d] = "done" /\ bench[d] \in Single => r = 0
      BY <1>0, <1>2, <3>2 DEF DataOut
    <3>5. pc[d] = "begin" /\ chosen = "sqlite3" /\ bench[d] \notin Quadruple
            => r = 0
      BY <1>0, <1>2, <3>3 DEF SqlOut
    <3> QED  BY <1>1, <3>1, <3>4, <3>5 DEF AnswerOK, Returned
  <2>2. CursorOK(d)'
    <3>1. CASE chosen \in {"sqlite3", "vedisdb"}
      <4>1. cursor' = cursor
        BY <1>0, <3>1 DEF CursorOut
      <4> QED  BY <1>0, <1>4, <3>1, <4>1 DEF CursorOK
    <3>2. CASE chosen = "unqlite"
      <4>1. /\ call[d].fn = "thread_new" => cursor'[d] = cursor[d]
            /\ call[d].fn = "thread_dispose" => cursor'[d] = NoCursor
        BY <1>0, <3>2 DEF CursorOut
      <4>2. CASE call[d].fn = "thread_new"
        BY <1>0, <1>2, <1>4, <3>2, <4>1, <4>2 DEF CursorOK
      <4>3. CASE call[d].fn = "thread_dispose"
        BY <4>1, <4>3 DEF CursorOK, NoCursor
      <4>4. CASE call[d].fn \in {"begin", "next", "done"}
        <5>1. pc[d] \notin {"new", "end", "dispose"}
          BY <1>2, <4>4
        <5> QED  BY <1>1, <3>2, <5>1 DEF CursorOK, Returned
      <4> QED  BY <1>0, <4>2, <4>3, <4>4 DEF Functions
    <3>3. CASE chosen = "iowow"
      <4>0. /\ call[d].fn \in {"thread_new", "thread_dispose"} =>
                 cursor'[d] = cursor[d]
            /\ call[d].fn \in {"begin", "done"} /\ call[d].step # "iterate" =>
                 cursor'[d] = cursor[d]
            /\ call[d].fn = "done" /\ call[d].step = "iterate" =>
                 cursor'[d] = NoCursor
            /\ call[d].fn = "next" /\ call[d].step # "iterate" =>
                 cursor'[d] = cursor[d]
        BY <1>0, <3>3 DEF CursorOut
      <4>1. CASE bench[d] = "iterate"
        <5>1. CASE call[d].fn \in {"begin", "next"}
          BY <1>1, <1>2, <3>3, <4>1, <5>1 DEF CursorOK, Returned
        <5>2. CASE call[d].fn = "done"
          BY <1>2, <4>0, <4>1, <5>2 DEF CursorOK, NoCursor
        <5>3. CASE call[d].fn \in {"thread_new", "thread_dispose"}
          <6>1. cursor'[d] = cursor[d] /\ pc[d] \in {"new", "dispose"}
            BY <1>2, <4>0, <5>3
          <6>2. cursor[d] # NoCursor => pc[d] = "dispose" /\ rc[d] # 0
            BY <1>0, <1>4, <3>3, <6>1 DEF CursorOK, Returned
          <6> QED  BY <1>1, <3>3, <4>1, <6>1, <6>2 DEF CursorOK, NoCursor
        <5> QED  BY <1>0, <5>1, <5>2, <5>3 DEF Functions
      <4>2. CASE bench[d] # "iterate"
        <5>1. bench[d] \in Single \cup Quadruple
          BY <1>0, <4>2 DEF RunnerInv, RunnerType, Steps, Single, Quadruple
        <5>2. cursor'[d] = cursor[d]
          BY <1>0, <1>2, <4>0, <4>2, <5>1 DEF Functions, Single
        <5>3. cursor[d] = NoCursor
          BY <1>0, <1>4, <3>3, <4>2 DEF CursorOK
        <5> QED  BY <5>2, <5>3 DEF CursorOK, NoCursor
      <4> QED  BY <4>1, <4>2
    <3> QED  BY <1>0, <3>1, <3>2, <3>3, DriverAssumption
  <2> QED  BY <1>4, <2>1, <2>2
<1> QED  BY <1>3, <1>4

(* A doer that has left calls nothing any more. *)
LEMMA ClosedStill ==
    ASSUME IInv, handle = "closed", NEW d \in Doers
    PROVE  ~DriverStep(d) /\ ~RunnerStep(d)
<1>1. pc[d] = "end" /\ RunnerInv /\ RunnerOK(d)
  BY DEF IInv, Ended, RunnerInv
<1>2. call[d].fn = "return"
  BY <1>1 DEF RunnerOK, CallOK
<1>3. ~RunnerStep(d)
  BY <1>1 DEF RunnerStep, ThreadNewReturned, RunBenchmark, PassAgain,
     AskDispose, Disposed, BeginReturned, SingleNextReturned,
     QuadrupleNextReturned, IterateNextReturned, DoneReturned, Returned
<1>4. ~SqlStep(d)
  BY <1>2 DEF SqlStep, SqlThreadNew, SqlThreadDispose, SqlBeginTxn,
     SqlBeginOther, SqlDoneTxn, SqlDoneOther, SqlNextSet, SqlNextDelete,
     SqlNextGet, SqlNextIterate, Called
<1>5. ~VedisStep(d) /\ ~UnqStep(d)
  BY <1>2 DEF VedisStep, VedisThreadNew, VedisThreadDispose, VedisBeginTxn,
     VedisBeginOther, VedisDoneTxn, VedisDoneOther, VedisNextSet,
     VedisNextDelete, VedisNextGet, VedisNextIterate, UnqStep,
     UnqThreadDispose, UnqBeginIterate, UnqBeginSingle, UnqDoneTxn,
     UnqDoneIterate, UnqDoneSingle, UnqNextDelete, UnqNextIterate, Called
<1>6. ~IowowStep(d)
  BY <1>2 DEF IowowStep, IowowThreadNew, IowowThreadDispose,
     IowowBeginIterate, IowowBeginOther, IowowDoneIterate, IowowDoneOther,
     IowowNextSet, IowowNextDelete, IowowNextGet, IowowNextIterate, Called
<1> QED  BY <1>3, <1>4, <1>5, <1>6 DEF DriverStep

(* Steps of the driver keep the invariant. *)
LEMMA DriverKeeps ==
    ASSUME IInv, NEW d \in Doers, DriverStep(d),
           UNCHANGED <<runner, told, chosen>>
    PROVE  IInv'
<1>1. handle # "closed"
  BY ClosedStill
<1>2. PICK r \in Codes : Out(d, r)
  BY <1>1, DriverAnswers
<1>3. Answered(d, r)
  BY <1>1, <1>2 DEF Answered
<1>4. RunnerInv' /\ job' = job
  BY <1>3, AnswerPlace
<1>5. HandleType' /\ handle' # "closed"
  <2>1. /\ open' \in BOOLEAN /\ cursor' = [e \in Doers |-> cursor'[e]]
    BY <1>2 DEF Out, CursorOut
  <2>2. handle' = handle \/ handle' = "dangling"
    BY <1>2 DEF Out, SqlOut
  <2> QED  BY <1>1, <2>1, <2>2 DEF HandleType, IInv
<1>6. KeysInv' /\ TxnInv'
  BY <1>3, AnswerKeys, AnswerTxn
<1>7. ToldInv'
  BY <1>1, <1>4 DEF IInv, ToldInv
<1>8. \A e \in Doers : CursorOK(e)' /\ AnswerOK(e)'
  BY <1>3, AnswerCursor
<1> QED  BY <1>4, <1>5, <1>6, <1>7, <1>8 DEF IInv

----------------------------------------------------------------------------
(* Steps of the runner. *)

(* Whoever is back from done is told what it has put and deleted. *)
LEMMA TellsAll ==
    ASSUME RunnerInv, NEW d \in Doers, AnswerOK(d), Tell(d)
    PROVE  told' = IF Returned(d, "done") THEN (told \cup PutsOf(d)) \ DelsOf(d)
                   ELSE told
<1> DEFINE ops == IF bench[d] = "batch" THEN i[d] - j[d] .. i[d] - 1 ELSE {i[d]}
           keys == {KeyOf(d, GenA, k) : k \in ops}
<1>0. /\ bench[d] \in Steps /\ CountOK(d)
      /\ rc[d] \in Codes /\ call[d].rc \in Codes
  BY DEF RunnerInv, RunnerType, RunnerOK, CallType
<1>1. keys = Written(d)
  BY DEF Written, Batched, KeyA
<1>2. /\ ~Acknowledges(d) \/ bench[d] \in {"get", "iterate"} => told' = told
      /\ Acknowledges(d) /\ bench[d] \in {"set"} \cup Quadruple =>
           told' = told \cup keys
      /\ Acknowledges(d) /\ bench[d] = "delete" => told' = told \ keys
  <2> HIDE DEF keys
  <2>1. told' = IF ~Acknowledges(d) THEN told
                ELSE CASE bench[d] \in {"set"} \cup Quadruple -> told \cup keys
                       [] bench[d] = "delete" -> told \ keys
                       [] OTHER -> told
    BY DEF Tell, keys
  <2>2. CASE ~Acknowledges(d)
    BY <2>1, <2>2
  <2>3. CASE Acknowledges(d) /\ bench[d] \in {"set"} \cup Quadruple
    BY <2>1, <2>3 DEF Quadruple
  <2>4. CASE Acknowledges(d) /\ bench[d] = "delete"
    BY <2>1, <2>4 DEF Quadruple
  <2>5. CASE Acknowledges(d) /\ bench[d] \in {"get", "iterate"}
    BY <2>1, <2>5 DEF Quadruple
  <2> QED  BY <1>0, <2>2, <2>3, <2>4, <2>5 DEF Steps, Quadruple
<1> HIDE DEF keys
<1>3. CASE ~Returned(d, "done")
  <2>1. ~Acknowledges(d)
    BY <1>3 DEF Acknowledges
  <2> QED  BY <1>2, <1>3, <2>1
<1>4. CASE Returned(d, "done")
  <2>1. pc[d] = "done" /\ call[d].fn = "return"
    BY <1>4 DEF Returned
  <2>2. (Applied(d) <=> rc[d] = 0)
    BY <2>1 DEF Applied, Returned
  <2>3. (Acknowledges(d) <=> rc[d] = 0 /\ call[d].rc = 0)
    BY <1>4 DEF Acknowledges
  <2>4. CASE bench[d] \in {"set", "delete"}
    <3>1. call[d].rc = 0 /\ bench[d] \notin Quadruple
      BY <1>4, <2>4 DEF AnswerOK, Single, Quadruple
    <3>2. Written(d) = {KeyA(d)}
      BY <2>4 DEF Written
    <3>3. CASE bench[d] = "set"
      <4>1. PutsOf(d) = IF rc[d] = 0 THEN {KeyA(d)} ELSE {}
        BY <2>2, <3>1, <3>3 DEF PutsOf
      <4>2. DelsOf(d) = {}
        BY <3>3 DEF DelsOf
      <4>3. told' = IF rc[d] = 0 THEN told \cup {KeyA(d)} ELSE told
        BY <1>1, <1>2, <2>3, <3>1, <3>2, <3>3
      <4> QED  BY <1>4, <4>1, <4>2, <4>3
    <3>4. CASE bench[d] = "delete"
      <4>1. DelsOf(d) = IF rc[d] = 0 THEN {KeyA(d)} ELSE {}
        BY <2>2, <3>4 DEF DelsOf
      <4>2. PutsOf(d) = {}
        BY <3>1, <3>4 DEF PutsOf
      <4>3. told' = IF rc[d] = 0 THEN told \ {KeyA(d)} ELSE told
        BY <1>1, <1>2, <2>3, <3>1, <3>2, <3>4
      <4> QED  BY <1>4, <4>1, <4>2, <4>3
    <3> QED  BY <2>4, <3>3, <3>4
  <2>5. CASE bench[d] \in Quadruple
    <3>1. rc[d] = 0 /\ bench[d] \notin {"set", "delete"}
      BY <1>0, <2>1, <2>5 DEF CountOK, Quadruple
    <3>2. (Doomed(d) <=> call[d].rc # 0)
      BY <2>1, <2>5, <3>1 DEF Doomed, Returned
    <3>3. PutsOf(d) = IF call[d].rc = 0 THEN Written(d) ELSE {}
      BY <2>1, <2>5, <3>1, <3>2 DEF PutsOf
    <3>4. DelsOf(d) = {}
      BY <3>1 DEF DelsOf
    <3>5. told' = IF call[d].rc = 0 THEN told \cup Written(d) ELSE told
      BY <1>1, <1>2, <2>3, <2>5, <3>1
    <3> QED  BY <1>4, <3>3, <3>4, <3>5
  <2>6. CASE bench[d] \in {"get", "iterate"}
    <3>1. PutsOf(d) = {} /\ DelsOf(d) = {}
      BY <2>6 DEF PutsOf, DelsOf, Quadruple
    <3>2. told' = told
      BY <1>2, <2>6 DEF Quadruple
    <3> QED  BY <1>4, <3>1, <3>2
  <2> QED  BY <1>0, <2>4, <2>5, <2>6 DEF Steps, Quadruple
<1> QED  BY <1>3, <1>4

(* What d has put lasts, and is in its first key space, when it is told. *)
LEMMA ToldSpace ==
    ASSUME RunnerInv, NEW d \in Doers, Returned(d, "done"),
           NEW k \in PutsOf(d)
    PROVE  job[d].mask \cap Writes # {} /\ k[1] = job[d].space
<1>1. pc[d] = "done" /\ CountOK(d)
  BY DEF Returned, RunnerInv, RunnerOK
<1>2. bench[d] \in Writes /\ bench[d] \in job[d].mask
  BY <1>1 DEF CountOK, PutsOf, Writes
<1>3. k \in Written(d) \cup {KeyA(d)}
  BY <1>1 DEF PutsOf
<1>4. k[1] = job[d].space
  BY <1>3, WrittenSpace
<1> QED  BY <1>2, <1>4

(* What a doer is told of is in the database, or has gone from it. *)
LEMMA RunnerTells ==
    ASSUME IInv, handle # "closed", NEW d \in Doers, RunnerStep(d), Tell(d),
           data' = data
    PROVE  /\ ToldInv' /\ (Keeps => Keeps') /\ (Matches => Matches')
<1>0. RunnerInv /\ RunnerType /\ AnswerOK(d) /\ ToldInv
  BY DEF IInv, RunnerInv
<1>1. /\ \A e \in Doers \ {d} :
            PutsOf(e)' = PutsOf(e) /\ DelsOf(e)' = DelsOf(e)
  BY <1>0, OthersSame, SameStatus
<1>2. job' = job
  BY <1>0, RunnerMoves
<1>3. CASE ~Returned(d, "done")
  <2>1. told' = told
    BY <1>0, <1>3, TellsAll
  <2>2. PutsOf(d)' = PutsOf(d) /\ DelsOf(d)' = DelsOf(d)
    BY <1>0, <1>3, RunnerStatus
  <2>3. \A e \in Doers : PutsOf(e)' = PutsOf(e) /\ DelsOf(e)' = DelsOf(e)
    BY <1>1, <2>2
  <2> QED  BY <1>0, <1>2, <2>1, <2>3 DEF ToldInv, Keeps, Matches
<1>4. CASE Returned(d, "done")
  <2>1. told' = (told \cup PutsOf(d)) \ DelsOf(d)
    BY <1>0, <1>4, TellsAll
  <2>2. PutsOf(d)' = {} /\ DelsOf(d)' = {}
    BY <1>0, <1>4, RunnerStatus
  <2>3. ToldInv'
    <3>1. \A k \in PutsOf(d) :
            job[d].mask \cap Writes # {} /\ k[1] = job[d].space
      BY <1>0, <1>4, ToldSpace
    <3> QED  BY <1>0, <1>2, <2>1, <3>1 DEF ToldInv
  <2>4. Keeps => Keeps'
    <3> HAVE Keeps
    <3>1. ASSUME NEW k \in told', k \notin data
          PROVE  \E e \in Doers : k \in DelsOf(e)'
      <4>1. k \notin PutsOf(d) /\ k \notin DelsOf(d) /\ k \in told
        BY <2>1, <3>1 DEF Keeps
      <4>2. PICK e \in Doers : k \in DelsOf(e)
        BY <3>1, <4>1 DEF Keeps
      <4> QED  BY <1>1, <4>1, <4>2
    <3>2. \A e \in Doers : PutsOf(e)' \subseteq data
      BY <1>1, <2>2 DEF Keeps
    <3> QED  BY <3>1, <3>2 DEF Keeps
  <2>5. Matches => Matches'
    <3> HAVE Matches
    <3>1. ASSUME NEW k \in data, k \notin told'
          PROVE  \E e \in Doers : k \in PutsOf(e)'
      <4>1. k \notin DelsOf(d) /\ k \notin PutsOf(d) /\ k \notin told
        BY <2>1, <3>1 DEF Matches
      <4>2. PICK e \in Doers : k \in PutsOf(e)
        BY <3>1, <4>1 DEF Matches
      <4> QED  BY <1>1, <4>1, <4>2
    <3>2. \A e \in Doers : DelsOf(e)' \cap data = {}
      BY <1>1, <2>2 DEF Matches
    <3> QED  BY <3>1, <3>2 DEF Matches
  <2> QED  BY <2>3, <2>4, <2>5
<1> QED  BY <1>3, <1>4

(* Steps of the runner keep what is known of cursors and of answers. *)
LEMMA RunnerCursor ==
    ASSUME RunnerInv, NEW d \in Doers, RunnerStep(d), CursorOK(d),
           cursor' = cursor, chosen' = chosen
    PROVE  CursorOK(d)' /\ AnswerOK(d)'
<1>1. Move(d)
  BY RunnerMoves
<1>2. /\ pc'[d] # "new" /\ ~Returned(d, "done")' /\ ~Returned(d, "begin")'
      /\ ~Returned(d, "dispose")'
      /\ pc'[d] = "end" => pc[d] = "new" \/ Returned(d, "dispose")
  BY <1>1 DEF Move, MoveNew, MoveStart, MoveAgain, MoveDispose, MoveEnd,
     MoveBegin, MoveSingle, MoveQuadruple, MoveIterate, MoveDone, Returned,
     ToCall, ToPass
<1>3. AnswerOK(d)'
  BY <1>2 DEF AnswerOK
<1>4. CASE cursor[d] = NoCursor
  BY <1>3, <1>4 DEF CursorOK, NoCursor
<1>5. CASE /\ chosen = "unqlite"
           /\ pc[d] \notin {"new", "end"} /\ ~Returned(d, "dispose")
  BY <1>2, <1>3, <1>5 DEF CursorOK
<1>6. CASE /\ chosen = "iowow" /\ bench[d] = "iterate"
           /\ \/ Returned(d, "begin") \/ pc[d] = "next"
              \/ pc[d] = "done" /\ call[d].fn = "done"
              \/ pc[d] \in {"pass", "dispose", "end"} /\ rc[d] # 0
  <2>1. /\ bench'[d] = "iterate"
        /\ \/ Returned(d, "begin")' \/ pc'[d] = "next"
           \/ pc'[d] = "done" /\ call'[d].fn = "done"
           \/ pc'[d] \in {"pass", "dispose", "end"} /\ rc'[d] # 0
    BY <1>1, <1>6 DEF Move, MoveNew, MoveStart, MoveAgain, MoveDispose, MoveEnd,
       MoveBegin, MoveSingle, MoveQuadruple, MoveIterate, MoveDone, Returned,
       ToCall, ToPass, InBench, Single, Quadruple
  <2> QED  BY <1>3, <1>6, <2>1 DEF CursorOK
<1> QED  BY <1>3, <1>4, <1>5, <1>6 DEF CursorOK

(* Steps of the runner keep the invariant. *)
LEMMA RunnerKeepsInv ==
    ASSUME IInv, NEW d \in Doers, RunnerStep(d), Tell(d),
           UNCHANGED <<shared, chosen>>
    PROVE  IInv'
<1>1. handle # "closed"
  BY ClosedStill
<1>0. /\ RunnerInv /\ RunnerType /\ HandleType /\ AnswerOK(d) /\ CursorOK(d)
      /\ KeysInv /\ ToldInv /\ TxnInv
      /\ \A e \in Doers : AnswerOK(e) /\ CursorOK(e)
  BY <1>1 DEF IInv, RunnerInv
<1>s. UNCHANGED <<data, saved, open, cursor, handle, chosen>>
  BY DEF shared
<1>2. RunnerInv'
  BY <1>0, RunnerKeeps
<1>3. HandleType' /\ handle' # "closed"
  BY <1>0, <1>1, <1>s DEF HandleType
<1>4. \A e \in Doers \ {d} : SameFor(e)
  BY <1>0, OthersSame
<1>5. \A e \in Doers :
        /\ (Doomed(e)' <=> Doomed(e)) /\ (Within(e)' <=> Within(e))
        /\ Missed(e)' => Missed(e)
  BY <1>0, <1>4, SameStatus, RunnerStatus
<1>6. /\ (SomeDoomed' <=> SomeDoomed) /\ (SomeWithin' <=> SomeWithin)
  BY <1>5 DEF SomeDoomed, SomeWithin
<1>7. (Excess' <=> Excess) /\ (Risk' <=> Risk)
  BY <1>s, <1>5, <1>6 DEF Excess, Risk
<1>8. TxnInv'
  BY <1>0, <1>s, <1>5, <1>6, <1>7 DEF TxnInv
<1>9. /\ ToldInv' /\ (Keeps => Keeps') /\ (Matches => Matches')
  BY <1>1, <1>s, RunnerTells
<1>10. KeysInv'
  BY <1>0, <1>s, <1>7, <1>9 DEF KeysInv
<1>11. ASSUME NEW e \in Doers PROVE CursorOK(e)' /\ AnswerOK(e)'
  <2>1. CASE e = d
    BY <1>0, <1>s, <2>1, RunnerCursor
  <2>2. CASE e # d
    <3>1. UNCHANGED <<pc[e], bench[e], rc[e], call[e]>>
      BY <1>4, <2>2 DEF SameFor
    <3> QED  BY <1>0, <1>s, <3>1 DEF CursorOK, AnswerOK, Returned
  <2> QED  BY <2>1, <2>2
<1> QED  BY <1>2, <1>3, <1>8, <1>9, <1>10, <1>11 DEF IInv

----------------------------------------------------------------------------
(* The end of the program. *)

(* When all doers have left, nothing is under way, and the only ones that  *)
(* were bound to fail are those that did.                                  *)
LEMMA AllLeft ==
    ASSUME RunnerInv, Ended
    PROVE  /\ ~SomeWithin /\ ~Excess /\ (SomeDoomed <=> Broken)
           /\ (Risk <=> Broken)
           /\ Keeps => told \subseteq data
           /\ Matches => data \subseteq told
<1>1. ASSUME NEW d \in Doers
      PROVE  /\ ~Within(d)
             /\ (Doomed(d) <=> bench[d] \in Quadruple /\ rc[d] # 0)
             /\ PutsOf(d) = {} /\ DelsOf(d) = {}
  <2>1. pc[d] = "end"
    BY DEF Ended
  <2> QED  BY <2>1 DEF Within, Doomed, Returned, PutsOf, DelsOf, Applied
<1>2. ~SomeWithin /\ ~Excess
  BY <1>1 DEF SomeWithin, Excess
<1>3. (SomeDoomed <=> Broken)
  BY <1>1 DEF SomeDoomed, Broken
<1>4. (Risk <=> Broken)
  BY <1>2, <1>3 DEF Risk
<1>5. Keeps => told \subseteq data
  BY <1>1 DEF Keeps
<1>6. Matches => data \subseteq told
  BY <1>1 DEF Matches
<1> QED  BY <1>2, <1>3, <1>4, <1>5, <1>6

(* A doer whose BEGIN was refused is in Missed, and there is no Excess     *)
(* when all have left.                                                     *)
LEMMA Noticed == IInv => OverlapNoticed
<1> SUFFICES ASSUME IInv, handle # "closed", chosen = "sqlite3", Ended,
                    NEW d \in Doers, ~begun[d]
             PROVE  \E e \in Doers : rc[e] # 0
  BY DEF IInv, OverlapNoticed
<1>1. Missed(d)
  BY DEF Missed
<1>2. Excess \/ SomeDoomed
  BY <1>1 DEF IInv, TxnInv
<1>3. Broken
  BY <1>2, AllLeft DEF IInv
<1> QED  BY <1>3 DEF Broken

(* ia_free keeps the invariant: it leaves what doers were told. *)
LEMMA FreeKeeps ==
    ASSUME IInv, Free
    PROVE  IInv'
<1>0. /\ RunnerInv /\ HandleType /\ KeysInv /\ TxnInv /\ OverlapNoticed
      /\ Ended /\ handle # "closed"
      /\ \A d \in Doers : CursorOK(d) /\ AnswerOK(d)
      /\ chosen \in {"sqlite3", "vedisdb", "unqlite", "iowow"}
      /\ open \in BOOLEAN
  BY Noticed, DriverAssumption DEF IInv, Free, HandleType
<1>1. UNCHANGED <<call, faults, runner, chosen, told>>
  BY DEF Free
<1>2. /\ handle' = "closed" /\ cursor' = cursor /\ open' \in BOOLEAN
      /\ chosen \in {"sqlite3", "iowow"} => saved' = saved
      /\ chosen \in {"vedisdb", "unqlite"} => saved' = data
  BY <1>0 DEF Free, SqlClose, VedisClose, IowowClose, Rollback, Commit
<1>3. RunnerInv'
  BY <1>0, <1>1 DEF runner, RunnerInv, RunnerType, RunnerOK, CallOK, CountOK,
     KeyOf
<1>4. HandleType'
  BY <1>0, <1>1, <1>2 DEF HandleType
<1>5. \A d \in Doers : CursorOK(d)' /\ AnswerOK(d)'
  BY <1>0, <1>1, <1>2 DEF CursorOK, AnswerOK, Returned, runner
<1>6. Ended' /\ OverlapNoticed'
  BY <1>0, <1>1 DEF Ended, OverlapNoticed, runner
<1>7. /\ (Broken' <=> Broken) /\ (Lossy' <=> Lossy)
  BY <1>1 DEF Broken, Lossy, runner
<1>8. /\ (SomeDoomed <=> Broken) /\ ~SomeWithin /\ (Risk <=> Broken)
      /\ Keeps => told \subseteq data
      /\ Matches => data \subseteq told
  BY <1>0, AllLeft
<1>9. ~Broken => told = data
  BY <1>0, <1>8 DEF KeysInv
<1>10. chosen \in {"unqlite", "iowow"} => told \subseteq data
  BY <1>0, <1>8 DEF KeysInv
<1>11. /\ ~Broken /\ chosen = "sqlite3" => saved = data
       /\ chosen = "iowow" => saved = data
  BY <1>0, <1>8 DEF TxnInv
<1>12. Broken \/ saved' = told
  BY <1>0, <1>2, <1>9, <1>11
<1>13. Lossy \/ told \subseteq saved'
  <2>1. CASE ~Broken
    BY <1>12, <2>1
  <2>2. CASE Broken /\ chosen = "unqlite"
    BY <1>2, <1>10, <2>2
  <2>3. CASE Broken /\ chosen = "iowow"
    BY <1>2, <1>10, <1>11, <2>3
  <2>4. CASE Broken /\ chosen \in {"sqlite3", "vedisdb"}
    BY <2>4 DEF Lossy
  <2> QED  BY <1>0, <2>1, <2>2, <2>3, <2>4
<1>14. ToldIsKept'
  BY <1>1, <1>7, <1>12, <1>13 DEF ToldIsKept
<1> QED  BY <1>2, <1>3, <1>4, <1>5, <1>6, <1>14 DEF IInv

(* Nothing happens. *)
LEMMA StutterKeeps ==
    ASSUME IInv, UNCHANGED vars
    PROVE  IInv'
<1>1. UNCHANGED <<call, runner, data, saved, open, cursor, handle, chosen, told>>
  BY DEF vars, shared
<1>2. /\ UNCHANGED <<ignore, pc, job, serial, left, passes, bench, i, j, q, rc>>
      /\ UNCHANGED begun
  BY <1>1 DEF runner
<1>3. RunnerInv'
  BY <1>1, <1>2 DEF IInv, RunnerInv, RunnerType, RunnerOK, CallOK, CountOK,
     KeyOf
<1>4. HandleType' /\ \A d \in Doers : CursorOK(d)' /\ AnswerOK(d)'
  BY <1>1, <1>2 DEF IInv, HandleType, CursorOK, AnswerOK, Returned
<1>5. handle' = "closed" => Ended' /\ ToldIsKept' /\ OverlapNoticed'
  BY <1>1, <1>2 DEF IInv, Ended, ToldIsKept, OverlapNoticed, Broken, Lossy
<1>6. \A d \in Doers : SameFor(d)
  BY <1>1, <1>2 DEF SameFor
<1>7. \A d \in Doers :
        /\ (Doomed(d)' <=> Doomed(d)) /\ (Within(d)' <=> Within(d))
        /\ PutsOf(d)' = PutsOf(d) /\ DelsOf(d)' = DelsOf(d)
        /\ (Missed(d)' <=> Missed(d))
  BY <1>6, SameStatus
<1>8. /\ (SomeDoomed' <=> SomeDoomed) /\ (SomeWithin' <=> SomeWithin)
      /\ (Keeps' <=> Keeps) /\ (Matches' <=> Matches)
      /\ (ToldInv' <=> ToldInv)
  BY <1>1, <1>2, <1>7 DEF SomeDoomed, SomeWithin, Keeps, Matches, ToldInv
<1>9. (Excess' <=> Excess) /\ (Risk' <=> Risk)
  BY <1>1, <1>7, <1>8 DEF Excess, Risk
<1>10. (KeysInv' <=> KeysInv) /\ (TxnInv' <=> TxnInv)
  BY <1>1, <1>7, <1>8, <1>9 DEF KeysInv, TxnInv
<1> QED  BY <1>1, <1>3, <1>4, <1>5, <1>8, <1>10 DEF IInv

(* The invariant holds: whichever driver it is, however many doers share   *)
(* the handle, in whatever order they begin, write and commit, and whatever *)
(* fails.                                                                  *)
THEOREM HandleInductive == Spec => []IInv
<1>1. Init => IInv
  BY InitInv
<1>2. IInv /\ [Next]_vars => IInv'
  <2> SUFFICES ASSUME IInv, [Next]_vars PROVE IInv'
    OBVIOUS
  <2>1. ASSUME NEW d \in Doers, Step(d) PROVE IInv'
    <3>1. CASE RunnerStep(d) /\ Tell(d) /\ UNCHANGED <<shared, pending>>
      BY <2>1, <3>1, RunnerKeepsInv DEF Step
    <3>2. CASE DriverStep(d) /\ UNCHANGED <<runner, told>>
      BY <2>1, <3>2, DriverKeeps DEF Step
    <3> QED  BY <2>1, <3>1, <3>2 DEF Step
  <2>2. CASE Free
    BY <2>2, FreeKeeps
  <2>3. CASE UNCHANGED vars
    BY <2>3, StutterKeeps
  <2> QED  BY <2>1, <2>2, <2>3 DEF Next, Exited
<1> QED  BY <1>1, <1>2, PTL DEF Spec

(* ia_free leaves behind what the doers were told is done: with unqlite    *)
(* and iowow always, with sqlite3 and vedisdb if no CRUD or BATCH failed;  *)
(* and if none did, it leaves nothing else, however the doers got into     *)
(* each other's transactions.                                              *)
THEOREM KeepsTold == Spec => []ToldIsKept
<1>1. IInv => ToldIsKept
  BY DEF IInv, ToldIsKept
<1> QED  BY <1>1, HandleInductive, PTL

(* With sqlite3, a BEGIN that was refused because another doer is in the   *)
(* transaction of the handle costs somebody a COMMIT: when all have left,  *)
(* somebody has failed.                                                    *)
THEOREM OverlapsNoticed == Spec => []OverlapNoticed
BY Noticed, HandleInductive, PTL

(* A doer that has left holds no cursor, except that of an iteration of    *)
(* iowow that failed half way.                                             *)
THEOREM CursorsGivenBack == Spec => []CursorsReleased
<1>1. IInv => CursorsReleased
  BY DEF IInv, CursorOK, CursorsReleased, Returned
<1> QED  BY <1>1, HandleInductive, PTL
=============================================================================
