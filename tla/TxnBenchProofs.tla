--------------------------- MODULE TxnBenchProofs ---------------------------
(***************************************************************************)
(* lmdb and mdbx under the benchmarks, for any doers, jobs and numbers of  *)
(* operations: as many calls of the library as you like may fail.          *)
(*                                                                         *)
(* The argument: whoever has the write transaction is alone in changing    *)
(* data, so its view is data with its own operations applied (TxnInv says  *)
(* which, after each call); a commit changes nothing but keys of the key   *)
(* space of the writer's first generator, which no other doer writes to.   *)
(***************************************************************************)
EXTENDS TxnBench, RunnerProofs, TLAPS

DriverType ==
    /\ data \in SUBSET Pairs
    /\ writer \in Doers \cup {Nobody}
    /\ txn \in [Doers -> [kind : {"none", "read", "write", "reset"},
                          view : SUBSET Pairs]]
    /\ cursor \in [Doers -> [kind : {"none", "bound", "loose"}, passed : Nat]]
    /\ at \in [Doers -> {"out", "dbi", "dbi_open", "begin"}]

TxnType == DriverType /\ before \in [Doers -> SUBSET Pairs]

(* After n calls of ia_quadruple. *)
Partial(d, n) ==
    IF n = 0 THEN {} ELSE IF n = 1 THEN {KeyB(d)}
    ELSE IF n = 2 THEN {KeyA(d), KeyB(d)} ELSE {KeyA(d)}
ViewAfter(d, n) == data \cup Earlier(d) \cup Partial(d, n)

(* After the call of next in SET and DELETE, if it returned code. *)
SingleView(d, code) ==
    IF bench[d] = "set"
    THEN IF code = 0 THEN data \cup {KeyA(d)} ELSE data
    ELSE IF code = -1 THEN data ELSE data \ {KeyA(d)}

WritesWith(d, view) == txn[d].kind = "write" /\ txn[d].view = view

(* After a begin that succeeded. *)
Ready(d) ==
    IF bench[d] \in WriteSteps THEN WritesWith(d, data)
    ELSE /\ txn[d].kind = "read" /\ before[d] \subseteq txn[d].view
         /\ bench[d] = "iterate" => cursor[d].kind = "bound"

AtOK(d) ==
    /\ at[d] \in {"dbi", "dbi_open"} =>
         pc[d] = "new" /\ call[d].fn = "thread_new"
    /\ at[d] = "begin" =>
         /\ pc[d] = "begin" /\ call[d].fn = "begin"
         /\ bench[d] \in WriteSteps
         /\ txn[d] = NoTxn /\ cursor[d] = NoCursor

OutsideOK(d) ==
    /\ txn[d].kind = "none" => txn[d] = NoTxn
    /\ pc[d] = "new" => txn[d] = NoTxn /\ cursor[d] = NoCursor /\ begun[d]
    /\ pc[d] = "pass" =>
         rc[d] # 0 \/ (begun[d] /\ txn[d].kind \in {"none", "reset"})
    /\ pc[d] = "dispose" /\ call[d].fn = "return" =>
         txn[d] = NoTxn /\ cursor[d] = NoCursor
    /\ pc[d] = "end" => txn[d] = NoTxn /\ cursor[d] = NoCursor

BeginOK(d) ==
    pc[d] = "begin" =>
        /\ begun[d]
        /\ call[d].fn = "begin" => txn[d].kind \in {"none", "reset"}
        /\ call[d].fn = "return" =>
             /\ call[d].rc \in {0, -1}
             /\ call[d].rc = 0 => Ready(d)
             /\ call[d].rc = -1 => txn[d].kind \in {"none", "read"}
             /\ call[d].rc = -1 /\ bench[d] \in WriteSteps => txn[d] = NoTxn

NextOK(d) ==
    LET c == call[d] IN
    pc[d] = "next" =>
        /\ ~begun[d] => /\ bench[d] = "batch" /\ q[d] = 1 /\ txn[d] = NoTxn
                        /\ c.fn = "return" => c.rc = -1
        /\ bench[d] \in ReadSteps => Ready(d)
        /\ bench[d] \in Single /\ c.fn = "return" /\ c.rc = ENOENT =>
             c.key \notin before[d]
        /\ bench[d] \in {"set", "delete"} =>
             /\ c.fn = "next" => WritesWith(d, data)
             /\ c.fn = "return" => WritesWith(d, SingleView(d, c.rc))
             /\ c.fn = "return" /\ bench[d] = "set" => c.rc # ENOENT
        /\ bench[d] \in Quadruple /\ begun[d] =>
             /\ txn[d].kind = "write"
             /\ c.fn = "next" => WritesWith(d, ViewAfter(d, q[d] - 1))
             /\ c.fn = "return" => c.rc \in {0, -1}
             /\ c.fn = "return" /\ c.rc = 0 => WritesWith(d, ViewAfter(d, q[d]))

DoneOK(d) ==
    LET c == call[d] IN
    pc[d] = "done" =>
        /\ ~begun[d] => rc[d] = -1
        /\ bench[d] = "set" => rc[d] # ENOENT
        /\ c.fn = "done" =>
             /\ ~begun[d] /\ bench[d] \in WriteSteps => txn[d] = NoTxn
             /\ begun[d] /\ bench[d] \in {"set", "delete"} =>
                  WritesWith(d, SingleView(d, rc[d]))
             /\ bench[d] \in Quadruple => WritesWith(d, data \cup Written(d))
             /\ bench[d] \in ReadSteps => txn[d].kind \in {"none", "read"}
        /\ c.fn = "return" =>
             /\ c.rc \in {0, -1}
             /\ bench[d] \in WriteSteps => txn[d] = NoTxn
             /\ c.rc = 0 => txn[d].kind \in {"none", "reset"}
             /\ c.rc = 0 /\ rc[d] = 0 => Shown(d, data)

TxnInv(d) == AtOK(d) /\ OutsideOK(d) /\ BeginOK(d) /\ NextOK(d) /\ DoneOK(d)

(* The one write transaction. *)
WriterInv ==
    \A d \in Doers :
        writer = d <=> (txn[d].kind = "write" \/ at[d] = "dbi_open")

(* Whose keys there can be in the database. *)
DataInv ==
    \A k \in data : \E e \in Doers :
        job[e].mask \cap Writes # {} /\ k[1] = job[e].space

BeforeInv == \A d \in Doers : before[d] \subseteq data

IInv ==
    /\ RunnerInv /\ TxnType /\ WriterInv /\ DataInv /\ BeforeInv
    /\ \A d \in Doers : TxnInv(d)

----------------------------------------------------------------------------
(* Facts about a doer. *)

(* The benchmarks that write, and those that read. *)
LEMMA StepSets ==
    /\ WriteSteps = Writes /\ Steps = WriteSteps \cup ReadSteps
    /\ WriteSteps \cap ReadSteps = {}
    /\ Single = {"set", "delete", "get"} /\ Quadruple = {"batch", "crud"}
BY DEF WriteSteps, Writes, Steps, ReadSteps, Single, Quadruple

(* The invariant holds at the start. *)
LEMMA InitInv == Init => IInv
<1> SUFFICES ASSUME Init PROVE IInv
  OBVIOUS
<1>1. RunnerInv
  BY RunnerInitInv DEF Init
<1>2. TxnType
  BY DEF Init, DriverInit, TxnType, DriverType, NoTxn, NoCursor
<1>3. WriterInv /\ DataInv /\ BeforeInv
  BY NobodyAssumption DEF Init, DriverInit, WriterInv, DataInv, BeforeInv,
     NoTxn
<1>4. ASSUME NEW d \in Doers PROVE TxnInv(d)
  BY DEF Init, DriverInit, RunnerInit, TxnInv, AtOK, OutsideOK, BeginOK,
     NextOK, DoneOK
<1> QED  BY <1>1, <1>2, <1>3, <1>4 DEF IInv

(* What a doer does not notice. *)
LEMMA OtherKeeps ==
    ASSUME IInv, NEW e \in Doers, SameFor(e),
           UNCHANGED <<txn[e], cursor[e], at[e]>>,
           before'[e] \subseteq before[e],
           txn[e].kind = "write" => data' = data,
           pc[e] = "done" /\ bench[e] \in WriteSteps /\ Shown(e, data) =>
               Shown(e, data')
    PROVE  TxnInv(e)'
<1>0. TxnInv(e)
  BY DEF IInv
<1> USE DEF SameFor
<1>1. AtOK(e)' /\ OutsideOK(e)'
  BY <1>0 DEF TxnInv, AtOK, OutsideOK, NoTxn, NoCursor
<1>2. Ready(e) => Ready(e)'
  BY DEF Ready, WritesWith
<1>3. BeginOK(e)'
  BY <1>0, <1>2 DEF TxnInv, BeginOK, NoTxn
<1>4. /\ \A k \in Int : KeyOf(e, GenA, k)' = KeyOf(e, GenA, k)
      /\ KeyA(e)' = KeyA(e) /\ KeyB(e)' = KeyB(e)
      /\ Batched(e)' = Batched(e)
  BY DEF KeyOf, KeyA, KeyB, Batched
<1>5. /\ WritesWith(e, data) => WritesWith(e, data)'
      /\ \A n \in Nat : WritesWith(e, ViewAfter(e, n)) =>
                          WritesWith(e, ViewAfter(e, n))'
      /\ \A r \in Codes : WritesWith(e, SingleView(e, r)) =>
                          WritesWith(e, SingleView(e, r))'
      /\ WritesWith(e, data \cup Written(e)) =>
           WritesWith(e, data \cup Written(e))'
  BY <1>4 DEF WritesWith, ViewAfter, Partial, Earlier, SingleView, Written
<1>6. q[e] \in 1 .. 4 /\ rc[e] \in Codes /\ call[e].rc \in Codes
      /\ q[e] - 1 \in Nat /\ q[e] \in Nat
  BY DEF IInv, RunnerInv, RunnerType, CallType
<1>7. NextOK(e)'
  BY <1>0, <1>2, <1>5, <1>6 DEF TxnInv, NextOK, NoTxn
<1>8. bench[e] \notin WriteSteps => Shown(e, data')
  BY DEF Shown, WriteSteps, Quadruple
<1>9. Shown(e, data)' <=> Shown(e, data')
  BY DEF Shown, KeyOf
<1>10. DoneOK(e)'
  BY <1>0, <1>5, <1>6, <1>8, <1>9 DEF TxnInv, DoneOK, NoTxn
<1> QED  BY <1>1, <1>3, <1>7, <1>10 DEF TxnInv

(* Steps of the runner. *)
LEMMA RunnerTxn ==
    ASSUME IInv, NEW d \in Doers, RunnerStep(d), UNCHANGED driver, RunnerInv',
           call'[d].fn # "begin" => before'[d] \subseteq before[d]
    PROVE  TxnInv(d)'
<1> USE DEF driver, ToCall, ToPass, InBench, Counts, Returned
<1>0. /\ TxnInv(d) /\ RunnerOK(d) /\ RunnerOK(d)' /\ RunnerType
      /\ bench[d] \in Steps /\ q[d] \in 1 .. 4 /\ call[d].rc \in Codes
      /\ rc[d] \in Codes /\ i[d] \in Nat /\ j[d] \in Nat
      /\ txn[d].kind \in {"none", "read", "write", "reset"}
      /\ at[d] \in {"out", "dbi", "dbi_open", "begin"}
      /\ begun[d] \in BOOLEAN
  BY DEF IInv, RunnerInv, RunnerType, TxnType, DriverType, CallType
<1>1. Move(d) /\ UNCHANGED <<ignore, job>>
  BY RunnerMoves DEF IInv
<1>2. at[d] = "out" /\ AtOK(d)'
  <2>1. call[d].fn \in {"return", "none"}
    BY <1>0, <1>1 DEF Move, MoveNew, MoveStart, MoveAgain, MoveDispose,
       MoveEnd, MoveBegin, MoveSingle, MoveQuadruple, MoveIterate, MoveDone,
       RunnerOK, CallOK
  <2>2. at[d] = "out"
    BY <1>0, <2>1 DEF TxnInv, AtOK
  <2> QED  BY <2>2 DEF AtOK
<1>k. /\ txn'[d] = txn[d] /\ cursor'[d] = cursor[d] /\ data' = data
      /\ txn[d].kind = "none" => txn[d] = NoTxn
      /\ NoTxn' = NoTxn /\ NoCursor' = NoCursor
  BY <1>0 DEF TxnInv, OutsideOK, NoTxn, NoCursor
<1> HIDE DEF driver
<1>3. CASE MoveNew(d)
  <2>1. txn[d] = NoTxn /\ cursor[d] = NoCursor /\ begun[d]
    BY <1>0, <1>3 DEF MoveNew, TxnInv, OutsideOK
  <2>2. NoTxn.kind = "none"
    BY DEF NoTxn
  <2> QED  BY <1>2, <1>3, <1>k, <2>1, <2>2
           DEF MoveNew, TxnInv, OutsideOK, BeginOK, NextOK, DoneOK
<1>4. CASE MoveStart(d)
  <2>1. begun[d] /\ txn[d].kind \in {"none", "reset"}
    BY <1>0, <1>4 DEF MoveStart, TxnInv, OutsideOK
  <2> QED  BY <1>2, <1>4, <1>k, <2>1
           DEF MoveStart, TxnInv, OutsideOK, BeginOK, NextOK, DoneOK
<1>5. CASE MoveAgain(d)
  BY <1>0, <1>2, <1>5, <1>k
  DEF MoveAgain, TxnInv, OutsideOK, BeginOK, NextOK, DoneOK
<1>6. CASE MoveDispose(d)
  BY <1>2, <1>6, <1>k
  DEF MoveDispose, TxnInv, OutsideOK, BeginOK, NextOK, DoneOK
<1>7. CASE MoveEnd(d)
  BY <1>0, <1>2, <1>7, <1>k
  DEF MoveEnd, TxnInv, OutsideOK, BeginOK, NextOK, DoneOK
<1>s. /\ bench'[d] = bench[d] /\ serial'[d] = serial[d] /\ i'[d] = i[d] =>
           KeyA(d)' = KeyA(d) /\ KeyB(d)' = KeyB(d)
  BY <1>1 DEF KeyA, KeyB, KeyOf
<1>9. CASE MoveSingle(d)
  <2>1. /\ pc[d] = "next" /\ call[d].fn = "return" /\ bench[d] \in Single
        /\ pc'[d] = "done" /\ call'[d].fn = "done" /\ rc'[d] = call[d].rc
        /\ bench'[d] = bench[d] /\ begun'[d] = begun[d]
        /\ UNCHANGED <<serial[d], i[d], j[d]>>
    BY <1>9 DEF MoveSingle
  <2>2. begun[d]
    BY <1>0, <2>1 DEF TxnInv, NextOK, Single
  <2>3. SingleView(d, rc[d])' = SingleView(d, call[d].rc)
    BY <1>k, <1>s, <2>1 DEF SingleView
  <2>4. bench[d] \in {"set", "delete"} =>
          WritesWith(d, SingleView(d, call[d].rc))
    BY <1>0, <2>1 DEF TxnInv, NextOK
  <2>5. bench[d] = "get" => txn[d].kind = "read"
    BY <1>0, <2>1 DEF TxnInv, NextOK, Ready, ReadSteps, WriteSteps, Quadruple
  <2>6. bench[d] = "set" => call[d].rc # ENOENT
    BY <1>0, <2>1 DEF TxnInv, NextOK
  <2> QED  BY <1>2, <1>k, <2>1, <2>2, <2>3, <2>4, <2>5, <2>6, StepSets
           DEF TxnInv, OutsideOK, BeginOK, NextOK, DoneOK, WritesWith,
               ReadSteps
<1>10. CASE MoveIterate(d)
  <2>1. /\ pc[d] = "next" /\ call[d].fn = "return" /\ bench[d] = "iterate"
        /\ bench'[d] = bench[d] /\ begun'[d] = begun[d]
    BY <1>10 DEF MoveIterate
  <2>2. begun[d] /\ Ready(d)
    BY <1>0, <2>1 DEF TxnInv, NextOK, ReadSteps
  <2>3. bench[d] \notin WriteSteps \cup Single \cup Quadruple
    BY <2>1 DEF WriteSteps, Single, Quadruple
  <2>4. CASE call[d].rc = -1 /\ ToPass(d, -1)
    BY <1>2, <1>k, <2>4
    DEF TxnInv, OutsideOK, BeginOK, NextOK, DoneOK
  <2>5. CASE ToCall(d, "next")
    <3>1. Ready(d)'
      BY <1>k, <2>1, <2>2, <2>3, <2>5 DEF Ready
    <3> QED  BY <1>2, <1>k, <2>1, <2>2, <2>3, <2>5, <3>1
             DEF TxnInv, OutsideOK, BeginOK, NextOK, DoneOK
  <2>6. CASE ToCall(d, "done")
    BY <1>2, <1>k, <2>1, <2>2, <2>3, <2>6
    DEF TxnInv, OutsideOK, BeginOK, NextOK, DoneOK, Ready
  <2> QED  BY <1>10, <2>4, <2>5, <2>6 DEF MoveIterate
<1>12. CASE MoveDone(d)
  <2>1. /\ pc[d] = "done" /\ call[d].fn = "return"
        /\ bench'[d] = bench[d] /\ begun'[d] = begun[d]
    BY <1>12 DEF MoveDone
  <2>2. /\ ~begun[d] => rc[d] = -1
        /\ call[d].rc = 0 => txn[d].kind \in {"none", "reset"}
    BY <1>0, <2>1 DEF TxnInv, DoneOK
  <2> DEFINE own == Tolerated(rc[d])
             code == IF own = 0 THEN call[d].rc ELSE own
  <2>3. code = 0 => begun[d] /\ txn[d].kind \in {"none", "reset"}
    <3>1. Tolerated(rc[d]) = 0 => rc[d] = 0 \/ rc[d] = ENOENT
      BY <1>0, ToleratedCode
    <3> QED  BY <1>0, <2>2, <3>1 DEF ENOENT
  <2>4. \/ code = 0 /\ ToCall(d, "begin")
        \/ ToPass(d, code)
    BY <1>12 DEF MoveDone
  <2> HIDE DEF code
  <2>5. CASE code = 0 /\ ToCall(d, "begin")
    BY <1>2, <1>k, <2>1, <2>3, <2>5
    DEF TxnInv, OutsideOK, BeginOK, NextOK, DoneOK
  <2>6. CASE ToPass(d, code)
    BY <1>2, <1>k, <2>1, <2>3, <2>6
    DEF TxnInv, OutsideOK, BeginOK, NextOK, DoneOK
  <2> QED  BY <2>4, <2>5, <2>6
<1>8. CASE MoveBegin(d)
  <2> DEFINE r == call[d].rc
  <2>1. /\ pc[d] = "begin" /\ call[d].fn = "return" /\ begun[d]
        /\ bench'[d] = bench[d] /\ serial'[d] = serial[d] /\ i'[d] = i[d]
        /\ begun'[d] = (r = 0)
        /\ r \in {0, -1} /\ (r = 0 => Ready(d))
        /\ r = -1 => txn[d].kind \in {"none", "read"}
        /\ r = -1 /\ bench[d] \in WriteSteps => txn[d] = NoTxn
    BY <1>0, <1>8 DEF MoveBegin, TxnInv, BeginOK
  <2>2. r = 0 /\ ToCall(d, "next") => Ready(d)'
    BY <1>k, <2>1 DEF Ready, WritesWith
  <2>3. CASE bench[d] \in Single /\ r = 0 /\ ToCall(d, "next")
    <3>1. /\ bench[d] \in {"set", "delete"} => WritesWith(d, data)'
          /\ begun'[d] /\ Ready(d)' /\ bench'[d] \notin Quadruple
          /\ pc'[d] = "next" /\ call'[d].fn = "next"
      BY <1>k, <2>1, <2>2, <2>3 DEF Ready, WriteSteps, WritesWith, Single,
         Quadruple
    <3> QED  BY <1>2, <1>k, <2>1, <3>1
             DEF TxnInv, OutsideOK, BeginOK, NextOK, DoneOK
  <2>4. CASE bench[d] \in Single /\ r # 0 /\ ToCall(d, "done") /\ rc'[d] = r
    <3>1. r = -1
      BY <2>1, <2>4
    <3>2. rc'[d] = -1 /\ rc'[d] # ENOENT
      BY <2>4, <3>1 DEF ENOENT
    <3>3. ~begun'[d]
      BY <2>1, <2>4, Zenon
    <3> QED  BY <1>2, <1>k, <2>1, <2>4, <3>1, <3>2, <3>3, StepSets
             DEF TxnInv, OutsideOK, BeginOK, NextOK, DoneOK
  <2>5. CASE /\ bench[d] \in Quadruple /\ (r = 0 \/ bench[d] = "batch")
             /\ ToCall(d, "next") /\ rc'[d] = r /\ q'[d] = 1
             /\ j'[d] = (IF bench[d] = "batch" THEN 0 ELSE j[d])
    <3>1. bench[d] \in WriteSteps \ (Single \cup ReadSteps)
      BY <2>5 DEF WriteSteps, Quadruple, Single, ReadSteps
    <3>2. bench[d] = "batch" => Batched(d)' = {}
      BY <1>0, <2>1, <2>5 DEF Batched
    <3>3. ViewAfter(d, q[d] - 1)' = data
      BY <1>k, <2>1, <2>5, <3>2 DEF ViewAfter, Earlier, Partial
    <3>4. r = 0 => WritesWith(d, ViewAfter(d, q[d] - 1))'
      BY <1>k, <2>1, <3>1, <3>3 DEF Ready, WritesWith
    <3>5. bench[d] \notin {"set", "delete"}
      BY <3>1 DEF Single
    <3>6. CASE r = 0
      BY <1>2, <1>k, <2>1, <2>5, <3>1, <3>4, <3>5, <3>6
      DEF TxnInv, OutsideOK, BeginOK, NextOK, DoneOK, WritesWith
    <3>7. CASE r # 0
      BY <1>2, <1>k, <2>1, <2>5, <3>1, <3>5, <3>7
      DEF TxnInv, OutsideOK, BeginOK, NextOK, DoneOK
    <3> QED  BY <3>6, <3>7
  <2>6. CASE r # 0 /\ ToPass(d, r)
    BY <1>2, <1>k, <2>6
    DEF TxnInv, OutsideOK, BeginOK, NextOK, DoneOK
  <2>7. CASE bench[d] = "iterate" /\ r = 0 /\ ToCall(d, "next")
    BY <1>2, <1>k, <2>1, <2>2, <2>7
    DEF TxnInv, OutsideOK, BeginOK, NextOK, DoneOK, Single, Quadruple
  <2> QED  BY <1>8, <2>1, <2>3, <2>4, <2>5, <2>6, <2>7 DEF MoveBegin, ENOENT
<1>11. CASE MoveQuadruple(d)
  <2> DEFINE code == IF q[d] > 2 THEN Tolerated(call[d].rc) ELSE call[d].rc
  <2>1. /\ pc[d] = "next" /\ call[d].fn = "return" /\ bench[d] \in Quadruple
        /\ bench'[d] = bench[d] /\ begun'[d] = begun[d]
        /\ serial'[d] = serial[d]
    BY <1>11 DEF MoveQuadruple
  <2>2. bench[d] \in WriteSteps \ (Single \cup ReadSteps)
        /\ bench[d] \notin {"set", "delete"} /\ bench[d] # "iterate"
    BY <2>1 DEF WriteSteps, Quadruple, Single, ReadSteps
  <2>3. /\ begun[d] => call[d].rc \in {0, -1}
        /\ ~begun[d] => call[d].rc = -1 /\ q[d] = 1
        /\ begun[d] => txn[d].kind = "write"
        /\ begun[d] /\ call[d].rc = 0 => WritesWith(d, ViewAfter(d, q[d]))
    BY <1>0, <2>1 DEF TxnInv, NextOK
  <2>4. code = 0 => begun[d] /\ call[d].rc = 0
    <3>1. call[d].rc = -1 => Tolerated(call[d].rc) = -1
      BY <1>0, ToleratedCode
    <3> QED  BY <1>0, <2>3, <3>1
  <2>5. CASE code # 0 /\ ToPass(d, code)
    BY <1>2, <1>k, <2>5
    DEF TxnInv, OutsideOK, BeginOK, NextOK, DoneOK
  <2>6. CASE /\ code = 0 /\ q[d] # 4 /\ ToCall(d, "next")
             /\ q'[d] = q[d] + 1 /\ UNCHANGED <<i[d], j[d]>>
    <3>1. q'[d] - 1 = q[d]
      BY <1>0, <2>6
    <3>2. Batched(d)' = Batched(d)
      BY <1>1, <2>1, <2>6 DEF Batched, KeyOf
    <3>3. ViewAfter(d, q[d] - 1)' = ViewAfter(d, q[d])
      BY <1>k, <1>s, <2>1, <2>6, <3>1, <3>2
      DEF ViewAfter, Partial, Earlier
    <3>4. WritesWith(d, ViewAfter(d, q[d] - 1))'
      BY <1>k, <2>3, <2>4, <2>6, <3>3 DEF WritesWith
    <3> QED  BY <1>2, <1>k, <2>1, <2>2, <2>3, <2>4, <2>6, <3>4
             DEF TxnInv, OutsideOK, BeginOK, NextOK, DoneOK, WritesWith
  <2>7. CASE /\ code = 0 /\ q[d] = 4 /\ q'[d] = 1
             /\ bench[d] = "batch"
             /\ i'[d] = i[d] + 1 /\ j'[d] = j[d] + 1
             /\ ToCall(d, "next") \/ ToCall(d, "done")
    <3>1. Batched(d)' = Batched(d) \cup {KeyA(d)}
      BY <1>0, <1>1, <2>1, <2>7, BatchGrows
    <3>2. /\ ViewAfter(d, q[d] - 1)' = ViewAfter(d, q[d])
          /\ (data \cup Written(d))' = ViewAfter(d, q[d])
      BY <1>k, <2>1, <2>7, <3>1 DEF ViewAfter, Partial, Earlier, Written
    <3>3. WritesWith(d, ViewAfter(d, q[d]))
      BY <2>3, <2>4, <2>7
    <3>4. /\ WritesWith(d, ViewAfter(d, q[d] - 1))'
          /\ WritesWith(d, data \cup Written(d))'
      BY <1>k, <3>2, <3>3 DEF WritesWith
    <3> QED  BY <1>2, <1>k, <2>1, <2>2, <2>3, <2>4, <2>7, <3>4
             DEF TxnInv, OutsideOK, BeginOK, NextOK, DoneOK, WritesWith
  <2>8. CASE /\ code = 0 /\ q[d] = 4 /\ bench[d] = "crud"
             /\ UNCHANGED <<i[d], j[d]>> /\ ToCall(d, "done")
    <3>1. (data \cup Written(d))' = ViewAfter(d, q[d])
      BY <1>k, <1>s, <2>1, <2>8 DEF ViewAfter, Partial, Earlier, Written
    <3>2. WritesWith(d, data \cup Written(d))'
      BY <1>k, <2>3, <2>4, <2>8, <3>1 DEF WritesWith
    <3> QED  BY <1>2, <1>k, <2>1, <2>2, <2>3, <2>4, <2>8, <3>2
             DEF TxnInv, OutsideOK, BeginOK, NextOK, DoneOK, WritesWith
  <2> QED  BY <1>11, <2>5, <2>6, <2>7, <2>8 DEF MoveQuadruple
<1> QED  BY <1>1, <1>3, <1>4, <1>5, <1>6, <1>7, <1>8, <1>9, <1>10, <1>11,
            <1>12
         DEF Move

----------------------------------------------------------------------------
(* Whose keys are where. *)

(* The second key of an operation is not in the database, nor among the    *)
(* lasting ones.                                                           *)
LEMMA SecondKeyFresh ==
    ASSUME IInv, NEW d \in Doers, job[d].mask \cap Quadruple # {},
           NEW n \in Int
    PROVE  KeyOf(d, GenB, n) \notin data \cup Batched(d) \cup {KeyA(d)}
<1>0. /\ RunnerType /\ job \in Jobs /\ job[d].space \in Nat
      /\ i[d] \in Nat /\ serial[d] \in Nat
  BY JobFacts DEF IInv, RunnerInv, RunnerType
<1>1. /\ KeyOf(d, GenB, n)[1] = job[d].space + 1
      /\ \A k \in Int : KeyOf(d, GenA, k)[1] = job[d].space
  BY <1>0 DEF KeyOf, GenA, GenB
<1>2. KeyOf(d, GenB, n) \notin Batched(d) \cup {KeyA(d)}
  BY <1>0, <1>1 DEF Batched, KeyA
<1>3. ASSUME KeyOf(d, GenB, n) \in data PROVE FALSE
  <2>1. PICK e \in Doers : /\ job[e].mask \cap Writes # {}
                           /\ job[d].space + 1 = job[e].space
    BY <1>1, <1>3 DEF IInv, DataInv
  <2>2. e # d
    BY <1>0, <2>1
  <2>3. job[d].mask \cap Writes # {}
    BY DEF Writes
  <2> QED  BY <1>0, <2>1, <2>2, <2>3, SpacesApart
<1> QED  BY <1>2, <1>3

(* What a commit changes. *)
LEMMA CommitIs ==
    ASSUME IInv, NEW d \in Doers, call[d].fn = "done",
           txn[d].kind = "write"
    PROVE  /\ bench[d] \in WriteSteps /\ bench[d] \in job[d].mask
           /\ job[d].mask \cap Writes # {}
           /\ \/ /\ bench[d] \in {"set"} \cup Quadruple
                 /\ txn[d].view = data \cup Written(d)
              \/ bench[d] = "delete" /\ txn[d].view = data \ {KeyA(d)}
              \/ rc[d] = -1 /\ txn[d].view = data
<1>0. /\ pc[d] = "done" /\ TxnInv(d) /\ RunnerOK(d) /\ bench[d] \in Steps
      /\ rc[d] \in Codes
  BY CallPlace DEF IInv, RunnerInv, RunnerType
<1>1. bench[d] \in WriteSteps /\ bench[d] \in job[d].mask
  BY <1>0, StepSets DEF TxnInv, DoneOK, RunnerOK, CountOK
<1>2. job[d].mask \cap Writes # {}
  BY <1>1, StepSets
<1>3. NoTxn.kind = "none"
  BY DEF NoTxn
<1>4. CASE bench[d] \in Quadruple
  BY <1>0, <1>1, <1>2, <1>4 DEF TxnInv, DoneOK, WritesWith
<1>5. CASE bench[d] \in {"set", "delete"}
  <2>1. begun[d] /\ txn[d].view = SingleView(d, rc[d])
    BY <1>0, <1>1, <1>3, <1>5 DEF TxnInv, DoneOK, WritesWith
  <2>2. CASE bench[d] = "set"
    <3>1. Written(d) = {KeyA(d)}
      BY <2>2 DEF Written
    <3>2. rc[d] # ENOENT
      BY <1>0, <2>1, <2>2 DEF TxnInv, DoneOK
    <3> QED  BY <1>0, <1>1, <1>2, <2>1, <2>2, <3>1, <3>2 DEF SingleView, Codes
  <2>3. CASE bench[d] = "delete"
    BY <1>0, <1>1, <1>2, <2>1, <2>3 DEF SingleView
  <2> QED  BY <1>5, <2>2, <2>3
<1> QED  BY <1>1, <1>4, <1>5 DEF WriteSteps, Quadruple

----------------------------------------------------------------------------
(* Steps of the driver. *)

(* The steps of both drivers, one by one. *)
MdbxResetFails(d) ==
    /\ Called(d, "done", ReadSteps)
    /\ (Works /\ txn[d] = NoTxn) \/ Fails
    /\ Return(d, -1)
    /\ UNCHANGED <<data, writer, dbi, txn, cursor, at>>

AnyStep(d) ==
    \/ ThreadNew(d) \/ DbiBegin(d) \/ DbiOpen(d) \/ MdbxDbiOpen(d)
    \/ BeginWrite(d) \/ MdbxAbortFails(d) \/ TxnBegin(d) \/ BeginRead(d)
    \/ DoneWrite(d) \/ DoneRead(d) \/ MdbxResetFails(d)
    \/ NextSet(d) \/ NextDelete(d) \/ NextGet(d) \/ NextIterate(d)
    \/ ThreadDispose(d)

(* The steps of lmdb and of mdbx are among these. *)
LEMMA DriverSteps ==
    ASSUME NEW d \in Doers, DriverStep(d)
    PROVE  AnyStep(d) /\ UNCHANGED env
BY DEF DriverStep, LmdbStep, MdbxStep, MdbxThreadNew, MdbxBegin, MdbxDone,
       MdbxDoneRead, MdbxNext, MdbxThreadDispose, MdbxResetFails, AnyStep

(* A step of the driver answers the call of d or leaves it outstanding,    *)
(* and touches no other context.                                           *)
LEMMA DriverFrame ==
    ASSUME IInv, NEW d \in Doers, AnyStep(d)
    PROVE  /\ call[d].fn \in Functions
           /\ call' = call \/ \E r \in Codes : Return(d, r)
           /\ \A e \in Doers \ {d} : UNCHANGED <<txn[e], cursor[e], at[e]>>
<1>0. /\ 0 \in Codes /\ -1 \in Codes /\ ENOENT \in Codes /\ TxnInv(d)
      /\ DriverType
  BY DEF Codes, IInv, TxnType
<1> USE DEF DriverType
<1>1. CASE ThreadNew(d)
  BY <1>0, <1>1 DEF ThreadNew, Called, Functions, Goto
<1>2. CASE DbiBegin(d) \/ DbiOpen(d) \/ MdbxDbiOpen(d)
  BY <1>0, <1>2 DEF DbiBegin, DbiOpen, MdbxDbiOpen, Functions, Goto, TxnInv,
     AtOK
<1>3. CASE BeginWrite(d) \/ MdbxAbortFails(d) \/ TxnBegin(d)
  BY <1>0, <1>3 DEF BeginWrite, MdbxAbortFails, TxnBegin, Called, Functions,
     Goto, SetTxn, SetCursor, TxnInv, AtOK
<1>4. CASE BeginRead(d)
  BY <1>0, <1>4 DEF BeginRead, Called, Functions, SetTxn, SetCursor
<1>5. CASE DoneWrite(d) \/ DoneRead(d) \/ MdbxResetFails(d)
  BY <1>0, <1>5 DEF DoneWrite, DoneRead, MdbxResetFails, Called, Functions,
     SetTxn, SetCursor
<1>6. CASE NextSet(d)
  BY <1>0, <1>6 DEF NextSet, Called, Functions
<1>7. CASE NextDelete(d)
  BY <1>0, <1>7 DEF NextDelete, Called, Functions
<1>8. CASE NextGet(d) \/ NextIterate(d)
  BY <1>0, <1>8 DEF NextGet, NextIterate, Called, Functions
<1>9. CASE ThreadDispose(d)
  BY <1>0, <1>9 DEF ThreadDispose, Called, Functions, SetTxn, SetCursor
<1> QED  BY <1>1, <1>2, <1>3, <1>4, <1>5, <1>6, <1>7, <1>8, <1>9 DEF AnyStep

(* What an answer leaves of the call. *)
LEMMA Answered ==
    ASSUME IInv, NEW d \in Doers, NEW r \in Codes, Return(d, r)
    PROVE  /\ call'[d].fn = "return" /\ call'[d].rc = r
           /\ call'[d].step = call[d].step /\ call'[d].key = call[d].key
<1>1. call[d] \in CallType /\ call'[d] = Answer(call[d], r)
  BY DEF IInv, RunnerInv, RunnerType, Return
<1> QED  BY <1>1, AnswerType

(* A step of the driver changes nothing of the runner, nor the keys. *)
LEMMA Unmoved ==
    ASSUME NEW d \in Doers, UNCHANGED runner
    PROVE  /\ UNCHANGED <<ignore, job, pc[d], bench[d], i[d], j[d], q[d]>>
           /\ UNCHANGED <<serial[d], rc[d], begun[d]>>
           /\ KeyA(d)' = KeyA(d) /\ KeyB(d)' = KeyB(d)
           /\ Batched(d)' = Batched(d) /\ Earlier(d)' = Earlier(d)
           /\ Written(d)' = Written(d)
           /\ \A n : Partial(d, n)' = Partial(d, n)
           /\ NoTxn' = NoTxn /\ NoCursor' = NoCursor
BY DEF runner, KeyA, KeyB, Batched, Earlier, Written, Partial, KeyOf, NoTxn,
       NoCursor

(* What there is to show of a step of d in the driver. *)
Fits(d) ==
    /\ DriverType'
    /\ writer' = writer \/ {writer, writer'} \subseteq {d, Nobody}
    /\ writer' = d <=> (txn'[d].kind = "write" \/ at'[d] = "dbi_open")
    /\ TxnInv(d)'

(* The invariant, for d, in the form that steps need it. *)
LEMMA AtStart ==
    ASSUME IInv, NEW d \in Doers
    PROVE  /\ TxnInv(d) /\ DriverType /\ RunnerOK(d) /\ RunnerType
           /\ bench[d] \in Steps /\ q[d] \in 1 .. 4 /\ begun[d] \in BOOLEAN
           /\ rc[d] \in Codes /\ call[d].rc \in Codes
           /\ txn[d] \in [kind : {"none", "read", "write", "reset"},
                          view : SUBSET Pairs]
           /\ cursor[d] \in [kind : {"none", "bound", "loose"}, passed : Nat]
           /\ at[d] \in {"out", "dbi", "dbi_open", "begin"}
           /\ NoTxn.kind = "none" /\ NoCursor.kind = "none"
           /\ 0 \in Codes /\ -1 \in Codes /\ ENOENT \in Codes
           /\ txn[d].kind = "none" => txn[d] = NoTxn
           /\ writer = d <=> (txn[d].kind = "write" \/ at[d] = "dbi_open")
           /\ Nobody # d
           /\ NoTxn \in [kind : {"none", "read", "write", "reset"},
                         view : SUBSET Pairs]
           /\ NoCursor \in [kind : {"none", "bound", "loose"}, passed : Nat]
<1>1. /\ TxnInv(d) /\ DriverType /\ RunnerOK(d) /\ RunnerType /\ WriterInv
  BY DEF IInv, RunnerInv, TxnType
<1>2. /\ bench[d] \in Steps /\ q[d] \in 1 .. 4 /\ begun[d] \in BOOLEAN
      /\ rc[d] \in Codes /\ call[d].rc \in Codes
  BY <1>1 DEF RunnerType, CallType
<1>3. /\ txn[d] \in [kind : {"none", "read", "write", "reset"},
                     view : SUBSET Pairs]
      /\ cursor[d] \in [kind : {"none", "bound", "loose"}, passed : Nat]
      /\ at[d] \in {"out", "dbi", "dbi_open", "begin"}
  BY <1>1 DEF DriverType
<1>4. /\ txn[d].kind = "none" => txn[d] = NoTxn
      /\ writer = d <=> (txn[d].kind = "write" \/ at[d] = "dbi_open")
  BY <1>1 DEF TxnInv, OutsideOK, WriterInv
<1>5. /\ NoTxn.kind = "none" /\ NoCursor.kind = "none" /\ Nobody # d
      /\ NoTxn \in [kind : {"none", "read", "write", "reset"},
                    view : SUBSET Pairs]
      /\ NoCursor \in [kind : {"none", "bound", "loose"}, passed : Nat]
      /\ 0 \in Codes /\ -1 \in Codes /\ ENOENT \in Codes
  BY NobodyAssumption DEF NoTxn, NoCursor, Codes
<1> QED  BY <1>1, <1>2, <1>3, <1>4, <1>5

(* thread_new. *)
LEMMA NewFits ==
    ASSUME IInv, NEW d \in Doers, UNCHANGED runner,
           ThreadNew(d) \/ DbiBegin(d) \/ DbiOpen(d) \/ MdbxDbiOpen(d)
    PROVE  Fits(d)
<1>0. /\ TxnInv(d) /\ DriverType /\ at[d] \in {"out", "dbi", "dbi_open", "begin"}
      /\ NoTxn.kind = "none" /\ Nobody # d
      /\ writer = d <=> (txn[d].kind = "write" \/ at[d] = "dbi_open")
      /\ 0 \in Codes /\ -1 \in Codes
  BY AtStart
<1>1. /\ call[d].fn = "thread_new" /\ pc[d] = "new"
      /\ at[d] \in {"out", "dbi", "dbi_open"}
  BY <1>0, CallPlace DEF ThreadNew, DbiBegin, DbiOpen, MdbxDbiOpen, Called,
     TxnInv, AtOK, IInv
<1>2. txn[d] = NoTxn /\ cursor[d] = NoCursor /\ begun[d]
  BY <1>0, <1>1 DEF TxnInv, OutsideOK
<1>3. /\ pc'[d] = "new" /\ begun'[d] /\ NoTxn' = NoTxn /\ NoCursor' = NoCursor
      /\ data' = data /\ txn' = txn /\ cursor' = cursor
  BY <1>1, <1>2, Unmoved DEF ThreadNew, DbiBegin, DbiOpen, MdbxDbiOpen
<1>4. \/ call'[d] = call[d] /\ at'[d] \in {"dbi", "dbi_open"}
      \/ call'[d].fn = "return" /\ at'[d] = "out"
  BY <1>0, Answered DEF ThreadNew, DbiBegin, DbiOpen, MdbxDbiOpen, Goto,
     Called, DriverType
<1>5. TxnInv(d)'
  BY <1>1, <1>2, <1>3, <1>4 DEF TxnInv, AtOK, OutsideOK, BeginOK, NextOK,
     DoneOK
<1>6. /\ at' \in [Doers -> {"out", "dbi", "dbi_open", "begin"}]
      /\ writer' = writer \/ {writer, writer'} \subseteq {d, Nobody}
      /\ writer' = d <=> at'[d] = "dbi_open"
      /\ writer' \in Doers \cup {Nobody}
  BY <1>0, <1>2 DEF ThreadNew, DbiBegin, DbiOpen, MdbxDbiOpen, Goto, Called,
     DriverType
<1> QED  BY <1>0, <1>2, <1>3, <1>5, <1>6 DEF Fits, DriverType

(* thread_dispose. *)
LEMMA DisposeFits ==
    ASSUME IInv, NEW d \in Doers, UNCHANGED runner, ThreadDispose(d)
    PROVE  Fits(d)
<1>0. /\ TxnInv(d) /\ DriverType /\ at[d] \in {"out", "dbi", "dbi_open", "begin"}
      /\ NoTxn.kind = "none" /\ Nobody # d /\ 0 \in Codes
      /\ NoTxn \in [kind : {"none", "read", "write", "reset"},
                    view : SUBSET Pairs]
      /\ NoCursor \in [kind : {"none", "bound", "loose"}, passed : Nat]
  BY AtStart
<1>1. /\ pc[d] = "dispose" /\ at[d] = "out" /\ Return(d, 0)
      /\ txn' = [txn EXCEPT ![d] = NoTxn]
      /\ cursor' = [cursor EXCEPT ![d] = NoCursor]
      /\ writer' = WithoutWriter(d)
      /\ UNCHANGED <<data, at>>
  BY CallPlace DEF ThreadDispose, Called, IInv, SetTxn, SetCursor
<1>2. /\ pc'[d] = "dispose" /\ NoTxn' = NoTxn /\ NoCursor' = NoCursor
      /\ call'[d].fn = "return"
  BY <1>0, <1>1, Unmoved, Answered
<1>3. txn'[d] = NoTxn /\ cursor'[d] = NoCursor
  BY <1>0, <1>1 DEF DriverType
<1>4. TxnInv(d)'
  BY <1>0, <1>1, <1>2, <1>3 DEF TxnInv, AtOK, OutsideOK, BeginOK, NextOK,
     DoneOK
<1> QED  BY <1>0, <1>1, <1>3, <1>4 DEF Fits, DriverType, WithoutWriter

(* begin. *)
LEMMA BeginFits ==
    ASSUME IInv, NEW d \in Doers, UNCHANGED runner,
           before'[d] \subseteq before[d],
           BeginWrite(d) \/ MdbxAbortFails(d) \/ TxnBegin(d) \/ BeginRead(d)
    PROVE  Fits(d)
<1> DEFINE Txns == [kind : {"none", "read", "write", "reset"},
                    view : SUBSET Pairs]
           Cursors == [kind : {"none", "bound", "loose"}, passed : Nat]
<1>0. /\ TxnInv(d) /\ DriverType /\ at[d] \in {"out", "dbi", "dbi_open", "begin"}
      /\ NoTxn.kind = "none" /\ Nobody # d /\ 0 \in Codes /\ -1 \in Codes
      /\ NoTxn \in Txns /\ NoCursor \in Cursors
      /\ cursor[d] \in Cursors
      /\ writer = d <=> (txn[d].kind = "write" \/ at[d] = "dbi_open")
      /\ bench[d] \in Steps
  BY AtStart
<1>1. call[d].fn = "begin" /\ at[d] \in {"out", "begin"}
  BY <1>0 DEF BeginWrite, MdbxAbortFails, TxnBegin, BeginRead, Called,
     TxnInv, AtOK
<1>2. /\ pc[d] = "begin" /\ call[d].step = bench[d]
  BY <1>1, CallPlace DEF IInv
<1>3. /\ begun[d] /\ txn[d].kind \in {"none", "reset"} /\ writer # d
  BY <1>0, <1>1, <1>2 DEF TxnInv, BeginOK
<1>4. /\ pc'[d] = "begin" /\ begun'[d] /\ bench'[d] = bench[d]
      /\ NoTxn' = NoTxn /\ NoCursor' = NoCursor
  BY <1>2, <1>3, Unmoved
<1>5. CASE BeginWrite(d)
  <2>1. /\ bench[d] \in WriteSteps /\ call' = call /\ data' = data
        /\ txn' = [txn EXCEPT ![d] = NoTxn]
        /\ cursor' = [cursor EXCEPT ![d] = NoCursor]
        /\ at' = [at EXCEPT ![d] = "begin"]
        /\ writer' = writer
    BY <1>2, <1>3, <1>5 DEF BeginWrite, Called, SetTxn, SetCursor, Goto,
       WithoutWriter
  <2>2. txn'[d] = NoTxn /\ cursor'[d] = NoCursor /\ at'[d] = "begin"
    BY <1>0, <2>1 DEF DriverType
  <2>3. TxnInv(d)'
    BY <1>0, <1>1, <1>4, <2>1, <2>2
    DEF TxnInv, AtOK, OutsideOK, BeginOK, NextOK, DoneOK
  <2>4. DriverType'
    BY <1>0, <2>1 DEF DriverType
  <2> QED  BY <1>0, <1>3, <2>1, <2>2, <2>3, <2>4 DEF Fits
<1>6. CASE MdbxAbortFails(d)
  <2>1. /\ Return(d, -1) /\ data' = data
        /\ txn' = [txn EXCEPT ![d] = NoTxn]
        /\ cursor' = [cursor EXCEPT ![d] = NoCursor]
        /\ UNCHANGED <<at, writer>> /\ at[d] = "out"
    BY <1>6 DEF MdbxAbortFails, Called, SetTxn, SetCursor
  <2>2. txn'[d] = NoTxn /\ cursor'[d] = NoCursor /\ at'[d] = "out"
    BY <1>0, <2>1 DEF DriverType
  <2>3. call'[d].fn = "return" /\ call'[d].rc = -1
    BY <1>0, <2>1, Answered
  <2>4. TxnInv(d)'
    BY <1>0, <1>4, <2>2, <2>3
    DEF TxnInv, AtOK, OutsideOK, BeginOK, NextOK, DoneOK
  <2>5. DriverType'
    BY <1>0, <2>1 DEF DriverType
  <2> QED  BY <1>0, <1>3, <2>1, <2>2, <2>4, <2>5 DEF Fits
<1>7. CASE TxnBegin(d)
  <2>0. /\ bench[d] \in WriteSteps /\ txn[d] = NoTxn /\ cursor[d] = NoCursor
    BY <1>0, <1>7 DEF TxnBegin, TxnInv, AtOK
  <2>1. /\ at' = [at EXCEPT ![d] = "out"] /\ UNCHANGED <<data, cursor>>
        /\ at'[d] = "out"
    BY <1>0, <1>7 DEF TxnBegin, Goto, DriverType
  <2>2. CASE /\ writer = Nobody /\ writer' = d
             /\ SetTxn(d, Writing) /\ Return(d, 0)
    <3>1. Writing \in Txns /\ Writing.kind = "write" /\ Writing.view = data
      BY <1>0 DEF Writing, DriverType
    <3>2. txn'[d] = Writing /\ txn' \in [Doers -> Txns]
      BY <1>0, <2>2, <3>1 DEF SetTxn, DriverType
    <3>3. call'[d].fn = "return" /\ call'[d].rc = 0
      BY <1>0, <2>2, Answered
    <3>4. Ready(d)'
      BY <1>4, <2>0, <2>1, <3>1, <3>2 DEF Ready, WritesWith
    <3>5. TxnInv(d)'
      BY <1>4, <2>1, <3>1, <3>2, <3>3, <3>4
      DEF TxnInv, AtOK, OutsideOK, BeginOK, NextOK, DoneOK
    <3>6. DriverType'
      BY <1>0, <2>1, <2>2, <3>2 DEF DriverType
    <3> QED  BY <2>2, <3>1, <3>2, <3>5, <3>6 DEF Fits
  <2>3. CASE Return(d, -1) /\ UNCHANGED <<writer, txn>>
    <3>1. call'[d].fn = "return" /\ call'[d].rc = -1
      BY <1>0, <2>3, Answered
    <3>2. TxnInv(d)'
      BY <1>0, <1>4, <2>0, <2>1, <2>3, <3>1
      DEF TxnInv, AtOK, OutsideOK, BeginOK, NextOK, DoneOK
    <3>3. DriverType'
      BY <1>0, <2>1, <2>3 DEF DriverType
    <3> QED  BY <1>0, <1>3, <2>0, <2>1, <2>3, <3>2, <3>3 DEF Fits
  <2> QED  BY <1>7, <2>2, <2>3 DEF TxnBegin
<1>8. CASE BeginRead(d)
  <2>0. /\ bench[d] \in ReadSteps /\ bench[d] \notin WriteSteps
        /\ at[d] = "out" /\ UNCHANGED <<data, writer, at>>
    BY <1>2, <1>8, StepSets DEF BeginRead, Called
  <2>r. Reading \in Txns /\ Reading.kind = "read" /\ Reading.view = data
    BY <1>0 DEF Reading, DriverType
  <2>b. before[d] \subseteq data
    BY DEF IInv, BeforeInv
  <2>c. /\ Bound \in Cursors /\ Bound.kind = "bound"
        /\ Loose(cursor[d]) \in Cursors
    BY <1>0 DEF Bound, Loose
  <2>1. \/ /\ SetTxn(d, Reading) /\ Return(d, 0)
           /\ IF bench[d] = "iterate" THEN SetCursor(d, Bound)
              ELSE UNCHANGED cursor
        \/ /\ SetTxn(d, NoTxn) /\ Return(d, -1)
           /\ SetCursor(d, Loose(cursor[d]))
        \/ /\ SetTxn(d, Reading) /\ Return(d, -1)
           /\ SetCursor(d, NoCursor)
    BY <1>2, <1>8 DEF BeginRead
  <2>2. /\ txn'[d] \in {NoTxn, Reading} /\ txn' \in [Doers -> Txns]
        /\ cursor' \in [Doers -> Cursors]
    <3> HIDE DEF Txns, Cursors
    <3>1. txn \in [Doers -> Txns] /\ cursor \in [Doers -> Cursors]
      BY <1>0 DEF DriverType, Txns, Cursors
    <3>2. SetTxn(d, NoTxn) \/ SetTxn(d, Reading)
      BY <2>1
    <3>3. \/ UNCHANGED cursor \/ SetCursor(d, Bound)
          \/ SetCursor(d, Loose(cursor[d])) \/ SetCursor(d, NoCursor)
      BY <2>1
    <3>4. txn'[d] \in {NoTxn, Reading} /\ txn' \in [Doers -> Txns]
      BY <1>0, <2>r, <3>1, <3>2 DEF SetTxn
    <3>5. cursor' \in [Doers -> Cursors]
      BY <1>0, <2>c, <3>1, <3>3 DEF SetCursor
    <3> QED  BY <3>4, <3>5
  <2>3. /\ call'[d].fn = "return" /\ call'[d].rc \in {0, -1}
        /\ call'[d].rc = 0 => Ready(d)'
    <3>1. CASE /\ SetTxn(d, Reading) /\ Return(d, 0)
               /\ IF bench[d] = "iterate" THEN SetCursor(d, Bound)
                  ELSE UNCHANGED cursor
      <4>1. txn'[d] = Reading /\ (bench[d] = "iterate" => cursor'[d] = Bound)
        BY <1>0, <3>1 DEF SetTxn, SetCursor, DriverType
      <4>2. Ready(d)'
        BY <1>4, <2>0, <2>r, <2>b, <2>c, <4>1 DEF Ready
      <4> QED  BY <1>0, <3>1, <4>2, Answered
    <3>2. CASE Return(d, -1)
      BY <1>0, <3>2, Answered
    <3> QED  BY <2>1, <3>1, <3>2
  <2>4. /\ txn'[d].kind \in {"none", "read"}
        /\ txn'[d].kind = "none" => txn'[d] = NoTxn
    BY <1>0, <2>2, <2>r
  <2>5. TxnInv(d)'
    BY <1>4, <2>0, <2>3, <2>4
    DEF TxnInv, AtOK, OutsideOK, BeginOK, NextOK, DoneOK
  <2>6. DriverType'
    BY <1>0, <2>0, <2>2 DEF DriverType
  <2> QED  BY <1>3, <2>0, <2>4, <2>5, <2>6 DEF Fits
<1> QED  BY <1>5, <1>6, <1>7, <1>8

(* next: only the view of d changes, or its cursor. *)
LEMMA NextFits ==
    ASSUME IInv, NEW d \in Doers, UNCHANGED runner,
           before'[d] \subseteq before[d],
           NextSet(d) \/ NextDelete(d) \/ NextGet(d)
    PROVE  Fits(d)
<1> DEFINE Txns == [kind : {"none", "read", "write", "reset"},
                    view : SUBSET Pairs]
<1>0. /\ TxnInv(d) /\ DriverType /\ RunnerType /\ RunnerOK(d)
      /\ NoTxn.kind = "none"
      /\ 0 \in Codes /\ -1 \in Codes /\ ENOENT \in Codes
      /\ txn[d] \in Txns /\ q[d] \in 1 .. 4 /\ begun[d] \in BOOLEAN
      /\ txn[d].kind = "none" => txn[d] = NoTxn
      /\ writer = d <=> (txn[d].kind = "write" \/ at[d] = "dbi_open")
      /\ bench[d] \in Steps
  BY AtStart
<1>1. /\ call[d].fn = "next" /\ pc[d] = "next" /\ at[d] = "out"
      /\ UNCHANGED <<data, writer, cursor, at>>
      /\ call[d].step \in {"set", "delete", "get"}
  BY CallPlace DEF NextSet, NextDelete, NextGet, Called, IInv
<1>2. /\ bench[d] \in Single \cup Quadruple
      /\ bench[d] \in Single => call[d].step = bench[d]
      /\ bench[d] \in Quadruple => /\ q[d] \in {1, 2} <=> call[d].step = "set"
                                   /\ q[d] = 3 <=> call[d].step = "delete"
                                   /\ q[d] = 4 <=> call[d].step = "get"
      /\ bench[d] \in Single => call[d].key = KeyA(d)
      /\ bench[d] \in Quadruple /\ q[d] \in {1, 3} => call[d].key = KeyB(d)
      /\ bench[d] \in Quadruple /\ q[d] \in {2, 4} => call[d].key = KeyA(d)
  BY <1>0, <1>1, CallPlace DEF IInv, Steps, Single, Quadruple, KeyA, KeyB
<1>3. /\ pc'[d] = "next" /\ bench'[d] = bench[d] /\ q'[d] = q[d]
      /\ begun'[d] = begun[d] /\ NoTxn' = NoTxn /\ NoCursor' = NoCursor
      /\ KeyA(d)' = KeyA(d) /\ KeyB(d)' = KeyB(d)
      /\ Earlier(d)' = Earlier(d)
      /\ \A n : Partial(d, n)' = Partial(d, n)
  BY <1>1, Unmoved
<1>4. /\ \A n \in Nat : ViewAfter(d, n)' = ViewAfter(d, n)
      /\ \A r \in Codes : SingleView(d, r)' = SingleView(d, r)
  BY <1>1, <1>3 DEF ViewAfter, SingleView
<1>5. bench[d] \in Quadruple /\ begun[d] =>
        WritesWith(d, ViewAfter(d, q[d] - 1))
  BY <1>0, <1>1 DEF TxnInv, NextOK
<1>6. bench[d] \in {"set", "delete"} => WritesWith(d, data)
  BY <1>0, <1>1 DEF TxnInv, NextOK
<1>7. /\ bench[d] = "get" => Ready(d) /\ begun[d]
      /\ ~begun[d] => bench[d] = "batch" /\ q[d] = 1 /\ txn[d] = NoTxn
  BY <1>0, <1>1 DEF TxnInv, NextOK, ReadSteps
<1>8. call[d].key \in Pairs
  <2>1. i[d] \in Nat
    BY <1>0 DEF RunnerType
  <2>2. KeyA(d) \in Pairs /\ KeyB(d) \in Pairs
    BY <1>0, <2>1, KeyOfType DEF KeyA, KeyB, Pairs
  <2> QED  BY <1>0, <1>2, <2>2
<1>9. bench[d] \in Quadruple => job[d].mask \cap Quadruple # {}
  BY <1>0, <1>1 DEF RunnerOK, CountOK
<1>q. bench[d] \in Quadruple => bench[d] \notin Single \cup ReadSteps
  BY DEF Single, Quadruple, ReadSteps
(* What is to be shown of the answer and of the view. *)
<1> DEFINE Goal == /\ txn' \in [Doers -> Txns] /\ txn'[d].kind = txn[d].kind
                   /\ call'[d].fn = "return" /\ call'[d].rc \in Codes
                   /\ call'[d].key = call[d].key
                   /\ txn'[d].kind = "none" => txn'[d] = NoTxn
                   /\ ~begun[d] => call'[d].rc = -1 /\ txn'[d] = NoTxn
                   /\ bench[d] = "get" => txn'[d] = txn[d]
                   /\ bench[d] \in Single /\ call'[d].rc = ENOENT =>
                        call[d].key \notin before[d]
                   /\ bench[d] = "set" => call'[d].rc # ENOENT
                   /\ bench[d] \in {"set", "delete"} =>
                        txn'[d].view = SingleView(d, call'[d].rc)
                   /\ bench[d] \in Quadruple /\ begun[d] =>
                        /\ call'[d].rc \in {0, -1}
                        /\ call'[d].rc = 0 =>
                             txn'[d].view = ViewAfter(d, q[d])
<1>10. ASSUME Goal PROVE Fits(d)
  <2>1. bench[d] \in ReadSteps => Ready(d)'
    BY <1>1, <1>2, <1>3, <1>7, <1>10
    DEF Ready, ReadSteps, WriteSteps, Single, Quadruple
  <2>2. NextOK(d)'
    <3>1. ~begun'[d] => /\ bench'[d] = "batch" /\ q'[d] = 1
                        /\ txn'[d] = NoTxn' /\ call'[d].rc = -1
      BY <1>3, <1>7, <1>10
    <3>2. bench'[d] \in Single /\ call'[d].rc = ENOENT =>
            call'[d].key \notin before'[d]
      BY <1>3, <1>10
    <3>3. bench'[d] \in {"set", "delete"} =>
            /\ WritesWith(d, SingleView(d, call[d].rc))'
            /\ bench'[d] = "set" => call'[d].rc # ENOENT
      BY <1>3, <1>4, <1>6, <1>10 DEF WritesWith
    <3>4. bench'[d] \in Quadruple /\ begun'[d] =>
            /\ txn'[d].kind = "write" /\ call'[d].rc \in {0, -1}
            /\ call'[d].rc = 0 => WritesWith(d, ViewAfter(d, q[d]))'
      BY <1>0, <1>3, <1>4, <1>5, <1>10 DEF WritesWith
    <3> QED  BY <1>3, <1>10, <2>1, <3>1, <3>2, <3>3, <3>4 DEF NextOK
  <2>3. TxnInv(d)'
    BY <1>1, <1>3, <1>10, <2>2
    DEF TxnInv, AtOK, OutsideOK, BeginOK, DoneOK
  <2>4. DriverType'
    BY <1>0, <1>1, <1>10 DEF DriverType
  <2> QED  BY <1>0, <1>1, <1>10, <2>3, <2>4 DEF Fits
<1>11. CASE Return(d, -1) /\ UNCHANGED txn
  <2>1. /\ call'[d].fn = "return" /\ call'[d].rc = -1
        /\ call'[d].key = call[d].key
    BY <1>0, <1>11, Answered
  <2>2. txn' \in [Doers -> Txns] /\ txn'[d] = txn[d]
    BY <1>0, <1>11 DEF DriverType
  <2>3. bench[d] \in {"set", "delete"} => txn[d].view = SingleView(d, -1)
    BY <1>6 DEF WritesWith, SingleView
  <2>4. -1 # ENOENT /\ -1 # 0
    BY DEF ENOENT
  <2>5. Goal
    BY <1>0, <1>7, <2>1, <2>2, <2>3, <2>4
  <2> QED  BY <1>10, <2>5
<1>12. CASE /\ Called(d, "next", {"set"}) /\ Live(d, {"write"})
            /\ txn' = [txn EXCEPT ![d].view = @ \cup {call[d].key}]
            /\ Return(d, 0)
  <2>1. /\ call'[d].fn = "return" /\ call'[d].rc = 0
        /\ call'[d].key = call[d].key
    BY <1>0, <1>12, Answered
  <2>2. /\ txn' \in [Doers -> Txns] /\ txn'[d].kind = "write"
        /\ txn'[d].view = txn[d].view \cup {call[d].key}
        /\ txn[d].kind = "write"
    BY <1>0, <1>8, <1>12 DEF DriverType, Live
  <2>3. call[d].step = "set" /\ begun[d]
    BY <1>0, <1>7, <1>12, <2>2 DEF Called
  <2>4. bench[d] \in {"set"} \cup Quadruple
    BY <1>2, <2>3 DEF Single
  <2>5. bench[d] = "set" => txn'[d].view = SingleView(d, 0)
    BY <1>2, <1>6, <2>2 DEF SingleView, WritesWith, Single
  <2>6. bench[d] \in Quadruple => txn'[d].view = ViewAfter(d, q[d])
    <3>1. CASE bench[d] \in Quadruple /\ q[d] = 1
      BY <1>2, <1>5, <2>2, <2>3, <3>1 DEF ViewAfter, Partial, WritesWith
    <3>2. CASE bench[d] \in Quadruple /\ q[d] = 2
      BY <1>2, <1>5, <2>2, <2>3, <3>2 DEF ViewAfter, Partial, WritesWith
    <3> QED  BY <1>2, <2>3, <3>1, <3>2
  <2>7. 0 # ENOENT
    BY DEF ENOENT
  <2>8. bench[d] \notin {"delete", "get"}
    BY <2>4 DEF Quadruple
  <2>9. Goal
    BY <1>0, <2>1, <2>2, <2>3, <2>4, <2>5, <2>6, <2>7, <2>8
  <2> QED  BY <1>10, <2>9
<1>13. CASE /\ Called(d, "next", {"delete"}) /\ Live(d, {"write"})
            /\ txn' = [txn EXCEPT ![d].view = @ \ {call[d].key}]
            /\ Return(d, IF call[d].key \in txn[d].view THEN 0 ELSE ENOENT)
  <2> DEFINE r == IF call[d].key \in txn[d].view THEN 0 ELSE ENOENT
  <2>1. /\ call'[d].fn = "return" /\ call'[d].rc = r /\ r \in Codes
        /\ call'[d].key = call[d].key
    BY <1>0, <1>13, Answered
  <2>2. /\ txn' \in [Doers -> Txns] /\ txn'[d].kind = "write"
        /\ txn'[d].view = txn[d].view \ {call[d].key}
        /\ txn[d].kind = "write"
    BY <1>0, <1>13 DEF DriverType, Live
  <2>3. call[d].step = "delete" /\ begun[d]
    BY <1>0, <1>7, <1>13, <2>2 DEF Called
  <2>4. bench[d] \in {"delete"} \cup Quadruple
    BY <1>2, <2>3 DEF Single
  <2>5. bench[d] = "delete" => /\ txn'[d].view = SingleView(d, r)
                               /\ txn[d].view = data
    BY <1>2, <1>6, <2>2 DEF SingleView, WritesWith, Single, ENOENT
  <2>6. r = ENOENT /\ bench[d] = "delete" => call[d].key \notin before[d]
    BY <2>5 DEF IInv, BeforeInv, ENOENT
  <2>7. bench[d] \in Quadruple => r = 0 /\ txn'[d].view = ViewAfter(d, q[d])
    <3> SUFFICES ASSUME bench[d] \in Quadruple
                 PROVE  r = 0 /\ txn'[d].view = ViewAfter(d, q[d])
      OBVIOUS
    <3>1. q[d] = 3 /\ call[d].key = KeyB(d)
      BY <1>2, <2>3
    <3>2. txn[d].view = data \cup Earlier(d) \cup {KeyA(d), KeyB(d)}
      BY <1>5, <2>3, <3>1 DEF ViewAfter, Partial, WritesWith
    <3>3. KeyB(d) \notin data \cup Earlier(d) \cup {KeyA(d)}
      <4>1. i[d] \in Int
        BY <1>0 DEF RunnerType
      <4> QED  BY <1>9, <4>1, SecondKeyFresh DEF KeyB, Earlier
    <3>4. ViewAfter(d, q[d]) = data \cup Earlier(d) \cup {KeyA(d)}
      BY <3>1 DEF ViewAfter, Partial
    <3> QED  BY <2>2, <3>1, <3>2, <3>3, <3>4
  <2>8. bench[d] \notin {"set", "get"}
    BY <2>4 DEF Quadruple
  <2> HIDE DEF r
  <2>9. Goal
    BY <1>0, <1>q, <2>1, <2>2, <2>3, <2>4, <2>5, <2>6, <2>7, <2>8
  <2> QED  BY <1>10, <2>9
<1>14. CASE /\ Called(d, "next", {"get"}) /\ Live(d, {"read", "write"})
            /\ Return(d, IF call[d].key \in txn[d].view THEN 0 ELSE ENOENT)
            /\ UNCHANGED txn
  <2> DEFINE r == IF call[d].key \in txn[d].view THEN 0 ELSE ENOENT
  <2>1. /\ call'[d].fn = "return" /\ call'[d].rc = r /\ r \in Codes
        /\ call'[d].key = call[d].key
    BY <1>0, <1>14, Answered
  <2>2. /\ txn' \in [Doers -> Txns] /\ txn'[d] = txn[d]
        /\ txn[d].kind \in {"read", "write"}
    BY <1>0, <1>14 DEF DriverType, Live
  <2>3. call[d].step = "get" /\ begun[d]
    BY <1>0, <1>7, <1>14, <2>2 DEF Called
  <2>4. bench[d] \in {"get"} \cup Quadruple
    BY <1>2, <2>3 DEF Single
  <2>5. r = ENOENT /\ bench[d] = "get" => call[d].key \notin before[d]
    BY <1>7 DEF Ready, WriteSteps, Quadruple, ENOENT
  <2>6. bench[d] \in Quadruple => r = 0 /\ txn[d].view = ViewAfter(d, q[d])
    <3> SUFFICES ASSUME bench[d] \in Quadruple
                 PROVE  r = 0 /\ txn[d].view = ViewAfter(d, q[d])
      OBVIOUS
    <3>1. q[d] = 4 /\ call[d].key = KeyA(d)
      BY <1>2, <2>3
    <3>2. txn[d].view = data \cup Earlier(d) \cup {KeyA(d)}
      BY <1>5, <2>3, <3>1 DEF ViewAfter, Partial, WritesWith
    <3>3. ViewAfter(d, q[d]) = data \cup Earlier(d) \cup {KeyA(d)}
      BY <3>1 DEF ViewAfter, Partial
    <3> QED  BY <3>1, <3>2, <3>3
  <2>7. bench[d] \notin {"set", "delete"}
    BY <2>4 DEF Quadruple
  <2> HIDE DEF r
  <2>8. Goal
    BY <1>0, <1>q, <2>1, <2>2, <2>3, <2>4, <2>5, <2>6, <2>7
  <2> QED  BY <1>10, <2>8
<1> HIDE DEF Goal
<1> QED  BY <1>11, <1>12, <1>13, <1>14 DEF NextSet, NextDelete, NextGet

(* A move of the cursor keeps what is known of the context. *)
LEMMA IterateFits ==
    ASSUME IInv, NEW d \in Doers, UNCHANGED runner,
           before'[d] \subseteq before[d], NextIterate(d)
    PROVE  Fits(d)
<1> DEFINE Cursors == [kind : {"none", "bound", "loose"}, passed : Nat]
<1>0. /\ TxnInv(d) /\ DriverType /\ bench[d] \in Steps /\ q[d] \in 1 .. 4
      /\ 0 \in Codes /\ -1 \in Codes /\ ENOENT \in Codes
      /\ cursor[d] \in Cursors /\ begun[d] \in BOOLEAN
      /\ txn[d].kind = "none" => txn[d] = NoTxn
      /\ writer = d <=> (txn[d].kind = "write" \/ at[d] = "dbi_open")
  BY AtStart
<1>1. /\ call[d].fn = "next" /\ pc[d] = "next" /\ at[d] = "out"
      /\ UNCHANGED <<data, writer, txn, at>> /\ call[d].step = "iterate"
  BY CallPlace DEF NextIterate, Called, IInv
<1>2. bench[d] = "iterate"
  <2>1. bench[d] \in Single => call[d].step = bench[d]
    BY <1>1, CallPlace DEF IInv
  <2>2. bench[d] \in Quadruple => call[d].step \in {"set", "delete", "get"}
    <3>1. q[d] = 1 \/ q[d] = 2 \/ q[d] = 3 \/ q[d] = 4
      BY <1>0
    <3> QED  BY <1>1, <3>1, CallPlace DEF IInv
  <2> QED  BY <1>0, <1>1, <2>1, <2>2 DEF Single, Quadruple, Steps
<1>3. Ready(d) /\ begun[d]
  BY <1>0, <1>1, <1>2 DEF TxnInv, NextOK, ReadSteps
<1>4. /\ pc'[d] = "next" /\ bench'[d] = "iterate" /\ begun'[d]
      /\ NoTxn' = NoTxn /\ NoCursor' = NoCursor
  BY <1>1, <1>2, <1>3, Unmoved
<1>5. call'[d].fn = "return"
  BY <1>0, Answered DEF NextIterate
<1>6. cursor' \in [Doers -> Cursors] /\ cursor'[d].kind = cursor[d].kind
  BY <1>0 DEF NextIterate, DriverType
<1>7. bench[d] \notin WriteSteps \cup Single \cup Quadruple
  BY <1>2 DEF WriteSteps, Single, Quadruple
<1>8. Ready(d)'
  BY <1>1, <1>2, <1>3, <1>4, <1>6, <1>7 DEF Ready
<1>9. TxnInv(d)'
  BY <1>0, <1>1, <1>2, <1>4, <1>5, <1>7, <1>8
  DEF TxnInv, AtOK, OutsideOK, BeginOK, NextOK, DoneOK
<1>10. DriverType'
  BY <1>0, <1>1, <1>6 DEF DriverType
<1> QED  BY <1>0, <1>1, <1>9, <1>10 DEF Fits

(* What a commit publishes shows what was asked for. *)
LEMMA CommitShows ==
    ASSUME IInv, NEW d \in Doers, call[d].fn = "done",
           txn[d].kind = "write", rc[d] = 0
    PROVE  Shown(d, txn[d].view)
<1> DEFINE ops == IF bench[d] = "batch" THEN i[d] - j[d] .. i[d] - 1
                  ELSE {i[d]}
<1>0. i[d] \in Nat /\ j[d] \in Nat
  BY DEF IInv, RunnerInv, RunnerType
<1>o. ops \subseteq Int
  BY <1>0
<1>1. /\ bench[d] \in job[d].mask /\ bench[d] \in WriteSteps
      /\ \/ /\ bench[d] \in {"set"} \cup Quadruple
            /\ txn[d].view = data \cup Written(d)
         \/ bench[d] = "delete" /\ txn[d].view = data \ {KeyA(d)}
  <2>1. rc[d] # -1
    OBVIOUS
  <2> QED  BY <2>1, CommitIs
<1>2. CASE bench[d] = "delete"
  BY <1>1, <1>2 DEF Shown, Quadruple, KeyA
<1>3. CASE bench[d] \in {"set"} \cup Quadruple
  <2>1. txn[d].view = data \cup Written(d) /\ bench[d] # "delete"
    BY <1>1, <1>3 DEF Quadruple
  <2>2. \A k \in ops : KeyOf(d, GenA, k) \in Written(d)
    BY DEF Written, Batched, KeyA
  <2>3. ASSUME bench[d] \in Quadruple, NEW k \in ops
        PROVE  KeyOf(d, GenB, k) \notin data \cup Written(d)
    BY <1>1, <1>o, <2>3, SecondKeyFresh DEF Written
  <2> QED  BY <2>1, <2>2, <2>3 DEF Shown
<1> QED  BY <1>1, <1>2, <1>3

(* done. *)
LEMMA DoneFits ==
    ASSUME IInv, NEW d \in Doers, UNCHANGED runner,
           DoneWrite(d) \/ DoneRead(d) \/ MdbxResetFails(d)
    PROVE  Fits(d)
<1> DEFINE Txns == [kind : {"none", "read", "write", "reset"},
                    view : SUBSET Pairs]
           Cursors == [kind : {"none", "bound", "loose"}, passed : Nat]
<1>0. /\ TxnInv(d) /\ DriverType /\ bench[d] \in Steps
      /\ 0 \in Codes /\ -1 \in Codes /\ NoTxn \in Txns
      /\ cursor[d] \in Cursors /\ txn[d] \in Txns /\ Nobody # d
      /\ NoTxn.kind = "none"
      /\ txn[d].kind = "none" => txn[d] = NoTxn
      /\ writer = d <=> (txn[d].kind = "write" \/ at[d] = "dbi_open")
  BY AtStart
<1>1. /\ call[d].fn = "done" /\ pc[d] = "done" /\ at[d] = "out"
      /\ call[d].step = bench[d] /\ UNCHANGED at
  BY CallPlace DEF DoneWrite, DoneRead, MdbxResetFails, Called, IInv
<1>2. /\ pc'[d] = "done" /\ bench'[d] = bench[d] /\ begun'[d] = begun[d]
      /\ rc'[d] = rc[d] /\ NoTxn' = NoTxn /\ NoCursor' = NoCursor
  BY <1>1, Unmoved
<1>3. (~begun[d] => rc[d] = -1) /\ (bench[d] = "set" => rc[d] # ENOENT)
  BY <1>0, <1>1 DEF TxnInv, DoneOK
<1>4. CASE DoneWrite(d)
  <2>1. /\ bench[d] \in WriteSteps /\ SetTxn(d, NoTxn)
        /\ writer' = WithoutWriter(d) /\ cursor' = cursor
        /\ \/ txn[d].kind = "write" /\ data' = txn[d].view /\ Return(d, 0)
           \/ data' = data /\ Return(d, -1)
    BY <1>1, <1>4 DEF DoneWrite, Called
  <2>2. txn'[d] = NoTxn /\ txn' \in [Doers -> Txns]
    BY <1>0, <2>1 DEF SetTxn, DriverType
  <2>3. /\ call'[d].fn = "return" /\ call'[d].rc \in {0, -1}
        /\ call'[d].rc = 0 => txn[d].kind = "write" /\ data' = txn[d].view
    BY <1>0, <2>1, Answered
  <2>4. call'[d].rc = 0 /\ rc[d] = 0 => Shown(d, data')
    BY <1>1, <2>3, CommitShows
  <2>5. Shown(d, data)' <=> Shown(d, data')
    BY DEF runner, Shown, KeyOf
  <2>6. DoneOK(d)'
    BY <1>0, <1>2, <1>3, <2>1, <2>2, <2>3, <2>4, <2>5 DEF DoneOK
  <2>7. TxnInv(d)'
    BY <1>1, <1>2, <2>2, <2>6
    DEF TxnInv, AtOK, OutsideOK, BeginOK, NextOK
  <2>8. DriverType'
    BY <1>0, <1>1, <2>1, <2>2 DEF DriverType, WithoutWriter
  <2> QED  BY <1>0, <1>1, <2>1, <2>2, <2>7, <2>8 DEF Fits, WithoutWriter
<1>5. CASE DoneRead(d) \/ MdbxResetFails(d)
  <2>1. /\ bench[d] \in ReadSteps /\ bench[d] \notin WriteSteps
        /\ UNCHANGED <<data, writer>>
        /\ \/ /\ SetTxn(d, IF txn[d] = NoTxn THEN NoTxn ELSE Reset)
              /\ SetCursor(d, Loose(cursor[d])) /\ Return(d, 0)
           \/ Return(d, -1) /\ UNCHANGED <<txn, cursor>>
    BY <1>1, <1>5, StepSets DEF DoneRead, MdbxResetFails, Called
  <2>2. /\ Reset \in Txns /\ Reset.kind = "reset"
        /\ Loose(cursor[d]) \in Cursors
    BY <1>0 DEF Reset, Loose
  <2>3. txn[d].kind \in {"none", "read"}
    BY <1>0, <1>1, <2>1 DEF TxnInv, DoneOK
  <2>4. /\ txn' \in [Doers -> Txns] /\ cursor' \in [Doers -> Cursors]
        /\ txn'[d].kind \in {"none", "read", "reset"}
        /\ txn'[d].kind = "none" => txn'[d] = NoTxn
        /\ call'[d].fn = "return" /\ call'[d].rc \in {0, -1}
        /\ call'[d].rc = 0 => txn'[d].kind \in {"none", "reset"}
    <3>1. CASE /\ SetTxn(d, IF txn[d] = NoTxn THEN NoTxn ELSE Reset)
               /\ SetCursor(d, Loose(cursor[d])) /\ Return(d, 0)
      <4>1. txn' \in [Doers -> Txns] /\ txn'[d] \in {NoTxn, Reset}
        BY <1>0, <2>2, <3>1 DEF SetTxn, DriverType
      <4>2. cursor' \in [Doers -> Cursors]
        BY <1>0, <2>2, <3>1 DEF SetCursor, DriverType
      <4>3. call'[d].fn = "return" /\ call'[d].rc = 0
        BY <1>0, <3>1, Answered
      <4> QED  BY <1>0, <2>2, <4>1, <4>2, <4>3
    <3>2. CASE Return(d, -1) /\ UNCHANGED <<txn, cursor>>
      <4>1. call'[d].fn = "return" /\ call'[d].rc = -1
        BY <1>0, <3>2, Answered
      <4>2. txn \in [Doers -> Txns] /\ cursor \in [Doers -> Cursors]
        BY <1>0 DEF DriverType
      <4> QED  BY <1>0, <2>3, <3>2, <4>1, <4>2
    <3> QED  BY <2>1, <3>1, <3>2
  <2>5. Shown(d, data)'
    BY <1>2, <2>1, StepSets DEF Shown, ReadSteps, Quadruple
  <2>6. DoneOK(d)'
    BY <1>2, <1>3, <2>1, <2>4, <2>5 DEF DoneOK
  <2>7. TxnInv(d)'
    BY <1>1, <1>2, <2>4, <2>6
    DEF TxnInv, AtOK, OutsideOK, BeginOK, NextOK
  <2>8. DriverType'
    BY <1>0, <1>1, <2>1, <2>4 DEF DriverType
  <2> QED  BY <1>0, <1>1, <2>1, <2>3, <2>4, <2>7, <2>8 DEF Fits
<1> QED  BY <1>4, <1>5

----------------------------------------------------------------------------
(* Everybody together. *)

(* Only done changes the database, to the view of a write transaction. *)
LEMMA DataChange ==
    ASSUME IInv, NEW d \in Doers, AnyStep(d)
    PROVE  \/ data' = data
           \/ /\ call[d].fn = "done" /\ txn[d].kind = "write"
              /\ data' = txn[d].view
BY DEF AnyStep, ThreadNew, DbiBegin, DbiOpen, MdbxDbiOpen, BeginWrite,
       MdbxAbortFails, TxnBegin, BeginRead, DoneWrite, DoneRead,
       MdbxResetFails, NextSet, NextDelete, NextGet, NextIterate,
       ThreadDispose, Called

(* A commit of d changes nothing that was shown to e. *)
LEMMA ShownStays ==
    ASSUME IInv, NEW d \in Doers, NEW e \in Doers, e # d,
           call[d].fn = "done", txn[d].kind = "write",
           pc[e] = "done", bench[e] \in WriteSteps, Shown(e, data)
    PROVE  Shown(e, txn[d].view)
<1> DEFINE ops == IF bench[e] = "batch" THEN i[e] - j[e] .. i[e] - 1
                  ELSE {i[e]}
<1>0. /\ job \in Jobs /\ i[e] \in Nat /\ j[e] \in Nat
      /\ job[e].space \in Nat /\ job[d].space \in Nat /\ RunnerOK(e)
  BY JobFacts DEF IInv, RunnerInv, RunnerType
<1>1. /\ job[d].mask \cap Writes # {}
      /\ \/ txn[d].view = data \cup Written(d)
         \/ txn[d].view = data \ {KeyA(d)}
         \/ txn[d].view = data
  BY CommitIs
<1>2. bench[e] \in job[e].mask /\ job[e].mask \cap Writes # {}
  BY <1>0, StepSets DEF RunnerOK, CountOK
<1>3. /\ job[e].space # job[d].space
      /\ job[e].mask \cap Quadruple # {} => job[e].space + 1 # job[d].space
  BY <1>0, <1>1, <1>2, SpacesApart
<1>4. \A k \in Written(d) \cup {KeyA(d)} : k[1] = job[d].space
  BY WrittenSpace DEF IInv
<1>5. \A n \in Int : KeyOf(e, GenA, n) \notin Written(d) \cup {KeyA(d)}
  <2>1. \A n \in Int : KeyOf(e, GenA, n)[1] = job[e].space
    BY <1>0 DEF KeyOf, GenA
  <2> QED  BY <1>3, <1>4, <2>1
<1>6. bench[e] \in Quadruple =>
        \A n \in Int : KeyOf(e, GenB, n) \notin Written(d) \cup {KeyA(d)}
  <2>1. \A n \in Int : KeyOf(e, GenB, n)[1] = job[e].space + 1
    BY <1>0 DEF KeyOf, GenB
  <2> QED  BY <1>2, <1>3, <1>4, <2>1
<1>7. ops \subseteq Int /\ i[e] \in Int
  BY <1>0
<1>8. /\ \A n \in Int : KeyOf(e, GenA, n) \in data <=>
                        KeyOf(e, GenA, n) \in txn[d].view
      /\ bench[e] \in Quadruple =>
           \A n \in Int : KeyOf(e, GenB, n) \in data <=>
                          KeyOf(e, GenB, n) \in txn[d].view
  BY <1>1, <1>5, <1>6
<1> QED  BY <1>7, <1>8 DEF Shown

(* The keys of before are in the database, and get fewer until begin. *)
LEMMA WatchFacts ==
    ASSUME IInv, Watch, DriverType'
    PROVE  /\ before' \in [Doers -> SUBSET Pairs] /\ BeforeInv'
           /\ \A e \in Doers :
                \/ call'[e].fn = "begin" /\ call[e].fn # "begin"
                \/ before'[e] \subseteq before[e]
<1>1. data' \in SUBSET Pairs /\ before \in [Doers -> SUBSET Pairs]
  BY DEF DriverType, IInv, TxnType
<1> QED  BY <1>1 DEF Watch, BeforeInv

(* Steps of the runner keep the invariant. *)
LEMMA RunnerStepInv ==
    ASSUME IInv, NEW d \in Doers, RunnerStep(d), UNCHANGED driver, Watch
    PROVE  IInv'
<1>1. RunnerInv' /\ \A e \in Doers : e # d => SameFor(e)
  BY RunnerKeeps, OthersSame DEF IInv, RunnerInv
<1>2. /\ DriverType' /\ job' = job
      /\ UNCHANGED <<data, writer, txn, cursor, at>>
  BY RunnerMoves DEF IInv, TxnType, DriverType, driver
<1>3. WriterInv' /\ DataInv'
  BY <1>2 DEF IInv, WriterInv, DataInv
<1>4. /\ before' \in [Doers -> SUBSET Pairs] /\ BeforeInv'
      /\ \A e \in Doers : \/ call'[e].fn = "begin" /\ call[e].fn # "begin"
                          \/ before'[e] \subseteq before[e]
  BY <1>2, WatchFacts
<1>5. TxnInv(d)'
  BY <1>1, <1>4, RunnerTxn
<1>6. ASSUME NEW e \in Doers, e # d PROVE TxnInv(e)'
  <2>1. SameFor(e) /\ UNCHANGED <<txn[e], cursor[e], at[e]>>
    BY <1>1, <1>2, <1>6
  <2>2. before'[e] \subseteq before[e]
    BY <1>4, <2>1 DEF SameFor
  <2> QED  BY <1>2, <2>1, <2>2, OtherKeeps
<1> QED  BY <1>1, <1>2, <1>3, <1>4, <1>5, <1>6 DEF IInv, TxnType

(* Steps of the driver keep the invariant. *)
LEMMA DriverStepInv ==
    ASSUME IInv, NEW d \in Doers, DriverStep(d), UNCHANGED runner, Watch
    PROVE  IInv'
<1>0. AnyStep(d)
  BY DriverSteps
<1>1. /\ call[d].fn \in Functions
      /\ call' = call \/ \E r \in Codes : Return(d, r)
      /\ \A e \in Doers \ {d} : UNCHANGED <<txn[e], cursor[e], at[e]>>
  BY <1>0, DriverFrame
<1>2. RunnerInv' /\ \A e \in Doers : e # d => SameFor(e)
  BY <1>1, AnswerKeeps DEF IInv
<1>3. before'[d] \subseteq before[d]
  <2>1. call'[d].fn = "begin" => call[d].fn = "begin"
    <3>1. CASE call' = call
      BY <3>1
    <3>2. ASSUME NEW r \in Codes, Return(d, r) PROVE call'[d].fn # "begin"
      BY <3>2, Answered
    <3> QED  BY <1>1, <3>1, <3>2
  <2> QED  BY <2>1 DEF Watch
<1>4. Fits(d)
  BY <1>0, <1>3, NewFits, DisposeFits, BeginFits, NextFits, IterateFits,
     DoneFits
  DEF AnyStep
<1>5. /\ before' \in [Doers -> SUBSET Pairs] /\ BeforeInv'
      /\ \A e \in Doers : \/ call'[e].fn = "begin" /\ call[e].fn # "begin"
                          \/ before'[e] \subseteq before[e]
  BY <1>4, WatchFacts DEF Fits
<1>6. \/ data' = data
      \/ /\ call[d].fn = "done" /\ txn[d].kind = "write"
         /\ data' = txn[d].view
  BY <1>0, DataChange
<1>7. ASSUME NEW e \in Doers, e # d PROVE TxnInv(e)'
  <2>1. SameFor(e) /\ UNCHANGED <<txn[e], cursor[e], at[e]>>
    BY <1>1, <1>2, <1>7
  <2>2. before'[e] \subseteq before[e]
    BY <1>5, <2>1 DEF SameFor
  <2>3. txn[e].kind = "write" => data' = data
    BY <1>6, <1>7 DEF IInv, WriterInv
  <2>4. pc[e] = "done" /\ bench[e] \in WriteSteps /\ Shown(e, data) =>
          Shown(e, data')
    BY <1>6, <1>7, ShownStays
  <2> QED  BY <2>1, <2>2, <2>3, <2>4, OtherKeeps
<1>8. WriterInv'
  <2>1. \A e \in Doers : e # Nobody
    BY NobodyAssumption
  <2>2. \A e \in Doers : e # d => (writer' = e <=> writer = e)
    BY <1>4, <2>1 DEF Fits
  <2>3. ASSUME NEW e \in Doers
        PROVE  writer' = e <=> (txn'[e].kind = "write" \/ at'[e] = "dbi_open")
    <3>1. CASE e = d
      BY <1>4, <3>1 DEF Fits
    <3>2. CASE e # d
      BY <1>1, <2>2, <3>2 DEF IInv, WriterInv
    <3> QED  BY <3>1, <3>2
  <2> QED  BY <2>3 DEF WriterInv
<1>9. DataInv'
  <2>0. job' = job
    BY DEF runner
  <2>1. CASE data' = data
    BY <2>0, <2>1 DEF IInv, DataInv
  <2>2. CASE /\ call[d].fn = "done" /\ txn[d].kind = "write"
             /\ data' = txn[d].view
    <3>1. /\ job[d].mask \cap Writes # {}
          /\ txn[d].view \subseteq data \cup Written(d)
      BY <2>2, CommitIs
    <3>2. \A k \in Written(d) : k[1] = job[d].space
      BY WrittenSpace DEF IInv
    <3> QED  BY <2>0, <2>2, <3>1, <3>2 DEF IInv, DataInv
  <2> QED  BY <1>6, <2>1, <2>2
<1> QED  BY <1>2, <1>4, <1>5, <1>7, <1>8, <1>9 DEF IInv, TxnType, Fits

(* Every step keeps the invariant. *)
LEMMA NextInv == IInv /\ [Next]_vars => IInv'
<1> SUFFICES ASSUME IInv, [Next]_vars PROVE IInv'
  OBVIOUS
<1>1. ASSUME NEW d \in Doers, Step(d) PROVE IInv'
  BY <1>1, RunnerStepInv, DriverStepInv DEF Step
<1>2. CASE UNCHANGED <<call, runner, data, writer, txn, cursor, at, before>>
  <2>1. \A e \in Doers :
          SameFor(e) /\ UNCHANGED <<txn[e], cursor[e], at[e], before[e]>>
    BY <1>2 DEF runner, SameFor
  <2>2. \A e \in Doers : TxnInv(e)' /\ RunnerOK(e)'
    BY <1>2, <2>1, OtherKeeps, SameKeeps DEF IInv, RunnerInv
  <2>3. RunnerType' /\ TxnType'
    BY <1>2 DEF IInv, RunnerInv, RunnerType, TxnType, DriverType, runner
  <2>4. WriterInv' /\ DataInv' /\ BeforeInv'
    BY <1>2 DEF IInv, WriterInv, DataInv, BeforeInv, runner
  <2> QED  BY <2>2, <2>3, <2>4 DEF IInv, RunnerInv
<1>3. CASE Free \/ Exited \/ UNCHANGED vars
  BY <1>2, <1>3 DEF Free, Close, Exited, vars, driver
<1> QED  BY <1>1, <1>3 DEF Next

----------------------------------------------------------------------------
(* The results. *)

(* The inductive invariant: where each transaction stands, and what its   *)
(* view is, at every call that the runner makes.                          *)
THEOREM TxnInductive == Spec => []IInv
BY InitInv, NextInv, PTL DEF Spec

(* No call of the lmdb or mdbx library gets a transaction or a cursor     *)
(* that does not fit: ia_lmdb_begin finds nothing but a reset transaction *)
(* to renew, and next and done find the kind of transaction they need     *)
(* unless begin failed.                                                   *)
THEOREM CallsFit == Spec => []HandlesFit
<1>1. ASSUME IInv PROVE HandlesFit
  <2> SUFFICES ASSUME NEW d \in Doers
               PROVE  LET c == call[d]
                          kind == txn[d].kind
                      IN /\ c.fn = "begin" /\ c.step \in ReadSteps =>
                              kind \in {"none", "reset"}
                         /\ c.fn = "next" /\ c.step = "iterate" =>
                              kind = "read" /\ cursor[d].kind = "bound"
                         /\ c.fn = "next" /\ c.step \in {"set", "delete"}
                              /\ begun[d] => kind = "write"
                         /\ c.fn = "next" /\ c.step = "get" /\ begun[d] =>
                              kind \in {"read", "write"}
                         /\ c.fn = "done" /\ c.step \in WriteSteps
                              /\ begun[d] => kind = "write"
    BY DEF HandlesFit
  <2>0. RunnerOK(d) /\ TxnInv(d) /\ bench[d] \in Steps /\ q[d] \in 1 .. 4
    BY <1>1 DEF IInv, RunnerInv, RunnerType
  <2>p. /\ call[d].fn = "begin" => pc[d] = "begin"
        /\ call[d].fn = "next" => pc[d] = "next"
        /\ call[d].fn = "done" => pc[d] = "done"
    BY <1>1, CallPlace DEF IInv
  <2>1. call[d].fn = "begin" => txn[d].kind \in {"none", "reset"}
    BY <2>0, <2>p DEF TxnInv, BeginOK
  <2>2. ASSUME call[d].fn = "next"
        PROVE  /\ call[d].step = "iterate" =>
                    txn[d].kind = "read" /\ cursor[d].kind = "bound"
               /\ call[d].step \in {"set", "delete"} /\ begun[d] =>
                    txn[d].kind = "write"
               /\ call[d].step = "get" /\ begun[d] =>
                    txn[d].kind \in {"read", "write"}
    <3>0. pc[d] = "next" /\ NextOK(d) /\ CallOK(d)
      BY <2>0, <2>2, <2>p DEF TxnInv, RunnerOK
    <3>1. CASE bench[d] \in Quadruple
      <4>1. call[d].step # "iterate"
        BY <2>0, <3>0, <3>1, QuadrupleFacts DEF CallOK
      <4>2. begun[d] => txn[d].kind = "write"
        BY <3>0, <3>1 DEF NextOK
      <4> QED  BY <4>1, <4>2
    <3>2. CASE bench[d] \in {"set", "delete"}
      <4>1. call[d].step = bench[d] /\ txn[d].kind = "write"
        BY <2>2, <3>0, <3>2 DEF CallOK, NextOK, WritesWith, Single
      <4> QED  BY <3>2, <4>1
    <3>3. CASE bench[d] \in ReadSteps
      <4>1. Ready(d) /\ call[d].step = bench[d]
        BY <3>0, <3>3 DEF CallOK, NextOK, Single, ReadSteps
      <4>2. bench[d] \notin WriteSteps
        BY <3>3, StepSets
      <4> QED  BY <3>3, <4>1, <4>2 DEF Ready, ReadSteps
    <3> QED  BY <2>0, <3>1, <3>2, <3>3 DEF Steps, Quadruple, ReadSteps
  <2>3. ASSUME call[d].fn = "done", call[d].step \in WriteSteps, begun[d]
        PROVE  txn[d].kind = "write"
    <3>1. DoneOK(d) /\ pc[d] = "done" /\ bench[d] \in WriteSteps
      BY <2>0, <2>3, <2>p DEF TxnInv, RunnerOK, CallOK
    <3> QED  BY <2>3, <3>1 DEF DoneOK, WritesWith, WriteSteps, Quadruple
  <2> QED  BY <2>1, <2>2, <2>3
<1> QED  BY <1>1, TxnInductive, PTL

(* No key that is there is reported missing by next, neither of the        *)
(* snapshot of a transaction that begin renewed nor of the one write       *)
(* transaction that the calls of ia_quadruple share.                       *)
THEOREM NoKeyMissed == Spec => []PresentIsFound
<1>1. ASSUME IInv PROVE PresentIsFound
  <2> SUFFICES ASSUME NEW d \in Doers, Returned(d, "next"),
                      call[d].rc = ENOENT
               PROVE  \/ bench[d] = "iterate"
                      \/ bench[d] \in Single /\ call[d].key \notin before[d]
    BY DEF PresentIsFound
  <2>0. /\ NextOK(d) /\ bench[d] \in Steps /\ begun[d] \in BOOLEAN
        /\ pc[d] = "next" /\ call[d].fn = "return"
    BY <1>1 DEF IInv, TxnInv, RunnerInv, RunnerType, Returned
  <2>1. call[d].rc # 0 /\ call[d].rc # -1
    BY DEF ENOENT
  <2>2. bench[d] \notin Quadruple
    BY <2>0, <2>1 DEF NextOK
  <2>3. CASE bench[d] \in Single
    BY <2>0, <2>3 DEF NextOK
  <2> QED  BY <2>0, <2>2, <2>3 DEF Steps, Single, Quadruple
<1> QED  BY <1>1, TxnInductive, PTL

(* Whatever done reported as done shows in the database for as long as    *)
(* the doer has not gone on: commits that fail say so, and those of other *)
(* doers touch none of its keys.                                          *)
THEOREM AcknowledgedShows == Spec => []Acknowledged
<1>1. ASSUME IInv PROVE Acknowledged
  BY <1>1 DEF IInv, TxnInv, DoneOK, Acknowledged, Acknowledges, Returned
<1> QED  BY <1>1, TxnInductive, PTL

(* A benchmark whose begin failed leaves with an error: BATCH overwrites  *)
(* the code of begin, but the next of a driver without a transaction      *)
(* fails, too.                                                            *)
THEOREM FailedBeginNoticed == Spec => []FailedBeginFails
<1>1. ASSUME IInv PROVE FailedBeginFails
  BY <1>1 DEF IInv, TxnInv, OutsideOK, FailedBeginFails
<1> QED  BY <1>1, TxnInductive, PTL

(* After thread_dispose a doer has no transaction and no cursor, and the  *)
(* write transaction is free for others, also after a failure half way.   *)
THEOREM DisposeReleases == Spec => []Released
<1>1. ASSUME IInv PROVE Released
  <2> SUFFICES ASSUME NEW d \in Doers, pc[d] = "end"
               PROVE  txn[d] = NoTxn /\ cursor[d] = NoCursor /\ writer # d
    BY DEF Released
  <2>0. TxnInv(d) /\ WriterInv
    BY <1>1 DEF IInv
  <2>1. txn[d] = NoTxn /\ cursor[d] = NoCursor /\ txn[d].kind # "write"
    BY <2>0 DEF TxnInv, OutsideOK, NoTxn
  <2>2. at[d] # "dbi_open"
    BY <2>0 DEF TxnInv, AtOK
  <2> QED  BY <2>0, <2>1, <2>2 DEF WriterInv
<1> QED  BY <1>1, TxnInductive, PTL

(* What other doers see of lmdb and mdbx are whole operations: the only   *)
(* step that changes the database is a commit in done, of one operation   *)
(* or of one batch (the refinement of KeyStore.tla).                      *)
THEOREM WholeOperations == Spec => OperationsAtomic
<1> DEFINE First == {f[d].space : f \in Jobs, d \in Doers}
<1>1. Init => Store!Init
  BY DEF Init, DriverInit, Store!Init
<1>2. ASSUME IInv, [Next]_vars PROVE [Store!Next]_data
  <2>1. ASSUME NEW d \in Doers, Step(d) PROVE Store!Next \/ data' = data
    <3>1. CASE RunnerStep(d) /\ UNCHANGED driver
      BY <3>1 DEF driver
    <3>2. CASE DriverStep(d) /\ data' # data
      <4>1. /\ call[d].fn = "done" /\ txn[d].kind = "write"
            /\ data' = txn[d].view
        BY <1>2, <3>2, DriverSteps, DataChange
      <4>2. /\ pc[d] = "done" /\ job \in Jobs
            /\ job[d].space \in First
        BY <1>2, <4>1, CallPlace DEF IInv, RunnerInv, RunnerType
      <4>3. \A k \in Written(d) \cup {KeyA(d)} :
              k \in Store!Lasting(job[d].space)
        <5> SUFFICES ASSUME NEW k \in Written(d) \cup {KeyA(d)}
                     PROVE  k \in {job[d].space} \X (0 .. Count - 1)
          BY DEF Store!Lasting
        <5>1. /\ k[1] = job[d].space /\ k[2] \in 0 .. Count - 1
              /\ k \in Pairs
          BY <1>2, WrittenSpace DEF IInv
        <5> QED  BY <5>1 DEF Pairs
      <4>4. \/ txn[d].view = data \cup Written(d)
            \/ txn[d].view = data \ {KeyA(d)}
        BY <1>2, <3>2, <4>1, CommitIs
      <4>5. CASE txn[d].view = data \cup Written(d)
        <5>1. Cardinality(Written(d)) \in 1 .. BatchLength
          BY <1>2, <4>2, WrittenCount DEF IInv
        <5>s. Store!Cardinality(Written(d)) = Cardinality(Written(d))
          BY DEF Store!Cardinality, Cardinality
        <5>2. Store!Put(job[d].space)
          BY <4>1, <4>3, <4>5, <5>1, <5>s DEF Store!Put
        <5> QED  BY <4>2, <5>2 DEF Store!Next
      <4>6. CASE txn[d].view = data \ {KeyA(d)}
        <5>1. Store!Remove(job[d].space)
          BY <4>1, <4>3, <4>6 DEF Store!Remove
        <5> QED  BY <4>2, <5>1 DEF Store!Next
      <4> QED  BY <4>4, <4>5, <4>6
    <3> QED  BY <2>1, <3>1, <3>2 DEF Step
  <2>2. CASE Free \/ Exited \/ UNCHANGED vars
    BY <2>2 DEF Free, Close, Exited, vars, driver
  <2> QED  BY <1>2, <2>1, <2>2 DEF Next
<1> QED  BY <1>1, <1>2, TxnInductive, PTL DEF Spec, OperationsAtomic, Store!Spec
=============================================================================
