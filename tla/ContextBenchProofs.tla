------------------------- MODULE ContextBenchProofs -------------------------
(***************************************************************************)
(* rocksdb, leveldb, sophia, wiredtiger, forestdb and upscaledb under the  *)
(* benchmarks, for any doers, jobs and numbers of operations: as many      *)
(* calls of the libraries as you like may fail.                            *)
(*                                                                         *)
(* The argument: what the drivers do in a function of ia_driver.h is a     *)
(* case of an outcome that they have in common (the *Out definitions), and *)
(* a doer only changes keys of its own key spaces, so that what CtxInv     *)
(* says of its keys and of its transaction is not disturbed by others.     *)
(***************************************************************************)
EXTENDS ContextBench, RunnerProofs, WellFoundedInduction, TLAPS

Txns == [kind : {"none", "open", "db"}, puts : SUBSET Pairs,
         dels : SUBSET Pairs]
CursorSet == [kind : {"none", "snapshot", "live"}, view : SUBSET Pairs,
              at : CallKeys]

DriverType ==
    /\ data \in SUBSET Pairs
    /\ txn \in [Doers -> Txns]
    /\ cursor \in [Doers -> CursorSet]
    /\ held \in [Doers -> SUBSET Handles]
    /\ db \in {"open", "closed"}
    /\ at \in [Doers -> {"out", "flag", "compact", "rest"}]

ContextType ==
    /\ DriverType /\ before \in [Doers -> SUBSET Pairs]
    /\ needsCompact \in BOOLEAN

(* They are in the transaction, or else show in the database. *)
Wrote(d, puts, dels) ==
    /\ txn[d].kind = "open" => txn[d].puts = puts /\ txn[d].dels = dels
    /\ txn[d].kind # "open" => puts \subseteq data /\ dels \cap data = {}

(* No handle is left of the last operation. *)
Clean(d) ==
    txn[d] = NoTxn /\ (chosen # "wiredtiger" => cursor[d] = NoCursor)

(* A BATCH that is written operation by operation. *)
Direct(d) ==
    /\ txn[d] = NoTxn /\ bench[d] = "batch"
    /\ chosen = "forestdb" \/ ~begun[d]

IterReady(d) ==
    /\ cursor[d].kind # "none"
    /\ chosen = "forestdb" =>
         cursor[d].kind = "snapshot" /\ Ahead(cursor[d], data) # {}

AtOK(d) ==
    /\ chosen # "forestdb" => at[d] = "out"
    /\ at[d] # "out" => call[d].fn = "begin"

(* The handles that a context of the driver has besides its transaction    *)
(* and its cursor.                                                         *)
OwnHandles(c) ==
    CASE c = "sophia" -> {"entry", "lost"}
      [] c = "upscaledb" -> {}
      [] OTHER -> Handles \ {"lost"}

KindOK(d) ==
    /\ txn[d].kind = "none" => txn[d] = NoTxn
    /\ txn[d].kind = "db" => txn[d] = TheDb /\ chosen = "sophia"
    /\ bench[d] \in Single => txn[d].kind # "open"
    /\ bench[d] = "iterate" => txn[d].kind # "open"
    /\ chosen = "forestdb" /\ bench[d] = "batch" => txn[d].kind # "open"
    /\ held[d] \subseteq OwnHandles(chosen)

LeftOver(d) == held[d] = {} \/ (chosen = "forestdb" /\ held[d] = {"file"})

OutsideOK(d) ==
    LET c == call[d] IN
    /\ pc[d] = "new" =>
         /\ passes[d] = 0 /\ txn[d] = NoTxn
         /\ c.fn = "thread_new" => cursor[d] = NoCursor /\ held[d] = {}
         /\ c.fn = "return" =>
              /\ c.rc = 0 => Clean(d)
              /\ c.rc # 0 => cursor[d] = NoCursor /\ LeftOver(d)
    /\ pc[d] = "pass" => txn[d].kind # "db" /\ (rc[d] = 0 => Clean(d))
    /\ pc[d] = "dispose" =>
         /\ txn[d].kind # "db"
         /\ c.fn = "return" =>
              /\ txn[d] = NoTxn /\ cursor[d] = NoCursor
              /\ held[d] \subseteq {"lost"}
    /\ pc[d] = "end" =>
         /\ txn[d] = NoTxn /\ cursor[d] = NoCursor
         /\ held[d] \subseteq {"lost"} \/ (LeftOver(d) /\ passes[d] = 0)

(* After a begin that succeeded. *)
Ready(d) ==
    /\ bench[d] \in Single =>
         txn[d] = IF chosen = "sophia" THEN TheDb ELSE NoTxn
    /\ bench[d] \in Quadruple =>
         \/ txn[d] = OpenTxn
         \/ txn[d] = NoTxn /\ chosen = "forestdb" /\ bench[d] = "batch"
    /\ bench[d] = "iterate" => IterReady(d) /\ txn[d] = NoTxn

BenchOK(d) ==
    pc[d] \in {"begin", "next", "done"} =>
        /\ bench[d] # "iterate" /\ chosen # "wiredtiger" =>
             cursor[d] = NoCursor
        /\ bench[d] = "iterate" => txn[d] = NoTxn
        /\ bench[d] \in Quadruple => txn[d].kind # "db"

BeginOK(d) ==
    pc[d] = "begin" =>
        /\ call[d].fn = "begin" => Clean(d)
        /\ call[d].fn = "return" =>
             /\ call[d].rc \in {0, -1}
             /\ call[d].rc = 0 => Ready(d)
             /\ call[d].rc = -1 => txn[d] = NoTxn

(* SET and DELETE with the code of next. *)
SingleShown(d, code) ==
    code = 0 => /\ bench[d] = "set" => KeyA(d) \in data
                /\ bench[d] = "delete" => KeyA(d) \notin data

NextOK(d) ==
    LET c == call[d] IN
    pc[d] = "next" =>
        /\ bench[d] \in Single =>
             /\ txn[d] = IF chosen = "sophia" THEN TheDb ELSE NoTxn
             /\ c.fn = "return" => SingleShown(d, c.rc)
             /\ c.fn = "return" /\ c.rc = ENOENT => c.key \notin before[d]
        /\ bench[d] = "iterate" =>
             (c.fn = "next" \/ c.rc = 0 => IterReady(d))
        /\ bench[d] \in Quadruple =>
             /\ txn[d].kind = "open" \/ Direct(d)
             /\ chosen = "sophia" /\ txn[d] = NoTxn =>
                  q[d] = 1 /\ (c.fn = "return" => c.rc = -1)
             /\ c.fn = "next" =>
                  Wrote(d, PutsAfter(d, q[d] - 1), DelsAfter(d, q[d] - 1))
             /\ c.fn = "return" => c.rc \in {0, -1}
             /\ c.fn = "return" /\ c.rc = 0 =>
                  Wrote(d, PutsAfter(d, q[d]), DelsAfter(d, q[d]))

DoneOK(d) ==
    LET c == call[d] IN
    pc[d] = "done" =>
        /\ bench[d] \in Single => SingleShown(d, rc[d])
        /\ c.fn = "done" /\ bench[d] \in Quadruple =>
             Wrote(d, Written(d), WrittenB(d))
        /\ c.fn = "done" /\ bench[d] = "crud" => txn[d].kind = "open"
        /\ c.fn = "return" =>
             /\ c.rc \in {0, -1}
             /\ txn[d].kind # "db"
             /\ c.rc = 0 => Clean(d)
             /\ c.rc = 0 /\ rc[d] = 0 => Shown(d, data)

(* The second key of an operation may be in the database now: in the       *)
(* middle of an operation of a BATCH without transaction.                  *)
Midway(d) ==
    /\ pc[d] = "next" /\ Direct(d)
    /\ call[d].fn = "next" => q[d] \in {2, 3}
    /\ call[d].fn = "return" => q[d] \in {1, 2} \/ call[d].rc # 0

(* Second keys are only there for as long, or after a failure. *)
FreshOK(d) ==
    job[d].mask \cap Quadruple # {} =>
        \A k \in data :
            k[1] = job[d].space + 1 =>
                \/ Midway(d) /\ k = KeyB(d)
                \/ pc[d] \in {"pass", "dispose", "end"} /\ rc[d] # 0

CtxInv(d) ==
    /\ AtOK(d) /\ KindOK(d) /\ OutsideOK(d) /\ BenchOK(d)
    /\ BeginOK(d) /\ NextOK(d) /\ DoneOK(d) /\ FreshOK(d)

BeforeInv == \A d \in Doers : before[d] \subseteq data

IInv ==
    /\ RunnerInv /\ ContextType /\ BeforeInv
    /\ \A d \in Doers : CtxInv(d)

----------------------------------------------------------------------------
(* Keys. *)

(* Every set of keys has a first one: the next key of a cursor is defined. *)
LEMMA LeastNat ==
    ASSUME NEW T \in SUBSET Nat, T # {}
    PROVE  \E x \in T : \A y \in T : x <= y
<1> DEFINE R == OpToRel(<, Nat)
<1>0. IsWellFoundedOn(R, Nat)
  BY NatLessThanWellFounded, Zenon
<1>r. \A x, y \in Nat : y < x => <<y, x>> \in R
  BY DEF OpToRel
<1> HIDE DEF R
<1>1. PICK x \in T : \A y \in T : ~(<<y, x>> \in R)
  BY <1>0, WFMin
<1>2. \A y \in T : ~(y < x)
  BY <1>1, <1>r
<1> QED  BY <1>1, <1>2

(* Any keys have a first one. *)
LEMMA LeastKey ==
    ASSUME NEW S \in SUBSET Pairs, S # {}
    PROVE  \E k \in S : \A l \in S \ {k} : Precedes(k, l)
<1> DEFINE F == {k[1] : k \in S}
<1>1. F \in SUBSET Nat /\ F # {}
  BY DEF Pairs
<1> HIDE DEF F
<1>2. PICK a \in F : \A b \in F : a <= b
  BY <1>1, LeastNat
<1> DEFINE G == {k[2] : k \in {l \in S : l[1] = a}}
<1>3. G \in SUBSET Nat /\ G # {}
  BY <1>2 DEF Pairs, F
<1> HIDE DEF G
<1>4. PICK b \in G : \A c \in G : b <= c
  BY <1>3, LeastNat
<1>5. PICK k \in S : k[1] = a /\ k[2] = b
  BY <1>4 DEF G
<1>6. ASSUME NEW l \in S \ {k} PROVE Precedes(k, l)
  <2>1. /\ a \in Nat /\ b \in Nat /\ l[1] \in Nat /\ l[2] \in Nat
        /\ a <= l[1]
    BY <1>1, <1>2, <1>3, <1>4 DEF Pairs, F
  <2>2. CASE l[1] = a
    <3>1. b <= l[2]
      BY <1>4, <2>2 DEF G
    <3>2. l[2] # b
      BY <1>5, <2>2 DEF Pairs
    <3> QED  BY <1>5, <2>1, <2>2, <3>1, <3>2 DEF Precedes
  <2> QED  BY <1>5, <2>1, <2>2 DEF Precedes
<1> QED  BY <1>6

(* A cursor that moves on stays the cursor that it is. *)
LEMMA MovedFacts ==
    ASSUME NEW c \in CursorSet, NEW keys \in SUBSET Pairs, Ahead(c, keys) # {}
    PROVE  /\ Moved(c, keys) \in CursorSet /\ Moved(c, keys).kind = c.kind
           /\ Moved(c, keys).view = c.view
<1> DEFINE rest == Ahead(c, keys)
           least == CHOOSE k \in rest : \A l \in rest \ {k} : Precedes(k, l)
<1>1. rest \in SUBSET Pairs
  BY DEF Ahead, CursorSet
<1>2. least \in rest
  <2> HIDE DEF rest
  <2>1. \E k \in rest : \A l \in rest \ {k} : Precedes(k, l)
    BY <1>1, LeastKey DEF rest
  <2> QED  BY <2>1
<1>3. Moved(c, keys) = [c EXCEPT !.at = least] /\ least \in CallKeys
  BY <1>1, <1>2 DEF Moved, CallKeys, Pairs
<1> HIDE DEF least
<1> QED  BY <1>3 DEF CursorSet

(* A snapshot does not see what is written after it. *)
LEMMA AheadSnapshot ==
    ASSUME NEW c, c.kind = "snapshot", NEW K, NEW L
    PROVE  Ahead(c, K) = Ahead(c, L)
BY DEF Ahead

----------------------------------------------------------------------------
(* The invariant holds at the start. *)
LEMMA InitInv == Init => IInv
<1> SUFFICES ASSUME Init PROVE IInv
  OBVIOUS
<1>1. RunnerInv
  BY RunnerInitInv DEF Init
<1>2. /\ NoTxn \in Txns /\ NoCursor \in CursorSet /\ NoTxn.kind = "none"
      /\ NoTxn.kind # "db" /\ NoTxn.kind # "open"
  BY DEF NoTxn, NoCursor, Txns, CursorSet, CallKeys
<1>3. ContextType /\ BeforeInv
  BY <1>2 DEF Init, ContextsInit, FdbInit, ContextType, DriverType, BeforeInv
<1>4. ASSUME NEW d \in Doers PROVE CtxInv(d)
  <2>1. /\ txn[d] = NoTxn /\ cursor[d] = NoCursor /\ held[d] = {}
        /\ data = {} /\ at[d] = "out" /\ pc[d] = "new" /\ passes[d] = 0
        /\ call[d].fn = "thread_new"
    BY DEF Init, ContextsInit, FdbInit, RunnerInit, CallsInit, Request
  <2> QED  BY <1>2, <2>1 DEF CtxInv, AtOK, KindOK, OutsideOK, BenchOK,
           BeginOK, NextOK, DoneOK, FreshOK
<1> QED  BY <1>1, <1>3, <1>4 DEF IInv

(* Nothing in the key spaces that e writes to changes. *)
Untouched(e) ==
    \A k \in data \cup data' :
        k[1] \in WriteSpaces(job[e]) => (k \in data <=> k \in data')

(* What a doer does not notice. *)
LEMMA OtherKeeps ==
    ASSUME IInv, NEW e \in Doers, SameFor(e), UNCHANGED chosen,
           UNCHANGED <<txn[e], cursor[e], held[e], at[e]>>,
           before'[e] \subseteq before[e], Untouched(e)
    PROVE  CtxInv(e)'
<1>0. /\ CtxInv(e) /\ RunnerInv /\ RunnerOK(e)
      /\ q[e] \in 1 .. 4 /\ q[e] - 1 \in Nat /\ q[e] \in Nat
  BY DEF IInv, RunnerInv, RunnerType
<1> USE DEF SameFor
<1>c. NoTxn' = NoTxn /\ NoCursor' = NoCursor /\ TheDb' = TheDb
      /\ OpenTxn' = OpenTxn
  BY DEF NoTxn, NoCursor, TheDb, OpenTxn
<1>1. AtOK(e)' /\ KindOK(e)'
  BY <1>0, <1>c DEF CtxInv, AtOK, KindOK
<1>2. /\ Clean(e)' <=> Clean(e)
      /\ LeftOver(e)' <=> LeftOver(e)
      /\ Direct(e)' <=> Direct(e)
      /\ IterReady(e) => IterReady(e)'
  BY <1>c, AheadSnapshot DEF Clean, LeftOver, Direct, IterReady
<1>3. OutsideOK(e)' /\ BenchOK(e)' /\ BeginOK(e)'
  BY <1>0, <1>2, <1>c DEF CtxInv, OutsideOK, BenchOK, BeginOK, Ready
<1>4. /\ \A n \in Int, g \in {GenA, GenB} : KeyOf(e, g, n)' = KeyOf(e, g, n)
      /\ KeyA(e)' = KeyA(e) /\ KeyB(e)' = KeyB(e)
      /\ Earlier(e)' = Earlier(e) /\ EarlierB(e)' = EarlierB(e)
      /\ Written(e)' = Written(e) /\ WrittenB(e)' = WrittenB(e)
  BY DEF KeyOf, KeyA, KeyB, Earlier, EarlierB, Batched, BatchedB, Written,
     WrittenB
<1>5. \A n \in Nat : /\ PutsAfter(e, n)' = PutsAfter(e, n)
                     /\ DelsAfter(e, n)' = DelsAfter(e, n)
  BY <1>4 DEF PutsAfter, DelsAfter
<1>6. ASSUME pc[e] \in {"begin", "next", "done"}
      PROVE  /\ bench[e] \in Writes => job[e].space \in WriteSpaces(job[e])
             /\ bench[e] \in Quadruple =>
                  job[e].space + 1 \in WriteSpaces(job[e])
  BY <1>0, <1>6, OwnSpaces
<1>8. /\ \A n \in Nat : \A k \in PutsAfter(e, n) \cup DelsAfter(e, n) :
           k[1] = job[e].space \/ k[1] = job[e].space + 1
      /\ \A k \in Written(e) \cup WrittenB(e) :
           k[1] = job[e].space \/ k[1] = job[e].space + 1
  BY <1>0, KeySets DEF PutsAfter, DelsAfter
<1>9. ASSUME pc[e] \in {"next", "done"}, NEW code, SingleShown(e, code)
      PROVE  SingleShown(e, code)'
  <2>1. bench[e] \in {"set", "delete"} => (KeyA(e) \in data <=> KeyA(e) \in data')
    BY <1>0, <1>6, <1>9, KeySets DEF Untouched, Writes
  <2> QED  BY <1>4, <1>9, <2>1 DEF SingleShown
<1>10. NextOK(e)'
  <2> SUFFICES ASSUME pc[e] = "next" PROVE NextOK(e)'
    BY DEF NextOK
  <2>1. NextOK(e)
    BY <1>0 DEF CtxInv
  <2>2. CASE bench[e] \in Single
    <3>1. bench[e] \notin Quadruple /\ bench[e] # "iterate"
      BY <2>2 DEF Single, Quadruple
    <3> QED  BY <1>9, <1>c, <2>1, <2>2, <3>1 DEF NextOK
  <2>3. CASE bench[e] \in Quadruple
    <3>1. bench[e] \notin Single /\ bench[e] # "iterate"
      BY <2>3 DEF Single, Quadruple
    <3>2. \A n \in Nat : Wrote(e, PutsAfter(e, n), DelsAfter(e, n)) =>
                         Wrote(e, PutsAfter(e, n), DelsAfter(e, n))'
      <4> SUFFICES ASSUME NEW n \in Nat,
                          Wrote(e, PutsAfter(e, n), DelsAfter(e, n))
                   PROVE  Wrote(e, PutsAfter(e, n), DelsAfter(e, n))'
        OBVIOUS
      <4> DEFINE puts == PutsAfter(e, n)
                 dels == DelsAfter(e, n)
      <4>1. Wrote(e, puts, dels) /\ puts' = puts /\ dels' = dels
        BY <1>5
      <4>2. txn[e].kind # "open" =>
              \A k \in puts \cup dels : k \in data <=> k \in data'
        BY <1>6, <1>8, <2>3 DEF Untouched, Writes
      <4> HIDE DEF puts, dels
      <4>3. Wrote(e, puts, dels)'
        BY <4>1, <4>2 DEF Wrote
      <4> QED  BY <4>3 DEF puts, dels
    <3> QED  BY <1>0, <1>2, <1>c, <2>1, <2>3, <3>1, <3>2 DEF NextOK
  <2>4. CASE bench[e] \notin Single \cup Quadruple
    BY <1>2, <2>1, <2>4 DEF NextOK
  <2> QED  BY <2>2, <2>3, <2>4
<1>11. DoneOK(e)'
  <2> SUFFICES ASSUME pc[e] = "done" PROVE DoneOK(e)'
    BY DEF DoneOK
  <2>1. DoneOK(e)
    BY <1>0 DEF CtxInv
  <2>2. SingleShown(e, rc[e]) => SingleShown(e, rc[e])'
    BY <1>9
  <2>3. bench[e] \in Quadruple /\ Wrote(e, Written(e), WrittenB(e)) =>
          Wrote(e, Written(e), WrittenB(e))'
    <3>1. bench[e] \in Quadruple =>
            \A k \in Written(e) \cup WrittenB(e) : k \in data <=> k \in data'
      BY <1>6, <1>8 DEF Untouched, Writes
    <3> QED  BY <1>4, <3>1 DEF Wrote
  <2>4. Shown(e, data) => Shown(e, data')
    <3> DEFINE ops == IF bench[e] = "batch" THEN i[e] - j[e] .. i[e] - 1
                      ELSE {i[e]}
    <3>1. ops \subseteq Int /\ i[e] \in Int
      BY <1>0 DEF RunnerInv, RunnerType
    <3>2. bench[e] \in Writes =>
            \A n \in Int : KeyOf(e, GenA, n) \in data <=>
                           KeyOf(e, GenA, n) \in data'
      BY <1>0, <1>6, KeySpace DEF Untouched
    <3>3. bench[e] \in Quadruple =>
            \A n \in Int : KeyOf(e, GenB, n) \in data <=>
                           KeyOf(e, GenB, n) \in data'
      BY <1>0, <1>6, KeySpace DEF Untouched
    <3> HIDE DEF ops
    <3>4. Shown(e, data) <=>
            /\ bench[e] \in {"set"} \cup Quadruple =>
                 \A k \in ops : KeyOf(e, GenA, k) \in data
            /\ bench[e] \in Quadruple =>
                 \A k \in ops : KeyOf(e, GenB, k) \notin data
            /\ bench[e] = "delete" => KeyOf(e, GenA, i[e]) \notin data
      BY DEF Shown, ops
    <3>5. Shown(e, data') <=>
            /\ bench[e] \in {"set"} \cup Quadruple =>
                 \A k \in ops : KeyOf(e, GenA, k) \in data'
            /\ bench[e] \in Quadruple =>
                 \A k \in ops : KeyOf(e, GenB, k) \notin data'
            /\ bench[e] = "delete" => KeyOf(e, GenA, i[e]) \notin data'
      BY DEF Shown, ops
    <3> QED  BY <3>1, <3>2, <3>3, <3>4, <3>5 DEF Writes
  <2>5. Shown(e, data)' <=> Shown(e, data')
    BY DEF Shown, KeyOf
  <2> QED  BY <1>2, <2>1, <2>2, <2>3, <2>4, <2>5 DEF DoneOK
<1>12. FreshOK(e)'
  <2>1. Midway(e)' <=> Midway(e)
    BY <1>2 DEF Midway
  <2>2. job[e].mask \cap Quadruple # {} =>
          job[e].space + 1 \in WriteSpaces(job[e])
    BY DEF WriteSpaces
  <2>3. FreshOK(e)
    BY <1>0 DEF CtxInv
  <2> QED  BY <1>4, <2>1, <2>2, <2>3 DEF FreshOK, Untouched
<1> QED  BY <1>1, <1>3, <1>10, <1>11, <1>12 DEF CtxInv

(* Steps of the runner. *)
LEMMA RunnerCtx ==
    ASSUME IInv, NEW d \in Doers, RunnerStep(d), UNCHANGED <<driver, chosen>>,
           RunnerInv', call'[d].fn # "begin" => before'[d] \subseteq before[d]
    PROVE  CtxInv(d)'
<1> USE DEF ToCall, ToPass, InBench, Counts, Returned
<1>0. /\ CtxInv(d) /\ RunnerOK(d) /\ RunnerOK(d)' /\ RunnerType
      /\ bench[d] \in Steps /\ q[d] \in 1 .. 4 /\ call[d].rc \in Codes
      /\ rc[d] \in Codes /\ i[d] \in Nat /\ j[d] \in Nat
      /\ txn[d].kind \in {"none", "open", "db"}
      /\ begun[d] \in BOOLEAN
  BY DEF IInv, RunnerInv, RunnerType, ContextType, DriverType, Txns, CallType
<1>1. Move(d) /\ UNCHANGED <<ignore, job>>
  BY RunnerMoves DEF IInv
<1>d. UNCHANGED <<data, txn[d], cursor[d], held[d], at[d], chosen>>
  BY DEF driver, context, forestdb
<1>k. /\ NoTxn' = NoTxn /\ NoCursor' = NoCursor /\ TheDb' = TheDb
      /\ OpenTxn' = OpenTxn
      /\ NoTxn.kind = "none" /\ TheDb.kind = "db" /\ OpenTxn.kind = "open"
      /\ OpenTxn.puts = {} /\ OpenTxn.dels = {}
  BY DEF NoTxn, NoCursor, TheDb, OpenTxn
<1>2. AtOK(d)'
  <2>1. call[d].fn \in {"return", "none"}
    BY <1>0, <1>1 DEF Move, MoveNew, MoveStart, MoveAgain, MoveDispose,
       MoveEnd, MoveBegin, MoveSingle, MoveQuadruple, MoveIterate, MoveDone,
       RunnerOK, CallOK
  <2>2. at[d] = "out"
    BY <1>0, <2>1 DEF CtxInv, AtOK
  <2> QED  BY <1>d, <2>2 DEF AtOK
<1>c. Clean(d)' <=> Clean(d)
  BY <1>d, <1>k DEF Clean
<1>l. LeftOver(d)' <=> LeftOver(d)
  BY <1>d DEF LeftOver
<1>i. IterReady(d)' <=> IterReady(d)
  BY <1>d DEF IterReady
<1>s. serial'[d] = serial[d] /\ i'[d] = i[d] =>
           KeyA(d)' = KeyA(d) /\ KeyB(d)' = KeyB(d)
  BY <1>1 DEF KeyA, KeyB, KeyOf
  \* What remains of FreshOK.
<1>f. ASSUME Midway(d) => \/ Midway(d)' /\ KeyB(d)' = KeyB(d)
                          \/ pc'[d] \in {"pass", "dispose", "end"}
                             /\ rc'[d] # 0,
             pc[d] \in {"pass", "dispose", "end"} /\ rc[d] # 0 =>
               pc'[d] \in {"pass", "dispose", "end"} /\ rc'[d] # 0
      PROVE  FreshOK(d)'
  <2>1. FreshOK(d)
    BY <1>0 DEF CtxInv
  <2> QED  BY <1>1, <1>d, <1>f, <2>1 DEF FreshOK
<1>3. CASE MoveNew(d)
  <2>1. ~Midway(d)
    BY <1>3 DEF MoveNew, Midway
  <2>2. FreshOK(d)'
    BY <1>3, <1>f, <2>1 DEF MoveNew
  <2>3. KindOK(d)'
    BY <1>0, <1>3, <1>d, <1>k DEF MoveNew, CtxInv, KindOK
  <2>4. OutsideOK(d)'
    BY <1>0, <1>3, <1>c, <1>d, <1>k, <1>l DEF MoveNew, CtxInv, OutsideOK
  <2>5. BenchOK(d)' /\ BeginOK(d)' /\ NextOK(d)' /\ DoneOK(d)'
    BY <1>3 DEF MoveNew, BenchOK, BeginOK, NextOK, DoneOK
  <2> QED  BY <1>2, <2>2, <2>3, <2>4, <2>5 DEF CtxInv
<1>4. CASE MoveStart(d)
  <2>1. ~Midway(d) /\ FreshOK(d)'
    BY <1>4, <1>f DEF MoveStart, Midway
  <2>2. Clean(d) /\ txn[d] = NoTxn
    BY <1>0, <1>4 DEF MoveStart, CtxInv, OutsideOK, Clean
  <2>3. KindOK(d)'
    BY <1>0, <1>d, <1>k, <2>2 DEF CtxInv, KindOK
  <2>4. OutsideOK(d)' /\ NextOK(d)' /\ DoneOK(d)'
    BY <1>4 DEF MoveStart, OutsideOK, NextOK, DoneOK
  <2>5. BenchOK(d)' /\ BeginOK(d)'
    BY <1>4, <1>c, <1>d, <1>k, <2>2 DEF MoveStart, BenchOK, BeginOK, Clean
  <2> QED  BY <1>2, <2>1, <2>3, <2>4, <2>5 DEF CtxInv
<1>5. CASE MoveAgain(d)
  <2>1. ~Midway(d) /\ FreshOK(d)'
    BY <1>5, <1>f DEF MoveAgain, Midway
  <2> QED  BY <1>0, <1>2, <1>5, <1>c, <1>d, <1>k, <2>1
           DEF MoveAgain, CtxInv, KindOK, OutsideOK, BenchOK, BeginOK,
               NextOK, DoneOK
<1>6. CASE MoveDispose(d)
  <2>1. ~Midway(d) /\ FreshOK(d)'
    BY <1>6, <1>f DEF MoveDispose, Midway
  <2> QED  BY <1>0, <1>2, <1>6, <1>d, <1>k, <2>1
           DEF MoveDispose, CtxInv, KindOK, OutsideOK, BenchOK, BeginOK,
               NextOK, DoneOK
<1>7. CASE MoveEnd(d)
  <2>1. ~Midway(d) /\ FreshOK(d)'
    BY <1>7, <1>f DEF MoveEnd, Midway
  <2> QED  BY <1>0, <1>2, <1>7, <1>d, <1>k, <2>1
           DEF MoveEnd, CtxInv, KindOK, OutsideOK, BenchOK, BeginOK,
               NextOK, DoneOK
<1>8. CASE MoveSingle(d)
  <2>1. /\ pc[d] = "next" /\ call[d].fn = "return" /\ bench[d] \in Single
        /\ pc'[d] = "done" /\ call'[d].fn = "done" /\ rc'[d] = call[d].rc
        /\ bench'[d] = bench[d] /\ UNCHANGED <<serial[d], i[d], j[d]>>
        /\ bench[d] \notin Quadruple /\ bench[d] # "iterate"
        /\ bench[d] # "batch" /\ bench[d] # "crud"
    BY <1>8 DEF MoveSingle, Single, Quadruple
  <2>2. ~Midway(d) /\ FreshOK(d)'
    BY <1>f, <2>1 DEF Midway, Direct
  <2>3. SingleShown(d, rc[d])'
    BY <1>0, <1>d, <1>s, <2>1 DEF CtxInv, NextOK, SingleShown
  <2>4. BenchOK(d)' /\ KindOK(d)'
    BY <1>0, <1>d, <1>k, <2>1 DEF CtxInv, BenchOK, KindOK
  <2> QED  BY <1>2, <2>1, <2>2, <2>3, <2>4
           DEF CtxInv, OutsideOK, BeginOK, NextOK, DoneOK
<1>9. CASE MoveIterate(d)
  <2>1. /\ pc[d] = "next" /\ call[d].fn = "return" /\ bench[d] = "iterate"
        /\ bench'[d] = bench[d]
        /\ bench[d] \notin Quadruple \cup Single
        /\ bench[d] # "crud" /\ bench[d] # "batch"
    BY <1>9 DEF MoveIterate, Single, Quadruple
  <2>2. ~Midway(d) /\ FreshOK(d)'
    BY <1>f, <2>1 DEF Midway, Direct
  <2>3. txn[d] = NoTxn /\ KindOK(d)'
    BY <1>0, <1>d, <1>k, <2>1 DEF CtxInv, BenchOK, KindOK
  <2>4. CASE ToPass(d, -1)
    BY <1>2, <1>d, <1>k, <2>2, <2>3, <2>4
    DEF CtxInv, OutsideOK, BenchOK, BeginOK, NextOK, DoneOK
  <2>5. CASE call[d].rc = 0 /\ ToCall(d, "next")
    <3>1. IterReady(d)'
      BY <1>0, <1>i, <2>1, <2>5 DEF CtxInv, NextOK
    <3> QED  BY <1>2, <1>d, <1>k, <2>1, <2>2, <2>3, <2>5, <3>1
             DEF CtxInv, OutsideOK, BenchOK, BeginOK, NextOK, DoneOK
  <2>6. CASE ToCall(d, "done")
    BY <1>2, <1>d, <1>k, <2>1, <2>2, <2>3, <2>6
    DEF CtxInv, OutsideOK, BenchOK, BeginOK, NextOK, DoneOK
  <2> QED  BY <1>9, <2>4, <2>5, <2>6 DEF MoveIterate
<1>10. CASE MoveDone(d)
  <2>1. /\ pc[d] = "done" /\ call[d].fn = "return" /\ bench'[d] = bench[d]
    BY <1>10 DEF MoveDone
  <2>2. ~Midway(d) /\ FreshOK(d)'
    BY <1>f, <2>1 DEF Midway
  <2>3. KindOK(d)' /\ txn[d].kind # "db"
    BY <1>0, <1>d, <1>k, <2>1 DEF CtxInv, KindOK, DoneOK
  <2> DEFINE own == Tolerated(rc[d])
             code == IF own = 0 THEN call[d].rc ELSE own
  <2>4. \/ code = 0 /\ ToCall(d, "begin")
        \/ ToPass(d, code)
    BY <1>10 DEF MoveDone
  <2>5. code = 0 => Clean(d)
    BY <1>0, <2>1 DEF CtxInv, DoneOK
  <2> HIDE DEF code
  <2>6. CASE code = 0 /\ ToCall(d, "begin")
    BY <1>2, <1>c, <1>d, <1>k, <2>1, <2>2, <2>3, <2>5, <2>6
    DEF CtxInv, OutsideOK, BenchOK, BeginOK, NextOK, DoneOK, Clean
  <2>7. CASE ToPass(d, code)
    BY <1>2, <1>c, <1>d, <1>k, <2>1, <2>2, <2>3, <2>5, <2>7
    DEF CtxInv, OutsideOK, BenchOK, BeginOK, NextOK, DoneOK
  <2> QED  BY <2>4, <2>6, <2>7
<1>11. CASE MoveBegin(d)
  <2> DEFINE r == call[d].rc
  <2>1. /\ pc[d] = "begin" /\ call[d].fn = "return"
        /\ bench'[d] = bench[d] /\ serial'[d] = serial[d] /\ i'[d] = i[d]
        /\ begun'[d] = (begun[d] /\ r = 0)
        /\ r \in {0, -1} /\ (r = 0 => Ready(d)) /\ (r = -1 => txn[d] = NoTxn)
        /\ BenchOK(d)
    BY <1>0, <1>11 DEF MoveBegin, CtxInv, BeginOK
  <2>2. ~Midway(d) /\ FreshOK(d)'
    BY <1>f, <2>1 DEF Midway
  <2>3. KindOK(d)'
    BY <1>0, <1>d, <1>k, <2>1 DEF CtxInv, KindOK
  <2>b. pc'[d] \in {"next", "done"} => BenchOK(d)'
    BY <1>d, <1>k, <2>1 DEF BenchOK
  <2>4. CASE bench[d] \in Single /\ r = 0 /\ ToCall(d, "next")
    <3>1. /\ bench[d] \notin Quadruple /\ bench[d] # "iterate"
          /\ pc'[d] = "next" /\ call'[d].fn = "next"
      BY <2>4 DEF Single, Quadruple
    <3>2. txn'[d] = IF chosen' = "sophia" THEN TheDb ELSE NoTxn
      BY <1>d, <2>1, <2>4 DEF Ready
    <3>3. NextOK(d)'
      BY <1>k, <2>1, <3>1, <3>2 DEF NextOK
    <3>4. OutsideOK(d)' /\ BeginOK(d)' /\ DoneOK(d)'
      BY <3>1 DEF OutsideOK, BeginOK, DoneOK
    <3> QED  BY <1>2, <2>2, <2>3, <2>b, <3>1, <3>3, <3>4 DEF CtxInv
  <2>5. CASE bench[d] \in Single /\ r # 0 /\ ToCall(d, "done") /\ rc'[d] = r
    <3>1. /\ bench[d] \notin Quadruple /\ bench[d] # "crud"
          /\ pc'[d] = "done" /\ call'[d].fn = "done" /\ rc'[d] # 0
      BY <2>5 DEF Single, Quadruple
    <3>2. DoneOK(d)'
      BY <2>1, <3>1 DEF DoneOK, SingleShown
    <3>3. OutsideOK(d)' /\ BeginOK(d)' /\ NextOK(d)'
      BY <3>1 DEF OutsideOK, BeginOK, NextOK
    <3> QED  BY <1>2, <2>2, <2>3, <2>b, <3>1, <3>2, <3>3 DEF CtxInv
  <2>6. CASE /\ bench[d] \in Quadruple /\ (r = 0 \/ bench[d] = "batch")
             /\ ToCall(d, "next") /\ rc'[d] = r /\ q'[d] = 1
             /\ j'[d] = (IF bench[d] = "batch" THEN 0 ELSE j[d])
    <3>1. /\ bench[d] \notin Single /\ bench[d] # "iterate"
          /\ pc'[d] = "next" /\ call'[d].fn = "next"
      BY <2>6 DEF Single, Quadruple
    <3>2. Earlier(d)' = {} /\ EarlierB(d)' = {}
      BY <1>0, <2>1, <2>6 DEF Earlier, EarlierB, Batched, BatchedB
    <3>3. /\ PutsAfter(d, q[d] - 1)' = {} /\ DelsAfter(d, q[d] - 1)' = {}
      BY <2>6, <3>2 DEF PutsAfter, DelsAfter
    <3>4. txn[d] = OpenTxn \/ Direct(d)'
      <4>1. CASE r = 0
        BY <1>d, <1>k, <2>1, <2>6, <4>1 DEF Ready, Direct
      <4>2. CASE r = -1
        <5>0. r # 0
          BY <4>2
        <5>1. ~begun'[d]
          BY <2>1, <5>0, Zenon
        <5> QED  BY <1>d, <1>k, <2>1, <2>6, <4>2, <5>1 DEF Direct
      <4> QED  BY <2>1, <4>1, <4>2
    <3>5. Wrote(d, PutsAfter(d, q[d] - 1), DelsAfter(d, q[d] - 1))'
      BY <1>d, <1>k, <3>3, <3>4 DEF Wrote, Direct
    <3>6. NextOK(d)'
      BY <1>d, <1>k, <2>1, <2>6, <3>1, <3>4, <3>5 DEF NextOK
    <3>7. OutsideOK(d)' /\ BeginOK(d)' /\ DoneOK(d)'
      BY <3>1 DEF OutsideOK, BeginOK, DoneOK
    <3> QED  BY <1>2, <2>2, <2>3, <2>b, <3>1, <3>6, <3>7 DEF CtxInv
  <2>7. CASE r # 0 /\ ToPass(d, r)
    <3>1. txn[d] = NoTxn /\ pc'[d] = "pass" /\ rc'[d] # 0
      BY <2>1, <2>7
    <3> QED  BY <1>2, <1>d, <1>k, <2>2, <2>3, <3>1
             DEF CtxInv, OutsideOK, BenchOK, BeginOK, NextOK, DoneOK
  <2>8. CASE bench[d] = "iterate" /\ r = 0 /\ ToCall(d, "next")
    <3>1. IterReady(d)' /\ bench[d] \notin Single \cup Quadruple
      BY <1>i, <2>1, <2>8 DEF Ready, Single, Quadruple
    <3> QED  BY <1>2, <2>1, <2>2, <2>3, <2>8, <2>b, <3>1
             DEF CtxInv, OutsideOK, BeginOK, NextOK, DoneOK
  <2> QED  BY <1>11, <2>1, <2>4, <2>5, <2>6, <2>7, <2>8
           DEF MoveBegin, ENOENT
<1>12. CASE MoveQuadruple(d)
  <2> DEFINE code == IF q[d] > 2 THEN Tolerated(call[d].rc) ELSE call[d].rc
  <2>1. /\ pc[d] = "next" /\ call[d].fn = "return" /\ bench[d] \in Quadruple
        /\ bench'[d] = bench[d] /\ begun'[d] = begun[d]
        /\ serial'[d] = serial[d]
        /\ bench[d] \notin Single /\ bench[d] # "iterate"
    BY <1>12 DEF MoveQuadruple, Single, Quadruple
  <2>2. /\ txn[d].kind = "open" \/ Direct(d)
        /\ chosen = "sophia" /\ txn[d] = NoTxn => call[d].rc = -1
        /\ call[d].rc \in {0, -1}
        /\ call[d].rc = 0 => Wrote(d, PutsAfter(d, q[d]), DelsAfter(d, q[d]))
    BY <1>0, <2>1 DEF CtxInv, NextOK
  <2>3. code = 0 => call[d].rc = 0
    <3>1. call[d].rc = -1 => Tolerated(call[d].rc) = -1
      BY <1>0, ToleratedCode
    <3> QED  BY <2>2, <3>1
  <2>4. KindOK(d)' /\ BenchOK(d) /\ txn[d].kind # "db"
    BY <1>0, <1>d, <1>k, <2>1 DEF CtxInv, KindOK, BenchOK
  <2>b. pc'[d] \in {"next", "done"} => BenchOK(d)'
    BY <1>d, <1>k, <2>1, <2>4 DEF BenchOK
  <2>D. Direct(d)' <=> Direct(d)
    BY <1>d, <1>k, <2>1 DEF Direct
  <2>5. CASE code # 0 /\ ToPass(d, code)
    <3>1. pc'[d] = "pass" /\ rc'[d] # 0
      BY <2>5
    <3>2. FreshOK(d)'
      BY <1>f, <2>1, <3>1
    <3> QED  BY <1>2, <1>d, <1>k, <2>4, <3>1, <3>2
             DEF CtxInv, OutsideOK, BenchOK, BeginOK, NextOK, DoneOK
  <2>6. CASE /\ code = 0 /\ q[d] # 4 /\ ToCall(d, "next")
             /\ q'[d] = q[d] + 1 /\ UNCHANGED <<i[d], j[d]>>
    <3>1. q'[d] - 1 = q[d]
      BY <1>0, <2>6
    <3>2. /\ Earlier(d)' = Earlier(d) /\ EarlierB(d)' = EarlierB(d)
          /\ KeyA(d)' = KeyA(d) /\ KeyB(d)' = KeyB(d)
      BY <1>1, <1>s, <2>1, <2>6
      DEF Earlier, EarlierB, Batched, BatchedB, KeyOf
    <3>3. /\ PutsAfter(d, q[d] - 1)' = PutsAfter(d, q[d])
          /\ DelsAfter(d, q[d] - 1)' = DelsAfter(d, q[d])
      BY <3>1, <3>2 DEF PutsAfter, DelsAfter
    <3>4. Wrote(d, PutsAfter(d, q[d] - 1), DelsAfter(d, q[d] - 1))'
      BY <1>d, <2>2, <2>3, <2>6, <3>3 DEF Wrote
    <3>5. NextOK(d)'
      BY <1>d, <1>k, <2>1, <2>2, <2>3, <2>6, <2>D, <3>4 DEF NextOK
    <3>6. FreshOK(d)'
      <4>1. Midway(d) => Midway(d)'
        BY <1>0, <2>1, <2>3, <2>6, <2>D DEF Midway
      <4> QED  BY <1>f, <2>1, <3>2, <4>1
    <3>7. OutsideOK(d)' /\ BeginOK(d)' /\ DoneOK(d)'
      BY <2>6 DEF OutsideOK, BeginOK, DoneOK
    <3> QED  BY <1>2, <2>4, <2>6, <2>b, <3>5, <3>6, <3>7 DEF CtxInv
  <2>7. CASE /\ code = 0 /\ q[d] = 4 /\ q'[d] = 1
             /\ bench[d] = "batch"
             /\ i'[d] = i[d] + 1 /\ j'[d] = j[d] + 1
             /\ ToCall(d, "next") \/ ToCall(d, "done")
    <3>1. /\ Batched(d)' = Batched(d) \cup {KeyA(d)}
          /\ BatchedB(d)' = BatchedB(d) \cup {KeyB(d)}
      BY <1>0, <1>1, <2>1, <2>7, BatchGrows, BatchGrowsB
    <3>2. /\ PutsAfter(d, q[d] - 1)' = PutsAfter(d, q[d])
          /\ DelsAfter(d, q[d] - 1)' = DelsAfter(d, q[d])
          /\ Written(d)' = PutsAfter(d, q[d])
          /\ WrittenB(d)' = DelsAfter(d, q[d])
      BY <2>1, <2>7, <3>1
      DEF PutsAfter, DelsAfter, Earlier, EarlierB, Written, WrittenB
    <3>3. /\ Wrote(d, PutsAfter(d, q[d] - 1), DelsAfter(d, q[d] - 1))'
          /\ Wrote(d, Written(d), WrittenB(d))'
      BY <1>d, <2>2, <2>3, <2>7, <3>2 DEF Wrote
    <3>4. NextOK(d)' /\ DoneOK(d)'
      BY <1>d, <1>k, <2>1, <2>2, <2>3, <2>7, <2>D, <3>3 DEF NextOK, DoneOK
    <3>5. ~Midway(d) /\ FreshOK(d)'
      BY <1>f, <2>1, <2>3, <2>7 DEF Midway
    <3>6. OutsideOK(d)' /\ BeginOK(d)'
      BY <2>7 DEF OutsideOK, BeginOK
    <3> QED  BY <1>2, <2>4, <2>7, <2>b, <3>4, <3>5, <3>6 DEF CtxInv
  <2>8. CASE /\ code = 0 /\ q[d] = 4 /\ bench[d] = "crud"
             /\ UNCHANGED <<i[d], j[d]>> /\ ToCall(d, "done")
    <3>1. /\ Written(d)' = PutsAfter(d, q[d])
          /\ WrittenB(d)' = DelsAfter(d, q[d])
      BY <1>s, <2>1, <2>8
      DEF PutsAfter, DelsAfter, Earlier, EarlierB, Written, WrittenB
    <3>2. Wrote(d, Written(d), WrittenB(d))'
      BY <1>d, <2>2, <2>3, <2>8, <3>1 DEF Wrote
    <3>3. txn[d].kind = "open"
      BY <2>2, <2>8 DEF Direct
    <3>4. DoneOK(d)'
      BY <1>d, <2>1, <2>8, <3>2, <3>3 DEF DoneOK
    <3>5. ~Midway(d) /\ FreshOK(d)'
      BY <1>f, <2>1, <2>3, <2>8 DEF Midway
    <3>6. OutsideOK(d)' /\ BeginOK(d)' /\ NextOK(d)'
      BY <2>8 DEF OutsideOK, BeginOK, NextOK
    <3> QED  BY <1>2, <2>4, <2>8, <2>b, <3>4, <3>5, <3>6 DEF CtxInv
  <2> QED  BY <1>12, <2>5, <2>6, <2>7, <2>8 DEF MoveQuadruple
<1> QED  BY <1>1, <1>3, <1>4, <1>5, <1>6, <1>7, <1>8, <1>9, <1>10, <1>11,
            <1>12
         DEF Move

----------------------------------------------------------------------------
(* What the drivers do, function by function of ia_driver.h, with the code *)
(* r that they return.                                                     *)

NewOut(d, r) ==
    /\ call[d].fn = "thread_new"
    /\ UNCHANGED <<data, txn[d]>>
    /\ r # 0 \/ chosen # "wiredtiger" => cursor'[d] = cursor[d]
    /\ r # 0 => held'[d] = held[d] \/ LeftOver(d)'

BeginOut(d, r) ==
    /\ call[d].fn = "begin" /\ r \in {0, -1} /\ data' = data
    /\ bench[d] # "iterate" => cursor'[d] = cursor[d]
    /\ bench[d] = "iterate" => txn'[d] = txn[d]
    /\ chosen = "forestdb" /\ bench[d] = "batch" => txn'[d] = txn[d]
    /\ r = 0 => Ready(d)'
    /\ r = -1 => txn'[d] = txn[d]

SetOut(d, r) ==
    /\ call[d].fn = "next" /\ call[d].step = "set"
    /\ cursor'[d] = cursor[d]
    /\ \/ r = 0 /\ Put(d, call[d].key)
       \/ r = -1 /\ UNCHANGED <<data, txn>>
    /\ chosen = "sophia" /\ txn[d] = NoTxn => r = -1

DeleteOut(d, r) ==
    /\ call[d].fn = "next" /\ call[d].step = "delete"
    /\ cursor'[d] = cursor[d]
    /\ \/ r = 0 /\ Remove(d, call[d].key)
       \/ r = ENOENT /\ call[d].key \notin Visible(d) /\ UNCHANGED <<data, txn>>
       \/ r = -1 /\ UNCHANGED <<data, txn>>
    /\ chosen = "sophia" /\ txn[d] = NoTxn => r = -1

GetOut(d, r) ==
    /\ call[d].fn = "next" /\ call[d].step = "get"
    /\ UNCHANGED <<data, txn[d], cursor[d]>>
    /\ r = ENOENT => call[d].key \notin Visible(d)

IterateOut(d, r) ==
    /\ call[d].fn = "next" /\ call[d].step = "iterate"
    /\ UNCHANGED <<data, txn[d]>>
    /\ r = 0 => IterReady(d)'

DoneOut(d, r) ==
    /\ call[d].fn = "done" /\ r \in {0, -1}
    /\ bench[d] # "iterate" => cursor'[d] = cursor[d]
    /\ bench[d] = "iterate" /\ r = 0 =>
         chosen = "wiredtiger" \/ cursor'[d] = NoCursor
    /\ IF bench[d] \in Quadruple
       THEN /\ data' = Visible(d) \/ (r = -1 /\ data' = data)
            /\ txn'[d] = NoTxn \/ (r = -1 /\ txn'[d] = txn[d])
       ELSE data' = data /\ txn'[d] = NoTxn

DisposeOut(d, r) ==
    /\ call[d].fn = "thread_dispose" /\ data' = data
    /\ txn'[d] = NoTxn /\ cursor'[d] = NoCursor /\ held'[d] \subseteq {"lost"}

(* The context of d is changed and its call answered. *)
Framed(d, r) ==
    /\ r \in Codes /\ Return(d, r) /\ DriverType' /\ at'[d] = "out"
    /\ \A e \in Doers :
         e # d => UNCHANGED <<txn[e], cursor[e], held[e], at[e]>>
    /\ held'[d] \subseteq OwnHandles(chosen)

Outcome(d, r) ==
    /\ Framed(d, r)
    /\ \/ NewOut(d, r) \/ BeginOut(d, r) \/ SetOut(d, r) \/ DeleteOut(d, r)
       \/ GetOut(d, r) \/ IterateOut(d, r) \/ DoneOut(d, r) \/ DisposeOut(d, r)

(* forestdb on its way through begin. *)
Internal(d) ==
    /\ chosen = "forestdb" /\ call[d].fn = "begin" /\ call' = call
    /\ UNCHANGED context
    /\ at' \in [Doers -> {"out", "flag", "compact", "rest"}]
    /\ \A e \in Doers : e # d => UNCHANGED at[e]

(* The transactions and cursors that begin makes. *)
LEMMA Shapes ==
    /\ NoTxn \in Txns /\ OpenTxn \in Txns /\ TheDb \in Txns
    /\ NoTxn.kind = "none" /\ OpenTxn.kind = "open" /\ TheDb.kind = "db"
    /\ NoTxn.puts = {} /\ NoTxn.dels = {}
    /\ OpenTxn.puts = {} /\ OpenTxn.dels = {}
    /\ TheDb.puts = {} /\ TheDb.dels = {}
    /\ NoCursor \in CursorSet /\ NoCursor.kind = "none"
    /\ Live \in CursorSet /\ Live.kind = "live"
    /\ \A S \in SUBSET Pairs :
         /\ Snapshot(S) \in CursorSet /\ Snapshot(S).kind = "snapshot"
         /\ \A K : Ahead(Snapshot(S), K) = S
<1>1. /\ NoTxn \in Txns /\ OpenTxn \in Txns /\ TheDb \in Txns
      /\ NoTxn.kind = "none" /\ OpenTxn.kind = "open" /\ TheDb.kind = "db"
      /\ NoTxn.puts = {} /\ NoTxn.dels = {}
      /\ OpenTxn.puts = {} /\ OpenTxn.dels = {}
      /\ TheDb.puts = {} /\ TheDb.dels = {}
  BY DEF NoTxn, OpenTxn, TheDb, Txns
<1>2. NoKey \in CallKeys
  BY DEF CallKeys
<1>3. /\ NoCursor \in CursorSet /\ NoCursor.kind = "none"
      /\ Live \in CursorSet /\ Live.kind = "live"
  BY <1>2 DEF NoCursor, Live, CursorSet
<1>4. ASSUME NEW S \in SUBSET Pairs
      PROVE  /\ Snapshot(S) \in CursorSet /\ Snapshot(S).kind = "snapshot"
             /\ \A K : Ahead(Snapshot(S), K) = S
  BY <1>2 DEF Snapshot, CursorSet, Ahead
<1> QED  BY <1>1, <1>3, <1>4

(* The key of a call that has one. *)
LEMMA NextKey ==
    ASSUME RunnerInv, NEW d \in Doers, call[d].fn = "next",
           call[d].step # "iterate"
    PROVE  /\ call[d].key \in Pairs
           /\ bench[d] \in Single \cup Quadruple
<1>1. pc[d] = "next" /\ bench[d] \in Steps /\ q[d] \in 1 .. 4
  BY CallPlace DEF RunnerInv, RunnerType
<1>2. bench[d] \in Single \cup Quadruple
  BY <1>1, CallPlace DEF Steps, Single, Quadruple
<1>3. call[d].key = KeyA(d) \/ call[d].key = KeyB(d)
  BY <1>1, <1>2, CallPlace DEF KeyA, KeyB
<1> QED  BY <1>2, <1>3, KeySets

(* Calls that write. *)
LEMMA PutFacts ==
    ASSUME DriverType, NEW d \in Doers, NEW k \in Pairs, Put(d, k)
    PROVE  /\ txn' \in [Doers -> Txns] /\ data' \in SUBSET Pairs
           /\ \A e \in Doers : e # d => txn'[e] = txn[e]
           /\ txn'[d].kind = txn[d].kind
           /\ IF txn[d].kind = "open"
              THEN /\ txn'[d].puts = txn[d].puts \cup {k}
                   /\ txn'[d].dels = txn[d].dels \ {k} /\ data' = data
              ELSE data' = data \cup {k} /\ txn' = txn
<1>1. txn[d] \in Txns /\ data \in SUBSET Pairs
  BY DEF DriverType
<1>2. CASE txn[d].kind = "open"
  <2> DEFINE t == [txn[d] EXCEPT !.puts = @ \cup {k}, !.dels = @ \ {k}]
  <2>1. /\ t \in Txns /\ t.kind = txn[d].kind
        /\ t.puts = txn[d].puts \cup {k} /\ t.dels = txn[d].dels \ {k}
    BY <1>1 DEF Txns
  <2>2. txn' = [txn EXCEPT ![d] = t] /\ data' = data
    BY <1>2 DEF Put, SetTxn
  <2> HIDE DEF t
  <2> QED  BY <1>1, <1>2, <2>1, <2>2 DEF DriverType
<1>3. CASE txn[d].kind # "open"
  BY <1>1, <1>3 DEF Put, DriverType
<1> QED  BY <1>2, <1>3

(* What a delete does, in a transaction and without. *)
LEMMA RemoveFacts ==
    ASSUME DriverType, NEW d \in Doers, NEW k \in Pairs, Remove(d, k)
    PROVE  /\ txn' \in [Doers -> Txns] /\ data' \in SUBSET Pairs
           /\ \A e \in Doers : e # d => txn'[e] = txn[e]
           /\ txn'[d].kind = txn[d].kind
           /\ IF txn[d].kind = "open"
              THEN /\ txn'[d].puts = txn[d].puts \ {k}
                   /\ txn'[d].dels = txn[d].dels \cup {k} /\ data' = data
              ELSE data' = data \ {k} /\ txn' = txn
<1>1. txn[d] \in Txns /\ data \in SUBSET Pairs
  BY DEF DriverType
<1>2. CASE txn[d].kind = "open"
  <2> DEFINE t == [txn[d] EXCEPT !.puts = @ \ {k}, !.dels = @ \cup {k}]
  <2>1. /\ t \in Txns /\ t.kind = txn[d].kind
        /\ t.puts = txn[d].puts \ {k} /\ t.dels = txn[d].dels \cup {k}
    BY <1>1 DEF Txns
  <2>2. txn' = [txn EXCEPT ![d] = t] /\ data' = data
    BY <1>2 DEF Remove, SetTxn
  <2> HIDE DEF t
  <2> QED  BY <1>1, <1>2, <2>1, <2>2 DEF DriverType
<1>3. CASE txn[d].kind # "open"
  BY <1>1, <1>3 DEF Remove, DriverType
<1> QED  BY <1>2, <1>3

(* What a commit does. *)
LEMMA CommitFacts ==
    ASSUME DriverType, NEW d \in Doers, Commit(d)
    PROVE  /\ txn' \in [Doers -> Txns] /\ data' \in SUBSET Pairs
           /\ \A e \in Doers : e # d => txn'[e] = txn[e]
           /\ txn'[d] = NoTxn /\ data' = Visible(d)
<1>1. txn[d] \in Txns /\ data \in SUBSET Pairs
  BY DEF DriverType
<1>2. Visible(d) \in SUBSET Pairs
  BY <1>1 DEF Visible, Txns
<1> QED  BY <1>2, Shapes DEF Commit, SetTxn, DriverType

(* Changes of one context. *)
LEMMA SetFacts ==
    ASSUME DriverType, NEW d \in Doers
    PROVE  /\ \A x \in Txns : SetTxn(d, x) =>
                /\ txn' \in [Doers -> Txns] /\ txn'[d] = x
                /\ \A e \in Doers : e # d => txn'[e] = txn[e]
           /\ \A x \in CursorSet : SetCursor(d, x) =>
                /\ cursor' \in [Doers -> CursorSet] /\ cursor'[d] = x
                /\ \A e \in Doers : e # d => cursor'[e] = cursor[e]
           /\ \A x \in SUBSET Handles : SetHeld(d, x) =>
                /\ held' \in [Doers -> SUBSET Handles] /\ held'[d] = x
                /\ \A e \in Doers : e # d => held'[e] = held[e]
<1>1. ASSUME NEW x \in Txns, SetTxn(d, x)
      PROVE  /\ txn' \in [Doers -> Txns] /\ txn'[d] = x
             /\ \A e \in Doers : e # d => txn'[e] = txn[e]
  BY <1>1 DEF DriverType, SetTxn
<1>2. ASSUME NEW x \in CursorSet, SetCursor(d, x)
      PROVE  /\ cursor' \in [Doers -> CursorSet] /\ cursor'[d] = x
             /\ \A e \in Doers : e # d => cursor'[e] = cursor[e]
  BY <1>2 DEF DriverType, SetCursor
<1>3. ASSUME NEW x \in SUBSET Handles, SetHeld(d, x)
      PROVE  /\ held' \in [Doers -> SUBSET Handles] /\ held'[d] = x
             /\ \A e \in Doers : e # d => held'[e] = held[e]
  BY <1>3 DEF DriverType, SetHeld
<1> QED  BY <1>1, <1>2, <1>3

(* What a driver finds when it is called. *)
LEMMA Found ==
    ASSUME IInv, NEW d \in Doers
    PROVE  LET c == call[d] IN
           /\ DriverType
           /\ c.fn \in {"begin", "done"} => c.step = bench[d]
           /\ c.fn = "begin" =>
                /\ txn[d] = NoTxn
                /\ chosen # "wiredtiger" => cursor[d] = NoCursor
           /\ c.fn = "next" /\ c.step = "iterate" =>
                IterReady(d) /\ bench[d] = "iterate"
           /\ c.fn = "next" /\ c.step # "iterate" => c.key \in Pairs
           /\ bench[d] \notin Quadruple /\ chosen # "sophia" => txn[d] = NoTxn
           /\ c.fn = "done" /\ bench[d] = "iterate" => txn[d] = NoTxn
           /\ c.fn = "done" /\ bench[d] = "batch" /\ chosen = "forestdb" =>
                txn[d] = NoTxn
           /\ c.fn = "thread_dispose" => txn[d] # TheDb
           /\ txn[d] = NoTxn => Visible(d) = data
           /\ held[d] \subseteq OwnHandles(chosen)
           /\ chosen # "forestdb" => at[d] = "out"
           /\ at[d] # "out" => c.fn = "begin"
           /\ txn[d] \in Txns /\ cursor[d] \in CursorSet
           /\ held[d] \in SUBSET Handles /\ data \in SUBSET Pairs
<1>0. /\ RunnerInv /\ DriverType /\ CtxInv(d)
      /\ bench[d] \in Steps
  BY DEF IInv, ContextType, RunnerInv, RunnerType
<1>1. /\ txn[d] \in Txns /\ cursor[d] \in CursorSet
      /\ held[d] \in SUBSET Handles /\ data \in SUBSET Pairs
  BY <1>0 DEF DriverType
<1>2. /\ call[d].fn = "begin" => pc[d] = "begin" /\ call[d].step = bench[d]
      /\ call[d].fn = "done" => pc[d] = "done" /\ call[d].step = bench[d]
      /\ call[d].fn = "next" => pc[d] = "next"
      /\ call[d].fn = "thread_dispose" => pc[d] = "dispose"
  BY <1>0, CallPlace
<1>3. call[d].fn = "next" /\ call[d].step = "iterate" => bench[d] = "iterate"
  <2>1. call[d].fn = "next" /\ bench[d] \in Single => call[d].step = bench[d]
    BY <1>0, CallPlace
  <2>2. /\ call[d].fn = "next" /\ bench[d] \in Quadruple =>
             /\ q[d] \in {1, 2} <=> call[d].step = "set"
             /\ q[d] = 3 <=> call[d].step = "delete"
             /\ q[d] = 4 <=> call[d].step = "get"
        /\ q[d] \in 1 .. 4
    BY <1>0, CallPlace DEF RunnerInv, RunnerType
  <2> QED  BY <1>0, <2>1, <2>2 DEF Single, Quadruple, Steps
<1>4. call[d].fn = "next" /\ call[d].step = "iterate" => IterReady(d)
  BY <1>0, <1>2, <1>3 DEF CtxInv, NextOK
<1>5. /\ AtOK(d) /\ KindOK(d) /\ OutsideOK(d) /\ BenchOK(d) /\ BeginOK(d)
  BY <1>0 DEF CtxInv
<1>6. txn[d] = NoTxn => Visible(d) = data
  BY <1>1, Shapes DEF Visible
<1>7. call[d].fn = "begin" =>
        txn[d] = NoTxn /\ (chosen # "wiredtiger" => cursor[d] = NoCursor)
  BY <1>2, <1>5 DEF BeginOK, Clean
<1>8. txn[d].kind \in {"none", "open", "db"}
  BY <1>1 DEF Txns
<1>9. /\ bench[d] \notin Quadruple /\ chosen # "sophia" => txn[d] = NoTxn
      /\ bench[d] = "batch" /\ chosen = "forestdb" => txn[d] = NoTxn
  <2>1. bench[d] \in Single \/ bench[d] = "iterate" \/ bench[d] \in Quadruple
    BY <1>0 DEF Steps, Single, Quadruple
  <2> QED  BY <1>5, <1>8, <2>1 DEF KindOK
<1>10. call[d].fn = "done" /\ bench[d] = "iterate" => txn[d] = NoTxn
  BY <1>2, <1>5 DEF BenchOK
<1>11. call[d].fn = "thread_dispose" => txn[d] # TheDb
  BY <1>2, <1>5, Shapes DEF OutsideOK
<1>12. call[d].fn = "next" /\ call[d].step # "iterate" => call[d].key \in Pairs
  BY <1>0, NextKey
<1>13. /\ held[d] \subseteq OwnHandles(chosen)
       /\ chosen # "forestdb" => at[d] = "out"
       /\ at[d] # "out" => call[d].fn = "begin"
  BY <1>5 DEF KindOK, AtOK
<1> QED  BY <1>0, <1>1, <1>2, <1>3, <1>4, <1>6, <1>7, <1>9, <1>10, <1>11,
            <1>12, <1>13

(* The handles of d that do not matter here, and those of the others. *)
Kept(d) ==
    /\ db' = db /\ chosen' = chosen /\ bench' = bench
    /\ held' \in [Doers -> SUBSET Handles]
    /\ held'[d] \subseteq OwnHandles(chosen)
    /\ at' \in [Doers -> {"out", "flag", "compact", "rest"}]
    /\ at'[d] = "out"
    /\ \A e \in Doers : e # d => UNCHANGED <<held[e], at[e]>>

(* Handles as the drivers change them. *)
LEMMA KeptFacts ==
    ASSUME IInv, NEW d \in Doers, UNCHANGED <<chosen, runner, db>>,
           (UNCHANGED at /\ at[d] = "out") \/ Goto(d, "out"),
           \/ UNCHANGED held
           \/ \E S \in SUBSET OwnHandles(chosen) : SetHeld(d, S)
    PROVE  Kept(d)
<1>1. /\ DriverType /\ held[d] \subseteq OwnHandles(chosen)
      /\ OwnHandles(chosen) \subseteq Handles
  BY Found DEF OwnHandles, Handles
<1>2. /\ at' \in [Doers -> {"out", "flag", "compact", "rest"}]
      /\ at'[d] = "out" /\ \A e \in Doers : e # d => at'[e] = at[e]
  BY <1>1 DEF DriverType, Goto
<1>3. /\ held' \in [Doers -> SUBSET Handles]
      /\ held'[d] \subseteq OwnHandles(chosen)
      /\ \A e \in Doers : e # d => held'[e] = held[e]
  BY <1>1, SetFacts DEF DriverType
<1> QED  BY <1>2, <1>3 DEF Kept, runner

(* What concerns d alone leaves the others as they are. *)
LEMMA FramedBy ==
    ASSUME IInv, NEW d \in Doers, Kept(d), NEW r \in Codes, Return(d, r),
           data' \in SUBSET Pairs, txn' \in [Doers -> Txns],
           cursor' \in [Doers -> CursorSet],
           \A e \in Doers : e # d => UNCHANGED <<txn[e], cursor[e]>>
    PROVE  Framed(d, r)
<1>1. db \in {"open", "closed"}
  BY DEF IInv, ContextType, DriverType
<1>2. DriverType'
  BY <1>1 DEF DriverType, Kept
<1> QED  BY <1>2 DEF Framed, Kept

(* thread_new: the cursor, if any, is a new one. *)
LEMMA NewAnswered ==
    ASSUME IInv, NEW d \in Doers, Kept(d), call[d].fn = "thread_new",
           NEW r \in {0, -1}, Return(d, r), UNCHANGED <<data, txn>>,
           \/ UNCHANGED cursor
           \/ r = 0 /\ chosen = "wiredtiger" /\ SetCursor(d, Live),
           r # 0 => held'[d] = held[d] \/ LeftOver(d)'
    PROVE  \E x \in Codes : Outcome(d, x)
<1>1. DriverType /\ r \in Codes /\ Live \in CursorSet
  BY Found, Shapes DEF Codes
<1>2. /\ txn' \in [Doers -> Txns] /\ cursor' \in [Doers -> CursorSet]
      /\ data' \in SUBSET Pairs
      /\ \A e \in Doers : e # d => UNCHANGED <<txn[e], cursor[e]>>
  BY <1>1, SetFacts DEF DriverType
<1> QED  BY <1>1, <1>2, FramedBy DEF Outcome, NewOut

(* A context that is given back, as an outcome. *)
LEMMA DisposeAnswered ==
    ASSUME IInv, NEW d \in Doers, Kept(d), call[d].fn = "thread_dispose",
           Return(d, 0), UNCHANGED data, held'[d] \subseteq {"lost"},
           SetTxn(d, NoTxn), SetCursor(d, NoCursor)
    PROVE  \E r \in Codes : Outcome(d, r)
<1>1. /\ DriverType /\ 0 \in Codes /\ NoTxn \in Txns
      /\ NoCursor \in CursorSet /\ data \in SUBSET Pairs
  BY Found, Shapes DEF Codes
<1> QED  BY <1>1, FramedBy, SetFacts DEF Outcome, DisposeOut

(* begin: of one operation, of several, and of an iteration. *)
LEMMA BeginAnswered ==
    ASSUME IInv, NEW d \in Doers, Kept(d), call[d].fn = "begin",
           NEW r \in {0, -1}, Return(d, r), UNCHANGED data,
           \/ /\ bench[d] \in Single /\ r = 0 /\ UNCHANGED cursor
              /\ IF chosen = "sophia" THEN SetTxn(d, TheDb) ELSE UNCHANGED txn
           \/ /\ bench[d] \in Quadruple /\ UNCHANGED cursor
              /\ \/ /\ r = 0 /\ SetTxn(d, OpenTxn)
                    /\ chosen # "forestdb" \/ bench[d] # "batch"
                 \/ r = -1 /\ (UNCHANGED txn \/ SetTxn(d, NoTxn))
                 \/ /\ chosen = "forestdb" /\ bench[d] = "batch"
                    /\ UNCHANGED txn
           \/ /\ bench[d] = "iterate" /\ UNCHANGED txn
              /\ UNCHANGED cursor \/ \E x \in CursorSet : SetCursor(d, x)
              /\ r = 0 =>
                   \/ SetCursor(d, Live) /\ chosen # "forestdb"
                   \/ /\ SetCursor(d, Snapshot(data))
                      /\ chosen = "forestdb" => data # {}
    PROVE  \E x \in Codes : Outcome(d, x)
<1>1. /\ DriverType /\ r \in Codes /\ NoTxn \in Txns /\ OpenTxn \in Txns
      /\ TheDb \in Txns /\ txn[d] = NoTxn /\ data \in SUBSET Pairs
      /\ chosen' = chosen /\ bench' = bench
  BY Found, Shapes DEF Codes, Kept
<1>2. /\ txn' \in [Doers -> Txns] /\ cursor' \in [Doers -> CursorSet]
      /\ \A e \in Doers : e # d => UNCHANGED <<txn[e], cursor[e]>>
  BY <1>1, SetFacts DEF DriverType
<1>q. /\ bench[d] \in Single =>
           bench[d] \notin Quadruple /\ bench[d] # "iterate"
      /\ bench[d] \in Quadruple =>
           bench[d] \notin Single /\ bench[d] # "iterate"
      /\ bench[d] = "iterate" => bench[d] \notin Single \cup Quadruple
  BY DEF Single, Quadruple
<1>3. Framed(d, r)
  BY <1>1, <1>2, FramedBy
<1>4. CASE bench[d] \in Single
  <2>1. Ready(d)'
    BY <1>1, <1>4, <1>q, SetFacts DEF Ready
  <2> QED  BY <1>1, <1>3, <1>4, <1>q, <2>1 DEF Outcome, BeginOut
<1>5. CASE bench[d] \in Quadruple
  <2>1. r = 0 => Ready(d)'
    BY <1>1, <1>5, <1>q, SetFacts DEF Ready
  <2>2. r = -1 \/ (chosen = "forestdb" /\ bench[d] = "batch") =>
          txn'[d] = txn[d]
    BY <1>1, <1>5, <1>q, SetFacts
  <2> QED  BY <1>1, <1>3, <1>5, <1>q, <2>1, <2>2 DEF Outcome, BeginOut
<1>6. CASE bench[d] = "iterate"
  <2>1. r = 0 => Ready(d)'
    <3>1. /\ Live \in CursorSet /\ Live.kind = "live"
          /\ Snapshot(data) \in CursorSet /\ Snapshot(data).kind = "snapshot"
          /\ \A K : Ahead(Snapshot(data), K) = data
      BY <1>1, Shapes
    <3>2. r = 0 =>
            \/ cursor'[d] = Live /\ chosen # "forestdb"
            \/ /\ cursor'[d] = Snapshot(data)
               /\ chosen = "forestdb" => data # {}
      BY <1>1, <1>6, <1>q, <3>1, SetFacts
    <3>3. r = 0 => IterReady(d)'
      BY <1>1, <3>1, <3>2 DEF IterReady
    <3> QED  BY <1>1, <1>6, <1>q, <3>3 DEF Ready
  <2> QED  BY <1>1, <1>3, <1>6, <1>q, <2>1 DEF Outcome, BeginOut
<1> QED  BY <1>4, <1>5, <1>6

(* done: of several operations, or of anything else. *)
LEMMA DoneAnswered ==
    ASSUME IInv, NEW d \in Doers, Kept(d), call[d].fn = "done",
           NEW r \in {0, -1}, Return(d, r),
           \/ /\ bench[d] \in Quadruple /\ UNCHANGED cursor
              /\ \/ Commit(d)
                 \/ /\ r = -1 /\ UNCHANGED data
                    /\ UNCHANGED txn \/ SetTxn(d, NoTxn)
           \/ /\ bench[d] \in Quadruple /\ txn[d] = NoTxn
              /\ UNCHANGED <<data, txn, cursor>>
           \/ /\ bench[d] \notin Quadruple
              /\ \/ UNCHANGED cursor /\ chosen = "wiredtiger"
                 \/ UNCHANGED cursor /\ bench[d] # "iterate"
                 \/ SetCursor(d, NoCursor) /\ bench[d] = "iterate"
              /\ \/ SetTxn(d, NoTxn) /\ UNCHANGED data
                 \/ txn[d] = NoTxn /\ UNCHANGED <<data, txn>>
                 \/ txn[d] = NoTxn /\ Commit(d)
    PROVE  \E x \in Codes : Outcome(d, x)
<1>1. /\ DriverType /\ r \in Codes /\ NoTxn \in Txns /\ NoCursor \in CursorSet
      /\ data \in SUBSET Pairs /\ (txn[d] = NoTxn => Visible(d) = data)
  BY Found, Shapes DEF Codes
<1>2. /\ txn' \in [Doers -> Txns] /\ cursor' \in [Doers -> CursorSet]
      /\ data' \in SUBSET Pairs
      /\ \A e \in Doers : e # d => UNCHANGED <<txn[e], cursor[e]>>
  <2>1. CASE Commit(d)
    BY <1>1, <2>1, CommitFacts, SetFacts DEF DriverType
  <2>2. CASE UNCHANGED data /\ (UNCHANGED txn \/ SetTxn(d, NoTxn))
    BY <1>1, <2>2, SetFacts DEF DriverType
  <2> QED  BY <2>1, <2>2
<1>3. Framed(d, r)
  BY <1>1, <1>2, FramedBy
<1>4. /\ bench[d] # "iterate" => cursor'[d] = cursor[d]
      /\ bench[d] = "iterate" /\ r = 0 =>
           chosen = "wiredtiger" \/ cursor'[d] = NoCursor
  BY <1>1, SetFacts DEF Quadruple
<1>5. CASE bench[d] \in Quadruple
  <2>1. /\ data' = Visible(d) \/ (r = -1 /\ data' = data)
        /\ txn'[d] = NoTxn \/ (r = -1 /\ txn'[d] = txn[d])
    BY <1>1, <1>5, CommitFacts, SetFacts
  <2> QED  BY <1>3, <1>4, <1>5, <1>1, <2>1 DEF Outcome, DoneOut
<1>6. CASE bench[d] \notin Quadruple
  <2>1. data' = data /\ txn'[d] = NoTxn
    BY <1>1, <1>6, CommitFacts, SetFacts
  <2> QED  BY <1>3, <1>4, <1>6, <1>1, <2>1 DEF Outcome, DoneOut
<1> QED  BY <1>5, <1>6

(* next: writes, reads, and steps of an iteration. *)
LEMMA WriteAnswered ==
    ASSUME IInv, NEW d \in Doers, Kept(d), call[d].fn = "next",
           NEW r \in Codes, Return(d, r), UNCHANGED cursor,
           chosen = "sophia" /\ txn[d] = NoTxn => r = -1,
           \/ call[d].step = "set" /\ r = 0 /\ Put(d, call[d].key)
           \/ call[d].step = "delete" /\ r = 0 /\ Remove(d, call[d].key)
           \/ /\ call[d].step = "delete" /\ r = ENOENT
              /\ call[d].key \notin Visible(d) /\ UNCHANGED <<data, txn>>
           \/ /\ call[d].step \in {"set", "delete"} /\ r = -1
              /\ UNCHANGED <<data, txn>>
    PROVE  \E x \in Codes : Outcome(d, x)
<1>1. /\ DriverType /\ call[d].key \in Pairs
  BY Found
<1>2. /\ txn' \in [Doers -> Txns] /\ cursor' \in [Doers -> CursorSet]
      /\ data' \in SUBSET Pairs
      /\ \A e \in Doers : e # d => UNCHANGED <<txn[e], cursor[e]>>
  <2>1. CASE Put(d, call[d].key)
    BY <1>1, <2>1, PutFacts DEF DriverType
  <2>2. CASE Remove(d, call[d].key)
    BY <1>1, <2>2, RemoveFacts DEF DriverType
  <2>3. CASE UNCHANGED <<data, txn>>
    BY <1>1, <2>3 DEF DriverType
  <2> QED  BY <2>1, <2>2, <2>3
<1>3. Framed(d, r)
  BY <1>2, FramedBy
<1>4. SetOut(d, r) \/ DeleteOut(d, r)
  BY DEF SetOut, DeleteOut
<1> QED  BY <1>3, <1>4 DEF Outcome

(* A get, as an outcome. *)
LEMMA GetAnswered ==
    ASSUME IInv, NEW d \in Doers, Kept(d), call[d].fn = "next",
           call[d].step = "get", NEW r \in Codes, Return(d, r),
           UNCHANGED <<data, txn, cursor>>,
           r = ENOENT => call[d].key \notin Visible(d)
    PROVE  \E x \in Codes : Outcome(d, x)
<1>1. DriverType
  BY Found
<1>2. /\ txn' \in [Doers -> Txns] /\ cursor' \in [Doers -> CursorSet]
      /\ data' \in SUBSET Pairs
  BY <1>1 DEF DriverType
<1> QED  BY <1>2, FramedBy DEF Outcome, GetOut

(* A move of a cursor, as an outcome. *)
LEMMA IterateAnswered ==
    ASSUME IInv, NEW d \in Doers, Kept(d), call[d].fn = "next",
           call[d].step = "iterate", NEW r \in Codes, Return(d, r),
           UNCHANGED <<data, txn>>,
           \/ UNCHANGED cursor /\ r # 0
           \/ /\ Ahead(cursor[d], data) # {}
              /\ SetCursor(d, Moved(cursor[d], data))
              /\ chosen = "forestdb" /\ r = 0 =>
                   Ahead(Moved(cursor[d], data), data) # {}
    PROVE  \E x \in Codes : Outcome(d, x)
<1>1. /\ DriverType /\ IterReady(d) /\ chosen' = chosen
      /\ cursor[d] \in CursorSet /\ data \in SUBSET Pairs
  BY Found DEF Kept
<1>2. CASE UNCHANGED cursor /\ r # 0
  <2>1. /\ txn' \in [Doers -> Txns] /\ cursor' \in [Doers -> CursorSet]
        /\ data' \in SUBSET Pairs
    BY <1>1, <1>2 DEF DriverType
  <2> QED  BY <1>2, <2>1, FramedBy DEF Outcome, IterateOut
<1>3. CASE /\ Ahead(cursor[d], data) # {}
           /\ SetCursor(d, Moved(cursor[d], data))
           /\ chosen = "forestdb" /\ r = 0 =>
                Ahead(Moved(cursor[d], data), data) # {}
  <2> DEFINE m == Moved(cursor[d], data)
  <2>1. m \in CursorSet /\ m.kind = cursor[d].kind
    BY <1>1, <1>3, MovedFacts
  <2>2. SetCursor(d, m) /\ (chosen = "forestdb" /\ r = 0 => Ahead(m, data) # {})
    BY <1>3
  <2> HIDE DEF m
  <2>3. /\ cursor' \in [Doers -> CursorSet] /\ cursor'[d] = m
        /\ \A e \in Doers : e # d => cursor'[e] = cursor[e]
    BY <1>1, <2>1, <2>2, SetFacts
  <2>4. r = 0 => IterReady(d)'
    BY <1>1, <2>1, <2>2, <2>3 DEF IterReady
  <2>5. txn' \in [Doers -> Txns] /\ data' \in SUBSET Pairs
    BY <1>1 DEF DriverType
  <2> QED  BY <2>3, <2>4, <2>5, FramedBy DEF Outcome, IterateOut
<1> QED  BY <1>2, <1>3

----------------------------------------------------------------------------
(* The drivers. *)

(* What the lemmas about them use of the steps. *)
LEMMA StepKinds ==
    /\ \A s \in SingleSteps : s \in Single /\ s \notin Quadruple
                              /\ s # "iterate"
    /\ \A s \in TxnSteps : s \in Quadruple /\ s \notin Single
                           /\ s # "iterate"
    /\ "iterate" \notin Single \cup Quadruple
    /\ 0 \in Codes /\ -1 \in Codes /\ ENOENT \in Codes /\ ENOENT # 0
    /\ -1 # 0 /\ ENOENT # -1
    /\ {} \in SUBSET Handles
    /\ \A h \in Handles : {h} \in SUBSET Handles
    /\ "entry" \in Handles /\ "session" \in Handles /\ "file" \in Handles
    /\ "kvs" \in Handles /\ "result" \in Handles /\ "doc" \in Handles
BY DEF SingleSteps, TxnSteps, Single, Quadruple, Codes, ENOENT, Handles

(* rocksdb and leveldb have these outcomes only. *)
LEMMA WriteBatchOut ==
    ASSUME IInv, NEW d \in Doers, UNCHANGED <<chosen, runner, forestdb>>,
           chosen = "rocksdb", WbStep(d)
    PROVE  \E r \in Codes : Outcome(d, r)
<1> USE StepKinds DEF Called
<1>0. /\ call[d].fn \in {"begin", "done"} => call[d].step = bench[d]
      /\ bench[d] \notin Quadruple => txn[d] = NoTxn
      /\ txn[d] = NoTxn => Visible(d) = data
      /\ UNCHANGED at /\ at[d] = "out"
  BY Found DEF forestdb
<1>k. ASSUME UNCHANGED db,
             UNCHANGED held \/ SetHeld(d, {}) \/ SetHeld(d, {"result"})
      PROVE  Kept(d)
  <2>1. {"result"} \subseteq OwnHandles(chosen)
    BY DEF OwnHandles
  <2> QED  BY <1>0, <1>k, <2>1, KeptFacts
<1>s. /\ Live \in CursorSet /\ NoCursor \in CursorSet
      /\ Snapshot(data) \in CursorSet /\ DriverType
  BY Found, Shapes
<1>2. CASE WbThreadNew(d)
  BY <1>2, <1>k, NewAnswered DEF WbThreadNew, context
<1>3. CASE WbThreadDispose(d)
  <2>1. held'[d] = {}
    BY <1>3, <1>s, SetFacts DEF WbThreadDispose
  <2> QED  BY <1>3, <1>k, <2>1, DisposeAnswered DEF WbThreadDispose
<1>4. CASE WbBeginSingle(d)
  BY <1>0, <1>4, <1>k, BeginAnswered DEF WbBeginSingle, context
<1>5. CASE WbBeginIterate(d)
  <2>1. Kept(d) /\ bench[d] = "iterate"
    BY <1>0, <1>5, <1>k DEF WbBeginIterate
  <2> QED  BY <1>5, <1>s, <2>1, BeginAnswered DEF WbBeginIterate
<1>6. CASE WbBeginBatch(d)
  BY <1>0, <1>6, <1>k, BeginAnswered DEF WbBeginBatch
<1>7. CASE WbDoneSingle(d)
  <2>1. Kept(d)
    BY <1>7, <1>k DEF WbDoneSingle
  <2> QED  BY <1>0, <1>7, <2>1, DoneAnswered DEF WbDoneSingle
<1>8. CASE WbDoneIterate(d)
  BY <1>0, <1>8, <1>k, DoneAnswered DEF WbDoneIterate
<1>9. CASE WbDoneBatch(d)
  BY <1>0, <1>9, <1>k, DoneAnswered DEF WbDoneBatch
<1>10. CASE WbNextSet(d)
  BY <1>10, <1>k, WriteAnswered DEF WbNextSet
<1>11. CASE WbNextDelete(d)
  BY <1>11, <1>k, WriteAnswered DEF WbNextDelete
<1>12. CASE WbNextGet(d)
  <2>1. Kept(d)
    BY <1>12, <1>k DEF WbNextGet
  <2>2. PICK r \in Codes :
          Return(d, r) /\ (r = ENOENT => call[d].key \notin Visible(d))
    BY <1>0, <1>12 DEF WbNextGet
  <2> QED  BY <1>12, <2>1, <2>2, GetAnswered DEF WbNextGet
<1>13. CASE WbNextIterate(d)
  BY <1>13, <1>k, IterateAnswered DEF WbNextIterate
<1> QED  BY <1>2, <1>3, <1>4, <1>5, <1>6, <1>7, <1>8, <1>9, <1>10, <1>11,
            <1>12, <1>13 DEF WbStep

(* sophia has these outcomes only. *)
LEMMA SophiaOut ==
    ASSUME IInv, NEW d \in Doers, UNCHANGED <<chosen, runner, forestdb>>,
           chosen = "sophia", SophiaStep(d)
    PROVE  \E r \in Codes : Outcome(d, r)
<1> USE StepKinds DEF Called
<1>0. /\ call[d].fn \in {"begin", "done"} => call[d].step = bench[d]
      /\ call[d].fn = "done" /\ bench[d] = "iterate" => txn[d] = NoTxn
      /\ call[d].fn = "thread_dispose" => txn[d] # TheDb
      /\ txn[d] = NoTxn => Visible(d) = data
      /\ UNCHANGED at /\ at[d] = "out"
  BY Found DEF forestdb
<1>k. ASSUME UNCHANGED db,
             UNCHANGED held \/ \E S \in SUBSET {"entry", "lost"} : SetHeld(d, S)
      PROVE  Kept(d)
  <2>1. OwnHandles(chosen) = {"entry", "lost"}
    BY DEF OwnHandles
  <2> QED  BY <1>0, <1>k, <2>1, KeptFacts
<1>h. /\ EntryGone(d) \subseteq {"lost"} /\ EntryLost(d) \subseteq {"lost"}
      /\ EntryGone(d) \in SUBSET {"entry", "lost"}
      /\ EntryLost(d) \in SUBSET {"entry", "lost"}
      /\ EntryGone(d) \cup {"entry"} \in SUBSET {"entry", "lost"}
      /\ EntryLost(d) \cup {"entry"} \in SUBSET {"entry", "lost"}
  <2>1. held[d] \subseteq {"entry", "lost"}
    BY Found DEF OwnHandles
  <2> QED  BY <2>1 DEF EntryGone, EntryLost
<1>s. /\ Live \in CursorSet /\ NoCursor \in CursorSet
      /\ Snapshot(data) \in CursorSet /\ DriverType
  BY Found, Shapes
<1>2. CASE SophiaThreadNew(d)
  BY <1>2, <1>k, NewAnswered DEF SophiaThreadNew
<1>3. CASE SophiaThreadDispose(d)
  <2>1. EntryGone(d) \in SUBSET Handles /\ SetHeld(d, EntryGone(d))
    BY <1>3, <1>h DEF SophiaThreadDispose, Handles
  <2>2. held'[d] \subseteq {"lost"} /\ db' = db
    BY <1>0, <1>3, <1>h, <1>s, <2>1, SetFacts DEF SophiaThreadDispose
  <2> QED  BY <1>3, <1>h, <1>k, <2>1, <2>2, DisposeAnswered
           DEF SophiaThreadDispose
<1>4. CASE SophiaBeginSingle(d)
  BY <1>0, <1>4, <1>k, BeginAnswered DEF SophiaBeginSingle
<1>5. CASE SophiaBeginTxn(d)
  BY <1>0, <1>5, <1>k, BeginAnswered DEF SophiaBeginTxn
<1>6. CASE SophiaBeginIterate(d)
  <2>1. Kept(d) /\ bench[d] = "iterate"
    BY <1>0, <1>6, <1>h, <1>k DEF SophiaBeginIterate
  <2> QED  BY <1>6, <1>s, <2>1, BeginAnswered DEF SophiaBeginIterate
<1>7. CASE SophiaDoneSingle(d)
  BY <1>0, <1>7, <1>k, DoneAnswered DEF SophiaDoneSingle
<1>8. CASE SophiaDoneTxn(d)
  BY <1>0, <1>8, <1>k, DoneAnswered DEF SophiaDoneTxn
<1>9. CASE SophiaDoneIterate(d)
  BY <1>0, <1>9, <1>h, <1>k, DoneAnswered DEF SophiaDoneIterate
<1>10. CASE SophiaNextSet(d)
  <2>1. /\ call[d].fn = "next" /\ call[d].step = "set"
        /\ UNCHANGED <<cursor, db>>
        /\ \/ /\ txn[d] # NoTxn /\ Put(d, call[d].key)
              /\ SetHeld(d, EntryLost(d)) /\ Return(d, 0)
           \/ /\ SetHeld(d, EntryLost(d) \cup {"entry"}) /\ Return(d, -1)
              /\ UNCHANGED <<data, txn>>
    BY <1>10 DEF SophiaNextSet, SophiaNextWrite
  <2>2. Kept(d)
    BY <1>h, <1>k, <2>1
  <2> QED  BY <2>1, <2>2, WriteAnswered
<1>11. CASE SophiaNextDelete(d)
  <2>1. /\ call[d].fn = "next" /\ call[d].step = "delete"
        /\ UNCHANGED <<cursor, db>>
        /\ \/ /\ txn[d] # NoTxn /\ Remove(d, call[d].key)
              /\ SetHeld(d, EntryLost(d)) /\ Return(d, 0)
           \/ /\ SetHeld(d, EntryLost(d) \cup {"entry"}) /\ Return(d, -1)
              /\ UNCHANGED <<data, txn>>
    BY <1>11 DEF SophiaNextDelete, SophiaNextWrite
  <2>2. Kept(d)
    BY <1>h, <1>k, <2>1
  <2> QED  BY <2>1, <2>2, WriteAnswered
<1>12. CASE SophiaNextGet(d)
  <2>1. Kept(d)
    BY <1>12, <1>h, <1>k DEF SophiaNextGet, SophiaNoEntry
  <2>2. PICK r \in Codes :
          Return(d, r) /\ (r = ENOENT => call[d].key \notin Visible(d))
    BY <1>0, <1>12 DEF SophiaNextGet, SophiaNoEntry
  <2> QED  BY <1>12, <2>1, <2>2, GetAnswered DEF SophiaNextGet
<1>13. CASE SophiaNextIterate(d)
  <2>1. Kept(d)
    BY <1>13, <1>h, <1>k DEF SophiaNextIterate, SophiaNoEntry
  <2> QED  BY <1>13, <2>1, IterateAnswered DEF SophiaNextIterate, SophiaNoEntry
<1> QED  BY <1>2, <1>3, <1>4, <1>5, <1>6, <1>7, <1>8, <1>9, <1>10, <1>11,
            <1>12, <1>13 DEF SophiaStep

(* wiredtiger has these outcomes only. *)
LEMMA WiredTigerOut ==
    ASSUME IInv, NEW d \in Doers, UNCHANGED <<chosen, runner, forestdb>>,
           chosen = "wiredtiger", WtStep(d)
    PROVE  \E r \in Codes : Outcome(d, r)
<1> USE StepKinds DEF Called
<1>0. /\ call[d].fn \in {"begin", "done"} => call[d].step = bench[d]
      /\ bench[d] \notin Quadruple => txn[d] = NoTxn
      /\ UNCHANGED at /\ at[d] = "out"
  BY Found DEF forestdb
<1>k. ASSUME UNCHANGED db,
             UNCHANGED held \/ SetHeld(d, {}) \/ SetHeld(d, {"session"})
      PROVE  Kept(d)
  <2>1. {"session"} \subseteq OwnHandles(chosen)
    BY DEF OwnHandles
  <2> QED  BY <1>0, <1>k, <2>1, KeptFacts
<1>s. Live \in CursorSet /\ NoCursor \in CursorSet /\ DriverType
  BY Found, Shapes
<1>2. CASE WtThreadNew(d)
  <2>1. Kept(d)
    BY <1>2, <1>k DEF WtThreadNew
  <2> QED  BY <1>2, <2>1, NewAnswered DEF WtThreadNew
<1>3. CASE WtThreadDispose(d)
  <2>1. held'[d] = {}
    BY <1>3, <1>s, SetFacts DEF WtThreadDispose
  <2> QED  BY <1>3, <1>k, <2>1, DisposeAnswered DEF WtThreadDispose
<1>4. CASE WtBeginTxn(d)
  BY <1>0, <1>4, <1>k, BeginAnswered DEF WtBeginTxn
<1>5. CASE WtBeginSingle(d)
  BY <1>0, <1>5, <1>k, BeginAnswered DEF WtBeginSingle
<1>6. CASE WtBeginIterate(d)
  <2>1. Kept(d) /\ bench[d] = "iterate"
    BY <1>0, <1>6, <1>k DEF WtBeginIterate
  <2> QED  BY <1>6, <1>s, <2>1, BeginAnswered DEF WtBeginIterate
<1>7. CASE WtDoneWrite(d)
  <2>1. /\ Kept(d) /\ bench[d] # "iterate" /\ call[d].fn = "done"
        /\ UNCHANGED cursor
    BY <1>0, <1>7, <1>k DEF WtDoneWrite, TxnSteps
  <2>2. CASE Commit(d) /\ Return(d, 0)
    BY <1>0, <2>1, <2>2, DoneAnswered
  <2>3. CASE Commit(d) /\ Return(d, -1)
    BY <1>0, <2>1, <2>3, DoneAnswered
  <2>4. CASE /\ txn[d] # NoTxn /\ SetTxn(d, NoTxn) /\ Return(d, -1)
             /\ UNCHANGED data
    BY <1>0, <2>1, <2>4, DoneAnswered
  <2> QED  BY <1>7, <2>2, <2>3, <2>4 DEF WtDoneWrite
<1>8. CASE WtDoneRead(d)
  <2>1. bench[d] \notin Quadruple
    BY <1>0, <1>8 DEF WtDoneRead, Quadruple
  <2> QED  BY <1>0, <1>8, <1>k, <2>1, DoneAnswered DEF WtDoneRead
<1>9. CASE WtNextSet(d)
  BY <1>9, <1>k, WriteAnswered DEF WtNextSet
<1>10. CASE WtNextDelete(d)
  BY <1>10, <1>k, WriteAnswered DEF WtNextDelete
<1>11. CASE WtNextGet(d)
  <2>1. PICK r \in Codes :
          Return(d, r) /\ (r = ENOENT => call[d].key \notin Visible(d))
    BY <1>0, <1>11 DEF WtNextGet
  <2> QED  BY <1>11, <1>k, <2>1, GetAnswered DEF WtNextGet
<1>12. CASE WtNextIterate(d)
  BY <1>12, <1>k, IterateAnswered DEF WtNextIterate
<1> QED  BY <1>2, <1>3, <1>4, <1>5, <1>6, <1>7, <1>8, <1>9, <1>10, <1>11,
            <1>12 DEF WtStep

(* upscaledb has these outcomes only. *)
LEMMA UpscaledbOut ==
    ASSUME IInv, NEW d \in Doers, UNCHANGED <<chosen, runner, forestdb>>,
           chosen = "upscaledb", UpsStep(d)
    PROVE  \E r \in Codes : Outcome(d, r)
<1> USE StepKinds DEF Called
<1>0. /\ call[d].fn \in {"begin", "done"} => call[d].step = bench[d]
      /\ call[d].fn = "begin" => txn[d] = NoTxn /\ cursor[d] = NoCursor
      /\ bench[d] \notin Quadruple => txn[d] = NoTxn
      /\ UNCHANGED at /\ at[d] = "out" /\ held[d] = {}
  BY Found DEF forestdb, OwnHandles
<1>k. ASSUME UNCHANGED <<db, held>>
      PROVE  Kept(d) /\ held'[d] = {}
  BY <1>0, <1>k, KeptFacts
<1>s. Live \in CursorSet /\ NoCursor \in CursorSet /\ DriverType
  BY Found, Shapes
<1>2. CASE UpsThreadNew(d)
  BY <1>2, <1>k, NewAnswered DEF UpsThreadNew, context
<1>3. CASE UpsThreadDispose(d)
  BY <1>3, <1>k, DisposeAnswered DEF UpsThreadDispose
<1>4. CASE UpsBeginSingle(d)
  BY <1>0, <1>4, <1>k, BeginAnswered DEF UpsBeginSingle, context
<1>5. CASE UpsBeginIterate(d)
  <2>1. Kept(d) /\ bench[d] = "iterate"
    BY <1>0, <1>5, <1>k DEF UpsBeginIterate
  <2> QED  BY <1>0, <1>5, <1>s, <2>1, BeginAnswered DEF UpsBeginIterate
<1>6. CASE UpsBeginTxn(d)
  BY <1>0, <1>6, <1>k, BeginAnswered DEF UpsBeginTxn
<1>7. CASE UpsDoneSingle(d)
  BY <1>0, <1>7, <1>k, DoneAnswered DEF UpsDoneSingle, context
<1>8. CASE UpsDoneIterate(d)
  BY <1>0, <1>8, <1>k, DoneAnswered DEF UpsDoneIterate
<1>9. CASE UpsDoneTxn(d)
  BY <1>0, <1>9, <1>k, DoneAnswered DEF UpsDoneTxn
<1>10. CASE UpsNextSet(d)
  BY <1>10, <1>k, WriteAnswered DEF UpsNextSet
<1>11. CASE UpsNextDelete(d)
  BY <1>11, <1>k, WriteAnswered DEF UpsNextDelete
<1>12. CASE UpsNextGet(d)
  BY <1>12, <1>k, GetAnswered DEF UpsNextGet, context
<1>13. CASE UpsNextIterate(d)
  BY <1>13, <1>k, IterateAnswered DEF UpsNextIterate
<1> QED  BY <1>2, <1>3, <1>4, <1>5, <1>6, <1>7, <1>8, <1>9, <1>10, <1>11,
            <1>12, <1>13 DEF UpsStep

(* forestdb has these outcomes only, and steps within a call. *)
LEMMA ForestDbOut ==
    ASSUME IInv, NEW d \in Doers, UNCHANGED <<chosen, runner>>,
           chosen = "forestdb", FdbStep(d)
    PROVE  (\E r \in Codes : Outcome(d, r)) \/ Internal(d)
<1> USE StepKinds DEF Called
<1>0. /\ call[d].fn \in {"begin", "done"} => call[d].step = bench[d]
      /\ bench[d] \notin Quadruple => txn[d] = NoTxn
      /\ call[d].fn = "begin" => txn[d] = NoTxn
      /\ call[d].fn = "done" /\ bench[d] = "batch" => txn[d] = NoTxn
      /\ call[d].fn = "next" /\ call[d].step = "iterate" => IterReady(d)
      /\ txn[d] = NoTxn => Visible(d) = data
      /\ at[d] # "out" => call[d].fn = "begin"
      /\ DriverType /\ held[d] \subseteq OwnHandles(chosen)
      /\ bench[d] \in Steps
  BY Found DEF IInv, RunnerInv, RunnerType
<1>k. ASSUME UNCHANGED <<db, at>>, call[d].fn # "begin",
             \/ UNCHANGED held
             \/ \E S \in SUBSET OwnHandles(chosen) : SetHeld(d, S)
      PROVE  Kept(d)
  BY <1>0, <1>k, KeptFacts
<1>g. ASSUME UNCHANGED <<db, held>>, Goto(d, "out")
      PROVE  Kept(d)
  BY <1>g, KeptFacts
<1>s. Snapshot(data) \in CursorSet /\ NoCursor \in CursorSet
  BY <1>0, Shapes DEF DriverType
<1>h. /\ held[d] \ {"result"} \in SUBSET OwnHandles(chosen)
      /\ held[d] \ {"doc"} \in SUBSET OwnHandles(chosen)
      /\ held[d] \cup {"doc"} \in SUBSET OwnHandles(chosen)
      /\ (held[d] \ {"result"}) \cup {"result"} \in SUBSET OwnHandles(chosen)
      /\ {"file", "kvs"} \in SUBSET OwnHandles(chosen)
      /\ {"file"} \in SUBSET OwnHandles(chosen)
      /\ {} \in SUBSET OwnHandles(chosen)
  BY <1>0 DEF OwnHandles
<1>2. CASE FdbThreadNew(d)
  <2>1. /\ Kept(d) /\ call[d].fn = "thread_new"
        /\ UNCHANGED <<data, txn, cursor>>
    BY <1>2, <1>h, <1>k DEF FdbThreadNew, forestdb
  <2>2. CASE Return(d, 0)
    BY <2>1, <2>2, NewAnswered
  <2>3. CASE Return(d, -1) /\ (SetHeld(d, {}) \/ SetHeld(d, {"file"}))
    <3>1. LeftOver(d)'
      BY <1>0, <2>3, SetFacts DEF LeftOver
    <3> QED  BY <2>1, <2>3, <3>1, NewAnswered
  <2> QED  BY <1>2, <2>2, <2>3 DEF FdbThreadNew
<1>3. CASE FdbThreadDispose(d)
  <2>1. held'[d] = {}
    BY <1>0, <1>3, SetFacts DEF FdbThreadDispose
  <2> QED  BY <1>3, <1>h, <1>k, <2>1, DisposeAnswered DEF FdbThreadDispose, forestdb
<1>4. CASE FdbLook(d)
  BY <1>0, <1>4 DEF FdbLook, Internal, Goto, DriverType
<1>5. CASE FdbFlag(d)
  BY <1>0, <1>5 DEF FdbFlag, Internal, Goto, DriverType
<1>6. CASE FdbCompact(d)
  <2>0. call[d].fn = "begin" /\ UNCHANGED context
    BY <1>0, <1>6 DEF FdbCompact
  <2>1. CASE Goto(d, "rest") /\ UNCHANGED call
    BY <1>0, <2>0, <2>1 DEF Internal, Goto, DriverType
  <2>2. CASE Goto(d, "out") /\ Return(d, -1)
    <3>1. Kept(d) /\ UNCHANGED <<data, txn, cursor>>
      BY <1>g, <2>0, <2>2 DEF context
    <3>2. bench[d] # "iterate" => bench[d] \in Single \cup Quadruple
      BY <1>0 DEF Steps, Single, Quadruple
    <3>3. Framed(d, -1)
      BY <1>0, <2>2, <3>1, FramedBy DEF DriverType
    <3>4. BeginOut(d, -1)
      BY <2>0, <3>1 DEF BeginOut
    <3> QED  BY <3>3, <3>4 DEF Outcome
  <2> QED  BY <1>6, <2>1, <2>2 DEF FdbCompact
<1>7. CASE FdbBeginCrud(d)
  <2>1. bench[d] \in Quadruple /\ bench[d] # "batch" /\ Kept(d)
    BY <1>0, <1>7, <1>g DEF FdbBeginCrud, Compacted, Quadruple
  <2> QED  BY <1>7, <2>1, BeginAnswered DEF FdbBeginCrud, Compacted
<1>8. CASE FdbBeginOther(d)
  <2>1. /\ Kept(d) /\ UNCHANGED <<data, txn, cursor>> /\ Return(d, 0)
        /\ call[d].fn = "begin"
        /\ bench[d] \in Single \/ bench[d] = "batch"
    BY <1>0, <1>8, <1>g DEF FdbBeginOther, Compacted, context
  <2>2. bench[d] = "batch" => bench[d] \in Quadruple
    BY DEF Quadruple
  <2> QED  BY <2>1, <2>2, BeginAnswered
<1>9. CASE FdbBeginIterate(d)
  <2>1. /\ Kept(d) /\ UNCHANGED <<data, txn>> /\ call[d].fn = "begin"
        /\ bench[d] = "iterate"
    BY <1>0, <1>9, <1>g DEF FdbBeginIterate, Compacted
  <2>2. CASE Return(d, 0) /\ SetCursor(d, Snapshot(data)) /\ data # {}
    BY <1>s, <2>1, <2>2, BeginAnswered
  <2>3. CASE Return(d, -1) /\ (SetCursor(d, Snapshot(data)) \/ UNCHANGED cursor)
    BY <1>s, <2>1, <2>3, BeginAnswered
  <2> QED  BY <1>9, <2>2, <2>3 DEF FdbBeginIterate
<1>10. CASE FdbDoneCrud(d)
  <2>1. bench[d] \in Quadruple /\ Kept(d)
    BY <1>0, <1>10, <1>k DEF FdbDoneCrud, forestdb, Quadruple
  <2> QED  BY <1>10, <2>1, DoneAnswered DEF FdbDoneCrud
<1>11. CASE FdbDoneCommit(d)
  <2>1. /\ Kept(d) /\ UNCHANGED <<data, txn, cursor>> /\ call[d].fn = "done"
        /\ bench[d] \in {"batch", "delete", "set"}
    BY <1>0, <1>11, <1>k DEF FdbDoneCommit, forestdb, context
  <2>2. txn[d] = NoTxn /\ bench[d] # "iterate"
    BY <1>0, <2>1 DEF Quadruple
  <2> QED  BY <1>11, <2>1, <2>2, DoneAnswered DEF FdbDoneCommit
<1>12. CASE FdbDoneGet(d)
  <2>1. Kept(d) /\ bench[d] \notin Quadruple /\ bench[d] # "iterate"
    BY <1>0, <1>12, <1>h, <1>k DEF FdbDoneGet, forestdb, Quadruple
  <2> QED  BY <1>0, <1>12, <2>1, DoneAnswered DEF FdbDoneGet
<1>13. CASE FdbDoneIterate(d)
  <2>1. Kept(d) /\ bench[d] \notin Quadruple /\ bench[d] = "iterate"
    BY <1>0, <1>13, <1>h, <1>k DEF FdbDoneIterate, forestdb
  <2> QED  BY <1>0, <1>13, <2>1, DoneAnswered DEF FdbDoneIterate
<1>14. CASE FdbNextSet(d)
  BY <1>14, <1>k, WriteAnswered DEF FdbNextSet, forestdb
<1>15. CASE FdbNextDelete(d)
  BY <1>15, <1>k, WriteAnswered DEF FdbNextDelete, forestdb
<1>16. CASE FdbNextGet(d)
  <2>1. Kept(d)
    BY <1>16, <1>h, <1>k DEF FdbNextGet, forestdb
  <2>2. PICK r \in Codes :
          Return(d, r) /\ (r = ENOENT => call[d].key \notin Visible(d))
    BY <1>0, <1>16 DEF FdbNextGet
  <2> QED  BY <1>16, <2>1, <2>2, GetAnswered DEF FdbNextGet
<1>17. CASE FdbNextIterate(d)
  <2>1. /\ Kept(d) /\ UNCHANGED <<data, txn>> /\ call[d].fn = "next"
        /\ call[d].step = "iterate"
        /\ Ahead(cursor[d], data) # {}
    BY <1>0, <1>17, <1>h, <1>k DEF FdbNextIterate, forestdb, IterReady
  <2>2. CASE SetCursor(d, Moved(cursor[d], data))
    <3>1. PICK r \in Codes : Return(d, r) /\
            (r = 0 => Ahead(Moved(cursor[d], data), data) # {})
      BY <1>17 DEF FdbNextIterate
    <3> QED  BY <2>1, <2>2, <3>1, IterateAnswered
  <2>3. CASE Return(d, -1) /\ UNCHANGED cursor
    BY <2>1, <2>3, IterateAnswered
  <2> QED  BY <1>17, <2>2, <2>3 DEF FdbNextIterate
<1> QED  BY <1>2, <1>3, <1>4, <1>5, <1>6, <1>7, <1>8, <1>9, <1>10, <1>11,
            <1>12, <1>13, <1>14, <1>15, <1>16, <1>17 DEF FdbStep

----------------------------------------------------------------------------
(* A doer whose call has been answered. *)

(* Every step of a driver has one of the outcomes. *)
LEMMA DriverOut ==
    ASSUME IInv, NEW d \in Doers, UNCHANGED <<chosen, runner>>, DriverStep(d)
    PROVE  (\E r \in Codes : Outcome(d, r)) \/ Internal(d)
BY WriteBatchOut, SophiaOut, WiredTigerOut, UpscaledbOut, ForestDbOut
DEF DriverStep

(* What d knows stays, but for the answer. *)
LEMMA Answered ==
    ASSUME IInv, NEW d \in Doers, UNCHANGED <<chosen, runner>>,
           NEW r \in Codes, Outcome(d, r)
    PROVE  /\ call'[d].fn = "return" /\ call'[d].rc = r
           /\ call'[d].step = call[d].step /\ call'[d].key = call[d].key
           /\ KeyA(d)' = KeyA(d) /\ KeyB(d)' = KeyB(d)
           /\ Earlier(d)' = Earlier(d) /\ EarlierB(d)' = EarlierB(d)
           /\ Written(d)' = Written(d) /\ WrittenB(d)' = WrittenB(d)
           /\ \A n \in 0 .. 4 : /\ PutsAfter(d, n)' = PutsAfter(d, n)
                                /\ DelsAfter(d, n)' = DelsAfter(d, n)
           /\ AtOK(d)'
           /\ RunnerInv' /\ \A e \in Doers : e # d => SameFor(e)
<1>0. RunnerInv /\ call \in [Doers -> CallType] /\ Return(d, r)
  BY DEF IInv, RunnerInv, RunnerType, Outcome, Framed
<1>1. call' = [call EXCEPT ![d] = Answer(call[d], r)]
  BY <1>0 DEF Return
<1>2. /\ call'[d].fn = "return" /\ call'[d].rc = r
      /\ call'[d].step = call[d].step /\ call'[d].key = call[d].key
  BY <1>0, <1>1, AnswerType
<1>3. /\ KeyA(d)' = KeyA(d) /\ KeyB(d)' = KeyB(d)
      /\ Earlier(d)' = Earlier(d) /\ EarlierB(d)' = EarlierB(d)
      /\ Written(d)' = Written(d) /\ WrittenB(d)' = WrittenB(d)
  BY DEF runner, KeyOf, KeyA, KeyB, Earlier, EarlierB, Batched, BatchedB,
     Written, WrittenB
<1>4. \A n \in 0 .. 4 : /\ PutsAfter(d, n)' = PutsAfter(d, n)
                        /\ DelsAfter(d, n)' = DelsAfter(d, n)
  BY <1>3 DEF PutsAfter, DelsAfter
<1>5. AtOK(d)'
  BY DEF AtOK, Outcome, Framed
<1>6. call[d].fn \in Functions
  BY DEF Functions, Outcome, NewOut, BeginOut, SetOut, DeleteOut, GetOut,
     IterateOut, DoneOut, DisposeOut
<1> QED  BY <1>0, <1>2, <1>3, <1>4, <1>5, <1>6, AnswerKeeps

(* thread_new, begin and thread_dispose. *)
LEMMA OutsideKeeps ==
    ASSUME IInv, NEW d \in Doers, UNCHANGED <<chosen, runner>>,
           NEW r \in Codes, Outcome(d, r),
           NewOut(d, r) \/ BeginOut(d, r) \/ DisposeOut(d, r)
    PROVE  CtxInv(d)'
<1>0. /\ CtxInv(d) /\ RunnerInv /\ txn[d] \in Txns /\ bench[d] \in Steps
      /\ UNCHANGED <<job, pc, passes, bench, rc, begun, chosen>>
      /\ call'[d].fn = "return" /\ call'[d].rc = r /\ AtOK(d)'
      /\ KeyB(d)' = KeyB(d)
      /\ held'[d] \subseteq OwnHandles(chosen)
  BY Answered, Found DEF IInv, runner, RunnerInv, RunnerType, Outcome, Framed
<1>1. AtOK(d) /\ KindOK(d) /\ OutsideOK(d) /\ BenchOK(d) /\ BeginOK(d)
      /\ FreshOK(d)
  BY <1>0 DEF CtxInv
<1>2. ASSUME pc[d] # "next", data' = data PROVE FreshOK(d)'
  BY <1>0, <1>1, <1>2 DEF FreshOK, Midway
<1>3. CASE NewOut(d, r)
  <2>1. pc[d] = "new"
    BY <1>0, <1>3, CallPlace DEF NewOut
  <2>2. KindOK(d)'
    BY <1>0, <1>1, <1>3 DEF KindOK, NewOut
  <2>3. OutsideOK(d)'
    <3>1. /\ passes[d] = 0 /\ txn[d] = NoTxn /\ cursor[d] = NoCursor
          /\ held[d] = {}
      BY <1>1, <1>3, <2>1 DEF OutsideOK, NewOut
    <3>2. r = 0 => Clean(d)'
      BY <1>0, <1>3, <3>1 DEF NewOut, Clean
    <3>3. r # 0 => cursor'[d] = NoCursor /\ LeftOver(d)'
      BY <1>3, <3>1 DEF NewOut, LeftOver
    <3> QED  BY <1>0, <1>3, <2>1, <3>1, <3>2, <3>3 DEF OutsideOK, NewOut
  <2>4. BenchOK(d)' /\ BeginOK(d)' /\ NextOK(d)' /\ DoneOK(d)'
    BY <1>0, <2>1 DEF BenchOK, BeginOK, NextOK, DoneOK
  <2> QED  BY <1>0, <1>2, <1>3, <2>1, <2>2, <2>3, <2>4 DEF CtxInv, NewOut
<1>4. CASE BeginOut(d, r)
  <2>1. pc[d] = "begin" /\ txn[d] = NoTxn
    BY <1>0, <1>4, CallPlace, Found DEF BeginOut
  <2>2. /\ bench[d] \in Single =>
             bench[d] \notin Quadruple /\ bench[d] # "iterate"
        /\ bench[d] \in Quadruple =>
             bench[d] \notin Single /\ bench[d] # "iterate"
        /\ bench[d] \in Single \cup Quadruple \/ bench[d] = "iterate"
    BY <1>0 DEF Single, Quadruple, Steps
  <2>3. /\ r \in {0, -1} /\ data' = data
        /\ r = 0 =>
             /\ bench[d] \in Single =>
                  txn'[d] = IF chosen = "sophia" THEN TheDb ELSE NoTxn
             /\ bench[d] \in Quadruple => txn'[d] \in {OpenTxn, NoTxn}
        /\ bench[d] = "iterate" \/ r = -1 => txn'[d] = NoTxn
        /\ chosen = "forestdb" /\ bench[d] = "batch" => txn'[d] = NoTxn
        /\ bench[d] # "iterate" => cursor'[d] = cursor[d]
    BY <1>0, <1>4, <2>1 DEF BeginOut, Ready
  <2>4. /\ txn'[d] \in {NoTxn, OpenTxn, TheDb}
        /\ txn'[d] = OpenTxn => bench[d] \in Quadruple
        /\ txn'[d] = TheDb => bench[d] \in Single /\ chosen = "sophia"
    BY <2>2, <2>3, Shapes
  <2>5. KindOK(d)'
    BY <1>0, <2>2, <2>3, <2>4, Shapes DEF KindOK
  <2>6. BenchOK(d)'
    BY <1>0, <1>1, <2>1, <2>2, <2>3, <2>4, Shapes DEF BenchOK
  <2>7. BeginOK(d)'
    BY <1>0, <1>4, <2>3 DEF BeginOK, BeginOut
  <2>8. OutsideOK(d)' /\ NextOK(d)' /\ DoneOK(d)'
    BY <1>0, <2>1 DEF OutsideOK, NextOK, DoneOK
  <2> QED  BY <1>0, <1>2, <2>1, <2>3, <2>5, <2>6, <2>7, <2>8 DEF CtxInv
<1>5. CASE DisposeOut(d, r)
  <2>1. /\ pc[d] = "dispose" /\ data' = data
        /\ txn'[d] = NoTxn /\ cursor'[d] = NoCursor
        /\ held'[d] \subseteq {"lost"}
    BY <1>0, <1>5, CallPlace DEF DisposeOut
  <2>2. KindOK(d)' /\ OutsideOK(d)'
    BY <1>0, <2>1, Shapes DEF KindOK, OutsideOK
  <2>3. BenchOK(d)' /\ BeginOK(d)' /\ NextOK(d)' /\ DoneOK(d)'
    BY <1>0, <2>1 DEF BenchOK, BeginOK, NextOK, DoneOK
  <2> QED  BY <1>0, <1>2, <2>1, <2>2, <2>3 DEF CtxInv
<1> QED  BY <1>3, <1>4, <1>5

(* What next finds, and where. *)
LEMMA NextFound ==
    ASSUME IInv, NEW d \in Doers, call[d].fn = "next"
    PROVE  /\ pc[d] = "next" /\ NextOK(d) /\ KindOK(d) /\ BenchOK(d)
           /\ FreshOK(d) /\ txn[d] \in Txns /\ data \in SUBSET Pairs
           /\ before[d] \subseteq data
           /\ call[d].step = "iterate" => bench[d] = "iterate"
           /\ call[d].step # "iterate" => call[d].key \in Pairs
           /\ \/ /\ bench[d] \in Single /\ bench[d] \notin Quadruple
                 /\ bench[d] # "iterate" /\ call[d].step = bench[d]
                 /\ call[d].key = KeyA(d) /\ txn[d].kind # "open"
                 /\ Visible(d) = data
              \/ /\ bench[d] \in Quadruple /\ bench[d] \notin Single
                 /\ bench[d] # "iterate"
                 /\ \/ q[d] = 1 /\ call[d].step = "set" /\ call[d].key = KeyB(d)
                    \/ q[d] = 2 /\ call[d].step = "set" /\ call[d].key = KeyA(d)
                    \/ /\ q[d] = 3 /\ call[d].step = "delete"
                       /\ call[d].key = KeyB(d)
                    \/ q[d] = 4 /\ call[d].step = "get" /\ call[d].key = KeyA(d)
              \/ /\ bench[d] = "iterate" /\ call[d].step = "iterate"
                 /\ bench[d] \notin Single \cup Quadruple
<1>0. /\ RunnerInv /\ CtxInv(d) /\ bench[d] \in Steps /\ q[d] \in 1 .. 4
      /\ before[d] \subseteq data
  BY DEF IInv, RunnerInv, RunnerType, BeforeInv
<1>1. /\ pc[d] = "next" /\ NextOK(d) /\ KindOK(d) /\ BenchOK(d) /\ FreshOK(d)
      /\ txn[d] \in Txns /\ data \in SUBSET Pairs
      /\ call[d].step = "iterate" => bench[d] = "iterate"
      /\ call[d].step # "iterate" => call[d].key \in Pairs
  BY <1>0, CallPlace, Found DEF CtxInv
<1>2. CASE bench[d] \in Single
  <2>1. bench[d] \notin Quadruple /\ bench[d] # "iterate"
    BY <1>2 DEF Single, Quadruple
  <2>2. txn[d] = TheDb \/ txn[d] = NoTxn
    BY <1>1, <1>2 DEF NextOK
  <2>3. Visible(d) = data /\ txn[d].kind # "open"
    BY <2>2, Shapes DEF Visible
  <2>4. call[d].step = bench[d] /\ call[d].key = KeyA(d)
    BY <1>0, <1>1, <1>2, CallPlace DEF KeyA
  <2> QED  BY <1>0, <1>1, <1>2, <2>1, <2>3, <2>4
<1>3. CASE bench[d] \in Quadruple
  <2>1. bench[d] \notin Single /\ bench[d] # "iterate"
    BY <1>3 DEF Single, Quadruple
  <2>2. /\ q[d] \in {1, 2} <=> call[d].step = "set"
        /\ q[d] = 3 <=> call[d].step = "delete"
        /\ q[d] = 4 <=> call[d].step = "get"
        /\ q[d] \in {1, 3} => call[d].key = KeyB(d)
        /\ q[d] \in {2, 4} => call[d].key = KeyA(d)
    BY <1>0, <1>1, <1>3, CallPlace DEF KeyA, KeyB
  <2>3. q[d] = 1 \/ q[d] = 2 \/ q[d] = 3 \/ q[d] = 4
    BY <1>0
  <2> QED  BY <1>0, <1>1, <1>3, <2>1, <2>2, <2>3
<1>4. CASE bench[d] = "iterate"
  BY <1>0, <1>1, <1>4, CallPlace DEF Single, Quadruple
<1> QED  BY <1>0, <1>2, <1>3, <1>4 DEF Single, Quadruple, Steps

(* The part of the invariant that is the same for all of next. *)
LEMMA NextCommon ==
    ASSUME IInv, NEW d \in Doers, UNCHANGED <<chosen, runner>>,
           NEW r \in Codes, Outcome(d, r), call[d].fn = "next",
           txn'[d].kind = txn[d].kind,
           txn[d].kind # "open" => txn'[d] = txn[d],
           bench[d] # "iterate" => cursor'[d] = cursor[d],
           NextOK(d)', FreshOK(d)'
    PROVE  CtxInv(d)'
<1>0. /\ CtxInv(d) /\ pc[d] = "next" /\ txn[d] \in Txns
      /\ UNCHANGED <<job, pc, passes, bench, rc, begun, chosen>>
      /\ call'[d].fn = "return" /\ AtOK(d)'
      /\ held'[d] \subseteq OwnHandles(chosen)
  BY Answered, NextFound DEF IInv, runner, Outcome, Framed
<1>1. KindOK(d) /\ BenchOK(d)
  BY <1>0 DEF CtxInv
<1>2. txn'[d] = txn[d] \/ (txn[d].kind = "open" /\ txn'[d].kind = "open")
  OBVIOUS
<1>3. KindOK(d)'
  BY <1>0, <1>1, <1>2 DEF KindOK
<1>4. BenchOK(d)'
  <2>1. bench[d] = "iterate" => txn'[d] = NoTxn
    BY <1>0, <1>1, Shapes DEF BenchOK
  <2> QED  BY <1>0, <1>1, <2>1 DEF BenchOK
<1>5. OutsideOK(d)' /\ BeginOK(d)' /\ DoneOK(d)'
  BY <1>0 DEF OutsideOK, BeginOK, DoneOK
<1> QED  BY <1>0, <1>3, <1>4, <1>5 DEF CtxInv

(* NextOK after a call of ia_quadruple that has done its part, or not. *)
LEMMA QuadrupleNext ==
    ASSUME IInv, NEW d \in Doers, UNCHANGED <<chosen, runner>>,
           NEW r \in {0, -1}, Outcome(d, r), call[d].fn = "next",
           bench[d] \in Quadruple,
           txn'[d].kind = txn[d].kind,
           txn[d].kind # "open" => txn'[d] = txn[d],
           chosen = "sophia" /\ txn[d] = NoTxn => r = -1,
           r = 0 =>
             /\ txn[d].kind = "open" =>
                  /\ txn'[d].puts = PutsAfter(d, q[d])
                  /\ txn'[d].dels = DelsAfter(d, q[d])
             /\ txn[d].kind # "open" =>
                  /\ PutsAfter(d, q[d]) \subseteq data'
                  /\ DelsAfter(d, q[d]) \cap data' = {}
    PROVE  NextOK(d)' /\ (Direct(d)' <=> Direct(d))
<1>0. /\ NextOK(d) /\ pc[d] = "next" /\ bench[d] \notin Single
      /\ bench[d] # "iterate" /\ q[d] \in 0 .. 4
      /\ txn[d].kind = "open" \/ Direct(d)
  BY NextFound DEF NextOK, IInv, RunnerInv, RunnerType
<1>1. /\ call'[d].fn = "return" /\ call'[d].rc = r
      /\ UNCHANGED <<pc, bench, q, begun, chosen>>
      /\ PutsAfter(d, q[d])' = PutsAfter(d, q[d])
      /\ DelsAfter(d, q[d])' = DelsAfter(d, q[d])
  <2>1. r \in Codes
    BY DEF Codes
  <2>2. UNCHANGED <<pc, bench, q, begun, chosen>>
    BY DEF runner
  <2>3. /\ call'[d].fn = "return" /\ call'[d].rc = r
        /\ \A n \in 0 .. 4 : /\ PutsAfter(d, n)' = PutsAfter(d, n)
                             /\ DelsAfter(d, n)' = DelsAfter(d, n)
    BY <2>1, Answered
  <2>4. /\ PutsAfter(d, q[d])' = PutsAfter(d, q[d])
        /\ DelsAfter(d, q[d])' = DelsAfter(d, q[d])
    BY <2>2, <2>3, <1>0 DEF PutsAfter, DelsAfter
  <2> QED  BY <2>2, <2>3, <2>4
<1>2. Direct(d)' <=> Direct(d)
  <2>1. txn[d].kind = "open" => txn[d] # NoTxn /\ txn'[d] # NoTxn
    BY Shapes
  <2> QED  BY <1>1, <2>1 DEF Direct
<1>3. r = 0 => Wrote(d, PutsAfter(d, q[d]), DelsAfter(d, q[d]))'
  BY <1>1 DEF Wrote
<1>4. chosen = "sophia" /\ txn'[d] = NoTxn => q[d] = 1 /\ r = -1
  <2>1. txn'[d] = NoTxn => txn[d] = NoTxn
    BY Shapes
  <2> QED  BY <1>0, <2>1 DEF NextOK
<1> QED  BY <1>0, <1>1, <1>2, <1>3, <1>4 DEF NextOK

(* A set keeps what is known of the context. *)
LEMMA SetKeeps ==
    ASSUME IInv, NEW d \in Doers, UNCHANGED <<chosen, runner>>,
           NEW r \in Codes, Outcome(d, r), SetOut(d, r)
    PROVE  CtxInv(d)'
<1>0. /\ RunnerInv /\ DriverType /\ job[d].space \in Nat
  BY JobFacts DEF IInv, ContextType, RunnerInv, RunnerType
<1>1. /\ call[d].fn = "next" /\ call[d].step = "set"
      /\ r \in {0, -1} /\ cursor'[d] = cursor[d]
      /\ chosen = "sophia" /\ txn[d] = NoTxn => r = -1
      /\ r = 0 => Put(d, call[d].key)
      /\ r = -1 => UNCHANGED <<data, txn>>
  BY DEF SetOut
<1>2. /\ pc[d] = "next" /\ NextOK(d) /\ FreshOK(d)
      /\ call[d].key \in Pairs
      /\ \/ /\ bench[d] = "set" /\ call[d].key = KeyA(d)
            /\ txn[d].kind # "open"
         \/ /\ bench[d] \in Quadruple
            /\ \/ q[d] = 1 /\ call[d].key = KeyB(d)
               \/ q[d] = 2 /\ call[d].key = KeyA(d)
  BY <1>1, NextFound
<1>3. /\ call'[d].fn = "return" /\ call'[d].rc = r
      /\ call'[d].key = call[d].key
      /\ KeyA(d)' = KeyA(d) /\ KeyB(d)' = KeyB(d)
      /\ UNCHANGED <<pc, job, bench, q, rc, begun, chosen>>
  BY Answered DEF runner
<1>4. /\ txn'[d].kind = txn[d].kind
      /\ txn[d].kind # "open" => txn'[d] = txn[d]
      /\ txn[d].kind = "open" => data' = data
      /\ txn[d].kind = "open" /\ r = 0 =>
           /\ txn'[d].puts = txn[d].puts \cup {call[d].key}
           /\ txn'[d].dels = txn[d].dels \ {call[d].key}
      /\ txn[d].kind # "open" /\ r = 0 => data' = data \cup {call[d].key}
      /\ r = -1 => data' = data
  <2>1. CASE r = 0
    BY <1>0, <1>1, <1>2, <2>1, PutFacts
  <2>2. CASE r = -1
    BY <1>1, <2>2
  <2> QED  BY <1>1, <2>1, <2>2
<1>5. CASE bench[d] = "set"
  <2>1. bench[d] \in Single /\ bench[d] \notin Quadruple /\ bench[d] # "iterate"
        /\ bench[d] # "batch"
    BY <1>5 DEF Single, Quadruple
  <2>2. SingleShown(d, r)'
    BY <1>2, <1>3, <1>4, <1>5, <2>1 DEF SingleShown
  <2>3. call[d].key = KeyA(d) /\ txn'[d] = txn[d]
    BY <1>2, <1>4, <2>1
  <2>4. NextOK(d)'
    <3>1. txn'[d] = IF chosen' = "sophia" THEN TheDb ELSE NoTxn
      BY <1>2, <1>3, <2>1, <2>3 DEF NextOK
    <3>2. r # ENOENT
      BY <1>1 DEF ENOENT
    <3>3. SingleShown(d, call[d].rc)'
      BY <1>3, <2>2 DEF SingleShown
    <3> QED  BY <1>1, <1>3, <2>1, <3>1, <3>2, <3>3 DEF NextOK
  <2>5. FreshOK(d)'
    <3>1. ~Midway(d)
      BY <2>1 DEF Midway, Direct
    <3>2. data' \subseteq data \cup {KeyA(d)} /\ KeyA(d)[1] = job[d].space
      BY <1>0, <1>1, <1>2, <1>4, <2>3, KeySets
    <3> QED  BY <1>0, <1>2, <1>3, <3>1, <3>2 DEF FreshOK
  <2> QED  BY <1>1, <1>4, <2>4, <2>5, NextCommon
<1>6. CASE bench[d] \in Quadruple
  <2> DEFINE n == q[d]
             k == call[d].key
  <2>1. /\ n \in {1, 2} /\ n \in 1 .. 4
        /\ PutsAfter(d, n) = PutsAfter(d, n - 1) \cup {k}
        /\ DelsAfter(d, n) = DelsAfter(d, n - 1) \ {k}
    <3>1. CASE n = 1 /\ k = KeyB(d)
      BY <1>0, <3>1, QuadrupleSets
    <3>2. CASE n = 2 /\ k = KeyA(d)
      BY <1>0, <3>2, QuadrupleSets
    <3> QED  BY <1>2, <1>6, <3>1, <3>2 DEF Quadruple
  <2>2. Wrote(d, PutsAfter(d, n - 1), DelsAfter(d, n - 1))
    BY <1>1, <1>2, <1>6 DEF NextOK
  <2>3. r = 0 =>
          /\ txn[d].kind = "open" =>
               txn'[d].puts = PutsAfter(d, n) /\ txn'[d].dels = DelsAfter(d, n)
          /\ txn[d].kind # "open" =>
               PutsAfter(d, n) \subseteq data' /\ DelsAfter(d, n) \cap data' = {}
    BY <1>4, <2>1, <2>2 DEF Wrote
  <2>4. NextOK(d)' /\ (Direct(d)' <=> Direct(d))
    BY <1>1, <1>4, <1>6, <2>3, QuadrupleNext
  <2>5. FreshOK(d)'
    <3>1. Direct(d) => Midway(d)'
      BY <1>2, <1>3, <2>1, <2>4 DEF Midway
    <3>2. Midway(d) => Direct(d)
      BY DEF Midway
    <3>3. txn[d].kind = "open" \/ Direct(d)
      BY <1>2, <1>6 DEF NextOK
    <3>4. /\ data' \subseteq data \cup {k}
          /\ ~Direct(d) => data' = data
      BY <1>1, <1>4, <3>3
    <3>5. k = KeyB(d) \/ k[1] = job[d].space
      BY <1>0, <1>2, <1>6, KeySets DEF Quadruple
    <3>6. job[d].space # job[d].space + 1
      BY <1>0
    <3> QED  BY <1>2, <1>3, <3>1, <3>2, <3>4, <3>5, <3>6 DEF FreshOK
  <2> QED  BY <1>1, <1>4, <2>4, <2>5, NextCommon
<1> QED  BY <1>2, <1>5, <1>6

(* A delete keeps what is known of the context. *)
LEMMA DeleteKeeps ==
    ASSUME IInv, NEW d \in Doers, UNCHANGED <<chosen, runner>>,
           NEW r \in Codes, Outcome(d, r), DeleteOut(d, r),
           before'[d] \subseteq before[d]
    PROVE  CtxInv(d)'
<1>0. /\ RunnerInv /\ DriverType /\ job[d].space \in Nat
  BY JobFacts DEF IInv, ContextType, RunnerInv, RunnerType
<1>1. /\ call[d].fn = "next" /\ call[d].step = "delete"
      /\ cursor'[d] = cursor[d]
      /\ chosen = "sophia" /\ txn[d] = NoTxn => r = -1
      /\ r = 0 => Remove(d, call[d].key)
      /\ r # 0 => UNCHANGED <<data, txn>>
      /\ r = ENOENT => call[d].key \notin Visible(d)
  BY DEF DeleteOut, ENOENT
<1>2. /\ pc[d] = "next" /\ NextOK(d) /\ FreshOK(d)
      /\ call[d].key \in Pairs /\ before[d] \subseteq data
      /\ \/ /\ bench[d] = "delete" /\ call[d].key = KeyA(d)
            /\ txn[d].kind # "open" /\ Visible(d) = data
         \/ /\ bench[d] \in Quadruple /\ q[d] = 3 /\ call[d].key = KeyB(d)
  BY <1>1, NextFound
<1>3. /\ call'[d].fn = "return" /\ call'[d].rc = r
      /\ call'[d].key = call[d].key
      /\ KeyA(d)' = KeyA(d) /\ KeyB(d)' = KeyB(d)
      /\ UNCHANGED <<pc, job, bench, q, rc, begun, chosen>>
  BY Answered DEF runner
<1>4. /\ txn'[d].kind = txn[d].kind
      /\ txn[d].kind # "open" => txn'[d] = txn[d]
      /\ txn[d].kind = "open" => data' = data
      /\ txn[d].kind = "open" /\ r = 0 =>
           /\ txn'[d].puts = txn[d].puts \ {call[d].key}
           /\ txn'[d].dels = txn[d].dels \cup {call[d].key}
      /\ txn[d].kind # "open" /\ r = 0 => data' = data \ {call[d].key}
      /\ r # 0 => data' = data
  <2>1. CASE r = 0
    BY <1>0, <1>1, <1>2, <2>1, RemoveFacts
  <2>2. CASE r # 0
    BY <1>1, <2>2
  <2> QED  BY <1>1, <2>1, <2>2
<1>5. CASE bench[d] = "delete"
  <2>1. bench[d] \in Single /\ bench[d] \notin Quadruple /\ bench[d] # "iterate"
        /\ bench[d] # "batch"
    BY <1>5 DEF Single, Quadruple
  <2>2. call[d].key = KeyA(d) /\ txn'[d] = txn[d] /\ Visible(d) = data
    BY <1>2, <1>4, <2>1
  <2>3. SingleShown(d, r)'
    BY <1>3, <1>2, <1>4, <1>5, <2>1, <2>2 DEF SingleShown
  <2>4. NextOK(d)'
    <3>1. txn'[d] = IF chosen' = "sophia" THEN TheDb ELSE NoTxn
      BY <1>2, <1>3, <2>1, <2>2 DEF NextOK
    <3>2. r = ENOENT => call'[d].key \notin before'[d]
      BY <1>1, <1>2, <1>3, <2>2
    <3>3. SingleShown(d, call[d].rc)'
      BY <1>3, <2>3 DEF SingleShown
    <3> QED  BY <1>3, <2>1, <3>1, <3>2, <3>3 DEF NextOK
  <2>5. FreshOK(d)'
    <3>1. ~Midway(d) /\ data' \subseteq data
      BY <1>2, <1>4, <2>1 DEF Midway, Direct
    <3> QED  BY <1>2, <1>3, <3>1 DEF FreshOK
  <2> QED  BY <1>1, <1>4, <2>1, <2>4, <2>5, NextCommon
<1>6. CASE bench[d] \in Quadruple
  <2>1. q[d] = 3 /\ call[d].key = KeyB(d) /\ bench[d] # "iterate"
    BY <1>2, <1>6 DEF Quadruple
  <2>2. Wrote(d, PutsAfter(d, 2), DelsAfter(d, 2))
    <3>1. q[d] - 1 = 2
      BY <2>1
    <3>2. Wrote(d, PutsAfter(d, q[d] - 1), DelsAfter(d, q[d] - 1))
      BY <1>1, <1>2, <1>6 DEF NextOK
    <3> QED  BY <3>1, <3>2
  <2>3. /\ PutsAfter(d, 3) = PutsAfter(d, 2) \ {KeyB(d)}
        /\ DelsAfter(d, 3) = DelsAfter(d, 2) \cup {KeyB(d)}
        /\ KeyB(d) \in PutsAfter(d, 2) /\ KeyB(d) \notin DelsAfter(d, 2)
    BY <1>0, QuadrupleSets
  <2>4. txn[d].kind = "open" \/ Direct(d)
    BY <1>2, <1>6 DEF NextOK
  <2>5. KeyB(d) \in Visible(d)
    <3>1. CASE txn[d].kind = "open"
      BY <2>2, <2>3, <3>1 DEF Wrote, Visible
    <3>2. CASE Direct(d)
      BY <2>2, <2>3, <3>2, Shapes DEF Wrote, Visible, Direct
    <3> QED  BY <2>4, <3>1, <3>2
  <2>6. r \in {0, -1}
    BY <1>1, <2>1, <2>5 DEF Codes
  <2>7. r = 0 =>
          /\ txn[d].kind = "open" =>
               txn'[d].puts = PutsAfter(d, 3) /\ txn'[d].dels = DelsAfter(d, 3)
          /\ txn[d].kind # "open" =>
               PutsAfter(d, 3) \subseteq data' /\ DelsAfter(d, 3) \cap data' = {}
    BY <1>4, <2>1, <2>2, <2>3 DEF Wrote
  <2>8. NextOK(d)' /\ (Direct(d)' <=> Direct(d))
    BY <1>1, <1>4, <1>6, <2>1, <2>6, <2>7, QuadrupleNext
  <2>9. FreshOK(d)'
    <3>1. CASE r = 0
      <4>1. ~Midway(d) \/ KeyB(d) \notin data'
        BY <1>4, <2>1, <3>1, Shapes DEF Midway, Direct
      <4>2. data' \subseteq data
        BY <1>4, <3>1
      <4> QED  BY <1>2, <1>3, <4>1, <4>2 DEF FreshOK
    <3>2. CASE r # 0
      <4>1. Midway(d) => Midway(d)'
        BY <1>2, <1>3, <2>1, <2>8, <3>2 DEF Midway
      <4> QED  BY <1>2, <1>3, <1>4, <3>2, <4>1 DEF FreshOK
    <3> QED  BY <3>1, <3>2
  <2> QED  BY <1>1, <1>4, <2>1, <2>8, <2>9, NextCommon
<1> QED  BY <1>2, <1>5, <1>6

(* A get or a move of a cursor keeps what is known of the context. *)
LEMMA ReadKeeps ==
    ASSUME IInv, NEW d \in Doers, UNCHANGED <<chosen, runner>>,
           NEW r \in Codes, Outcome(d, r), GetOut(d, r) \/ IterateOut(d, r),
           before'[d] \subseteq before[d]
    PROVE  CtxInv(d)'
<1>0. RunnerInv /\ call[d].fn = "next" /\ UNCHANGED <<data, txn[d]>>
  BY DEF IInv, GetOut, IterateOut
<1>2. pc[d] = "next" /\ NextOK(d) /\ FreshOK(d) /\ before[d] \subseteq data
  BY <1>0, NextFound
<1>3. /\ call'[d].fn = "return" /\ call'[d].rc = r
      /\ call'[d].key = call[d].key
      /\ KeyA(d)' = KeyA(d) /\ KeyB(d)' = KeyB(d)
      /\ UNCHANGED <<pc, job, bench, q, rc, begun, chosen>>
  BY Answered DEF runner
<1>f. q[d] \notin {2, 3} \/ bench[d] # "batch" => FreshOK(d)'
  <2>1. q[d] \notin {2, 3} \/ bench[d] # "batch" => ~Midway(d)
    BY <1>0, <1>2 DEF Midway, Direct
  <2> QED  BY <1>0, <1>2, <1>3, <2>1 DEF FreshOK
<1>4. CASE IterateOut(d, r)
  <2>1. bench[d] = "iterate" /\ bench[d] \notin Single \cup Quadruple
        /\ bench[d] # "batch"
    BY <1>4, NextFound DEF IterateOut
  <2>2. NextOK(d)'
    BY <1>3, <1>4, <2>1 DEF NextOK, IterateOut
  <2> QED  BY <1>0, <1>f, <2>1, <2>2, NextCommon
<1>5. CASE GetOut(d, r) /\ bench[d] \in Single
  <2>1. bench[d] \notin Quadruple /\ bench[d] # "iterate"
        /\ bench[d] = "get" /\ bench[d] # "batch" /\ Visible(d) = data
    BY <1>0, <1>5, NextFound DEF GetOut, Quadruple, Single
  <2>2. NextOK(d)'
    <3>1. txn'[d] = IF chosen' = "sophia" THEN TheDb ELSE NoTxn
      BY <1>0, <1>2, <1>3, <1>5 DEF NextOK
    <3>2. r = ENOENT => call'[d].key \notin before'[d]
      BY <1>2, <1>3, <1>5, <2>1 DEF GetOut
    <3>3. SingleShown(d, call[d].rc)'
      BY <1>3, <2>1 DEF SingleShown
    <3> QED  BY <1>3, <2>1, <3>1, <3>2, <3>3 DEF NextOK
  <2> QED  BY <1>0, <1>5, <1>f, <2>1, <2>2, NextCommon DEF GetOut
<1>6. CASE GetOut(d, r) /\ bench[d] \in Quadruple
  <2>1. q[d] = 4 /\ call[d].key = KeyA(d) /\ bench[d] # "iterate"
    BY <1>0, <1>6, NextFound DEF GetOut
  <2>2. Wrote(d, PutsAfter(d, 3), DelsAfter(d, 3))
    <3>1. q[d] - 1 = 3
      BY <2>1
    <3>2. Wrote(d, PutsAfter(d, q[d] - 1), DelsAfter(d, q[d] - 1))
      BY <1>0, <1>2, <1>6 DEF NextOK
    <3> QED  BY <3>1, <3>2
  <2>3. /\ PutsAfter(d, 4) = PutsAfter(d, 3) /\ DelsAfter(d, 4) = DelsAfter(d, 3)
        /\ KeyA(d) \in PutsAfter(d, 3) /\ KeyA(d) \notin DelsAfter(d, 3)
    BY <1>0, QuadrupleSets
  <2>4. txn[d].kind = "open" \/ Direct(d)
    BY <1>2, <1>6 DEF NextOK
  <2>5. KeyA(d) \in Visible(d)
    <3>1. CASE txn[d].kind = "open"
      BY <2>2, <2>3, <3>1 DEF Wrote, Visible
    <3>2. CASE Direct(d)
      BY <2>2, <2>3, <3>2, Shapes DEF Wrote, Visible, Direct
    <3> QED  BY <2>4, <3>1, <3>2
  <2>6. r \in {0, -1}
    BY <1>6, <2>1, <2>5 DEF Codes, GetOut
  <2>7. /\ txn[d].kind = "open" =>
             txn'[d].puts = PutsAfter(d, 4) /\ txn'[d].dels = DelsAfter(d, 4)
        /\ txn[d].kind # "open" =>
             PutsAfter(d, 4) \subseteq data' /\ DelsAfter(d, 4) \cap data' = {}
    BY <1>0, <2>2, <2>3 DEF Wrote
  <2>8. chosen = "sophia" /\ txn[d] = NoTxn => r = -1
    BY <1>2, <1>6, <2>1 DEF NextOK
  <2>9. NextOK(d)'
    BY <1>0, <1>6, <2>1, <2>6, <2>7, <2>8, QuadrupleNext
  <2> QED  BY <1>0, <1>6, <1>f, <2>1, <2>9, NextCommon DEF GetOut
<1>7. GetOut(d, r) => bench[d] \in Single \cup Quadruple
  BY <1>0, NextFound DEF GetOut
<1> QED  BY <1>4, <1>5, <1>6, <1>7

(* done: what was written shows, if it says so. *)
LEMMA DoneKeeps ==
    ASSUME IInv, NEW d \in Doers, UNCHANGED <<chosen, runner>>,
           NEW r \in Codes, Outcome(d, r), DoneOut(d, r)
    PROVE  CtxInv(d)'
<1>0. /\ RunnerInv /\ CtxInv(d) /\ bench[d] \in Steps /\ i[d] \in Nat
      /\ txn[d] \in Txns /\ job[d].space \in Nat /\ data \in SUBSET Pairs
  BY Found, JobFacts DEF IInv, RunnerInv, RunnerType
<1>1. pc[d] = "done" /\ call[d].fn = "done" /\ r \in {0, -1}
  BY <1>0, CallPlace DEF DoneOut
<1>2. /\ KindOK(d) /\ BenchOK(d) /\ DoneOK(d) /\ FreshOK(d)
      /\ bench[d] \in Quadruple => rc[d] = 0
  BY <1>0, <1>1 DEF CtxInv, RunnerInv, RunnerOK, CountOK
<1>3. /\ call'[d].fn = "return" /\ call'[d].rc = r /\ AtOK(d)'
      /\ KeyA(d)' = KeyA(d) /\ KeyB(d)' = KeyB(d)
      /\ UNCHANGED <<pc, job, serial, passes, bench, i, j, q, rc, begun, chosen>>
      /\ held'[d] \subseteq OwnHandles(chosen)
  BY Answered DEF runner, Outcome, Framed
<1>n. /\ NoTxn.kind = "none" /\ NoTxn.kind # "open" /\ NoTxn.kind # "db"
  BY Shapes
<1>s. /\ bench[d] \in Single =>
           bench[d] \notin Quadruple /\ bench[d] # "iterate"
      /\ bench[d] \in Quadruple =>
           bench[d] \notin Single /\ bench[d] # "iterate"
      /\ bench[d] \in Single \cup Quadruple \/ bench[d] = "iterate"
  BY <1>0 DEF Single, Quadruple, Steps
<1>t. txn'[d] = NoTxn \/ (r = -1 /\ bench[d] \in Quadruple /\ txn'[d] = txn[d])
  BY DEF DoneOut
<1>4. KindOK(d)'
  BY <1>2, <1>3, <1>n, <1>s, <1>t DEF KindOK
<1>5. BenchOK(d)'
  <2>1. bench[d] # "iterate" => cursor'[d] = cursor[d]
    BY DEF DoneOut
  <2> QED  BY <1>1, <1>2, <1>3, <1>n, <1>s, <1>t, <2>1 DEF BenchOK
<1>6. OutsideOK(d)' /\ BeginOK(d)' /\ NextOK(d)'
  BY <1>1, <1>3 DEF OutsideOK, BeginOK, NextOK
<1>7. txn'[d].kind # "db"
  BY <1>1, <1>2, <1>n, <1>t DEF BenchOK
<1>8. r = 0 => Clean(d)'
  <2>1. r = 0 => txn'[d] = NoTxn
    BY <1>t
  <2>2. r = 0 /\ chosen # "wiredtiger" => cursor'[d] = NoCursor
    BY <1>1, <1>2 DEF DoneOut, BenchOK
  <2> QED  BY <1>3, <2>1, <2>2 DEF Clean
<1>w. bench[d] \in Quadruple =>
        /\ \A k \in Written(d) : k[1] = job[d].space
        /\ \A k \in WrittenB(d) : k[1] = job[d].space + 1
        /\ Written(d) \cap WrittenB(d) = {}
        /\ Wrote(d, Written(d), WrittenB(d))
  <2>1. /\ \A k \in Written(d) : k[1] = job[d].space
        /\ \A k \in WrittenB(d) : k[1] = job[d].space + 1
    BY <1>0, KeySets
  <2>2. Written(d) \cap WrittenB(d) = {}
    BY <1>0, <2>1
  <2> QED  BY <1>1, <1>2, <2>1, <2>2 DEF DoneOK
<1>v. bench[d] \in Quadruple =>
        /\ Visible(d) \subseteq data \cup Written(d)
        /\ Written(d) \subseteq Visible(d) /\ WrittenB(d) \cap Visible(d) = {}
  <2>1. CASE txn[d].kind = "open"
    BY <1>w, <2>1 DEF Wrote, Visible
  <2>2. CASE bench[d] \in Quadruple /\ txn[d].kind # "open"
    <3>1. txn[d] = NoTxn
      BY <1>0, <1>1, <1>2, <2>2 DEF BenchOK, KindOK, Txns
    <3>2. Visible(d) = data
      BY <1>0, <3>1, Shapes DEF Visible
    <3> QED  BY <1>w, <2>2, <3>2 DEF Wrote
  <2> QED  BY <2>1, <2>2
<1>9. r = 0 /\ rc[d] = 0 => Shown(d, data)'
  <2> SUFFICES ASSUME r = 0, rc[d] = 0 PROVE Shown(d, data)'
    OBVIOUS
  <2>0. Shown(d, data)' <=> Shown(d, data')
    BY <1>3 DEF Shown, KeyOf
  <2>1. CASE bench[d] \in Single
    <3>1. SingleShown(d, rc[d]) /\ data' = data
      BY <1>1, <1>2, <1>s, <2>1 DEF DoneOK, DoneOut
    <3> QED  BY <1>s, <2>0, <2>1, <3>1 DEF Shown, SingleShown, KeyA, Quadruple
  <2>2. CASE bench[d] \in Quadruple
    <3>1. data' = Visible(d)
      BY <2>2 DEF DoneOut
    <3>2. Written(d) \subseteq data' /\ WrittenB(d) \cap data' = {}
      BY <1>v, <2>2, <3>1
    <3>3. CASE bench[d] = "batch"
      BY <2>0, <2>2, <3>2, <3>3
      DEF Shown, Written, WrittenB, Batched, BatchedB
    <3>4. CASE bench[d] = "crud"
      BY <2>0, <2>2, <3>2, <3>4 DEF Shown, Written, WrittenB, KeyA, KeyB
    <3> QED  BY <2>2, <3>3, <3>4 DEF Quadruple
  <2>3. CASE bench[d] = "iterate"
    BY <1>s, <2>0, <2>3 DEF Shown
  <2> QED  BY <1>s, <2>1, <2>2, <2>3
<1>10. DoneOK(d)'
  <2>1. bench[d] \in Single => SingleShown(d, rc[d])'
    BY <1>1, <1>2, <1>3, <1>s DEF DoneOK, DoneOut, SingleShown
  <2> QED  BY <1>1, <1>3, <1>7, <1>8, <1>9, <2>1 DEF DoneOK
<1>11. FreshOK(d)'
  <2>1. data' \subseteq data \/
        (bench[d] \in Quadruple /\ data' \subseteq data \cup Written(d))
    BY <1>v DEF DoneOut
  <2>2. ~Midway(d)
    BY <1>1 DEF Midway
  <2> QED  BY <1>0, <1>2, <1>3, <1>w, <2>1, <2>2 DEF FreshOK
<1> QED  BY <1>3, <1>4, <1>5, <1>6, <1>10, <1>11 DEF CtxInv

(* What d does to the database stays in its key spaces. *)
LEMMA Touches ==
    ASSUME IInv, NEW d \in Doers, NEW r \in Codes, Outcome(d, r)
    PROVE  \A k : ~(k \in data <=> k \in data')
                  => k[1] \in WriteSpaces(job[d])
<1>0. /\ RunnerInv /\ CtxInv(d) /\ DriverType /\ data \in SUBSET Pairs
      /\ txn[d] \in Txns
  BY Found DEF IInv
<1>s. ASSUME pc[d] \in {"begin", "next", "done"}
      PROVE  /\ bench[d] \in Writes => job[d].space \in WriteSpaces(job[d])
             /\ bench[d] \in Quadruple =>
                  job[d].space + 1 \in WriteSpaces(job[d])
  BY <1>0, <1>s, OwnSpaces
<1>1. CASE NewOut(d, r) \/ BeginOut(d, r) \/ GetOut(d, r) \/ IterateOut(d, r)
           \/ DisposeOut(d, r)
  BY <1>1 DEF NewOut, BeginOut, GetOut, IterateOut, DisposeOut
<1>2. CASE SetOut(d, r) \/ DeleteOut(d, r)
  <2>1. /\ call[d].fn = "next" /\ call[d].key \in Pairs /\ pc[d] = "next"
        /\ call[d].step \in {"set", "delete"}
    BY <1>2, NextFound DEF SetOut, DeleteOut
  <2>2. \A k : ~(k \in data <=> k \in data')
               => k = call[d].key
    <3>1. CASE UNCHANGED data
      BY <3>1
    <3>2. CASE Put(d, call[d].key)
      BY <1>0, <2>1, <3>2, PutFacts
    <3>3. CASE Remove(d, call[d].key)
      BY <1>0, <2>1, <3>3, RemoveFacts
    <3> QED  BY <1>2, <3>1, <3>2, <3>3 DEF SetOut, DeleteOut
  <2>3. /\ bench[d] \in Writes
        /\ call[d].key = KeyA(d) \/
           (call[d].key = KeyB(d) /\ bench[d] \in Quadruple)
    BY <2>1, NextFound DEF Writes
  <2>4. call[d].key[1] \in WriteSpaces(job[d])
    BY <1>0, <1>s, <2>1, <2>3, KeySets
  <2> QED  BY <2>2, <2>4
<1>3. CASE DoneOut(d, r)
  <2>1. pc[d] = "done" /\ call[d].fn = "done"
    BY <1>0, <1>3, CallPlace DEF DoneOut
  <2>2. CASE data' = data
    BY <2>2
  <2>3. CASE bench[d] \in Quadruple /\ data' = Visible(d)
    <3>1. \A k : ~(k \in data <=> k \in data')
                 => k \in txn[d].puts \cup txn[d].dels
      BY <2>3 DEF Visible
    <3>2. /\ Wrote(d, Written(d), WrittenB(d)) /\ txn[d].kind # "db"
          /\ KindOK(d)
      BY <1>0, <2>1, <2>3 DEF CtxInv, DoneOK, BenchOK
    <3>3. txn[d].puts \cup txn[d].dels \subseteq Written(d) \cup WrittenB(d)
      <4>1. CASE txn[d].kind = "open"
        BY <3>2, <4>1 DEF Wrote
      <4>2. CASE txn[d].kind = "none"
        BY <3>2, <4>2, Shapes DEF KindOK
      <4> QED  BY <1>0, <3>2, <4>1, <4>2 DEF Txns
    <3>4. \A k \in Written(d) \cup WrittenB(d) :
            k[1] = job[d].space \/ k[1] = job[d].space + 1
      BY <1>0, KeySets
    <3> QED  BY <1>s, <2>1, <2>3, <3>1, <3>3, <3>4 DEF Writes
  <2> QED  BY <1>3, <2>2, <2>3 DEF DoneOut
<1> QED  BY <1>1, <1>2, <1>3 DEF Outcome

----------------------------------------------------------------------------
(* Steps keep the invariant. *)

(* The history variable. *)
LEMMA WatchFacts ==
    ASSUME IInv, Watch, data' \in SUBSET Pairs
    PROVE  /\ before' \in [Doers -> SUBSET Pairs] /\ BeforeInv'
           /\ \A d \in Doers :
                ~(call'[d].fn = "begin" /\ call[d].fn # "begin") =>
                    before'[d] \subseteq before[d]
<1>1. before \in [Doers -> SUBSET Pairs]
  BY DEF IInv, ContextType
<1> QED  BY <1>1 DEF Watch, BeforeInv

(* A step of the driver for d. *)
LEMMA DriverKeeps ==
    ASSUME IInv, NEW d \in Doers, DriverStep(d), UNCHANGED runner, Watch,
           UNCHANGED chosen
    PROVE  IInv'
<1>0. (\E r \in Codes : Outcome(d, r)) \/ Internal(d)
  BY DriverOut
<1>c. needsCompact' \in BOOLEAN
  BY DEF IInv, ContextType, DriverStep, forestdb, FdbStep, FdbThreadNew,
     FdbThreadDispose, FdbLook, FdbFlag, FdbCompact, FdbBeginCrud,
     FdbBeginOther, FdbBeginIterate, Compacted, FdbDoneCrud, FdbDoneCommit,
     FdbDoneGet, FdbDoneIterate, FdbNextSet, FdbNextDelete, FdbNextGet,
     FdbNextIterate
<1>1. ASSUME NEW r \in Codes, Outcome(d, r) PROVE IInv'
  <2>1. /\ RunnerInv' /\ \A e \in Doers : e # d => SameFor(e)
        /\ call'[d].fn = "return"
    BY <1>1, Answered
  <2>2. DriverType' /\ data' \in SUBSET Pairs
    BY <1>1 DEF Outcome, Framed, DriverType
  <2>3. \A e \in Doers : before'[e] \subseteq before[e]
    <3>1. \A e \in Doers : e # d => call'[e] = call[e]
      BY <2>1 DEF SameFor
    <3> QED  BY <2>1, <2>2, <3>1, WatchFacts
  <2>4. ContextType' /\ BeforeInv'
    BY <1>c, <2>2, WatchFacts DEF ContextType
  <2>5. CtxInv(d)'
    BY <1>1, <2>3, OutsideKeeps, SetKeeps, DeleteKeeps, ReadKeeps, DoneKeeps
    DEF Outcome
  <2>6. ASSUME NEW e \in Doers, e # d PROVE CtxInv(e)'
    <3>1. /\ UNCHANGED <<txn[e], cursor[e], held[e], at[e]>> /\ SameFor(e)
          /\ before'[e] \subseteq before[e]
      BY <1>1, <2>1, <2>3, <2>6 DEF Outcome, Framed
    <3>2. WriteSpaces(job[d]) \cap WriteSpaces(job[e]) = {}
      BY <2>6, SpacesAssumption DEF IInv, RunnerInv, RunnerType
    <3>3. Untouched(e)
      BY <1>1, <3>2, Touches DEF Untouched
    <3> QED  BY <3>1, <3>3, OtherKeeps
  <2> QED  BY <2>1, <2>4, <2>5, <2>6 DEF IInv
<1>2. ASSUME Internal(d) PROVE IInv'
  <2>0. UNCHANGED <<data, txn, cursor, held, db, call>>
    BY <1>2 DEF Internal, context
  <2>1. RunnerInv' /\ \A e \in Doers : SameFor(e)
    BY <2>0 DEF IInv, RunnerInv, RunnerType, RunnerOK, CallOK, CountOK, KeyOf,
       runner, SameFor
  <2>2. DriverType' /\ data' \in SUBSET Pairs
    BY <1>2, <2>0 DEF IInv, ContextType, DriverType, Internal
  <2>3. \A e \in Doers : before'[e] \subseteq before[e]
    BY <2>0, <2>2, WatchFacts
  <2>4. ContextType' /\ BeforeInv'
    BY <1>c, <2>2, WatchFacts DEF ContextType
  <2>5. ASSUME NEW e \in Doers, e # d PROVE CtxInv(e)'
    <3>1. Untouched(e)
      BY <2>0 DEF Untouched
    <3> QED  BY <1>2, <2>0, <2>1, <2>3, <2>5, <3>1, OtherKeeps DEF Internal
  <2>6. CtxInv(d)'
    <3>1. pc[d] = "begin" /\ call[d].fn = "begin"
      BY <1>2, CallPlace DEF IInv, Internal
    <3>2. /\ AtOK(d) /\ KindOK(d) /\ OutsideOK(d) /\ BenchOK(d) /\ BeginOK(d)
          /\ FreshOK(d)
      BY DEF IInv, CtxInv
    <3>3. UNCHANGED <<pc[d], bench[d], job, call[d], chosen>>
      BY <2>0 DEF runner
    <3>4. AtOK(d)' /\ KindOK(d)' /\ BenchOK(d)'
      BY <1>2, <2>0, <3>1, <3>2, <3>3 DEF AtOK, KindOK, BenchOK, Internal
    <3>5. BeginOK(d)' /\ OutsideOK(d)' /\ NextOK(d)' /\ DoneOK(d)'
      BY <2>0, <3>1, <3>2, <3>3 DEF BeginOK, Clean, OutsideOK, NextOK, DoneOK
    <3>6. FreshOK(d)'
      BY <2>0, <3>1, <3>2, <3>3 DEF FreshOK, Midway
    <3> QED  BY <3>4, <3>5, <3>6 DEF CtxInv
  <2> QED  BY <2>1, <2>4, <2>5, <2>6 DEF IInv
<1> QED  BY <1>0, <1>1, <1>2

(* A step of the runner for d. *)
LEMMA RunnerStepKeeps ==
    ASSUME IInv, NEW d \in Doers, RunnerStep(d), UNCHANGED driver, Watch,
           UNCHANGED chosen
    PROVE  IInv'
<1>0. RunnerInv' /\ UNCHANGED <<data, txn, cursor, held, db, needsCompact, at>>
  BY RunnerKeeps DEF IInv, driver, context, forestdb
<1>1. DriverType' /\ data' \in SUBSET Pairs /\ needsCompact' \in BOOLEAN
  BY <1>0 DEF IInv, ContextType, DriverType
<1>2. ContextType' /\ BeforeInv'
  BY <1>1, WatchFacts DEF ContextType
<1>3. CtxInv(d)'
  <2>1. call'[d].fn # "begin" => before'[d] \subseteq before[d]
    BY <1>1, WatchFacts
  <2> QED  BY <1>0, <2>1, RunnerCtx
<1>4. ASSUME NEW e \in Doers, e # d PROVE CtxInv(e)'
  <2>1. SameFor(e)
    BY <1>4, OthersSame DEF IInv, RunnerInv
  <2>2. before'[e] \subseteq before[e]
    BY <1>1, <2>1, WatchFacts DEF SameFor
  <2>3. Untouched(e)
    BY <1>0 DEF Untouched
  <2> QED  BY <1>0, <2>1, <2>2, <2>3, OtherKeeps
<1> QED  BY <1>0, <1>2, <1>3, <1>4 DEF IInv

(* Every step keeps the invariant. *)
LEMMA NextInv == IInv /\ [Next]_vars => IInv'
<1> SUFFICES ASSUME IInv, [Next]_vars PROVE IInv'
  OBVIOUS
<1>1. ASSUME NEW d \in Doers, Step(d) PROVE IInv'
  BY <1>1, DriverKeeps, RunnerStepKeeps DEF Step
<1>2. ASSUME UNCHANGED <<call, runner, data, txn, cursor, held, forestdb>>,
             UNCHANGED <<chosen, before>>, db' = db \/ db' = "closed"
      PROVE  IInv'
  <2>1. RunnerInv' /\ \A e \in Doers : SameFor(e)
    BY <1>2 DEF IInv, RunnerInv, RunnerType, RunnerOK, CallOK, CountOK, KeyOf,
       runner, SameFor
  <2>2. ContextType' /\ BeforeInv'
    BY <1>2 DEF IInv, ContextType, DriverType, BeforeInv, forestdb
  <2>3. \A e \in Doers : Untouched(e)
    BY <1>2 DEF Untouched
  <2>4. \A e \in Doers : CtxInv(e)'
    BY <1>2, <2>1, <2>3, OtherKeeps DEF forestdb
  <2> QED  BY <2>1, <2>2, <2>4 DEF IInv
<1>3. CASE Free
  BY <1>2, <1>3 DEF Free, Close
<1>4. CASE UNCHANGED vars
  BY <1>2, <1>4 DEF vars, driver, context
<1> QED  BY <1>1, <1>3, <1>4 DEF Next, Exited

(* Transactions, cursors and handles of every context are where the       *)
(* drivers rocksdb, leveldb, sophia, wiredtiger, forestdb and upscaledb    *)
(* expect them, at every point of a benchmark and whatever failed before.  *)
THEOREM ContextInductive == Spec => []IInv
BY InitInv, NextInv, PTL DEF Spec

----------------------------------------------------------------------------
(* The documents of sophia. *)

(* Where ctx->entry may hold one, in a doer that loses none: after a GET,  *)
(* as long as only GETs follow; within an ITERATE; and after a failure,    *)
(* which ends the benchmark.                                               *)
KeepsEntry(d) ==
    LET c == call[d] IN
    \/ /\ bench[d] = "get" /\ "get" \in job[d].mask
       /\ left[d] \subseteq {"get"} /\ pc[d] \notin {"new", "end"}
    \/ /\ bench[d] = "iterate"
       /\ \/ pc[d] = "begin" /\ c.fn = "return"
          \/ pc[d] = "next"
          \/ pc[d] = "done" /\ c.fn = "done"
    \/ pc[d] = "next" /\ c.fn = "return" /\ c.rc = -1
    \/ pc[d] = "done" /\ rc[d] = -1
    \/ pc[d] \in {"pass", "dispose"} /\ rc[d] # 0

(* GET is the last benchmark of a pass. *)
PassOK(d) ==
    /\ pc[d] \notin {"new", "end"} => passes[d] >= 1
    /\ pc[d] \in {"begin", "next", "done"} /\ bench[d] = "get" => left[d] = {}

EntryOK(d) ==
    chosen = "sophia" /\ ~LosesDocuments(d) =>
        /\ "lost" \notin held[d]
        /\ "entry" \in held[d] => KeepsEntry(d)

EntryInv == \A d \in Doers : PassOK(d) /\ EntryOK(d)

(* The runner goes on. *)
LEMMA EntryRunner ==
    ASSUME IInv, NEW d \in Doers, PassOK(d) /\ EntryOK(d), RunnerStep(d),
           UNCHANGED <<driver, chosen>>
    PROVE  PassOK(d)' /\ EntryOK(d)'
<1> USE DEF ToCall, ToPass, InBench, Returned
<1>0. /\ Move(d) /\ UNCHANGED <<job, held, chosen>> /\ RunnerOK(d)
      /\ bench[d] \in Steps /\ left \in [Doers -> SUBSET Steps]
      /\ bench \in [Doers -> Steps] /\ pc \in [Doers -> Labels]
      /\ passes \in [Doers -> Nat] /\ passes[d] \in Nat
  BY RunnerMoves DEF IInv, RunnerInv, RunnerType, RunnerOK, CountOK, driver,
     context
<1>m. /\ bench[d] \in Single => bench[d] # "iterate"
      /\ bench[d] \in Quadruple => bench[d] # "iterate" /\ bench[d] # "get"
  BY DEF Single, Quadruple
<1>1. CASE RunBenchmark(d)
  <2>1. /\ pc[d] = "pass" /\ rc[d] = 0 /\ left[d] # {}
        /\ bench'[d] = FirstOf(left[d]) /\ passes' = passes
        /\ left'[d] = left[d] \ {FirstOf(left[d])}
        /\ pc'[d] = "begin"
    BY <1>0, <1>1 DEF RunBenchmark, Ask
  <2>2. /\ FirstOf(left[d]) \in left[d]
        /\ FirstOf(left[d]) = "get" => left[d] = {"get"}
    BY <1>0, <2>1, FirstOfFacts
  <2>3. PassOK(d)'
    BY <2>1, <2>2 DEF PassOK
  <2>4. LosesDocuments(d)' <=> LosesDocuments(d)
    BY <1>0, <2>1 DEF LosesDocuments
  <2>5. KeepsEntry(d) => KeepsEntry(d)'
    BY <1>0, <2>1, <2>2 DEF KeepsEntry
  <2> QED  BY <1>0, <2>3, <2>4, <2>5 DEF EntryOK
<1>2. CASE PassAgain(d)
  <2>1. /\ pc[d] = "pass" /\ rc[d] = 0 /\ passes'[d] = passes[d] + 1
        /\ left'[d] = job[d].mask
        /\ UNCHANGED <<call, pc, bench, rc>>
    BY <1>0, <1>2 DEF PassAgain
  <2>2. passes[d] >= 1 /\ passes'[d] > 1
    BY <1>0, <2>1 DEF PassOK
  <2>3. PassOK(d)'
    BY <1>0, <2>1, <2>2 DEF PassOK
  <2>4. EntryOK(d)'
    <3> SUFFICES ASSUME chosen = "sophia", ~LosesDocuments(d)'
                 PROVE  /\ "lost" \notin held[d]
                        /\ "entry" \in held[d] => KeepsEntry(d)'
      BY <1>0 DEF EntryOK
    <3>1. ~LosesDocuments(d)
      BY <1>0, <2>2 DEF LosesDocuments
    <3>2. "get" \in job[d].mask => job[d].mask = {"get"}
      BY <1>0, <2>2 DEF LosesDocuments
    <3>3. KeepsEntry(d) => KeepsEntry(d)'
      BY <1>0, <2>1, <3>2 DEF KeepsEntry
    <3> QED  BY <3>1, <3>3 DEF EntryOK
  <2> QED  BY <2>3, <2>4
<1>3. CASE ThreadNewReturned(d)
  <2>1. /\ pc[d] = "new" /\ passes[d] = 0
    BY <1>3 DEF ThreadNewReturned, IInv, CtxInv, OutsideOK
  <2>2. \/ pc'[d] = "pass" /\ passes'[d] = 1
        \/ pc'[d] = "end" /\ passes'[d] = 0
    BY <1>0, <1>3, <2>1 DEF ThreadNewReturned, Leave
  <2>3. LosesDocuments(d)' <=> LosesDocuments(d)
    BY <1>0, <2>1, <2>2 DEF LosesDocuments
  <2>4. ~KeepsEntry(d)
    BY <2>1 DEF KeepsEntry
  <2> QED  BY <1>0, <2>2, <2>3, <2>4 DEF PassOK, EntryOK
<1>4. ASSUME UNCHANGED <<left, passes>>,
             \/ MoveDispose(d) \/ MoveEnd(d) \/ MoveBegin(d) \/ MoveSingle(d)
             \/ MoveQuadruple(d) \/ MoveIterate(d) \/ MoveDone(d)
      PROVE  PassOK(d)' /\ EntryOK(d)'
  <2>0. UNCHANGED <<left[d], passes[d], bench[d], job[d]>>
    BY <1>0, <1>4 DEF MoveDispose, MoveEnd, MoveBegin, MoveSingle,
       MoveQuadruple, MoveIterate, MoveDone
  <2>1. PassOK(d)'
    BY <1>4, <2>0 DEF PassOK, MoveDispose, MoveEnd, MoveBegin, MoveSingle,
       MoveQuadruple, MoveIterate, MoveDone
  <2>2. LosesDocuments(d)' <=> LosesDocuments(d)
    BY <1>0, <2>0 DEF LosesDocuments
  <2> SUFFICES ASSUME chosen = "sophia", ~LosesDocuments(d),
                      "entry" \in held[d], KeepsEntry(d)
               PROVE  KeepsEntry(d)'
    BY <1>0, <2>1, <2>2 DEF EntryOK
  <2>3. ASSUME pc[d] \in {"begin", "next", "done"}
        PROVE  bench[d] \notin Quadruple
    BY <1>0, <2>3 DEF LosesDocuments, RunnerOK, CountOK
  <2>4. CASE MoveDispose(d)
    BY <2>0, <2>4 DEF MoveDispose, KeepsEntry
  <2>5. CASE MoveEnd(d)
    BY <2>5 DEF MoveEnd, IInv, CtxInv, OutsideOK
  <2>6. CASE MoveBegin(d)
    BY <1>m, <2>0, <2>3, <2>6 DEF MoveBegin, KeepsEntry
  <2>7. CASE MoveSingle(d)
    BY <1>m, <2>0, <2>7 DEF MoveSingle, KeepsEntry
  <2>8. CASE MoveQuadruple(d)
    BY <2>3, <2>8 DEF MoveQuadruple
  <2>9. CASE MoveIterate(d)
    BY <2>0, <2>9 DEF MoveIterate, KeepsEntry
  <2>10. CASE MoveDone(d)
    <3>1. Tolerated(-1) = -1
      BY DEF Tolerated, ENOENT
    <3> QED  BY <2>0, <2>10, <3>1 DEF MoveDone, KeepsEntry
  <2> QED  BY <1>4, <2>4, <2>5, <2>6, <2>7, <2>8, <2>9, <2>10
<1>5. CASE /\ ~RunBenchmark(d) /\ ~PassAgain(d) /\ ~ThreadNewReturned(d)
  <2>1. UNCHANGED <<left, passes>>
    BY <1>5 DEF RunnerStep, AskDispose, Disposed, BeginReturned,
       SingleNextReturned, QuadrupleNextReturned, IterateNextReturned,
       DoneReturned
  <2>2. CASE AskDispose(d)
    <3>1. pc[d] = "pass" /\ pc'[d] = "dispose"
      BY <1>0, <2>2 DEF AskDispose, Ask
    <3> QED  BY <1>0, <1>4, <2>1, <3>1 DEF Move, MoveNew, MoveStart, MoveAgain
  <2>3. CASE pc[d] \notin {"new", "pass"}
    BY <1>0, <1>4, <2>1, <2>3 DEF Move, MoveNew, MoveStart, MoveAgain
  <2> QED  BY <1>5, <2>2, <2>3 DEF RunnerStep, Disposed, BeginReturned,
           SingleNextReturned, QuadrupleNextReturned, IterateNextReturned,
           DoneReturned
<1> QED  BY <1>1, <1>2, <1>3, <1>5

(* sophia answers. *)
LEMMA EntrySophia ==
    ASSUME IInv, NEW d \in Doers, PassOK(d) /\ EntryOK(d),
           chosen = "sophia", SophiaStep(d), UNCHANGED <<chosen, runner>>
    PROVE  PassOK(d)' /\ EntryOK(d)'
<1> USE DEF Called
<1>0. /\ RunnerInv /\ RunnerOK(d) /\ UNCHANGED <<pc, job, left, passes, bench, rc>>
      /\ held \in [Doers -> SUBSET Handles] /\ call \in [Doers -> CallType]
  BY DEF runner, IInv, RunnerInv, RunnerType, ContextType, DriverType
<1>1. PassOK(d)' /\ (LosesDocuments(d)' <=> LosesDocuments(d))
  BY <1>0 DEF PassOK, LosesDocuments
<1> SUFFICES ASSUME ~LosesDocuments(d)
             PROVE  /\ "lost" \notin held'[d]
                    /\ "entry" \in held'[d] => KeepsEntry(d)'
  BY <1>1 DEF EntryOK
<1>2. "lost" \notin held[d] /\ ("entry" \in held[d] => KeepsEntry(d))
  BY DEF EntryOK
<1>r. \A r : Return(d, r) => call'[d].fn = "return" /\ call'[d].rc = r
  BY <1>0 DEF Return, Answer
<1>h. \A x : SetHeld(d, x) => held'[d] = x
  BY <1>0 DEF SetHeld
<1>g. /\ "lost" \notin EntryGone(d) /\ "entry" \notin EntryGone(d)
      /\ "entry" \notin EntryLost(d)
      /\ ~KeepsEntry(d) => "lost" \notin EntryLost(d)
  BY <1>2 DEF EntryGone, EntryLost
<1>p. /\ call[d].fn = "begin" => pc[d] = "begin" /\ call[d].step = bench[d]
      /\ call[d].fn = "done" => pc[d] = "done" /\ call[d].step = bench[d]
      /\ call[d].fn = "next" => pc[d] = "next"
      /\ call[d].fn = "thread_new" => pc[d] = "new"
      /\ call[d].fn = "thread_dispose" => pc[d] = "dispose"
  BY <1>0, CallPlace
<1>n. call[d].fn = "next" => bench[d] = call[d].step
  <2> SUFFICES ASSUME call[d].fn = "next" PROVE bench[d] = call[d].step
    OBVIOUS
  <2>1. bench[d] \notin Quadruple
    BY <1>0, <1>p DEF RunnerOK, CountOK, LosesDocuments
  <2> QED  BY <2>1, NextFound
<1>3. ASSUME UNCHANGED held,
             \/ call[d].fn = "thread_new" \/ call[d].fn = "begin"
             \/ call[d].fn = "done" /\ bench[d] # "iterate",
             call'[d].fn = "return"
      PROVE  /\ "lost" \notin held'[d]
             /\ "entry" \in held'[d] => KeepsEntry(d)'
  BY <1>0, <1>2, <1>3, <1>p DEF KeepsEntry
<1>4. CASE SophiaThreadNew(d)
  BY <1>3, <1>4, <1>r DEF SophiaThreadNew
<1>5. CASE SophiaThreadDispose(d) \/ SophiaDoneIterate(d)
  BY <1>5, <1>g, <1>h DEF SophiaThreadDispose, SophiaDoneIterate
<1>6. CASE SophiaBeginSingle(d) \/ SophiaBeginTxn(d)
  BY <1>3, <1>6, <1>r DEF SophiaBeginSingle, SophiaBeginTxn
<1>7. CASE SophiaBeginIterate(d)
  <2>1. call[d].fn = "begin" /\ pc[d] = "begin" /\ bench[d] = "iterate"
    BY <1>7, <1>p DEF SophiaBeginIterate
  <2>2. ~KeepsEntry(d)
    BY <2>1 DEF KeepsEntry
  <2>3. call'[d].fn = "return"
    BY <1>7, <1>r DEF SophiaBeginIterate
  <2>4. KeepsEntry(d)'
    BY <1>0, <2>1, <2>3 DEF KeepsEntry
  <2> QED  BY <1>2, <1>7, <1>g, <1>h, <2>2, <2>4 DEF SophiaBeginIterate
<1>8. CASE SophiaDoneSingle(d) \/ SophiaDoneTxn(d)
  <2>1. /\ call[d].fn = "done" /\ bench[d] # "iterate" /\ UNCHANGED held
        /\ call'[d].fn = "return"
    BY <1>8, <1>p, <1>r DEF SophiaDoneSingle, SophiaDoneTxn, SingleSteps,
       TxnSteps
  <2> QED  BY <1>3, <2>1
<1>9. CASE SophiaNextSet(d) \/ SophiaNextDelete(d)
  <2>1. /\ call[d].fn = "next" /\ pc[d] = "next"
        /\ bench[d] \in {"set", "delete"}
        /\ \/ SetHeld(d, EntryLost(d))
           \/ SetHeld(d, EntryLost(d) \cup {"entry"}) /\ Return(d, -1)
    BY <1>9, <1>n, <1>p DEF SophiaNextSet, SophiaNextDelete, SophiaNextWrite
  <2>2. ~KeepsEntry(d)
    BY <2>1 DEF KeepsEntry
  <2>3. CASE SetHeld(d, EntryLost(d))
    BY <1>g, <1>h, <2>2, <2>3
  <2>4. CASE SetHeld(d, EntryLost(d) \cup {"entry"}) /\ Return(d, -1)
    <3>1. KeepsEntry(d)'
      BY <1>0, <1>r, <2>1, <2>4 DEF KeepsEntry
    <3> QED  BY <1>g, <1>h, <2>2, <2>4, <3>1
  <2> QED  BY <2>1, <2>3, <2>4
<1>10. CASE SophiaNextGet(d)
  <2>1. /\ call[d].fn = "next" /\ pc[d] = "next" /\ bench[d] = "get"
        /\ SetHeld(d, EntryGone(d)) \/ SetHeld(d, EntryGone(d) \cup {"entry"})
    BY <1>10, <1>n, <1>p DEF SophiaNextGet, SophiaNoEntry
  <2>2. KeepsEntry(d)'
    BY <1>0, <2>1 DEF KeepsEntry, PassOK, RunnerOK, CountOK
  <2> QED  BY <1>g, <1>h, <2>1, <2>2
<1>11. CASE SophiaNextIterate(d)
  <2>1. /\ call[d].fn = "next" /\ pc[d] = "next" /\ bench[d] = "iterate"
        /\ UNCHANGED held \/ SetHeld(d, EntryGone(d))
    BY <1>11, <1>n, <1>p DEF SophiaNextIterate, SophiaNoEntry
  <2>2. KeepsEntry(d)'
    BY <1>0, <2>1 DEF KeepsEntry
  <2> QED  BY <1>2, <1>g, <1>h, <2>1, <2>2
<1> QED  BY <1>4, <1>5, <1>6, <1>7, <1>8, <1>9, <1>10, <1>11 DEF SophiaStep

(* Every step keeps this invariant too. *)
LEMMA EntryNext == IInv /\ EntryInv /\ [Next]_vars => EntryInv'
<1> SUFFICES ASSUME IInv, EntryInv, [Next]_vars, NEW e \in Doers
             PROVE  PassOK(e)' /\ EntryOK(e)'
  BY DEF EntryInv
<1>0. PassOK(e) /\ EntryOK(e)
  BY DEF EntryInv
<1>1. ASSUME SameFor(e), UNCHANGED <<held[e], chosen>>
      PROVE  PassOK(e)' /\ EntryOK(e)'
  BY <1>0, <1>1 DEF SameFor, PassOK, EntryOK, LosesDocuments, KeepsEntry
<1>2. ASSUME NEW d \in Doers, RunnerStep(d), UNCHANGED <<driver, chosen>>
      PROVE  PassOK(e)' /\ EntryOK(e)'
  <2>1. CASE e = d
    BY <1>0, <1>2, <2>1, EntryRunner
  <2>2. CASE e # d
    <3>1. SameFor(e)
      BY <1>2, <2>2, OthersSame DEF IInv, RunnerInv
    <3> QED  BY <1>1, <1>2, <3>1 DEF driver, context
  <2> QED  BY <2>1, <2>2
<1>3. ASSUME NEW d \in Doers, DriverStep(d), UNCHANGED <<runner, chosen>>
      PROVE  PassOK(e)' /\ EntryOK(e)'
  <2>1. CASE e = d /\ chosen = "sophia"
    BY <1>0, <1>3, <2>1, EntrySophia DEF DriverStep
  <2>2. CASE e = d /\ chosen # "sophia"
    BY <1>0, <1>3, <2>2 DEF PassOK, EntryOK, runner
  <2>3. CASE e # d
    <3>1. (\E r \in Codes : Outcome(d, r)) \/ Internal(d)
      BY <1>3, DriverOut
    <3>2. CASE \E r \in Codes : Outcome(d, r)
      BY <1>1, <1>3, <2>3, <3>2, Answered DEF Outcome, Framed
    <3>3. CASE Internal(d)
      BY <1>1, <1>3, <3>3 DEF Internal, context, runner, SameFor
    <3> QED  BY <3>1, <3>2, <3>3
  <2> QED  BY <2>1, <2>2, <2>3
<1>4. CASE Free \/ Exited \/ UNCHANGED vars
  BY <1>1, <1>4 DEF Free, Close, Exited, vars, driver, context, runner, SameFor
<1> QED  BY <1>2, <1>3, <1>4 DEF Next, Step

(* A document is overwritten only by a doer of sophia that runs CRUD or    *)
(* BATCH, or that repeats a pass of GET and other benchmarks.              *)
THEOREM DocumentsKept == Spec => []EntryInv
<1>1. Init => EntryInv
  BY DEF Init, ContextsInit, RunnerInit, EntryInv, PassOK, EntryOK
<1> QED  BY <1>1, EntryNext, ContextInductive, PTL DEF Spec

(* begin never overwrites a transaction, a batch or an iterator; SET,     *)
(* DELETE and GET never meet a transaction; the iterator of forestdb is    *)
(* never read past its end; sophia loses documents only in a doer whose    *)
(* GETs are followed by something else (LosesDocuments); and a doer that   *)
(* has left holds nothing but those and, with forestdb, the file of a      *)
(* thread_new that failed.                                                 *)
THEOREM HandlesKept == Spec => []HandlesInOrder
<1>1. ASSUME IInv, EntryInv PROVE HandlesInOrder
  <2> SUFFICES ASSUME NEW d \in Doers
               PROVE  LET c == call[d] IN
                      /\ c.fn = "begin" =>
                           /\ txn[d] = NoTxn
                           /\ chosen # "wiredtiger" => cursor[d] = NoCursor
                      /\ bench[d] \in Single => txn[d].kind # "open"
                      /\ c.fn = "next" /\ c.step \in {"set", "delete"} =>
                           \/ chosen # "sophia" \/ txn[d] # NoTxn
                           \/ bench[d] = "batch" /\ ~begun[d]
                      /\ c.fn = "next" /\ c.step = "iterate" =>
                           /\ cursor[d] # NoCursor
                           /\ chosen = "forestdb" => Ahead(cursor[d], data) # {}
                      /\ "lost" \in held[d] => LosesDocuments(d)
                      /\ pc[d] = "end" =>
                           /\ txn[d] = NoTxn /\ cursor[d] = NoCursor
                           /\ held[d] \subseteq {"lost"} \/ Abandoned(d)
    BY DEF HandlesInOrder
  <2>1. KindOK(d) /\ OutsideOK(d)
    BY <1>1 DEF IInv, CtxInv
  <2>2. /\ call[d].fn = "begin" =>
             txn[d] = NoTxn /\ (chosen # "wiredtiger" => cursor[d] = NoCursor)
        /\ call[d].fn = "next" /\ call[d].step = "iterate" => IterReady(d)
    BY <1>1, Found
  <2>3. IterReady(d) => /\ cursor[d] # NoCursor
                        /\ chosen = "forestdb" => Ahead(cursor[d], data) # {}
    BY Shapes DEF IterReady
  <2>4. ASSUME call[d].fn = "next", call[d].step \in {"set", "delete"}
        PROVE  \/ chosen # "sophia" \/ txn[d] # NoTxn
               \/ bench[d] = "batch" /\ ~begun[d]
    <3>1. NextOK(d) /\ pc[d] = "next" /\ bench[d] \in Single \cup Quadruple
      BY <1>1, <2>4, NextFound
    <3>2. CASE bench[d] \in Single
      BY <3>1, <3>2, Shapes DEF NextOK
    <3>3. CASE bench[d] \in Quadruple
      BY <3>1, <3>3, Shapes DEF NextOK, Direct
    <3> QED  BY <3>1, <3>2, <3>3
  <2>5. pc[d] = "end" => /\ txn[d] = NoTxn /\ cursor[d] = NoCursor
                         /\ held[d] \subseteq {"lost"} \/ Abandoned(d)
    BY <2>1 DEF OutsideOK, LeftOver, Abandoned
  <2>6. "lost" \in held[d] => LosesDocuments(d)
    <3>1. chosen # "sophia" => "lost" \notin held[d]
      BY <2>1 DEF KindOK, OwnHandles
    <3> QED  BY <1>1, <3>1 DEF EntryInv, EntryOK
  <2> QED  BY <2>1, <2>2, <2>3, <2>4, <2>5, <2>6 DEF KindOK
<1> QED  BY <1>1, ContextInductive, DocumentsKept, PTL

(* ia_sophia_thread_dispose never destroys the database in the place of a *)
(* transaction: ia_sophia_done has always put the transaction back.        *)
THEOREM DatabaseKept == Spec => []DatabaseLasts
<1>1. IInv => DatabaseLasts
  BY DEF IInv, ContextType, DriverType, DatabaseLasts
<1> QED  BY <1>1, ContextInductive, PTL

(* What a benchmark has been told is done shows in the database for as    *)
(* long as the doer has not gone on: a commit that fails says so, and      *)
(* others touch none of its keys.                                          *)
THEOREM AcknowledgedShows == Spec => []Acknowledged
<1>1. ASSUME IInv PROVE Acknowledged
  BY <1>1 DEF IInv, CtxInv, DoneOK, Acknowledged, Acknowledges, Returned
<1> QED  BY <1>1, ContextInductive, PTL

(* next never misses a key that has been there since before begin, nor    *)
(* one that the same CRUD or BATCH has put.                                *)
THEOREM NoKeyMissed == Spec => []PresentIsFound
<1>1. ASSUME IInv PROVE PresentIsFound
  <2> SUFFICES ASSUME NEW d \in Doers, Returned(d, "next"),
                      call[d].rc = ENOENT
               PROVE  \/ bench[d] = "iterate"
                      \/ bench[d] \in Single /\ call[d].key \notin before[d]
    BY DEF PresentIsFound
  <2>0. /\ NextOK(d) /\ bench[d] \in Steps
        /\ pc[d] = "next" /\ call[d].fn = "return"
    BY <1>1 DEF IInv, CtxInv, RunnerInv, RunnerType, Returned
  <2>1. call[d].rc # 0 /\ call[d].rc # -1
    BY DEF ENOENT
  <2>2. bench[d] \notin Quadruple
    BY <2>0, <2>1 DEF NextOK
  <2>3. CASE bench[d] \in Single
    BY <2>0, <2>3 DEF NextOK
  <2> QED  BY <2>0, <2>2, <2>3 DEF Steps, Single, Quadruple
<1> QED  BY <1>1, ContextInductive, PTL

(* What a call does to the database: an operation or a batch, a part of   *)
(* one that is written without transaction, or nothing.                    *)
LEMMA DataChange ==
    ASSUME IInv, NEW d \in Doers, NEW r \in Codes, Outcome(d, r),
           data' # data
    PROVE  \/ pc[d] = "done" /\ data' = data \cup Written(d)
           \/ data' = data \cup {KeyA(d)}
           \/ data' = data \ {KeyA(d)}
           \/ Unbatched(d)
<1>0. /\ RunnerInv /\ CtxInv(d) /\ DriverType /\ txn[d] \in Txns
      /\ job[d].space \in Nat /\ data \in SUBSET Pairs
  BY Found, JobFacts DEF IInv, RunnerInv, RunnerType
<1>1. SetOut(d, r) \/ DeleteOut(d, r) \/ DoneOut(d, r)
  BY DEF Outcome, NewOut, BeginOut, GetOut, IterateOut, DisposeOut
<1>2. CASE SetOut(d, r) \/ DeleteOut(d, r)
  <2>1. /\ call[d].fn = "next" /\ call[d].step \in {"set", "delete"}
        /\ call[d].key \in Pairs /\ NextOK(d) /\ pc[d] = "next"
    BY <1>2, NextFound DEF SetOut, DeleteOut
  <2>2. /\ txn[d].kind # "open"
        /\ \/ call[d].step = "set" /\ data' = data \cup {call[d].key}
           \/ call[d].step = "delete" /\ data' = data \ {call[d].key}
    <3>1. CASE SetOut(d, r)
      <4>1. Put(d, call[d].key) /\ call[d].step = "set"
        BY <3>1 DEF SetOut
      <4> QED  BY <1>0, <2>1, <4>1, PutFacts
    <3>2. CASE DeleteOut(d, r)
      <4>1. Remove(d, call[d].key) /\ call[d].step = "delete"
        BY <3>2 DEF DeleteOut
      <4> QED  BY <1>0, <2>1, <4>1, RemoveFacts
    <3> QED  BY <1>2, <3>1, <3>2
  <2>3. CASE bench[d] \in Single
    <3>1. call[d].key = KeyA(d)
      BY <2>1, <2>3, NextFound DEF Single
    <3> QED  BY <2>2, <3>1
  <2>4. CASE bench[d] \in Quadruple
    <3>1. Direct(d)
      BY <2>1, <2>2, <2>4 DEF NextOK
    <3> QED  BY <2>2, <3>1 DEF Direct, Unbatched
  <2> QED  BY <2>1, <2>3, <2>4, NextFound
<1>3. CASE DoneOut(d, r)
  <2>1. /\ pc[d] = "done" /\ call[d].fn = "done" /\ bench[d] \in Quadruple
        /\ data' = Visible(d)
    BY <1>0, <1>3, CallPlace DEF DoneOut
  <2>2. /\ KindOK(d) /\ BenchOK(d) /\ FreshOK(d)
        /\ Wrote(d, Written(d), WrittenB(d)) /\ ~Midway(d)
    BY <1>0, <2>1 DEF CtxInv, DoneOK, Midway
  <2>3. txn[d].kind = "open"
    <3>1. txn[d].kind = "none" => data' = data
      BY <1>0, <2>1, <2>2, Shapes DEF KindOK, Visible
    <3> QED  BY <1>0, <2>1, <2>2, <3>1 DEF BenchOK, Txns
  <2>4. \A k \in data : k[1] # job[d].space + 1
    <3>1. job[d].mask \cap Quadruple # {}
      BY <1>0, <2>1 DEF RunnerInv, RunnerOK, CountOK
    <3> QED  BY <2>1, <2>2, <3>1 DEF FreshOK
  <2>5. /\ \A k \in Written(d) : k[1] = job[d].space
        /\ \A k \in WrittenB(d) : k[1] = job[d].space + 1
    BY <1>0, KeySets
  <2>6. (data \cup Written(d)) \cap WrittenB(d) = {}
    BY <1>0, <2>4, <2>5
  <2>7. data' = (data \cup Written(d)) \ WrittenB(d)
    BY <2>1, <2>2, <2>3 DEF Visible, Wrote
  <2> QED  BY <2>1, <2>6, <2>7
<1> QED  BY <1>1, <1>2, <1>3

(* What other doers see of a database are whole operations (the refinement *)
(* of KeyStore.tla), those of doers that fail half way included, but for a *)
(* BATCH that has no transaction: of forestdb, or after a begin that       *)
(* failed and that BATCH does not look at.                                 *)
THEOREM WholeOperations == Spec => OperationsAtomic
<1> DEFINE First == {f[d].space : f \in Jobs, d \in Doers}
           Some == \E d \in Doers : Unbatched(d)
<1>1. Init => Store!Init
  BY DEF Init, ContextsInit, Store!Init
<1>2. ASSUME IInv, [Next]_vars PROVE [Store!Next \/ Some]_data
  <2>1. ASSUME NEW d \in Doers, Step(d) PROVE Store!Next \/ Some \/ data' = data
    <3>1. CASE RunnerStep(d) /\ UNCHANGED driver
      BY <3>1 DEF driver, context
    <3>2. CASE DriverStep(d) /\ UNCHANGED <<runner, chosen>> /\ data' # data
      <4>1. PICK r \in Codes : Outcome(d, r)
        BY <1>2, <3>2, DriverOut DEF Internal, context
      <4>2. job \in Jobs /\ job[d].space \in First
        BY <1>2 DEF IInv, RunnerInv, RunnerType
      <4>3. \A k \in Written(d) \cup {KeyA(d)} :
              k \in Store!Lasting(job[d].space)
        <5> SUFFICES ASSUME NEW k \in Written(d) \cup {KeyA(d)}
                     PROVE  k \in {job[d].space} \X (0 .. Count - 1)
          BY DEF Store!Lasting
        <5>1. /\ k[1] = job[d].space /\ k[2] \in 0 .. Count - 1
              /\ k \in Pairs
          BY <1>2, WrittenSpace DEF IInv
        <5> QED  BY <5>1 DEF Pairs
      <4>p. ASSUME NEW S \in SUBSET Store!Lasting(job[d].space),
                   Cardinality(S) \in 1 .. BatchLength, data' = data \cup S
            PROVE  Store!Next
        <5>s. Store!Cardinality(S) = Cardinality(S)
          BY DEF Store!Cardinality, Cardinality
        <5>1. Store!Put(job[d].space)
          BY <4>p, <5>s DEF Store!Put
        <5> QED  BY <4>2, <5>1 DEF Store!Next
      <4>4. CASE pc[d] = "done" /\ data' = data \cup Written(d)
        <5>1. Cardinality(Written(d)) \in 1 .. BatchLength
          BY <1>2, <4>4, WrittenCount DEF IInv
        <5> QED  BY <4>3, <4>4, <4>p, <5>1
      <4>5. CASE data' = data \cup {KeyA(d)}
        <5>1. Cardinality({KeyA(d)}) = 1
          BY FS_Singleton
        <5>2. Cardinality({KeyA(d)}) \in 1 .. BatchLength
          BY <5>1, RunnerAssumption
        <5> QED  BY <4>3, <4>5, <4>p, <5>2
      <4>6. CASE data' = data \ {KeyA(d)}
        <5>1. Store!Remove(job[d].space)
          BY <4>3, <4>6 DEF Store!Remove
        <5> QED  BY <4>2, <5>1 DEF Store!Next
      <4> QED  BY <1>2, <3>2, <4>1, <4>4, <4>5, <4>6, DataChange
    <3> QED  BY <2>1, <3>1, <3>2 DEF Step
  <2>2. CASE Free \/ Exited \/ UNCHANGED vars
    BY <2>2 DEF Free, Close, Exited, vars, driver, context
  <2> QED  BY <1>2, <2>1, <2>2 DEF Next
<1> QED  BY <1>1, <1>2, ContextInductive, PTL DEF Spec, OperationsAtomic
=============================================================================
