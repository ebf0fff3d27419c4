---------------------------- MODULE RunnerProofs ----------------------------
(***************************************************************************)
(* What the drivers can rely on: the order of the calls that Runner.tla    *)
(* makes, whatever a driver answers.  The proofs of TxnBench.tla,          *)
(* ContextBench.tla and HandleBench.tla rest on it.                        *)
(***************************************************************************)
EXTENDS Runner, FiniteSetTheorems, TLAPS

Writes == {"set", "delete"} \cup Quadruple

(* Keys as KeyOf makes them (the space of the second generator need not be *)
(* one of Spaces).                                                         *)
CallKeys == {NoKey} \cup (Nat \X Nat)

CallType ==
    [fn : Functions \cup {"return", "none"}, step : Steps, key : CallKeys,
     rc : Codes]

RunnerType ==
    /\ ignore \in BOOLEAN
    /\ pc \in [Doers -> Labels]
    /\ job \in Jobs
    /\ serial \in [Doers -> Nat]
    /\ left \in [Doers -> SUBSET Steps]
    /\ passes \in [Doers -> Nat]
    /\ bench \in [Doers -> Steps]
    /\ i \in [Doers -> Nat]
    /\ j \in [Doers -> Nat]
    /\ q \in [Doers -> 1 .. 4]
    /\ rc \in [Doers -> Codes]
    /\ begun \in [Doers -> BOOLEAN]
    /\ call \in [Doers -> CallType]

(* The call that is outstanding, or was answered last, at each label. *)
CallOK(d) ==
    LET c == call[d] IN
    /\ pc[d] = "new" => c.fn \in {"thread_new", "return"}
    /\ pc[d] = "pass" => c.fn = "none"
    /\ pc[d] = "begin" => c.fn \in {"begin", "return"} /\ c.step = bench[d]
    /\ pc[d] = "next" =>
         /\ c.fn \in {"next", "return"}
         /\ bench[d] \in Single =>
              c.step = bench[d] /\ c.key = KeyOf(d, GenA, i[d])
         /\ bench[d] \in Quadruple =>
              /\ c.step = QuadrupleCalls[q[d]][1]
              /\ c.key = KeyOf(d, QuadrupleCalls[q[d]][2], i[d])
         /\ bench[d] = "iterate" => c.step = "iterate"
    /\ pc[d] = "done" => c.fn \in {"done", "return"} /\ c.step = bench[d]
    /\ pc[d] = "dispose" => c.fn \in {"thread_dispose", "return"}
    /\ pc[d] = "end" => c.fn = "return"

(* How far the benchmark is. *)
CountOK(d) ==
    /\ left[d] \subseteq job[d].mask
    /\ pc[d] \in {"begin", "next", "done"} => bench[d] \in job[d].mask
    /\ pc[d] \in {"begin", "next"} => i[d] < Count
    /\ pc[d] = "next" /\ bench[d] = "batch" =>
         j[d] <= i[d] /\ j[d] < BatchLength
    /\ pc[d] = "done" =>
         /\ bench[d] \in Quadruple \cup {"iterate"} => rc[d] = 0
         /\ bench[d] \in Single \cup {"crud"} => i[d] < Count
         /\ bench[d] \in {"batch", "iterate"} => i[d] <= Count
         /\ bench[d] = "batch" => j[d] \in 1 .. BatchLength /\ j[d] <= i[d]
    /\ pc[d] = "next" /\ bench[d] \notin Quadruple => rc[d] = 0

RunnerOK(d) == CallOK(d) /\ CountOK(d)

RunnerInv == RunnerType /\ \A d \in Doers : RunnerOK(d)

(* Nothing of e changes. *)
SameFor(e) ==
    /\ UNCHANGED <<ignore, job, pc[e], serial[e], left[e], passes[e]>>
    /\ UNCHANGED <<bench[e], i[e], j[e], q[e], rc[e], begun[e], call[e]>>

----------------------------------------------------------------------------
(* Operators. *)

(* The benchmark that is picked is the first one of those that are left. *)
LEMMA FirstOfFacts ==
    ASSUME NEW S \in SUBSET Steps, S # {}
    PROVE  /\ FirstOf(S) \in S
           /\ FirstOf(S) = "get" => S = {"get"}
<1> DEFINE P(n) == /\ Order[n] \in S
                   /\ \A m \in 1 .. n - 1 : Order[m] \notin S
<1>1. /\ Len(Order) = 6 /\ Order[1] = "set" /\ Order[2] = "batch"
      /\ Order[3] = "crud" /\ Order[4] = "delete"
      /\ Order[5] = "iterate" /\ Order[6] = "get"
  BY DEF Order
<1>2. \E n \in 1 .. 6 : Order[n] \in S
  <2>1. PICK x \in S : TRUE
    OBVIOUS
  <2>2. \/ x = Order[1] \/ x = Order[2] \/ x = Order[3]
        \/ x = Order[4] \/ x = Order[5] \/ x = Order[6]
    BY <1>1, <2>1 DEF Steps
  <2> QED  BY <2>1, <2>2
<1>3. \E n \in 1 .. 6 : P(n)
  <2>1. CASE Order[1] \in S
    BY <2>1
  <2>2. CASE Order[1] \notin S /\ Order[2] \in S
    BY <2>2
  <2>3. CASE Order[1] \notin S /\ Order[2] \notin S /\ Order[3] \in S
    BY <2>3
  <2>4. CASE /\ Order[1] \notin S /\ Order[2] \notin S /\ Order[3] \notin S
             /\ Order[4] \in S
    BY <2>4
  <2>5. CASE /\ Order[1] \notin S /\ Order[2] \notin S /\ Order[3] \notin S
             /\ Order[4] \notin S /\ Order[5] \in S
    BY <2>5
  <2>6. CASE /\ Order[1] \notin S /\ Order[2] \notin S /\ Order[3] \notin S
             /\ Order[4] \notin S /\ Order[5] \notin S
    BY <1>2, <2>6
  <2> QED  BY <2>1, <2>2, <2>3, <2>4, <2>5, <2>6
<1> DEFINE first == CHOOSE n \in 1 .. 6 : P(n)
<1>4. P(first) /\ first \in 1 .. 6 /\ FirstOf(S) = Order[first]
  BY <1>1, <1>3 DEF FirstOf
<1> HIDE DEF first
<1>5. ASSUME FirstOf(S) = "get" PROVE S = {"get"}
  <2>0. \/ first = 1 \/ first = 2 \/ first = 3
        \/ first = 4 \/ first = 5 \/ first = 6
    BY <1>4
  <2>1. first = 6
    <3> HIDE DEF P
    <3> QED  BY <1>1, <1>4, <1>5, <2>0
  <2>2. \A m \in 1 .. 5 : Order[m] \notin S
    BY <1>4, <2>1
  <2>3. /\ "set" \notin S /\ "batch" \notin S /\ "crud" \notin S
        /\ "delete" \notin S /\ "iterate" \notin S
    BY <1>1, <2>2
  <2> QED  BY <2>3 DEF Steps
<1> QED  BY <1>4, <1>5

(* It is one of them. *)
LEMMA FirstOfIn ==
    ASSUME NEW S \in SUBSET Steps, S # {}
    PROVE  FirstOf(S) \in S
BY FirstOfFacts

(* What the jobs are. *)
LEMMA JobFacts ==
    ASSUME job \in Jobs, NEW d \in Doers
    PROVE  /\ job[d].mask \subseteq Steps /\ job[d].space \in Nat
           /\ job[d].start \in 0 .. Count - 1 /\ job[d].passes \in Nat
<1>1. job[d] \in JobType
  BY RunnerAssumption
<1>2. Spaces \subseteq Nat /\ MaxPasses \in Nat /\ Count \in Nat
  BY RunnerAssumption, CallsAssumption
<1>3. /\ job[d].mask \in SUBSET Steps /\ job[d].space \in Spaces
      /\ job[d].start \in 0 .. Count - 1 /\ job[d].passes \in 1 .. MaxPasses
  BY <1>1 DEF JobType
<1>4. job[d].mask \subseteq Steps
  BY <1>3
<1>5. job[d].space \in Nat
  BY <1>2, <1>3
<1>6. job[d].passes \in Nat
  BY <1>2, <1>3
<1> QED  BY <1>3, <1>4, <1>5, <1>6

(* Doers that write have key spaces of their own. *)
LEMMA SpacesApart ==
    ASSUME job \in Jobs, NEW d \in Doers, NEW e \in Doers, d # e,
           job[d].mask \cap Writes # {}, job[e].mask \cap Writes # {}
    PROVE  /\ job[d].space # job[e].space
           /\ job[d].mask \cap Quadruple # {} =>
                job[d].space + 1 # job[e].space
<1>1. WriteSpaces(job[d]) \cap WriteSpaces(job[e]) = {}
  BY SpacesAssumption
<1>2. job[e].space \in WriteSpaces(job[e])
  BY DEF WriteSpaces, Writes
<1>3. job[d].space \in WriteSpaces(job[d])
  BY DEF WriteSpaces, Writes
<1>4. job[d].mask \cap Quadruple # {} =>
        job[d].space + 1 \in WriteSpaces(job[d])
  BY DEF WriteSpaces, Writes
<1> QED  BY <1>1, <1>2, <1>3, <1>4

(* What a key is made of. *)
LEMMA KeyOfType ==
    ASSUME RunnerType, NEW d \in Doers, NEW g \in {GenA, GenB}, NEW n \in Nat
    PROVE  /\ KeyOf(d, g, n) \in CallKeys /\ KeyOf(d, g, n) \in Nat \X Nat
           /\ KeyOf(d, g, n)[1] = job[d].space + g
           /\ KeyOf(d, g, n)[2] \in 0 .. Count - 1
<1>1. job[d].space \in Nat /\ serial[d] \in Nat /\ Count \in Nat /\ Count > 0
  BY JobFacts, CallsAssumption DEF RunnerType
<1>2. (serial[d] + n) % Count \in 0 .. Count - 1
  BY <1>1
<1>3. job[d].space + g \in Nat
  BY <1>1 DEF GenA, GenB
<1> QED  BY <1>2, <1>3, <1>1 DEF KeyOf, CallKeys

(* The four calls of ia_quadruple. *)
LEMMA QuadrupleFacts ==
    ASSUME NEW n \in 1 .. 4
    PROVE  /\ Len(QuadrupleCalls) = 4
           /\ QuadrupleCalls[n][1] \in Steps
           /\ QuadrupleCalls[n][2] \in {GenA, GenB}
           /\ n \in {1, 2} => QuadrupleCalls[n][1] = "set"
           /\ n = 3 => QuadrupleCalls[n][1] = "delete"
           /\ n = 4 => QuadrupleCalls[n][1] = "get"
           /\ n \in {1, 3} => QuadrupleCalls[n][2] = GenB
           /\ n \in {2, 4} => QuadrupleCalls[n][2] = GenA
<1>1. n = 1 \/ n = 2 \/ n = 3 \/ n = 4
  OBVIOUS
<1> QED  BY <1>1 DEF QuadrupleCalls, Steps, GenA, GenB

(* The fields of a call. *)
LEMMA RequestType ==
    ASSUME NEW fn \in Functions \cup {"none"}, NEW step \in Steps,
           NEW key \in CallKeys
    PROVE  /\ Request(fn, step, key) \in CallType
           /\ Request(fn, step, key).fn = fn
           /\ Request(fn, step, key).step = step
           /\ Request(fn, step, key).key = key
           /\ Request(fn, step, key).rc = 0
BY DEF Request, CallType, Codes

(* The fields of an answer. *)
LEMMA AnswerType ==
    ASSUME NEW c \in CallType, NEW r \in Codes
    PROVE  /\ Answer(c, r) \in CallType
           /\ Answer(c, r).fn = "return" /\ Answer(c, r).rc = r
           /\ Answer(c, r).step = c.step /\ Answer(c, r).key = c.key
BY DEF Answer, CallType

----------------------------------------------------------------------------
(* The invariant. *)

(* The invariant holds at the start. *)
LEMMA RunnerInitInv == CallsInit /\ RunnerInit => RunnerInv
<1> SUFFICES ASSUME CallsInit, RunnerInit PROVE RunnerInv
  OBVIOUS
<1>1. Request("thread_new", "set", NoKey) \in CallType
  BY RequestType DEF Functions, Steps, CallKeys
<1>2. \A d \in Doers : call[d].fn = "thread_new"
  BY DEF CallsInit, Request
<1>3. \A d \in Doers : job[d].start \in Nat
  BY JobFacts, CallsAssumption DEF RunnerInit
<1>4. RunnerType
  BY <1>1, <1>3 DEF RunnerType, CallsInit, RunnerInit, Labels, Steps, Codes
<1>5. \A d \in Doers : pc[d] = "new" /\ left[d] = {}
  BY DEF RunnerInit
<1> QED  BY <1>2, <1>4, <1>5 DEF RunnerInv, RunnerOK, CallOK, CountOK

(* A step of d is none of the others. *)
LEMMA OthersSame ==
    ASSUME RunnerType, NEW d \in Doers, RunnerStep(d), NEW e \in Doers, e # d
    PROVE  SameFor(e)
<1>1. CASE ThreadNewReturned(d)
  BY <1>1 DEF ThreadNewReturned, Leave, SameFor, RunnerType
<1>2. CASE RunBenchmark(d)
  BY <1>2 DEF RunBenchmark, Ask, SameFor, RunnerType
<1>3. CASE PassAgain(d)
  BY <1>3 DEF PassAgain, SameFor, RunnerType
<1>4. CASE AskDispose(d)
  BY <1>4 DEF AskDispose, Ask, SameFor, RunnerType
<1>5. CASE Disposed(d)
  BY <1>5 DEF Disposed, SameFor, RunnerType
<1>6. CASE BeginReturned(d)
  BY <1>6 DEF BeginReturned, AskNext, AskQuadruple, AskIterate, AskDone, Ask,
     Leave, SameFor, RunnerType
<1>7. CASE SingleNextReturned(d)
  BY <1>7 DEF SingleNextReturned, AskDone, Ask, SameFor, RunnerType
<1>8. CASE QuadrupleNextReturned(d)
  BY <1>8 DEF QuadrupleNextReturned, AskNext, AskQuadruple, AskDone, Ask,
     Leave, SameFor, RunnerType
<1>9. CASE IterateNextReturned(d)
  BY <1>9 DEF IterateNextReturned, AskIterate, AskDone, Ask, Leave, SameFor,
     RunnerType
<1>10. CASE DoneReturned(d)
  BY <1>10 DEF DoneReturned, AskBegin, Ask, Leave, SameFor, RunnerType
<1> QED  BY <1>1, <1>2, <1>3, <1>4, <1>5, <1>6, <1>7, <1>8, <1>9, <1>10
         DEF RunnerStep

(* Whoever is not concerned keeps the order. *)
LEMMA SameKeeps ==
    ASSUME NEW e \in Doers, RunnerOK(e), SameFor(e)
    PROVE  RunnerOK(e)'
BY DEF RunnerOK, CallOK, CountOK, SameFor, KeyOf

(* Answers keep the order, too. *)
LEMMA AnswerKeeps ==
    ASSUME RunnerInv, NEW d \in Doers, UNCHANGED runner,
           call[d].fn \in Functions,
           call' = call \/ \E r \in Codes : Return(d, r)
    PROVE  /\ RunnerInv'
           /\ \A e \in Doers : e # d => SameFor(e)
<1> USE DEF runner
<1>1. CASE call' = call
  BY <1>1, SameKeeps DEF RunnerInv, RunnerType, SameFor
<1>2. ASSUME NEW r \in Codes, Return(d, r)
      PROVE  RunnerInv' /\ \A e \in Doers : e # d => SameFor(e)
  <2>1. call[d] \in CallType
    BY DEF RunnerInv, RunnerType
  <2>2. /\ call'[d] = Answer(call[d], r)
        /\ \A e \in Doers : e # d => call'[e] = call[e]
    BY <1>2 DEF Return, RunnerInv, RunnerType
  <2>3. /\ call'[d].fn = "return" /\ call'[d].rc = r
        /\ call'[d].step = call[d].step /\ call'[d].key = call[d].key
        /\ call'[d] \in CallType
    BY <2>1, <2>2, AnswerType
  <2>4. call' \in [Doers -> CallType]
    BY <1>2, <2>2, <2>3 DEF Return, RunnerInv, RunnerType
  <2>5. RunnerType'
    BY <2>4 DEF RunnerInv, RunnerType
  <2>6. ASSUME NEW e \in Doers, e # d PROVE SameFor(e)
    BY <2>2, <2>6 DEF SameFor
  <2>7. RunnerOK(d)'
    BY <2>3 DEF RunnerInv, RunnerOK, CallOK, CountOK, Functions, KeyOf
  <2>8. \A e \in Doers : RunnerOK(e)'
    BY <2>6, <2>7, SameKeeps DEF RunnerInv
  <2> QED  BY <2>5, <2>6, <2>8 DEF RunnerInv
<1> QED  BY <1>1, <1>2

(* Where a doer is that has called a function of the driver. *)
LEMMA CallPlace ==
    ASSUME RunnerInv, NEW d \in Doers
    PROVE  LET c == call[d] IN
           /\ c.fn = "thread_new" => pc[d] = "new"
           /\ c.fn = "begin" => pc[d] = "begin" /\ c.step = bench[d]
           /\ c.fn = "next" => pc[d] = "next"
           /\ c.fn = "done" => pc[d] = "done" /\ c.step = bench[d]
           /\ c.fn = "thread_dispose" => pc[d] = "dispose"
           /\ c.fn = "next" /\ bench[d] \in Single => c.step = bench[d]
           /\ c.fn = "next" /\ bench[d] = "iterate" => c.step = "iterate"
           /\ c.fn = "next" /\ bench[d] \in Quadruple =>
                /\ q[d] \in {1, 2} <=> c.step = "set"
                /\ q[d] = 3 <=> c.step = "delete"
                /\ q[d] = 4 <=> c.step = "get"
           /\ c.fn \in {"next", "return"} /\ pc[d] = "next" =>
                /\ bench[d] \in Single => c.key = KeyOf(d, GenA, i[d])
                /\ bench[d] \in Quadruple /\ q[d] \in {1, 3} =>
                     c.key = KeyOf(d, GenB, i[d])
                /\ bench[d] \in Quadruple /\ q[d] \in {2, 4} =>
                     c.key = KeyOf(d, GenA, i[d])
<1>1. RunnerOK(d) /\ pc[d] \in Labels /\ q[d] \in 1 .. 4 /\ bench[d] \in Steps
  BY DEF RunnerInv, RunnerType
<1>2. /\ call[d].fn = "thread_new" => pc[d] = "new"
      /\ call[d].fn = "begin" => pc[d] = "begin" /\ call[d].step = bench[d]
      /\ call[d].fn = "next" => pc[d] = "next"
      /\ call[d].fn = "done" => pc[d] = "done" /\ call[d].step = bench[d]
      /\ call[d].fn = "thread_dispose" => pc[d] = "dispose"
  BY <1>1 DEF RunnerOK, CallOK, Labels
<1>3. pc[d] = "next" =>
        /\ bench[d] \in Single =>
              call[d].step = bench[d] /\ call[d].key = KeyOf(d, GenA, i[d])
        /\ bench[d] = "iterate" => call[d].step = "iterate"
        /\ bench[d] \in Quadruple =>
              /\ call[d].step = QuadrupleCalls[q[d]][1]
              /\ call[d].key = KeyOf(d, QuadrupleCalls[q[d]][2], i[d])
  BY <1>1 DEF RunnerOK, CallOK
<1>4. /\ q[d] \in {1, 2} => QuadrupleCalls[q[d]][1] = "set"
      /\ q[d] = 3 => QuadrupleCalls[q[d]][1] = "delete"
      /\ q[d] = 4 => QuadrupleCalls[q[d]][1] = "get"
      /\ q[d] \in {1, 3} => QuadrupleCalls[q[d]][2] = GenB
      /\ q[d] \in {2, 4} => QuadrupleCalls[q[d]][2] = GenA
      /\ q[d] = 1 \/ q[d] = 2 \/ q[d] = 3 \/ q[d] = 4
  BY <1>1, QuadrupleFacts
<1> QED  BY <1>2, <1>3, <1>4

(* What a call of the driver, and the return from ia_run_benchmark, leave. *)
LEMMA AskFacts ==
    ASSUME RunnerType, NEW d \in Doers, NEW label \in Labels,
           NEW fn \in Functions, NEW step \in Steps, NEW key \in CallKeys,
           Ask(d, label, fn, step, key)
    PROVE  /\ pc' \in [Doers -> Labels] /\ call' \in [Doers -> CallType]
           /\ pc'[d] = label /\ call'[d].fn = fn /\ call'[d].step = step
           /\ call'[d].key = key
<1>1. /\ Request(fn, step, key) \in CallType
      /\ Request(fn, step, key).fn = fn
      /\ Request(fn, step, key).step = step
      /\ Request(fn, step, key).key = key
  BY RequestType
<1> QED  BY <1>1 DEF Ask, RunnerType

(* What the return from ia_run_benchmark leaves. *)
LEMMA LeaveFacts ==
    ASSUME RunnerType, NEW d \in Doers, NEW code \in Codes, Leave(d, code)
    PROVE  /\ pc' \in [Doers -> Labels] /\ call' \in [Doers -> CallType]
           /\ rc' \in [Doers -> Codes]
           /\ pc'[d] = "pass" /\ call'[d].fn = "none" /\ rc'[d] = code
<1>0. bench[d] \in Steps
  BY DEF RunnerType
<1>1. /\ Request("none", bench[d], NoKey) \in CallType
      /\ Request("none", bench[d], NoKey).fn = "none"
  BY <1>0, RequestType DEF CallKeys
<1> QED  BY <1>1 DEF Leave, RunnerType, Labels

(* Only ENOENT is tolerated. *)
LEMMA ToleratedCode ==
    ASSUME NEW code \in Codes
    PROVE  /\ Tolerated(code) \in Codes
           /\ code = 0 => Tolerated(code) = 0
           /\ code = -1 => Tolerated(code) = -1
           /\ Tolerated(code) = 0 => code = 0 \/ code = ENOENT
BY DEF Tolerated, Codes, ENOENT

(* The invariant holds after every step of a doer, whatever the driver has *)
(* answered.                                                               *)
LEMMA RunnerKeeps ==
    ASSUME RunnerInv, NEW d \in Doers, RunnerStep(d)
    PROVE  RunnerInv'
<1> USE DEF Labels, Functions
<1>0. /\ RunnerType /\ RunnerOK(d)
      /\ bench[d] \in Steps /\ i[d] \in Nat /\ j[d] \in Nat /\ q[d] \in 1 .. 4
      /\ rc[d] \in Codes /\ call[d].rc \in Codes /\ 0 \in Codes /\ -1 \in Codes
      /\ NoKey \in CallKeys
      /\ job[d].mask \subseteq Steps /\ left[d] \subseteq job[d].mask
      /\ Count \in Nat /\ Count > 0 /\ BatchLength \in Nat /\ BatchLength > 0
      /\ call[d] \in CallType
  BY CallsAssumption, RunnerAssumption, JobFacts
  DEF RunnerInv, RunnerType, RunnerOK, CountOK, CallType, Codes, CallKeys
<1>k. \A g \in {GenA, GenB}, n \in Nat : KeyOf(d, g, n) \in CallKeys
  BY <1>0, KeyOfType
<1>q. \A n \in 1 .. 4 :
        /\ Len(QuadrupleCalls) = 4
        /\ QuadrupleCalls[n][1] \in Steps
        /\ QuadrupleCalls[n][2] \in {GenA, GenB}
  BY QuadrupleFacts
<1> SUFFICES RunnerType' /\ RunnerOK(d)'
  BY OthersSame, SameKeeps DEF RunnerInv
<1>1. CASE ThreadNewReturned(d)
  <2>1. CASE call[d].rc = 0
    <3>1. Leave(d, 0)
      BY <1>1, <2>1 DEF ThreadNewReturned
    <3>2. /\ pc' \in [Doers -> Labels] /\ call' \in [Doers -> CallType]
          /\ rc' \in [Doers -> Codes]
          /\ pc'[d] = "pass" /\ call'[d].fn = "none" /\ rc'[d] = 0
      BY <1>0, <3>1, LeaveFacts
    <3>3. /\ left' = [left EXCEPT ![d] = job[d].mask]
          /\ passes' = [passes EXCEPT ![d] = 1]
      BY <1>1, <2>1 DEF ThreadNewReturned
    <3> QED  BY <1>0, <1>1, <3>2, <3>3
             DEF ThreadNewReturned, RunnerType, RunnerOK, CallOK, CountOK
  <2>2. CASE call[d].rc # 0
    <3>1. call[d].fn = "return"
      BY <1>1 DEF ThreadNewReturned, Returned
    <3> QED  BY <1>0, <1>1, <2>2, <3>1
             DEF ThreadNewReturned, RunnerType, RunnerOK, CallOK, CountOK
  <2> QED  BY <2>1, <2>2
<1>2. CASE RunBenchmark(d)
  <2>1. left[d] # {} /\ left[d] \in SUBSET Steps
    BY <1>0, <1>2 DEF RunBenchmark
  <2>2. FirstOf(left[d]) \in left[d]
    BY <2>1, FirstOfIn
  <2> DEFINE b == FirstOf(left[d])
  <2>3. b \in Steps /\ b \in job[d].mask
    BY <1>0, <2>1, <2>2
  <2>4. /\ Ask(d, "begin", "begin", b, NoKey)
        /\ bench' = [bench EXCEPT ![d] = b]
        /\ left' = [left EXCEPT ![d] = @ \ {b}]
        /\ i' = [i EXCEPT ![d] = 0] /\ j' = [j EXCEPT ![d] = 0]
        /\ begun' = [begun EXCEPT ![d] = TRUE]
        /\ UNCHANGED <<ignore, job, serial, passes, q, rc>>
    BY <1>2 DEF RunBenchmark
  <2> HIDE DEF b
  <2>5. /\ pc' \in [Doers -> Labels] /\ call' \in [Doers -> CallType]
        /\ pc'[d] = "begin" /\ call'[d].fn = "begin" /\ call'[d].step = b
    BY <1>0, <2>3, <2>4, AskFacts
  <2> QED  BY <1>0, <2>3, <2>4, <2>5
           DEF RunnerType, RunnerOK, CallOK, CountOK
<1>3. CASE PassAgain(d)
  BY <1>0, <1>3 DEF PassAgain, RunnerType, RunnerOK, CallOK, CountOK
<1>4. CASE AskDispose(d)
  <2>1. /\ pc' \in [Doers -> Labels] /\ call' \in [Doers -> CallType]
        /\ pc'[d] = "dispose" /\ call'[d].fn = "thread_dispose"
    BY <1>0, <1>4, AskFacts DEF AskDispose
  <2> QED  BY <1>0, <1>4, <2>1
           DEF AskDispose, RunnerType, RunnerOK, CallOK, CountOK
<1>5. CASE Disposed(d)
  <2>1. call[d].fn = "return"
    BY <1>5 DEF Disposed, Returned
  <2> QED  BY <1>0, <1>5, <2>1
           DEF Disposed, RunnerType, RunnerOK, CallOK, CountOK
<1>7. CASE SingleNextReturned(d)
  <2>1. /\ pc' \in [Doers -> Labels] /\ call' \in [Doers -> CallType]
        /\ pc'[d] = "done" /\ call'[d].fn = "done"
        /\ call'[d].step = bench[d]
    BY <1>0, <1>7, AskFacts DEF SingleNextReturned, AskDone
  <2>2. bench[d] \in Single /\ pc[d] = "next"
    BY <1>7 DEF SingleNextReturned, Returned
  <2> QED  BY <1>0, <1>7, <2>1, <2>2
           DEF SingleNextReturned, RunnerType, RunnerOK, CallOK, CountOK,
               Single, Quadruple
<1>9. CASE IterateNextReturned(d)
  <2>1. /\ pc[d] = "next" /\ bench[d] = "iterate"
        /\ i' = [i EXCEPT ![d] = @ + 1] /\ i'[d] = i[d] + 1
        /\ i' \in [Doers -> Nat] /\ i[d] < Count
        /\ UNCHANGED <<ignore, job, serial, left, passes, bench, j, q, begun>>
    BY <1>0, <1>9 DEF IterateNextReturned, Returned, RunnerType, RunnerOK,
       CountOK
  <2>2. CASE call[d].rc = -1
    <3>1. Leave(d, -1)
      BY <1>9, <2>2 DEF IterateNextReturned
    <3>2. /\ pc' \in [Doers -> Labels] /\ call' \in [Doers -> CallType]
          /\ rc' \in [Doers -> Codes]
          /\ pc'[d] = "pass" /\ call'[d].fn = "none"
      BY <1>0, <3>1, LeaveFacts
    <3> QED  BY <1>0, <2>1, <3>2
             DEF RunnerType, RunnerOK, CallOK, CountOK
  <2>3. CASE call[d].rc # -1
    <3>0. rc' = [rc EXCEPT ![d] = 0] /\ rc' \in [Doers -> Codes] /\ rc'[d] = 0
      BY <1>0, <1>9, <2>3 DEF IterateNextReturned, RunnerType
    <3>1. CASE call[d].rc = 0 /\ i[d] + 1 # Count
      <4>1. AskIterate(d)
        BY <1>9, <2>3, <3>1 DEF IterateNextReturned
      <4>2. /\ pc' \in [Doers -> Labels] /\ call' \in [Doers -> CallType]
            /\ pc'[d] = "next" /\ call'[d].fn = "next"
            /\ call'[d].step = "iterate"
        BY <1>0, <4>1, AskFacts DEF AskIterate, Steps
      <4>3. RunnerType'
        BY <1>0, <2>1, <3>0, <4>2 DEF RunnerType
      <4>4. /\ bench'[d] = "iterate" /\ bench'[d] \notin Single \cup Quadruple
            /\ bench'[d] \in job'[d].mask /\ left'[d] \subseteq job'[d].mask
            /\ bench'[d] = bench[d]
        BY <1>0, <2>1 DEF Single, Quadruple, RunnerOK, CountOK
      <4> QED  BY <1>0, <2>1, <3>0, <3>1, <4>2, <4>3, <4>4
               DEF RunnerOK, CallOK, CountOK
    <3>2. CASE ~(call[d].rc = 0 /\ i[d] + 1 # Count)
      <4>1. AskDone(d)
        BY <1>9, <2>3, <3>2 DEF IterateNextReturned
      <4>2. /\ pc' \in [Doers -> Labels] /\ call' \in [Doers -> CallType]
            /\ pc'[d] = "done" /\ call'[d].fn = "done"
            /\ call'[d].step = bench[d]
        BY <1>0, <4>1, AskFacts DEF AskDone
      <4>3. RunnerType'
        BY <1>0, <2>1, <3>0, <4>2 DEF RunnerType
      <4>4. /\ bench'[d] = "iterate" /\ bench'[d] \notin Single \cup Quadruple
            /\ bench'[d] \in job'[d].mask /\ left'[d] \subseteq job'[d].mask
            /\ bench'[d] = bench[d]
        BY <1>0, <2>1 DEF Single, Quadruple, RunnerOK, CountOK
      <4> QED  BY <1>0, <2>1, <3>0, <3>2, <4>2, <4>3, <4>4
               DEF RunnerOK, CallOK, CountOK
    <3> QED  BY <3>1, <3>2
  <2> QED  BY <2>2, <2>3
<1>6. CASE BeginReturned(d)
  <2> DEFINE r == call[d].rc
  <2>1. /\ pc[d] = "begin" /\ i[d] < Count /\ bench[d] \in job[d].mask
        /\ begun' = [begun EXCEPT ![d] = @ /\ r = 0]
        /\ begun' \in [Doers -> BOOLEAN]
        /\ UNCHANGED <<ignore, job, serial, left, passes, bench, i>>
    BY <1>0, <1>6 DEF BeginReturned, Returned, RunnerType, RunnerOK, CountOK
  <2>2. CASE bench[d] \in Single
    <3>0. /\ IF r = 0 THEN AskNext(d, bench[d], GenA, i[d]) ELSE AskDone(d)
          /\ rc' = [rc EXCEPT ![d] = r]
          /\ UNCHANGED <<j, q>>
      BY <1>6, <2>2 DEF BeginReturned, Single
    <3>s. bench[d] \notin Quadruple /\ bench[d] # "iterate" /\ bench[d] # "batch"
      BY <2>2 DEF Single, Quadruple
    <3>r. rc' \in [Doers -> Codes] /\ rc'[d] = r
      BY <1>0, <3>0 DEF RunnerType
    <3>1. CASE r = 0
      <4>1. /\ pc' \in [Doers -> Labels] /\ call' \in [Doers -> CallType]
            /\ pc'[d] = "next" /\ call'[d].fn = "next"
            /\ call'[d].step = bench[d]
            /\ call'[d].key = KeyOf(d, GenA, i[d])
        BY <1>0, <1>k, <3>0, <3>1, AskFacts DEF AskNext
      <4>2. RunnerType'
        BY <1>0, <2>1, <3>0, <3>r, <4>1 DEF RunnerType
      <4>3. KeyOf(d, GenA, i[d])' = KeyOf(d, GenA, i[d])
        BY <2>1 DEF KeyOf
      <4> QED  BY <1>0, <2>1, <2>2, <3>s, <3>r, <3>1, <4>1, <4>2, <4>3
               DEF RunnerOK, CallOK, CountOK
    <3>2. CASE r # 0
      <4>1. /\ pc' \in [Doers -> Labels] /\ call' \in [Doers -> CallType]
            /\ pc'[d] = "done" /\ call'[d].fn = "done"
            /\ call'[d].step = bench[d]
        BY <1>0, <3>0, <3>2, AskFacts DEF AskDone
      <4>2. RunnerType'
        BY <1>0, <2>1, <3>0, <3>r, <4>1 DEF RunnerType
      <4> QED  BY <1>0, <2>1, <2>2, <3>s, <4>1, <4>2
               DEF RunnerOK, CallOK, CountOK
    <3> QED  BY <3>1, <3>2
  <2>3. CASE bench[d] \in Quadruple
    <3>s. bench[d] \notin Single /\ bench[d] # "iterate"
      BY <2>3 DEF Single, Quadruple
    <3>q. /\ q' = [q EXCEPT ![d] = 1] /\ q' \in [Doers -> 1 .. 4] /\ q'[d] = 1
          /\ j' \in [Doers -> Nat] /\ (bench[d] = "batch" => j'[d] = 0)
      BY <1>0, <1>6, <2>3 DEF BeginReturned, Single, Quadruple, RunnerType
    <3>0. \/ /\ AskQuadruple(d, 1, i[d])
             /\ rc' = [rc EXCEPT ![d] = r]
          \/ Leave(d, r)
      BY <1>6, <2>3 DEF BeginReturned, Single, Quadruple
    <3>1. CASE AskQuadruple(d, 1, i[d]) /\ rc' = [rc EXCEPT ![d] = r]
      <4>1. /\ pc' \in [Doers -> Labels] /\ call' \in [Doers -> CallType]
            /\ pc'[d] = "next" /\ call'[d].fn = "next"
            /\ call'[d].step = QuadrupleCalls[1][1]
            /\ call'[d].key = KeyOf(d, QuadrupleCalls[1][2], i[d])
        BY <1>0, <1>k, <1>q, <3>1, AskFacts DEF AskQuadruple, AskNext
      <4>2. RunnerType'
        BY <1>0, <2>1, <3>1, <3>q, <4>1 DEF RunnerType
      <4>3. KeyOf(d, QuadrupleCalls[1][2], i[d])'
              = KeyOf(d, QuadrupleCalls[1][2], i[d])
        BY <2>1 DEF KeyOf
      <4> QED  BY <1>0, <2>1, <2>3, <3>s, <3>q, <4>1, <4>2, <4>3
               DEF RunnerOK, CallOK, CountOK
    <3>2. CASE Leave(d, r)
      <4>1. /\ pc' \in [Doers -> Labels] /\ call' \in [Doers -> CallType]
            /\ rc' \in [Doers -> Codes]
            /\ pc'[d] = "pass" /\ call'[d].fn = "none"
        BY <1>0, <3>2, LeaveFacts
      <4> QED  BY <1>0, <2>1, <3>q, <4>1
               DEF RunnerType, RunnerOK, CallOK, CountOK
    <3> QED  BY <3>0, <3>1, <3>2
  <2>4. CASE bench[d] = "iterate"
    <3>s. bench[d] \notin Single \cup Quadruple /\ bench[d] # "batch"
      BY <2>4 DEF Single, Quadruple
    <3>0. /\ \/ AskIterate(d) /\ rc' = [rc EXCEPT ![d] = 0]
             \/ AskDone(d) /\ rc' = [rc EXCEPT ![d] = 0]
             \/ Leave(d, r)
          /\ UNCHANGED <<j, q>>
      BY <1>6, <2>4 DEF BeginReturned, Single, Quadruple
    <3>1. CASE AskIterate(d) /\ rc' = [rc EXCEPT ![d] = 0]
      <4>1. /\ pc' \in [Doers -> Labels] /\ call' \in [Doers -> CallType]
            /\ pc'[d] = "next" /\ call'[d].fn = "next"
            /\ call'[d].step = "iterate"
        BY <1>0, <3>1, AskFacts DEF AskIterate, Steps
      <4>2. rc' \in [Doers -> Codes] /\ rc'[d] = 0
        BY <1>0, <3>1 DEF RunnerType
      <4>3. RunnerType'
        BY <1>0, <2>1, <3>0, <4>1, <4>2 DEF RunnerType
      <4> QED  BY <1>0, <2>1, <2>4, <3>s, <4>1, <4>2, <4>3
               DEF RunnerOK, CallOK, CountOK
    <3>2. CASE AskDone(d) /\ rc' = [rc EXCEPT ![d] = 0]
      <4>1. /\ pc' \in [Doers -> Labels] /\ call' \in [Doers -> CallType]
            /\ pc'[d] = "done" /\ call'[d].fn = "done"
            /\ call'[d].step = bench[d]
        BY <1>0, <3>2, AskFacts DEF AskDone
      <4>2. rc' \in [Doers -> Codes] /\ rc'[d] = 0
        BY <1>0, <3>2 DEF RunnerType
      <4>3. RunnerType'
        BY <1>0, <2>1, <3>0, <4>1, <4>2 DEF RunnerType
      <4> QED  BY <1>0, <2>1, <2>4, <3>s, <4>1, <4>2, <4>3
               DEF RunnerOK, CallOK, CountOK
    <3>3. CASE Leave(d, r)
      <4>1. /\ pc' \in [Doers -> Labels] /\ call' \in [Doers -> CallType]
            /\ rc' \in [Doers -> Codes]
            /\ pc'[d] = "pass" /\ call'[d].fn = "none"
        BY <1>0, <3>3, LeaveFacts
      <4> QED  BY <1>0, <2>1, <3>0, <4>1
               DEF RunnerType, RunnerOK, CallOK, CountOK
    <3> QED  BY <3>0, <3>1, <3>2, <3>3
  <2> QED  BY <1>0, <2>2, <2>3, <2>4 DEF Steps, Single, Quadruple
<1>8. CASE QuadrupleNextReturned(d)
  <2> DEFINE code == IF q[d] > 2 THEN Tolerated(call[d].rc) ELSE call[d].rc
             batch == q[d] = 4 /\ bench[d] = "batch"
  <2>1. /\ pc[d] = "next" /\ bench[d] \in Quadruple /\ bench[d] \in job[d].mask
        /\ i[d] < Count /\ bench[d] \notin Single /\ bench[d] # "iterate"
        /\ bench[d] = "batch" => j[d] <= i[d] /\ j[d] < BatchLength
        /\ UNCHANGED <<ignore, job, serial, left, passes, bench, begun>>
    BY <1>0, <1>8 DEF QuadrupleNextReturned, Returned, RunnerOK, CountOK,
       Single, Quadruple
  <2>2. code \in Codes
    BY <1>0, ToleratedCode
  <2>3. CASE code # 0
    <3>1. Leave(d, code) /\ UNCHANGED <<i, j, q>>
      BY <1>8, <2>3 DEF QuadrupleNextReturned
    <3>2. /\ pc' \in [Doers -> Labels] /\ call' \in [Doers -> CallType]
          /\ rc' \in [Doers -> Codes]
          /\ pc'[d] = "pass" /\ call'[d].fn = "none"
      BY <1>0, <2>2, <3>1, LeaveFacts
    <3> QED  BY <1>0, <2>1, <3>1, <3>2
             DEF RunnerType, RunnerOK, CallOK, CountOK
  <2>4. CASE code = 0 /\ q[d] # 4
    <3>1. /\ AskQuadruple(d, q[d] + 1, i[d])
          /\ q' = [q EXCEPT ![d] = @ + 1]
          /\ rc' = [rc EXCEPT ![d] = 0]
          /\ UNCHANGED <<i, j>>
      BY <1>8, <1>q, <2>4 DEF QuadrupleNextReturned
    <3>2. q[d] + 1 \in 1 .. 4
      BY <1>0, <2>4
    <3> DEFINE step == QuadrupleCalls[q[d] + 1][1]
               g == QuadrupleCalls[q[d] + 1][2]
    <3>3. step \in Steps /\ g \in {GenA, GenB} /\ KeyOf(d, g, i[d]) \in CallKeys
      BY <1>0, <1>k, <1>q, <3>2
    <3>4. Ask(d, "next", "next", step, KeyOf(d, g, i[d]))
      BY <3>1 DEF AskQuadruple, AskNext
    <3> HIDE DEF step, g
    <3>5. /\ pc' \in [Doers -> Labels] /\ call' \in [Doers -> CallType]
          /\ pc'[d] = "next" /\ call'[d].fn = "next"
          /\ call'[d].step = step /\ call'[d].key = KeyOf(d, g, i[d])
      BY <1>0, <3>3, <3>4, AskFacts
    <3>6. q'[d] = q[d] + 1 /\ q' \in [Doers -> 1 .. 4]
      BY <1>0, <3>1, <3>2 DEF RunnerType
    <3>7. RunnerType'
      BY <1>0, <2>1, <3>1, <3>5, <3>6 DEF RunnerType
    <3>9. QuadrupleCalls[q'[d]][1] = step /\ QuadrupleCalls[q'[d]][2] = g
      BY <3>6 DEF step, g
    <3>10. KeyOf(d, QuadrupleCalls[q[d]][2], i[d])' = KeyOf(d, g, i[d])
      BY <2>1, <3>1, <3>9 DEF KeyOf
    <3> QED  BY <1>0, <2>1, <3>1, <3>5, <3>6, <3>7, <3>9, <3>10
             DEF RunnerOK, CallOK, CountOK
  <2>5. CASE code = 0 /\ q[d] = 4
    <3>1. /\ i' = [i EXCEPT ![d] = IF batch THEN @ + 1 ELSE @]
          /\ j' = [j EXCEPT ![d] = IF batch THEN @ + 1 ELSE @]
          /\ IF batch /\ i[d] + 1 # Count /\ j[d] + 1 # BatchLength
             THEN AskQuadruple(d, 1, i[d] + 1) ELSE AskDone(d)
          /\ q' = [q EXCEPT ![d] = 1]
          /\ rc' = [rc EXCEPT ![d] = 0]
      BY <1>8, <1>q, <2>5 DEF QuadrupleNextReturned
    <3>2. /\ i' \in [Doers -> Nat] /\ j' \in [Doers -> Nat]
          /\ i'[d] = (IF batch THEN i[d] + 1 ELSE i[d])
          /\ j'[d] = (IF batch THEN j[d] + 1 ELSE j[d])
          /\ rc' \in [Doers -> Codes] /\ rc'[d] = 0
          /\ q' \in [Doers -> 1 .. 4] /\ q'[d] = 1
      BY <1>0, <3>1 DEF RunnerType
    <3>3. CASE batch /\ i[d] + 1 # Count /\ j[d] + 1 # BatchLength
      <4>1. /\ pc' \in [Doers -> Labels] /\ call' \in [Doers -> CallType]
            /\ pc'[d] = "next" /\ call'[d].fn = "next"
            /\ call'[d].step = QuadrupleCalls[1][1]
            /\ call'[d].key = KeyOf(d, QuadrupleCalls[1][2], i[d] + 1)
        BY <1>0, <1>k, <1>q, <3>1, <3>3, AskFacts DEF AskQuadruple, AskNext
      <4>2. RunnerType'
        BY <1>0, <2>1, <3>2, <4>1 DEF RunnerType
      <4>3. KeyOf(d, QuadrupleCalls[q[d]][2], i[d])'
              = KeyOf(d, QuadrupleCalls[1][2], i[d] + 1)
        BY <2>1, <3>2, <3>3 DEF KeyOf
      <4> QED  BY <1>0, <2>1, <3>2, <3>3, <4>1, <4>2, <4>3
               DEF RunnerOK, CallOK, CountOK
    <3>4. CASE ~(batch /\ i[d] + 1 # Count /\ j[d] + 1 # BatchLength)
      <4>1. /\ pc' \in [Doers -> Labels] /\ call' \in [Doers -> CallType]
            /\ pc'[d] = "done" /\ call'[d].fn = "done"
            /\ call'[d].step = bench[d]
        BY <1>0, <3>1, <3>4, AskFacts DEF AskDone
      <4>2. RunnerType'
        BY <1>0, <2>1, <3>2, <4>1 DEF RunnerType
      <4>3. CallOK(d)'
        BY <2>1, <4>1 DEF CallOK
      <4>4. /\ bench'[d] = bench[d] /\ (bench[d] = "batch" \/ bench[d] = "crud")
            /\ job' = job /\ left' = left
        BY <2>1 DEF Quadruple
      <4>5. CountOK(d)'
        <5>1. CASE bench[d] = "batch"
          <6>1. i'[d] = i[d] + 1 /\ j'[d] = j[d] + 1
            BY <2>5, <3>2, <5>1
          <6>2. i'[d] <= Count /\ j'[d] \in 1 .. BatchLength /\ j'[d] <= i'[d]
            BY <1>0, <2>1, <5>1, <6>1
          <6> QED  BY <1>0, <2>1, <3>2, <4>1, <4>4, <5>1, <6>2
                   DEF CountOK, Single
        <5>2. CASE bench[d] = "crud"
          BY <1>0, <2>1, <3>2, <4>1, <4>4, <5>2 DEF CountOK
        <5> QED  BY <4>4, <5>1, <5>2
      <4> QED  BY <4>2, <4>3, <4>5 DEF RunnerOK
    <3> QED  BY <3>3, <3>4
  <2> QED  BY <2>3, <2>4, <2>5
<1>10. CASE DoneReturned(d)
  <2> DEFINE own == Tolerated(rc[d])
             code == IF own = 0 THEN call[d].rc ELSE own
             n == IF bench[d] \in Single \cup {"crud"} THEN i[d] + 1 ELSE i[d]
  <2>1. /\ pc[d] = "done" /\ bench[d] \in job[d].mask
        /\ UNCHANGED <<ignore, job, left, passes, bench, j, q, begun>>
        /\ i' = [i EXCEPT ![d] = IF code = 0 THEN n ELSE @]
        /\ \/ code = 0 /\ n < Count /\ AskBegin(d)
                       /\ rc' = [rc EXCEPT ![d] = 0]
           \/ Leave(d, code)
    BY <1>0, <1>10 DEF DoneReturned, Returned, RunnerOK, CountOK
  <2>2. code \in Codes /\ n \in Nat
    BY <1>0, ToleratedCode
  <2>3. serial' \in [Doers -> Nat]
    <3>1. Pooled \in Nat
      BY <1>0 DEF Pooled
    <3>2. (serial[d] + Pooled) % Count \in Nat
      BY <1>0, <3>1 DEF RunnerType
    <3> QED  BY <1>0, <1>10, <3>2 DEF DoneReturned, RunnerType
  <2>4. i' \in [Doers -> Nat] /\ (code = 0 => i'[d] = n)
    BY <1>0, <2>1, <2>2 DEF RunnerType
  <2>5. CASE /\ code = 0 /\ n < Count /\ AskBegin(d)
             /\ rc' = [rc EXCEPT ![d] = 0]
    <3>1. /\ pc' \in [Doers -> Labels] /\ call' \in [Doers -> CallType]
          /\ pc'[d] = "begin" /\ call'[d].fn = "begin"
          /\ call'[d].step = bench[d]
      BY <1>0, <2>5, AskFacts DEF AskBegin
    <3>2. rc' \in [Doers -> Codes]
      BY <1>0, <2>5 DEF RunnerType
    <3>3. RunnerType'
      BY <1>0, <2>1, <2>3, <2>4, <3>1, <3>2 DEF RunnerType
    <3>4. i'[d] < Count /\ bench' = bench /\ job' = job /\ left' = left
      BY <2>1, <2>4, <2>5
    <3> QED  BY <1>0, <2>1, <3>1, <3>3, <3>4 DEF RunnerOK, CallOK, CountOK
  <2>6. CASE Leave(d, code)
    <3>1. /\ pc' \in [Doers -> Labels] /\ call' \in [Doers -> CallType]
          /\ rc' \in [Doers -> Codes]
          /\ pc'[d] = "pass" /\ call'[d].fn = "none"
      BY <1>0, <2>2, <2>6, LeaveFacts
    <3>3. RunnerType'
      BY <1>0, <2>1, <2>3, <2>4, <3>1 DEF RunnerType
    <3> QED  BY <1>0, <2>1, <3>1, <3>3 DEF RunnerOK, CallOK, CountOK
  <2> QED  BY <2>1, <2>5, <2>6
<1> QED  BY <1>1, <1>2, <1>3, <1>4, <1>5, <1>6, <1>7, <1>8, <1>9, <1>10
         DEF RunnerStep

----------------------------------------------------------------------------
(* What a step of d does to d, in short; the call that it makes then is as *)
(* CallOK says.                                                            *)

InBench(d) == UNCHANGED <<serial[d], bench[d], passes[d]>>
Counts(d) == UNCHANGED <<i[d], j[d], q[d]>>
ToCall(d, label) == pc'[d] = label /\ call'[d].fn = label
ToPass(d, code) == pc'[d] = "pass" /\ call'[d].fn = "none" /\ rc'[d] = code

MoveNew(d) ==
    /\ Returned(d, "new")
    /\ UNCHANGED <<serial[d], bench[d], begun[d]>> /\ Counts(d)
    /\ \/ call[d].rc = 0 /\ ToPass(d, 0) /\ passes'[d] = 1
       \/ /\ call[d].rc # 0 /\ pc'[d] = "end" /\ rc'[d] = -1
          /\ UNCHANGED <<call[d], passes[d]>>

MoveStart(d) ==
    /\ pc[d] = "pass" /\ rc[d] = 0
    /\ ToCall(d, "begin")
    /\ begun'[d] /\ i'[d] = 0 /\ j'[d] = 0
    /\ UNCHANGED <<serial[d], q[d], rc[d], passes[d]>>

MoveAgain(d) ==
    /\ pc[d] = "pass" /\ rc[d] = 0
    /\ passes'[d] = passes[d] + 1
    /\ UNCHANGED <<call[d], pc[d], serial[d], bench[d], rc[d], begun[d]>>
    /\ Counts(d)

MoveDispose(d) ==
    /\ pc[d] = "pass" /\ pc'[d] = "dispose" /\ call'[d].fn = "thread_dispose"
    /\ InBench(d) /\ Counts(d) /\ UNCHANGED <<rc[d], begun[d]>>

MoveEnd(d) ==
    /\ Returned(d, "dispose") /\ pc'[d] = "end"
    /\ InBench(d) /\ Counts(d) /\ UNCHANGED <<call[d], rc[d], begun[d]>>

MoveBegin(d) ==
    LET r == call[d].rc IN
    /\ Returned(d, "begin") /\ InBench(d) /\ UNCHANGED i[d]
    /\ begun'[d] = (begun[d] /\ r = 0)
    /\ \/ /\ bench[d] \in Single /\ r = 0 /\ ToCall(d, "next") /\ rc'[d] = 0
          /\ UNCHANGED <<j[d], q[d]>>
       \/ /\ bench[d] \in Single /\ r # 0 /\ ToCall(d, "done") /\ rc'[d] = r
          /\ UNCHANGED <<j[d], q[d]>>
       \/ /\ bench[d] \in Quadruple /\ (r = 0 \/ bench[d] = "batch")
          /\ ToCall(d, "next") /\ rc'[d] = r /\ q'[d] = 1
          /\ j'[d] = IF bench[d] = "batch" THEN 0 ELSE j[d]
       \/ /\ bench[d] = "crud" /\ r # 0 /\ ToPass(d, r) /\ UNCHANGED j[d]
       \/ /\ bench[d] = "iterate" /\ r = 0 /\ ToCall(d, "next") /\ rc'[d] = 0
          /\ UNCHANGED <<j[d], q[d]>>
       \/ /\ bench[d] = "iterate" /\ r = ENOENT /\ ToCall(d, "done")
          /\ rc'[d] = 0 /\ UNCHANGED <<j[d], q[d]>>
       \/ /\ bench[d] = "iterate" /\ r = -1 /\ ToPass(d, r)
          /\ UNCHANGED <<j[d], q[d]>>

MoveSingle(d) ==
    /\ Returned(d, "next") /\ bench[d] \in Single
    /\ ToCall(d, "done") /\ rc'[d] = call[d].rc
    /\ InBench(d) /\ Counts(d) /\ UNCHANGED begun[d]

MoveQuadruple(d) ==
    LET code == IF q[d] > 2 THEN Tolerated(call[d].rc) ELSE call[d].rc
    IN /\ Returned(d, "next") /\ bench[d] \in Quadruple
       /\ InBench(d) /\ UNCHANGED begun[d]
       /\ \/ code # 0 /\ ToPass(d, code) /\ Counts(d)
          \/ /\ code = 0 /\ q[d] # 4 /\ ToCall(d, "next") /\ rc'[d] = 0
             /\ q'[d] = q[d] + 1 /\ UNCHANGED <<i[d], j[d]>>
          \/ /\ code = 0 /\ q[d] = 4 /\ q'[d] = 1 /\ rc'[d] = 0
             /\ bench[d] = "batch"
             /\ i'[d] = i[d] + 1 /\ j'[d] = j[d] + 1
             /\ ToCall(d, "next") \/ ToCall(d, "done")
          \/ /\ code = 0 /\ q[d] = 4 /\ q'[d] = 1 /\ rc'[d] = 0
             /\ bench[d] = "crud"
             /\ UNCHANGED <<i[d], j[d]>> /\ ToCall(d, "done")

MoveIterate(d) ==
    LET r == call[d].rc IN
    /\ Returned(d, "next") /\ bench[d] = "iterate"
    /\ InBench(d) /\ UNCHANGED <<j[d], q[d], begun[d]>>
    /\ \/ r = -1 /\ ToPass(d, r)
       \/ r = 0 /\ ToCall(d, "next") /\ rc'[d] = 0
       \/ r # -1 /\ ToCall(d, "done") /\ rc'[d] = 0

MoveDone(d) ==
    LET own == Tolerated(rc[d])
        code == IF own = 0 THEN call[d].rc ELSE own
    IN /\ Returned(d, "done")
       /\ UNCHANGED <<bench[d], j[d], q[d], begun[d], passes[d]>>
       /\ \/ code = 0 /\ ToCall(d, "begin") /\ rc'[d] = 0
          \/ ToPass(d, code)

Move(d) ==
    \/ MoveNew(d) \/ MoveStart(d) \/ MoveAgain(d) \/ MoveDispose(d)
    \/ MoveEnd(d) \/ MoveBegin(d) \/ MoveSingle(d) \/ MoveQuadruple(d)
    \/ MoveIterate(d) \/ MoveDone(d)

(* Every step of the runner is one of these moves. *)
LEMMA RunnerMoves ==
    ASSUME RunnerInv, NEW d \in Doers, RunnerStep(d)
    PROVE  Move(d) /\ UNCHANGED <<ignore, job, faults>>
<1> USE DEF Labels, Functions, ToCall, ToPass, Counts, InBench
<1>0. /\ RunnerType
      /\ bench[d] \in Steps /\ i[d] \in Nat /\ j[d] \in Nat /\ q[d] \in 1 .. 4
      /\ rc[d] \in Codes /\ call[d].rc \in Codes /\ 0 \in Codes /\ -1 \in Codes
      /\ NoKey \in CallKeys /\ passes[d] \in Nat
  BY DEF RunnerInv, RunnerType, CallType, Codes, CallKeys
<1> SUFFICES Move(d) /\ UNCHANGED <<ignore, job>>
  BY DEF RunnerStep
<1>1. CASE ThreadNewReturned(d)
  <2>1. CASE call[d].rc = 0
    <3>1. Leave(d, 0)
      BY <1>1, <2>1 DEF ThreadNewReturned
    <3>2. ToPass(d, 0)
      BY <1>0, <3>1, LeaveFacts
    <3> QED  BY <1>0, <1>1, <2>1, <3>2
             DEF ThreadNewReturned, Move, MoveNew, RunnerType
  <2>2. CASE call[d].rc # 0
    BY <1>0, <1>1, <2>2 DEF ThreadNewReturned, Move, MoveNew, RunnerType
  <2> QED  BY <2>1, <2>2
<1>2. CASE RunBenchmark(d)
  <2>1. FirstOf(left[d]) \in Steps
    BY <1>0, <1>2, FirstOfIn DEF RunBenchmark, RunnerType
  <2>2. ToCall(d, "begin")
    BY <1>0, <1>2, <2>1, AskFacts DEF RunBenchmark
  <2> QED  BY <1>0, <1>2, <2>2
           DEF RunBenchmark, Move, MoveStart, RunnerType
<1>3. CASE PassAgain(d)
  BY <1>0, <1>3 DEF PassAgain, Move, MoveAgain, RunnerType
<1>4. CASE AskDispose(d)
  <2>1. pc'[d] = "dispose" /\ call'[d].fn = "thread_dispose"
    BY <1>0, <1>4, AskFacts DEF AskDispose
  <2> QED  BY <1>4, <2>1 DEF AskDispose, Move, MoveDispose
<1>5. CASE Disposed(d)
  BY <1>0, <1>5 DEF Disposed, Move, MoveEnd, RunnerType
<1>7. CASE SingleNextReturned(d)
  <2>1. ToCall(d, "done")
    BY <1>0, <1>7, AskFacts DEF SingleNextReturned, AskDone
  <2> QED  BY <1>0, <1>7, <2>1
           DEF SingleNextReturned, Move, MoveSingle, RunnerType
<1>k. \A g \in {GenA, GenB}, n \in Nat : KeyOf(d, g, n) \in CallKeys
  BY <1>0, KeyOfType
<1>q. \A n \in 1 .. 4 :
        /\ Len(QuadrupleCalls) = 4
        /\ QuadrupleCalls[n][1] \in Steps
        /\ QuadrupleCalls[n][2] \in {GenA, GenB}
  BY QuadrupleFacts
<1>d. AskDone(d) => ToCall(d, "done")
  BY <1>0, AskFacts DEF AskDone
<1>i. AskIterate(d) => ToCall(d, "next")
  BY <1>0, AskFacts DEF AskIterate, Steps
<1>n. \A n \in 1 .. 4, k \in Nat : AskQuadruple(d, n, k) => ToCall(d, "next")
  <2> TAKE n \in 1 .. 4, k \in Nat
  <2>1. /\ QuadrupleCalls[n][1] \in Steps
        /\ KeyOf(d, QuadrupleCalls[n][2], k) \in CallKeys
    BY <1>k, <1>q
  <2> QED  BY <1>0, <2>1, AskFacts DEF AskQuadruple, AskNext
<1>l. \A code \in Codes : Leave(d, code) => ToPass(d, code)
  BY <1>0, LeaveFacts
<1>6. CASE BeginReturned(d)
  <2>1. bench[d] \in Single \/ bench[d] \in Quadruple \/ bench[d] = "iterate"
    BY <1>0 DEF Steps, Single, Quadruple
  <2>0. /\ Returned(d, "begin")
        /\ begun'[d] = (begun[d] /\ call[d].rc = 0)
        /\ UNCHANGED <<ignore, job, serial, left, passes, bench, i>>
    BY <1>0, <1>6 DEF BeginReturned, RunnerType
  <2>2. CASE bench[d] \in Single
    <3>1. AskNext(d, bench[d], GenA, i[d]) => ToCall(d, "next")
      BY <1>0, <1>k, AskFacts DEF AskNext
    <3>2. /\ IF call[d].rc = 0 THEN AskNext(d, bench[d], GenA, i[d])
             ELSE AskDone(d)
          /\ rc'[d] = call[d].rc
          /\ UNCHANGED <<j, q>>
      BY <1>0, <1>6, <2>2 DEF BeginReturned, Single, RunnerType
    <3>3. MoveBegin(d)
      BY <1>d, <2>0, <2>2, <3>1, <3>2 DEF MoveBegin
    <3> QED  BY <1>6, <2>0, <3>3 DEF Move
  <2>3. CASE bench[d] = "batch"
    <3>1. /\ AskQuadruple(d, 1, i[d]) /\ rc'[d] = call[d].rc
          /\ q'[d] = 1 /\ j'[d] = 0
      BY <1>0, <1>6, <2>3 DEF BeginReturned, Single, RunnerType
    <3>2. MoveBegin(d)
      BY <1>0, <1>n, <2>0, <2>3, <3>1 DEF MoveBegin, Quadruple
    <3> QED  BY <1>6, <2>0, <3>2 DEF Move
  <2>4. CASE bench[d] = "crud"
    <3>1. /\ q'[d] = 1 /\ j' = j
          /\ \/ call[d].rc = 0 /\ AskQuadruple(d, 1, i[d]) /\ rc'[d] = 0
             \/ call[d].rc # 0 /\ Leave(d, call[d].rc)
      BY <1>0, <1>6, <2>4 DEF BeginReturned, Single, RunnerType
    <3>2. MoveBegin(d)
      BY <1>0, <1>n, <1>l, <2>0, <2>4, <3>1 DEF MoveBegin, Quadruple
    <3> QED  BY <1>6, <2>0, <3>2 DEF Move
  <2>5. CASE bench[d] = "iterate"
    <3>1. /\ UNCHANGED <<j, q>>
          /\ \/ call[d].rc = 0 /\ AskIterate(d) /\ rc'[d] = 0
             \/ call[d].rc = ENOENT /\ AskDone(d) /\ rc'[d] = 0
             \/ call[d].rc = -1 /\ Leave(d, call[d].rc)
      BY <1>0, <1>6, <2>5 DEF BeginReturned, Single, RunnerType
    <3>2. MoveBegin(d)
      BY <1>0, <1>d, <1>i, <1>l, <2>0, <2>5, <3>1 DEF MoveBegin
    <3> QED  BY <1>6, <2>0, <3>2 DEF Move
  <2> QED  BY <2>1, <2>2, <2>3, <2>4, <2>5 DEF Quadruple
<1>8. CASE QuadrupleNextReturned(d)
  <2> DEFINE code == IF q[d] > 2 THEN Tolerated(call[d].rc) ELSE call[d].rc
  <2>0. /\ Returned(d, "next") /\ bench[d] \in Quadruple
        /\ UNCHANGED <<ignore, job, serial, left, passes, bench, begun>>
    BY <1>8 DEF QuadrupleNextReturned
  <2>1. code \in Codes
    BY <1>0, ToleratedCode
  <2>2. CASE code # 0
    <3>1. Leave(d, code) /\ UNCHANGED <<i, j, q>>
      BY <1>8, <2>2 DEF QuadrupleNextReturned
    <3>2. ToPass(d, code)
      BY <1>l, <2>1, <3>1
    <3>3. MoveQuadruple(d)
      BY <2>0, <2>2, <3>1, <3>2 DEF MoveQuadruple
    <3> QED  BY <2>0, <3>3 DEF Move
  <2>3. CASE code = 0 /\ q[d] # 4
    <3>1. /\ AskQuadruple(d, q[d] + 1, i[d]) /\ q'[d] = q[d] + 1
          /\ rc'[d] = 0 /\ UNCHANGED <<i, j>>
      BY <1>0, <1>8, <1>q, <2>3 DEF QuadrupleNextReturned, RunnerType
    <3>2. q[d] + 1 \in 1 .. 4
      BY <1>0, <2>3
    <3>3. ToCall(d, "next")
      BY <1>0, <1>n, <3>1, <3>2
    <3>4. MoveQuadruple(d)
      BY <2>0, <2>3, <3>1, <3>3 DEF MoveQuadruple
    <3> QED  BY <2>0, <3>4 DEF Move
  <2>4. CASE code = 0 /\ q[d] = 4
    <3>1. /\ IF bench[d] = "batch" THEN i'[d] = i[d] + 1 /\ j'[d] = j[d] + 1
             ELSE i'[d] = i[d] /\ j'[d] = j[d]
          /\ \/ bench[d] = "batch" /\ AskQuadruple(d, 1, i[d] + 1)
             \/ AskDone(d)
          /\ q'[d] = 1 /\ rc'[d] = 0
      BY <1>0, <1>8, <1>q, <2>4 DEF QuadrupleNextReturned, RunnerType
    <3>2. (bench[d] = "batch" /\ ToCall(d, "next")) \/ ToCall(d, "done")
      BY <1>0, <1>d, <1>n, <3>1
    <3>3. MoveQuadruple(d)
      BY <2>0, <2>4, <3>1, <3>2 DEF MoveQuadruple, Quadruple
    <3> QED  BY <2>0, <3>3 DEF Move
  <2> QED  BY <2>2, <2>3, <2>4
<1>9. CASE IterateNextReturned(d)
  <2>0. /\ Returned(d, "next") /\ bench[d] = "iterate"
        /\ UNCHANGED <<ignore, job, serial, left, passes, bench, j, q, begun>>
        /\ \/ call[d].rc = -1 /\ Leave(d, call[d].rc)
           \/ call[d].rc # -1 /\ rc'[d] = 0 /\ AskDone(d)
           \/ call[d].rc = 0 /\ rc'[d] = 0 /\ AskIterate(d)
    BY <1>0, <1>9 DEF IterateNextReturned, RunnerType
  <2>1. MoveIterate(d)
    BY <1>0, <1>d, <1>i, <1>l, <2>0 DEF MoveIterate
  <2> QED  BY <2>0, <2>1 DEF Move
<1>10. CASE DoneReturned(d)
  <2> DEFINE own == Tolerated(rc[d])
             code == IF own = 0 THEN call[d].rc ELSE own
  <2>1. code \in Codes
    BY <1>0, ToleratedCode
  <2>0. /\ Returned(d, "done")
        /\ UNCHANGED <<ignore, job, left, passes, bench, j, q, begun>>
        /\ \/ code = 0 /\ AskBegin(d) /\ rc'[d] = 0
           \/ Leave(d, code)
    BY <1>0, <1>10 DEF DoneReturned, RunnerType
  <2>2. AskBegin(d) => ToCall(d, "begin")
    BY <1>0, AskFacts DEF AskBegin
  <2>3. MoveDone(d)
    BY <1>l, <2>0, <2>1, <2>2 DEF MoveDone
  <2> QED  BY <2>0, <2>3 DEF Move
<1> QED  BY <1>1, <1>2, <1>3, <1>4, <1>5, <1>6, <1>7, <1>8, <1>9, <1>10
         DEF RunnerStep

----------------------------------------------------------------------------
(* The keys of the operations. *)

Pairs == Nat \X Nat

KeyA(d) == KeyOf(d, GenA, i[d])
KeyB(d) == KeyOf(d, GenB, i[d])

(* The lasting keys of the operations of this batch that are complete. *)
Batched(d) == {KeyOf(d, GenA, k) : k \in i[d] - j[d] .. i[d] - 1}
Earlier(d) == IF bench[d] = "batch" THEN Batched(d) ELSE {}

(* The lasting keys of what done is called for. *)
Written(d) == IF bench[d] = "batch" THEN Batched(d) ELSE {KeyA(d)}

(* The operations of a batch, when one more is complete. *)
LEMMA OneMore ==
    ASSUME NEW m \in Nat, NEW n \in Nat
    PROVE  (m + 1) - (n + 1) .. (m + 1) - 1 = (m - n .. m - 1) \cup {m}
<1>1. (m + 1) - (n + 1) = m - n /\ (m + 1) - 1 = m
  OBVIOUS
<1>2. m - n .. m = (m - n .. m - 1) \cup {m}
  OBVIOUS
<1> QED  BY <1>1, <1>2

(* One more operation of a batch is complete. *)
LEMMA BatchGrows ==
    ASSUME RunnerType, NEW d \in Doers, UNCHANGED <<job, serial[d]>>,
           i'[d] = i[d] + 1, j'[d] = j[d] + 1
    PROVE  Batched(d)' = Batched(d) \cup {KeyA(d)}
<1>0. i[d] \in Nat /\ j[d] \in Nat
  BY DEF RunnerType
<1>1. \A k \in Int : KeyOf(d, GenA, k)' = KeyOf(d, GenA, k)
  BY DEF KeyOf
<1>2. (i[d] - j[d] .. i[d] - 1)' = (i[d] - j[d] .. i[d] - 1) \cup {i[d]}
  BY <1>0, OneMore
<1>3. Batched(d)' = {KeyOf(d, GenA, k) : k \in (i[d] - j[d] .. i[d] - 1)'}
  <2>1. (i[d] - j[d] .. i[d] - 1)' \subseteq Int
    BY <1>0, <1>2
  <2> QED  BY <1>1, <2>1 DEF Batched
<1> QED  BY <1>2, <1>3 DEF Batched, KeyA

(* Where the lasting keys are. *)
LEMMA WrittenSpace ==
    ASSUME RunnerInv, NEW d \in Doers, NEW k \in Written(d) \cup {KeyA(d)}
    PROVE  k[1] = job[d].space /\ k[2] \in 0 .. Count - 1 /\ k \in Pairs
<1>0. /\ RunnerType /\ job[d].space \in Nat /\ serial[d] \in Nat
      /\ i[d] \in Nat /\ j[d] \in Nat /\ RunnerOK(d)
      /\ Count \in Nat /\ Count > 0
  BY JobFacts, CallsAssumption DEF RunnerInv, RunnerType
<1>1. PICK n \in Int : k = KeyOf(d, GenA, n)
  BY <1>0 DEF Written, Batched, KeyA
<1>2. /\ k = <<job[d].space, (serial[d] + n) % Count>>
      /\ (serial[d] + n) % Count \in 0 .. Count - 1
  BY <1>0, <1>1 DEF KeyOf, GenA
<1> QED  BY <1>0, <1>2 DEF Pairs

(* How many there are. *)
LEMMA WrittenCount ==
    ASSUME RunnerInv, NEW d \in Doers, pc[d] = "done"
    PROVE  IsFiniteSet(Written(d))
           /\ Cardinality(Written(d)) \in 1 .. BatchLength
<1>0. /\ i[d] \in Nat /\ j[d] \in Nat /\ BatchLength \in Nat \ {0}
      /\ CountOK(d)
  BY RunnerAssumption DEF RunnerInv, RunnerType, RunnerOK
<1>1. CASE bench[d] # "batch"
  <2>1. Written(d) = {KeyA(d)}
    BY <1>1 DEF Written
  <2>2. IsFiniteSet({KeyA(d)}) /\ Cardinality({KeyA(d)}) = 1
    BY FS_Singleton
  <2> QED  BY <1>0, <2>1, <2>2
<1>2. CASE bench[d] = "batch"
  <2> DEFINE ops == i[d] - j[d] .. i[d] - 1
             keys == {KeyOf(d, GenA, k) : k \in ops}
             f == [k \in ops |-> KeyOf(d, GenA, k)]
  <2>1. j[d] \in 1 .. BatchLength
    BY <1>0, <1>2 DEF CountOK
  <2>2. IsFiniteSet(ops) /\ Cardinality(ops) = j[d]
    <3>1. i[d] - j[d] \in Int /\ i[d] - 1 \in Int /\ i[d] - j[d] <= i[d] - 1
      BY <1>0, <2>1
    <3>2. IsFiniteSet(ops) /\ Cardinality(ops) = i[d] - 1 - (i[d] - j[d]) + 1
      BY <3>1, FS_Interval
    <3> QED  BY <1>0, <3>2
  <2>3. Written(d) = keys
    BY <1>2 DEF Written, Batched
  <2>4. keys # {}
    <3>1. i[d] - 1 \in ops
      BY <1>0, <2>1
    <3> QED  BY <3>1
  <2>5. f \in Surjection(ops, keys)
    BY DEF Surjection
  <2> HIDE DEF ops, keys, f
  <2>6. IsFiniteSet(keys) /\ Cardinality(keys) <= j[d]
    BY <2>2, <2>5, FS_Surjection
  <2>7. Cardinality(keys) \in Nat /\ Cardinality(keys) # 0
    BY <2>4, <2>6, FS_CardinalityType, FS_EmptySet
  <2> QED  BY <1>0, <2>1, <2>3, <2>6, <2>7
<1> QED  BY <1>1, <1>2

(* The second keys of the operations of this batch that are complete, and  *)
(* of what done is called for.                                             *)
BatchedB(d) == {KeyOf(d, GenB, k) : k \in i[d] - j[d] .. i[d] - 1}
EarlierB(d) == IF bench[d] = "batch" THEN BatchedB(d) ELSE {}
WrittenB(d) == IF bench[d] = "batch" THEN BatchedB(d) ELSE {KeyB(d)}

(* The keys put and deleted after n calls of ia_quadruple. *)
PutsAfter(d, n) ==
    Earlier(d) \cup (IF n = 0 THEN {} ELSE IF n = 1 THEN {KeyB(d)}
                    ELSE IF n = 2 THEN {KeyA(d), KeyB(d)} ELSE {KeyA(d)})
DelsAfter(d, n) ==
    IF n = 0 THEN EarlierB(d) ELSE IF n \in {1, 2} THEN EarlierB(d) \ {KeyB(d)}
    ELSE EarlierB(d) \cup {KeyB(d)}

(* In which spaces the keys of the two generators are. *)
LEMMA KeySpace ==
    ASSUME RunnerInv, NEW d \in Doers, NEW n \in Int
    PROVE  /\ KeyOf(d, GenA, n) \in Pairs /\ KeyOf(d, GenB, n) \in Pairs
           /\ KeyOf(d, GenA, n)[1] = job[d].space
           /\ KeyOf(d, GenB, n)[1] = job[d].space + 1
<1>0. /\ job[d].space \in Nat /\ serial[d] \in Nat
      /\ Count \in Nat /\ Count > 0
  BY JobFacts, CallsAssumption DEF RunnerInv, RunnerType
<1>1. (serial[d] + n) % Count \in Nat
  BY <1>0
<1> QED  BY <1>0, <1>1 DEF KeyOf, GenA, GenB, Pairs

(* The keys of a benchmark, first ones and second ones. *)
LEMMA KeySets ==
    ASSUME RunnerInv, NEW d \in Doers
    PROVE  /\ KeyA(d) \in Pairs /\ KeyA(d)[1] = job[d].space
           /\ KeyB(d) \in Pairs /\ KeyB(d)[1] = job[d].space + 1
           /\ \A k \in Earlier(d) \cup Written(d) \cup Batched(d) :
                k \in Pairs /\ k[1] = job[d].space
           /\ \A k \in EarlierB(d) \cup WrittenB(d) \cup BatchedB(d) :
                k \in Pairs /\ k[1] = job[d].space + 1
<1>0. i[d] \in Int /\ j[d] \in Int
  BY DEF RunnerInv, RunnerType
<1>1. \A n \in Int :
        /\ KeyOf(d, GenA, n) \in Pairs /\ KeyOf(d, GenB, n) \in Pairs
        /\ KeyOf(d, GenA, n)[1] = job[d].space
        /\ KeyOf(d, GenB, n)[1] = job[d].space + 1
  BY KeySpace
<1>2. \A k \in Batched(d) : k \in Pairs /\ k[1] = job[d].space
  BY <1>0, <1>1 DEF Batched
<1>3. \A k \in BatchedB(d) : k \in Pairs /\ k[1] = job[d].space + 1
  BY <1>0, <1>1 DEF BatchedB
<1> QED  BY <1>0, <1>1, <1>2, <1>3
         DEF KeyA, KeyB, Earlier, Written, EarlierB, WrittenB

(* The key spaces of a benchmark are the doer's own. *)
LEMMA OwnSpaces ==
    ASSUME RunnerInv, NEW d \in Doers,
           bench[d] \in job[d].mask \/ pc[d] \in {"begin", "next", "done"}
    PROVE  /\ bench[d] \in Writes => job[d].space \in WriteSpaces(job[d])
           /\ bench[d] \in Quadruple =>
                job[d].space + 1 \in WriteSpaces(job[d])
<1>1. bench[d] \in job[d].mask
  BY DEF RunnerInv, RunnerOK, CountOK
<1> QED  BY <1>1 DEF WriteSpaces, Writes

(* One more operation of a batch is complete. *)
LEMMA BatchGrowsB ==
    ASSUME RunnerType, NEW d \in Doers, UNCHANGED <<job, serial[d]>>,
           i'[d] = i[d] + 1, j'[d] = j[d] + 1
    PROVE  BatchedB(d)' = BatchedB(d) \cup {KeyB(d)}
<1>0. i[d] \in Nat /\ j[d] \in Nat
  BY DEF RunnerType
<1>1. \A k \in Int : KeyOf(d, GenB, k)' = KeyOf(d, GenB, k)
  BY DEF KeyOf
<1>2. (i[d] - j[d] .. i[d] - 1)' = (i[d] - j[d] .. i[d] - 1) \cup {i[d]}
  BY <1>0, OneMore
<1>3. BatchedB(d)' = {KeyOf(d, GenB, k) : k \in (i[d] - j[d] .. i[d] - 1)'}
  <2>1. (i[d] - j[d] .. i[d] - 1)' \subseteq Int
    BY <1>0, <1>2
  <2> QED  BY <1>1, <2>1 DEF BatchedB
<1> QED  BY <1>2, <1>3 DEF BatchedB, KeyB

(* The keys of ia_quadruple, call by call. *)
LEMMA QuadrupleSets ==
    ASSUME RunnerInv, NEW d \in Doers
    PROVE  /\ KeyA(d) # KeyB(d)
           /\ PutsAfter(d, 1) = PutsAfter(d, 0) \cup {KeyB(d)}
           /\ DelsAfter(d, 1) = DelsAfter(d, 0) \ {KeyB(d)}
           /\ PutsAfter(d, 2) = PutsAfter(d, 1) \cup {KeyA(d)}
           /\ DelsAfter(d, 2) = DelsAfter(d, 1) \ {KeyA(d)}
           /\ PutsAfter(d, 3) = PutsAfter(d, 2) \ {KeyB(d)}
           /\ DelsAfter(d, 3) = DelsAfter(d, 2) \cup {KeyB(d)}
           /\ PutsAfter(d, 4) = PutsAfter(d, 3)
           /\ DelsAfter(d, 4) = DelsAfter(d, 3)
           /\ KeyB(d) \in PutsAfter(d, 2) /\ KeyB(d) \notin DelsAfter(d, 2)
           /\ KeyA(d) \in PutsAfter(d, 3) /\ KeyA(d) \notin DelsAfter(d, 3)
<1>0. job[d].space \in Nat
  BY JobFacts DEF RunnerInv, RunnerType
<1>1. /\ KeyA(d)[1] = job[d].space /\ KeyB(d)[1] = job[d].space + 1
      /\ \A k \in Earlier(d) : k[1] = job[d].space
      /\ \A k \in EarlierB(d) : k[1] = job[d].space + 1
  BY KeySets
<1>2. /\ KeyA(d) # KeyB(d) /\ KeyB(d) \notin Earlier(d)
      /\ KeyA(d) \notin EarlierB(d)
  BY <1>0, <1>1
<1> DEFINE P(n) == PutsAfter(d, n)
           D(n) == DelsAfter(d, n)
<1>3. /\ P(0) = Earlier(d) /\ P(1) = Earlier(d) \cup {KeyB(d)}
      /\ P(2) = Earlier(d) \cup {KeyA(d), KeyB(d)}
      /\ P(3) = Earlier(d) \cup {KeyA(d)} /\ P(4) = Earlier(d) \cup {KeyA(d)}
  BY DEF PutsAfter
<1>4. /\ D(0) = EarlierB(d) /\ D(1) = EarlierB(d) \ {KeyB(d)}
      /\ D(2) = EarlierB(d) \ {KeyB(d)}
      /\ D(3) = EarlierB(d) \cup {KeyB(d)}
      /\ D(4) = EarlierB(d) \cup {KeyB(d)}
  BY DEF DelsAfter
<1> HIDE DEF P, D
<1>5. /\ P(1) = P(0) \cup {KeyB(d)} /\ D(1) = D(0) \ {KeyB(d)}
      /\ P(2) = P(1) \cup {KeyA(d)} /\ D(2) = D(1) \ {KeyA(d)}
      /\ P(3) = P(2) \ {KeyB(d)} /\ D(3) = D(2) \cup {KeyB(d)}
      /\ P(4) = P(3) /\ D(4) = D(3)
      /\ KeyB(d) \in P(2) /\ KeyB(d) \notin D(2)
      /\ KeyA(d) \in P(3) /\ KeyA(d) \notin D(3)
  BY <1>2, <1>3, <1>4
<1> QED  BY <1>2, <1>5 DEF P, D
=============================================================================
