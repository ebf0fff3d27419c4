---------------------------- MODULE ArenaProofs ----------------------------
(***************************************************************************)
(* The run of ia.c is safe for any number of readers and writers, as long  *)
(* as neither is negative (the sum that sizes the barriers is then the     *)
(* number of threads) and the barriers are those of the system.            *)
(*                                                                         *)
(* The argument: the main thread takes part in both barriers, so where it  *)
(* is says in which of three phases everybody is (PhaseInv).  A barrier    *)
(* lets go exactly when all of 0 .. nth have come (BarrierInv, and lemma   *)
(* Released).  Behind the second one every doer has destroyed its          *)
(* histogram, or never enabled it and then has told so in "failed"         *)
(* (DoerInv), so that the final checkpoint counts nobody.                  *)
(***************************************************************************)
EXTENDS Arena, FiniteSetTheorems, TLAPS

(* The benchmarks for readers and for writers. *)
Rd == conf.benches \cap ReadOnly
Wr == conf.benches \ ReadOnly

Preparing == {"run", "spread_rd", "spread_wr", "here"}
Working == {"fulfil", "loop", "pass", "passed", "dispose", "fulfilled"}
WithContext == {"loop", "pass", "passed", "dispose"}
Closed == {"closing", "destroy", "uncount", "report"}   \* of the main thread

AtStart(p) == pc[p] = "start" \/ p \in waiting["start"]
AtFinish(p) == pc[p] = "finish" \/ p \in waiting["finish"]

(* ia_run has not begun, or was refused. *)
Idle == pc[0] = "run" \/ (pc[0] = "free" /\ ~reported)

(* The phases: before the first barrier, and behind the second. *)
Before == pc[0] \in Preparing \/ AtStart(0)
After == pc[0] \in Closed

(* Key spaces that n writers have used up. *)
UsedUp(n) ==
    IF Wr \cap Writing = {} THEN 0
    ELSE IF Wr \cap TwoKeySpaces = {} THEN n ELSE 2 * n

(* What ia_spread has given away, and what is left for the main thread. *)
SpreadInv ==
    /\ conf.rthr \in 0 .. MaxReaders /\ conf.wthr \in 0 .. MaxWriters
    /\ nth <= conf.rthr + conf.wthr
    /\ Idle => nth = 0
    /\ ~Idle => /\ Rd = {} => conf.rthr = 0
                /\ Wr = {} => conf.wthr = 0
                /\ set_rd = IF nth = 0 \/ conf.rthr = 0 THEN Rd ELSE {}
                /\ set_wr = IF nth <= conf.rthr THEN Wr ELSE {}
    /\ pc[0] = "spread_rd" => nth <= conf.rthr
    /\ pc[0] = "spread_wr" => nth >= conf.rthr
    /\ ~Idle /\ pc[0] \notin {"spread_rd", "spread_wr"} =>
         nth = conf.rthr + conf.wthr
    /\ key_space = IF nth <= conf.rthr THEN 0 ELSE UsedUp(nth - conf.rthr)

MaskInv ==
    /\ \A p \in Participants :
         /\ p > nth => mask[p] = {} /\ space[p] = 0
         /\ 0 < p /\ p <= nth /\ p <= conf.rthr => mask[p] = Rd /\ space[p] = 0
         /\ 0 < p /\ p <= nth /\ p > conf.rthr =>
              mask[p] = Wr /\ space[p] = UsedUp(p - conf.rthr)
    /\ space[0] = 0
    /\ mask[0] = IF Idle \/ pc[0] \in Preparing THEN {}
                 ELSE set_rd \cup set_wr

BarrierInv ==
    /\ waiting["start"] \cap waiting["finish"] = {}
    /\ \A p \in Participants :
         pc[p] = "blocked" <=> p \in waiting["start"] \cup waiting["finish"]
    /\ \A b \in Barriers :
         waiting[b] \subseteq 0 .. nth /\ canary[b] = Cardinality(waiting[b])

PhaseInv ==
    /\ \A p \in Participants :
         /\ p > nth => pc[p] = "none"
         /\ 0 < p /\ p <= nth =>
              /\ Before => AtStart(p)
              /\ After \/ pc[0] = "free" => pc[p] = "end"
              /\ ~Before /\ ~After /\ pc[0] # "free" =>
                   pc[p] \in Working \cup {"destroy", "uncount"} \/ AtFinish(p)
    /\ \/ Before \/ After \/ AtFinish(0)
       \/ pc[0] \in Working \cup {"free"}
    /\ 0 \in waiting["start"] => ~AtFinish(0)

(* A doer has come to the end of ia_doer_fulfil. *)
Through(p) ==
    \/ pc[p] \in {"dispose", "fulfilled", "destroy", "uncount", "closing",
                  "report", "free", "end"}
    \/ AtFinish(p)

(* A doer has been subtracted from doers_count. *)
Gone(p) ==
    \/ pc[p] \in {"uncount", "report", "free", "end"}
    \/ p # 0 /\ AtFinish(p)

(* A doer has not begun. *)
Fresh(p) ==
    \/ pc[p] \in Preparing \cup {"none", "fulfil"} \/ AtStart(p)
    \/ p = 0 /\ Idle

DoerOK(p) ==
    /\ pc[p] \in Working \cup {"destroy", "uncount"} => mask[p] # {}
    /\ Fresh(p) => /\ passes[p] = 0 /\ rc[p] = 0
                   /\ p \notin ctx /\ p \notin enabled
    /\ mask[p] = {} => /\ p \notin counted /\ passes[p] = 0 /\ rc[p] = 0
                       /\ p \notin ctx
    /\ pc[p] = "pass" /\ p \notin enabled => left[p] = mask[p]
    /\ pc[p] = "passed" => passes[p] >= NRepeat
    /\ Through(p) /\ mask[p] # {} /\ rc[p] = 0 => passes[p] >= NRepeat
    /\ passes[p] >= NRepeat /\ (~Gone(p) \/ pc[p] = "uncount") => p \in enabled
    /\ p \in ctx => pc[p] \in WithContext \/ rc[p] # 0
    /\ Gone(p) /\ pc[p] # "uncount" /\ p \in counted => rc[p] # 0
    /\ p # 0 /\ (Gone(p) \/ pc[p] = "destroy") /\ rc[p] # 0 => failed

DoerInv == \A p \in Participants : DoerOK(p)

Members == {p \in Participants : mask[p] # {} /\ ~Gone(p)}
Done == {p \in Participants : passes[p] >= NRepeat}

CountInv ==
    /\ doers_count = Cardinality(Members)
    /\ doers_done = Cardinality(Done)

TogetherInv ==
    conf.continuous_completing /\ (\E p \in Doing : Through(p)) =>
        (\A p \in Doing : passes[p] >= NRepeat) \/ (\E p \in Doing : rc[p] # 0)

EndInv ==
    /\ outcome # "fatal"
    /\ pc[0] \in {"destroy", "uncount", "report"} => rc[0] = 0
    /\ reported => pc[0] = "free" /\ ~failed /\ rc[0] = 0
    /\ driver = "closed" => pc[0] = "free"
    /\ failed => \E p \in Doing : rc[p] # 0

IInv ==
    /\ TypeOK /\ SpreadInv /\ MaskInv /\ BarrierInv /\ PhaseInv /\ DoerInv
    /\ CountInv /\ TogetherInv /\ EndInv

----------------------------------------------------------------------------
(* Lemmas on the model's operators. *)

(* The participants, and the threads up to n, are finite sets. *)
LEMMA ParticipantsFinite ==
    /\ IsFiniteSet(Participants)
    /\ Cardinality(Participants) = MaxReaders + MaxWriters + 1
    /\ 0 \in Participants
    /\ \A n \in Nat : IsFiniteSet(0 .. n) /\ Cardinality(0 .. n) = n + 1
<1>1. \A n \in Nat : IsFiniteSet(0 .. n) /\ Cardinality(0 .. n) = n + 1
  BY FS_Interval
<1> QED  BY <1>1, ArenaAssumption DEF Participants

(* A set of participants has at most that many. *)
LEMMA AtMostParticipants ==
    ASSUME NEW S \in SUBSET Participants
    PROVE  IsFiniteSet(S) /\ Cardinality(S) \in 0 .. Cardinality(Participants)
<1>1. IsFiniteSet(S) /\ Cardinality(S) <= Cardinality(Participants)
  BY ParticipantsFinite, FS_Subset
<1>2. Cardinality(S) \in Nat /\ Cardinality(Participants) \in Nat
  BY <1>1, ParticipantsFinite, FS_CardinalityType
<1> QED  BY <1>1, <1>2

(* A barrier whose threshold is reached lets everybody go at once: all    *)
(* threads that were spawned have come, and none is still to be spawned.  *)
LEMMA Released ==
    ASSUME TypeOK, SpreadInv, BarrierInv,
           NEW b \in Barriers, NEW p \in 0 .. nth, p \notin waiting[b],
           canary[b] + 1 = Threshold
    PROVE  waiting[b] \cup {p} = 0 .. nth /\ nth = conf.rthr + conf.wthr
<1> DEFINE W == waiting[b] \cup {p}
<1>1. nth \in Nat /\ conf.rthr \in Nat /\ conf.wthr \in Nat
      /\ nth <= conf.rthr + conf.wthr
  BY ArenaAssumption DEF TypeOK, SpreadInv, Participants
<1>2. waiting[b] \subseteq 0 .. nth /\ canary[b] = Cardinality(waiting[b])
  BY DEF BarrierInv
<1>3. IsFiniteSet(0 .. nth) /\ Cardinality(0 .. nth) = nth + 1
  BY <1>1, ParticipantsFinite
<1>4. IsFiniteSet(waiting[b])
  BY <1>2, <1>3, FS_Subset
<1>5. Cardinality(W) = Cardinality(waiting[b]) + 1 /\ IsFiniteSet(W)
  BY <1>4, FS_AddElement
<1>6. Cardinality(W) = conf.rthr + conf.wthr + 1
  BY <1>2, <1>5 DEF Threshold
<1>7. W \subseteq 0 .. nth
  BY <1>2
<1>8. Cardinality(W) <= Cardinality(0 .. nth)
  BY <1>3, <1>7, FS_Subset
<1>9. nth = conf.rthr + conf.wthr
  BY <1>1, <1>3, <1>6, <1>8
<1>10. W = 0 .. nth
  BY <1>1, <1>3, <1>6, <1>7, <1>9, FS_Subset
<1> QED  BY <1>9, <1>10

----------------------------------------------------------------------------
(* The initial states. *)

(* The invariant holds at the start. *)
LEMMA InitInv ==
    ASSUME MinThreads \in Nat, Init
    PROVE  IInv
<1> USE ArenaAssumption
<1>0. 0 \in Participants
  BY ParticipantsFinite
<1>1. TypeOK
  <2>1. Cardinality(Participants) \in Nat
    BY ParticipantsFinite, AtMostParticipants, FS_CardinalityType
  <2>2. conf \in [benches : SUBSET Benches, rthr : Int, wthr : Int,
                  continuous_completing : BOOLEAN]
    BY DEF Init
  <2>3. 0 \in 0 .. 2 * MaxWriters
    BY ArenaAssumption
  <2>4. nth \in Participants /\ key_space \in 0 .. 2 * MaxWriters
    BY <1>0, <2>3 DEF Init
  <2>5. /\ pc \in [Participants -> Labels]
        /\ mask \in [Participants -> SUBSET Benches]
        /\ space \in [Participants -> Nat]
        /\ rc \in [Participants -> {-1, 0, 1}]
        /\ left \in [Participants -> SUBSET Benches]
        /\ passes \in [Participants -> 0 .. NRepeat]
    BY DEF Init, Labels, NRepeat
  <2>6. /\ canary \in [Barriers -> Nat]
        /\ waiting \in [Barriers -> SUBSET Participants]
    BY DEF Init
  <2>7. /\ set_rd \subseteq Benches /\ set_wr \subseteq Benches
        /\ ctx \subseteq Participants /\ enabled \subseteq Participants
        /\ counted \subseteq Participants
        /\ doers_count \in 0 .. Cardinality(Participants)
        /\ doers_done \in 0 .. Cardinality(Participants)
        /\ driver \in {"open", "closed"} /\ outcome = "running"
    BY <2>1 DEF Init
  <2>8. failed \in BOOLEAN /\ reported \in BOOLEAN
    BY Zenon DEF Init
  <2> QED  BY <2>2, <2>4, <2>5, <2>6, <2>7, <2>8 DEF TypeOK
<1>2. SpreadInv
  <2>1. conf.rthr \in 0 .. MaxReaders /\ conf.wthr \in 0 .. MaxWriters
    BY DEF Init
  <2> QED  BY <1>0, <2>1 DEF Init, SpreadInv, Idle
<1>3. MaskInv
  BY <1>0 DEF Init, MaskInv, Idle, Participants
<1>4. Cardinality({}) = 0
  BY FS_EmptySet
<1>5. BarrierInv
  BY <1>0, <1>4 DEF Init, BarrierInv, Barriers
<1>6. PhaseInv
  BY <1>0 DEF Init, PhaseInv, Before, Preparing, AtFinish, Barriers,
              Participants
<1>7. DoerInv
  BY <1>0 DEF Init, DoerInv, DoerOK, Through, Gone, Fresh, AtStart, AtFinish, Working,
              Barriers, NRepeat
<1>8. CountInv
  <2>1. Members = {} /\ Done = {}
    BY DEF Init, Members, Done, NRepeat
  <2> QED  BY <1>4, <2>1 DEF Init, CountInv
<1>9. TogetherInv
  BY DEF Init, TogetherInv, Doing
<1>10. EndInv
  BY <1>0 DEF Init, EndInv
<1> QED  BY <1>1, <1>2, <1>3, <1>5, <1>6, <1>7, <1>8, <1>9, <1>10 DEF IInv

----------------------------------------------------------------------------
(* What the steps of the doers have in common. *)

DoerLabels == Working \cup {"destroy", "uncount"}

(* A step of participant p within a phase: from one label to another,     *)
(* away from the barriers.                                                *)
Moves(p, l) ==
    /\ pc' = [pc EXCEPT ![p] = l]
    /\ \/ p # 0 /\ pc[p] \in DoerLabels /\ l \in DoerLabels \cup {"finish"}
       \/ p = 0 /\ pc[0] \in Working /\ l \in Working \cup {"finish"}
       \/ p = 0 /\ pc[0] \in Closed /\ l \in Closed
    /\ UNCHANGED <<config, mask, space, barriers, driver, reported, outcome>>

(* Such a step leaves the phases, the barriers and the spread alone. *)
LEMMA MovesKeep ==
    ASSUME IInv, NEW p \in Participants, NEW l \in Labels, Moves(p, l)
    PROVE  /\ SpreadInv' /\ MaskInv' /\ BarrierInv' /\ PhaseInv'
           /\ \A q \in Participants : q # p =>
                /\ (Gone(q)' <=> Gone(q)) /\ (Through(q)' <=> Through(q))
                /\ (Fresh(q)' <=> Fresh(q)) /\ pc'[q] = pc[q]
           /\ p \notin waiting["start"] /\ p \notin waiting["finish"]
           /\ pc'[p] = l /\ pc[0] # "free" /\ pc'[0] # "free"
<1> USE DEF IInv
<1>0. 0 \in Participants /\ pc \in [Participants -> Labels] /\ nth \in Nat
  BY ParticipantsFinite, ArenaAssumption DEF TypeOK, Participants
<1>1. /\ UNCHANGED <<conf, set_rd, set_wr, nth, key_space, mask, space,
                     canary, waiting, reported>>
      /\ pc'[p] = l /\ \A q \in Participants : q # p => pc'[q] = pc[q]
  BY <1>0 DEF Moves, config, barriers
<1>2. p \notin waiting["start"] /\ p \notin waiting["finish"]
  BY <1>0 DEF BarrierInv, Moves, DoerLabels, Working, Closed
<1>3. /\ pc[0] \notin Preparing \cup {"start", "free"}
      /\ pc'[0] \notin Preparing \cup {"start", "free"}
      /\ 0 \notin waiting["start"]
  BY <1>0, <1>1, <1>2
  DEF Moves, PhaseInv, MaskInv, DoerLabels, Working, Closed, Before, After,
      AtStart, AtFinish, Preparing, Participants
<1>4. SpreadInv'
  BY <1>1, <1>3 DEF SpreadInv, Idle, Preparing, Rd, Wr, UsedUp
<1>5. MaskInv'
  BY <1>1, <1>3 DEF MaskInv, Idle, Preparing, Rd, Wr, UsedUp
<1>6. BarrierInv'
  BY <1>1, <1>2 DEF BarrierInv, Moves, DoerLabels, Working, Closed
<1>7. PhaseInv'
  BY <1>0, <1>1, <1>2, <1>3
  DEF PhaseInv, Moves, DoerLabels, Working, Closed, Before, After, AtStart,
      AtFinish, Preparing
<1>8. \A q \in Participants : q # p =>
          /\ (Gone(q)' <=> Gone(q)) /\ (Through(q)' <=> Through(q))
          /\ (Fresh(q)' <=> Fresh(q))
  BY <1>0, <1>1, <1>3 DEF Gone, Through, Fresh, AtStart, AtFinish, Idle, Preparing
<1> QED  BY <1>1, <1>2, <1>3, <1>4, <1>5, <1>6, <1>7, <1>8

(* A step that changes nobody else's doer. *)
Local(p) ==
    \A q \in Participants : q # p =>
        /\ rc'[q] = rc[q] /\ left'[q] = left[q] /\ passes'[q] = passes[q]
        /\ (q \in ctx' <=> q \in ctx) /\ (q \in enabled' <=> q \in enabled)
        /\ (q \in counted' <=> q \in counted)

(* All have completed a pass, or one has failed. *)
CompletedOrFailed ==
    (\A p \in Doing : passes[p] >= NRepeat) \/ (\E p \in Doing : rc[p] # 0)

(* What is left to show of a step of doer p: that its own state is as it  *)
(* should be, and that it stops only when it may.                         *)
LEMMA LocalKeeps ==
    ASSUME IInv, NEW p \in Participants, NEW l \in Labels, Moves(p, l),
           Local(p), DoerOK(p)', failed => failed',
           passes'[p] >= passes[p], rc[p] # 0 => rc'[p] # 0,
           failed' => failed \/ rc[p] # 0,
           conf.continuous_completing /\ Through(p)' =>
               Through(p) \/ CompletedOrFailed',
           p = 0 /\ l \in {"destroy", "uncount", "report"} => rc'[0] = 0,
           passes'[p] \in Int
    PROVE  /\ SpreadInv' /\ MaskInv' /\ BarrierInv' /\ PhaseInv' /\ DoerInv'
           /\ TogetherInv' /\ EndInv'
<1> USE DEF IInv
<1>0. 0 \in Participants /\ passes \in [Participants -> 0 .. NRepeat]
  BY ParticipantsFinite DEF TypeOK
<1>1. /\ SpreadInv' /\ MaskInv' /\ BarrierInv' /\ PhaseInv'
      /\ \A q \in Participants : q # p =>
           /\ (Gone(q)' <=> Gone(q)) /\ (Through(q)' <=> Through(q))
           /\ (Fresh(q)' <=> Fresh(q)) /\ pc'[q] = pc[q]
      /\ pc'[p] = l
  BY MovesKeep
<1>2. UNCHANGED <<conf, mask, reported, outcome, driver>> /\ Doing' = Doing
  BY DEF Moves, config, Doing
<1>3. DoerInv'
  <2> SUFFICES ASSUME NEW q \in Participants, q # p  PROVE DoerOK(q)'
    BY DEF DoerInv
  <2>1. DoerOK(q)
    BY DEF DoerInv
  <2> QED  BY <1>1, <1>2, <2>1 DEF DoerOK, Local
<1>4. \A q \in Doing : passes[q] >= NRepeat => passes'[q] >= NRepeat
  BY <1>0 DEF Local, Doing, NRepeat
<1>5. \A q \in Doing : rc[q] # 0 => rc'[q] # 0
  BY DEF Local, Doing
<1>6. CompletedOrFailed => CompletedOrFailed'
  BY <1>2, <1>4, <1>5 DEF CompletedOrFailed
<1>7. TogetherInv'
  <2>1. TogetherInv = (conf.continuous_completing
                       /\ (\E q \in Doing : Through(q)) => CompletedOrFailed)
    BY DEF TogetherInv, CompletedOrFailed
  <2> SUFFICES ASSUME conf.continuous_completing, NEW q \in Doing, Through(q)'
               PROVE  CompletedOrFailed'
    BY <1>2 DEF TogetherInv, CompletedOrFailed
  <2>2. q \in Participants
    BY DEF Doing
  <2>3. Through(q) \/ CompletedOrFailed'
    BY <1>1, <2>2
  <2> QED  BY <1>6, <2>1, <2>3
<1>8. rc[p] # 0 => p \in Doing
  BY DEF DoerInv, DoerOK, Doing
<1>9. pc[0] # "free" /\ pc'[0] # "free"
  BY MovesKeep
<1>10. EndInv'
  BY <1>0, <1>1, <1>2, <1>5, <1>8, <1>9 DEF EndInv, Local
<1> QED  BY <1>1, <1>3, <1>7, <1>10

(* The two counters do not move while nobody leaves or completes. *)
LEMMA CountsKept ==
    ASSUME IInv, UNCHANGED <<mask, passes, doers_count, doers_done>>,
           \A q \in Participants : Gone(q)' <=> Gone(q)
    PROVE  CountInv'
<1>1. Members' = Members /\ Done' = Done
  BY DEF Members, Done
<1> QED  BY <1>1 DEF IInv, CountInv

----------------------------------------------------------------------------
(* The steps of a doer. *)

(* thread_new keeps the invariant. *)
LEMMA ThreadNewInv ==
    ASSUME IInv, NEW p \in Participants, ThreadNew(p)
    PROVE  IInv'
<1> USE DEF IInv
<1>0. 0 \in Participants
  BY ParticipantsFinite
<1>t. TypeOK'
  BY DEF TypeOK, ThreadNew, Goto, config, barriers, ending, Labels
<1>1. PICK l \in {"loop", "fulfilled"} :
        /\ pc' = [pc EXCEPT ![p] = l]
        /\ l = "loop" => ctx' = ctx \cup {p} /\ rc' = rc
        /\ l = "fulfilled" => /\ ctx' = ctx \/ ctx' = ctx \cup {p}
                              /\ rc' = [rc EXCEPT ![p] = -1]
  BY DEF ThreadNew, Goto
<1>2. Moves(p, l)
  BY <1>1 DEF ThreadNew, Moves, DoerLabels, Working, config, barriers, ending
<1>3. /\ UNCHANGED <<conf, mask, waiting, passes, left, enabled, counted,
                     failed, doers_count, doers_done>>
      /\ pc'[p] = l /\ pc[p] = "fulfil"
      /\ l = "fulfilled" => rc'[p] = -1
  BY <1>1 DEF ThreadNew, TypeOK, config, barriers
<1>4. Local(p)
  BY <1>1, <1>3 DEF Local, TypeOK
<1>5. p \notin waiting["start"] /\ p \notin waiting["finish"]
  BY <1>2, MovesKeep DEF Labels
<1>6. mask[p] # {} /\ passes[p] = 0 /\ rc[p] = 0
  BY <1>3 DEF DoerInv, DoerOK, Fresh, Working
<1>7. DoerOK(p)'
  BY <1>0, <1>1, <1>3, <1>5, <1>6 DEF DoerOK, Fresh, Through, Gone, AtStart, AtFinish,
     Idle, Preparing, WithContext, NRepeat
<1>8. Through(p)' => CompletedOrFailed'
  BY <1>1, <1>3, <1>5, <1>6
  DEF Through, AtFinish, CompletedOrFailed, Doing
<1>9. \A q \in Participants : Gone(q)' <=> Gone(q)
  BY <1>1, <1>2, <1>3, <1>5, MovesKeep DEF Gone, AtFinish, Labels
<1>10. CountInv'
  BY <1>3, <1>9, CountsKept
<1>11. /\ SpreadInv' /\ MaskInv' /\ BarrierInv' /\ PhaseInv' /\ DoerInv'
       /\ TogetherInv' /\ EndInv'
  BY <1>1, <1>2, <1>3, <1>4, <1>6, <1>7, <1>8, LocalKeeps DEF Labels
<1> QED  BY <1>t, <1>10, <1>11

(* Leaving the loop is where doers_done and doers_count are compared: as  *)
(* long as nobody is through, doers_count counts all doers, so that       *)
(* doers_done, which counts the doers that completed, says all have.      *)
LEMMA LoopExit ==
    ASSUME IInv, NEW p \in Participants, pc[p] = "loop",
           conf.continuous_completing, ~(doers_done < doers_count)
    PROVE  CompletedOrFailed
<1> USE DEF IInv
<1>1. CASE \E q \in Doing : Through(q)
  BY <1>1 DEF TogetherInv, CompletedOrFailed
<1>2. CASE \A q \in Doing : ~Through(q)
  <2>1. \A q \in Doing : ~Gone(q)
    BY <1>2 DEF Through, Gone
  <2>2. Members = Doing
    BY <2>1 DEF Members, Doing
  <2>3. Done \subseteq Doing
    BY DEF Done, Doing, DoerInv, DoerOK, NRepeat, TypeOK
  <2>4. Doing \subseteq Participants
    BY DEF Doing
  <2>5. IsFiniteSet(Doing) /\ IsFiniteSet(Done)
        /\ Cardinality(Doing) \in Nat /\ Cardinality(Done) \in Nat
    BY <2>3, <2>4, AtMostParticipants, ParticipantsFinite, FS_CardinalityType
  <2>6. Cardinality(Done) >= Cardinality(Doing)
    BY <2>2, <2>5 DEF CountInv
  <2>7. Done = Doing
    BY <2>3, <2>5, <2>6, FS_Subset
  <2> QED  BY <2>7 DEF Done, CompletedOrFailed
<1> QED  BY <1>1, <1>2

(* The loop of ia_doer_fulfil keeps the invariant. *)
LEMMA LoopInv ==
    ASSUME IInv, NEW p \in Participants, Loop(p)
    PROVE  IInv'
<1> USE DEF IInv
<1>0. 0 \in Participants
  BY ParticipantsFinite
<1>t. TypeOK'
  BY DEF TypeOK, Loop, Goto, config, barriers, ending, Labels
<1>1. PICK l \in {"pass", "dispose"} :
        /\ pc' = [pc EXCEPT ![p] = l]
        /\ l = "pass" => left' = [left EXCEPT ![p] = mask[p]]
        /\ l = "dispose" =>
             /\ left' = left /\ ~(passes[p] < NRepeat)
             /\ conf.continuous_completing => ~(doers_done < doers_count)
  BY DEF Loop, Goto
<1>2. Moves(p, l)
  BY <1>1 DEF Loop, Moves, DoerLabels, Working, config, barriers, ending
<1>3. /\ UNCHANGED <<conf, mask, waiting, rc, passes, ctx, enabled, counted,
                     failed, doers_count, doers_done>>
      /\ pc'[p] = l /\ pc[p] = "loop"
      /\ l = "pass" => left'[p] = mask[p]
  BY <1>1 DEF Loop, TypeOK, config, barriers
<1>4. Local(p)
  BY <1>1, <1>3 DEF Local, TypeOK
<1>5. p \notin waiting["start"] /\ p \notin waiting["finish"]
  BY <1>2, MovesKeep DEF Labels
<1>6. passes[p] \in 0 .. NRepeat /\ DoerOK(p)
  BY DEF TypeOK, DoerInv
<1>7. DoerOK(p)'
  BY <1>0, <1>1, <1>3, <1>5, <1>6 DEF DoerOK, Fresh, Through, Gone, AtStart,
     AtFinish, Idle, Preparing, WithContext, Working, NRepeat
<1>8. conf.continuous_completing /\ Through(p)' => CompletedOrFailed'
  <2>1. CompletedOrFailed' = CompletedOrFailed
    BY <1>3 DEF CompletedOrFailed, Doing
  <2>2. Through(p)' => l = "dispose"
    BY <1>3, <1>5 DEF Through, AtFinish
  <2> QED  BY <1>1, <1>3, <2>1, <2>2, LoopExit
<1>9. \A q \in Participants : Gone(q)' <=> Gone(q)
  BY <1>1, <1>2, <1>3, <1>5, MovesKeep DEF Gone, AtFinish, Labels
<1>10. CountInv'
  BY <1>3, <1>9, CountsKept
<1>11. /\ SpreadInv' /\ MaskInv' /\ BarrierInv' /\ PhaseInv' /\ DoerInv'
       /\ TogetherInv' /\ EndInv'
  BY <1>1, <1>2, <1>3, <1>4, <1>6, <1>7, <1>8, LocalKeeps DEF Labels
<1> QED  BY <1>t, <1>10, <1>11

(* A benchmark keeps the invariant. *)
LEMMA RunBenchmarkInv ==
    ASSUME IInv, NEW p \in Participants, RunBenchmark(p)
    PROVE  IInv'
<1> USE DEF IInv
<1>0. 0 \in Participants
  BY ParticipantsFinite
<1>1. /\ UNCHANGED <<conf, pc, mask, waiting, passes, ctx, counted, failed,
                     doers_count, doers_done>>
      /\ pc[p] = "pass" /\ enabled' = enabled \cup {p}
      /\ pc' = [pc EXCEPT ![p] = "pass"]
      /\ rc' = rc \/ rc' = [rc EXCEPT ![p] = 1]
      /\ \E S \in SUBSET left[p] : left' = [left EXCEPT ![p] = S]
  <2>1. pc' = pc /\ pc[p] = "pass"
    BY DEF RunBenchmark
  <2>2. pc' = [pc EXCEPT ![p] = "pass"]
    BY <2>1 DEF TypeOK
  <2>3. \E S \in SUBSET left[p] : left' = [left EXCEPT ![p] = S]
    <3>1. /\ left[p] \ {FirstOf(left[p])} \in SUBSET left[p]
          /\ {} \in SUBSET left[p]
      OBVIOUS
    <3> QED  BY <3>1 DEF RunBenchmark
  <2> QED  BY <2>1, <2>2, <2>3 DEF RunBenchmark, config, barriers
<1>t. TypeOK'
  BY <1>1 DEF TypeOK, RunBenchmark, config, barriers, ending
<1>2. Moves(p, "pass")
  BY <1>1 DEF RunBenchmark, Moves, DoerLabels, Working, config, barriers, ending
<1>4. Local(p) /\ (rc[p] # 0 => rc'[p] # 0) /\ rc'[p] \in Int
  BY <1>1 DEF Local, TypeOK
<1>5. p \notin waiting["start"] /\ p \notin waiting["finish"]
  BY <1>2, MovesKeep DEF Labels
<1>6. passes[p] \in 0 .. NRepeat /\ DoerOK(p)
  BY DEF TypeOK, DoerInv
<1>7. DoerOK(p)'
  BY <1>0, <1>1, <1>5, <1>6 DEF DoerOK, Fresh, Through, Gone, AtStart,
     AtFinish, Idle, Preparing, WithContext, Working, NRepeat
<1>8. ~Through(p)'
  BY <1>1, <1>5 DEF Through, AtFinish
<1>9. \A q \in Participants : Gone(q)' <=> Gone(q)
  BY <1>1 DEF Gone, AtFinish
<1>10. CountInv'
  BY <1>1, <1>9, CountsKept
<1>11. /\ SpreadInv' /\ MaskInv' /\ BarrierInv' /\ PhaseInv' /\ DoerInv'
       /\ TogetherInv' /\ EndInv'
  BY <1>1, <1>2, <1>4, <1>6, <1>7, <1>8, LocalKeeps DEF Labels
<1> QED  BY <1>t, <1>10, <1>11

(* A pass that ends counts once, with whatever result. *)
LEMMA PassEndInv ==
    ASSUME IInv, NEW p \in Participants, PassEnd(p)
    PROVE  IInv'
<1> USE DEF IInv
<1>0. 0 \in Participants
  BY ParticipantsFinite
<1>1. /\ UNCHANGED <<conf, mask, waiting, rc, left, ctx, enabled, counted,
                     failed, doers_count>>
      /\ pc[p] = "pass" /\ left[p] = {}
      /\ pc' = [pc EXCEPT ![p] = "passed"] /\ pc'[p] = "passed"
      /\ passes' = [passes EXCEPT ![p] = 1]
      /\ passes[p] \in 0 .. 1 /\ passes'[p] = 1
      /\ doers_done' = IF passes[p] = 0 THEN doers_done + 1 ELSE doers_done
  BY DEF PassEnd, Goto, TypeOK, config, barriers, NRepeat
<1>2. Moves(p, "passed")
  BY <1>1 DEF PassEnd, Moves, DoerLabels, Working, config, barriers, ending
<1>4. Local(p)
  BY <1>1 DEF Local, TypeOK
<1>5. p \notin waiting["start"] /\ p \notin waiting["finish"]
  BY <1>2, MovesKeep DEF Labels
<1>6. DoerOK(p) /\ mask[p] # {}
  BY <1>1 DEF DoerInv, DoerOK, Working
<1>7. DoerOK(p)'
  BY <1>0, <1>1, <1>5, <1>6 DEF DoerOK, Fresh, Through, Gone, AtStart,
     AtFinish, Idle, Preparing, WithContext, Working, NRepeat
<1>8. ~Through(p)'
  BY <1>1, <1>5 DEF Through, AtFinish
<1>9. CountInv'
  <2>1. \A q \in Participants : Gone(q)' <=> Gone(q)
    BY <1>1, <1>2, <1>5, MovesKeep DEF Gone, AtFinish, Labels
  <2>2. Members' = Members
    BY <1>1, <2>1 DEF Members
  <2>3. Done' = Done \cup {p} /\ (p \in Done <=> passes[p] # 0)
    BY <1>1 DEF Done, NRepeat, TypeOK
  <2>4. IsFiniteSet(Done)
    BY AtMostParticipants DEF Done
  <2>5. Cardinality(Done') = IF p \in Done THEN Cardinality(Done)
                             ELSE Cardinality(Done) + 1
    BY <2>3, <2>4, FS_AddElement
  <2> QED  BY <1>1, <2>2, <2>3, <2>5 DEF CountInv
<1>t. TypeOK'
  <2>1. doers_done' \in 0 .. Cardinality(Participants)
    BY <1>9, AtMostParticipants DEF CountInv, Done
  <2> QED  BY <1>1, <2>1 DEF TypeOK, PassEnd, config, barriers, ending, Labels,
              NRepeat
<1>10. /\ SpreadInv' /\ MaskInv' /\ BarrierInv' /\ PhaseInv' /\ DoerInv'
       /\ TogetherInv' /\ EndInv'
  BY <1>1, <1>2, <1>4, <1>7, <1>8, LocalKeeps DEF Labels
<1> QED  BY <1>t, <1>9, <1>10

(* Who leaves because of a failure has been told of one. *)
LEMMA CheckFailedInv ==
    ASSUME IInv, NEW p \in Participants, CheckFailed(p)
    PROVE  IInv'
<1> USE DEF IInv
<1>0. 0 \in Participants
  BY ParticipantsFinite
<1>1. PICK l \in {"dispose", "loop"} :
        /\ pc' = [pc EXCEPT ![p] = l]
        /\ l = "dispose" => rc[p] # 0 \/ failed
  BY DEF CheckFailed, Goto
<1>t. TypeOK'
  BY <1>1 DEF TypeOK, CheckFailed, config, barriers, ending, Labels
<1>2. Moves(p, l)
  BY <1>1 DEF CheckFailed, Moves, DoerLabels, Working, config, barriers, ending
<1>3. /\ UNCHANGED <<conf, mask, waiting, rc, left, passes, ctx, enabled,
                     counted, failed, doers_count, doers_done>>
      /\ pc'[p] = l /\ pc[p] = "passed"
  BY <1>1 DEF CheckFailed, TypeOK, config, barriers
<1>4. Local(p)
  BY <1>3 DEF Local
<1>5. p \notin waiting["start"] /\ p \notin waiting["finish"]
  BY <1>2, MovesKeep DEF Labels
<1>6. DoerOK(p) /\ mask[p] # {} /\ passes[p] \in 0 .. NRepeat
  BY <1>3 DEF DoerInv, DoerOK, Working, TypeOK
<1>7. DoerOK(p)'
  BY <1>0, <1>1, <1>3, <1>5, <1>6 DEF DoerOK, Fresh, Through, Gone, AtStart,
     AtFinish, Idle, Preparing, WithContext, Working, NRepeat
<1>8. Through(p)' => CompletedOrFailed'
  <2>1. Through(p)' => rc[p] # 0 \/ failed
    BY <1>1, <1>3, <1>5 DEF Through, AtFinish
  <2>2. p \in Doing
    BY <1>6 DEF Doing
  <2> QED  BY <1>3, <2>1, <2>2 DEF EndInv, CompletedOrFailed, Doing
<1>9. \A q \in Participants : Gone(q)' <=> Gone(q)
  BY <1>1, <1>2, <1>3, <1>5, MovesKeep DEF Gone, AtFinish, Labels
<1>10. CountInv'
  BY <1>3, <1>9, CountsKept
<1>11. /\ SpreadInv' /\ MaskInv' /\ BarrierInv' /\ PhaseInv' /\ DoerInv'
       /\ TogetherInv' /\ EndInv'
  BY <1>1, <1>2, <1>3, <1>4, <1>6, <1>7, <1>8, LocalKeeps DEF Labels
<1> QED  BY <1>t, <1>10, <1>11

(* thread_dispose keeps the invariant. *)
LEMMA DisposeInv ==
    ASSUME IInv, NEW p \in Participants, Dispose(p)
    PROVE  IInv'
<1> USE DEF IInv
<1>0. 0 \in Participants
  BY ParticipantsFinite
<1>1. /\ UNCHANGED <<conf, mask, waiting, rc, left, passes, enabled, counted,
                     failed, doers_count, doers_done>>
      /\ pc' = [pc EXCEPT ![p] = "fulfilled"] /\ pc'[p] = "fulfilled"
      /\ pc[p] = "dispose" /\ ctx' = ctx \ {p}
  BY DEF Dispose, Goto, TypeOK, config, barriers
<1>t. TypeOK'
  BY <1>1 DEF TypeOK, Dispose, config, barriers, ending, Labels
<1>2. Moves(p, "fulfilled")
  BY <1>1 DEF Dispose, Moves, DoerLabels, Working, config, barriers, ending
<1>4. Local(p)
  BY <1>1 DEF Local
<1>5. p \notin waiting["start"] /\ p \notin waiting["finish"]
  BY <1>2, MovesKeep DEF Labels
<1>6. DoerOK(p) /\ passes[p] \in 0 .. NRepeat
  BY DEF DoerInv, TypeOK
<1>7. DoerOK(p)'
  BY <1>0, <1>1, <1>5, <1>6 DEF DoerOK, Fresh, Through, Gone, AtStart,
     AtFinish, Idle, Preparing, WithContext, Working, NRepeat
<1>8. Through(p)
  BY <1>1 DEF Through
<1>9. \A q \in Participants : Gone(q)' <=> Gone(q)
  BY <1>1, <1>2, <1>5, MovesKeep DEF Gone, AtFinish, Labels
<1>10. CountInv'
  BY <1>1, <1>9, CountsKept
<1>11. /\ SpreadInv' /\ MaskInv' /\ BarrierInv' /\ PhaseInv' /\ DoerInv'
       /\ TogetherInv' /\ EndInv'
  BY <1>1, <1>2, <1>4, <1>6, <1>7, <1>8, LocalKeeps DEF Labels
<1> QED  BY <1>t, <1>10, <1>11

(* A thread that failed says so before it is gone. *)
LEMMA FulfilledInv ==
    ASSUME IInv, NEW p \in Participants, Fulfilled(p)
    PROVE  IInv'
<1> USE DEF IInv
<1>0. 0 \in Participants
  BY ParticipantsFinite
<1>1. PICK l \in {"finish", "destroy"} :
        /\ pc' = [pc EXCEPT ![p] = l]
        /\ l = "finish" => p = 0 /\ failed' = failed
        /\ l = "destroy" => p # 0 /\ failed' = (failed \/ rc[p] # 0)
  BY DEF Fulfilled, Goto
<1>t. TypeOK'
  <2>1. failed' \in BOOLEAN
    BY <1>1 DEF TypeOK
  <2> QED  BY <1>1, <2>1 DEF TypeOK, Fulfilled, config, barriers, ending, Labels
<1>2. Moves(p, l)
  BY <1>1 DEF Fulfilled, Moves, DoerLabels, Working, config, barriers, ending
<1>3. /\ UNCHANGED <<conf, mask, waiting, rc, left, passes, ctx, enabled,
                     counted, doers_count, doers_done>>
      /\ pc'[p] = l /\ pc[p] = "fulfilled"
  BY <1>1 DEF Fulfilled, TypeOK, config, barriers
<1>4. Local(p)
  BY <1>3 DEF Local
<1>5. p \notin waiting["start"] /\ p \notin waiting["finish"]
  BY <1>2, MovesKeep DEF Labels
<1>6. DoerOK(p) /\ passes[p] \in 0 .. NRepeat
  BY DEF DoerInv, TypeOK
<1>7. DoerOK(p)'
  BY <1>0, <1>1, <1>3, <1>5, <1>6 DEF DoerOK, Fresh, Through, Gone, AtStart,
     AtFinish, Idle, Preparing, WithContext, Working, NRepeat
<1>8. Through(p)
  BY <1>3 DEF Through
<1>9. \A q \in Participants : Gone(q)' <=> Gone(q)
  BY <1>1, <1>2, <1>3, <1>5, MovesKeep DEF Gone, AtFinish, Labels
<1>10. CountInv'
  BY <1>3, <1>9, CountsKept
<1>12. (failed => failed') /\ (failed' => failed \/ rc[p] # 0)
  BY <1>1 DEF TypeOK
<1>11. /\ SpreadInv' /\ MaskInv' /\ BarrierInv' /\ PhaseInv' /\ DoerInv'
       /\ TogetherInv' /\ EndInv'
  BY <1>1, <1>2, <1>3, <1>4, <1>6, <1>7, <1>8, <1>12, LocalKeeps DEF Labels
<1> QED  BY <1>t, <1>10, <1>11

(* doers_count stops counting a doer, once. *)
LEMMA DoerDestroyInv ==
    ASSUME IInv, NEW p \in Participants, DoerDestroy(p)
    PROVE  IInv'
<1> USE DEF IInv
<1>0. 0 \in Participants
  BY ParticipantsFinite
<1>1. /\ UNCHANGED <<conf, mask, waiting, rc, left, passes, ctx, enabled,
                     counted, failed, doers_done>>
      /\ pc' = [pc EXCEPT ![p] = "uncount"] /\ pc'[p] = "uncount"
      /\ pc[p] = "destroy" /\ doers_count' = doers_count - 1
  BY DEF DoerDestroy, Goto, TypeOK, config, barriers
<1>2. Moves(p, "uncount")
  BY <1>1 DEF DoerDestroy, Moves, DoerLabels, Closed, config, barriers, ending
<1>4. Local(p)
  BY <1>1 DEF Local
<1>5. p \notin waiting["start"] /\ p \notin waiting["finish"]
  BY <1>2, MovesKeep DEF Labels
<1>6. DoerOK(p) /\ passes[p] \in 0 .. NRepeat /\ mask[p] # {}
  BY <1>1 DEF DoerInv, DoerOK, TypeOK
<1>7. DoerOK(p)'
  BY <1>0, <1>1, <1>5, <1>6 DEF DoerOK, Fresh, Through, Gone, AtStart,
     AtFinish, Idle, Preparing, WithContext, Working, NRepeat
<1>8. Through(p) /\ (p = 0 => rc'[0] = 0)
  BY <1>1 DEF Through, EndInv
<1>9. CountInv'
  <2>1. \A q \in Participants : q # p => (Gone(q)' <=> Gone(q))
    BY <1>2, MovesKeep DEF Labels
  <2>2. Gone(p)' /\ ~Gone(p)
    BY <1>1, <1>5 DEF Gone, AtFinish
  <2>3. Members' = Members \ {p} /\ p \in Members /\ Done' = Done
    BY <1>1, <1>6, <2>1, <2>2 DEF Members, Done
  <2>4. IsFiniteSet(Members)
    BY AtMostParticipants DEF Members
  <2>5. Cardinality(Members') = Cardinality(Members) - 1
    BY <2>3, <2>4, FS_RemoveElement
  <2> QED  BY <1>1, <2>3, <2>5 DEF CountInv
<1>t. TypeOK'
  <2>1. doers_count' \in 0 .. Cardinality(Participants)
    BY <1>9, AtMostParticipants DEF CountInv, Members
  <2> QED  BY <1>1, <2>1 DEF TypeOK, DoerDestroy, config, barriers, ending, Labels
<1>10. /\ SpreadInv' /\ MaskInv' /\ BarrierInv' /\ PhaseInv' /\ DoerInv'
       /\ TogetherInv' /\ EndInv'
  BY <1>1, <1>2, <1>4, <1>6, <1>7, <1>8, LocalKeeps DEF Labels
<1> QED  BY <1>t, <1>9, <1>10

(* Only a doer that failed before its first benchmark stays counted. *)
LEMMA HistogramDestroyInv ==
    ASSUME IInv, NEW p \in Participants, HistogramDestroy(p)
    PROVE  IInv'
<1> USE DEF IInv
<1>0. 0 \in Participants
  BY ParticipantsFinite
<1>1. PICK l \in {"report", "finish"} :
        /\ pc' = [pc EXCEPT ![p] = l] /\ (p = 0 <=> l = "report")
  BY DEF HistogramDestroy, Goto
<1>t. TypeOK'
  BY <1>1 DEF TypeOK, HistogramDestroy, config, barriers, ending, Labels
<1>2. Moves(p, l)
  BY <1>1 DEF HistogramDestroy, Moves, DoerLabels, Closed, config, barriers, ending
<1>3. /\ UNCHANGED <<conf, mask, waiting, rc, left, passes, ctx, failed,
                     doers_count, doers_done>>
      /\ pc'[p] = l /\ pc[p] = "uncount" /\ enabled' = enabled \ {p}
      /\ counted' = IF p \in enabled THEN counted \ {p} ELSE counted
  BY <1>1 DEF HistogramDestroy, TypeOK, config, barriers
<1>4. Local(p)
  BY <1>3 DEF Local
<1>5. p \notin waiting["start"] /\ p \notin waiting["finish"]
  BY <1>2, MovesKeep DEF Labels
<1>6. DoerOK(p) /\ passes[p] \in 0 .. NRepeat /\ mask[p] # {} /\ Through(p)
      /\ Gone(p)
  BY <1>3 DEF DoerInv, DoerOK, TypeOK, Through, Gone
<1>7. DoerOK(p)'
  <2>1. ~Fresh(p)'
    BY <1>0, <1>1, <1>3, <1>5 DEF Fresh, Idle, AtStart, Preparing
  <2>2. Gone(p)'
    BY <1>1, <1>3 DEF Gone, AtFinish
  <2>3. p \in counted' => rc[p] # 0
    BY <1>3, <1>6 DEF DoerOK, NRepeat
  <2>4. p \notin ctx' \/ rc'[p] # 0
    BY <1>3, <1>6 DEF DoerOK, WithContext
  <2>5. rc[p] = 0 => passes[p] >= NRepeat
    BY <1>6 DEF DoerOK
  <2>6. p # 0 /\ rc[p] # 0 => failed
    BY <1>6 DEF DoerOK
  <2> QED  BY <1>1, <1>3, <1>6, <2>1, <2>2, <2>3, <2>4, <2>5, <2>6
           DEF DoerOK, Working
<1>8. p = 0 => rc'[0] = 0
  BY <1>3 DEF EndInv
<1>9. \A q \in Participants : Gone(q)' <=> Gone(q)
  BY <1>1, <1>2, <1>3, <1>5, MovesKeep DEF Gone, AtFinish, Labels
<1>10. CountInv'
  BY <1>3, <1>9, CountsKept
<1>11. /\ SpreadInv' /\ MaskInv' /\ BarrierInv' /\ PhaseInv' /\ DoerInv'
       /\ TogetherInv' /\ EndInv'
  BY <1>1, <1>2, <1>3, <1>4, <1>6, <1>7, <1>8, LocalKeeps DEF Labels
<1> QED  BY <1>t, <1>10, <1>11

----------------------------------------------------------------------------
(* The steps of the main thread behind the second barrier. *)

(* The way out of the process changes nothing else. *)
LEMMA ExitInv ==
    ASSUME IInv, outcome' \in {"exit", "exit_failure"},
           UNCHANGED <<config, pc, mask, space, rc, left, passes, ctx, enabled,
                       counted, doers_count, doers_done, failed, barriers,
                       reported>>,
           driver' \in {"open", "closed"}, driver' = "closed" => pc[0] = "free"
    PROVE  IInv'
<1> USE DEF IInv
<1>1. UNCHANGED <<conf, set_rd, set_wr, nth, key_space, canary, waiting>>
  BY DEF config, barriers
<1>2. TypeOK'
  BY <1>1 DEF TypeOK
<1>3. SpreadInv' /\ MaskInv'
  BY <1>1 DEF SpreadInv, MaskInv, Idle, Rd, Wr, UsedUp
<1>4. BarrierInv' /\ PhaseInv'
  BY <1>1 DEF BarrierInv, PhaseInv, Before, After, AtStart, AtFinish
<1>5. \A q \in Participants :
        /\ Gone(q)' = Gone(q) /\ Through(q)' = Through(q) /\ Fresh(q)' = Fresh(q)
  BY <1>1 DEF Gone, Through, Fresh, AtStart, AtFinish, Idle
<1>6. DoerInv'
  BY <1>1, <1>5 DEF DoerInv, DoerOK
<1>7. CountInv'
  BY <1>1, <1>5, CountsKept
<1>8. TogetherInv' /\ EndInv'
  BY <1>1, <1>5 DEF TogetherInv, EndInv, Doing
<1> QED  BY <1>2, <1>3, <1>4, <1>6, <1>7, <1>8

(* The bailout of ia_run keeps the invariant. *)
LEMMA SetupBailoutInv ==
    ASSUME IInv, SetupBailout
    PROVE  IInv'
<1>1. driver \in {"open", "closed"} /\ (driver = "closed" => pc[0] = "free")
  BY DEF IInv, TypeOK, EndInv
<1> QED  BY <1>1, ExitInv DEF SetupBailout, Exit

(* ia_free keeps the invariant. *)
LEMMA FreeInv ==
    ASSUME IInv, Free
    PROVE  IInv'
BY ExitInv DEF Free

(* The main thread goes on only if its own benchmarks succeeded. *)
LEMMA ClosingInv ==
    ASSUME IInv, Closing
    PROVE  IInv'
<1> USE DEF IInv
<1>0. 0 \in Participants
  BY ParticipantsFinite
<1>1. CASE rc[0] # 0
  <2>1. driver \in {"open", "closed"} /\ (driver = "closed" => pc[0] = "free")
    BY DEF TypeOK, EndInv
  <2> QED  BY <1>1, <2>1, ExitInv DEF Closing, Exit
<1>2. CASE rc[0] = 0
  <2>1. PICK l \in {"report", "destroy"} :
          /\ pc' = [pc EXCEPT ![0] = l]
          /\ l = "report" <=> mask[0] = {}
    BY <1>2 DEF Closing, Goto
  <2>t. TypeOK'
    BY <1>0, <1>2, <2>1 DEF TypeOK, Closing, config, barriers, ending, Labels
  <2>2. Moves(0, l)
    BY <1>2, <2>1 DEF Closing, Moves, Closed, config, barriers, ending
  <2>3. /\ UNCHANGED <<conf, mask, waiting, rc, left, passes, ctx, enabled,
                       counted, failed, doers_count, doers_done>>
        /\ pc'[0] = l /\ pc[0] = "closing"
    BY <1>0, <2>1 DEF Closing, TypeOK, config, barriers
  <2>4. Local(0)
    BY <2>3 DEF Local
  <2>5. 0 \notin waiting["start"] /\ 0 \notin waiting["finish"]
    BY <1>0, <2>2, MovesKeep DEF Labels
  <2>6. DoerOK(0) /\ passes[0] \in 0 .. NRepeat
    BY <1>0 DEF DoerInv, TypeOK
  <2>7. DoerOK(0)'
    BY <1>2, <2>1, <2>3, <2>5, <2>6 DEF DoerOK, Fresh, Through, Gone, AtStart,
       AtFinish, Idle, Preparing, WithContext, Working, NRepeat
  <2>8. Through(0)
    BY <2>3 DEF Through
  <2>9. CountInv'
    <3>1. \A q \in Participants : q # 0 => (Gone(q)' <=> Gone(q))
      BY <1>0, <2>2, MovesKeep DEF Labels
    <3>2. mask[0] = {} \/ (~Gone(0) /\ ~Gone(0)')
      BY <2>1, <2>3, <2>5 DEF Gone
    <3>3. Members' = Members /\ Done' = Done
      BY <2>3, <3>1, <3>2 DEF Members, Done
    <3> QED  BY <2>3, <3>3 DEF CountInv
  <2>10. /\ SpreadInv' /\ MaskInv' /\ BarrierInv' /\ PhaseInv' /\ DoerInv'
         /\ TogetherInv' /\ EndInv'
    BY <1>0, <1>2, <2>1, <2>2, <2>3, <2>4, <2>6, <2>7, <2>8, LocalKeeps
    DEF Labels
  <2> QED  BY <2>t, <2>9, <2>10
<1> QED  BY <1>1, <1>2

(* Nobody is counted when the final checkpoint comes: a thread that still *)
(* is has told that it failed, and the main thread would not be here.     *)
LEMMA NobodyCounted ==
    ASSUME IInv, pc[0] = "report", ~failed
    PROVE  counted = {} /\ \A p \in Participants : rc[p] = 0
<1> USE DEF IInv
<1>0. 0 \in Participants /\ nth \in Nat
  BY ParticipantsFinite, ArenaAssumption DEF TypeOK, Participants
<1>1. rc[0] = 0 /\ 0 \notin counted
  BY <1>0 DEF EndInv, DoerInv, DoerOK, Gone
<1>2. ASSUME NEW p \in Participants, p # 0
      PROVE  rc[p] = 0 /\ p \notin counted
  <2>1. CASE p <= nth
    <3>1. 0 < p
      BY <1>2, ArenaAssumption DEF Participants
    <3>2. pc[p] = "end"
      BY <2>1, <3>1 DEF PhaseInv, After, Closed
    <3> QED  BY <1>2, <3>2 DEF DoerInv, DoerOK, Gone
  <2>2. CASE p > nth
    BY <2>2 DEF MaskInv, DoerInv, DoerOK
  <2> QED  BY <1>0, <2>1, <2>2, ArenaAssumption DEF Participants
<1> QED  BY <1>1, <1>2 DEF TypeOK

(* The report keeps the invariant. *)
LEMMA ReportInv ==
    ASSUME IInv, Report
    PROVE  IInv'
<1> USE DEF IInv
<1>0. 0 \in Participants /\ driver \in {"open", "closed"}
      /\ (driver = "closed" => pc[0] = "free")
  BY ParticipantsFinite DEF TypeOK, EndInv
<1>1. CASE failed
  BY <1>0, <1>1, ExitInv DEF Report, Exit
<1>2. CASE ~failed
  <2>1. Cardinality(counted) = 0 /\ \A p \in Participants : rc[p] = 0
    BY <1>2, NobodyCounted, FS_EmptySet DEF Report
  <2>2. reported' = TRUE /\ pc' = [pc EXCEPT ![0] = "free"] /\ outcome' = outcome
    BY <1>2, <2>1 DEF Report, Goto
  <2>3. UNCHANGED <<conf, set_rd, set_wr, nth, key_space, mask, space, rc, left,
                    passes, ctx, enabled, counted, doers_count, doers_done,
                    failed, canary, waiting, driver>>
    BY DEF Report, config, barriers
  <2>4. /\ pc[0] = "report" /\ pc'[0] = "free"
        /\ \A p \in Participants : p # 0 => pc'[p] = pc[p]
    BY <1>0, <2>2 DEF Report, TypeOK
  <2>5. 0 \notin waiting["start"] /\ 0 \notin waiting["finish"]
    BY <1>0, <2>4 DEF BarrierInv
  <2>6. reported'
    BY <2>2
  <2>t. TypeOK'
    <3>1. reported' \in BOOLEAN
      BY <2>2
    <3> QED  BY <1>0, <2>2, <2>3, <3>1 DEF TypeOK, Labels
  <2>7. SpreadInv'
    BY <2>3, <2>4, <2>6 DEF SpreadInv, Idle, Rd, Wr, UsedUp
  <2>8. MaskInv'
    BY <2>3, <2>4, <2>6 DEF MaskInv, Idle, Rd, Wr, UsedUp, Preparing
  <2>9. BarrierInv'
    BY <1>0, <2>3, <2>4, <2>5 DEF BarrierInv
  <2>10. PhaseInv'
    BY <1>0, <2>3, <2>4, <2>5
    DEF PhaseInv, Before, After, Closed, AtStart, AtFinish, Preparing
  <2>11. \A p \in Participants :
           /\ (Gone(p)' <=> Gone(p)) /\ (Through(p)' <=> Through(p))
           /\ (Fresh(p)' <=> Fresh(p))
    BY <1>0, <2>3, <2>4, <2>5, <2>6
    DEF Gone, Through, Fresh, AtStart, AtFinish, Idle, Preparing
  <2>12. DoerInv'
    <3> SUFFICES ASSUME NEW p \in Participants  PROVE DoerOK(p)'
      BY DEF DoerInv
    <3>1. DoerOK(p)
      BY DEF DoerInv
    <3>2. p = 0 => Gone(p)
      BY <2>4 DEF Gone
    <3> QED  BY <2>3, <2>4, <2>11, <3>1, <3>2 DEF DoerOK, WithContext, Working
  <2>13. CountInv'
    BY <2>3, <2>11, CountsKept
  <2>14. TogetherInv'
    BY <2>3, <2>11 DEF TogetherInv, Doing
  <2>15. EndInv'
    BY <1>0, <1>2, <2>1, <2>2, <2>3, <2>4 DEF EndInv
  <2> QED  BY <2>t, <2>7, <2>8, <2>9, <2>10, <2>12, <2>13, <2>14, <2>15
<1> QED  BY <1>1, <1>2

----------------------------------------------------------------------------
(* The barriers. *)

(* What waiting at a barrier changes, and what it leaves alone. *)
LEMMA WaitFrame ==
    ASSUME IInv, NEW p \in Participants, NEW b \in Barriers, BarrierWait(p, b)
    PROVE  /\ UNCHANGED <<conf, set_rd, set_wr, nth, key_space, mask, space, rc,
                          left, passes, ctx, enabled, counted, doers_count,
                          doers_done, failed, driver, reported, outcome>>
           /\ 0 \in Participants /\ nth \in Nat /\ p \in 0 .. nth
           /\ p \notin waiting["start"] /\ p \notin waiting["finish"]
           /\ pc[p] = b /\ (b = "start" \/ b = "finish")
           /\ 0 .. nth \subseteq Participants
<1>1. 0 \in Participants /\ nth \in Participants /\ nth \in Nat
      /\ Participants \subseteq Nat
  BY ParticipantsFinite, ArenaAssumption DEF IInv, TypeOK, Participants
<1>2. pc[p] = b /\ (b = "start" \/ b = "finish")
  BY DEF BarrierWait, Barriers
<1>3. p \in 0 .. nth
  BY <1>1, <1>2 DEF IInv, PhaseInv
<1>4. 0 .. nth \subseteq Participants
  BY <1>1, ArenaAssumption DEF Participants
<1>5. p \notin waiting["start"] /\ p \notin waiting["finish"]
  BY <1>2 DEF IInv, BarrierInv
<1> QED  BY <1>1, <1>2, <1>3, <1>4, <1>5 DEF BarrierWait, config, ending

(* Not the last to come: blocked, but at the same barrier as before. *)
LEMMA BlockInv ==
    ASSUME IInv, NEW p \in Participants, NEW b \in Barriers, BarrierWait(p, b),
           canary[b] + 1 # Threshold
    PROVE  IInv'
<1> USE DEF IInv
<1>1. /\ UNCHANGED <<conf, set_rd, set_wr, nth, key_space, mask, space, rc,
                     left, passes, ctx, enabled, counted, doers_count,
                     doers_done, failed, driver, reported, outcome>>
      /\ 0 \in Participants /\ nth \in Nat /\ p \in 0 .. nth
      /\ p \notin waiting["start"] /\ p \notin waiting["finish"]
      /\ pc[p] = b /\ (b = "start" \/ b = "finish")
  BY WaitFrame
<1>2. /\ canary' = [canary EXCEPT ![b] = @ + 1]
      /\ waiting' = [waiting EXCEPT ![b] = @ \cup {p}]
      /\ pc' = [pc EXCEPT ![p] = "blocked"]
  BY DEF BarrierWait, Goto
<1>3. /\ pc'[p] = "blocked"
      /\ \A q \in Participants : q # p => pc'[q] = pc[q]
      /\ waiting'[b] = waiting[b] \cup {p} /\ canary'[b] = canary[b] + 1
      /\ \A c \in Barriers : c # b => waiting'[c] = waiting[c]
                                      /\ canary'[c] = canary[c]
      /\ "start" \in Barriers /\ "finish" \in Barriers
  BY <1>2 DEF TypeOK, Barriers
<1>4. \A q \in Participants :
        (AtStart(q)' <=> AtStart(q)) /\ (AtFinish(q)' <=> AtFinish(q))
  BY <1>1, <1>3 DEF AtStart, AtFinish
<1>t. TypeOK'
  BY <1>1, <1>2 DEF TypeOK, Labels
<1>5. SpreadInv'
  BY <1>1, <1>3 DEF SpreadInv, Idle, Rd, Wr, UsedUp
<1>6. MaskInv'
  BY <1>1, <1>3 DEF MaskInv, Idle, Rd, Wr, UsedUp, Preparing
<1>7. BarrierInv'
  <2>1. waiting[b] \subseteq 0 .. nth /\ canary[b] = Cardinality(waiting[b])
    BY DEF BarrierInv
  <2>2. IsFiniteSet(waiting[b])
    BY AtMostParticipants DEF TypeOK
  <2>3. Cardinality(waiting'[b]) = canary'[b]
    <3>1. p \notin waiting[b]
      BY <1>1
    <3>2. Cardinality(waiting[b] \cup {p}) = Cardinality(waiting[b]) + 1
      BY <2>2, <3>1, FS_AddElement
    <3> QED  BY <1>3, <2>1, <3>2
  <2>4. \A q \in Participants :
          pc'[q] = "blocked" <=> q \in waiting'["start"] \cup waiting'["finish"]
    BY <1>1, <1>3 DEF BarrierInv
  <2>5. waiting'["start"] \cap waiting'["finish"] = {}
    BY <1>1, <1>3 DEF BarrierInv
  <2>6. \A c \in Barriers :
          waiting'[c] \subseteq 0 .. nth' /\ canary'[c] = Cardinality(waiting'[c])
    <3>1. waiting'[b] \subseteq 0 .. nth' /\ canary'[b] = Cardinality(waiting'[b])
      BY <1>1, <1>3, <2>1, <2>3
    <3>2. \A c \in Barriers : c # b =>
            /\ waiting'[c] \subseteq 0 .. nth'
            /\ canary'[c] = Cardinality(waiting'[c])
      BY <1>1, <1>3 DEF BarrierInv
    <3> QED  BY <3>1, <3>2
  <2> QED  BY <2>4, <2>5, <2>6 DEF BarrierInv
<1>8. (Before' <=> Before) /\ (After' <=> After)
  BY <1>1, <1>3, <1>4 DEF Before, After, Preparing, Closed
<1>9. PhaseInv'
  BY <1>1, <1>3, <1>4, <1>8 DEF PhaseInv, Working, AtStart, AtFinish
<1>10. \A q \in Participants :
         /\ (Gone(q)' <=> Gone(q)) /\ (Through(q)' <=> Through(q))
         /\ (Fresh(q)' <=> Fresh(q))
  BY <1>1, <1>3, <1>4 DEF Gone, Through, Fresh, Idle, Preparing
<1>11. DoerInv'
  <2> SUFFICES ASSUME NEW q \in Participants  PROVE DoerOK(q)'
    BY DEF DoerInv
  <2>1. DoerOK(q)
    BY DEF DoerInv
  <2> QED  BY <1>1, <1>3, <1>10, <2>1 DEF DoerOK, Working, WithContext
<1>12. CountInv'
  BY <1>1, <1>10, CountsKept
<1>13. TogetherInv'
  BY <1>1, <1>10 DEF TogetherInv, Doing
<1>14. EndInv'
  BY <1>1, <1>3 DEF EndInv, Doing
<1> QED  BY <1>t, <1>5, <1>6, <1>7, <1>9, <1>11, <1>12, <1>13, <1>14

(* The first barrier opens: everybody is at it. *)
LEMMA StartInv ==
    ASSUME IInv, NEW p \in Participants, BarrierWait(p, "start"),
           canary["start"] + 1 = Threshold
    PROVE  IInv'
<1> USE DEF IInv
<1>0. "start" \in Barriers /\ "finish" \in Barriers
  BY DEF Barriers
<1>1. /\ UNCHANGED <<conf, set_rd, set_wr, nth, key_space, mask, space, rc,
                     left, passes, ctx, enabled, counted, doers_count,
                     doers_done, failed, driver, reported, outcome>>
      /\ 0 \in Participants /\ nth \in Nat /\ p \in 0 .. nth
      /\ p \notin waiting["start"] /\ p \notin waiting["finish"]
      /\ pc[p] = "start" /\ 0 .. nth \subseteq Participants
  BY <1>0, WaitFrame
<1>2. waiting["start"] \cup {p} = 0 .. nth /\ nth = conf.rthr + conf.wthr
  BY <1>0, <1>1, Released
<1>3. waiting["finish"] = {}
  BY <1>1, <1>2, <1>0 DEF BarrierInv
<1>4. /\ canary' = [canary EXCEPT !["start"] = 0]
      /\ waiting' = [waiting EXCEPT !["start"] = {}]
      /\ pc' = [q \in Participants |->
                  IF q \in 0 .. nth THEN Beyond("start", q) ELSE pc[q]]
  BY <1>2 DEF BarrierWait
<1>5. /\ waiting'["start"] = {} /\ waiting'["finish"] = {}
      /\ canary'["start"] = 0 /\ canary'["finish"] = canary["finish"]
      /\ \A q \in Participants :
           /\ q > nth => pc'[q] = "none" /\ mask[q] = {}
           /\ q <= nth => pc'[q] = IF mask[q] = {} THEN "finish" ELSE "fulfil"
  <2>1. \A q \in Participants : q > nth => pc[q] = "none" /\ mask[q] = {}
    BY DEF PhaseInv, MaskInv
  <2>2. Participants \subseteq Nat
    BY ArenaAssumption DEF Participants
  <2> QED  BY <1>0, <1>1, <1>3, <1>4, <2>1, <2>2 DEF TypeOK, Beyond
<1>6. \A q \in Participants : q <= nth => AtStart(q)
  BY <1>1, <1>2, ArenaAssumption DEF AtStart, Participants
<1>7. \A q \in Participants : q > nth => pc[q] = "none"
  BY DEF PhaseInv
<1>8. \A q \in Participants : q \in Nat /\ (q <= nth \/ q > nth)
  BY <1>1, ArenaAssumption DEF Participants
<1>9. pc[0] \in {"start", "blocked"} /\ pc'[0] \in {"finish", "fulfil"}
  BY <1>0, <1>1, <1>5, <1>6, <1>8 DEF AtStart, BarrierInv
<1>t. TypeOK'
  <2>1. pc' \in [Participants -> Labels]
    BY <1>4, <1>5, <1>8, <1>1 DEF Labels
  <2> QED  BY <1>1, <1>4, <2>1 DEF TypeOK
<1>10. SpreadInv'
  BY <1>1, <1>9 DEF SpreadInv, Idle, Rd, Wr, UsedUp
<1>11. MaskInv'
  BY <1>1, <1>9 DEF MaskInv, Idle, Rd, Wr, UsedUp, Preparing
<1>12. BarrierInv'
  <2>1. \A q \in Participants : pc'[q] # "blocked"
    BY <1>1, <1>5, <1>8
  <2>2. Cardinality({}) = 0
    BY FS_EmptySet
  <2>3. canary["finish"] = 0
    BY <1>0, <1>3, <2>2 DEF BarrierInv
  <2> QED  BY <1>1, <1>5, <2>1, <2>2, <2>3 DEF BarrierInv, Barriers
<1>13. PhaseInv'
  BY <1>1, <1>5, <1>8, <1>9 DEF PhaseInv, Before, After, AtStart, AtFinish,
     Preparing, Closed, Working
<1>14. DoerInv'
  <2> SUFFICES ASSUME NEW q \in Participants  PROVE DoerOK(q)'
    BY DEF DoerInv
  <2>1. DoerOK(q)
    BY DEF DoerInv
  <2>2. Fresh(q)
    BY <1>1, <1>6, <1>7, <1>8 DEF Fresh
  <2>3. pc'[q] \in {"none", "finish", "fulfil"} /\ q \notin waiting'["finish"]
        /\ (pc'[q] = "fulfil" => mask[q] # {})
        /\ (pc'[q] = "finish" => mask[q] = {})
    BY <1>1, <1>5, <1>8
  <2> QED  BY <1>1, <2>1, <2>2, <2>3 DEF DoerOK, Working, WithContext, Gone,
           Through, AtFinish, NRepeat
<1>15. CountInv'
  <2>1. \A q \in Participants : mask[q] # {} => ~Gone(q) /\ ~Gone(q)'
    BY <1>1, <1>3, <1>5, <1>6, <1>7, <1>8, <1>0
    DEF Gone, AtFinish, AtStart, BarrierInv
  <2>2. Members' = Members /\ Done' = Done
    BY <1>1, <2>1 DEF Members, Done
  <2> QED  BY <1>1, <2>2 DEF CountInv
<1>16. TogetherInv'
  <2>1. \A q \in Doing' : ~Through(q)'
    BY <1>1, <1>5, <1>8 DEF Doing, Through, AtFinish
  <2> QED  BY <2>1 DEF TogetherInv
<1>17. EndInv'
  BY <1>1, <1>9 DEF EndInv, Doing
<1> QED  BY <1>t, <1>10, <1>11, <1>12, <1>13, <1>14, <1>15, <1>16, <1>17

(* The second barrier opens: everybody is at it, threads without a doer. *)
LEMMA FinishInv ==
    ASSUME IInv, NEW p \in Participants, BarrierWait(p, "finish"),
           canary["finish"] + 1 = Threshold
    PROVE  IInv'
<1> USE DEF IInv
<1>0. "start" \in Barriers /\ "finish" \in Barriers
  BY DEF Barriers
<1>1. /\ UNCHANGED <<conf, set_rd, set_wr, nth, key_space, mask, space, rc,
                     left, passes, ctx, enabled, counted, doers_count,
                     doers_done, failed, driver, reported, outcome>>
      /\ 0 \in Participants /\ nth \in Nat /\ p \in 0 .. nth
      /\ p \notin waiting["start"] /\ p \notin waiting["finish"]
      /\ pc[p] = "finish" /\ 0 .. nth \subseteq Participants
  BY <1>0, WaitFrame
<1>2. waiting["finish"] \cup {p} = 0 .. nth /\ nth = conf.rthr + conf.wthr
  BY <1>0, <1>1, Released
<1>3. waiting["start"] = {}
  BY <1>1, <1>2, <1>0 DEF BarrierInv
<1>4. /\ canary' = [canary EXCEPT !["finish"] = 0]
      /\ waiting' = [waiting EXCEPT !["finish"] = {}]
      /\ pc' = [q \in Participants |->
                  IF q \in 0 .. nth THEN Beyond("finish", q) ELSE pc[q]]
  BY <1>2 DEF BarrierWait
<1>5. /\ waiting'["start"] = {} /\ waiting'["finish"] = {}
      /\ canary'["finish"] = 0 /\ canary'["start"] = canary["start"]
      /\ \A q \in Participants :
           /\ q > nth => pc'[q] = "none" /\ mask[q] = {}
           /\ q <= nth => pc'[q] = IF q = 0 THEN "closing" ELSE "end"
  <2>1. \A q \in Participants : q > nth => pc[q] = "none" /\ mask[q] = {}
    BY DEF PhaseInv, MaskInv
  <2>2. Participants \subseteq Nat
    BY ArenaAssumption DEF Participants
  <2> QED  BY <1>0, <1>1, <1>3, <1>4, <2>1, <2>2 DEF TypeOK, Beyond
<1>6. \A q \in Participants : q <= nth =>
        AtFinish(q) /\ pc[q] \in {"finish", "blocked"} /\ q \notin waiting["start"]
  BY <1>0, <1>1, <1>2, <1>3, ArenaAssumption DEF AtFinish, Participants, BarrierInv
<1>7. \A q \in Participants : q > nth => pc[q] = "none"
  BY DEF PhaseInv
<1>8. \A q \in Participants : q \in Nat /\ (q <= nth \/ q > nth)
  BY <1>1, ArenaAssumption DEF Participants
<1>9. pc[0] \in {"finish", "blocked"} /\ pc'[0] = "closing"
  BY <1>1, <1>5, <1>6, <1>8
<1>t. TypeOK'
  <2>1. pc' \in [Participants -> Labels]
    BY <1>4, <1>5, <1>8, <1>1 DEF Labels
  <2> QED  BY <1>1, <1>4, <2>1 DEF TypeOK
<1>10. SpreadInv'
  BY <1>1, <1>9 DEF SpreadInv, Idle, Rd, Wr, UsedUp
<1>11. MaskInv'
  BY <1>1, <1>9 DEF MaskInv, Idle, Rd, Wr, UsedUp, Preparing
<1>12. BarrierInv'
  <2>1. \A q \in Participants : pc'[q] # "blocked"
    BY <1>1, <1>5, <1>8
  <2>2. Cardinality({}) = 0
    BY FS_EmptySet
  <2>3. canary["start"] = 0
    BY <1>0, <1>3, <2>2 DEF BarrierInv
  <2> QED  BY <1>1, <1>5, <2>1, <2>2, <2>3 DEF BarrierInv, Barriers
<1>13. PhaseInv'
  BY <1>1, <1>5, <1>8, <1>9 DEF PhaseInv, Before, After, AtStart, AtFinish,
     Preparing, Closed, Working
<1>14. \A q \in Participants :
         /\ (Gone(q)' <=> Gone(q)) /\ (Through(q)' <=> Through(q))
         /\ ~Fresh(q)' \/ Fresh(q)
  <2> SUFFICES ASSUME NEW q \in Participants
               PROVE  /\ (Gone(q)' <=> Gone(q)) /\ (Through(q)' <=> Through(q))
                      /\ ~Fresh(q)' \/ Fresh(q)
    OBVIOUS
  <2>1. CASE q > nth
    BY <1>1, <1>5, <1>7, <1>8, <2>1, <1>2
    DEF Gone, Through, Fresh, AtStart, AtFinish, Idle, Preparing
  <2>2. CASE q <= nth
    BY <1>1, <1>5, <1>6, <1>9, <2>2
    DEF Gone, Through, Fresh, AtStart, AtFinish, Idle, Preparing
  <2> QED  BY <1>1, <1>8, <2>1, <2>2
<1>15. DoerInv'
  <2> SUFFICES ASSUME NEW q \in Participants  PROVE DoerOK(q)'
    BY DEF DoerInv
  <2>1. DoerOK(q)
    BY DEF DoerInv
  <2>2. pc'[q] \in {"none", "closing", "end"}
        /\ pc[q] \in {"none", "finish", "blocked"}
    BY <1>1, <1>5, <1>6, <1>7, <1>8
  <2> QED  BY <1>1, <1>14, <2>1, <2>2 DEF DoerOK, Working, WithContext
<1>16. CountInv'
  BY <1>1, <1>14, CountsKept
<1>17. TogetherInv'
  BY <1>1, <1>14 DEF TogetherInv, Doing
<1>18. EndInv'
  BY <1>1, <1>9 DEF EndInv, Doing
<1> QED  BY <1>t, <1>10, <1>11, <1>12, <1>13, <1>15, <1>16, <1>17, <1>18

(* Both barriers keep the invariant. *)
LEMMA BarrierWaitInv ==
    ASSUME IInv, NEW p \in Participants, NEW b \in Barriers, BarrierWait(p, b)
    PROVE  IInv'
BY BlockInv, StartInv, FinishInv DEF Barriers

----------------------------------------------------------------------------
(* The steps of the main thread before the first barrier. *)

(* Nobody has begun while the main thread prepares. *)
LEMMA PreparingFacts ==
    ASSUME IInv, pc[0] \in Preparing
    PROVE  /\ \A q \in Participants : Fresh(q) /\ ~Gone(q) /\ ~Through(q)
           /\ waiting["finish"] = {} /\ 0 \notin waiting["start"]
           /\ Members = Doing /\ ~failed /\ ~reported /\ driver = "open"
<1> USE DEF IInv
<1>0. 0 \in Participants /\ nth \in Nat
  BY ParticipantsFinite, ArenaAssumption DEF TypeOK, Participants
<1>1. 0 \notin waiting["start"] /\ 0 \notin waiting["finish"] /\ Before
  BY <1>0 DEF BarrierInv, Preparing, Before
<1>2. \A q \in Participants :
        q = 0 \/ (q > nth /\ pc[q] = "none") \/ (0 < q /\ q <= nth /\ AtStart(q))
  BY <1>0, <1>1, ArenaAssumption DEF PhaseInv, Participants
<1>3. \A q \in Participants : q \notin waiting["finish"]
  BY <1>1, <1>2 DEF BarrierInv, AtStart
<1>4. waiting["finish"] = {}
  BY <1>3 DEF TypeOK, Barriers
<1>5. \A q \in Participants :
        /\ pc[q] \in Preparing \cup {"none"} \/ AtStart(q)
        /\ pc[q] \in Preparing \cup {"none", "start", "blocked"}
  BY <1>1, <1>2 DEF AtStart, BarrierInv
<1>6. \A q \in Participants : Fresh(q) /\ ~Gone(q) /\ ~Through(q)
  BY <1>4, <1>5 DEF Fresh, Gone, Through, AtFinish, Preparing
<1>7. Members = Doing
  BY <1>6 DEF Members, Doing
<1>8. ~failed
  BY <1>6 DEF EndInv, DoerInv, DoerOK, Doing
<1>9. ~reported /\ driver = "open"
  BY DEF EndInv, Preparing, TypeOK
<1> QED  BY <1>1, <1>4, <1>6, <1>7, <1>8, <1>9

(* What is left to show of a step that prepares. *)
LEMMA SetupKeeps ==
    ASSUME IInv, pc[0] \in Preparing,
           UNCHANGED <<rc, left, passes, ctx, enabled, canary, waiting,
                       doers_done, failed, driver, reported, outcome>>,
           \A q \in Participants :
             \/ pc'[q] \in Preparing \cup {"none", "start"}
             \/ pc'[q] = "blocked" /\ pc[q] = "blocked"
             \/ q = 0 /\ pc'[q] = "free" /\ mask'[q] = {},
           \A q \in Participants : mask'[q] = {} => q \notin counted',
           doers_count' = Cardinality(Doing')
    PROVE  DoerInv' /\ CountInv' /\ TogetherInv' /\ EndInv'
<1> USE DEF IInv
<1>0. 0 \in Participants
  BY ParticipantsFinite
<1>1. /\ \A q \in Participants : Fresh(q) /\ ~Gone(q) /\ ~Through(q)
      /\ waiting["finish"] = {} /\ 0 \notin waiting["start"]
      /\ Members = Doing /\ ~failed /\ ~reported /\ driver = "open"
  BY PreparingFacts
<1>2. \A q \in Participants :
        /\ passes'[q] = 0 /\ rc'[q] = 0 /\ q \notin ctx' /\ q \notin enabled'
  BY <1>1 DEF DoerInv, DoerOK
<1>3. \A q \in Participants : mask'[q] # {} => ~Gone(q)' /\ ~Through(q)'
  BY <1>1 DEF Gone, Through, AtFinish, Preparing
<1>4. DoerInv'
  <2> SUFFICES ASSUME NEW q \in Participants  PROVE DoerOK(q)'
    BY DEF DoerInv
  <2>1. pc'[q] \notin Working \cup {"destroy", "uncount"}
        /\ pc'[q] # "pass" /\ pc'[q] # "passed"
    BY DEF Working, Preparing
  <2> QED  BY <1>2, <1>3, <2>1 DEF DoerOK, NRepeat
<1>5. CountInv'
  <2>1. Members' = Doing'
    BY <1>3 DEF Members, Doing
  <2>2. Done' = {} /\ Done = {}
    BY <1>2 DEF Done, NRepeat
  <2> QED  BY <2>1, <2>2 DEF CountInv
<1>6. TogetherInv'
  BY <1>3 DEF TogetherInv, Doing
<1>7. EndInv'
  <2>1. pc'[0] \notin {"destroy", "uncount", "report"}
    BY <1>0 DEF Preparing
  <2> QED  BY <1>1, <2>1 DEF EndInv
<1> QED  BY <1>4, <1>5, <1>6, <1>7

(* The begin of ia_run keeps the invariant. *)
LEMMA RunSetupInv ==
    ASSUME IInv, RunSetup
    PROVE  IInv'
<1> USE DEF IInv
<1>0. 0 \in Participants /\ Participants \subseteq Nat
  BY ParticipantsFinite, ArenaAssumption DEF Participants
<1>1. pc[0] = "run" /\ pc[0] \in Preparing
  BY DEF RunSetup, Preparing
<1>2. /\ \A q \in Participants : Fresh(q) /\ ~Gone(q) /\ ~Through(q)
      /\ waiting["finish"] = {} /\ 0 \notin waiting["start"]
      /\ Members = Doing /\ ~failed /\ ~reported
  BY <1>1, PreparingFacts
<1>3. PICK l \in {"spread_rd", "free"} :
        /\ pc' = [pc EXCEPT ![0] = l]
        /\ l = "spread_rd" => conf.benches # {}
  BY DEF RunSetup, Goto
<1>4. UNCHANGED <<nth, key_space, mask, space, rc, left, passes, ctx, enabled,
                  counted, doers_count, doers_done, failed, canary, waiting,
                  driver, reported, outcome>>
  BY DEF RunSetup, barriers, ending
<1>5. set_rd' = Rd /\ set_wr' = Wr
  BY DEF RunSetup, Rd, Wr
<1>6. /\ conf.rthr \in 0 .. MaxReaders /\ conf.wthr \in 0 .. MaxWriters
      /\ nth = 0 /\ key_space = 0
  BY <1>1 DEF SpreadInv, Idle
<1>7. /\ conf'.benches = conf.benches
      /\ conf' \in [benches : SUBSET Benches, rthr : Int, wthr : Int,
                    continuous_completing : BOOLEAN]
      /\ conf'.rthr \in 0 .. MaxReaders /\ conf'.wthr \in 0 .. MaxWriters
      /\ conf.benches # {} => /\ Rd = {} => conf'.rthr = 0
                              /\ Wr = {} => conf'.wthr = 0
  <2> DEFINE r == IF Rd = {} THEN 0 ELSE conf.rthr
             w == IF Wr = {} THEN 0 ELSE conf.wthr
  <2>1. conf' = IF conf.benches = {} THEN conf
                ELSE [conf EXCEPT !.rthr = r, !.wthr = w]
    BY DEF RunSetup, Rd, Wr
  <2>2. r \in 0 .. MaxReaders /\ w \in 0 .. MaxWriters
    BY <1>6, ArenaAssumption
  <2>3. (Rd = {} => r = 0) /\ (Wr = {} => w = 0)
    OBVIOUS
  <2> HIDE DEF r, w
  <2>4. conf \in [benches : SUBSET Benches, rthr : Int, wthr : Int,
                  continuous_completing : BOOLEAN]
    BY DEF TypeOK
  <2>5. CASE conf.benches = {}
    BY <1>6, <2>1, <2>4, <2>5
  <2>6. CASE conf.benches # {}
    <3>1. conf' = [conf EXCEPT !.rthr = r, !.wthr = w] /\ r \in Int /\ w \in Int
      BY <2>1, <2>2, <2>6, ArenaAssumption
    <3>2. /\ conf' \in [benches : SUBSET Benches, rthr : Int, wthr : Int,
                        continuous_completing : BOOLEAN]
          /\ conf'.benches = conf.benches /\ conf'.rthr = r /\ conf'.wthr = w
      BY <2>4, <3>1
    <3> QED  BY <2>2, <2>3, <3>2
  <2> QED  BY <2>5, <2>6
<1>8. Rd' = Rd /\ Wr' = Wr
  BY <1>7 DEF Rd, Wr
<1>9. pc'[0] = l /\ \A q \in Participants : q # 0 => pc'[q] = pc[q]
  BY <1>0, <1>3 DEF TypeOK
<1>10. mask[0] = {} /\ \A q \in Participants : q # 0 => mask[q] = {} /\ pc[q] = "none"
  BY <1>0, <1>1, <1>6 DEF MaskInv, PhaseInv, Preparing
<1>t. TypeOK'
  <2>1. Rd \subseteq Benches /\ Wr \subseteq Benches
    BY DEF TypeOK, Rd, Wr
  <2> QED  BY <1>0, <1>3, <1>4, <1>5, <1>7, <2>1 DEF TypeOK, Labels
<1>11. SpreadInv'
  <2>1. Idle' <=> l = "free"
    BY <1>2, <1>4, <1>9 DEF Idle
  <2>2. nth' = 0 /\ key_space' = 0 /\ nth' <= conf'.rthr + conf'.wthr
        /\ nth' <= conf'.rthr
    BY <1>4, <1>6, <1>7, ArenaAssumption
  <2> QED  BY <1>3, <1>5, <1>7, <1>8, <1>9, <2>1, <2>2 DEF SpreadInv
<1>12. MaskInv'
  <2>1. Idle' \/ pc'[0] \in Preparing
    BY <1>2, <1>4, <1>9 DEF Idle, Preparing
  <2>2. \A q \in Participants : 0 < q /\ q <= nth' => FALSE
    BY <1>0, <1>4, <1>6
  <2> QED  BY <1>0, <1>1, <1>4, <1>6, <1>10, <2>1, <2>2 DEF MaskInv
<1>13. BarrierInv'
  BY <1>0, <1>1, <1>4, <1>9 DEF BarrierInv
<1>14. PhaseInv'
  <2>1. \A q \in Participants : 0 < q /\ q <= nth' => FALSE
    BY <1>0, <1>4, <1>6
  <2>2. \A q \in Participants : q > nth' => pc'[q] = "none"
    BY <1>0, <1>4, <1>6, <1>9, <1>10
  <2> QED  BY <1>2, <1>4, <1>9, <2>1, <2>2 DEF PhaseInv, Before, Preparing
<1>15. DoerInv' /\ CountInv' /\ TogetherInv' /\ EndInv'
  <2>1. Doing' = Doing
    BY <1>4 DEF Doing
  <2>2. doers_count' = Cardinality(Doing')
    BY <1>2, <1>4, <2>1 DEF CountInv
  <2>3. \A q \in Participants : mask'[q] = {} => q \notin counted'
    BY <1>4 DEF DoerInv, DoerOK
  <2>4. \A q \in Participants :
             \/ pc'[q] \in Preparing \cup {"none", "start"}
             \/ pc'[q] = "blocked" /\ pc[q] = "blocked"
             \/ q = 0 /\ pc'[q] = "free" /\ mask'[q] = {}
    BY <1>4, <1>9, <1>10 DEF Preparing
  <2> QED  BY <1>1, <1>4, <2>2, <2>3, <2>4, SetupKeeps
<1> QED  BY <1>t, <1>11, <1>12, <1>13, <1>14, <1>15

(* A thread more, at the first barrier. *)
LEMMA SpreadOneKeeps ==
    ASSUME IInv, pc[0] \in {"spread_rd", "spread_wr"}, NEW m, m # {},
           nth + 1 \in Participants, SpreadOne(m),
           UNCHANGED <<conf, rc, left, passes, ctx, enabled, doers_done, failed,
                       canary, waiting, driver, reported, outcome>>
    PROVE  /\ BarrierInv' /\ PhaseInv' /\ DoerInv' /\ CountInv' /\ TogetherInv'
           /\ EndInv'
           /\ nth' = nth + 1 /\ key_space' = NextKeySpace(m)
           /\ pc'[0] = pc[0]
           /\ mask'[nth + 1] = m /\ space'[nth + 1] = NextKeySpace(m)
           /\ \A q \in Participants :
                q # nth + 1 => mask'[q] = mask[q] /\ space'[q] = space[q]
           /\ ~Idle /\ ~Idle' /\ pc[0] \in Preparing
           /\ doers_count' \in 0 .. Cardinality(Participants)
<1> USE DEF IInv
<1>0. 0 \in Participants /\ nth \in Nat /\ Participants \subseteq Nat
  BY ParticipantsFinite, ArenaAssumption DEF TypeOK, Participants
<1>1. pc[0] \in Preparing
  BY DEF Preparing
<1>2. /\ \A q \in Participants : Fresh(q) /\ ~Gone(q) /\ ~Through(q)
      /\ waiting["finish"] = {} /\ 0 \notin waiting["start"]
      /\ Members = Doing /\ ~failed /\ ~reported
  BY <1>1, PreparingFacts
<1> DEFINE n == nth + 1
<1>3. n > nth /\ n # 0 /\ n \in Participants /\ n \in Nat
  BY <1>0
<1>4. /\ pc' = [pc EXCEPT ![n] = "start"] /\ mask' = [mask EXCEPT ![n] = m]
      /\ space' = [space EXCEPT ![n] = NextKeySpace(m)]
      /\ counted' = counted \cup {n} /\ doers_count' = doers_count + 1
      /\ nth' = n /\ key_space' = NextKeySpace(m)
  BY DEF SpreadOne, DoerInit
<1> HIDE DEF n
<1>5. /\ pc'[n] = "start" /\ mask'[n] = m /\ space'[n] = NextKeySpace(m)
      /\ \A q \in Participants : q # n =>
           pc'[q] = pc[q] /\ mask'[q] = mask[q] /\ space'[q] = space[q]
  BY <1>3, <1>4 DEF TypeOK
<1>6. pc[n] = "none" /\ mask[n] = {}
  BY <1>3 DEF PhaseInv, MaskInv
<1>7. BarrierInv'
  <2>1. n \notin waiting["start"] /\ n \notin waiting["finish"]
    BY <1>3, <1>6 DEF BarrierInv
  <2>2. \A b \in Barriers : waiting[b] \subseteq 0 .. n
    BY <1>0, <1>3 DEF BarrierInv, n
  <2> QED  BY <1>3, <1>4, <1>5, <2>1, <2>2 DEF BarrierInv
<1>8. PhaseInv'
  <2>1. pc'[0] = pc[0] /\ Before /\ Before' /\ ~After' /\ pc'[0] # "free"
    BY <1>0, <1>1, <1>3, <1>5 DEF Before, After, Closed, Preparing
  <2>2. ASSUME NEW q \in Participants
        PROVE  /\ q > nth' => pc'[q] = "none"
               /\ 0 < q /\ q <= nth' => AtStart(q)'
    <3>1. CASE q = n
      BY <1>3, <1>4, <1>5, <3>1 DEF AtStart
    <3>2. CASE q # n
      <4>1. q \in Nat /\ (q > n => q > nth) /\ (q <= n => q <= nth)
        BY <1>0, <3>2 DEF n
      <4> QED  BY <1>4, <1>5, <2>1, <3>2, <4>1 DEF PhaseInv, AtStart
    <3> QED  BY <3>1, <3>2
  <2>3. ~AtFinish(0)' \/ 0 \notin waiting'["start"]
    BY <1>2
  <2> QED  BY <2>1, <2>2, <2>3 DEF PhaseInv
<1>9. Doing' = Doing \cup {n} /\ n \notin Doing /\ Doing \subseteq Participants
  BY <1>3, <1>5, <1>6 DEF Doing
<1>10. doers_count' = Cardinality(Doing')
  <2>1. IsFiniteSet(Doing) /\ doers_count = Cardinality(Doing)
    BY <1>2, <1>9, AtMostParticipants DEF CountInv
  <2> QED  BY <1>4, <1>9, <2>1, FS_AddElement
<1>11. DoerInv' /\ CountInv' /\ TogetherInv' /\ EndInv'
  <2>1. \A q \in Participants : mask'[q] = {} => q \notin counted'
    BY <1>3, <1>4, <1>5 DEF DoerInv, DoerOK
  <2>2. \A q \in Participants :
             \/ pc'[q] \in Preparing \cup {"none", "start"}
             \/ pc'[q] = "blocked" /\ pc[q] = "blocked"
             \/ q = 0 /\ pc'[q] = "free" /\ mask'[q] = {}
    <3>1. \A q \in Participants :
            pc[q] \in Preparing \cup {"none", "start", "blocked"}
      <4>1. \A q \in Participants :
              q = 0 \/ pc[q] = "none" \/ AtStart(q)
        BY <1>0, <1>1 DEF PhaseInv, Before
      <4> QED  BY <1>1, <4>1 DEF AtStart, BarrierInv
    <3> QED  BY <1>5, <3>1
  <2> QED  BY <1>1, <1>10, <2>1, <2>2, SetupKeeps
<1>12. doers_count' \in 0 .. Cardinality(Participants)
  <2>1. Doing' \in SUBSET Participants
    BY DEF Doing
  <2> QED  BY <1>10, <2>1, AtMostParticipants
<1>13. ~Idle /\ ~Idle' /\ pc'[0] = pc[0]
  BY <1>0, <1>3, <1>5 DEF Idle
<1> QED  BY <1>1, <1>4, <1>5, <1>7, <1>8, <1>11, <1>12, <1>13 DEF n

(* The main thread goes on, to the next part of ia_run or to the first   *)
(* barrier; it may be given a mask of its own.                            *)
LEMMA GoOnKeeps ==
    ASSUME IInv, pc[0] \in {"spread_rd", "spread_wr", "here"},
           NEW l \in {"spread_wr", "here", "start"},
           pc' = [pc EXCEPT ![0] = l],
           \A q \in Participants : mask'[q] = {} => q \notin counted',
           doers_count' = Cardinality(Doing'),
           UNCHANGED <<conf, nth, rc, left, passes, ctx, enabled, doers_done,
                       failed, canary, waiting, driver, reported, outcome>>
    PROVE  /\ BarrierInv' /\ PhaseInv' /\ DoerInv' /\ CountInv' /\ TogetherInv'
           /\ EndInv' /\ pc'[0] = l /\ ~Idle /\ ~Idle'
           /\ doers_count' \in 0 .. Cardinality(Participants)
           /\ pc' \in [Participants -> Labels]
<1> USE DEF IInv
<1>0. 0 \in Participants /\ nth \in Nat
  BY ParticipantsFinite, ArenaAssumption DEF TypeOK, Participants
<1>1. pc[0] \in Preparing
  BY DEF Preparing
<1>2. /\ waiting["finish"] = {} /\ 0 \notin waiting["start"]
  BY <1>1, PreparingFacts
<1>3. pc'[0] = l /\ \A q \in Participants : q # 0 => pc'[q] = pc[q]
  BY <1>0 DEF TypeOK
<1>4. BarrierInv'
  BY <1>0, <1>2, <1>3 DEF BarrierInv
<1>5. PhaseInv'
  <2>1. Before /\ Before' /\ ~After' /\ pc'[0] # "free"
    BY <1>1, <1>3 DEF Before, After, Closed, Preparing, AtStart
  <2>2. \A q \in Participants : q # 0 => (AtStart(q)' <=> AtStart(q))
    BY <1>3 DEF AtStart
  <2> QED  BY <1>0, <1>2, <1>3, <2>1, <2>2 DEF PhaseInv
<1>6. DoerInv' /\ CountInv' /\ TogetherInv' /\ EndInv'
  <2>1. \A q \in Participants : q = 0 \/ pc[q] = "none" \/ AtStart(q)
    BY <1>0, <1>1, ArenaAssumption DEF PhaseInv, Before, Participants
  <2>2. \A q \in Participants :
             \/ pc'[q] \in Preparing \cup {"none", "start"}
             \/ pc'[q] = "blocked" /\ pc[q] = "blocked"
             \/ q = 0 /\ pc'[q] = "free" /\ mask'[q] = {}
    BY <1>3, <2>1 DEF AtStart, BarrierInv, Preparing
  <2> QED  BY <1>1, <2>2, SetupKeeps
<1>7. doers_count' \in 0 .. Cardinality(Participants)
  <2>1. Doing' \in SUBSET Participants
    BY DEF Doing
  <2> QED  BY <2>1, AtMostParticipants
<1>8. ~Idle /\ ~Idle'
  BY <1>3 DEF Idle
<1>9. pc' \in [Participants -> Labels]
  BY DEF TypeOK, Labels
<1> QED  BY <1>3, <1>4, <1>5, <1>6, <1>7, <1>8, <1>9

(* Before its own part the main thread counts what it has spawned. *)
LEMMA CountsDoing ==
    ASSUME IInv, pc[0] \in Preparing
    PROVE  /\ doers_count = Cardinality(Doing)
           /\ \A q \in Participants : mask[q] = {} => q \notin counted
BY PreparingFacts DEF IInv, CountInv, DoerInv, DoerOK

(* ia_spread for readers keeps the invariant. *)
LEMMA SpreadReadersInv ==
    ASSUME IInv, SpreadReaders
    PROVE  IInv'
<1> USE DEF IInv
<1>0. /\ 0 \in Participants /\ nth \in Nat
      /\ conf.rthr \in 0 .. MaxReaders /\ conf.wthr \in 0 .. MaxWriters
      /\ MaxReaders \in Nat /\ MaxWriters \in Nat
      /\ conf.rthr \in Nat /\ conf.wthr \in Nat
  BY ParticipantsFinite, ArenaAssumption DEF TypeOK, Participants, SpreadInv
<1>1. /\ pc[0] = "spread_rd" /\ pc[0] \in Preparing
      /\ UNCHANGED <<conf, set_wr, rc, left, passes, ctx, enabled, doers_done,
                     failed, canary, waiting, driver, reported, outcome>>
      /\ Rd' = Rd /\ Wr' = Wr /\ ~Idle
  BY DEF SpreadReaders, barriers, ending, Rd, Wr, Preparing, Idle
<1>2. CASE nth < conf.rthr
  <2>1. SpreadOne(Rd) /\ set_rd' = {}
    BY <1>2 DEF SpreadReaders, Rd
  <2>2. Rd # {} /\ nth + 1 \in Participants /\ Rd \subseteq Benches
    <3>1. Rd # {}
      <4>1. SpreadInv
        OBVIOUS
      <4> QED  BY <1>0, <1>1, <1>2, <4>1 DEF SpreadInv
    <3>2. nth + 1 \in Participants
      BY <1>0, <1>2 DEF Participants
    <3>3. Rd \subseteq Benches
      BY DEF Rd, TypeOK
    <3> QED  BY <3>1, <3>2, <3>3
  <2>3. /\ BarrierInv' /\ PhaseInv' /\ DoerInv' /\ CountInv' /\ TogetherInv'
        /\ EndInv'
        /\ nth' = nth + 1 /\ key_space' = NextKeySpace(Rd)
        /\ pc'[0] = pc[0]
        /\ mask'[nth + 1] = Rd /\ space'[nth + 1] = NextKeySpace(Rd)
        /\ \A q \in Participants :
             q # nth + 1 => mask'[q] = mask[q] /\ space'[q] = space[q]
        /\ ~Idle' /\ doers_count' \in 0 .. Cardinality(Participants)
    BY <1>1, <2>1, <2>2, SpreadOneKeeps
  <2>4. NextKeySpace(Rd) = 0
    <3>1. Rd \cap Writing = {}
      BY DEF Rd, ReadOnly, Writing
    <3> QED  BY <1>0, <1>2, <3>1 DEF NextKeySpace, SpreadInv
  <2>t. TypeOK'
    <3>1. /\ pc' \in [Participants -> Labels]
          /\ mask' \in [Participants -> SUBSET Benches]
          /\ space' \in [Participants -> Nat] /\ counted' \subseteq Participants
      BY <2>1, <2>2, <2>4 DEF SpreadOne, DoerInit, TypeOK, Labels
    <3>2. 0 \in 0 .. 2 * MaxWriters
      BY <1>0
    <3> QED  BY <1>1, <2>1, <2>2, <2>3, <2>4, <3>1, <3>2 DEF TypeOK
  <2>5. SpreadInv'
    BY <1>0, <1>1, <1>2, <2>1, <2>3, <2>4 DEF SpreadInv
  <2>6. MaskInv'
    <3>1. ASSUME NEW q \in Participants
          PROVE /\ q > nth' => mask'[q] = {} /\ space'[q] = 0
                /\ 0 < q /\ q <= nth' => mask'[q] = Rd /\ space'[q] = 0
      <4>1. q \in Nat
        BY <1>0 DEF Participants
      <4>2. CASE q = nth + 1
        BY <1>0, <2>3, <2>4, <4>2
      <4>3. CASE q # nth + 1
        <5>1. (q > nth' => q > nth) /\ (q <= nth' => q <= nth /\ q <= conf.rthr)
          BY <1>0, <1>2, <2>3, <4>1, <4>3
        <5> QED  BY <2>3, <4>3, <5>1 DEF MaskInv
      <4> QED  BY <4>2, <4>3
    <3>2. nth' <= conf'.rthr
      BY <1>0, <1>1, <1>2, <2>3
    <3>3. \A q \in Participants : q <= nth' => ~(q > conf'.rthr)
      BY <1>0, <1>1, <2>3, <3>2 DEF Participants
    <3>4. space'[0] = 0 /\ mask'[0] = {}
      BY <1>0, <1>1, <2>3 DEF MaskInv
    <3>5. pc'[0] \in Preparing
      BY <1>1, <2>3
    <3> QED  BY <1>1, <3>1, <3>3, <3>4, <3>5 DEF MaskInv
  <2> QED  BY <2>t, <2>3, <2>5, <2>6
<1>3. CASE ~(nth < conf.rthr)
  <2>1. /\ pc' = [pc EXCEPT ![0] = "spread_wr"]
        /\ UNCHANGED <<nth, key_space, mask, space, counted, doers_count, set_rd>>
    BY <1>3 DEF SpreadReaders, Goto
  <2>2. Doing' = Doing
    BY <2>1 DEF Doing
  <2>3. /\ BarrierInv' /\ PhaseInv' /\ DoerInv' /\ CountInv' /\ TogetherInv'
        /\ EndInv' /\ pc'[0] = "spread_wr" /\ ~Idle'
        /\ pc' \in [Participants -> Labels]
    BY <1>1, <2>1, <2>2, CountsDoing, GoOnKeeps
  <2>t. TypeOK'
    BY <1>1, <2>1, <2>3 DEF TypeOK
  <2>4. SpreadInv'
    BY <1>0, <1>1, <1>3, <2>1, <2>3 DEF SpreadInv, UsedUp
  <2>5. MaskInv'
    BY <1>1, <2>1, <2>3 DEF MaskInv, UsedUp, Preparing
  <2> QED  BY <2>t, <2>3, <2>4, <2>5
<1> QED  BY <1>2, <1>3

(* A writer more uses up the key spaces of one writer more. *)
LEMMA UsedUpNext ==
    ASSUME IInv, conf.rthr <= nth, nth < conf.rthr + conf.wthr
    PROVE  /\ NextKeySpace(Wr) = UsedUp(nth + 1 - conf.rthr)
           /\ NextKeySpace(Wr) \in 0 .. 2 * MaxWriters
<1>1. /\ nth \in Nat /\ conf.rthr \in Nat /\ conf.wthr \in 0 .. MaxWriters
      /\ MaxWriters \in Nat
      /\ key_space = IF nth <= conf.rthr THEN 0 ELSE UsedUp(nth - conf.rthr)
  BY ArenaAssumption DEF IInv, TypeOK, Participants, SpreadInv
<1>2. CASE Wr \cap Writing = {}
  BY <1>1, <1>2 DEF UsedUp, NextKeySpace
<1>3. CASE Wr \cap Writing # {} /\ Wr \cap TwoKeySpaces = {}
  BY <1>1, <1>3 DEF UsedUp, NextKeySpace
<1>4. CASE Wr \cap Writing # {} /\ Wr \cap TwoKeySpaces # {}
  BY <1>1, <1>4 DEF UsedUp, NextKeySpace
<1> QED  BY <1>2, <1>3, <1>4

(* ia_spread for writers keeps the invariant. *)
LEMMA SpreadWritersInv ==
    ASSUME IInv, SpreadWriters
    PROVE  IInv'
<1> USE DEF IInv
<1>0. /\ 0 \in Participants /\ nth \in Nat
      /\ conf.rthr \in 0 .. MaxReaders /\ conf.wthr \in 0 .. MaxWriters
      /\ MaxReaders \in Nat /\ MaxWriters \in Nat
      /\ conf.rthr \in Nat /\ conf.wthr \in Nat
  BY ParticipantsFinite, ArenaAssumption DEF TypeOK, Participants, SpreadInv
<1>1. /\ pc[0] = "spread_wr" /\ pc[0] \in Preparing
      /\ UNCHANGED <<conf, set_rd, rc, left, passes, ctx, enabled, doers_done,
                     failed, canary, waiting, driver, reported, outcome>>
      /\ Rd' = Rd /\ Wr' = Wr /\ ~Idle
  BY DEF SpreadWriters, barriers, ending, Rd, Wr, Preparing, Idle
<1>2. Spawned(conf.rthr) = conf.rthr /\ conf.rthr <= nth
      /\ nth <= conf.rthr + conf.wthr
  BY <1>0, <1>1 DEF Spawned, SpreadInv
<1>3. CASE nth < conf.rthr + conf.wthr
  <2>1. SpreadOne(Wr) /\ set_wr' = {}
    BY <1>2, <1>3 DEF SpreadWriters, Wr
  <2>2. Wr # {} /\ nth + 1 \in Participants /\ Wr \subseteq Benches
    <3>1. Wr # {}
      BY <1>0, <1>1, <1>2, <1>3 DEF SpreadInv
    <3>2. nth + 1 \in Participants
      BY <1>0, <1>2, <1>3 DEF Participants
    <3>3. Wr \subseteq Benches
      BY DEF Wr, TypeOK
    <3> QED  BY <3>1, <3>2, <3>3
  <2>3. /\ BarrierInv' /\ PhaseInv' /\ DoerInv' /\ CountInv' /\ TogetherInv'
        /\ EndInv'
        /\ nth' = nth + 1 /\ key_space' = NextKeySpace(Wr)
        /\ pc'[0] = pc[0]
        /\ mask'[nth + 1] = Wr /\ space'[nth + 1] = NextKeySpace(Wr)
        /\ \A q \in Participants :
             q # nth + 1 => mask'[q] = mask[q] /\ space'[q] = space[q]
        /\ ~Idle' /\ doers_count' \in 0 .. Cardinality(Participants)
    BY <1>1, <2>1, <2>2, SpreadOneKeeps
  <2>4. /\ NextKeySpace(Wr) = UsedUp(nth + 1 - conf.rthr)
        /\ NextKeySpace(Wr) \in 0 .. 2 * MaxWriters
    BY <1>2, <1>3, UsedUpNext
  <2>5. \A n : UsedUp(n)' = UsedUp(n)
    BY <1>1 DEF UsedUp
  <2>t. TypeOK'
    <3>1. NextKeySpace(Wr) \in Nat
      BY <1>0, <2>4
    <3>2. /\ pc' \in [Participants -> Labels]
          /\ mask' \in [Participants -> SUBSET Benches]
          /\ space' \in [Participants -> Nat] /\ counted' \subseteq Participants
      BY <2>1, <2>2, <3>1 DEF SpreadOne, DoerInit, TypeOK, Labels
    <3> QED  BY <1>1, <2>1, <2>2, <2>3, <2>4, <3>2 DEF TypeOK
  <2>6. SpreadInv'
    <3>1. nth + 1 <= conf.rthr + conf.wthr /\ ~(nth + 1 <= conf.rthr)
          /\ nth + 1 # 0 /\ nth + 1 >= conf.rthr
      BY <1>0, <1>2, <1>3
    <3>2. set_rd = IF nth + 1 = 0 \/ conf.rthr = 0 THEN Rd ELSE {}
      BY <1>0, <1>1, <1>2, <3>1 DEF SpreadInv
    <3>3. (Rd = {} => conf.rthr = 0) /\ (Wr = {} => conf.wthr = 0)
      BY <1>1 DEF SpreadInv
    <3>4. key_space' = UsedUp(nth - conf.rthr)'
      <4>1. nth' = nth + 1 /\ conf' = conf /\ Wr' = Wr
        BY <1>1, <2>3
      <4>2. UsedUp(nth - conf.rthr)' = UsedUp(nth + 1 - conf.rthr)
        BY <1>0, <4>1 DEF UsedUp
      <4> QED  BY <2>3, <2>4, <4>2
    <3> QED  BY <1>0, <1>1, <2>1, <2>3, <3>1, <3>2, <3>3, <3>4 DEF SpreadInv
  <2>7. MaskInv'
    <3>1. ASSUME NEW q \in Participants
          PROVE /\ q > nth' => mask'[q] = {} /\ space'[q] = 0
                /\ 0 < q /\ q <= nth' /\ q <= conf.rthr =>
                     mask'[q] = Rd /\ space'[q] = 0
                /\ 0 < q /\ q <= nth' /\ q > conf.rthr =>
                     mask'[q] = Wr /\ space'[q] = UsedUp(q - conf.rthr)
      <4>1. q \in Nat
        BY <1>0 DEF Participants
      <4>2. CASE q = nth + 1
        <5>1. q > conf.rthr /\ ~(q > nth') /\ ~(q <= conf.rthr)
          BY <1>0, <1>2, <2>3, <4>2
        <5>2. mask'[q] = Wr /\ space'[q] = UsedUp(q - conf.rthr)
          <6>1. mask'[nth + 1] = Wr
                /\ space'[nth + 1] = UsedUp(nth + 1 - conf.rthr)
            BY <2>3, <2>4
          <6> QED  BY <1>0, <4>1, <4>2, <6>1
        <5> QED  BY <5>1, <5>2
      <4>3. CASE q # nth + 1
        <5>1. (q > nth' => q > nth) /\ (q <= nth' => q <= nth)
          BY <1>0, <2>3, <4>1, <4>3
        <5> QED  BY <2>3, <4>3, <5>1 DEF MaskInv
      <4> QED  BY <4>2, <4>3
    <3>2. space'[0] = 0 /\ mask'[0] = {}
      BY <1>0, <1>1, <2>3 DEF MaskInv
    <3>3. pc'[0] \in Preparing
      BY <1>1, <2>3
    <3> QED  BY <1>1, <2>5, <3>1, <3>2, <3>3 DEF MaskInv
  <2> QED  BY <2>t, <2>3, <2>6, <2>7
<1>4. CASE ~(nth < conf.rthr + conf.wthr)
  <2>1. /\ pc' = [pc EXCEPT ![0] = "here"]
        /\ UNCHANGED <<nth, key_space, mask, space, counted, doers_count, set_wr>>
    BY <1>2, <1>4 DEF SpreadWriters, Goto
  <2>2. Doing' = Doing
    BY <2>1 DEF Doing
  <2>3. /\ BarrierInv' /\ PhaseInv' /\ DoerInv' /\ CountInv' /\ TogetherInv'
        /\ EndInv' /\ pc'[0] = "here" /\ ~Idle'
        /\ pc' \in [Participants -> Labels]
    BY <1>1, <2>1, <2>2, CountsDoing, GoOnKeeps
  <2>t. TypeOK'
    BY <1>1, <2>1, <2>3 DEF TypeOK
  <2>4. SpreadInv'
    BY <1>0, <1>1, <1>2, <1>4, <2>1, <2>3 DEF SpreadInv, UsedUp
  <2>5. MaskInv'
    BY <1>1, <2>1, <2>3 DEF MaskInv, UsedUp, Preparing
  <2> QED  BY <2>t, <2>3, <2>4, <2>5
<1> QED  BY <1>3, <1>4

(* The main thread takes what is left. *)
LEMMA HereInv ==
    ASSUME IInv, Here
    PROVE  IInv'
<1> USE DEF IInv
<1>0. /\ 0 \in Participants /\ nth \in Nat
  BY ParticipantsFinite, ArenaAssumption DEF TypeOK, Participants
<1> DEFINE m == set_rd \cup set_wr
<1>1. /\ pc[0] = "here" /\ pc[0] \in Preparing /\ ~Idle
      /\ UNCHANGED <<conf, set_rd, set_wr, nth, key_space, rc, left, passes,
                     ctx, enabled, doers_done, failed, canary, waiting, driver,
                     reported, outcome>>
      /\ Rd' = Rd /\ Wr' = Wr /\ pc' = [pc EXCEPT ![0] = "start"]
  BY DEF Here, config, barriers, ending, Rd, Wr, Preparing, Idle, Goto
<1>2. mask[0] = {} /\ space[0] = 0
  BY <1>1 DEF MaskInv
<1>3. /\ mask'[0] = m /\ space'[0] = 0
      /\ \A q \in Participants : q # 0 => mask'[q] = mask[q] /\ space'[q] = space[q]
      /\ counted' = IF m = {} THEN counted ELSE counted \cup {0}
      /\ doers_count' = IF m = {} THEN doers_count ELSE doers_count + 1
      /\ mask' \in [Participants -> SUBSET Benches]
      /\ space' \in [Participants -> Nat]
  <2>1. m \in SUBSET Benches
    BY DEF TypeOK
  <2>2. CASE m = {}
    BY <1>2, <2>2 DEF Here, TypeOK
  <2>3. CASE m # {}
    BY <1>0, <2>1, <2>3 DEF Here, DoerInit, TypeOK
  <2> QED  BY <2>2, <2>3
<1> HIDE DEF m
<1>4. /\ doers_count = Cardinality(Doing)
      /\ \A q \in Participants : mask[q] = {} => q \notin counted
  BY <1>1, CountsDoing
<1>5. doers_count' = Cardinality(Doing')
  <2>1. Doing' = IF m = {} THEN Doing ELSE Doing \cup {0}
    BY <1>0, <1>2, <1>3 DEF Doing
  <2>2. 0 \notin Doing /\ Doing \in SUBSET Participants
    BY <1>2 DEF Doing
  <2> QED  BY <1>3, <1>4, <2>1, <2>2, AtMostParticipants, FS_AddElement
<1>6. \A q \in Participants : mask'[q] = {} => q \notin counted'
  <2>1. m = {} => counted' = counted /\ \A q \in Participants : mask'[q] = mask[q]
    BY <1>2, <1>3
  <2>2. m # {} => \A q \in Participants :
                    mask'[q] = {} => q # 0 /\ mask[q] = {}
    BY <1>3
  <2>3. \A q : q # 0 /\ q \notin counted => q \notin counted'
    BY <1>3
  <2> QED  BY <1>4, <2>1, <2>2, <2>3
<1>7. /\ BarrierInv' /\ PhaseInv' /\ DoerInv' /\ CountInv' /\ TogetherInv'
      /\ EndInv' /\ pc'[0] = "start" /\ ~Idle'
      /\ doers_count' \in 0 .. Cardinality(Participants)
      /\ pc' \in [Participants -> Labels]
  BY <1>1, <1>5, <1>6, GoOnKeeps
<1>t. TypeOK'
  <2>1. counted' \subseteq Participants
    BY <1>0, <1>3 DEF TypeOK
  <2> QED  BY <1>1, <1>3, <1>7, <2>1 DEF TypeOK
<1>8. SpreadInv'
  BY <1>1, <1>7 DEF SpreadInv, UsedUp
<1>9. MaskInv'
  <2>1. \A q \in Participants : (q > nth \/ 0 < q) => q # 0
    BY <1>0
  <2> QED  BY <1>1, <1>3, <1>7, <2>1 DEF MaskInv, UsedUp, Preparing, m
<1> QED  BY <1>t, <1>7, <1>8, <1>9

----------------------------------------------------------------------------
(* The invariant, and what follows from it. *)

(* Every step keeps the invariant. *)
LEMMA StepInv ==
    ASSUME IInv, [Next]_vars
    PROVE  IInv'
<1>1. CASE MainStep
  BY <1>1, RunSetupInv, SpreadReadersInv, SpreadWritersInv, HereInv,
     SetupBailoutInv, ClosingInv, ReportInv, FreeInv DEF MainStep
<1>2. ASSUME NEW p \in Participants, DoerStep(p)
      PROVE  IInv'
  BY <1>2, BarrierWaitInv, ThreadNewInv, LoopInv, RunBenchmarkInv, PassEndInv,
     CheckFailedInv, DisposeInv, FulfilledInv, DoerDestroyInv,
     HistogramDestroyInv DEF DoerStep
<1>3. CASE UNCHANGED vars
  <2>1. UNCHANGED <<conf, set_rd, set_wr, nth, key_space, pc, mask, space, rc,
                    left, passes, ctx, enabled, counted, doers_count,
                    doers_done, failed, canary, waiting, driver, reported,
                    outcome>>
    BY <1>3 DEF vars, config, barriers, ending
  <2>2. TypeOK' /\ SpreadInv' /\ MaskInv' /\ BarrierInv' /\ PhaseInv'
    BY <2>1 DEF IInv, TypeOK, SpreadInv, MaskInv, BarrierInv, PhaseInv, Idle,
       Rd, Wr, UsedUp, Before, After, AtStart, AtFinish
  <2>3. DoerInv' /\ CountInv' /\ TogetherInv' /\ EndInv'
    BY <2>1 DEF IInv, DoerInv, DoerOK, CountInv, Members, Done, TogetherInv,
       EndInv, Doing, Through, Gone, Fresh, AtStart, AtFinish, Idle
  <2> QED  BY <2>2, <2>3 DEF IInv
<1> QED  BY <1>1, <1>2, <1>3 DEF Next, Exited

(* The inductive invariant holds in every state of the run. *)
THEOREM InductiveInvariant ==
    ASSUME MinThreads \in Nat
    PROVE  Spec => []IInv
<1>1. Init => IInv
  BY InitInv
<1>2. IInv /\ [Next]_vars => IInv'
  BY StepInv
<1> QED  BY <1>1, <1>2, PTL DEF Spec

(* Types: nth stays within the participants, and doers_count never goes   *)
(* below zero although every doer decrements it on its own.               *)
THEOREM TypeCorrect ==
    ASSUME MinThreads \in Nat
    PROVE  Spec => []TypeOK
<1>1. IInv => TypeOK
  BY DEF IInv
<1> QED  BY <1>1, InductiveInvariant, PTL

(* The final ia_histogram_checkpoint(0) never finds a doer that is still  *)
(* counted, for any number of threads and whatever fails.                 *)
THEOREM FinalCheckpointFindsNobody ==
    ASSUME MinThreads \in Nat
    PROVE  Spec => []NoFatal
<1>1. IInv => NoFatal
  BY DEF IInv, EndInv, NoFatal
<1> QED  BY <1>1, InductiveInvariant, PTL

(* Everybody is behind the second barrier when the main thread is free. *)
LEMMA FreeMeansEnded ==
    ASSUME IInv, pc[0] = "free", NEW p \in Participants
    PROVE  \/ mask[p] = {}
           \/ p # 0 /\ pc[p] = "end"
           \/ p = 0
<1>1. nth \in Nat /\ p \in Nat
  BY ArenaAssumption DEF IInv, TypeOK, Participants
<1>2. CASE p > nth
  BY <1>2 DEF IInv, MaskInv
<1>3. CASE 0 < p /\ p <= nth
  BY <1>1, <1>3 DEF IInv, PhaseInv
<1> QED  BY <1>1, <1>2, <1>3

(* ia_free closes the driver only after every context was disposed of, a  *)
(* failed thread_new or option included: a run with a failure never gets  *)
(* to ia_free.                                                            *)
THEOREM ClosedAfterContexts ==
    ASSUME MinThreads \in Nat
    PROVE  Spec => []ClosedWithoutContexts
<1>1. IInv => ClosedWithoutContexts
  <2> SUFFICES ASSUME IInv, driver = "closed", NEW p \in ctx  PROVE FALSE
    BY DEF ClosedWithoutContexts
  <2> USE DEF IInv
  <2>1. p \in Participants /\ pc[0] = "free" /\ 0 \in Participants
    BY ParticipantsFinite DEF TypeOK, EndInv
  <2>2. mask[p] # {} /\ DoerOK(p)
    BY <2>1 DEF DoerInv, DoerOK
  <2>3. p = 0 \/ pc[p] = "end"
    BY <2>1, <2>2, FreeMeansEnded
  <2>4. rc[p] # 0
    BY <2>1, <2>2, <2>3 DEF DoerOK, WithContext
  <2>5. reported
    <3>1. CASE ~reported
      <4>1. Idle /\ nth = 0
        BY <2>1, <3>1 DEF Idle, SpreadInv
      <4>2. p = 0 => Fresh(p)
        BY <4>1 DEF Fresh
      <4>3. p # 0 => p > nth
        BY <2>1, <4>1, ArenaAssumption DEF Participants
      <4> QED  BY <2>1, <2>2, <2>4, <4>2, <4>3 DEF MaskInv, DoerOK
    <3> QED  BY <3>1
  <2>6. ~failed /\ rc[0] = 0
    BY <2>5 DEF EndInv
  <2> QED  BY <2>2, <2>3, <2>4, <2>6 DEF DoerOK, Gone
<1> QED  BY <1>1, InductiveInvariant, PTL

(* A report is complete: the benchmarks that were asked for are those     *)
(* that were given away, and everybody has completed them.                *)
THEOREM ReportIsComplete ==
    ASSUME MinThreads \in Nat
    PROVE  Spec => []ReportComplete
<1>1. IInv => ReportComplete
  <2> SUFFICES ASSUME IInv, reported  PROVE ReportComplete
    BY DEF ReportComplete
  <2> USE DEF IInv
  <2>1. /\ pc[0] = "free" /\ ~failed /\ rc[0] = 0 /\ ~Idle
    BY DEF EndInv, Idle
  <2>2. /\ 0 \in Participants /\ nth \in Nat /\ nth \in Participants
        /\ conf.rthr \in Nat /\ conf.wthr \in Nat
        /\ nth = conf.rthr + conf.wthr
        /\ Participants \subseteq Nat
    BY <2>1, ParticipantsFinite, ArenaAssumption
    DEF TypeOK, SpreadInv, Participants
  <2>3. mask[0] = set_rd \cup set_wr
    BY <2>1 DEF MaskInv, Preparing
  <2>4. conf.benches = Rd \cup Wr
    BY DEF Rd, Wr
  <2>5. \A p \in Participants : mask[p] \subseteq conf.benches
    <3>1. mask[0] \subseteq conf.benches
      BY <2>1, <2>3, <2>4 DEF SpreadInv
    <3>2. ASSUME NEW p \in Participants, p # 0
          PROVE  mask[p] \subseteq conf.benches
      BY <2>2, <2>4, <3>2 DEF MaskInv
    <3> QED  BY <3>1, <3>2
  <2>6. \E p \in Participants : Rd \subseteq mask[p]
    <3>1. CASE conf.rthr = 0
      BY <2>1, <2>2, <2>3, <3>1 DEF SpreadInv
    <3>2. CASE conf.rthr # 0
      <4>1. 1 \in Participants /\ 1 <= nth /\ 1 <= conf.rthr /\ 0 < 1
        BY <2>2, <3>2, ArenaAssumption DEF Participants
      <4> QED  BY <4>1 DEF MaskInv
    <3> QED  BY <3>1, <3>2
  <2>7. \E p \in Participants : Wr \subseteq mask[p]
    <3>1. CASE conf.wthr = 0
      BY <2>1, <2>2, <2>3, <3>1 DEF SpreadInv
    <3>2. CASE conf.wthr # 0
      <4>1. nth <= nth /\ nth > conf.rthr /\ 0 < nth
        BY <2>2, <3>2
      <4> QED  BY <2>2, <4>1 DEF MaskInv
    <3> QED  BY <3>1, <3>2
  <2>8. UNION {mask[p] : p \in Doing} = conf.benches
    <3>1. \A x \in conf.benches : \E p \in Doing : x \in mask[p]
      BY <2>4, <2>6, <2>7 DEF Doing
    <3>2. \A p \in Doing : mask[p] \subseteq conf.benches
      BY <2>5 DEF Doing
    <3> QED  BY <3>1, <3>2
  <2>9. \A p \in Doing : passes[p] >= NRepeat /\ rc[p] = 0
    <3> SUFFICES ASSUME NEW p \in Participants, mask[p] # {}
                 PROVE  passes[p] >= NRepeat /\ rc[p] = 0
      BY DEF Doing
    <3>1. p = 0 \/ pc[p] = "end"
      BY <2>1, FreeMeansEnded
    <3>2. Through(p) /\ DoerOK(p)
      BY <2>1, <3>1 DEF Through, DoerInv
    <3>3. rc[p] = 0
      BY <2>1, <3>1, <3>2 DEF DoerOK, Gone
    <3> QED  BY <3>2, <3>3 DEF DoerOK
  <2> QED  BY <2>8, <2>9 DEF ReportComplete
<1> QED  BY <1>1, InductiveInvariant, PTL

(* Who writes: the main thread alone, or the threads behind the readers. *)
LEMMA Writers ==
    ASSUME IInv, NEW p \in Participants, mask[p] \cap Writing # {}
    PROVE  /\ p = 0 => nth <= conf.rthr
           /\ p # 0 => /\ p > conf.rthr /\ p <= nth
                       /\ mask[p] = Wr /\ space[p] = UsedUp(p - conf.rthr)
<1> USE DEF IInv
<1>1. /\ nth \in Nat /\ conf.rthr \in Nat /\ p \in Nat
  BY ArenaAssumption DEF TypeOK, Participants, SpreadInv
<1>2. Rd \cap Writing = {}
  BY DEF Rd, ReadOnly, Writing
<1>3. ASSUME p = 0  PROVE nth <= conf.rthr
  <2>1. ~Idle /\ mask[0] = set_rd \cup set_wr
    BY <1>3 DEF MaskInv
  <2>2. set_rd \cap Writing = {}
    BY <1>2, <2>1 DEF SpreadInv
  <2>3. set_wr # {}
    BY <1>3, <2>1, <2>2
  <2> QED  BY <2>1, <2>3 DEF SpreadInv
<1>4. ASSUME p # 0
      PROVE  /\ p > conf.rthr /\ p <= nth
             /\ mask[p] = Wr /\ space[p] = UsedUp(p - conf.rthr)
  <2>1. 0 < p /\ p <= nth
    BY <1>1, <1>4 DEF MaskInv
  <2>2. p > conf.rthr
    BY <1>1, <1>2, <2>1 DEF MaskInv
  <2> QED  BY <2>1, <2>2 DEF MaskInv
<1> QED  BY <1>3, <1>4

(* No two doers write to the same key space, however many writers there   *)
(* are and whichever benchmarks they run: ia_spread steps by the number   *)
(* of key spaces a writer needs.                                          *)
THEOREM WritersKeepApart ==
    ASSUME MinThreads \in Nat
    PROVE  Spec => []WritersApart
<1>1. IInv => WritersApart
  <2> SUFFICES ASSUME IInv, NEW p \in Participants, NEW q \in Participants,
                      p # q, mask[p] \cap Writing # {}, mask[q] \cap Writing # {}
               PROVE  WriteSpaces(p) \cap WriteSpaces(q) = {}
    BY DEF WritersApart, WriteSpaces
  <2>1. /\ nth \in Nat /\ conf.rthr \in Nat /\ p \in Nat /\ q \in Nat
    BY ArenaAssumption DEF IInv, TypeOK, Participants, SpreadInv
  <2>2. p # 0 /\ q # 0
    BY <2>1, Writers
  <2>3. /\ p > conf.rthr /\ mask[p] = Wr /\ space[p] = UsedUp(p - conf.rthr)
        /\ q > conf.rthr /\ mask[q] = Wr /\ space[q] = UsedUp(q - conf.rthr)
    BY <2>2, Writers
  <2>4. CASE Wr \cap TwoKeySpaces = {}
    <3>1. space[p] = p - conf.rthr /\ space[q] = q - conf.rthr
      BY <2>3, <2>4 DEF UsedUp
    <3>2. WriteSpaces(p) = {space[p]} /\ WriteSpaces(q) = {space[q]}
      BY <2>3, <2>4 DEF WriteSpaces
    <3> QED  BY <2>1, <3>1, <3>2
  <2>5. CASE Wr \cap TwoKeySpaces # {}
    <3>1. space[p] = 2 * (p - conf.rthr) /\ space[q] = 2 * (q - conf.rthr)
      BY <2>3, <2>5 DEF UsedUp
    <3>2. /\ WriteSpaces(p) = {space[p], space[p] + 1}
          /\ WriteSpaces(q) = {space[q], space[q] + 1}
      BY <2>3, <2>5 DEF WriteSpaces
    <3>3. p - conf.rthr \in Int /\ q - conf.rthr \in Int
          /\ p - conf.rthr # q - conf.rthr
      BY <2>1
    <3>4. \A i, j \in Int : i # j => /\ 2 * i # 2 * j /\ 2 * i + 1 # 2 * j
                                     /\ 2 * i # 2 * j + 1 /\ 2 * i + 1 # 2 * j + 1
      OBVIOUS
    <3> QED  BY <3>1, <3>2, <3>3, <3>4
  <2> QED  BY <2>4, <2>5
<1> QED  BY <1>1, InductiveInvariant, PTL

(* Only the condition of its loop lets a doer stop after a good pass. *)
LEMMA OnlyLoopStops ==
    ASSUME IInv, Next, NEW p \in Participants,
           pc[p] = "loop", pc'[p] = "dispose"
    PROVE  Loop(p)
<1> USE DEF IInv
<1>0. 0 \in Participants /\ pc \in [Participants -> Labels]
  BY ParticipantsFinite DEF TypeOK
<1>1. CASE MainStep
  <2>1. ASSUME NEW q \in Participants, NEW l, l # "dispose",
               pc' = [pc EXCEPT ![q] = l]
        PROVE  FALSE
    BY <1>0, <2>1
  <2>2. ASSUME pc' = pc  PROVE FALSE
    BY <2>2
  <2>3. CASE RunSetup
    BY <1>0, <2>1, <2>3 DEF RunSetup, Goto
  <2>4. CASE SpreadReaders
    <3>1. CASE nth < conf.rthr
      BY <1>0, <2>4, <3>1 DEF SpreadReaders, SpreadOne
    <3>2. CASE ~(nth < conf.rthr)
      BY <1>0, <2>1, <2>4, <3>2 DEF SpreadReaders, Goto
    <3> QED  BY <3>1, <3>2
  <2>5. CASE SpreadWriters
    <3>1. CASE nth < Spawned(conf.rthr) + conf.wthr
      BY <1>0, <2>5, <3>1 DEF SpreadWriters, SpreadOne
    <3>2. CASE ~(nth < Spawned(conf.rthr) + conf.wthr)
      BY <1>0, <2>1, <2>5, <3>2 DEF SpreadWriters, Goto
    <3> QED  BY <3>1, <3>2
  <2>6. CASE Here
    BY <1>0, <2>1, <2>6 DEF Here, Goto
  <2>7. CASE SetupBailout
    BY <2>2, <2>7 DEF SetupBailout
  <2>8. CASE Closing
    BY <1>0, <2>1, <2>2, <2>8 DEF Closing, Goto
  <2>9. CASE Report
    BY <1>0, <2>1, <2>2, <2>9 DEF Report, Goto
  <2>10. CASE Free
    BY <2>2, <2>10 DEF Free
  <2> QED  BY <1>1, <2>3, <2>4, <2>5, <2>6, <2>7, <2>8, <2>9, <2>10 DEF MainStep
<1>2. ASSUME NEW q \in Participants, NEW b \in Barriers, BarrierWait(q, b)
      PROVE  FALSE
  <2>1. pc'[p] \in {pc[p], "blocked", "finish", "fulfil", "closing", "end"}
    <3>1. CASE canary[b] + 1 = Threshold
      BY <1>2, <3>1 DEF BarrierWait, Beyond
    <3>2. CASE canary[b] + 1 # Threshold
      BY <1>0, <1>2, <3>2 DEF BarrierWait, Goto
    <3> QED  BY <3>1, <3>2
  <2> QED  BY <2>1
<1>3. ASSUME NEW q \in Participants, DoerStep(q)
      PROVE  Loop(p)
  <2>1. CASE \E b \in Barriers : BarrierWait(q, b)
    BY <1>2, <2>1
  <2>2. CASE ThreadNew(q)
    BY <1>0, <2>2 DEF ThreadNew, Goto
  <2>3. CASE Loop(q)
    <3>1. q = p
      BY <1>0, <2>3 DEF Loop, Goto
    <3> QED  BY <2>3, <3>1
  <2>4. CASE RunBenchmark(q)
    BY <2>4 DEF RunBenchmark
  <2>5. CASE PassEnd(q)
    BY <1>0, <2>5 DEF PassEnd, Goto
  <2>6. CASE CheckFailed(q)
    BY <1>0, <2>6 DEF CheckFailed, Goto
  <2>7. CASE Dispose(q)
    BY <1>0, <2>7 DEF Dispose, Goto
  <2>8. CASE Fulfilled(q)
    BY <1>0, <2>8 DEF Fulfilled, Goto
  <2>9. CASE DoerDestroy(q)
    BY <1>0, <2>9 DEF DoerDestroy, Goto
  <2>10. CASE HistogramDestroy(q)
    BY <1>0, <2>10 DEF HistogramDestroy, Goto
  <2> QED  BY <1>3, <2>1, <2>2, <2>3, <2>4, <2>5, <2>6, <2>7, <2>8, <2>9, <2>10
           DEF DoerStep
<1>4. CASE Exited
  BY <1>4 DEF Exited, vars
<1> QED  BY <1>1, <1>3, <1>4 DEF Next

(* With -c nobody leaves the loop before everybody has completed a pass,  *)
(* unless somebody failed: doers_count, which shrinks as doers leave, is  *)
(* never undercut by doers_done too early.                                *)
THEOREM CompleteTogether ==
    ASSUME MinThreads \in Nat
    PROVE  Spec => CompletesTogether
<1>1. IInv /\ [Next]_vars =>
        [\A p \in Participants :
           (conf.continuous_completing /\ pc[p] = "loop" /\ pc'[p] = "dispose")
           => \/ \A q \in Doing : passes[q] >= NRepeat
              \/ \E q \in Doing : rc[q] # 0]_vars
  <2> SUFFICES ASSUME IInv, Next, NEW p \in Participants,
                      conf.continuous_completing, pc[p] = "loop",
                      pc'[p] = "dispose"
               PROVE  \/ \A q \in Doing : passes[q] >= NRepeat
                      \/ \E q \in Doing : rc[q] # 0
    OBVIOUS
  <2>1. Loop(p)
    BY OnlyLoopStops
  <2>2. ~(doers_done < doers_count)
    BY <2>1, ParticipantsFinite DEF Loop, Goto, IInv, TypeOK
  <2> QED  BY <2>2, LoopExit DEF CompletedOrFailed
<1> QED  BY <1>1, InductiveInvariant, PTL DEF Spec, CompletesTogether
=============================================================================
