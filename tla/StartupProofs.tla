--------------------------- MODULE StartupProofs ---------------------------
(***************************************************************************)
(* The program runs what the command line asks for and gives back what it  *)
(* took, for every command line, of any length, for any options of the     *)
(* mdbx driver and any number of failures.                                 *)
(*                                                                         *)
(* The argument: in the loop of ia_configparse the configuration is what   *)
(* the options read so far ask for (AskedFor), and the driver options are  *)
(* the arguments of the -o among them, in order (Collected).  While they   *)
(* are passed on, the globals of ia_mdbx.c are what the items read so far  *)
(* say, the last one on a name counting (Settled); the place reached is    *)
(* known from what is left of the lists (LoopInv).  At the end the two     *)
(* orders, of the items in the lists and of those on the command line, are *)
(* the same (LastWordIsSetting).                                           *)
(***************************************************************************)
EXTENDS Startup, TLAPS

NameSet == {Names[k] : k \in 1 .. Len(Names)}
Lists == Seq([name : STRING, value : STRING])

(* Of the first p options of a, the last one with the letter has the       *)
(* argument v; if there is none v is the default.                          *)
Latest(a, p, letter, default, v) ==
    \/ v = default /\ \A k \in 1 .. p : a[k].opt # letter
    \/ \E k \in 1 .. p :
          /\ a[k].opt = letter /\ v = a[k].arg
          /\ \A l \in 1 .. p : a[l].opt = letter => l <= k

(* d are the arguments of the -o among the first p options of a, in order. *)
Collected(a, p, d) ==
    \E f \in [1 .. Len(d) -> 1 .. p] :
        /\ \A i, j \in 1 .. Len(d) : i < j => f[i] < f[j]
        /\ \A i \in 1 .. Len(d) : a[f[i]].opt = "o" /\ a[f[i]].arg = d[i]
        /\ \A k \in 1 .. p :
              a[k].opt = "o" => \E i \in 1 .. Len(d) : f[i] = k

(* s is the end of t. *)
IsEndOf(s, t) ==
    /\ Len(s) <= Len(t)
    /\ \A i \in 1 .. Len(s) : s[i] = t[Len(t) - Len(s) + i]

(* Item j of list i is not after item m of list q. *)
Behind(q, m, i, j) == i < q \/ (i = q /\ j <= m)

(* The items of the lists d up to item m of list q have names that are     *)
(* known, or are the empty text after a last comma.                        *)
Sound(d, q, m) ==
    \A i \in 1 .. Len(d) : \A j \in 1 .. Len(d[i]) :
        Behind(q, m, i, j) => d[i][j].name \in NameSet \cup {""}

(* And the last one of them that names x says v. *)
LastSays(d, q, m, x, v) ==
    \/ /\ v = "default"
       /\ \A i \in 1 .. Len(d) : \A j \in 1 .. Len(d[i]) :
             Behind(q, m, i, j) => d[i][j].name # x
    \/ /\ v \in {"on", "off"}
       /\ \E i \in 1 .. Len(d) : \E j \in 1 .. Len(d[i]) :
             /\ Behind(q, m, i, j)
             /\ d[i][j].name = x /\ d[i][j].value = v
             /\ \A k \in 1 .. Len(d) : \A l \in 1 .. Len(d[k]) :
                   Behind(q, m, k, l) /\ d[k][l].name = x => Behind(i, j, k, l)

Settled(d, q, m, g) ==
    Sound(d, q, m) /\ \A x \in NameSet : LastSays(d, q, m, x, g[x])

Parsed == {"init", "options", "loop", "open", "run"}
PassedOn == {"options", "loop", "open", "run"}

(* How many options getopt has reached, and how many -o were passed on. *)
Reached == Len(args) - Len(argv)
Passed == Len(conf.drv_opts) - Len(opts)

ConfFields == {"ptr", "driver_if", "drv_opts", "path", "ksize", "benchmark",
               "benchmark_list", "syncmode", "walmode"}

IsConf(c) ==
    /\ c = [x \in ConfFields |-> c[x]]
    /\ c.ptr \in [Blocks -> {"null", "held", "freed"}]

(* The types that the rest needs. *)
ShapeInv ==
    /\ args \in CommandLines
    /\ argv \in Seq({args[k] : k \in 1 .. Len(args)}) /\ IsEndOf(argv, args)
    /\ IsConf(conf)
    /\ globals \in [NameSet -> Settings]
    /\ pc \in {"configinit", "parse", "free", "exited", "aborted"} \cup Parsed

(* c is what the first p options of a ask for. *)
AskedFor(a, p, c) ==
    /\ c.driver_if \in Drivers \cup {"null"}
    /\ c.benchmark \in Seq(STRING \cup Benchmarks)
    /\ c.ksize \in Int
    /\ c.syncmode \in SyncModes
    /\ c.walmode \in WalModes
    /\ c.drv_opts \in Seq(Lists \ {<<>>})
    /\ Latest(a, p, "D", "null", c.driver_if)
    /\ Latest(a, p, "B", <<"set", "get">>, c.benchmark)
    /\ Latest(a, p, "p", "./_ioarena", c.path)
    /\ Latest(a, p, "k", 16, c.ksize)
    /\ Latest(a, p, "m", "lazy", c.syncmode)
    /\ Latest(a, p, "l", "indef", c.walmode)
    /\ Collected(a, p, c.drv_opts)

(* The checks that follow the loop of ia_configparse have been made. *)
Checked(c) ==
    /\ c.driver_if # "null" /\ c.ksize > 0 /\ Known(c.benchmark)
    /\ c.drv_opts = <<>> \/ TakesOptions(c.driver_if)
    /\ c.benchmark_list = {c.benchmark[k] : k \in 1 .. Len(c.benchmark)}

ParseInv ==
    /\ pc = "configinit" =>
          /\ argv = args
          /\ conf.driver_if = "null" /\ conf.drv_opts = <<>>
          /\ conf.walmode = "indef"
    /\ pc = "parse" => AskedFor(args, Reached, conf)
    /\ pc \in Parsed => AskedFor(args, Len(args), conf) /\ Checked(conf)

OptionsInv ==
    /\ pc \in {"configinit", "parse", "init"} =>
          globals = [x \in NameSet |-> "default"]
    /\ pc \in PassedOn =>
          /\ driver = conf.driver_if
          /\ opts \in Seq(Lists \ {<<>>}) /\ IsEndOf(opts, conf.drv_opts)
    /\ pc = "options" => Settled(conf.drv_opts, Passed + 1, 0, globals)
    /\ pc \in {"open", "run"} =>
          Settled(conf.drv_opts, Len(conf.drv_opts) + 1, 0, globals)

(* In the loop of ia_mdbx_option: the items before arg are settled, or, if *)
(* the last one was, the whole list.                                       *)
LoopInv ==
    pc = "loop" =>
        /\ Passed \in 1 .. Len(conf.drv_opts)
        /\ n \in 1 .. Len(Names) + 1 /\ done \in {-1, 0, 1}
        /\ arg \in Lists \ {<<>>}
        /\ done = 0 =>
              /\ IsEndOf(arg, conf.drv_opts[Passed])
              /\ Settled(conf.drv_opts, Passed,
                         Len(conf.drv_opts[Passed]) - Len(arg), globals)
        /\ done = 1 => Settled(conf.drv_opts, Passed + 1, 0, globals)

(* The strings that are allocated are those that c points to. *)
Accounted(c, s) ==
    /\ \A b \in Blocks : c.ptr[b] # "freed"
    /\ s = [b \in Blocks |-> IF c.ptr[b] = "held" THEN 1 ELSE 0]

(* What there is to give back, and that it has not been given back yet. *)
ReleaseInv ==
    /\ pc # "exited" => Accounted(conf, strings)
    /\ pc \in {"configinit", "parse", "init"} => driver = "null"
    /\ pc \notin {"run", "free", "exited", "aborted"} =>
          priv = "null" /\ handle = "null"
    /\ pc = "run" =>
          /\ priv \in {"made", "open"}
          /\ handle = "open" \/ (driver = "vedisdb" /\ handle = "null")
          /\ driver # "null"
    /\ pc = "free" =>
          /\ priv \in {"null", "made", "open"}
          /\ driver = "null" => priv = "null"
          /\ priv = "null" => handle = "null"
    /\ GivenBack

FlagsInv ==
    pc = "run" /\ driver = "mdbx" => flags = PeekOptions(WalFlags(conf))

(* The inductive invariant. *)
StartupInv ==
    /\ ShapeInv /\ ParseInv /\ OptionsInv /\ LoopInv /\ ReleaseInv /\ FlagsInv

----------------------------------------------------------------------------
(* The command line: what the last option of a kind says, as it is read.   *)

(* One more option is read. *)
LEMMA LatestStep ==
    ASSUME NEW a, NEW p \in Nat, NEW letter, NEW default, NEW v,
           Latest(a, p, letter, default, v)
    PROVE  /\ a[p + 1].opt # letter => Latest(a, p + 1, letter, default, v)
           /\ a[p + 1].opt = letter =>
                 Latest(a, p + 1, letter, default, a[p + 1].arg)
<1>1. \A k : k \in 1 .. p + 1 <=> k \in 1 .. p \/ k = p + 1
  OBVIOUS
<1>2. ASSUME a[p + 1].opt # letter
      PROVE  Latest(a, p + 1, letter, default, v)
  <2>1. CASE v = default /\ \A k \in 1 .. p : a[k].opt # letter
    BY <1>1, <1>2, <2>1 DEF Latest
  <2>2. CASE \E k \in 1 .. p :
                /\ a[k].opt = letter /\ v = a[k].arg
                /\ \A l \in 1 .. p : a[l].opt = letter => l <= k
    BY <1>1, <1>2, <2>2 DEF Latest
  <2> QED  BY <2>1, <2>2 DEF Latest
<1>3. ASSUME a[p + 1].opt = letter
      PROVE  Latest(a, p + 1, letter, default, a[p + 1].arg)
  <2>1. p + 1 \in 1 .. p + 1 /\ \A l \in 1 .. p + 1 : l <= p + 1
    OBVIOUS
  <2> QED  BY <1>3, <2>1 DEF Latest
<1> QED  BY <1>2, <1>3

(* Before the first one, the default counts. *)
LEMMA LatestNone ==
    ASSUME NEW a, NEW letter, NEW default
    PROVE  Latest(a, 0, letter, default, default)
<1>1. 1 .. 0 = {}
  OBVIOUS
<1> QED  BY <1>1 DEF Latest

(* After the last one, Latest is LastOf. *)
LEMMA LatestIsLast ==
    ASSUME NEW letter, NEW default, NEW v, Len(args) \in Nat,
           Latest(args, Len(args), letter, default, v)
    PROVE  v = LastOf(letter, default)
<1> DEFINE S == {k \in 1 .. Len(args) : args[k].opt = letter}
<1>1. CASE v = default /\ \A k \in 1 .. Len(args) : args[k].opt # letter
  <2>1. S = {}
    BY <1>1
  <2> QED  BY <1>1, <2>1 DEF LastOf
<1>2. CASE \E k \in 1 .. Len(args) :
              /\ args[k].opt = letter /\ v = args[k].arg
              /\ \A l \in 1 .. Len(args) : args[l].opt = letter => l <= k
  <2>1. PICK k \in 1 .. Len(args) :
              /\ args[k].opt = letter /\ v = args[k].arg
              /\ \A l \in 1 .. Len(args) : args[l].opt = letter => l <= k
    BY <1>2
  <2>2. k \in S /\ \A l \in S : l <= k
    BY <2>1
  <2>3. \A m \in S : (\A l \in S : l <= m) => m = k
    BY <2>2
  <2>4. (CHOOSE m \in S : \A l \in S : l <= m) = k
    <3> HIDE DEF S
    <3> QED  BY <2>2, <2>3
  <2>5. S # {}
    BY <2>2
  <2> QED  BY <2>1, <2>4, <2>5 DEF LastOf
<1> QED  BY <1>1, <1>2 DEF Latest

(* Without a driver option there was no -o. *)
LEMMA CollectedNone ==
    ASSUME NEW a, NEW p \in Nat, Collected(a, p, <<>>)
    PROVE  \A k \in 1 .. p : a[k].opt # "o"
<1>1. 1 .. Len(<<>>) = {}
  OBVIOUS
<1> QED  BY <1>1 DEF Collected

(* Before the first option nothing is collected. *)
LEMMA CollectedFirst ==
    ASSUME NEW a
    PROVE  Collected(a, 0, <<>>)
<1> DEFINE f == [i \in 1 .. Len(<<>>) |-> 0]
<1>1. 1 .. Len(<<>>) = {} /\ 1 .. 0 = {}
  OBVIOUS
<1>2. f \in [1 .. Len(<<>>) -> 1 .. 0]
  BY <1>1
<1> QED  BY <1>1, <1>2 DEF Collected

(* An option that is no -o leaves the collection as it is. *)
LEMMA CollectedSame ==
    ASSUME NEW a, NEW p \in Nat, NEW d, Collected(a, p, d),
           a[p + 1].opt # "o"
    PROVE  Collected(a, p + 1, d)
<1>1. \A k : k \in 1 .. p + 1 <=> k \in 1 .. p \/ k = p + 1
  OBVIOUS
<1>2. PICK f \in [1 .. Len(d) -> 1 .. p] :
        /\ \A i, j \in 1 .. Len(d) : i < j => f[i] < f[j]
        /\ \A i \in 1 .. Len(d) : a[f[i]].opt = "o" /\ a[f[i]].arg = d[i]
        /\ \A k \in 1 .. p :
              a[k].opt = "o" => \E i \in 1 .. Len(d) : f[i] = k
  BY DEF Collected
<1>3. f \in [1 .. Len(d) -> 1 .. p + 1]
  BY <1>1, <1>2
<1>4. \A k \in 1 .. p + 1 : a[k].opt = "o" => \E i \in 1 .. Len(d) : f[i] = k
  BY <1>1, <1>2
<1> QED  BY <1>2, <1>3, <1>4, Zenon DEF Collected

(* A -o adds one. *)
LEMMA CollectedMore ==
    ASSUME NEW a, NEW p \in Nat, NEW X, NEW d \in Seq(X), Collected(a, p, d),
           a[p + 1].opt = "o", a[p + 1].arg \in X
    PROVE  /\ Collected(a, p + 1, Append(d, a[p + 1].arg))
           /\ Append(d, a[p + 1].arg) \in Seq(X)
<1> DEFINE e == Append(d, a[p + 1].arg)
           N == Len(d)
<1>0. N \in Nat /\ \A i \in 1 .. N : i \in Nat
  OBVIOUS
<1>1. \A k : k \in 1 .. p + 1 <=> k \in 1 .. p \/ k = p + 1
  OBVIOUS
<1>2. PICK f \in [1 .. N -> 1 .. p] :
        /\ \A i, j \in 1 .. N : i < j => f[i] < f[j]
        /\ \A i \in 1 .. N : a[f[i]].opt = "o" /\ a[f[i]].arg = d[i]
        /\ \A k \in 1 .. p :
              a[k].opt = "o" => \E i \in 1 .. N : f[i] = k
  BY DEF Collected
<1>3. /\ e \in Seq(X) /\ Len(e) = N + 1 /\ e[N + 1] = a[p + 1].arg
      /\ \A i \in 1 .. N : e[i] = d[i]
  OBVIOUS
<1> DEFINE g == [i \in 1 .. N + 1 |-> IF i = N + 1 THEN p + 1 ELSE f[i]]
<1> HIDE DEF e, N
<1>4. \A i : i \in 1 .. N + 1 <=> i \in 1 .. N \/ i = N + 1
  BY <1>0
<1>5. \A i \in 1 .. N : i # N + 1
  BY <1>0
<1>6. /\ \A i \in 1 .. N : g[i] = f[i] /\ f[i] \in 1 .. p
      /\ g[N + 1] = p + 1
  BY <1>2, <1>4, <1>5
<1>7. g \in [1 .. N + 1 -> 1 .. p + 1]
  BY <1>1, <1>2, <1>4
<1> HIDE DEF g
<1>8. \A i, j \in 1 .. N + 1 : i < j => g[i] < g[j]
  <2> SUFFICES ASSUME NEW i \in 1 .. N + 1, NEW j \in 1 .. N + 1, i < j
               PROVE  g[i] < g[j]
    OBVIOUS
  <2>1. i \in 1 .. N
    BY <1>0
  <2>2. CASE j = N + 1
    BY <1>6, <2>1, <2>2
  <2>3. CASE j \in 1 .. N
    BY <1>2, <1>6, <2>1, <2>3
  <2> QED  BY <1>4, <2>2, <2>3
<1>9. \A i \in 1 .. N + 1 : a[g[i]].opt = "o" /\ a[g[i]].arg = e[i]
  BY <1>2, <1>3, <1>4, <1>6
<1>10. \A k \in 1 .. p + 1 :
          a[k].opt = "o" => \E i \in 1 .. N + 1 : g[i] = k
  BY <1>1, <1>2, <1>4, <1>6
<1>11. Collected(a, p + 1, e)
  <2>1. /\ g \in [1 .. Len(e) -> 1 .. p + 1]
        /\ \A i, j \in 1 .. Len(e) : i < j => g[i] < g[j]
        /\ \A i \in 1 .. Len(e) : a[g[i]].opt = "o" /\ a[g[i]].arg = e[i]
        /\ \A k \in 1 .. p + 1 :
              a[k].opt = "o" => \E i \in 1 .. Len(e) : g[i] = k
    BY <1>3, <1>7, <1>8, <1>9, <1>10
  <2> QED  BY <2>1 DEF Collected
<1> QED  BY <1>3, <1>11 DEF e

(* What is left when the first of the rest is taken. *)
LEMMA EndTail ==
    ASSUME NEW X, NEW Y, NEW s \in Seq(X), NEW t \in Seq(Y), s # <<>>,
           IsEndOf(s, t)
    PROVE  /\ Head(s) \in X /\ Head(s) = t[Len(t) - Len(s) + 1]
           /\ Tail(s) \in Seq(X) /\ Len(Tail(s)) = Len(s) - 1
           /\ Len(s) \in Nat /\ Len(t) \in Nat
           /\ Len(t) - Len(s) \in Nat
           /\ Len(t) - Len(s) + 1 \in 1 .. Len(t)
           /\ IsEndOf(Tail(s), t)
<1>1. Len(s) \in Nat /\ Len(t) \in Nat /\ Len(s) > 0 /\ Len(s) <= Len(t)
  BY DEF IsEndOf
<1>2. /\ Head(s) = s[1] /\ Tail(s) \in Seq(X) /\ Len(Tail(s)) = Len(s) - 1
      /\ \A i \in 1 .. Len(s) - 1 : Tail(s)[i] = s[i + 1]
  BY <1>1
<1>3. 1 \in 1 .. Len(s) /\ s[1] \in X
  BY <1>1
<1>4. Head(s) = t[Len(t) - Len(s) + 1]
  BY <1>2, <1>3 DEF IsEndOf
<1>5. ASSUME NEW i \in 1 .. Len(s) - 1
      PROVE  Tail(s)[i] = t[Len(t) - (Len(s) - 1) + i]
  <2>1. i + 1 \in 1 .. Len(s)
    BY <1>1
  <2>2. s[i + 1] = t[Len(t) - Len(s) + (i + 1)]
    BY <2>1 DEF IsEndOf
  <2>3. Len(t) - Len(s) + (i + 1) = Len(t) - (Len(s) - 1) + i
    BY <1>1
  <2> QED  BY <1>2, <2>2, <2>3
<1>6. IsEndOf(Tail(s), t)
  BY <1>1, <1>2, <1>5 DEF IsEndOf
<1> QED  BY <1>1, <1>2, <1>3, <1>4, <1>6

(* A sequence is its own end. *)
LEMMA EndSelf ==
    ASSUME NEW X, NEW s \in Seq(X)
    PROVE  IsEndOf(s, s)
  BY DEF IsEndOf

----------------------------------------------------------------------------
(* The items of -o: what the last one on a name says, as they are read.    *)

(* Before the first item is read no name has been set. *)
LEMMA SettledFirst ==
    ASSUME NEW d, NEW g, \A x \in NameSet : g[x] = "default"
    PROVE  Settled(d, 1, 0, g)
<1>1. ASSUME NEW i \in 1 .. Len(d), NEW j \in 1 .. Len(d[i])
      PROVE  ~Behind(1, 0, i, j)
  BY DEF Behind
<1> QED  BY <1>1 DEF Settled, Sound, LastSays

(* Sequences have a length, and elements up to there. *)
LEMMA SeqFacts ==
    ASSUME NEW R, NEW s \in Seq(R)
    PROVE  Len(s) \in Nat /\ \A j \in 1 .. Len(s) : s[j] \in R
OBVIOUS

(* The lists of items, and their items. *)
LEMMA ListFacts ==
    ASSUME NEW d \in Seq(Lists)
    PROVE  /\ Len(d) \in Nat
           /\ \A i \in 1 .. Len(d) : d[i] \in Lists /\ Len(d[i]) \in Nat
           /\ \A i \in 1 .. Len(d) : \A j \in 1 .. Len(d[i]) :
                 /\ d[i][j] \in [name : STRING, value : STRING]
                 /\ i \in Nat /\ j \in Nat /\ j > 0 /\ j <= Len(d[i])
<1>1. Len(d) \in Nat /\ \A i \in 1 .. Len(d) : d[i] \in Lists
  BY SeqFacts
<1>2. ASSUME NEW i \in 1 .. Len(d)
      PROVE  /\ Len(d[i]) \in Nat
             /\ \A j \in 1 .. Len(d[i]) :
                   d[i][j] \in [name : STRING, value : STRING]
  <2>1. d[i] \in Seq([name : STRING, value : STRING])
    BY <1>1 DEF Lists
  <2> QED  BY <2>1, SeqFacts, Zenon
<1>3. ASSUME NEW i \in 1 .. Len(d), NEW j \in 1 .. Len(d[i])
      PROVE  i \in Nat /\ j \in Nat /\ j > 0 /\ j <= Len(d[i])
  <2>1. Len(d) \in Nat /\ Len(d[i]) \in Nat
    BY <1>1, <1>2
  <2> QED  BY <2>1
<1> QED  BY <1>1, <1>2, <1>3

(* Where the same items are behind, the same is settled. *)
LEMMA SettledSame ==
    ASSUME NEW d, NEW g, NEW q, NEW m, NEW q2, NEW m2,
           \A i \in 1 .. Len(d) : \A j \in 1 .. Len(d[i]) :
               Behind(q, m, i, j) <=> Behind(q2, m2, i, j),
           Settled(d, q, m, g)
    PROVE  Settled(d, q2, m2, g)
<1>1. Sound(d, q2, m2)
  BY DEF Settled, Sound
<1>2. ASSUME NEW x \in NameSet
      PROVE  LastSays(d, q2, m2, x, g[x])
  <2>1. LastSays(d, q, m, x, g[x])
    BY DEF Settled
  <2> QED  BY <2>1 DEF LastSays
<1> QED  BY <1>1, <1>2 DEF Settled

(* From the end of one list to the beginning of the next. *)
LEMMA SettledList ==
    ASSUME NEW d \in Seq(Lists), NEW g, NEW q \in 1 .. Len(d)
    PROVE  Settled(d, q, Len(d[q]), g) <=> Settled(d, q + 1, 0, g)
<1>1. ASSUME NEW i \in 1 .. Len(d), NEW j \in 1 .. Len(d[i])
      PROVE  Behind(q, Len(d[q]), i, j) <=> Behind(q + 1, 0, i, j)
  <2>1. /\ i \in Nat /\ j \in Nat /\ j > 0 /\ j <= Len(d[i])
        /\ Len(d) \in Nat /\ Len(d[q]) \in Nat
    BY ListFacts, Zenon
  <2>2. CASE i = q
    BY <2>1, <2>2 DEF Behind
  <2>3. CASE i # q
    BY <2>1, <2>3 DEF Behind
  <2> QED  BY <2>2, <2>3
<1> QED  BY <1>1, SettledSame

(* Numbers of lists, and the place after the last one. *)
LEMMA IndexFacts ==
    ASSUME NEW N \in Nat, NEW i \in 1 .. N
    PROVE  i \in Nat /\ i > 0 /\ i <= N /\ \A j : Behind(N + 1, 0, i, j)
  BY DEF Behind

(* Two places of which none is after the other are the same. *)
LEMMA SamePlace ==
    ASSUME NEW i \in Nat, NEW j \in Nat, NEW k \in Nat, NEW l \in Nat,
           Behind(i, j, k, l), Behind(k, l, i, j)
    PROVE  i = k /\ j = l
  BY DEF Behind

(* The order of the places is that of the items on the command line. *)
LEMMA LaterIsBehind ==
    ASSUME NEW i \in Nat, NEW j \in Nat, NEW k \in Nat, NEW l \in Nat,
           NEW a \in Nat, NEW b \in Nat,
           i < k => a < b, k < i => b < a, i = k => a = b
    PROVE  Later(<<b, l>>, <<a, j>>) <=> ~Behind(i, j, k, l)
  BY DEF Later, Behind

(* The parts of an item. *)
LEMMA ItemFields ==
    ASSUME NEW x, NEW v, NEW z, z = Item(x, v)
    PROVE  z.name = x /\ z.value = v
  BY DEF Item

(* The pairs with a given first part. *)
LEMMA PairFacts ==
    ASSUME NEW k, NEW S, NEW p \in {k} \X S
    PROVE  p[2] \in S /\ p = <<k, p[2]>>
OBVIOUS

(* What is behind when one item more has been read. *)
LEMMA BehindNext ==
    ASSUME NEW q \in Nat, NEW m \in Nat, NEW i \in Nat, NEW j \in Nat
    PROVE  Behind(q, m + 1, i, j) <=>
               Behind(q, m, i, j) \/ (i = q /\ j = m + 1)
  BY DEF Behind

(* Item m + 1 of list q sets the name y, or is the empty text; the globals *)
(* were g and become h.                                                    *)
Settles(d, q, m, g, h, y) ==
    /\ d \in Seq(Lists) /\ q \in 1 .. Len(d)
    /\ m \in Nat /\ m + 1 \in 1 .. Len(d[q])
    /\ Settled(d, q, m, g)
    /\ y \in NameSet \/ y = ""
    /\ d[q][m + 1].name = y
    /\ y \in NameSet => /\ d[q][m + 1].value \in {"on", "off"}
                        /\ h[y] = d[q][m + 1].value
    /\ \A x \in NameSet : x # y => h[x] = g[x]

(* Then one more is settled. *)
LEMMA SettledItem ==
    ASSUME NEW d, NEW q, NEW m, NEW g, NEW h, NEW y,
           Settles(d, q, m, g, h, y)
    PROVE  Settled(d, q, m + 1, h)
<1> SUFFICES
      ASSUME d \in Seq(Lists), q \in 1 .. Len(d),
             m \in Nat, m + 1 \in 1 .. Len(d[q]),
             Settled(d, q, m, g),
             y \in NameSet \/ y = "",
             d[q][m + 1].name = y,
             y \in NameSet => /\ d[q][m + 1].value \in {"on", "off"}
                              /\ h[y] = d[q][m + 1].value,
             \A x \in NameSet : x # y => h[x] = g[x]
      PROVE  Settled(d, q, m + 1, h)
  BY Zenon DEF Settles
<1>1. ASSUME NEW i \in 1 .. Len(d), NEW j \in 1 .. Len(d[i])
      PROVE  /\ Behind(q, m + 1, i, j) <=>
                    Behind(q, m, i, j) \/ (i = q /\ j = m + 1)
             /\ i \in Nat /\ j \in Nat
  <2>1. i \in Nat /\ j \in Nat /\ Len(d) \in Nat
    BY ListFacts, Zenon
  <2>2. q \in Nat
    BY <2>1, IndexFacts, Zenon
  <2> QED  BY <2>1, <2>2, BehindNext, Zenon
<1>2. Sound(d, q, m + 1)
  BY <1>1 DEF Settled, Sound
<1>3. ASSUME NEW x \in NameSet, x # y
      PROVE  LastSays(d, q, m + 1, x, h[x])
  <2>1. LastSays(d, q, m, x, g[x]) /\ h[x] = g[x]
    BY <1>3 DEF Settled
  <2>2. CASE /\ g[x] = "default"
             /\ \A i \in 1 .. Len(d) : \A j \in 1 .. Len(d[i]) :
                   Behind(q, m, i, j) => d[i][j].name # x
    BY <1>1, <1>3, <2>1, <2>2 DEF LastSays
  <2>3. CASE /\ g[x] \in {"on", "off"}
             /\ \E i \in 1 .. Len(d) : \E j \in 1 .. Len(d[i]) :
                  /\ Behind(q, m, i, j)
                  /\ d[i][j].name = x /\ d[i][j].value = g[x]
                  /\ \A k \in 1 .. Len(d) : \A l \in 1 .. Len(d[k]) :
                        Behind(q, m, k, l) /\ d[k][l].name = x
                            => Behind(i, j, k, l)
    <3>1. PICK i, j : /\ i \in 1 .. Len(d) /\ j \in 1 .. Len(d[i])
                      /\ Behind(q, m, i, j)
                      /\ d[i][j].name = x /\ d[i][j].value = g[x]
                      /\ \A k \in 1 .. Len(d) : \A l \in 1 .. Len(d[k]) :
                            Behind(q, m, k, l) /\ d[k][l].name = x
                                => Behind(i, j, k, l)
      BY <2>3
    <3>2. Behind(q, m + 1, i, j)
      BY <1>1, <3>1
    <3>3. \A k \in 1 .. Len(d) : \A l \in 1 .. Len(d[k]) :
             Behind(q, m + 1, k, l) /\ d[k][l].name = x => Behind(i, j, k, l)
      BY <1>1, <1>3, <3>1
    <3> QED  BY <2>1, <2>3, <3>1, <3>2, <3>3 DEF LastSays
  <2> QED  BY <2>1, <2>2, <2>3 DEF LastSays
<1>4. ASSUME y \in NameSet
      PROVE  LastSays(d, q, m + 1, y, h[y])
  <2>1. Behind(q, m + 1, q, m + 1)
    BY <1>1
  <2>2. \A k \in 1 .. Len(d) : \A l \in 1 .. Len(d[k]) :
           Behind(q, m + 1, k, l) => Behind(q, m + 1, k, l)
    OBVIOUS
  <2> QED  BY <1>4, <2>1, <2>2 DEF LastSays
<1> QED  BY <1>2, <1>3, <1>4 DEF Settled

(* When everything is read, the last word on a name is its setting. *)
LEMMA LastWordIsSetting ==
    ASSUME NEW d \in Seq(Lists), NEW g, NEW x, NEW v \in {"on", "off"},
           x # "", Len(args) \in Nat,
           Collected(args, Len(args), d),
           Settled(d, Len(d) + 1, 0, g)
    PROVE  LastWord(x, v) <=> x \in NameSet /\ g[x] = v
<1>1. PICK f \in [1 .. Len(d) -> 1 .. Len(args)] :
        /\ \A i, j \in 1 .. Len(d) : i < j => f[i] < f[j]
        /\ \A i \in 1 .. Len(d) : args[f[i]].opt = "o" /\ args[f[i]].arg = d[i]
        /\ \A k \in 1 .. Len(args) :
              args[k].opt = "o" => \E i \in 1 .. Len(d) : f[i] = k
  BY DEF Collected
<1>2. ASSUME NEW i \in 1 .. Len(d), NEW j \in 1 .. Len(d[i])
      PROVE  /\ <<f[i], j>> \in Places
             /\ ItemAt(<<f[i], j>>) = d[i][j]
             /\ Behind(Len(d) + 1, 0, i, j)
             /\ i \in Nat /\ j \in Nat
  <2>1. /\ f[i] \in 1 .. Len(args) /\ args[f[i]].opt = "o"
        /\ args[f[i]].arg = d[i]
    BY <1>1
  <2>2. <<f[i], j>> \in {f[i]} \X (1 .. Len(args[f[i]].arg))
    BY <2>1
  <2>3. <<f[i], j>> \in Places
    BY <2>1, <2>2 DEF Places
  <2>4. Behind(Len(d) + 1, 0, i, j) /\ i \in Nat /\ j \in Nat
    <3>1. i \in Nat /\ j \in Nat /\ Len(d) \in Nat
      BY ListFacts, Zenon
    <3> QED  BY <3>1, IndexFacts, Zenon
  <2> QED  BY <2>1, <2>3, <2>4 DEF ItemAt
<1>3. ASSUME NEW p \in Places
      PROVE  \E i \in 1 .. Len(d) : \E j \in 1 .. Len(d[i]) : p = <<f[i], j>>
  <2>1. PICK k \in 1 .. Len(args) :
            args[k].opt = "o" /\ p \in {k} \X (1 .. Len(args[k].arg))
    BY DEF Places
  <2>2. PICK i \in 1 .. Len(d) : f[i] = k
    BY <1>1, <2>1
  <2>3. args[k].arg = d[i]
    BY <1>1, <2>2
  <2>4. p[2] \in 1 .. Len(d[i]) /\ p = <<f[i], p[2]>>
    BY <2>1, <2>2, <2>3, PairFacts, Zenon
  <2> QED  BY <2>4, Zenon
<1>4. ASSUME NEW i \in 1 .. Len(d), NEW j \in 1 .. Len(d[i]),
             NEW k \in 1 .. Len(d), NEW l \in 1 .. Len(d[k])
      PROVE  Later(<<f[k], l>>, <<f[i], j>>) <=> ~Behind(i, j, k, l)
  <2>1. /\ i < k => f[i] < f[k]
        /\ k < i => f[k] < f[i]
        /\ i = k => f[i] = f[k]
    BY <1>1, Zenon
  <2>2. i \in Nat /\ k \in Nat /\ j \in Nat /\ l \in Nat
    BY <1>2, Zenon
  <2>3. f[i] \in 1 .. Len(args) /\ f[k] \in 1 .. Len(args)
    BY <1>1, Zenon
  <2>4. f[i] \in Nat /\ f[k] \in Nat
    BY <2>3, IndexFacts, Zenon
  <2> QED  BY <2>1, <2>2, <2>4, LaterIsBehind, Zenon
<1>5. ASSUME LastWord(x, v)
      PROVE  x \in NameSet /\ g[x] = v
  <2>1. PICK p \in Places : /\ ItemAt(p) = Item(x, v)
                            /\ \A r \in Places :
                                  Later(r, p) => ItemAt(r).name # x
    BY <1>5 DEF LastWord
  <2>2. PICK i, j : /\ i \in 1 .. Len(d) /\ j \in 1 .. Len(d[i])
                    /\ p = <<f[i], j>>
    BY <1>3
  <2>3. d[i][j].name = x /\ d[i][j].value = v
    <3>1. ItemAt(p) = d[i][j]
      BY <1>2, <2>2, Zenon
    <3>2. d[i][j] = Item(x, v)
      BY <2>1, <3>1, Zenon
    <3>3. \A z : z = Item(x, v) => z.name = x /\ z.value = v
      BY ItemFields
    <3>4. d[i][j].name = x
      BY <3>2, <3>3, Zenon
    <3>5. d[i][j].value = v
      BY <3>2, <3>3, Zenon
    <3> QED  BY <3>4, <3>5, Zenon
  <2>4. x \in NameSet
    BY <1>2, <2>2, <2>3 DEF Settled, Sound
  <2>5. LastSays(d, Len(d) + 1, 0, x, g[x])
    BY <2>4 DEF Settled
  <2>6. ~(\A k \in 1 .. Len(d) : \A l \in 1 .. Len(d[k]) :
             Behind(Len(d) + 1, 0, k, l) => d[k][l].name # x)
    BY <1>2, <2>2, <2>3
  <2>7. PICK k, l : /\ k \in 1 .. Len(d) /\ l \in 1 .. Len(d[k])
                    /\ d[k][l].name = x /\ d[k][l].value = g[x]
                    /\ \A a \in 1 .. Len(d) : \A b \in 1 .. Len(d[a]) :
                          Behind(Len(d) + 1, 0, a, b) /\ d[a][b].name = x
                              => Behind(k, l, a, b)
    BY <2>5, <2>6 DEF LastSays
  <2>8. Behind(k, l, i, j)
    BY <1>2, <2>2, <2>3, <2>7
  <2>9. Behind(i, j, k, l)
    <3>1. ~Later(<<f[k], l>>, <<f[i], j>>)
      BY <1>2, <2>1, <2>2, <2>7
    <3> QED  BY <1>4, <2>2, <2>7, <3>1
  <2>10. i = k /\ j = l
    <3>1. i \in Nat /\ j \in Nat /\ k \in Nat /\ l \in Nat
      BY <1>2, <2>2, <2>7
    <3> QED  BY <2>8, <2>9, <3>1, SamePlace, Zenon
  <2> QED  BY <2>3, <2>4, <2>7, <2>10
<1>6. ASSUME x \in NameSet, g[x] = v
      PROVE  LastWord(x, v)
  <2>1. LastSays(d, Len(d) + 1, 0, x, g[x]) /\ g[x] # "default"
    BY <1>6 DEF Settled
  <2>2. PICK k, l : /\ k \in 1 .. Len(d) /\ l \in 1 .. Len(d[k])
                    /\ d[k][l].name = x /\ d[k][l].value = v
                    /\ \A a \in 1 .. Len(d) : \A b \in 1 .. Len(d[a]) :
                          Behind(Len(d) + 1, 0, a, b) /\ d[a][b].name = x
                              => Behind(k, l, a, b)
    BY <1>6, <2>1 DEF LastSays
  <2>3. <<f[k], l>> \in Places /\ ItemAt(<<f[k], l>>) = d[k][l]
    BY <1>2, <2>2
  <2>4. d[k][l] = Item(x, v)
    <3>1. d[k][l] \in [name : STRING, value : STRING]
      BY <2>2, ListFacts
    <3> QED  BY <2>2, <3>1 DEF Item
  <2>5. ASSUME NEW r \in Places, Later(r, <<f[k], l>>)
        PROVE  ItemAt(r).name # x
    <3>1. PICK i, j : /\ i \in 1 .. Len(d) /\ j \in 1 .. Len(d[i])
                      /\ r = <<f[i], j>>
      BY <1>3
    <3>2. ~Behind(k, l, i, j)
      BY <1>4, <2>2, <2>5, <3>1
    <3>3. d[i][j].name # x
      BY <1>2, <2>2, <3>1, <3>2
    <3> QED  BY <1>2, <3>1, <3>3
  <2> QED  BY <2>3, <2>4, <2>5 DEF LastWord
<1> QED  BY <1>5, <1>6

----------------------------------------------------------------------------
(* The loop of ia_configparse. *)

(* What an option does to the configuration. *)
Stored(o, c, e) ==
    /\ e.driver_if = IF o.opt = "D" THEN o.arg ELSE c.driver_if
    /\ e.benchmark = IF o.opt = "B" THEN o.arg ELSE c.benchmark
    /\ e.path = IF o.opt = "p" THEN o.arg ELSE c.path
    /\ e.ksize = IF o.opt = "k" THEN o.arg ELSE c.ksize
    /\ e.syncmode = IF o.opt = "m" THEN o.arg ELSE c.syncmode
    /\ e.walmode = IF o.opt = "l" THEN o.arg ELSE c.walmode
    /\ e.drv_opts = IF o.opt = "o" THEN Append(c.drv_opts, o.arg)
                    ELSE c.drv_opts

(* And which options go on. *)
Accepted(o) ==
    /\ o.opt = "D" => o.arg \in Drivers
    /\ o.opt = "m" => o.arg \in SyncModes
    /\ o.opt = "l" => o.arg \in WalModes

(* One option more is stored. *)
LEMMA AskedForStep ==
    ASSUME NEW a, NEW p \in Nat, NEW c, NEW e, AskedFor(a, p, c),
           IsOption(a[p + 1]), Accepted(a[p + 1]), Stored(a[p + 1], c, e)
    PROVE  AskedFor(a, p + 1, e)
<1> DEFINE o == a[p + 1]
<1>1. /\ e.driver_if \in Drivers \cup {"null"}
      /\ Latest(a, p + 1, "D", "null", e.driver_if)
  <2>1. Latest(a, p, "D", "null", c.driver_if)
    BY DEF AskedFor
  <2>2. CASE o.opt = "D"
    BY <2>1, <2>2, LatestStep DEF Stored, Accepted
  <2>3. CASE o.opt # "D"
    BY <2>1, <2>3, LatestStep DEF Stored, AskedFor
  <2> QED  BY <2>2, <2>3
<1>2. /\ e.benchmark \in Seq(STRING \cup Benchmarks)
      /\ Latest(a, p + 1, "B", <<"set", "get">>, e.benchmark)
  <2>1. Latest(a, p, "B", <<"set", "get">>, c.benchmark)
    BY DEF AskedFor
  <2>2. CASE o.opt = "B"
    <3>1. o.arg \in Seq(STRING) /\ e.benchmark = o.arg
      BY <2>2 DEF Stored, IsOption
    <3>2. e.benchmark \in Seq(STRING \cup Benchmarks)
      BY <3>1
    <3> QED  BY <2>1, <2>2, <3>1, <3>2, LatestStep
  <2>3. CASE o.opt # "B"
    BY <2>1, <2>3, LatestStep DEF Stored, AskedFor
  <2> QED  BY <2>2, <2>3
<1>3. e.ksize \in Int /\ Latest(a, p + 1, "k", 16, e.ksize)
  <2>1. Latest(a, p, "k", 16, c.ksize)
    BY DEF AskedFor
  <2>2. CASE o.opt = "k"
    BY <2>1, <2>2, LatestStep DEF Stored, IsOption
  <2>3. CASE o.opt # "k"
    BY <2>1, <2>3, LatestStep DEF Stored, AskedFor
  <2> QED  BY <2>2, <2>3
<1>4. e.syncmode \in SyncModes /\ Latest(a, p + 1, "m", "lazy", e.syncmode)
  <2>1. Latest(a, p, "m", "lazy", c.syncmode)
    BY DEF AskedFor
  <2>2. CASE o.opt = "m"
    BY <2>1, <2>2, LatestStep DEF Stored, Accepted
  <2>3. CASE o.opt # "m"
    BY <2>1, <2>3, LatestStep DEF Stored, AskedFor
  <2> QED  BY <2>2, <2>3
<1>5. e.walmode \in WalModes /\ Latest(a, p + 1, "l", "indef", e.walmode)
  <2>1. Latest(a, p, "l", "indef", c.walmode)
    BY DEF AskedFor
  <2>2. CASE o.opt = "l"
    BY <2>1, <2>2, LatestStep DEF Stored, Accepted
  <2>3. CASE o.opt # "l"
    BY <2>1, <2>3, LatestStep DEF Stored, AskedFor
  <2> QED  BY <2>2, <2>3
<1>6. /\ e.drv_opts \in Seq(Lists \ {<<>>})
      /\ Collected(a, p + 1, e.drv_opts)
  <2>1. Collected(a, p, c.drv_opts) /\ c.drv_opts \in Seq(Lists \ {<<>>})
    BY DEF AskedFor
  <2>2. CASE o.opt = "o"
    <3>1. o.arg \in Lists \ {<<>>}
      BY <2>2 DEF IsOption, Lists
    <3>2. e.drv_opts = Append(c.drv_opts, o.arg)
      BY <2>2 DEF Stored
    <3> QED  BY <2>1, <2>2, <3>1, <3>2, CollectedMore, Zenon
  <2>3. CASE o.opt # "o"
    <3>1. e.drv_opts = c.drv_opts
      BY <2>3 DEF Stored
    <3> QED  BY <2>1, <2>3, <3>1, CollectedSame, Zenon
  <2> QED  BY <2>2, <2>3
<1>7. Latest(a, p + 1, "p", "./_ioarena", e.path)
  BY LatestStep DEF Stored, AskedFor
<1> QED  BY <1>1, <1>2, <1>3, <1>4, <1>5, <1>6, <1>7 DEF AskedFor

(* The command line is a sequence of options. *)
LEMMA ArgsFacts ==
    ASSUME ShapeInv
    PROVE  /\ args \in Seq({args[k] : k \in 1 .. Len(args)})
           /\ Len(args) \in Nat
           /\ \A k \in 1 .. Len(args) : IsOption(args[k])
<1>1. args \in Seq({args[k] : k \in 1 .. Len(args)})
  BY StartupAssumption DEF ShapeInv
<1> QED  BY <1>1, StartupAssumption, SeqFacts DEF ShapeInv

(* What the options of ia_configparse have in common. *)
ParseEffect ==
    /\ pc = "parse" /\ argv # <<>> /\ argv' = Tail(argv)
    /\ IsConf(conf') /\ Accounted(conf', strings')
    /\ \/ /\ pc' = "parse"
          /\ Accepted(Head(argv)) /\ Stored(Head(argv), conf, conf')
       \/ pc' = "free"
    /\ OnlyConfig

(* A pointer to a new string, or null, where the old one has been freed. *)
LEMMA PointerReplaced ==
    ASSUME IsConf(conf), Accounted(conf, strings), NEW b \in Blocks, NEW e,
           \/ e.ptr = [conf.ptr EXCEPT ![b] = "held"] /\ Dup(b)
           \/ /\ e.ptr = [conf.ptr EXCEPT ![b] = "null"]
              /\ strings' = [strings EXCEPT ![b] = Freed(b)]
    PROVE  Accounted(e, strings')
<1>1. /\ strings = [x \in Blocks |-> IF conf.ptr[x] = "held" THEN 1 ELSE 0]
      /\ \A x \in Blocks : conf.ptr[x] \in {"null", "held"}
      /\ conf.ptr \in [Blocks -> {"null", "held", "freed"}]
  BY DEF Accounted, IsConf
<1>2. Freed(b) = 0
  BY <1>1 DEF Freed
<1>3. CASE e.ptr = [conf.ptr EXCEPT ![b] = "held"] /\ Dup(b)
  <2>1. strings' = [strings EXCEPT ![b] = 1]
    BY <1>2, <1>3 DEF Dup
  <2> QED  BY <1>1, <1>3, <2>1 DEF Accounted
<1>4. CASE /\ e.ptr = [conf.ptr EXCEPT ![b] = "null"]
           /\ strings' = [strings EXCEPT ![b] = Freed(b)]
  BY <1>1, <1>2, <1>4 DEF Accounted
<1> QED  BY <1>3, <1>4

(* -D, -B and -p: a string is replaced and the field f stored. *)
LEMMA StringReplaced ==
    ASSUME IsConf(conf), Accounted(conf, strings), NEW b \in Blocks,
           NEW f \in ConfFields \ {"ptr"}, NEW v, Dup(b),
           conf' = [conf EXCEPT !.ptr[b] = "held", ![f] = v]
    PROVE  /\ IsConf(conf') /\ Accounted(conf', strings') /\ conf'[f] = v
           /\ \A x \in ConfFields \ {"ptr", f} : conf'[x] = conf[x]
<1>1. /\ conf' = [x \in ConfFields |-> conf'[x]] /\ conf'[f] = v
      /\ conf'.ptr = [conf.ptr EXCEPT ![b] = "held"]
      /\ \A x \in ConfFields \ {"ptr", f} : conf'[x] = conf[x]
  BY DEF IsConf, ConfFields
<1>2. conf'.ptr \in [Blocks -> {"null", "held", "freed"}]
  BY <1>1 DEF IsConf
<1> QED  BY <1>1, <1>2, PointerReplaced DEF IsConf

(* Or there is no memory for it. *)
LEMMA StringGone ==
    ASSUME IsConf(conf), Accounted(conf, strings), NEW b \in Blocks, NoDup(b)
    PROVE  IsConf(conf') /\ Accounted(conf', strings')
<1>1. /\ conf' = [x \in ConfFields |-> conf'[x]]
      /\ conf'.ptr = [conf.ptr EXCEPT ![b] = "null"]
  BY DEF NoDup, IsConf, ConfFields
<1>2. conf'.ptr \in [Blocks -> {"null", "held", "freed"}]
  BY <1>1 DEF IsConf
<1> QED  BY <1>1, <1>2, PointerReplaced DEF IsConf, NoDup

(* Every option has that effect. *)
LEMMA ParseEffects ==
    ASSUME StartupInv, Parse, ~ParseEnd
    PROVE  ParseEffect
<1> USE DEF Opt, Quit, Works, Fails, ParseEffect, Accepted, Stored
<1>0. IsConf(conf) /\ (pc = "parse" => Accounted(conf, strings))
  BY DEF StartupInv, ShapeInv, ReleaseInv
<1>b. /\ "driver" \in Blocks /\ "benchmark" \in Blocks /\ "path" \in Blocks
      /\ {"driver_if", "benchmark", "path"} \subseteq ConfFields \ {"ptr"}
  BY DEF Blocks, ConfFields
<1>1. CASE ParseDriver
  <2>1. /\ pc = "parse" /\ argv # <<>> /\ Head(argv).opt = "D"
        /\ argv' = Tail(argv) /\ OnlyConfig
    BY <1>1 DEF ParseDriver
  <2>2. CASE NoDup("driver") /\ pc' = "free"
    BY <1>0, <1>b, <2>1, <2>2, StringGone
  <2>3. CASE /\ Dup("driver")
             /\ conf' = [conf EXCEPT !.ptr["driver"] = "held", !.driver_if =
                            IF Head(argv).arg \in Drivers THEN Head(argv).arg
                            ELSE "null"]
             /\ pc' = IF Head(argv).arg \in Drivers THEN pc ELSE "free"
    <3>1. /\ conf'.driver_if = IF Head(argv).arg \in Drivers
                               THEN Head(argv).arg ELSE "null"
          /\ IsConf(conf') /\ Accounted(conf', strings')
          /\ \A x \in ConfFields \ {"ptr", "driver_if"} : conf'[x] = conf[x]
      <4> DEFINE v == IF Head(argv).arg \in Drivers THEN Head(argv).arg
                      ELSE "null"
      <4>1. conf' = [conf EXCEPT !.ptr["driver"] = "held", !["driver_if"] = v]
        BY <2>3
      <4> HIDE DEF v
      <4>2. /\ conf'["driver_if"] = v
            /\ IsConf(conf') /\ Accounted(conf', strings')
            /\ \A x \in ConfFields \ {"ptr", "driver_if"} :
                 conf'[x] = conf[x]
        BY <1>0, <1>b, <2>1, <2>3, <4>1, StringReplaced
      <4> QED  BY <4>2 DEF v
    <3> QED  BY <2>1, <2>3, <3>1 DEF ConfFields
  <2> QED  BY <1>1, <2>2, <2>3 DEF ParseDriver
<1>2. CASE ParseOption
  BY <1>0, <1>2 DEF ParseOption, IsConf, ConfFields, Accounted
<1>3. CASE ParseBenchmark
  <2>1. /\ pc = "parse" /\ argv # <<>> /\ Head(argv).opt = "B"
        /\ argv' = Tail(argv) /\ OnlyConfig
    BY <1>3 DEF ParseBenchmark
  <2>2. CASE NoDup("benchmark") /\ pc' = "free"
    BY <1>0, <1>b, <2>1, <2>2, StringGone
  <2>3. CASE /\ Dup("benchmark") /\ pc' = pc
             /\ conf' = [conf EXCEPT !.ptr["benchmark"] = "held",
                                     !.benchmark = Head(argv).arg]
    <3>1. /\ conf'.benchmark = Head(argv).arg
          /\ IsConf(conf') /\ Accounted(conf', strings')
          /\ \A x \in ConfFields \ {"ptr", "benchmark"} : conf'[x] = conf[x]
      BY <1>0, <1>b, <2>1, <2>3, StringReplaced
    <3> QED  BY <2>1, <2>3, <3>1 DEF ConfFields
  <2> QED  BY <1>3, <2>2, <2>3 DEF ParseBenchmark
<1>10. CASE ParsePath
  <2>1. /\ pc = "parse" /\ argv # <<>> /\ Head(argv).opt = "p"
        /\ argv' = Tail(argv) /\ OnlyConfig
    BY <1>10 DEF ParsePath
  <2>2. CASE NoDup("path") /\ pc' = "free"
    BY <1>0, <1>b, <2>1, <2>2, StringGone
  <2>3. CASE /\ Dup("path") /\ pc' = pc
             /\ conf' = [conf EXCEPT !.ptr["path"] = "held",
                                     !.path = Head(argv).arg]
    <3>1. /\ conf'.path = Head(argv).arg
          /\ IsConf(conf') /\ Accounted(conf', strings')
          /\ \A x \in ConfFields \ {"ptr", "path"} : conf'[x] = conf[x]
      BY <1>0, <1>b, <2>1, <2>3, StringReplaced
    <3> QED  BY <2>1, <2>3, <3>1 DEF ConfFields
  <2> QED  BY <1>10, <2>2, <2>3 DEF ParsePath
<1>4. CASE ParseKeySize
  BY <1>0, <1>4 DEF ParseKeySize, IsConf, ConfFields, Accounted
<1>5. CASE ParseSyncMode
  BY <1>0, <1>5 DEF ParseSyncMode, IsConf, ConfFields, Accounted
<1>6. CASE ParseWalMode
  BY <1>0, <1>6 DEF ParseWalMode, IsConf, ConfFields, Accounted
<1>7. CASE ParseOther
  BY <1>0, <1>7 DEF ParseOther
<1>8. CASE ParseHelp
  BY <1>0, <1>8 DEF ParseHelp
<1>9. CASE ParseUnknown
  BY <1>0, <1>9 DEF ParseUnknown
<1> QED  BY <1>1, <1>2, <1>3, <1>4, <1>5, <1>6, <1>7, <1>8, <1>9,
            <1>10 DEF Parse

----------------------------------------------------------------------------
(* The invariant, action by action. *)

(* It holds when the program starts. *)
LEMMA StartupInitial ==
    ASSUME Init
    PROVE  StartupInv
<1> USE DEF Init
<1>1. ShapeInv
  <2>1. args \in Seq({args[k] : k \in 1 .. Len(args)})
    BY StartupAssumption
  <2>2. IsEndOf(argv, args)
    BY <2>1, EndSelf
  <2>3. IsConf(conf)
    BY DEF IsConf, ConfFields, Blocks
  <2>4. globals \in [NameSet -> Settings]
    BY DEF NameSet, Settings
  <2> QED  BY <2>1, <2>2, <2>3, <2>4 DEF ShapeInv
<1>2. ParseInv
  BY DEF ParseInv, Parsed
<1>3. OptionsInv /\ LoopInv /\ FlagsInv
  BY DEF OptionsInv, LoopInv, FlagsInv, PassedOn, NameSet
<1>4. ReleaseInv
  BY DEF ReleaseInv, Accounted, GivenBack, Blocks
<1> QED  BY <1>1, <1>2, <1>3, <1>4 DEF StartupInv

(* ia_configinit. *)
LEMMA ConfigInitInv ==
    ASSUME StartupInv, ConfigInit
    PROVE  StartupInv'
<1> DEFINE base == [conf EXCEPT !.path = "./_ioarena", !.ksize = 16,
                                !.benchmark = <<"set", "get">>,
                                !.syncmode = "lazy"]
           held == [b \in Blocks |-> IF b = "driver" THEN "null" ELSE "held"]
<1>1. /\ pc = "configinit"
      /\ UNCHANGED <<args, argv, driver, priv, handle, globals>>
      /\ \/ /\ pc' = "parse" /\ conf' = [base EXCEPT !.ptr = held]
            /\ strings' = [b \in Blocks |-> IF b = "driver" THEN 0 ELSE 1]
         \/ pc' = "free" /\ UNCHANGED <<conf, strings>>
  BY DEF ConfigInit, Quit
<1>2. IsConf(conf) /\ argv = args
  BY <1>1 DEF StartupInv, ShapeInv, ParseInv
<1>3. ASSUME pc' = "parse"
      PROVE  /\ IsConf(conf') /\ conf'.ptr = held
             /\ conf'.path = "./_ioarena"
             /\ conf'.ksize = 16 /\ conf'.benchmark = <<"set", "get">>
             /\ conf'.syncmode = "lazy" /\ conf'.walmode = conf.walmode
             /\ conf'.driver_if = conf.driver_if
             /\ conf'.drv_opts = conf.drv_opts
  <2>1. conf' = [base EXCEPT !.ptr = held]
    BY <1>1, <1>3
  <2>2. /\ base = [x \in ConfFields |-> base[x]]
        /\ base.path = "./_ioarena"
        /\ base.ksize = 16 /\ base.benchmark = <<"set", "get">>
        /\ base.syncmode = "lazy" /\ base.walmode = conf.walmode
        /\ base.driver_if = conf.driver_if /\ base.drv_opts = conf.drv_opts
    BY <1>2 DEF IsConf, ConfFields
  <2>3. held \in [Blocks -> {"null", "held", "freed"}]
    OBVIOUS
  <2> HIDE DEF base, held
  <2> QED  BY <2>1, <2>2, <2>3 DEF IsConf, ConfFields
<1>4. Accounted(conf', strings')
  <2>1. CASE pc' = "parse"
    <3>1. /\ conf'.ptr = held
          /\ strings' = [b \in Blocks |-> IF b = "driver" THEN 0 ELSE 1]
      BY <1>1, <1>3, <2>1
    <3>2. \A b \in Blocks : /\ held[b] # "freed"
                            /\ held[b] = "held" <=> b # "driver"
      OBVIOUS
    <3> HIDE DEF held
    <3> QED  BY <3>1, <3>2 DEF Accounted
  <2>2. CASE UNCHANGED <<conf, strings>>
    BY <1>1, <2>2 DEF StartupInv, ReleaseInv
  <2> QED  BY <1>1, <2>1, <2>2
<1> HIDE DEF base, held
<1>5. ShapeInv'
  BY <1>1, <1>2, <1>3 DEF StartupInv, ShapeInv
<1>6. ParseInv'
  <2>1. CASE pc' = "parse"
    <3>1. Len(args) \in Nat /\ Reached' = 0
      BY <1>1, <1>2, ArgsFacts DEF StartupInv, Reached
    <3>2. /\ conf'.driver_if = "null" /\ conf'.drv_opts = <<>>
          /\ conf'.walmode = "indef"
      BY <1>1, <1>3, <2>1 DEF StartupInv, ParseInv
    <3>3. /\ Latest(args', 0, "D", "null", conf'.driver_if)
          /\ Latest(args', 0, "B", <<"set", "get">>, conf'.benchmark)
          /\ Latest(args', 0, "p", "./_ioarena", conf'.path)
          /\ Latest(args', 0, "k", 16, conf'.ksize)
          /\ Latest(args', 0, "m", "lazy", conf'.syncmode)
          /\ Latest(args', 0, "l", "indef", conf'.walmode)
      BY <1>3, <2>1, <3>2, LatestNone
    <3>4. Collected(args', 0, conf'.drv_opts)
      BY <3>2, CollectedFirst
    <3>5. /\ conf'.driver_if \in Drivers \cup {"null"}
          /\ conf'.benchmark \in Seq(STRING \cup Benchmarks)
          /\ conf'.ksize \in Int
          /\ conf'.syncmode \in SyncModes
          /\ conf'.walmode \in WalModes
          /\ conf'.drv_opts \in Seq(Lists \ {<<>>})
      <4>1. /\ <<"set", "get">> \in Seq(STRING \cup Benchmarks)
            /\ <<>> \in Seq(Lists \ {<<>>})
        BY DEF Benchmarks
      <4>2. /\ conf'.benchmark = <<"set", "get">> /\ conf'.ksize = 16
            /\ conf'.syncmode = "lazy"
        BY <1>3, <2>1
      <4>3. conf'.syncmode \in SyncModes /\ conf'.walmode \in WalModes
        BY <3>2, <4>2 DEF SyncModes, WalModes
      <4>4. /\ conf'.benchmark \in Seq(STRING \cup Benchmarks)
            /\ conf'.drv_opts \in Seq(Lists \ {<<>>})
        BY <3>2, <4>1, <4>2, Zenon
      <4> QED  BY <3>2, <4>2, <4>3, <4>4
    <3>6. AskedFor(args', 0, conf')
      BY <3>3, <3>4, <3>5 DEF AskedFor
    <3> QED  BY <2>1, <3>1, <3>6 DEF ParseInv, Parsed
  <2>2. CASE pc' = "free"
    BY <2>2 DEF ParseInv, Parsed
  <2> QED  BY <1>1, <2>1, <2>2
<1>7. OptionsInv' /\ LoopInv' /\ FlagsInv'
  BY <1>1 DEF StartupInv, OptionsInv, LoopInv, FlagsInv, PassedOn
<1>8. ReleaseInv'
  BY <1>1, <1>4 DEF StartupInv, ReleaseInv, GivenBack
<1> QED  BY <1>5, <1>6, <1>7, <1>8 DEF StartupInv

(* An option that ia_configparse reads. *)
LEMMA ParseOptionInv ==
    ASSUME StartupInv, ParseEffect
    PROVE  StartupInv'
<1>1. /\ pc = "parse" /\ argv # <<>> /\ argv' = Tail(argv) /\ IsConf(conf')
      /\ Accounted(conf', strings')
      /\ pc' \in {"parse", "free"}
      /\ UNCHANGED <<args, driver, priv, handle, globals>>
  BY DEF ParseEffect, OnlyConfig
<1> DEFINE X == {args[k] : k \in 1 .. Len(args)}
<1>2. argv \in Seq(X) /\ args \in Seq(X) /\ IsEndOf(argv, args)
  BY ArgsFacts DEF StartupInv, ShapeInv
<1>3. /\ Head(argv) = args[Reached + 1]
      /\ argv' \in Seq(X) /\ Len(argv') = Len(argv) - 1
      /\ Len(argv) \in Nat /\ Len(args) \in Nat /\ Reached \in Nat
      /\ Reached + 1 \in 1 .. Len(args)
      /\ IsEndOf(argv', args)
  <2> HIDE DEF X
  <2> QED  BY <1>1, <1>2, EndTail DEF Reached
<1>4. ShapeInv'
  BY <1>1, <1>3 DEF StartupInv, ShapeInv
<1>5. ParseInv'
  <2>1. CASE pc' = "parse"
    <3>1. Reached' = Reached + 1
      BY <1>1, <1>3 DEF Reached
    <3>2. Accepted(Head(argv)) /\ Stored(Head(argv), conf, conf')
      BY <2>1 DEF ParseEffect
    <3>3. IsOption(args[Reached + 1])
      BY <1>3, ArgsFacts DEF StartupInv
    <3>4. AskedFor(args, Reached, conf)
      BY <1>1 DEF StartupInv, ParseInv
    <3>5. AskedFor(args, Reached + 1, conf')
      BY <1>3, <3>2, <3>3, <3>4, AskedForStep
    <3> QED  BY <1>1, <2>1, <3>1, <3>5 DEF ParseInv, Parsed
  <2>2. CASE pc' = "free"
    BY <2>2 DEF ParseInv, Parsed
  <2> QED  BY <1>1, <2>1, <2>2
<1>6. OptionsInv' /\ LoopInv' /\ FlagsInv'
  BY <1>1 DEF StartupInv, OptionsInv, LoopInv, FlagsInv, PassedOn
<1>7. ReleaseInv'
  BY <1>1 DEF StartupInv, ReleaseInv, GivenBack
<1> QED  BY <1>4, <1>5, <1>6, <1>7 DEF StartupInv

(* If all names are known, so are the first ones, up to any. *)
LEMMA AllKnown ==
    ASSUME NEW X, NEW names \in Seq(X), Known(names)
    PROVE  {l \in 1 .. Len(names) : Known(SubSeq(names, 1, l))}
               = 1 .. Len(names)
<1>1. ASSUME NEW l \in 1 .. Len(names)
      PROVE  Known(SubSeq(names, 1, l))
  <2>1. /\ Len(SubSeq(names, 1, l)) = l /\ l \in Nat /\ l <= Len(names)
        /\ \A k \in 1 .. l : SubSeq(names, 1, l)[k] = names[k]
    OBVIOUS
  <2> QED  BY <2>1 DEF Known
<1> QED  BY <1>1

(* The end of ia_configparse. *)
LEMMA ParseEndInv ==
    ASSUME StartupInv, ParseEnd
    PROVE  StartupInv'
<1> DEFINE names == conf.benchmark
           list == {names[k] : k \in {l \in 1 .. Len(names) :
                                         Known(SubSeq(names, 1, l))}}
<1>1. /\ pc = "parse" /\ argv = <<>> /\ argv' = argv
      /\ pc' \in {"init", "free"}
      /\ UNCHANGED <<args, driver, priv, handle, globals, strings>>
      /\ conf' = [conf EXCEPT !.benchmark_list = list]
      /\ pc' = "init" =>
            /\ conf.driver_if # "null" /\ ~(conf.ksize <= 0)
            /\ conf.drv_opts = <<>> \/ TakesOptions(conf.driver_if)
            /\ Known(conf.benchmark)
  BY DEF ParseEnd, OnlyConfig, Quit
<1>2. IsConf(conf)
  BY DEF StartupInv, ShapeInv
<1>3. /\ IsConf(conf') /\ conf'.benchmark_list = list /\ conf'.ptr = conf.ptr
      /\ conf'.driver_if = conf.driver_if /\ conf'.drv_opts = conf.drv_opts
      /\ conf'.ksize = conf.ksize /\ conf'.benchmark = conf.benchmark
      /\ conf'.path = conf.path
      /\ conf'.syncmode = conf.syncmode /\ conf'.walmode = conf.walmode
  <2> HIDE DEF list
  <2> QED  BY <1>1, <1>2 DEF IsConf, ConfFields
<1>4. AskedFor(args, Len(args), conf)
  <2>1. Reached = Len(args)
    <3>1. Len(args) \in Nat
      BY ArgsFacts DEF StartupInv
    <3> QED  BY <1>1, <3>1 DEF Reached
  <2>2. AskedFor(args, Reached, conf)
    BY <1>1 DEF StartupInv, ParseInv
  <2> QED  BY <2>1, <2>2
<1>5. ShapeInv'
  <2> HIDE DEF list
  <2> QED  BY <1>1, <1>3 DEF StartupInv, ShapeInv, Parsed
<1>6. ParseInv'
  <2>1. CASE pc' = "init"
    <3>1. AskedFor(args, Len(args), conf')
      BY <1>3, <1>4 DEF AskedFor
    <3>2. list = {names[k] : k \in 1 .. Len(names)}
      <4>1. names \in Seq(STRING \cup Benchmarks) /\ Known(names)
        BY <1>1, <1>4, <2>1 DEF AskedFor
      <4>2. {l \in 1 .. Len(names) : Known(SubSeq(names, 1, l))}
                = 1 .. Len(names)
        BY <4>1, AllKnown
      <4> QED  BY <4>2
    <3>3. conf.ksize > 0
      BY <1>1, <1>4, <2>1 DEF AskedFor
    <3>4. Checked(conf')
      <4> HIDE DEF list
      <4> QED  BY <1>1, <1>3, <2>1, <3>2, <3>3 DEF Checked
    <3> QED  BY <1>1, <2>1, <3>1, <3>4 DEF ParseInv
  <2>2. CASE pc' = "free"
    BY <2>2 DEF ParseInv, Parsed
  <2> QED  BY <1>1, <2>1, <2>2
<1>7. OptionsInv' /\ LoopInv' /\ FlagsInv'
  BY <1>1 DEF StartupInv, OptionsInv, LoopInv, FlagsInv, PassedOn
<1>8. ReleaseInv'
  <2> HIDE DEF list
  <2> QED  BY <1>1, <1>3 DEF StartupInv, ReleaseInv, Accounted, GivenBack
<1> QED  BY <1>5, <1>6, <1>7, <1>8 DEF StartupInv

(* ia_init: nothing is settled before the first option is passed on. *)
LEMMA InitDriverInv ==
    ASSUME StartupInv, InitDriver
    PROVE  StartupInv'
<1>1. /\ pc = "init" /\ driver' = conf.driver_if /\ pc' \in {"options", "free"}
      /\ opts' = conf.drv_opts
      /\ UNCHANGED <<args, argv, conf, priv, handle, globals, strings>>
  BY DEF InitDriver, Quit
<1>2. ShapeInv' /\ ParseInv'
  BY <1>1 DEF StartupInv, ShapeInv, ParseInv, Parsed
<1>3. OptionsInv'
  <2>1. conf.drv_opts \in Seq(Lists \ {<<>>})
    BY <1>1 DEF StartupInv, ParseInv, Parsed, AskedFor
  <2>2. IsEndOf(opts', conf'.drv_opts)
    BY <1>1, <2>1, EndSelf
  <2>3. Passed' = 0
    <3>1. Len(conf.drv_opts) \in Nat
      BY <2>1, SeqFacts
    <3> QED  BY <1>1, <3>1 DEF Passed
  <2>4. \A x \in NameSet : globals'[x] = "default"
    BY <1>1 DEF StartupInv, OptionsInv
  <2>5. Settled(conf'.drv_opts, Passed' + 1, 0, globals')
    BY <2>3, <2>4, SettledFirst
  <2>6. driver' = conf'.driver_if /\ opts' \in Seq(Lists \ {<<>>})
    BY <1>1, <2>1
  <2> QED  BY <1>1, <2>2, <2>5, <2>6 DEF OptionsInv, PassedOn
<1>4. LoopInv' /\ FlagsInv'
  BY <1>1 DEF LoopInv, FlagsInv
<1>5. ReleaseInv'
  BY <1>1 DEF StartupInv, ReleaseInv, GivenBack
<1> QED  BY <1>2, <1>3, <1>4, <1>5 DEF StartupInv

----------------------------------------------------------------------------
(* ia_mdbx_option. *)

(* What ia_parse_option_bool does, case by case. *)
LEMMA ParseOptionBoolFacts ==
    ASSUME NEW a, NEW y, NEW old, NEW p, p = ParseOptionBool(a, y, old)
    PROVE  /\ Head(a).name # y => p.rest = a /\ p.setting = old /\ p.ret = 0
           /\ Head(a).name = y /\ Head(a).value \notin {"on", "off"} =>
                 p.rest = a /\ p.setting = old /\ p.ret = -1
           /\ /\ Head(a).name = y /\ Head(a).value \in {"on", "off"}
              /\ Len(a) = 1
              => p.rest = a /\ p.setting = Head(a).value /\ p.ret = 1
           /\ /\ Head(a).name = y /\ Head(a).value \in {"on", "off"}
              /\ Len(a) # 1
              => /\ p.rest = Tail(a) /\ p.setting = Head(a).value
                 /\ p.ret = IF Tail(a) = <<Nothing>> THEN 1 ELSE 0
  BY DEF ParseOptionBool

(* Sequences of none or one. *)
LEMMA ShortFacts ==
    /\ \A s : s = <<>> => Len(s) = 0
    /\ \A s, x : s = <<x>> => Head(s) = x /\ Len(s) = 1
OBVIOUS

(* And their places in a longer one. *)
LEMMA ShortNumbers ==
    \A x, y \in Nat :
        /\ x - 1 = 0 => x = 1
        /\ x - 1 = 1 => ((y - x) + 1) + 1 = y
        /\ y - x \in Nat => (y - x) + 1 \in Nat
OBVIOUS

(* The next item of a list, and what is left behind it. *)
LEMMA NextItem ==
    ASSUME NEW a \in Lists, a # <<>>, NEW t \in Lists, IsEndOf(a, t)
    PROVE  /\ Head(a) = t[(Len(t) - Len(a)) + 1]
           /\ Tail(a) \in Lists /\ Len(Tail(a)) = Len(a) - 1
           /\ Len(a) \in Nat /\ Len(t) \in Nat /\ Len(t) - Len(a) \in Nat
           /\ (Len(t) - Len(a)) + 1 \in 1 .. Len(t)
           /\ Len(a) # 0
           /\ IsEndOf(Tail(a), t)
           /\ Len(t) - Len(Tail(a)) = (Len(t) - Len(a)) + 1
           /\ Len(a) # 1 => Tail(a) # <<>>
           /\ \A x : Tail(a) = <<x>> =>
                 /\ Head(Tail(a)) = x
                 /\ ((Len(t) - Len(a)) + 1) + 1 = Len(t)
                 /\ (Len(t) - Len(a)) + 1 \in Nat
<1> DEFINE R == [name : STRING, value : STRING]
<1>1. a \in Seq(R) /\ t \in Seq(R)
  BY DEF Lists
<1> HIDE DEF R
<1>2. /\ Head(a) = t[Len(t) - Len(a) + 1]
      /\ Tail(a) \in Seq(R) /\ Len(Tail(a)) = Len(a) - 1
      /\ Len(a) \in Nat /\ Len(t) \in Nat /\ Len(t) - Len(a) \in Nat
      /\ Len(t) - Len(a) + 1 \in 1 .. Len(t)
      /\ IsEndOf(Tail(a), t)
  BY <1>1, EndTail
<1>3. Len(a) # 0
  BY <1>1
<1>4. Len(t) - Len(Tail(a)) = (Len(t) - Len(a)) + 1
  BY <1>2
<1>5. Len(a) # 1 => Tail(a) # <<>>
  <2>1. Tail(a) = <<>> => Len(Tail(a)) = 0
    BY ShortFacts, Zenon
  <2>2. Len(a) - 1 = 0 => Len(a) = 1
    BY <1>2, ShortNumbers, Zenon
  <2> QED  BY <1>2, <2>1, <2>2, Zenon
<1>6. ASSUME NEW x, Tail(a) = <<x>>
      PROVE  /\ Head(Tail(a)) = x
             /\ ((Len(t) - Len(a)) + 1) + 1 = Len(t)
             /\ (Len(t) - Len(a)) + 1 \in Nat
  <2>1. Head(Tail(a)) = x /\ Len(Tail(a)) = 1
    BY <1>6, ShortFacts, Zenon
  <2>2. Len(a) - 1 = 1
    BY <1>2, <2>1, Zenon
  <2>3. /\ ((Len(t) - Len(a)) + 1) + 1 = Len(t)
        /\ (Len(t) - Len(a)) + 1 \in Nat
    BY <1>2, <2>2, ShortNumbers, Zenon
  <2> QED  BY <2>1, <2>3
<1> QED  BY <1>2, <1>3, <1>4, <1>5, <1>6 DEF R, Lists

(* Name y is tested, when a is left of list q of d, with the result p; the *)
(* globals become h.                                                       *)
Tests(d, q, t, a, g, y, p, h) ==
    /\ d \in Seq(Lists) /\ q \in 1 .. Len(d) /\ t = d[q]
    /\ a \in Lists /\ a # <<>> /\ IsEndOf(a, t)
    /\ g \in [NameSet -> Settings] /\ y \in NameSet
    /\ Settled(d, q, Len(t) - Len(a), g)
    /\ p = ParseOptionBool(a, y, g[y])
    /\ h = [g EXCEPT ![y] = p.setting]

(* After the test of a name the items read are settled: the one more, if   *)
(* it has the name, and with it the list, if only nothing is left.         *)
LEMMA TestNameSettled ==
    ASSUME NEW d, NEW q, NEW t, NEW a, NEW g, NEW y, NEW p, NEW h,
           Tests(d, q, t, a, g, y, p, h)
    PROVE  /\ h \in [NameSet -> Settings]
           /\ p.rest \in Lists /\ p.rest # <<>> /\ p.ret \in {-1, 0, 1}
           /\ p.ret = 0 => /\ IsEndOf(p.rest, t)
                           /\ Settled(d, q, Len(t) - Len(p.rest), h)
           /\ p.ret = 1 => Settled(d, q + 1, 0, h)
<1> SUFFICES
      ASSUME d \in Seq(Lists), q \in 1 .. Len(d), t = d[q],
             a \in Lists, a # <<>>, IsEndOf(a, t),
             g \in [NameSet -> Settings], y \in NameSet,
             Settled(d, q, Len(t) - Len(a), g),
             p = ParseOptionBool(a, y, g[y]),
             h = [g EXCEPT ![y] = p.setting]
      PROVE  /\ h \in [NameSet -> Settings]
             /\ p.rest \in Lists /\ p.rest # <<>> /\ p.ret \in {-1, 0, 1}
             /\ p.ret = 0 => /\ IsEndOf(p.rest, t)
                             /\ Settled(d, q, Len(t) - Len(p.rest), h)
             /\ p.ret = 1 => Settled(d, q + 1, 0, h)
  BY Zenon DEF Tests
<1> DEFINE m == Len(t) - Len(a)
<1>1. t \in Lists /\ Len(d) \in Nat
  BY ListFacts, Zenon
<1>2. q \in Nat
  BY <1>1, IndexFacts, Zenon
<1>3. /\ Head(a) = t[m + 1]
      /\ Tail(a) \in Lists /\ Len(Tail(a)) = Len(a) - 1
      /\ Len(a) \in Nat /\ Len(t) \in Nat /\ m \in Nat
      /\ m + 1 \in 1 .. Len(t)
      /\ IsEndOf(Tail(a), t)
  BY <1>1, NextItem, Zenon
<1>4. CASE Head(a).name # y
  <2>1. p.rest = a /\ p.setting = g[y] /\ p.ret = 0
    BY <1>4, ParseOptionBoolFacts
  <2>2. h = g
    BY <2>1
  <2> QED  BY <2>1, <2>2
<1>5. CASE Head(a).name = y /\ Head(a).value \notin {"on", "off"}
  <2>1. p.rest = a /\ p.setting = g[y] /\ p.ret = -1
    BY <1>5, ParseOptionBoolFacts
  <2>2. h = g
    BY <2>1
  <2> QED  BY <2>1, <2>2
<1>6. ASSUME Head(a).name = y, Head(a).value \in {"on", "off"},
             p.setting = Head(a).value
      PROVE  h \in [NameSet -> Settings] /\ Settled(d, q, m + 1, h)
  <2>1. p.setting \in Settings
    BY <1>6 DEF Settings
  <2>2. /\ h \in [NameSet -> Settings] /\ h[y] = p.setting
        /\ \A x \in NameSet : x # y => h[x] = g[x]
    BY <2>1
  <2>3. d[q][m + 1] = Head(a) /\ m + 1 \in 1 .. Len(d[q])
    BY <1>3, Zenon
  <2>4. /\ d[q][m + 1].name = y /\ d[q][m + 1].value \in {"on", "off"}
        /\ h[y] = d[q][m + 1].value
    BY <1>6, <2>2, <2>3, Zenon
  <2>5. Settled(d, q, m + 1, h)
    <3>1. Settled(d, q, m, g) /\ m \in Nat
      BY <1>3
    <3>2. \A x \in NameSet : x # y => h[x] = g[x]
      BY <2>2
    <3> HIDE DEF m
    <3>3. Settles(d, q, m, g, h, y)
      BY <2>3, <2>4, <3>1, <3>2, Zenon DEF Settles
    <3> QED  BY <3>3, SettledItem, Zenon
  <2> QED  BY <2>2, <2>5
<1>7. CASE /\ Head(a).name = y /\ Head(a).value \in {"on", "off"}
           /\ Len(a) = 1
  <2>1. p.rest = a /\ p.setting = Head(a).value /\ p.ret = 1
    BY <1>7, ParseOptionBoolFacts
  <2>2. m + 1 = Len(t)
    BY <1>3, <1>7
  <2>3. Settled(d, q, Len(d[q]), h)
    BY <1>6, <1>7, <2>1, <2>2, Zenon
  <2>4. Settled(d, q + 1, 0, h)
    BY <2>3, SettledList, Zenon
  <2> QED  BY <1>6, <1>7, <2>1, <2>4
<1>8. CASE /\ Head(a).name = y /\ Head(a).value \in {"on", "off"}
           /\ Len(a) # 1
  <2>1. /\ p.rest = Tail(a) /\ p.setting = Head(a).value
        /\ p.ret = IF Tail(a) = <<Nothing>> THEN 1 ELSE 0
    BY <1>8, ParseOptionBoolFacts
  <2>2. Len(t) - Len(Tail(a)) = m + 1 /\ Tail(a) # <<>>
    BY <1>1, <1>8, NextItem, Zenon
  <2>3. /\ h \in [NameSet -> Settings]
        /\ Settled(d, q, Len(t) - Len(Tail(a)), h)
    BY <1>6, <1>8, <2>1, <2>2, Zenon
  <2>4. ASSUME Tail(a) = <<Nothing>>
        PROVE  Settled(d, q + 1, 0, h)
    <3>1. /\ Head(Tail(a)) = t[(Len(t) - Len(Tail(a))) + 1]
          /\ (Len(t) - Len(Tail(a))) + 1 \in 1 .. Len(t)
      BY <1>1, <1>3, <2>2, NextItem, Zenon
    <3>2. Head(Tail(a)) = t[(m + 1) + 1] /\ (m + 1) + 1 \in 1 .. Len(t)
      BY <2>2, <3>1, Zenon
    <3>3. Head(Tail(a)) = Nothing /\ (m + 1) + 1 = Len(t) /\ m + 1 \in Nat
      <4>1. \A x : Tail(a) = <<x>> => /\ Head(Tail(a)) = x
                                     /\ (m + 1) + 1 = Len(t)
                                     /\ m + 1 \in Nat
        <5>1. /\ a \in Lists /\ a # <<>> /\ t \in Lists /\ IsEndOf(a, t)
          BY <1>1
        <5>2. \A b, s : /\ b \in Lists /\ b # <<>> /\ s \in Lists
                        /\ IsEndOf(b, s)
                 => \A x : Tail(b) = <<x>> =>
                       /\ Head(Tail(b)) = x
                       /\ ((Len(s) - Len(b)) + 1) + 1 = Len(s)
                       /\ (Len(s) - Len(b)) + 1 \in Nat
          BY NextItem
        <5> QED  BY <5>1, <5>2, Zenon
      <4> HIDE DEF m
      <4> QED  BY <2>4, <4>1, Zenon
    <3>4. d[q][(m + 1) + 1] = Item("", "")
      BY <3>2, <3>3, Zenon DEF Nothing
    <3>5. d[q][(m + 1) + 1].name = ""
      BY <3>4, ItemFields, Zenon
    <3>6. "" \notin NameSet
      <4>1. \A k \in 1 .. Len(Names) : Names[k] \in STRING \ {""}
        BY StartupAssumption, SeqFacts, Zenon
      <4> QED  BY <4>1 DEF NameSet
    <3>7. Settled(d, q, (m + 1) + 1, h)
      <4>1. Settled(d, q, m + 1, h) /\ (m + 1) + 1 \in 1 .. Len(d[q])
        BY <2>2, <2>3, <3>2, Zenon
      <4> HIDE DEF m
      <4>2. Settles(d, q, m + 1, h, h, "")
        BY <3>3, <3>5, <3>6, <4>1, Zenon DEF Settles
      <4> QED  BY <4>2, SettledItem, Zenon
    <3>8. Settled(d, q, Len(d[q]), h)
      BY <3>3, <3>7, Zenon
    <3> QED  BY <3>8, SettledList, Zenon
  <2>5. CASE Tail(a) = <<Nothing>>
    BY <1>3, <2>1, <2>2, <2>3, <2>4, <2>5
  <2>6. CASE Tail(a) # <<Nothing>>
    BY <1>3, <2>1, <2>2, <2>3, <2>6
  <2> QED  BY <2>5, <2>6
<1> QED  BY <1>4, <1>5, <1>7, <1>8, Zenon

(* There is a first name to test. *)
LEMMA NamesFacts ==
    Len(Names) \in Nat /\ 1 \in 1 .. Len(Names) + 1
<1>1. Len(Names) \in Nat
  BY StartupAssumption, SeqFacts, Zenon
<1> QED  BY <1>1

(* The driver options are lists of items, none of them empty. *)
LEMMA OptionLists ==
    ASSUME StartupInv, pc \in Parsed
    PROVE  /\ conf.drv_opts \in Seq(Lists \ {<<>>})
           /\ conf.drv_opts \in Seq(Lists)
           /\ Len(conf.drv_opts) \in Nat
<1>1. conf.drv_opts \in Seq(Lists \ {<<>>})
  BY DEF StartupInv, ParseInv, AskedFor
<1>2. \A d : d \in Seq(Lists \ {<<>>}) => d \in Seq(Lists) /\ Len(d) \in Nat
  OBVIOUS
<1> QED  BY <1>1, <1>2, Zenon

(* What no step of this phase disturbs. *)
LEMMA OptionPhase ==
    ASSUME StartupInv, pc \in {"options", "loop"},
           pc' \in {"options", "loop", "open", "free"},
           UNCHANGED <<args, argv, conf, driver, priv, handle, strings>>,
           globals' \in [NameSet -> Settings]
    PROVE  ShapeInv' /\ ParseInv' /\ ReleaseInv' /\ FlagsInv'
<1>1. ShapeInv' /\ ParseInv'
  BY DEF StartupInv, ShapeInv, ParseInv, Parsed
<1>2. ReleaseInv' /\ FlagsInv'
  BY DEF StartupInv, ReleaseInv, GivenBack, FlagsInv
<1> QED  BY <1>1, <1>2

(* ia_init hands the next option to the driver. *)
LEMMA PassOptionInv ==
    ASSUME StartupInv, PassOption
    PROVE  StartupInv'
<1> DEFINE d == conf.drv_opts
<1>1. /\ pc = "options" /\ pc' \in {"open", "loop"}
      /\ UNCHANGED <<args, argv, conf, driver, priv, handle, globals, strings>>
  BY DEF PassOption
<1>2. ShapeInv' /\ ParseInv' /\ ReleaseInv' /\ FlagsInv'
  BY <1>1, OptionPhase DEF StartupInv, ShapeInv
<1>3. d \in Seq(Lists \ {<<>>}) /\ d \in Seq(Lists) /\ Len(d) \in Nat
  BY <1>1, OptionLists DEF Parsed
<1>4. /\ driver = conf.driver_if /\ opts \in Seq(Lists \ {<<>>})
      /\ IsEndOf(opts, d) /\ Settled(d, Passed + 1, 0, globals)
  BY <1>1 DEF StartupInv, OptionsInv, PassedOn
<1>5. CASE opts = <<>>
  <2>1. pc' = "open" /\ opts' = opts
    BY <1>5 DEF PassOption
  <2>2. Passed = Len(d)
    <3>1. Len(opts) = 0
      BY <1>5, ShortFacts, Zenon
    <3> QED  BY <1>3, <3>1 DEF Passed
  <2>3. OptionsInv'
    BY <1>1, <1>4, <2>1, <2>2 DEF OptionsInv, PassedOn
  <2>4. LoopInv'
    BY <2>1 DEF LoopInv
  <2> QED  BY <1>2, <2>3, <2>4 DEF StartupInv
<1>6. CASE opts # <<>>
  <2>1. /\ pc' = "loop" /\ arg' = Head(opts) /\ opts' = Tail(opts)
        /\ n' = 1 /\ done' = 0
    BY <1>6 DEF PassOption
  <2>2. /\ Head(opts) \in Lists \ {<<>>} /\ Head(opts) = d[Passed + 1]
        /\ Tail(opts) \in Seq(Lists \ {<<>>})
        /\ Len(Tail(opts)) = Len(opts) - 1
        /\ Len(opts) \in Nat /\ Passed \in Nat
        /\ Passed + 1 \in 1 .. Len(d)
        /\ IsEndOf(Tail(opts), d)
    BY <1>3, <1>4, <1>6, EndTail DEF Passed
  <2>3. Passed' = Passed + 1
    BY <1>1, <1>3, <2>1, <2>2 DEF Passed
  <2>4. OptionsInv'
    BY <1>1, <1>4, <2>1, <2>2 DEF OptionsInv, PassedOn
  <2>5. IsEndOf(arg', d[Passed']) /\ Len(d[Passed']) - Len(arg') = 0
    <3>1. arg' = d[Passed'] /\ arg' \in Lists
      BY <2>1, <2>2, <2>3
    <3>2. \A s : s \in Lists => IsEndOf(s, s) /\ Len(s) - Len(s) = 0
      BY EndSelf DEF Lists
    <3> QED  BY <3>1, <3>2, Zenon
  <2>6. LoopInv'
    <3>1. n' \in 1 .. Len(Names) + 1
      BY <2>1, NamesFacts
    <3>2. Settled(d, Passed', Len(d[Passed']) - Len(arg'), globals)
      BY <1>4, <2>3, <2>5, Zenon
    <3>3. /\ conf'.drv_opts = d /\ globals' = globals
          /\ Passed' \in 1 .. Len(d)
      BY <1>1, <2>2, <2>3
    <3>4. done' = 0 /\ arg' \in Lists \ {<<>>}
      BY <2>1, <2>2
    <3>5. done' # 1 /\ done' \in {-1, 0, 1}
      BY <3>4
    <3> QED  BY <2>5, <3>1, <3>2, <3>3, <3>4, <3>5, Zenon DEF LoopInv
  <2> QED  BY <1>2, <2>4, <2>6 DEF StartupInv
<1> QED  BY <1>5, <1>6

(* ia_mdbx_option tests one name. *)
LEMMA TestNameInv ==
    ASSUME StartupInv, TestName
    PROVE  StartupInv'
<1> DEFINE d == conf.drv_opts
           y == Names[n]
           p == ParseOptionBool(arg, y, globals[y])
<1>1. /\ pc = "loop" /\ pc' = "loop" /\ n <= Len(Names) /\ done = 0
      /\ globals' = [globals EXCEPT ![y] = p.setting]
      /\ arg' = p.rest /\ done' = p.ret /\ n' = n + 1
      /\ UNCHANGED <<args, argv, conf, driver, priv, handle, opts, strings>>
  BY DEF TestName
<1>2. d \in Seq(Lists)
  BY <1>1, OptionLists DEF Parsed
<1>3. /\ Passed \in 1 .. Len(d) /\ n \in 1 .. Len(Names) + 1
      /\ arg \in Lists /\ arg # <<>>
      /\ IsEndOf(arg, d[Passed])
      /\ Settled(d, Passed, Len(d[Passed]) - Len(arg), globals)
  BY <1>1 DEF StartupInv, LoopInv
<1>4. Len(Names) \in Nat /\ globals \in [NameSet -> Settings]
  BY NamesFacts DEF StartupInv, ShapeInv
<1>5. n \in 1 .. Len(Names) /\ n' \in 1 .. Len(Names) + 1
  BY <1>1, <1>3, <1>4
<1>6. y \in NameSet
  BY <1>5 DEF NameSet
<1> HIDE DEF y, p
<1>7. p = ParseOptionBool(arg, y, globals[y])
  BY DEF p
<1>8. /\ globals' \in [NameSet -> Settings]
      /\ p.rest \in Lists /\ p.rest # <<>> /\ p.ret \in {-1, 0, 1}
      /\ p.ret = 0 =>
            /\ IsEndOf(p.rest, d[Passed])
            /\ Settled(d, Passed, Len(d[Passed]) - Len(p.rest), globals')
      /\ p.ret = 1 => Settled(d, Passed + 1, 0, globals')
  <2> DEFINE t == d[Passed]
             h == globals'
  <2>1. h = [globals EXCEPT ![y] = p.setting] /\ t = d[Passed]
    BY <1>1
  <2>2. /\ arg \in Lists /\ arg # <<>> /\ IsEndOf(arg, t)
        /\ Settled(d, Passed, Len(t) - Len(arg), globals)
        /\ Passed \in 1 .. Len(d)
    BY <1>3
  <2>3. globals \in [NameSet -> Settings]
    BY <1>4
  <2> HIDE DEF d, t, h
  <2>4. /\ h \in [NameSet -> Settings]
        /\ p.rest \in Lists /\ p.rest # <<>> /\ p.ret \in {-1, 0, 1}
        /\ p.ret = 0 => /\ IsEndOf(p.rest, t)
                        /\ Settled(d, Passed, Len(t) - Len(p.rest), h)
        /\ p.ret = 1 => Settled(d, Passed + 1, 0, h)
    <3>1. Tests(d, Passed, t, arg, globals, y, p, h)
      BY <1>2, <1>6, <1>7, <2>1, <2>2, <2>3 DEF Tests
    <3> QED  BY <3>1, TestNameSettled, Zenon
  <2> QED  BY <2>4 DEF t, h
<1>9. ShapeInv' /\ ParseInv' /\ ReleaseInv' /\ FlagsInv'
  BY <1>1, <1>8, OptionPhase
<1>10. Passed' = Passed /\ conf'.drv_opts = d
  BY <1>1 DEF Passed
<1>11. OptionsInv'
  BY <1>1 DEF StartupInv, OptionsInv, PassedOn
<1>12. LoopInv'
  BY <1>1, <1>3, <1>5, <1>8, <1>10, Zenon DEF LoopInv
<1> QED  BY <1>9, <1>11, <1>12 DEF StartupInv

(* It begins another round, or returns. *)
LEMMA LoopEndInv ==
    ASSUME StartupInv, NextRound \/ OptionReturn
    PROVE  StartupInv'
<1>1. CASE NextRound
  <2>1. /\ pc = "loop" /\ pc' = "loop" /\ n' = 1
        /\ UNCHANGED <<args, argv, conf, driver, priv, handle, globals, opts,
                       arg, done, strings>>
    BY <1>1 DEF NextRound
  <2>2. ShapeInv' /\ ParseInv' /\ ReleaseInv' /\ FlagsInv'
    BY <2>1, OptionPhase DEF StartupInv, ShapeInv
  <2>3. OptionsInv'
    BY <2>1 DEF StartupInv, OptionsInv, PassedOn
  <2>4. n' \in 1 .. Len(Names) + 1
    BY <2>1, NamesFacts
  <2>5. Passed' = Passed
    BY <2>1 DEF Passed
  <2>6. LoopInv'
    BY <2>1, <2>4, <2>5 DEF StartupInv, LoopInv
  <2> QED  BY <2>2, <2>3, <2>6 DEF StartupInv
<1>2. CASE OptionReturn
  <2>1. /\ pc = "loop" /\ pc' = IF done = 1 THEN "options" ELSE "free"
        /\ UNCHANGED <<args, argv, conf, driver, priv, handle, globals, opts,
                       strings>>
    BY <1>2 DEF OptionReturn, Quit
  <2>2. ShapeInv' /\ ParseInv' /\ ReleaseInv' /\ FlagsInv'
    BY <2>1, OptionPhase DEF StartupInv, ShapeInv
  <2>3. Passed' = Passed
    BY <2>1 DEF Passed
  <2>4. OptionsInv'
    BY <2>1, <2>3 DEF StartupInv, OptionsInv, LoopInv, PassedOn
  <2>5. LoopInv'
    BY <2>1 DEF LoopInv
  <2> QED  BY <2>2, <2>4, <2>5 DEF StartupInv
<1> QED  BY <1>1, <1>2

----------------------------------------------------------------------------
(* The database is opened, used, and closed. *)

(* What the drivers' open functions have in common: a database that is     *)
(* open (in VedisOpen, a null handle in its place), or something that      *)
(* ia_free has to close, or the abort of IowowOpen.                        *)
OpenEffect ==
    /\ pc = "open"
    /\ UNCHANGED <<args, argv, conf, driver, globals, opts, strings>>
    /\ \/ /\ pc' = "run" /\ priv' \in {"made", "open"}
          /\ handle' = "open" \/ (driver = "vedisdb" /\ handle' = "null")
          /\ driver = "mdbx" => flags' = PeekOptions(WalFlags(conf))
       \/ /\ pc' = "free" /\ rc' = -1
          /\ \/ priv' = "null" /\ handle' = "null"
             \/ /\ priv' = "made"
                /\ handle' \in {"junk", "closed"} =>
                      driver \in {"sqlite3", "upscaledb", "unqlite"}
       \/ pc' = "aborted"

(* The pattern that most of them follow has this effect. *)
LEMMA OpenAsEffect ==
    ASSUME NEW d, NEW refused \in BOOLEAN, NEW f, NEW remains,
           OpenAs(d, refused, f, remains),
           d = "mdbx" => f = PeekOptions(WalFlags(conf)),
           remains \cap {"junk", "closed"} # {} =>
               d \in {"sqlite3", "upscaledb", "unqlite"}
    PROVE  OpenEffect
<1>1. /\ pc = "open" /\ driver = d
      /\ UNCHANGED <<args, argv, conf, driver, globals, opts, strings>>
  BY DEF OpenAs, Opening
<1>2. CASE Opened(f)
  BY <1>1, <1>2 DEF Opened, OpenEffect
<1>3. CASE NotOpened("null", {"null"})
  BY <1>1, <1>3 DEF NotOpened, Quit, OpenEffect
<1>4. CASE NotOpened("made", remains)
  BY <1>1, <1>4 DEF NotOpened, Quit, OpenEffect
<1> QED  BY <1>2, <1>3, <1>4 DEF OpenAs

Open ==
    \/ LmdbOpen \/ MdbxOpen \/ RocksdbOpen \/ LeveldbOpen \/ SophiaOpen
    \/ WiredTigerOpen \/ ForestDbOpen \/ UpscaledbOpen \/ UnqliteOpen
    \/ Sqlite3Open \/ VedisOpen \/ IowowOpen

(* And so have all drivers. *)
LEMMA OpenEffects ==
    ASSUME Open
    PROVE  OpenEffect
<1>1. CASE LmdbOpen
  BY <1>1, OpenAsEffect DEF LmdbOpen, Partly
<1>2. CASE MdbxOpen
  BY <1>2, OpenAsEffect DEF MdbxOpen, Partly
<1>3. CASE RocksdbOpen
  BY <1>3, OpenAsEffect DEF RocksdbOpen, Partly
<1>4. CASE LeveldbOpen
  BY <1>4, OpenAsEffect DEF LeveldbOpen, Partly
<1>5. CASE SophiaOpen
  BY <1>5, OpenAsEffect DEF SophiaOpen, Partly
<1>6. CASE WiredTigerOpen
  BY <1>6, OpenAsEffect DEF WiredTigerOpen, Partly
<1>7. CASE ForestDbOpen
  BY <1>7, OpenAsEffect DEF ForestDbOpen
<1>8. CASE UpscaledbOpen
  BY <1>8, OpenAsEffect DEF UpscaledbOpen
<1>9. CASE UnqliteOpen
  BY <1>9, OpenAsEffect DEF UnqliteOpen
<1>10. CASE Sqlite3Open
  BY <1>10, OpenAsEffect DEF Sqlite3Open
<1>11. CASE VedisOpen
  <2>1. CASE OpenAs("vedisdb", FALSE, {}, {"null"})
    BY <2>1, OpenAsEffect
  <2>2. CASE /\ Opening("vedisdb") /\ Fails
             /\ priv' = "made" /\ handle' = "null"
             /\ pc' = "run" /\ UNCHANGED <<rc, flags>>
    BY <2>2 DEF Opening, OpenEffect
  <2> QED  BY <1>11, <2>1, <2>2 DEF VedisOpen
<1>12. CASE IowowOpen
  <2>1. /\ pc = "open" /\ driver = "iowow"
        /\ UNCHANGED <<args, argv, conf, driver, globals, opts, strings>>
    BY <1>12 DEF IowowOpen, Opening
  <2>2. CASE Opened({})
    BY <2>1, <2>2 DEF Opened, OpenEffect
  <2>3. CASE NotOpened("made", Partly)
    BY <2>1, <2>3 DEF NotOpened, Quit, OpenEffect, Partly
  <2>4. CASE pc' = "aborted"
    BY <2>1, <2>4 DEF OpenEffect
  <2> QED  BY <1>12, <2>2, <2>3, <2>4 DEF IowowOpen
<1> QED  BY <1>1, <1>2, <1>3, <1>4, <1>5, <1>6, <1>7, <1>8, <1>9, <1>10,
            <1>11, <1>12 DEF Open

(* driver->open. *)
LEMMA OpenInv ==
    ASSUME StartupInv, OpenEffect
    PROVE  StartupInv'
<1>1. /\ pc = "open" /\ pc' \in {"run", "free", "aborted"}
      /\ UNCHANGED <<args, argv, conf, driver, globals, opts, strings>>
  BY DEF OpenEffect
<1>2. ShapeInv' /\ ParseInv'
  BY <1>1 DEF StartupInv, ShapeInv, ParseInv, Parsed
<1>3. OptionsInv' /\ LoopInv'
  BY <1>1 DEF StartupInv, OptionsInv, LoopInv, PassedOn
<1>4. FlagsInv'
  BY <1>1 DEF OpenEffect, FlagsInv, PeekOptions
<1>5. driver # "null"
  BY <1>1 DEF StartupInv, ParseInv, OptionsInv, Parsed, PassedOn, Checked
<1>6. ReleaseInv'
  <2>1. Accounted(conf', strings')
    BY <1>1 DEF StartupInv, ReleaseInv
  <2>2. CASE pc' = "run"
    BY <1>1, <1>5, <2>1, <2>2 DEF OpenEffect, ReleaseInv, GivenBack
  <2>3. CASE pc' = "free"
    BY <1>1, <1>5, <2>1, <2>3 DEF OpenEffect, ReleaseInv, GivenBack
  <2>4. CASE pc' = "aborted"
    BY <1>1, <2>1, <2>4 DEF ReleaseInv, GivenBack
  <2> QED  BY <1>1, <2>2, <2>3, <2>4
<1> QED  BY <1>2, <1>3, <1>4, <1>6 DEF StartupInv

(* ia_run. *)
LEMMA RunInv ==
    ASSUME StartupInv, Run
    PROVE  StartupInv'
<1>1. /\ pc = "run" /\ pc' \in {"free", "aborted"}
      /\ UNCHANGED <<args, argv, conf, driver, priv, handle, globals, strings>>
  BY DEF Run, Quit
<1>2. ShapeInv' /\ ParseInv' /\ OptionsInv' /\ LoopInv' /\ FlagsInv'
  BY <1>1 DEF StartupInv, ShapeInv, ParseInv, OptionsInv, LoopInv, FlagsInv,
              Parsed, PassedOn
<1>3. ReleaseInv'
  BY <1>1 DEF StartupInv, ReleaseInv, GivenBack
<1> QED  BY <1>2, <1>3 DEF StartupInv

(* ia_free. *)
LEMMA FreeInv ==
    ASSUME StartupInv, Free
    PROVE  StartupInv'
<1> DEFINE left == [b \in Blocks |-> IF conf.ptr[b] = "held" THEN "freed"
                                     ELSE conf.ptr[b]]
<1>1. /\ pc = "free" /\ pc' = "exited"
      /\ priv' = IF driver = "null" \/ priv = "null" THEN priv
                 ELSE IF driver \in {"upscaledb", "unqlite"} THEN "freed"
                 ELSE "null"
      /\ handle' = IF priv = "null" THEN handle ELSE "closed"
      /\ strings' = [b \in Blocks |-> Freed(b)]
      /\ conf' = [conf EXCEPT !.drv_opts = <<>>, !.ptr = left]
      /\ UNCHANGED <<args, argv, driver, globals>>
  BY DEF Free
<1>2. /\ IsConf(conf) /\ Accounted(conf, strings)
      /\ priv \in {"null", "made", "open"}
      /\ driver = "null" => priv = "null"
      /\ priv = "null" => handle = "null"
  BY <1>1 DEF StartupInv, ShapeInv, ReleaseInv
<1>3. left \in [Blocks -> {"null", "held", "freed"}]
  BY <1>2 DEF IsConf
<1> HIDE DEF left
<1>4. IsConf(conf') /\ conf'.ptr = left
  BY <1>1, <1>2, <1>3 DEF IsConf, ConfFields
<1>5. ShapeInv'
  BY <1>1, <1>4 DEF StartupInv, ShapeInv
<1>6. ParseInv' /\ OptionsInv' /\ LoopInv' /\ FlagsInv'
  BY <1>1 DEF ParseInv, OptionsInv, LoopInv, FlagsInv, Parsed, PassedOn
<1>7. ReleaseInv'
  <2>1. \A b \in Blocks : strings'[b] = 0
    BY <1>1, <1>2 DEF Accounted, Freed, IsConf
  <2>2. priv' \in {"null", "freed"} /\ handle' # "open"
    BY <1>1, <1>2
  <2> QED  BY <1>1, <2>1, <2>2 DEF ReleaseInv, GivenBack
<1> QED  BY <1>5, <1>6, <1>7 DEF StartupInv

(* Nothing happens. *)
LEMMA StutterInv ==
    ASSUME StartupInv, UNCHANGED vars
    PROVE  StartupInv'
<1> USE DEF vars
<1>1. ShapeInv' /\ ParseInv'
  BY DEF StartupInv, ShapeInv, ParseInv, Reached
<1>2. OptionsInv' /\ LoopInv'
  BY DEF StartupInv, OptionsInv, LoopInv, Passed
<1>3. ReleaseInv' /\ FlagsInv'
  BY DEF StartupInv, ReleaseInv, GivenBack, FlagsInv, PeekOptions
<1> QED  BY <1>1, <1>2, <1>3 DEF StartupInv

(* Every step keeps the invariant. *)
LEMMA StartupInductive == StartupInv /\ [Next]_vars => StartupInv'
<1> SUFFICES ASSUME StartupInv, [Next]_vars
             PROVE  StartupInv'
  OBVIOUS
<1>1. CASE Parse
  BY <1>1, ParseEffects, ParseOptionInv, ParseEndInv
<1>2. CASE Open
  BY <1>2, OpenEffects, OpenInv
<1>3. CASE UNCHANGED vars \/ Exited
  BY <1>3, StutterInv DEF Exited
<1> QED  BY <1>1, <1>2, <1>3, ConfigInitInv, InitDriverInv, PassOptionInv,
            TestNameInv, LoopEndInv, RunInv, FreeInv DEF Next, Open

----------------------------------------------------------------------------
(* What the invariant says of a run. *)

(* ia_mdbx_open: the flags that -m and -l ask for. *)
LEMMA ModesAskFor ==
    ASSUME NEW c, c.walmode \in WalModes, NEW x
    PROVE  x \in WalFlags(c) <=>
               \/ x = "NOMETASYNC" /\ c.walmode = "walon"
               \/ /\ x # "NOMETASYNC" \/ c.walmode = "indef"
                  /\ x \in SyncFlags(c.syncmode)
<1>1. CASE c.walmode = "indef"
  <2>1. WalFlags(c) = SyncFlags(c.syncmode)
    BY <1>1 DEF WalFlags
  <2> QED  BY <1>1, <2>1
<1>2. CASE c.walmode = "walon"
  <2>1. WalFlags(c) = SyncFlags(c.syncmode) \cup {"NOMETASYNC"}
    BY <1>2 DEF WalFlags
  <2> QED  BY <1>2, <2>1
<1>3. CASE c.walmode = "waloff"
  <2>1. WalFlags(c) = SyncFlags(c.syncmode) \ {"NOMETASYNC"}
    BY <1>3 DEF WalFlags
  <2> QED  BY <1>3, <2>1
<1> QED  BY <1>1, <1>2, <1>3 DEF WalModes

(* When ia_run is called, the configuration is that of the command line. *)
LEMMA AskedAtRun ==
    ASSUME StartupInv, pc = "run"
    PROVE  /\ conf.driver_if = LastOf("D", "null")
           /\ conf.benchmark = LastOf("B", <<"set", "get">>)
           /\ conf.path = LastOf("p", "./_ioarena")
           /\ conf.ksize = LastOf("k", 16)
           /\ conf.syncmode = LastOf("m", "lazy")
           /\ conf.walmode = LastOf("l", "indef")
           /\ conf.walmode \in WalModes
           /\ Collected(args, Len(args), conf.drv_opts)
           /\ Checked(conf) /\ driver = conf.driver_if /\ Len(args) \in Nat
<1>1. Len(args) \in Nat
  BY ArgsFacts DEF StartupInv
<1>2. AskedFor(args, Len(args), conf) /\ Checked(conf)
  BY DEF StartupInv, ParseInv, Parsed
<1>3. driver = conf.driver_if
  BY DEF StartupInv, OptionsInv, PassedOn
<1>4. /\ Latest(args, Len(args), "D", "null", conf.driver_if)
      /\ Latest(args, Len(args), "B", <<"set", "get">>, conf.benchmark)
      /\ Latest(args, Len(args), "p", "./_ioarena", conf.path)
      /\ Latest(args, Len(args), "k", 16, conf.ksize)
      /\ Latest(args, Len(args), "m", "lazy", conf.syncmode)
      /\ Latest(args, Len(args), "l", "indef", conf.walmode)
      /\ conf.walmode \in WalModes
      /\ Collected(args, Len(args), conf.drv_opts)
  BY <1>2 DEF AskedFor
<1>5. /\ conf.driver_if = LastOf("D", "null")
      /\ conf.benchmark = LastOf("B", <<"set", "get">>)
      /\ conf.path = LastOf("p", "./_ioarena")
      /\ conf.ksize = LastOf("k", 16)
      /\ conf.syncmode = LastOf("m", "lazy")
      /\ conf.walmode = LastOf("l", "indef")
  BY <1>1, <1>4, LatestIsLast, Zenon
<1> QED  BY <1>1, <1>2, <1>3, <1>4, <1>5

(* The invariant implies the first property. *)
LEMMA InvRunsWhatWasAsked == StartupInv => RunsWhatWasAsked
<1> SUFFICES ASSUME StartupInv, pc = "run"
             PROVE  RunsWhatWasAsked
  BY DEF RunsWhatWasAsked
<1>1. handle = "open" \/ (driver = "vedisdb" /\ handle = "null")
  BY DEF StartupInv, ReleaseInv
<1>2. TakesOptions(driver) \/ LastOf("o", <<>>) = <<>>
  <2>1. CASE conf.drv_opts = <<>>
    <3>1. Len(args) \in Nat /\ Collected(args, Len(args), <<>>)
      BY <2>1, AskedAtRun
    <3>2. \A k \in 1 .. Len(args) : args[k].opt # "o"
      BY <3>1, CollectedNone
    <3>3. Latest(args, Len(args), "o", <<>>, <<>>)
      BY <3>2 DEF Latest
    <3>4. <<>> = LastOf("o", <<>>)
      BY <3>1, <3>3, LatestIsLast, Zenon
    <3> QED  BY <3>4
  <2>2. CASE TakesOptions(conf.driver_if)
    BY <2>2, AskedAtRun
  <2> QED  BY <2>1, <2>2, AskedAtRun DEF Checked
<1> DEFINE names == LastOf("B", <<"set", "get">>)
<1>3. /\ driver = LastOf("D", "null")
      /\ Known(names)
      /\ conf.benchmark_list = {names[k] : k \in 1 .. Len(names)}
      /\ conf.path = LastOf("p", "./_ioarena")
      /\ conf.ksize = LastOf("k", 16) /\ conf.ksize > 0
  BY AskedAtRun DEF Checked
<1> QED  BY <1>1, <1>2, <1>3 DEF RunsWhatWasAsked

(* And the second. *)
LEMMA InvOpenedAsAsked == StartupInv => OpenedAsAsked
<1> DEFINE Asked(x) ==
        \/ x = "NOMETASYNC" /\ LastOf("l", "indef") = "walon"
        \/ /\ x # "NOMETASYNC" \/ LastOf("l", "indef") = "indef"
           /\ x \in SyncFlags(LastOf("m", "lazy"))
<1> SUFFICES ASSUME StartupInv, pc = "run", driver = "mdbx", NEW x \in Flags
             PROVE  x \in flags <=>
                        \/ LastWord(x, "on")
                        \/ ~LastWord(x, "off") /\ Asked(x)
  BY DEF OpenedAsAsked
<1>1. x # ""
  <2>1. \A k \in 1 .. Len(Names) : Names[k] \in STRING \ {""}
    BY StartupAssumption, SeqFacts, Zenon
  <2> QED  BY <2>1 DEF Flags
<1>2. \A v \in {"on", "off"} :
         LastWord(x, v) <=> x \in NameSet /\ globals[x] = v
  <2>1. /\ conf.drv_opts \in Seq(Lists)
        /\ Settled(conf.drv_opts, Len(conf.drv_opts) + 1, 0, globals)
    BY OptionLists DEF StartupInv, OptionsInv, Parsed
  <2>2. Len(args) \in Nat /\ Collected(args, Len(args), conf.drv_opts)
    BY AskedAtRun
  <2> QED  BY <1>1, <2>1, <2>2, LastWordIsSetting, Zenon
<1>3. /\ conf.syncmode = LastOf("m", "lazy")
      /\ conf.walmode = LastOf("l", "indef") /\ conf.walmode \in WalModes
  BY AskedAtRun
<1>4. x \in WalFlags(conf) <=> Asked(x)
  BY <1>3, ModesAskFor, Zenon
<1>5. flags = PeekOptions(WalFlags(conf)) /\ DOMAIN globals = NameSet
  BY DEF StartupInv, FlagsInv, ShapeInv
<1> HIDE DEF Asked
<1>6. x \in flags <=>
         \/ x \in NameSet /\ globals[x] = "on"
         \/ x \in WalFlags(conf) /\ ~(x \in NameSet /\ globals[x] = "off")
  BY <1>5 DEF PeekOptions
<1> QED  BY <1>2, <1>4, <1>6

(* What holds whenever the program is between two steps: every part of the *)
(* configuration is what the options read so far ask for, and every global *)
(* of the mdbx driver what the items read so far say.                      *)
THEOREM StartupInvariance == Spec => []StartupInv
<1>1. Init => StartupInv
  BY StartupInitial
<1> QED  BY <1>1, StartupInductive, PTL DEF Spec

(* ia_init and ia_configparse: for every command line, ia_run is called    *)
(* only with the configuration that it asks for, and with a database that  *)
(* is open (or with vedisdb's null handle).                                *)
THEOREM StartupRuns == Spec => []RunsWhatWasAsked
  BY StartupInvariance, InvRunsWhatWasAsked, PTL

(* ia_mdbx_option and ia_mdbx_open: for every command line with any number *)
(* of -o, of any length, the flags of the mdbx database are what the last  *)
(* item on each of them says, or else -l and -m.                           *)
THEOREM StartupOpens == Spec => []OpenedAsAsked
  BY StartupInvariance, InvOpenedAsAsked, PTL

(* ia_free gives everything back once, wherever the program failed and     *)
(* however often -D, -B and -p have replaced a string of ia_config.c, and  *)
(* closes a handle that is no handle only where sqlite3, upscaledb or      *)
(* unqlite could not open the database.                                    *)
THEOREM StartupReleases == Spec => []GivenBack
<1>1. StartupInv => GivenBack
  BY DEF StartupInv, ReleaseInv
<1> QED  BY <1>1, StartupInvariance, PTL
=============================================================================
