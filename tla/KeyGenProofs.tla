---------------------------- MODULE KeyGenProofs ----------------------------
(***************************************************************************)
(* The keys of ia_kv.c for any number of threads, any -n, any batch length *)
(* and any widths.                                                         *)
(*                                                                         *)
(* The argument: the points used in a run of i operations are the i points *)
(* that follow the serial the run began with, round and round (RunInv); a  *)
(* full round is the whole key space (lemma FullRound).  What is in a pool *)
(* are the next such points (PoolInv).  For the last invariant: the points *)
(* that are written lie in an interval no longer than maxkey, which the    *)
(* modulus exceeds (lemma ModDistinct).                                    *)
(*                                                                         *)
(* Last, the table by which points are mixed (KeyShuffle.tla).             *)
(***************************************************************************)
EXTENDS KeyGen, KeyShuffle, FiniteSetTheorems, TLAPS

----------------------------------------------------------------------------
(* Arithmetic modulo m. *)

(* What division with remainder gives. *)
LEMMA ModType ==
    ASSUME NEW m \in Nat \ {0}, NEW a \in Int
    PROVE  /\ a % m \in 0 .. m - 1 /\ a \div m \in Int
           /\ a = m * (a \div m) + (a % m)
OBVIOUS

(* Small numbers are their remainders. *)
LEMMA ModSmall ==
    ASSUME NEW m \in Nat \ {0}, NEW a \in 0 .. m - 1
    PROVE  a % m = a
OBVIOUS

(* There is only one remainder. *)
LEMMA ModUnique ==
    ASSUME NEW m \in Nat \ {0}, NEW k \in Int, NEW r \in 0 .. m - 1
    PROVE  (m * k + r) % m = r
OBVIOUS

(* Going round once changes nothing. *)
LEMMA ModWrap ==
    ASSUME NEW m \in Nat \ {0}, NEW a \in Int
    PROVE  (a + m) % m = a % m
<1>1. /\ a % m \in 0 .. m - 1 /\ a \div m \in Int
      /\ a = m * (a \div m) + (a % m)
  BY ModType
<1> DEFINE k == a \div m
           r == a % m
<1> HIDE DEF k, r
<1>2. k \in Int /\ r \in 0 .. m - 1 /\ a = m * k + r
  BY <1>1 DEF k, r
<1>3. a + m = m * (k + 1) + r
  BY <1>2
<1>4. k + 1 \in Int
  BY <1>2
<1>5. (m * (k + 1) + r) % m = r
  BY <1>2, <1>4, ModUnique
<1> QED  BY <1>3, <1>5 DEF r

(* A serial may be reduced before something is added to it. *)
LEMMA ModAdd ==
    ASSUME NEW m \in Nat \ {0}, NEW a \in Int, NEW b \in Int
    PROVE  ((a % m) + b) % m = (a + b) % m
<1> DEFINE k == a \div m
           r == a % m
<1>1. k \in Int /\ r \in 0 .. m - 1 /\ a = m * k + r
  BY ModType
<1> HIDE DEF k, r
<1>2. r + b \in Int
  BY <1>1
<1> DEFINE l == (r + b) \div m
           s == (r + b) % m
<1>3. l \in Int /\ s \in 0 .. m - 1 /\ r + b = m * l + s
  BY <1>2, ModType
<1> HIDE DEF l, s
<1>4. a + b = m * (k + l) + s
  BY <1>1, <1>3
<1>5. k + l \in Int
  BY <1>1, <1>3
<1>6. (m * (k + l) + s) % m = s
  BY <1>3, <1>5, ModUnique
<1> QED  BY <1>4, <1>6 DEF s, r

(* Numbers closer than m are told apart by their remainders. *)
LEMMA ModDistinct ==
    ASSUME NEW m \in Nat \ {0}, NEW a \in Int, NEW b \in Int,
           a - b < m, b - a < m, a % m = b % m
    PROVE  a = b
<1> DEFINE k == a \div m
           l == b \div m
           r == a % m
<1>1. /\ k \in Int /\ l \in Int /\ r \in 0 .. m - 1
      /\ a = m * k + r /\ b = m * l + r
  BY ModType
<1> HIDE DEF k, l, r
<1>2. k - l \in Int /\ a - b = m * (k - l)
  BY <1>1
<1>3. \A n \in Int : m * n < m /\ -m < m * n => n = 0
  OBVIOUS
<1>4. k - l = 0
  BY <1>2, <1>3
<1> QED  BY <1>1, <1>4

(* From any start, a full round meets every remainder. *)
LEMMA FullRound ==
    ASSUME NEW m \in Nat \ {0}, NEW s \in 0 .. m - 1, NEW b \in Int
    PROVE  {b + ((s + k) % m) : k \in 0 .. m - 1} = b .. b + m - 1
<1>1. \A k \in 0 .. m - 1 : b + ((s + k) % m) \in b .. b + m - 1
  <2> TAKE k \in 0 .. m - 1
  <2>1. (s + k) % m \in 0 .. m - 1
    BY ModType
  <2> QED  BY <2>1
<1>2. ASSUME NEW x \in b .. b + m - 1
      PROVE  \E k \in 0 .. m - 1 : x = b + ((s + k) % m)
  <2> DEFINE t == x - b
  <2>1. t \in 0 .. m - 1 /\ x = b + t
    OBVIOUS
  <2> HIDE DEF t
  <2>2. CASE t >= s
    <3>1. t - s \in 0 .. m - 1 /\ s + (t - s) = t
      BY <2>1, <2>2
    <3>2. t % m = t
      BY <2>1, ModSmall
    <3> QED  BY <2>1, <3>1, <3>2
  <2>3. CASE t < s
    <3>1. t - s + m \in 0 .. m - 1 /\ s + (t - s + m) = t + m
      BY <2>1, <2>3
    <3>2. (t + m) % m = t
      BY <2>1, ModSmall, ModWrap
    <3> QED  BY <2>1, <3>1, <3>2
  <2> QED  BY <2>1, <2>2, <2>3
<1> QED  BY <1>1, <1>2

----------------------------------------------------------------------------
(* The inductive invariant. *)

Serials == 0 .. period - 1

(* The n points of generator g from serial s on. *)
Walk(g, s, n) == {Base(doer, g) + ((s + k) % period) : k \in 0 .. n - 1}

ConfigInv ==
    /\ rthr \in Nat /\ wthr \in Nat /\ two \in BOOLEAN
    /\ period \in Nat \ {0} /\ doer \in Nat
    /\ modulus = SetupModulus

StateInv ==
    /\ serial \in [Gens -> Serials]
    /\ i \in 0 .. period
    /\ used \in [Gens -> SUBSET Int]
    /\ pool \in [Gens -> Seq(Int)]
    /\ pc \in {"idle", "single", "crud", "batch", "pull"}

(* The n pairs left in the pools are the next n of both generators. *)
PoolInv(s) ==
    /\ i < period
    /\ pool["a"] # <<>> /\ Len(pool["b"]) = Len(pool["a"])
    /\ \A g \in Gens :
         /\ \A k \in 1 .. Len(pool["a"]) :
              pool[g][k] = Base(doer, g) + ((s + i + k - 1) % period)
         /\ serial[g] = (s + i + Len(pool["a"])) % period

(* In a run that began at serial s. *)
RunInv(s) ==
    /\ used["a"] = Walk("a", s, i)
    /\ pc # "single" => used["b"] = Walk("b", s, i)
    /\ pc = "single" => serial["b"] = s /\ serial["a"] = (s + i) % period
    /\ pc = "crud" => serial["a"] = (s + i) % period
    /\ pc = "batch" /\ i < period => serial["a"] = (s + i) % period
    /\ pc = "pull" => PoolInv(s)

KInv ==
    /\ ConfigInv /\ StateInv /\ GeneratorsInStep
    /\ pc # "idle" => \E s \in Serials : RunInv(s)

(* Bases and first serials are numbers of their kind. *)
LEMMA BaseType ==
    ASSUME ConfigInv
    PROVE  /\ \A d \in Nat : KeySpace(d) \in Nat
           /\ \A d \in Nat, g \in Gens : Base(d, g) \in Nat
           /\ nsectors \in Nat \ {0}
<1>1. rthr \in Nat /\ wthr \in Nat /\ two \in BOOLEAN /\ period \in Nat \ {0}
  BY DEF ConfigInv
<1>2. \A d \in Nat : KeySpace(d) \in Nat
  BY <1>1 DEF KeySpace
<1>3. \A d \in Nat, g \in Gens : KeySpace(d) + (IF g = "b" THEN 1 ELSE 0) \in Nat
  BY <1>2
<1>4. \A x, y \in Nat : x * y \in Nat
  OBVIOUS
<1>5. \A d \in Nat, g \in Gens : Base(d, g) \in Nat
  BY <1>1, <1>3, <1>4 DEF Base
<1>6. nsectors \in Nat \ {0}
  BY <1>1 DEF nsectors, Larger
<1> QED  BY <1>2, <1>5, <1>6

(* Every doer starts at a serial of its space. *)
LEMMA FirstSerialType ==
    ASSUME ConfigInv, NEW d \in Nat
    PROVE  FirstSerial(d) \in Serials
<1>1. period \in Nat \ {0} /\ nsectors \in Nat \ {0}
  BY BaseType DEF ConfigInv
<1>2. period * d \in Int
  BY <1>1
<1>3. (period * d) \div nsectors \in Int
  BY <1>1, <1>2, ModType
<1> QED  BY <1>1, <1>3, ModType DEF FirstSerial, Serials

(* A walk of one point more. *)
LEMMA WalkNext ==
    ASSUME ConfigInv, NEW g \in Gens, NEW s \in Serials, NEW n \in Nat
    PROVE  /\ Walk(g, s, 0) = {}
           /\ Walk(g, s, n + 1) =
                Walk(g, s, n) \cup {Base(doer, g) + ((s + n) % period)}
           /\ Base(doer, g) + ((s + n) % period) \in Int
<1>1. 0 .. n + 1 - 1 = (0 .. n - 1) \cup {n} /\ 0 .. 0 - 1 = {}
  OBVIOUS
<1>2. Walk(g, s, 0) = {}
  BY <1>1 DEF Walk
<1>3. Walk(g, s, n + 1) =
        Walk(g, s, n) \cup {Base(doer, g) + ((s + n) % period)}
  BY <1>1 DEF Walk
<1>4. Base(doer, g) \in Nat /\ period \in Nat \ {0} /\ s + n \in Int
  BY BaseType DEF ConfigInv, Serials
<1> QED  BY <1>2, <1>3, <1>4, ModType

(* The unchanged configuration keeps bases and walks. *)
LEMMA ConfigKept ==
    ASSUME ConfigInv, UNCHANGED config
    PROVE  /\ ConfigInv' /\ Serials' = Serials
           /\ UNCHANGED <<period, doer, modulus>>
           /\ \A d, g : Base(d, g)' = Base(d, g)
           /\ \A g, s, n : Walk(g, s, n)' = Walk(g, s, n)
<1>1. UNCHANGED <<rthr, wthr, two, period, modulus, doer>>
  BY DEF config
<1>2. SetupModulus' = SetupModulus
  BY <1>1 DEF SetupModulus, Fitting, maxkey, nspaces, Larger
<1>3. ConfigInv' /\ Serials' = Serials
  BY <1>1, <1>2 DEF ConfigInv, Serials
<1>4. \A d, g : Base(d, g)' = Base(d, g)
  BY <1>1 DEF Base, KeySpace
<1>5. \A g, s, n : Walk(g, s, n)' = Walk(g, s, n)
  BY <1>1, <1>4 DEF Walk
<1> QED  BY <1>1, <1>3, <1>4, <1>5

(* The invariant holds at the start. *)
LEMMA KInit ==
    ASSUME Init
    PROVE  KInv
<1>1. ConfigInv
  BY KeyGenAssumption DEF Init, ConfigInv, Doers
<1>2. FirstSerial(doer) \in Serials
  BY <1>1, FirstSerialType DEF ConfigInv
<1>3. StateInv
  <2>1. serial \in [Gens -> Serials] /\ used \in [Gens -> SUBSET Int]
        /\ pool \in [Gens -> Seq(Int)]
    BY <1>2 DEF Init
  <2>2. i \in 0 .. period /\ pc = "idle"
    BY <1>1 DEF Init, ConfigInv
  <2> QED  BY <2>1, <2>2 DEF StateInv
<1>4. GeneratorsInStep /\ pc = "idle"
  BY DEF Init, GeneratorsInStep, Gens
<1> QED  BY <1>1, <1>3, <1>4 DEF KInv

----------------------------------------------------------------------------
(* The steps. *)

(* The begin of a benchmark keeps the invariant. *)
LEMMA StartsInv ==
    ASSUME KInv, NEW l \in {"single", "crud", "batch"}, Starts(l)
    PROVE  KInv'
<1>1. ConfigInv /\ StateInv /\ pc = "idle" /\ serial["a"] = serial["b"]
  BY DEF KInv, Starts, GeneratorsInStep
<1>2. /\ ConfigInv' /\ Serials' = Serials /\ UNCHANGED <<period, doer, modulus>>
      /\ \A g, s, n : Walk(g, s, n)' = Walk(g, s, n)
  BY <1>1, ConfigKept DEF Starts
<1>3. /\ pc' = l /\ i' = 0 /\ used' = [g \in Gens |-> {}]
      /\ UNCHANGED <<serial, pool>>
  BY DEF Starts
<1>4. "a" \in Gens /\ "b" \in Gens /\ period \in Nat \ {0}
  BY <1>1 DEF Gens, ConfigInv
<1>5. serial["a"] \in Serials
  BY <1>1, <1>4 DEF StateInv
<1>6. StateInv'
  <2>1. i' \in 0 .. period' /\ used' \in [Gens -> SUBSET Int]
    BY <1>2, <1>3, <1>4
  <2> QED  BY <1>1, <1>2, <1>3, <2>1 DEF StateInv
<1>7. GeneratorsInStep'
  BY <1>1, <1>3 DEF GeneratorsInStep
<1>8. (serial["a"] + 0) % period = serial["a"]
  BY <1>4, <1>5, ModSmall DEF Serials
<1>9. RunInv(serial["a"])'
  <2>1. Walk("a", serial["a"], 0) = {} /\ Walk("b", serial["a"], 0) = {}
    BY <1>1, <1>4, <1>5, WalkNext
  <2> QED  BY <1>1, <1>2, <1>3, <1>4, <1>8, <2>1 DEF RunInv
<1> QED  BY <1>2, <1>3, <1>5, <1>6, <1>7, <1>9 DEF KInv

(* One operation of a run that began at s. *)
LEMMA OneMore ==
    ASSUME ConfigInv, StateInv, NEW g \in Gens, NEW s \in Serials,
           used[g] = Walk(g, s, i), serial[g] = (s + i) % period
    PROVE  /\ used[g] \cup {PointAfter(g, 0)} = Walk(g, s, i + 1)
           /\ (serial[g] + 1) % period = (s + (i + 1)) % period
           /\ (serial[g] + 1) % period \in Serials
           /\ used[g] \cup {PointAfter(g, 0)} \in SUBSET Int
<1>1. /\ period \in Nat \ {0} /\ i \in Nat /\ s \in Int /\ s + i \in Int
      /\ serial[g] \in Serials /\ used[g] \in SUBSET Int
  BY DEF ConfigInv, StateInv, Serials
<1>2. PointAfter(g, 0) = Base(doer, g) + ((s + i) % period)
  <2>1. (serial[g] + 0) % period = serial[g]
    BY <1>1, ModSmall DEF Serials
  <2> QED  BY <2>1 DEF PointAfter
<1>3. (serial[g] + 1) % period = (s + (i + 1)) % period
  <2> DEFINE x == s + i
  <2>1. x \in Int /\ serial[g] = x % period /\ x + 1 = s + (i + 1)
    BY <1>1
  <2> HIDE DEF x
  <2>2. ((x % period) + 1) % period = (x + 1) % period
    <3>1. 1 \in Int
      OBVIOUS
    <3> QED  BY <1>1, <2>1, <3>1, ModAdd, Zenon
  <2> QED  BY <2>1, <2>2
<1>4. s + (i + 1) \in Int
  BY <1>1
<1>5. (s + (i + 1)) % period \in Serials
  BY <1>1, <1>4, ModType DEF Serials
<1>6. /\ Walk(g, s, i + 1) =
           Walk(g, s, i) \cup {Base(doer, g) + ((s + i) % period)}
      /\ Base(doer, g) + ((s + i) % period) \in Int
  BY <1>1, WalkNext
<1>7. used[g] \cup {PointAfter(g, 0)} = Walk(g, s, i + 1)
  BY <1>2, <1>6
<1>8. used[g] \cup {PointAfter(g, 0)} \in SUBSET Int
  BY <1>1, <1>2, <1>6
<1> QED  BY <1>3, <1>5, <1>7, <1>8

(* SET, DELETE and GET keep the invariant. *)
LEMMA SingleInv ==
    ASSUME KInv, Single
    PROVE  KInv'
<1>1. ConfigInv /\ StateInv /\ pc = "single" /\ i < period
  BY DEF KInv, Single
<1>2. /\ ConfigInv' /\ Serials' = Serials /\ UNCHANGED <<period, doer, modulus>>
      /\ \A g, s, n : Walk(g, s, n)' = Walk(g, s, n)
  BY <1>1, ConfigKept DEF Single
<1>3. PICK s \in Serials : RunInv(s)
  BY <1>1 DEF KInv
<1>4. "a" \in Gens /\ "b" \in Gens /\ "a" # "b" /\ period \in Nat \ {0}
      /\ i \in 0 .. period
  BY <1>1 DEF Gens, ConfigInv, StateInv
<1>5. /\ pc' = pc /\ pool' = pool /\ i' = i + 1
      /\ used'["a"] = used["a"] \cup {PointAfter("a", 0)}
      /\ used'["b"] = used["b"]
      /\ serial'["a"] = (serial["a"] + 1) % period /\ serial'["b"] = serial["b"]
      /\ used' = [g \in Gens |-> IF g = "a" THEN used["a"] \cup {PointAfter("a", 0)}
                                 ELSE used[g]]
      /\ serial' = [g \in Gens |-> IF g = "a" THEN (serial["a"] + 1) % period
                                   ELSE serial[g]]
  BY <1>4 DEF Single, KvgenGet
<1>6. /\ used["a"] \cup {PointAfter("a", 0)} = Walk("a", s, i + 1)
      /\ (serial["a"] + 1) % period = (s + (i + 1)) % period
      /\ (serial["a"] + 1) % period \in Serials
      /\ used["a"] \cup {PointAfter("a", 0)} \in SUBSET Int
  BY <1>1, <1>3, <1>4, OneMore DEF RunInv
<1>7. StateInv'
  <2>1. i' \in 0 .. period'
    BY <1>1, <1>2, <1>4, <1>5
  <2>2. serial' \in [Gens -> Serials] /\ used' \in [Gens -> SUBSET Int]
    BY <1>1, <1>5, <1>6 DEF StateInv
  <2> QED  BY <1>1, <1>2, <1>5, <2>1, <2>2 DEF StateInv
<1>8. GeneratorsInStep' /\ pc' = "single"
  BY <1>1, <1>5 DEF GeneratorsInStep
<1>9. RunInv(s)'
  BY <1>1, <1>2, <1>3, <1>5, <1>6, <1>8 DEF RunInv
<1> QED  BY <1>2, <1>7, <1>8, <1>9 DEF KInv

(* CRUD keeps the invariant. *)
LEMMA CrudInv ==
    ASSUME KInv, Crud
    PROVE  KInv'
<1>1. ConfigInv /\ StateInv /\ pc = "crud" /\ i < period
      /\ serial["a"] = serial["b"]
  BY DEF KInv, Crud, GeneratorsInStep
<1>2. /\ ConfigInv' /\ Serials' = Serials /\ UNCHANGED <<period, doer, modulus>>
      /\ \A g, s, n : Walk(g, s, n)' = Walk(g, s, n)
  BY <1>1, ConfigKept DEF Crud
<1>3. PICK s \in Serials : RunInv(s)
  BY <1>1 DEF KInv
<1>4. "a" \in Gens /\ "b" \in Gens /\ period \in Nat \ {0} /\ i \in 0 .. period
  BY <1>1 DEF Gens, ConfigInv, StateInv
<1>5. /\ pc' = pc /\ pool' = pool /\ i' = i + 1
      /\ used' = [g \in Gens |-> used[g] \cup {PointAfter(g, 0)}]
      /\ serial' = [g \in Gens |-> (serial[g] + 1) % period]
  BY DEF Crud, KvgenGet, Gens
<1>6. \A g \in Gens :
        /\ used[g] \cup {PointAfter(g, 0)} = Walk(g, s, i + 1)
        /\ (serial[g] + 1) % period = (s + (i + 1)) % period
        /\ (serial[g] + 1) % period \in Serials
        /\ used[g] \cup {PointAfter(g, 0)} \in SUBSET Int
  <2> TAKE g \in Gens
  <2>1. used[g] = Walk(g, s, i) /\ serial[g] = (s + i) % period
    BY <1>1, <1>3 DEF RunInv, Gens
  <2> QED  BY <1>1, <2>1, OneMore
<1>7. StateInv'
  <2>1. i' \in 0 .. period'
    BY <1>1, <1>2, <1>4, <1>5
  <2>2. serial' \in [Gens -> Serials] /\ used' \in [Gens -> SUBSET Int]
    BY <1>5, <1>6
  <2> QED  BY <1>1, <1>2, <1>5, <2>1, <2>2 DEF StateInv
<1>8. GeneratorsInStep' /\ pc' = "crud"
  BY <1>1, <1>4, <1>5 DEF GeneratorsInStep
<1>9. RunInv(s)'
  BY <1>2, <1>4, <1>5, <1>6, <1>8 DEF RunInv
<1> QED  BY <1>2, <1>7, <1>8, <1>9 DEF KInv

(* The pools are filled with the next points of both generators. *)
LEMMA BatchInv ==
    ASSUME KInv, Batch
    PROVE  KInv'
<1>1. ConfigInv /\ StateInv /\ pc = "batch" /\ i < period
      /\ serial["a"] = serial["b"]
  BY DEF KInv, Batch, GeneratorsInStep
<1>2. /\ ConfigInv' /\ Serials' = Serials /\ UNCHANGED <<period, doer, modulus>>
      /\ \A d, g : Base(d, g)' = Base(d, g)
      /\ \A g, s, n : Walk(g, s, n)' = Walk(g, s, n)
  BY <1>1, ConfigKept DEF Batch
<1>3. PICK s \in Serials : RunInv(s)
  BY <1>1 DEF KInv
<1>4. /\ "a" \in Gens /\ "b" \in Gens /\ period \in Nat \ {0} /\ i \in 0 .. period
      /\ BatchLength \in Nat \ {0} /\ s \in Int
  BY <1>1, KeyGenAssumption DEF Gens, ConfigInv, StateInv, Serials
<1>5. /\ pc' = "pull" /\ UNCHANGED <<i, used>>
      /\ pool' = [g \in Gens |-> [k \in 1 .. BatchLength |-> PointAfter(g, k - 1)]]
      /\ serial' = [g \in Gens |-> (serial[g] + BatchLength) % period]
  BY DEF Batch, KvpoolInit
<1> DEFINE x == s + i
<1>6. x \in Int /\ \A g \in Gens : serial[g] = x % period /\ serial[g] \in Int
  BY <1>1, <1>3, <1>4 DEF RunInv, Gens, StateInv, Serials
<1> HIDE DEF x
<1>7. \A n \in Int : ((x % period) + n) % period = (x + n) % period
  BY <1>4, <1>6, ModAdd, Zenon
<1>8. \A n \in Int : (x + n) % period \in Serials
  BY <1>4, <1>6, ModType DEF Serials
<1>9. ASSUME NEW g \in Gens, NEW k \in 1 .. BatchLength
      PROVE  /\ PointAfter(g, k - 1) = Base(doer, g) + ((x + k - 1) % period)
             /\ PointAfter(g, k - 1) \in Int
  <2>1. k - 1 \in Int /\ x + (k - 1) = x + k - 1
    BY <1>4, <1>6
  <2>2. (serial[g] + (k - 1)) % period = (x + (k - 1)) % period
    BY <1>6, <1>7, <2>1
  <2>3. (x + (k - 1)) % period \in Int /\ Base(doer, g) \in Int
    BY <1>1, <1>8, <2>1, BaseType DEF Serials, ConfigInv
  <2> QED  BY <2>1, <2>2, <2>3 DEF PointAfter
<1>10. \A g \in Gens : /\ serial'[g] = (x + BatchLength) % period
                       /\ (x + BatchLength) % period \in Serials
  <2> TAKE g \in Gens
  <2>1. serial'[g] = ((x % period) + BatchLength) % period
    BY <1>5, <1>6
  <2>2. BatchLength \in Int
    BY <1>4
  <2> QED  BY <1>7, <1>8, <2>1, <2>2
<1>11. \A g \in Gens : /\ pool'[g] \in Seq(Int) /\ Len(pool'[g]) = BatchLength
                       /\ pool'[g] # <<>>
  <2> TAKE g \in Gens
  <2>1. pool'[g] = [k \in 1 .. BatchLength |-> PointAfter(g, k - 1)]
    BY <1>5
  <2>2. pool'[g] \in [1 .. BatchLength -> Int]
    BY <1>9, <2>1
  <2>3. pool'[g] \in Seq(Int) /\ Len(pool'[g]) = BatchLength
    BY <1>4, <2>2
  <2> QED  BY <1>4, <2>3
<1>12. StateInv'
  <2>1. pool' \in [Gens -> Seq(Int)]
    BY <1>5, <1>11
  <2>2. serial' \in [Gens -> Serials]
    BY <1>5, <1>10
  <2> QED  BY <1>1, <1>2, <1>5, <2>1, <2>2 DEF StateInv
<1>13. GeneratorsInStep'
  BY <1>4, <1>10 DEF GeneratorsInStep
<1>14. PoolInv(s)'
  <2>1. /\ i' < period' /\ pool'["a"] # <<>> /\ Len(pool'["a"]) = BatchLength
        /\ Len(pool'["b"]) = Len(pool'["a"])
    BY <1>1, <1>2, <1>4, <1>5, <1>11
  <2>2. ASSUME NEW g \in Gens, NEW k \in 1 .. BatchLength
        PROVE  pool'[g][k] = Base(doer, g)' + ((s + i' + k - 1) % period')
    <3>1. pool'[g][k] = PointAfter(g, k - 1)
      BY <1>5
    <3> QED  BY <1>2, <1>5, <1>9, <3>1 DEF x
  <2>3. ASSUME NEW g \in Gens
        PROVE  serial'[g] = (s + i' + BatchLength) % period'
    BY <1>2, <1>5, <1>10 DEF x
  <2> QED  BY <2>1, <2>2, <2>3 DEF PoolInv
<1>15. RunInv(s)'
  BY <1>1, <1>2, <1>3, <1>5, <1>14 DEF RunInv
<1> QED  BY <1>2, <1>5, <1>12, <1>13, <1>15 DEF KInv

(* A pair is pulled; the pools never run dry within a batch. *)
LEMMA PullInv ==
    ASSUME KInv, Pull
    PROVE  KInv'
<1>1. ConfigInv /\ StateInv /\ pc = "pull" /\ serial["a"] = serial["b"]
  BY DEF KInv, Pull, GeneratorsInStep
<1>2. /\ ConfigInv' /\ Serials' = Serials /\ UNCHANGED <<period, doer, modulus>>
      /\ \A d, g : Base(d, g)' = Base(d, g)
      /\ \A g, s, n : Walk(g, s, n)' = Walk(g, s, n)
  BY <1>1, ConfigKept DEF Pull
<1>3. PICK s \in Serials : RunInv(s)
  BY <1>1 DEF KInv
<1>4. PoolInv(s)
  BY <1>1, <1>3 DEF RunInv
<1>5. /\ "a" \in Gens /\ "b" \in Gens /\ period \in Nat \ {0} /\ i \in 0 .. period
      /\ s \in Int /\ i < period
  BY <1>1, <1>4 DEF Gens, ConfigInv, StateInv, Serials, PoolInv
<1>6. /\ used' = [g \in Gens |-> used[g] \cup {Head(pool[g])}]
      /\ pool' = [g \in Gens |-> Tail(pool[g])]
      /\ i' = i + 1 /\ serial' = serial
      /\ pc' = IF i + 1 = period \/ Len(pool["a"]) = 1 THEN "batch" ELSE "pull"
  BY <1>4 DEF Pull, PoolInv
<1> DEFINE n == Len(pool["a"])
<1>7. /\ n \in Nat \ {0}
      /\ \A g \in Gens : pool[g] \in Seq(Int) /\ Len(pool[g]) = n /\ pool[g] # <<>>
  <2>1. \A g \in Gens : pool[g] \in Seq(Int) /\ Len(pool[g]) = n
    BY <1>1, <1>4 DEF StateInv, PoolInv, Gens
  <2>2. n \in Nat \ {0}
    BY <1>4, <1>5, <2>1 DEF PoolInv
  <2> QED  BY <2>1, <2>2
<1> HIDE DEF n
<1>8. \A g \in Gens :
        /\ \A k \in 1 .. n : pool[g][k] = Base(doer, g) + ((s + i + k - 1) % period)
        /\ serial[g] = (s + i + n) % period
  BY <1>4 DEF PoolInv, n
<1>9. \A g \in Gens : /\ Tail(pool[g]) \in Seq(Int) /\ Len(Tail(pool[g])) = n - 1
                      /\ Head(pool[g]) = pool[g][1]
                      /\ \A k \in 1 .. n - 1 : Tail(pool[g])[k] = pool[g][k + 1]
  BY <1>7
<1>10. \A g \in Gens : used'[g] = Walk(g, s, i + 1) /\ used'[g] \in SUBSET Int
  <2> TAKE g \in Gens
  <2>1. Head(pool[g]) = Base(doer, g) + ((s + i) % period)
    <3>1. s + i + 1 - 1 = s + i /\ 1 \in 1 .. n
      BY <1>5, <1>7
    <3> QED  BY <1>8, <1>9, <3>1
  <2>2. used[g] = Walk(g, s, i) /\ used[g] \in SUBSET Int
    BY <1>1, <1>3 DEF RunInv, Gens, StateInv
  <2>3. /\ Walk(g, s, i + 1) =
             Walk(g, s, i) \cup {Base(doer, g) + ((s + i) % period)}
        /\ Base(doer, g) + ((s + i) % period) \in Int
    <3>1. i \in Nat
      BY <1>5
    <3> QED  BY <1>1, <3>1, WalkNext
  <2> QED  BY <1>6, <2>1, <2>2, <2>3
<1>11. StateInv'
  <2>1. i' \in 0 .. period'
    BY <1>2, <1>5, <1>6
  <2>4. pc' \in {"batch", "pull"}
    BY <1>6
  <2>2. pool' \in [Gens -> Seq(Int)]
    BY <1>6, <1>9
  <2>3. used' \in [Gens -> SUBSET Int]
    BY <1>6, <1>10
  <2> QED  BY <1>1, <1>2, <1>6, <2>1, <2>2, <2>3, <2>4 DEF StateInv
<1>12. GeneratorsInStep' /\ pc' # "idle"
  BY <1>1, <1>6 DEF GeneratorsInStep
<1>13. RunInv(s)'
  <2>1. used'["a"] = Walk("a", s, i)' /\ used'["b"] = Walk("b", s, i)'
    BY <1>2, <1>5, <1>6, <1>10 DEF Walk
  <2>2. CASE i + 1 = period
    BY <1>2, <1>6, <2>1, <2>2, <1>5 DEF RunInv
  <2>3. CASE i + 1 # period /\ n = 1
    <3>1. serial'["a"] = (s + i') % period'
      <4>1. s + i + n = s + (i + 1)
        BY <1>5, <2>3
      <4> QED  BY <1>2, <1>5, <1>6, <1>8, <4>1
    <3>2. pc' = "batch"
      BY <1>6, <2>3 DEF n
    <3> QED  BY <2>1, <3>1, <3>2 DEF RunInv
  <2>4. CASE i + 1 # period /\ n # 1
    <3>1. pc' = "pull" /\ i' < period' /\ n - 1 \in Nat \ {0}
      BY <1>2, <1>5, <1>6, <1>7, <2>4 DEF n
    <3>2. /\ pool'["a"] # <<>> /\ Len(pool'["a"]) = n - 1
          /\ Len(pool'["b"]) = Len(pool'["a"])
      BY <1>5, <1>6, <1>9, <3>1
    <3>3. ASSUME NEW g \in Gens, NEW k \in 1 .. n - 1
          PROVE  pool'[g][k] = Base(doer, g)' + ((s + i' + k - 1) % period')
      <4>1. k + 1 \in 1 .. n /\ s + i + (k + 1) - 1 = s + (i + 1) + k - 1
        BY <1>5, <1>7
      <4>2. pool'[g][k] = pool[g][k + 1]
        BY <1>6, <1>9
      <4> QED  BY <1>2, <1>6, <1>8, <4>1, <4>2
    <3>4. ASSUME NEW g \in Gens
          PROVE  serial'[g] = (s + i' + (n - 1)) % period'
      <4>1. s + i + n = s + (i + 1) + (n - 1)
        BY <1>5, <1>7
      <4> QED  BY <1>2, <1>6, <1>8, <4>1
    <3>5. PoolInv(s)'
      BY <3>1, <3>2, <3>3, <3>4 DEF PoolInv
    <3> QED  BY <2>1, <3>1, <3>5 DEF RunInv
  <2> QED  BY <2>2, <2>3, <2>4
<1> QED  BY <1>2, <1>11, <1>12, <1>13 DEF KInv

(* After a whole round the generators are where they began. *)
LEMMA RunEndInv ==
    ASSUME KInv, RunEnd
    PROVE  KInv'
<1>1. ConfigInv /\ StateInv /\ GeneratorsInStep
      /\ pc \in {"single", "crud", "batch"} /\ i = period
  BY DEF KInv, RunEnd
<1>2. /\ ConfigInv' /\ Serials' = Serials /\ UNCHANGED <<period, doer, modulus>>
  BY <1>1, ConfigKept DEF RunEnd
<1>3. PICK s \in Serials : RunInv(s)
  BY <1>1 DEF KInv
<1>4. /\ pc' = "idle" /\ pool' = [g \in Gens |-> <<>>]
      /\ UNCHANGED <<serial, i, used>>
  BY DEF RunEnd
<1>5. StateInv'
  <2>1. pool' \in [Gens -> Seq(Int)]
    BY <1>4
  <2> QED  BY <1>1, <1>2, <1>4, <2>1 DEF StateInv
<1>6. serial["a"] = serial["b"]
  <2>1. CASE pc = "single"
    <3>1. serial["b"] = s /\ serial["a"] = (s + period) % period
      BY <1>1, <1>3, <2>1 DEF RunInv
    <3>2. period \in Nat \ {0} /\ s \in Int /\ s \in 0 .. period - 1
      BY <1>1 DEF ConfigInv, Serials
    <3>3. (s + period) % period = s % period /\ s % period = s
      BY <3>2, ModWrap, ModSmall
    <3> QED  BY <3>1, <3>3
  <2>2. CASE pc # "single"
    BY <1>1, <2>2 DEF GeneratorsInStep
  <2> QED  BY <2>1, <2>2
<1> QED  BY <1>2, <1>4, <1>5, <1>6 DEF KInv, GeneratorsInStep

(* Every step keeps the invariant. *)
LEMMA KStep ==
    ASSUME KInv, [Next]_vars
    PROVE  KInv'
<1>1. CASE UNCHANGED vars
  <2>1. UNCHANGED <<rthr, wthr, two, period, modulus, doer, serial, pool, pc, i,
                    used>>
    BY <1>1 DEF vars, config
  <2>2. /\ ConfigInv' /\ Serials' = Serials
        /\ \A d, g : Base(d, g)' = Base(d, g)
        /\ \A g, s, n : Walk(g, s, n)' = Walk(g, s, n)
    BY <2>1, ConfigKept DEF KInv, config
  <2>3. StateInv' /\ GeneratorsInStep'
    BY <2>1, <2>2 DEF KInv, StateInv, GeneratorsInStep
  <2>4. \A s : RunInv(s) => RunInv(s)'
    BY <2>1, <2>2 DEF RunInv, PoolInv, Walk
  <2> QED  BY <2>1, <2>2, <2>3, <2>4 DEF KInv
<1>2. CASE Next
  BY <1>1, <1>2, StartsInv, SingleInv, CrudInv, BatchInv, PullInv, RunEndInv
  DEF Next, RunSingle, RunCrud, RunBatch, Idle
<1> QED  BY <1>1, <1>2

(* The inductive invariant holds. *)
THEOREM KeysInductive == Spec => []KInv
<1>1. Init => KInv
  BY KInit
<1>2. KInv /\ [Next]_vars => KInv'
  BY KStep
<1> QED  BY <1>1, <1>2, PTL DEF Spec

(* The two generators of a doer are in step whenever a benchmark that     *)
(* uses both may begin, although SET, DELETE and GET move only one: -n    *)
(* operations bring it round to where it was.                             *)
THEOREM InStep == Spec => []GeneratorsInStep
<1>1. KInv => GeneratorsInStep
  BY DEF KInv
<1> QED  BY <1>1, KeysInductive, PTL

(* A benchmark uses each key of the doer's key spaces exactly once, and   *)
(* no batch finds its pool empty, for any sector, -n and batch length.    *)
THEOREM CoversSpace == Spec => []RunCoversSpace
<1>1. KInv => RunCoversSpace
  <2> SUFFICES ASSUME KInv  PROVE RunCoversSpace
    OBVIOUS
  <2>1. ConfigInv /\ StateInv /\ pc # "stopped"
    BY DEF KInv, StateInv
  <2> SUFFICES ASSUME pc \in {"single", "crud", "batch"}, i = period
               PROVE  /\ used["a"] = Space("a")
                      /\ pc # "single" => used["b"] = Space("b")
    BY <2>1 DEF RunCoversSpace
  <2>2. PICK s \in Serials : RunInv(s)
    BY DEF KInv
  <2>3. \A g \in Gens : Walk(g, s, period) = Space(g)
    <3> TAKE g \in Gens
    <3>1. period \in Nat \ {0} /\ Base(doer, g) \in Int
      BY <2>1, BaseType DEF ConfigInv
    <3> QED  BY <3>1, FullRound DEF Walk, Space, Serials
  <2> QED  BY <2>2, <2>3 DEF RunInv, Gens
<1> QED  BY <1>1, KeysInductive, PTL

----------------------------------------------------------------------------
(* The points that are written. *)

(* Any numbers have a smallest one. *)
LEMMA Smallest ==
    ASSUME NEW T, T \subseteq Nat, T # {}
    PROVE  \E x \in T : \A y \in T : x <= y
<1> DEFINE R == OpToRel(<, Nat)
<1>1. IsWellFoundedOn(R, Nat)
  BY NatLessThanWellFounded
<1>2. PICK x \in T : \A y \in T : ~(<<y, x>> \in R)
  <2> HIDE DEF R
  <2> QED  BY <1>1, WFMin
<1>3. \A y \in T : ~(y < x)
  BY <1>2 DEF OpToRel
<1> QED  BY <1>3

(* A modulus that setup settles on is beyond maxkey. *)
LEMMA ModulusHolds ==
    ASSUME ConfigInv, modulus > 0
    PROVE  modulus \in Nat \ {0} /\ maxkey < modulus - 1
<1>1. ~(maxkey < 2 \/ Fitting = {})
  BY DEF ConfigInv, SetupModulus
<1>2. Fitting # {} /\ Fitting \subseteq Widths /\ Fitting \subseteq Nat
  BY <1>1, KeyGenAssumption DEF Fitting
<1>3. \E w \in Fitting : \A v \in Fitting : w <= v
  BY <1>2, Smallest
<1> DEFINE w == CHOOSE x \in Fitting : \A v \in Fitting : x <= v
<1>4. w \in Fitting
  BY <1>3
<1>5. modulus = 2 ^ w
  BY <1>1 DEF ConfigInv, SetupModulus
<1> HIDE DEF w
<1>6. maxkey < 2 ^ w - 1
  BY <1>4 DEF Fitting
<1>7. modulus \in Nat
  BY <1>2, <1>4, <1>5, KeyGenAssumption
<1> QED  BY <1>5, <1>6, <1>7

(* They lie in an interval of maxkey points. *)
LEMMA WrittenInterval ==
    ASSUME ConfigInv
    PROVE  \E lo \in Nat : \A d \in Doers : Written(d) \subseteq lo .. lo + maxkey - 1
<1> DEFINE t == IF two THEN 2 ELSE 1
           P == t * period
<1>1. /\ rthr \in Nat /\ wthr \in Nat /\ period \in Nat \ {0} /\ t \in {1, 2}
  BY DEF ConfigInv
<1>2. P \in Nat \ {0} /\ P = period * t
  BY <1>1
<1>3. CASE wthr = 0
  <2>1. maxkey = P
    BY <1>1, <1>3 DEF maxkey, nspaces, Larger
  <2>2. Written(0) = 0 .. P - 1
    <3>1. KeySpace(0) = 0
      BY <1>1 DEF KeySpace
    <3>2. Base(0, "a") = 0
      BY <1>1, <3>1 DEF Base
    <3> QED  BY <1>1, <1>2, <1>3, <3>2 DEF Written, Writes
  <2>3. \A d \in Doers : d # 0 => Written(d) = {}
    BY <1>3 DEF Written, Writes
  <2>4. \A d \in Doers : Written(d) \subseteq 0 .. 0 + maxkey - 1
    BY <1>2, <2>1, <2>2, <2>3
  <2> QED  BY <2>4
<1>4. CASE wthr # 0
  <2>1. maxkey = wthr * P
    BY <1>1, <1>2, <1>4 DEF maxkey, nspaces, Larger
  <2>2. ASSUME NEW d \in Doers, Writes(d)
        PROVE  Written(d) \subseteq P .. P + maxkey - 1
    <3>1. d \in Int /\ d > rthr /\ d <= rthr + wthr
      BY <1>1, <1>4, <2>2 DEF Doers, Writes
    <3> DEFINE n == d - rthr
    <3>2. n \in 1 .. wthr
      BY <1>1, <3>1
    <3>3. KeySpace(d) = n * t
      BY <3>1 DEF KeySpace
    <3> HIDE DEF n
    <3>4. Base(d, "a") = n * P
      BY <1>1, <3>2, <3>3 DEF Base
    <3>5. P <= n * P /\ n * P + P <= P + wthr * P
      <4>1. \A x, y, z \in Nat : x <= y => x * z <= y * z
        OBVIOUS
      <4>2. 1 * P <= n * P /\ n * P <= wthr * P
        BY <1>1, <1>2, <3>2, <4>1
      <4>3. n * P \in Nat /\ wthr * P \in Nat
        BY <1>1, <1>2, <3>2
      <4> QED  BY <1>2, <4>2, <4>3
    <3>6. Written(d) = n * P .. n * P + P - 1
      BY <1>2, <2>2, <3>4 DEF Written
    <3>7. n * P \in Nat /\ wthr * P \in Nat
      BY <1>1, <1>2, <3>2
    <3> QED  BY <1>2, <2>1, <3>5, <3>6, <3>7
  <2>3. \A d \in Doers : ~Writes(d) => Written(d) = {}
    BY DEF Written
  <2>4. \A d \in Doers : Written(d) \subseteq P .. P + maxkey - 1
    BY <2>2, <2>3
  <2> QED  BY <1>2, <2>4
<1> QED  BY <1>3, <1>4

(* Different points that somebody writes make different keys: the         *)
(* remainders modulo the width that setup chose keep them apart, although *)
(* key spaces are counted from one and points go beyond maxkey.           *)
THEOREM KeysStayDistinct == Spec => []WrittenKeysDistinct
<1>1. KInv => WrittenKeysDistinct
  <2> SUFFICES ASSUME KInv, modulus > 0
               PROVE  LET W == UNION {Written(d) : d \in Doers}
                      IN  Cardinality({p % modulus : p \in W}) = Cardinality(W)
    BY DEF WrittenKeysDistinct
  <2> DEFINE W == UNION {Written(d) : d \in Doers}
             T == {p % modulus : p \in W}
             f == [p \in W |-> p % modulus]
  <2>1. ConfigInv
    BY DEF KInv
  <2>2. modulus \in Nat \ {0} /\ maxkey < modulus - 1
    BY <2>1, ModulusHolds
  <2>3. maxkey \in Nat
    <3>1. period \in Nat /\ nspaces \in Nat
      BY <2>1 DEF ConfigInv, nspaces, Larger
    <3> QED  BY <3>1 DEF maxkey
  <2>4. PICK lo \in Nat : \A d \in Doers : Written(d) \subseteq lo .. lo + maxkey - 1
    BY <2>1, WrittenInterval
  <2>5. W \subseteq lo .. lo + maxkey - 1
    BY <2>4
  <2>6. IsFiniteSet(W)
    <3>1. IsFiniteSet(lo .. lo + maxkey - 1)
      BY <2>3, FS_Interval
    <3> QED  BY <2>5, <3>1, FS_Subset
  <2> HIDE DEF W
  <2>7. \A a, b \in W : f[a] = f[b] => a = b
    <3> SUFFICES ASSUME NEW a \in W, NEW b \in W, a % modulus = b % modulus
                 PROVE  a = b
      OBVIOUS
    <3>1. a \in Int /\ b \in Int /\ a - b < modulus /\ b - a < modulus
      BY <2>2, <2>3, <2>5
    <3> QED  BY <2>2, <3>1, ModDistinct
  <2>8. f \in [W -> T] /\ \A x \in T : \E a \in W : f[a] = x
    OBVIOUS
  <2>9. f \in Bijection(W, T)
    <3> HIDE DEF f, T
    <3> QED  BY <2>7, <2>8 DEF Bijection, Injection, Surjection, IsInjective
  <2>10. Cardinality(T) = Cardinality(W)
    <3>1. ExistsBijection(W, T)
      BY <2>9 DEF ExistsBijection
    <3> HIDE DEF T
    <3> QED  BY <2>6, <3>1, FS_Bijection
  <2> QED  BY <2>10 DEF W
<1> QED  BY <1>1, KeysInductive, PTL

----------------------------------------------------------------------------
(* The table of kv_mod2n_injection is a permutation, whatever its size and *)
(* however it is shuffled (KeyShuffle.tla).                                *)

(* The end of a round of kv_sbox_init. *)
LEMMA RoundEnds ==
    ASSUME SboxSize \in Nat \ {0}, step \in Indexes, NEW next,
           Round(next)
    PROVE  /\ step' \in Indexes
           /\ \/ step' = step + 1 /\ loop' = loop
              \/ step + 1 = SboxSize /\ step' = 0 /\ loop' = next
  BY DEF Round, Indexes

(* The indexes up to that of the round. *)
LEMMA RoundIndexes ==
    ASSUME SboxSize \in Nat \ {0}, step \in Indexes,
           NEW k \in Indexes
    PROVE  /\ k < step + 1 <=> k < step \/ k = step
           /\ step + 1 = SboxSize => k < step \/ k = step
           /\ ~(k < 0) /\ ~(step < step)
  BY DEF Indexes

(* Filling the table. *)
LEMMA FillInv ==
    ASSUME SboxSize \in Nat \ {0}, ShuffleInv, Fill
    PROVE  ShuffleInv'
<1> USE DEF ShuffleInv
<1>1. /\ loop = "fill" /\ sbox' = [sbox EXCEPT ![step] = step]
      /\ step' \in Indexes
      /\ \/ step' = step + 1 /\ loop' = loop
         \/ step + 1 = SboxSize /\ step' = 0 /\ loop' = "shuffle"
  BY RoundEnds DEF Fill
<1>2. /\ sbox' \in [Indexes -> Indexes]
      /\ \A k \in Indexes : k < step \/ k = step => sbox'[k] = k
  BY <1>1
<1>3. CASE loop' = "fill"
  BY <1>1, <1>2, <1>3, RoundIndexes
<1>4. CASE loop' = "shuffle"
  <2>1. \A k \in Indexes : sbox'[k] = k
    BY <1>1, <1>2, <1>4, RoundIndexes
  <2>2. \A k \in Indexes : Entry(k)' = k
    BY <1>4, <2>1 DEF Entry, Stirred
  <2> QED  BY <1>1, <1>2, <1>4, <2>2
<1> QED  BY <1>1, <1>3, <1>4

(* A swap by exclusive or swaps, also an entry with itself. *)
LEMMA SwapSwaps ==
    ASSUME sbox \in [Indexes -> Indexes], step \in Indexes,
           NEW n \in Indexes, Shuffle(n)
    PROVE  /\ sbox' \in [Indexes -> Indexes]
           /\ sbox'[step] = sbox[n] /\ sbox'[n] = sbox[step]
           /\ \A k \in Indexes \ {step, n} : sbox'[k] = sbox[k]
<1> DEFINE a == sbox[step]
           b == sbox[n]
           x == ExOr(a, b)
           first == [sbox EXCEPT ![step] = ExOr(@, x)]
<1>1. a \in Indexes /\ b \in Indexes
  OBVIOUS
<1>2. ExOr(a, x) = b /\ ExOr(b, x) = a
  BY <1>1, ShuffleAssumption
<1>3. sbox' = [first EXCEPT ![n] = ExOr(@, x)]
  BY DEF Shuffle
<1> HIDE DEF x
<1>4. /\ first \in [Indexes -> Indexes]
      /\ first[step] = b
      /\ \A k \in Indexes \ {step} : first[k] = sbox[k]
  BY <1>1, <1>2
<1> HIDE DEF first
<1>5. ExOr(first[n], x) = a
  <2>1. CASE n = step
    BY <1>2, <1>4, <2>1
  <2>2. CASE n # step
    BY <1>2, <1>4, <2>2
  <2> QED  BY <2>1, <2>2
<1>6. /\ sbox' \in [Indexes -> Indexes]
      /\ sbox'[n] = a
      /\ \A k \in Indexes \ {n} : sbox'[k] = first[k]
  BY <1>1, <1>3, <1>4, <1>5
<1> QED  BY <1>4, <1>6

(* Shuffling. *)
LEMMA ShuffleStepInv ==
    ASSUME ShuffleInv, NEW n \in Indexes, Shuffle(n)
    PROVE  ShuffleInv'
<1> USE DEF ShuffleInv
<1>0. SboxSize \in Nat \ {0}
  BY ShuffleAssumption
<1>1. /\ loop = "shuffle" /\ step' \in Indexes
      /\ \/ step' = step + 1 /\ loop' = loop
         \/ step' = 0 /\ loop' = "stir"
  BY <1>0, RoundEnds DEF Shuffle
<1>2. /\ sbox' \in [Indexes -> Indexes]
      /\ sbox'[step] = sbox[n] /\ sbox'[n] = sbox[step]
      /\ \A k \in Indexes \ {step, n} : sbox'[k] = sbox[k]
  BY SwapSwaps
<1>3. \A k \in Indexes : Entry(k) = sbox[k]
  BY <1>1 DEF Entry, Stirred
<1>4. \A k \in Indexes : Entry(k)' = sbox'[k]
  BY <1>0, <1>1, RoundIndexes DEF Entry, Stirred
<1>5. ASSUME NEW v \in Indexes
      PROVE  \E k \in Indexes : Entry(k)' = v
  <2>1. PICK k \in Indexes : sbox[k] = v
    BY <1>1, <1>3
  <2>2. CASE k = step
    BY <1>2, <1>4, <2>1, <2>2
  <2>3. CASE k = n
    BY <1>2, <1>4, <2>1, <2>3
  <2>4. CASE k \notin {step, n}
    BY <1>2, <1>4, <2>1, <2>4
  <2> QED  BY <2>2, <2>3, <2>4
<1> QED  BY <1>1, <1>2, <1>5

(* Stirring in the indexes. *)
LEMMA StirInv ==
    ASSUME ShuffleInv, Stir
    PROVE  ShuffleInv'
<1> USE DEF ShuffleInv
<1>0. SboxSize \in Nat \ {0}
  BY ShuffleAssumption
<1>1. /\ loop = "stir" /\ step' \in Indexes
      /\ sbox' = [sbox EXCEPT ![step] = ExOr(@, step)]
      /\ \/ step' = step + 1 /\ loop' = "stir"
         \/ step + 1 = SboxSize /\ step' = 0 /\ loop' = "ready"
  BY <1>0, RoundEnds DEF Stir
<1>2. /\ ExOr(sbox[step], step) \in Indexes
      /\ ExOr(step, ExOr(sbox[step], step)) = sbox[step]
  BY ShuffleAssumption
<1>3. /\ sbox' \in [Indexes -> Indexes]
      /\ sbox'[step] = ExOr(sbox[step], step)
      /\ \A k \in Indexes \ {step} : sbox'[k] = sbox[k]
  BY <1>1, <1>2
<1>4. \A k \in Indexes :
         /\ Stirred(k)' <=> k < step \/ k = step
         /\ ~(step < step)
  BY <1>0, <1>1, RoundIndexes DEF Stirred
<1>5. ASSUME NEW k \in Indexes
      PROVE  Entry(k)' = Entry(k)
  <2>1. CASE k = step
    BY <1>1, <1>2, <1>3, <1>4, <2>1 DEF Entry, Stirred
  <2>2. CASE k # step
    BY <1>1, <1>3, <1>4, <2>2 DEF Entry, Stirred
  <2> QED  BY <2>1, <2>2
<1>6. \A v \in Indexes :
         \E k \in Indexes : Entry(k)' = v
  BY <1>1, <1>5
<1> QED  BY <1>1, <1>3, <1>6

(* The invariant is inductive. *)
LEMMA ShuffleInductive ==
    /\ ShuffleInit => ShuffleInv
    /\ ShuffleInv /\ [ShuffleNext]_shuffle_vars => ShuffleInv'
<1>0. SboxSize \in Nat \ {0}
  BY ShuffleAssumption
<1>1. ShuffleInit => ShuffleInv
  BY <1>0 DEF ShuffleInit, ShuffleInv, Indexes
<1>2. ASSUME ShuffleInv, UNCHANGED shuffle_vars
      PROVE  ShuffleInv'
  BY <1>2 DEF shuffle_vars, ShuffleInv, Entry, Stirred
<1> QED  BY <1>0, <1>1, <1>2, FillInv, ShuffleStepInv, StirInv
         DEF ShuffleNext, Ready

(* kv_sbox_init makes a table by which kv_mod2n_injection maps the low     *)
(* bits one to one, for a table of any size, and whatever rand_r returns.  *)
THEOREM TablePermutes == ShuffleSpec => []StaysPermutation
<1>1. ShuffleInv => StaysPermutation
  <2> SUFFICES ASSUME ShuffleInv
               PROVE  StaysPermutation
    OBVIOUS
  <2> USE DEF ShuffleInv
  <2>1. ASSUME loop = "shuffle"
        PROVE  {sbox[k] : k \in Indexes} = Indexes
    <3>1. \A k \in Indexes : Entry(k) = sbox[k]
      BY <2>1 DEF Entry, Stirred
    <3> QED  BY <2>1, <3>1
  <2>2. ASSUME loop = "ready"
        PROVE  {ExOr(k, sbox[k]) : k \in Indexes} = Indexes
    <3>1. \A k \in Indexes :
             /\ Entry(k) = ExOr(k, sbox[k])
             /\ ExOr(k, sbox[k]) \in Indexes
      BY <2>2, ShuffleAssumption DEF Entry, Stirred
    <3> QED  BY <2>2, <3>1
  <2> QED  BY <2>1, <2>2 DEF StaysPermutation
<1> QED  BY <1>1, ShuffleInductive, PTL DEF ShuffleSpec
=============================================================================
