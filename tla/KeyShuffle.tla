----------------------------- MODULE KeyShuffle -----------------------------
(***************************************************************************)
(* kv_sbox_init: a table is filled, shuffled with swaps by exclusive or,   *)
(* and stirred, every entry with its index.  kv_mod2n_injection replaces   *)
(* the low bits of a number, x, by x ^ sbox[x]; it can only be injective   *)
(* if they are all different.                                              *)
(***************************************************************************)
EXTENDS Integers

CONSTANTS SboxSize,     \* SBOX_SIZE, a power of two
          ExOr(_, _)    \* of two numbers, bit by bit; KeyMix.tla defines it

Indexes == 0 .. SboxSize - 1

(* What the shuffle needs to know of exclusive or; for the first part      *)
(* SboxSize has to be a power of two.                                      *)
ASSUME ShuffleAssumption ==
    /\ SboxSize \in Nat \ {0}
    /\ \A a, b \in Indexes : /\ ExOr(a, b) \in Indexes
                             /\ ExOr(a, ExOr(a, b)) = b
                             /\ ExOr(b, ExOr(a, b)) = a

VARIABLES sbox,
          step,            \* of the three loops of kv_sbox_init
          loop            \* the loop: "fill", "shuffle", "stir"; or "ready"

shuffle_vars == <<sbox, step, loop>>

ShuffleInit ==
    /\ sbox = [k \in Indexes |-> 0]
    /\ step = 0
    /\ loop = "fill"

(* The end of one round; after the last one the next loop begins. *)
Round(next) ==
    IF step + 1 < SboxSize THEN step' = step + 1 /\ UNCHANGED loop
    ELSE step' = 0 /\ loop' = next

Fill ==
    /\ loop = "fill"
    /\ sbox' = [sbox EXCEPT ![step] = step]
    /\ Round("shuffle")

(* Mutant: the swap goes through the table, as in a ^= b, b ^= a, a ^= b. *)
ShuffleInPlace(n) ==
    LET t1 == [sbox EXCEPT ![step] = ExOr(@, sbox[n])]
        t2 == [t1 EXCEPT ![n] = ExOr(@, t1[step])]
    IN /\ loop = "shuffle"
       /\ sbox' = [t2 EXCEPT ![step] = ExOr(@, t2[n])]
       /\ Round("stir")

(* rand_r gives any index n, i itself included.  Both entries are changed *)
(* by the same x, one after the other.                                    *)
Shuffle(n) ==
    LET x == ExOr(sbox[step], sbox[n])
        first == [sbox EXCEPT ![step] = ExOr(@, x)]
    IN /\ loop = "shuffle"
       /\ sbox' = [first EXCEPT ![n] = ExOr(@, x)]
       /\ Round("stir")

Stir ==
    /\ loop = "stir"
    /\ sbox' = [sbox EXCEPT ![step] = ExOr(@, step)]
    /\ Round("ready")

Ready == loop = "ready" /\ UNCHANGED shuffle_vars

ShuffleNext == Fill \/ (\E n \in Indexes : Shuffle(n)) \/ Stir \/ Ready

ShuffleSpec == ShuffleInit /\ [][ShuffleNext]_shuffle_vars

----------------------------------------------------------------------------
(* The shuffle keeps the table a permutation, also when an entry is        *)
(* swapped with itself; and after the last loop, which stirs the index in, *)
(* so is what kv_mod2n_injection makes of the low bits, x ^ sbox[x].       *)
StaysPermutation ==
    /\ loop = "shuffle" => {sbox[k] : k \in Indexes} = Indexes
    /\ loop = "ready" => {ExOr(k, sbox[k]) : k \in Indexes} = Indexes

(* Whether entry k has been stirred, and what it is without that. *)
Stirred(k) == loop = "ready" \/ (loop = "stir" /\ k < step)
Entry(k) == IF Stirred(k) THEN ExOr(k, sbox[k]) ELSE sbox[k]

(* The inductive invariant: without the indexes that have been stirred in  *)
(* the table is always a permutation, as soon as it is filled.             *)
ShuffleInv ==
    /\ sbox \in [Indexes -> Indexes]
    /\ step \in Indexes
    /\ loop \in {"fill", "shuffle", "stir", "ready"}
    /\ loop = "fill" => \A k \in Indexes : k < step => sbox[k] = k
    /\ loop # "fill" => \A v \in Indexes : \E k \in Indexes : Entry(k) = v
=============================================================================
