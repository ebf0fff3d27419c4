------------------------------- MODULE KeyMix -------------------------------
(***************************************************************************)
(* From the point of a key to its text: the table of kv_sbox_init          *)
(* (KeyShuffle.tla), kv_mod2n_injection, whose comment calls it an         *)
(* injective function, and kv_fill, which makes characters of six bits out *)
(* of sixteen and mixes the four left over into the next one.  The table   *)
(* has SboxSize entries instead of 2048, and is shuffled in every possible *)
(* way; the width is 16 bits, the smallest one that ia_kvgen_setup         *)
(* chooses, and every point is tried.                                      *)
(***************************************************************************)
EXTENDS KeyShuffle, FiniteSets, Bitwise

CONSTANT KeySize        \* kv_globals.ksize

(* Keys of 16 bits have at least three characters, or ia_kvgen_setup fails. *)
(* The fifth one would need all 64 bits of the mixed point.                 *)
ASSUME MixAssumption == KeySize \in 3 .. 4

(* Exclusive or, for KeyShuffle. *)
BitXor(a, b) == a ^^ b

Modulus == 2 ^ 16                   \* kv_globals.width is 2
Points == 0 .. Modulus - 1

(* 10042331536242289283 modulo 2^24; fewer bits are used. *)
Magic == 7121539

(* kv_mod2n_injection, with the "magic" prime of its 16 bits. *)
Mix(point) ==
    LET x == (point + Magic) % Modulus
        s == x ^^ sbox[x % SboxSize]
        y == s ^^ (s \div 2)
        z == (y * 25693) % Modulus
    IN  z ^^ ((z * 2 ^ 7) % Modulus)

(* The low 12 bits of remix4tail, two characters.  The rotation by 47      *)
(* brings the bits from the 17th on to the low end; in the bits kept here  *)
(* the constant added, 7015912586649315971, is the magic one again.        *)
Remix4tail(point) ==
    (point % 2 ^ 12) ^^ ((point \div 2 ^ 17 + Magic) % 2 ^ 12)

(* Mutant: the bits left over are forgotten. *)
KeyTextCut(point) ==
    LET next == Remix4tail(point)
    IN [k \in 1 .. KeySize |->
          IF k <= 2 THEN (point \div 64 ^ (k - 1)) % 64
          ELSE (next \div 64 ^ (k - 3)) % 64]

(* kv_fill, printable: two characters of the point, whose four bits left   *)
(* over are added to it before it is mixed for the next ones.              *)
KeyText(point) ==
    LET next == Remix4tail(point + point \div 64 ^ 2)
    IN [k \in 1 .. KeySize |->
          IF k <= 2 THEN (point \div 64 ^ (k - 1)) % 64
          ELSE (next \div 64 ^ (k - 3)) % 64]

----------------------------------------------------------------------------
(* Different points never become the same key, whatever table the seed    *)
(* gives, also when the key is as short as ia_kvgen_setup allows: neither *)
(* kv_mod2n_injection, modulo 2^16, nor the text loses a bit.             *)
KeysDistinct ==
    loop = "ready" => Cardinality({KeyText(Mix(p)) : p \in Points}) = Modulus
=============================================================================
