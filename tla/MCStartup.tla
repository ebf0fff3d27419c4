----------------------------- MODULE MCStartup -----------------------------
EXTENDS Startup

(* Two of the seven options of ia_mdbx.c: one that the modes set as well   *)
(* and one that they do not.                                               *)
MCNames == <<"COALESCE", "NOMETASYNC">>

O(letter, a) == [opt |-> letter, arg |-> a]

Lists ==
    LET c(v) == Item("COALESCE", v)
        m(v) == Item("NOMETASYNC", v)
    IN {<<c("on")>>, <<m("off")>>, <<m("on"), c("off")>>,
        <<c("on"), m("on"), Nothing>>, <<m("off"), c("on"), m("on")>>,
        <<c("off"), c("maybe")>>, <<Nothing>>}

Usual ==
    {O("D", d) : d \in Drivers \cup {"nosuch"}}
    \cup {O("o", l) : l \in Lists}
    \cup {O("B", b) : b \in {<<"batch">>, <<"get", "nosuch", "set">>, <<>>}}
    \cup {O("k", 0), O("k", 8), O("n", 1), O("p", "tmp"), O("h", ""), O("?", "")}
    \cup {O("m", m) : m \in {"sync", "nosync", "nosuch"}}
    \cup {O("l", l) : l \in {"walon", "waloff", "nosuch"}}

Few == {O("D", "mdbx"), O("m", "nosync"), O("l", "walon"), O("l", "waloff")}
       \cup {O("o", l) : l \in Lists}

(* Every command line of up to three options, and those of four that can   *)
(* make a difference to the flags of mdbx.                                 *)
UsualLines ==
    {<<>>} \cup [1 .. 1 -> Usual] \cup [1 .. 2 -> Usual]
    \cup [1 .. 3 -> Usual]
    \cup {<<O("D", "mdbx")>> \o l : l \in [1 .. 3 -> Few]}

(* A name that the mdbx driver does not know. *)
UnknownLines == {<<O("D", "mdbx"), O("o", <<Junk>>)>>}
=============================================================================
