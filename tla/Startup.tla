------------------------------ MODULE Startup ------------------------------
(***************************************************************************)
(* From the command line to the database and back: main (ia_main.c),       *)
(* ia_init and ia_free (ia.c), ia_config.c, and how the drivers open and   *)
(* close their databases.                                                  *)
(*                                                                         *)
(* An option of the command line is a record of its letter and of what the *)
(* argument reads as; -n, -v, -C, -r, -w, -i and -c, which only store a    *)
(* number, a flag or a pointer into argv, are the letter "n".  The         *)
(* argument of -o is a list of items with commas between them; what is no  *)
(* NAME=VALUE with a known name is the item Junk, and Nothing is the empty *)
(* text after a last comma.                                                *)
(***************************************************************************)
EXTENDS Integers, Sequences

CONSTANTS CommandLines, \* what may come after the program's name
          Names,        \* options of the mdbx driver, in the order of tests
          MaxFaults     \* bound: failures of the system and of libraries

Drivers == {"lmdb", "mdbx", "rocksdb", "leveldb", "sophia", "wiredtiger",
            "forestdb", "upscaledb", "sqlite3", "vedisdb", "unqlite", "iowow"}
Benchmarks == {"set", "batch", "crud", "delete", "iterate", "get"}
SyncModes == {"sync", "lazy", "nosync"}
WalModes == {"indef", "walon", "waloff"}
Settings == {"default", "off", "on"}
Flags == {Names[k] : k \in 1 .. Len(Names)} \cup
         {"NOMETASYNC", "LIFORECLAIM", "SAFE_NOSYNC", "WRITEMAP",
          "UTTERLY_NOSYNC", "set_sync", "disable_WAL", "need_checkpoints"}

Item(name, value) == [name |-> name, value |-> value]
Junk == Item("junk", "junk")
Nothing == Item("", "")

(* What the argument of an option reads as: a list of items with -o, of    *)
(* names with -B, and a number with -k.                                    *)
IsOption(o) ==
    /\ o.opt \in {"D", "o", "B", "p", "k", "m", "l", "n", "h", "?"}
    /\ o.opt = "o" => /\ o.arg \in Seq([name : STRING, value : STRING])
                      /\ o.arg # <<>>
    /\ o.opt = "B" => o.arg \in Seq(STRING)
    /\ o.opt = "k" => o.arg \in Int

ASSUME StartupAssumption ==
    /\ MaxFaults \in Nat
    /\ \A l \in CommandLines :
           /\ l \in Seq({l[k] : k \in 1 .. Len(l)})
           /\ \A k \in 1 .. Len(l) : IsOption(l[k])
    /\ Names \in Seq(STRING \ {""})

VARIABLES args,         \* the command line (history)
          argv,         \* what getopt has not reached yet
          conf,         \* ioarena.conf
          driver,       \* ioarena.driver
          priv,         \* driver->priv: "null", "made", "open", or "freed"
          handle,       \* priv->db, or env: "null", "open", "closed", or
                        \* "junk" (never written)
          globals,      \* of ia_mdbx.c: [Names -> Settings]
          opts,         \* driver options that are still to be passed on
          arg, n, done, \* of ia_mdbx_option, n being the name to be tested
          flags,        \* that the database was opened with
          pc, rc,
          strings,      \* [Blocks -> calls of strdup less calls of free]
          faults

vars == <<args, argv, conf, driver, priv, handle, globals, opts, arg, n, done,
          flags, pc, rc, strings, faults>>

(* Pointers of the configuration: "null", "held", or "freed". *)
Blocks == {"path", "driver", "benchmark"}

Works == faults' = faults
Fails == faults < MaxFaults /\ faults' = faults + 1

(* The program's globals are zero: memset in main. *)
Init ==
    /\ args \in CommandLines
    /\ argv = args
    /\ conf = [ptr |-> [b \in Blocks |-> "null"], driver_if |-> "null",
               drv_opts |-> <<>>, path |-> "", ksize |-> 0,
               benchmark |-> <<>>, benchmark_list |-> {},
               syncmode |-> "sync", walmode |-> "indef"]
    /\ driver = "null" /\ priv = "null" /\ handle = "null"
    /\ globals = [x \in {Names[k] : k \in 1 .. Len(Names)} |-> "default"]
    /\ opts = <<>>
    /\ arg = <<Nothing>> /\ n = 1 /\ done = 0
    /\ flags = {}
    /\ pc = "configinit" /\ rc = 0
    /\ strings = [b \in Blocks |-> 0]
    /\ faults = 0

(* main: done.  Whatever failed, ia_free is called. *)
Quit(code) == pc' = "free" /\ rc' = code

----------------------------------------------------------------------------
(* Mutant: a pointer to a block that was freed stays. *)
ConfigInitDangling ==
    /\ pc = "configinit" /\ Fails /\ Quit(-1)
    /\ conf' = [conf EXCEPT !.ptr["path"] = "freed"]
    /\ UNCHANGED <<args, argv, driver, priv, handle, globals, opts, arg, n,
                   done, flags, strings>>

(* ia_configinit.  If the second strdup fails the first block is freed,   *)
(* and its pointer null again.                                            *)
ConfigInit ==
    LET held == [b \in Blocks |-> IF b = "driver" THEN "null" ELSE "held"]
        base == [conf EXCEPT !.path = "./_ioarena", !.ksize = 16,
                             !.benchmark = <<"set", "get">>,
                             !.syncmode = "lazy"]
    IN /\ pc = "configinit"
       /\ \/ /\ Works
             /\ conf' = [base EXCEPT !.ptr = held]
             /\ strings' = [b \in Blocks |-> IF b = "driver" THEN 0 ELSE 1]
             /\ pc' = "parse" /\ UNCHANGED rc
          \/ Fails /\ Quit(-1) /\ UNCHANGED <<conf, strings>>
       /\ UNCHANGED <<args, argv, driver, priv, handle, globals, opts, arg, n,
                      done, flags>>

----------------------------------------------------------------------------
(* ia_configparse. *)

Opt(letter) ==
    /\ pc = "parse" /\ argv # <<>> /\ Head(argv).opt = letter
    /\ argv' = Tail(argv)

OnlyConfig == UNCHANGED <<args, driver, priv, handle, globals, opts, arg, n,
                          done, flags>>

(* One of the strings is freed, if its pointer is not null, and replaced   *)
(* by a copy; without memory for that the pointer is null.                 *)
Freed(b) == IF conf.ptr[b] = "null" THEN strings[b] ELSE strings[b] - 1
Dup(b) == strings' = [strings EXCEPT ![b] = Freed(b) + 1]
NoDup(b) ==
    /\ strings' = [strings EXCEPT ![b] = Freed(b)]
    /\ conf' = [conf EXCEPT !.ptr[b] = "null"]

(* Mutant: the name is replaced, the driver not. *)
ParseDriverFirst ==
    LET name == Head(argv).arg IN
    /\ Opt("D") /\ Works /\ Dup("driver")
    /\ conf' = [conf EXCEPT !.ptr["driver"] = "held", !.driver_if =
                   IF name \in Drivers /\ @ = "null" THEN name ELSE @]
    /\ IF name \in Drivers THEN UNCHANGED <<pc, rc>> ELSE Quit(-1)
    /\ OnlyConfig

ParseDriver ==
    LET name == Head(argv).arg IN
    /\ Opt("D")
    /\ \/ /\ Works /\ Dup("driver")
          /\ conf' = [conf EXCEPT !.ptr["driver"] = "held", !.driver_if =
                         IF name \in Drivers THEN name ELSE "null"]
          /\ IF name \in Drivers THEN UNCHANGED <<pc, rc>> ELSE Quit(-1)
       \/ Fails /\ NoDup("driver") /\ Quit(-1)
    /\ OnlyConfig

(* -o: appended.  (If there is no memory for the copy the list may end in *)
(* an empty one, which nobody reads.)                                     *)
ParseOption ==
    /\ Opt("o")
    /\ \/ /\ Works /\ UNCHANGED <<pc, rc>>
          /\ conf' = [conf EXCEPT !.drv_opts = Append(@, Head(argv).arg)]
       \/ Fails /\ Quit(-1) /\ UNCHANGED conf
    /\ UNCHANGED strings /\ OnlyConfig

ParseBenchmark ==
    /\ Opt("B")
    /\ \/ /\ Works /\ Dup("benchmark") /\ UNCHANGED <<pc, rc>>
          /\ conf' = [conf EXCEPT !.ptr["benchmark"] = "held",
                                  !.benchmark = Head(argv).arg]
       \/ Fails /\ NoDup("benchmark") /\ Quit(-1)
    /\ OnlyConfig

ParsePath ==
    /\ Opt("p")
    /\ \/ /\ Works /\ Dup("path") /\ UNCHANGED <<pc, rc>>
          /\ conf' = [conf EXCEPT !.ptr["path"] = "held",
                                  !.path = Head(argv).arg]
       \/ Fails /\ NoDup("path") /\ Quit(-1)
    /\ OnlyConfig

ParseKeySize ==
    /\ Opt("k")
    /\ conf' = [conf EXCEPT !.ksize = Head(argv).arg]
    /\ UNCHANGED <<pc, rc, strings, faults>> /\ OnlyConfig

ParseSyncMode ==
    /\ Opt("m")
    /\ conf' = [conf EXCEPT !.syncmode = Head(argv).arg]
    /\ IF Head(argv).arg \in SyncModes THEN UNCHANGED <<pc, rc>>
       ELSE Quit(-1)
    /\ UNCHANGED <<strings, faults>> /\ OnlyConfig

ParseWalMode ==
    /\ Opt("l")
    /\ conf' = [conf EXCEPT !.walmode = Head(argv).arg]
    /\ IF Head(argv).arg \in WalModes THEN UNCHANGED <<pc, rc>>
       ELSE Quit(-1)
    /\ UNCHANGED <<strings, faults>> /\ OnlyConfig

ParseOther ==
    /\ Opt("n") /\ UNCHANGED <<conf, pc, rc, strings, faults>> /\ OnlyConfig

ParseHelp ==
    Opt("h") /\ Quit(1) /\ UNCHANGED <<conf, strings, faults>> /\ OnlyConfig

ParseUnknown ==
    Opt("?") /\ Quit(-1) /\ UNCHANGED <<conf, strings, faults>> /\ OnlyConfig

(* The checks that follow the loop, and the names of benchmarks: those     *)
(* before an unknown one are stored.  (That names after the 127th          *)
(* character are cut off is left out.)                                     *)
TakesOptions(d) == d = "mdbx"

Known(names) == \A k \in 1 .. Len(names) : names[k] \in Benchmarks

ParseEnd ==
    LET names == conf.benchmark IN
    /\ pc = "parse" /\ argv = <<>>
    /\ IF \/ conf.driver_if = "null"
          \/ conf.drv_opts # <<>> /\ ~TakesOptions(conf.driver_if)
          \/ conf.ksize <= 0
          \/ ~Known(names)
       THEN Quit(-1) ELSE pc' = "init" /\ UNCHANGED rc
    /\ conf' = [conf EXCEPT !.benchmark_list =
                   {names[k] : k \in {l \in 1 .. Len(names) :
                                         Known(SubSeq(names, 1, l))}}]
    /\ UNCHANGED <<argv, strings, faults>> /\ OnlyConfig

----------------------------------------------------------------------------
(* ia_init, after ia_configparse. *)
InitDriver ==
    /\ pc = "init"
    /\ driver' = conf.driver_if
    /\ \/ Works /\ pc' = "options" /\ UNCHANGED rc
       \/ Fails /\ Quit(-1)                 \* ia_get_rusage
    /\ opts' = conf.drv_opts
    /\ UNCHANGED <<args, argv, conf, priv, handle, globals, arg, n, done,
                   flags, strings>>

(* The options are handed to the driver one by one, without a context. *)
PassOption ==
    /\ pc = "options"
    /\ IF opts = <<>> THEN pc' = "open" /\ UNCHANGED <<opts, arg, n, done>>
       ELSE /\ arg' = Head(opts) /\ opts' = Tail(opts)
            /\ n' = 1 /\ done' = 0
            /\ pc' = "loop"
    /\ UNCHANGED <<args, argv, conf, driver, priv, handle, globals, flags, rc,
                   strings, faults>>

----------------------------------------------------------------------------
(* ia_mdbx_option. *)

(* Mutant: the first item that is set ends the list. *)
ParseOptionBoolFirst(a, name, old) ==
    IF Head(a).name # name
    THEN [rest |-> a, setting |-> old, ret |-> 0]
    ELSE IF Head(a).value \notin {"on", "off"}
    THEN [rest |-> a, setting |-> old, ret |-> -1]
    ELSE [rest |-> a, setting |-> Head(a).value, ret |-> 1]

(* Mutant: the text behind the comma is not sought. *)
ParseOptionBoolStays(a, name, old) ==
    IF Head(a).name # name
    THEN [rest |-> a, setting |-> old, ret |-> 0]
    ELSE IF Head(a).value \notin {"on", "off"}
    THEN [rest |-> a, setting |-> old, ret |-> -1]
    ELSE [rest |-> a, setting |-> Head(a).value,
          ret |-> IF Len(a) = 1 THEN 1 ELSE 0]

(* What ia_parse_option_bool makes of arg for a name: the rest of arg, the *)
(* setting, and the value it returns.  The text after the last item is not *)
(* skipped, and that after a comma may be empty.                           *)
ParseOptionBool(a, name, old) ==
    IF Head(a).name # name
    THEN [rest |-> a, setting |-> old, ret |-> 0]
    ELSE IF Head(a).value \notin {"on", "off"}
    THEN [rest |-> a, setting |-> old, ret |-> -1]
    ELSE IF Len(a) = 1
    THEN [rest |-> a, setting |-> Head(a).value, ret |-> 1]
    ELSE [rest |-> Tail(a), setting |-> Head(a).value,
          ret |-> IF Tail(a) = <<Nothing>> THEN 1 ELSE 0]

(* The loop ends with an empty text or when done is not 0; a round of it   *)
(* tests each name, while done is 0.                                       *)
TestName ==
    LET p == ParseOptionBool(arg, Names[n], globals[Names[n]]) IN
    /\ pc = "loop" /\ n <= Len(Names) /\ done = 0
    /\ n = 1 => arg # <<Nothing>>
    /\ globals' = [globals EXCEPT ![Names[n]] = p.setting]
    /\ arg' = p.rest
    /\ done' = p.ret
    /\ n' = n + 1
    /\ UNCHANGED <<args, argv, conf, driver, priv, handle, opts, flags, pc,
                   rc, strings, faults>>

NextRound ==
    /\ pc = "loop" /\ n = Len(Names) + 1 /\ done = 0
    /\ n' = 1
    /\ UNCHANGED <<args, argv, conf, driver, priv, handle, globals, opts, arg,
                   done, flags, pc, rc, strings, faults>>

OptionReturn ==
    /\ pc = "loop"
    /\ done # 0 \/ (n = 1 /\ arg = <<Nothing>>)
    /\ IF done = 1 THEN pc' = "options" /\ UNCHANGED rc ELSE Quit(-1)
    /\ UNCHANGED <<args, argv, conf, driver, priv, handle, globals, opts, arg,
                   n, done, flags, strings, faults>>

----------------------------------------------------------------------------
(* driver->open.  A mode that the driver does not support is refused when  *)
(* the handles for its options exist already; the flags of lmdb that have  *)
(* another name in mdbx go by that.  Nothing depends on what else the      *)
(* drivers make of the modes, which is left out.                           *)

Opening(d) ==
    /\ pc = "open" /\ driver = d
    /\ UNCHANGED <<args, argv, conf, driver, globals, opts, arg, n, done,
                   strings>>

Opened(f) ==
    /\ Works
    /\ priv' = "open" /\ handle' = "open" /\ flags' = f
    /\ pc' = "run" /\ UNCHANGED rc

NotOpened(p, remains) ==
    /\ priv' = p /\ handle' \in remains
    /\ Quit(-1) /\ UNCHANGED flags

(* remains: what a failure may leave in the place of the handle. *)
OpenAs(d, refused, f, remains) ==
    /\ Opening(d)
    /\ \/ ~refused /\ Opened(f)
       \/ refused /\ Works /\ NotOpened("made", remains)
       \/ Fails /\ NotOpened("null", {"null"})
       \/ Fails /\ NotOpened("made", remains)

Partly == {"null", "open"}

LmdbFlags(syncmode) ==
    CASE syncmode = "sync" -> {}
      [] syncmode = "lazy" -> {"SAFE_NOSYNC", "NOMETASYNC"}
      [] syncmode = "nosync" -> {"WRITEMAP", "UTTERLY_NOSYNC"}

LmdbOpen ==
    OpenAs("lmdb", conf.walmode = "walon", LmdbFlags(conf.syncmode), Partly)

SyncFlags(syncmode) ==
    LmdbFlags(syncmode) \cup (IF syncmode = "sync" THEN {"LIFORECLAIM"} ELSE {})

WalFlags(c) ==
    CASE c.walmode = "indef" -> SyncFlags(c.syncmode)
      [] c.walmode = "waloff" -> SyncFlags(c.syncmode) \ {"NOMETASYNC"}
      [] c.walmode = "walon" -> SyncFlags(c.syncmode) \cup {"NOMETASYNC"}

(* peek_option_bool, for every option. *)
PeekOptions(f) ==
    (f \ {x \in DOMAIN globals : globals[x] = "off"})
        \cup {x \in DOMAIN globals : globals[x] = "on"}

MdbxOpen == OpenAs("mdbx", FALSE, PeekOptions(WalFlags(conf)), Partly)

WriteSync == IF conf.syncmode = "sync" THEN {"set_sync"} ELSE {}

RocksdbOpen ==
    OpenAs("rocksdb", FALSE,
           WriteSync \cup (IF conf.walmode = "waloff" THEN {"disable_WAL"}
                           ELSE {}), Partly)

LeveldbOpen == OpenAs("leveldb", conf.walmode = "waloff", WriteSync, Partly)

SophiaOpen == OpenAs("sophia", FALSE, {}, Partly)

WiredTigerOpen ==
    OpenAs("wiredtiger", FALSE,
           IF conf.syncmode = "sync" /\ conf.walmode # "walon"
           THEN {"need_checkpoints"} ELSE {}, Partly)

ForestDbOpen == OpenAs("forestdb", FALSE, {}, {"null"})

(* priv is not cleared when it is allocated, nor its handles when the      *)
(* environment or the database cannot be created.                          *)
UpscaledbOpen == OpenAs("upscaledb", FALSE, {}, {"junk"})
UnqliteOpen == OpenAs("unqlite", FALSE, {}, {"junk", "null"})

(* Whatever fails, the connection is closed, and its handle kept. *)
Sqlite3Open == OpenAs("sqlite3", FALSE, {}, {"closed"})

(* The code of vedis_open is handed to ia_init, which only knows -1: with  *)
(* any other the run goes on without a database.                           *)
VedisOpen ==
    \/ OpenAs("vedisdb", FALSE, {}, {"null"})
    \/ /\ Opening("vedisdb") /\ Fails
       /\ priv' = "made" /\ handle' = "null"
       /\ pc' = "run" /\ UNCHANGED <<rc, flags>>

(* A priv that cannot be allocated is used all the same. *)
IowowOpen ==
    /\ Opening("iowow")
    /\ \/ Opened({})
       \/ Fails /\ NotOpened("made", Partly)
       \/ /\ Fails /\ pc' = "aborted" /\ rc' = 1
          /\ UNCHANGED <<priv, handle, flags>>

----------------------------------------------------------------------------
(* ia_run returns, or calls exit; Arena.tla has the details. *)
Run ==
    /\ pc = "run"
    /\ \/ Works /\ Quit(0)
       \/ Fails /\ Quit(-1)
       \/ Fails /\ pc' = "aborted" /\ rc' = 1
    /\ UNCHANGED <<args, argv, conf, driver, priv, handle, globals, opts, arg,
                   n, done, flags, strings>>

(* ia_free: driver->close, which returns at once without priv, and         *)
(* ia_configfree.  Then main makes an exit code of rc.  The close of       *)
(* upscaledb and of unqlite leaves the pointer to priv as it is.           *)
Free ==
    /\ pc = "free"
    /\ priv' = IF driver = "null" \/ priv = "null" THEN priv
               ELSE IF driver \in {"upscaledb", "unqlite"} THEN "freed"
               ELSE "null"
    /\ handle' = IF priv = "null" THEN handle ELSE "closed"
    /\ strings' = [b \in Blocks |-> Freed(b)]
    /\ conf' = [conf EXCEPT !.drv_opts = <<>>, !.ptr =
                   [b \in Blocks |-> IF @[b] = "held" THEN "freed" ELSE @[b]]]
    /\ rc' = CASE rc = -1 -> 1 [] rc = 1 -> 0 [] OTHER -> rc
    /\ pc' = "exited"
    /\ UNCHANGED <<args, argv, driver, globals, opts, arg, n, done, flags,
                   faults>>

Exited == pc \in {"exited", "aborted"} /\ UNCHANGED vars

Parse ==
    \/ ParseDriver \/ ParseOption \/ ParseBenchmark \/ ParsePath
    \/ ParseKeySize \/ ParseSyncMode \/ ParseWalMode \/ ParseOther
    \/ ParseHelp \/ ParseUnknown \/ ParseEnd

Next ==
    \/ ConfigInit \/ Parse \/ InitDriver \/ PassOption
    \/ TestName \/ NextRound \/ OptionReturn
    \/ LmdbOpen \/ MdbxOpen \/ RocksdbOpen \/ LeveldbOpen
    \/ SophiaOpen \/ WiredTigerOpen \/ ForestDbOpen \/ UpscaledbOpen
    \/ UnqliteOpen \/ Sqlite3Open \/ VedisOpen \/ IowowOpen
    \/ Run \/ Free \/ Exited

(* A single thread, which goes on until the program exits. *)
Spec == Init /\ [][Next]_vars /\ WF_vars(Next)

----------------------------------------------------------------------------
(* Properties. *)

(* The argument of the last option with a letter, if there is one. *)
LastOf(letter, default) ==
    LET S == {k \in 1 .. Len(args) : args[k].opt = letter}
    IN IF S = {} THEN default
       ELSE args[CHOOSE k \in S : \A l \in S : l <= k].arg

(* Benchmarks are run only with a configuration that is what the command   *)
(* line asked for, the last option of each kind counting, every benchmark  *)
(* asked for known and none of those of an earlier -B left over, with no   *)
(* driver option that the driver does not take; and on a database that is  *)
(* open, with the one exception of vedisdb (VedisOpen).                    *)
RunsWhatWasAsked ==
    pc = "run" =>
        LET names == LastOf("B", <<"set", "get">>) IN
        /\ driver = LastOf("D", "null")
        /\ handle = "open" \/ (driver = "vedisdb" /\ handle = "null")
        /\ Known(names)
        /\ conf.benchmark_list = {names[k] : k \in 1 .. Len(names)}
        /\ conf.path = LastOf("p", "./_ioarena")
        /\ conf.ksize = LastOf("k", 16) /\ conf.ksize > 0
        /\ TakesOptions(driver) \/ LastOf("o", <<>>) = <<>>

(* Whether an item sets x, and which item has the last word on it. *)
Places ==
    UNION {{k} \X (1 .. Len(args[k].arg)) :
              k \in {l \in 1 .. Len(args) : args[l].opt = "o"}}
ItemAt(p) == args[p[1]].arg[p[2]]
Later(p, r) == p[1] > r[1] \/ (p[1] = r[1] /\ p[2] > r[2])
LastWord(x, value) ==
    \E p \in Places :
        /\ ItemAt(p) = Item(x, value)
        /\ \A r \in Places : Later(r, p) => ItemAt(r).name # x

(* The mdbx database is opened with a flag if the last -o that names it    *)
(* says so, or if none does and -l says so, or else -m: no item of a list  *)
(* is skipped, and none of an earlier -o is lost.                          *)
OpenedAsAsked ==
    pc = "run" /\ driver = "mdbx" =>
        \A x \in Flags :
            x \in flags <=>
                \/ LastWord(x, "on")
                \/ /\ ~LastWord(x, "off")
                   /\ \/ x = "NOMETASYNC" /\ LastOf("l", "indef") = "walon"
                      \/ /\ x # "NOMETASYNC" \/ LastOf("l", "indef") = "indef"
                         /\ x \in SyncFlags(LastOf("m", "lazy"))

(* Whenever the program leaves through main, everything is given back      *)
(* once: a database that was opened only half (a mode that the driver does *)
(* not support), and every string of the configuration, as often as -D, -B *)
(* or -p replaced it and wherever memory ran out: none is lost and none    *)
(* freed twice.  The database that ia_free closes is one that is open, or  *)
(* a null handle, which the libraries accept; except when sqlite3 (closed  *)
(* already), upscaledb or unqlite (never written) could not open it.       *)
GivenBack ==
    /\ pc = "exited" =>
        /\ \A b \in Blocks : strings[b] = 0
        /\ priv \in {"null", "freed"} /\ handle # "open"
    /\ pc = "free" /\ handle \in {"junk", "closed"} =>
        rc = -1 /\ driver \in {"sqlite3", "upscaledb", "unqlite"}

(* The program ends (the benchmarks themselves are Arena.tla's). *)
Ends == <>(pc \in {"exited", "aborted"})
=============================================================================
