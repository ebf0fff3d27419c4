---------------------------- MODULE DriverCalls ----------------------------
(***************************************************************************)
(* The interface of ia_driver.h between the code that runs benchmarks      *)
(* (Runner.tla) and a driver: a doer has one call of the driver            *)
(* outstanding, and the driver answers it with a return code.              *)
(***************************************************************************)
EXTENDS Integers, FiniteSets

CONSTANTS Doers,
          Count,        \* conf.count, operations of a benchmark
          Spaces,       \* key spaces, numbers
          MaxFaults     \* bound: calls of the database library that fail

ASSUME CallsAssumption ==
    /\ Count \in Nat \ {0} /\ MaxFaults \in Nat
    /\ Spaces \subseteq Nat /\ IsFiniteSet(Spaces) /\ IsFiniteSet(Doers)

VARIABLES call,         \* [Doers -> the call that is outstanding]
          faults        \* calls of the library that have failed so far

ENOENT == 2             \* "no such key"
Codes == {0, ENOENT, -1}        \* -1 for every other error, as the runner has it

Keys == Spaces \X (0 .. Count - 1)
NoKey == <<>>

Functions == {"thread_new", "begin", "next", "done", "thread_dispose"}
Steps == {"set", "batch", "crud", "delete", "iterate", "get"}

(* A call of driver->fn(ctx, step, key). *)
Request(fn, step, key) ==
    [fn |-> fn, step |-> step, key |-> key, rc |-> 0]

(* The answer to a call c. *)
Answer(c, rc) == [c EXCEPT !.fn = "return", !.rc = rc]

Return(d, rc) == call' = [call EXCEPT ![d] = Answer(@, rc)]

(* Whether the library fails, which it may do at any call. *)
Works == faults' = faults
Fails == faults < MaxFaults /\ faults' = faults + 1

CallsInit ==
    /\ call = [d \in Doers |-> Request("thread_new", "set", NoKey)]
    /\ faults = 0
=============================================================================
