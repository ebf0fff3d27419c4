--------------------------- MODULE ArenaEmulated ---------------------------
(***************************************************************************)
(* Arena.tla with the pthread_barrier of ia_main.c, which replaces the one *)
(* that Mac OS X does not have.                                            *)
(***************************************************************************)
EXTENDS Arena

(* The emulation waits for its condition variable once, not in a loop:    *)
(* whatever wakes a waiter up lets it through, and it stays counted.      *)
SpuriousWakeup(p, b) ==
    /\ outcome = "running"
    /\ p \in waiting[b]
    /\ waiting' = [waiting EXCEPT ![b] = @ \ {p}]
    /\ Goto(p, Beyond(b, p))
    /\ UNCHANGED <<config, mask, space, rc, left, passes, ctx, enabled,
                   counted, doers_count, doers_done, failed, canary, ending>>

EmulatedNext ==
    Next \/ \E p \in Participants, b \in Barriers : SpuriousWakeup(p, b)

EmulatedSpec == Init /\ [][EmulatedNext]_vars /\ Fairness
=============================================================================
