------------------------------ MODULE Cursors ------------------------------
(* Cursors of the databases, as the drivers use them: they go over keys in *)
(* an order that is the same for all of them.                              *)
EXTENDS DriverCalls

Precedes(k, l) == k[1] < l[1] \/ (k[1] = l[1] /\ k[2] < l[2])

(* A cursor: whether it goes over the keys that were there when it was     *)
(* created, its view, or over those that are there; and where it is.       *)
NoCursor == [kind |-> "none", view |-> {}, at |-> NoKey]
Snapshot(keys) == [kind |-> "snapshot", view |-> keys, at |-> NoKey]
Live == [NoCursor EXCEPT !.kind = "live"]

(* The keys still to come, when keys are in the database. *)
Ahead(c, keys) ==
    LET view == IF c.kind = "live" THEN keys ELSE c.view
    IN IF c.at = NoKey THEN view ELSE {k \in view : Precedes(c.at, k)}

Moved(c, keys) ==
    LET rest == Ahead(c, keys)
    IN [c EXCEPT !.at = CHOOSE k \in rest :
                           \A l \in rest \ {k} : Precedes(k, l)]
=============================================================================
