--------------------------- MODULE InboxContract ----------------------------
(***************************************************************************)
(* What a voice inbox promises its callers: an item is added once under a  *)
(* number nobody had, settled once, and erased only when it is settled.    *)
(* There is no file, no process and nothing in progress.                   *)
(***************************************************************************)
EXTENDS Integers, FiniteSets

CONSTANTS Ids, Payloads, MaxItems

VARIABLES items, next       \* the items, and the number of the next one

contractVars == <<items, next>>

InboxInit == items = {} /\ next = 1

Add ==
    /\ Cardinality(items) < MaxItems
    /\ \E id \in Ids, payload \in Payloads :
        /\ \A x \in items : x.id # id
        /\ items' = items \cup {[id |-> id, payload |-> payload,
                                 state |-> "queued", sequence |-> next]}
    /\ next' = next + 1

Settle ==
    /\ \E x \in items, state \in {"acknowledged", "cancelled"} :
        /\ x.state = "queued"
        /\ items' = (items \ {x}) \cup {[x EXCEPT !.state = state]}
    /\ next' = next

Purge ==
    /\ items' = {x \in items : x.state = "queued"}
    /\ next' = next

InboxNext == Add \/ Settle \/ Purge
=============================================================================
