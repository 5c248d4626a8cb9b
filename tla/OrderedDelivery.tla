--------------------------- MODULE OrderedDelivery --------------------------
(***************************************************************************)
(* What the dictation pipeline promises its user, without threads, events  *)
(* or tickets to wait for: each released take acts at most once, only      *)
(* while it is pending, and only when it is the oldest pending release.    *)
(* A take may also settle without having acted.                            *)
(***************************************************************************)
EXTENDS Integers, Sequences

CONSTANTS Takes, NoRank

VARIABLES
    rank,       \* rank[t]: position of t among the releases, or NoRank
    pending,    \* released takes that have not settled
    log         \* takes in the order they acted

deliveryVars == <<rank, pending, log>>

DeliveryInit ==
    /\ rank = [t \in Takes |-> NoRank]
    /\ pending = {}
    /\ log = <<>>

\* A release is ranked after every earlier release.
ReleaseTake(t) ==
    /\ rank[t] = NoRank
    /\ rank'[t] \in Nat
    /\ \A u \in Takes : rank[u] # NoRank => rank[u] < rank'[t]
    /\ rank' = [rank EXCEPT ![t] = rank'[t]]
    /\ pending' = pending \cup {t}
    /\ UNCHANGED log

ActInOrder(t) ==
    /\ t \in pending
    /\ \A u \in pending : rank[t] <= rank[u]
    /\ \A i \in 1..Len(log) : log[i] # t
    /\ log' = Append(log, t)
    /\ UNCHANGED <<rank, pending>>

Settle(t) ==
    /\ t \in pending
    /\ pending' = pending \ {t}
    /\ UNCHANGED <<rank, log>>

DeliveryNext ==
    \E t \in Takes : ReleaseTake(t) \/ ActInOrder(t) \/ Settle(t)

DeliverySpec == DeliveryInit /\ [][DeliveryNext]_deliveryVars

=============================================================================
