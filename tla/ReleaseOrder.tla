---------------------------- MODULE ReleaseOrder ----------------------------
(***************************************************************************)
(* dictate.py, class ReleaseOrder: the ticket counter that lets capture    *)
(* and recognition of successive takes overlap while their side effects    *)
(* keep the order in which the takes were released.  Every method runs     *)
(* under one condition lock, so each is one step; the blocking part of     *)
(* wait() is the guard MayPass.                                            *)
(***************************************************************************)
EXTENDS Integers

VARIABLES
    issued,     \* ReleaseOrder.issued: the next ticket to hand out
    nextUp,     \* ReleaseOrder.next: the ticket whose turn it is
    completed   \* ReleaseOrder.completed: finished tickets ahead of nextUp

orderVars == <<issued, nextUp, completed>>

NoTicket == -1      \* process_ticket is None until the release issues one

OrderTypeOK ==
    /\ issued \in Nat
    /\ nextUp \in Nat
    /\ completed \in SUBSET Nat

OrderInit ==
    /\ issued = 0
    /\ nextUp = 0
    /\ completed = {}

\* issue(): the caller receives the ticket `issued` had before the step.
IssueTicket ==
    /\ issued' = issued + 1
    /\ UNCHANGED <<nextUp, completed>>

\* Wrong variant: wait() lets the next but one through.
MayPassEarly(ticket) == ticket <= nextUp + 1

\* wait() returns once ticket <= self.next.
MayPass(ticket) == ticket <= nextUp

\* Wrong variant: complete() advances by one and never over the tickets that
\* finished early.
CompleteWithoutDraining(ticket) ==
    /\ IF ticket = nextUp
       THEN nextUp' = nextUp + 1 /\ UNCHANGED completed
       ELSE completed' = completed \cup {ticket} /\ UNCHANGED nextUp
    /\ UNCHANGED issued

\* Wrong variant: complete() passes over tickets that have not finished.
CompleteJumping(ticket) ==
    /\ nextUp' = IF ticket < nextUp THEN nextUp ELSE ticket + 1
    /\ UNCHANGED <<issued, completed>>

\* complete(): ignore a ticket already passed, otherwise add it and advance
\* over every consecutive finished ticket, removing those passed over.
CompleteTicket(ticket) ==
    \/ ticket < nextUp /\ UNCHANGED <<issued, nextUp, completed>>
    \/ /\ ticket >= nextUp
       /\ LET done == completed \cup {ticket}
          IN \E n \in nextUp..issued :
                /\ n \notin done
                /\ \A m \in nextUp..(n - 1) : m \in done
                /\ nextUp' = n
                /\ completed' = done \ (nextUp..(n - 1))
       /\ UNCHANGED issued

\* The tickets whose completion has been recorded.
Settled(ticket) == ticket < nextUp \/ ticket \in completed

=============================================================================
