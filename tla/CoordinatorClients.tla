-------------------------- MODULE CoordinatorClients ------------------------
(***************************************************************************)
(* Concurrent callers of one InsertionCoordinator: take threads and the    *)
(* undo thread stage and commit, the window's outbox control copies and    *)
(* dismisses.  Any caller may stage or commit any id at any time, also one *)
(* another caller is pasting: the at-most-once paste has to come from the  *)
(* coordinator, not from well-behaved callers.                             *)
(***************************************************************************)
EXTENDS InsertionCoordinator

CONSTANTS
    Callers,
    NoId            \* a caller that is between calls

ASSUME ClientsAssumption == NoId \notin Ids

VARIABLES
    pc,         \* pc[c]: "idle", "pasting", "readback" or "copied"
    job,        \* job[c]: the id the call in progress is about
    attempts    \* history: pastes of each id since it was last staged

vars == <<entries, stagedBefore, terminal, inFlight, tombstones,
          closedBefore, receipt, pc, job, attempts>>

TypeOK ==
    /\ CoordinatorTypeOK
    /\ pc \in [Callers -> {"idle", "pasting", "readback", "copied"}]
    /\ job \in [Callers -> Ids \cup {NoId}]
    /\ attempts \in [Ids -> Nat]

Init ==
    /\ CoordinatorInit
    /\ pc = [c \in Callers |-> "idle"]
    /\ job = [c \in Callers |-> NoId]
    /\ attempts = [id \in Ids |-> 0]

Starts(c, step, id) ==
    /\ pc' = [pc EXCEPT ![c] = step]
    /\ job' = [job EXCEPT ![c] = id]

Returns(c) == Starts(c, "idle", NoId)

\* commit_insertion / undo_last_dictation: stage a text.
StageText(c, id) ==
    /\ pc[c] = "idle"
    /\ Stage(id)
    /\ attempts' = [attempts EXCEPT ![id] = 0]
    /\ UNCHANGED <<pc, job>>

\* commit() of a drifted or unreadable destination.
CommitRefused(c, id, reason) ==
    /\ pc[c] = "idle"
    /\ RefuseCommit(id, reason)
    /\ UNCHANGED <<pc, job, attempts>>

\* commit() of an unchanged destination: on to the callbacks, lock released.
CommitAccepted(c, id) ==
    /\ pc[c] = "idle"
    /\ BeginCommit(id)
    /\ Starts(c, "pasting", id)
    /\ UNCHANGED attempts

\* The paste callback delivers the keystrokes and returns.
PasteText(c) ==
    /\ pc[c] = "pasting"
    /\ attempts' = [attempts EXCEPT ![job[c]] = @ + 1]
    /\ pc' = [pc EXCEPT ![c] = "readback"]
    /\ UNCHANGED <<coordinatorVars, job>>

\* The callback, or the readback after it, raises, or the readback returns
\* its proof; either way commit() takes the lock again and returns.
FinishCommit(c, outcome) ==
    /\ \/ pc[c] = "readback"
       \/ pc[c] = "pasting" /\ outcome = "paste_outcome_unknown"
    /\ EndCommit(job[c], outcome)
    /\ Returns(c)
    /\ UNCHANGED attempts

\* copy_latest_outbox: read the last recoverable item ...
CopyLatest(c, id) ==
    /\ pc[c] = "idle"
    /\ id \in Recoverable
    /\ \A other \in Recoverable : <<id, other>> \notin stagedBefore
    /\ Starts(c, "copied", id)
    /\ UNCHANGED <<coordinatorVars, attempts>>

\* ... and dismiss it once it is on the clipboard, or not at all when the
\* clipboard rejects it.
DismissCopied(c) ==
    /\ pc[c] = "copied"
    /\ Acknowledge(job[c]) \/ UNCHANGED coordinatorVars
    /\ Returns(c)
    /\ UNCHANGED attempts

Next ==
    \E c \in Callers :
        \/ \E id \in Ids :
            \/ StageText(c, id)
            \/ \E reason \in Refusals : CommitRefused(c, id, reason)
            \/ CommitAccepted(c, id)
            \/ CopyLatest(c, id)
        \/ PasteText(c)
        \/ \E outcome \in Outcomes : FinishCommit(c, outcome)
        \/ DismissCopied(c)

Spec == Init /\ [][Next]_vars

-----------------------------------------------------------------------------
(* Properties.                                                             *)

\* One staging of a text is pasted at most once, however many callers commit
\* it and whatever its callbacks raise.
AtMostOnePaste == \A id \in Ids : attempts[id] <= 1

\* While a caller is inside the callbacks of an id, nobody else is, and the
\* entry it will settle is still there: neither a prune nor an
\* acknowledgement removes a text whose paste is in flight.
InFlightIsOwned ==
    /\ \A c \in Callers : pc[c] \in {"pasting", "readback"} =>
            job[c] \in entries \cap terminal \cap inFlight
    /\ \A c, d \in Callers :
            /\ pc[c] \in {"pasting", "readback"}
            /\ pc[d] \in {"pasting", "readback"}
            /\ job[c] = job[d]
            => c = d

\* The outbox and the memory of settled ids stay within their bounds at
\* every instant, not only after a call.
MemoryIsBounded ==
    /\ Cardinality(Recoverable) <= MaxRecoverable
    /\ Cardinality(tombstones) <= MaxTombstones

\* A text leaves the outbox only because the user copied it, or because it
\* was the oldest of an outbox that overflows.
LeavesOutboxOldestFirst ==
    [][\A id \in Recoverable \ Recoverable' :
        \/ \E c \in Callers : pc[c] = "copied" /\ job[c] = id /\ pc'[c] = "idle"
        \/ /\ Cardinality(Recoverable') = MaxRecoverable
           /\ \A other \in Recoverable' : <<id, other>> \in stagedBefore]_vars

\* An insertion once reported verified is never reported otherwise as long as
\* it is remembered, and its text is never offered for recovery again.
VerifiedIsFinal ==
    [][\A id \in tombstones :
        receipt[id] = "commit_verified" /\ id \in tombstones' =>
            receipt'[id] = "commit_verified" /\ id \notin entries']_vars

Phase(id) ==
    CASE id \in entries \ terminal -> "staged"
      [] id \in entries \cap terminal \cap inFlight -> "pasting"
      [] id \in (entries \cap terminal) \ inFlight -> "kept"
      [] id \in tombstones \ entries /\ receipt[id] = "commit_verified" -> "proven"
      [] id \in tombstones \ entries /\ receipt[id] # "commit_verified" -> "closed"
      [] OTHER -> "unknown"

Contract == INSTANCE InsertionContract WITH
    phase <- [id \in Ids |-> Phase(id)],
    pastes <- attempts

\* The coordinator keeps the insertion contract for every id at once.
ImplementsContract == Contract!ContractSpec

=============================================================================
