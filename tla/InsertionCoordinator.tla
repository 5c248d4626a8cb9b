------------------------ MODULE InsertionCoordinator ------------------------
(***************************************************************************)
(* insertion_integrity.py, class InsertionCoordinator: the staged entries, *)
(* the bounded outbox they become when delivery is not proven, and the     *)
(* bounded tombstones that remember settled utterances.  Every operator    *)
(* below is one critical section of the coordinator's lock; commit() has   *)
(* two of them, with the platform callbacks in between.                    *)
(*                                                                         *)
(* The two OrderedDicts are sets, each with the relation "was inserted     *)
(* before" on its members.  The text is left out; a receipt is its reason, *)
(* which fixes its state and whether a paste was attempted.                *)
(***************************************************************************)
EXTENDS Integers, FiniteSets

CONSTANTS
    Ids,                \* utterance ids
    MaxRecoverable,     \* max_recoverable
    MaxTombstones       \* max_tombstones

ASSUME CoordinatorAssumption ==
    /\ IsFiniteSet(Ids)
    /\ MaxRecoverable \in Nat \ {0}
    /\ MaxTombstones \in Nat \ {0}

VARIABLES
    entries,        \* keys of _entries
    stagedBefore,   \* order of _entries
    terminal,       \* entries with terminal set
    inFlight,       \* entries with in_flight set
    tombstones,     \* keys of _tombstones
    closedBefore,   \* order of _tombstones
    receipt         \* the receipt of each known id, else "none"

coordinatorVars == <<entries, stagedBefore, terminal, inFlight, tombstones,
                     closedBefore, receipt>>

\* _validate's reasons for refusing: focus, selection or surrounding text
\* drifted, or the destination cannot be read.
Refusals == {"drift", "target_unreadable"}

\* What a paste attempt can end with.
Unproven == {"readback_conflict", "readback_unavailable",
             "paste_outcome_unknown"}
Outcomes == {"commit_verified"} \cup Unproven

Receipts == {"none", "pending"} \cup Refusals \cup Outcomes

CoordinatorTypeOK ==
    /\ entries \in SUBSET Ids
    /\ stagedBefore \in SUBSET (Ids \X Ids)
    /\ terminal \in SUBSET Ids
    /\ inFlight \in SUBSET Ids
    /\ tombstones \in SUBSET Ids
    /\ closedBefore \in SUBSET (Ids \X Ids)
    /\ receipt \in [Ids -> Receipts]

CoordinatorInit ==
    /\ entries = {}
    /\ stagedBefore = {}
    /\ terminal = {}
    /\ inFlight = {}
    /\ tombstones = {}
    /\ closedBefore = {}
    /\ receipt = [id \in Ids |-> "none"]

\* recoverable(): what the Voice Outbox offers.
Recoverable == (entries \cap terminal) \ inFlight

\* stage(): a known utterance raises ValueError instead.
Known(id) == id \in entries \cup tombstones

Stage(id) ==
    /\ ~Known(id)
    /\ entries' = entries \cup {id}
    /\ stagedBefore' = stagedBefore \cup (entries \X {id})
    /\ receipt' = [receipt EXCEPT ![id] = "pending"]
    /\ UNCHANGED <<terminal, inFlight, tombstones, closedBefore>>

\* Wrong variant: commit() does not look at terminal.
CommittableAgain(id) == id \in entries

\* commit() may act only on an entry that is neither settled nor terminal;
\* otherwise it returns the receipt it already has.
Committable(id) == id \in entries /\ id \notin terminal

\* Wrong variant: one too many.
YoungestAndOne(S, before, n) ==
    {x \in S : Cardinality({y \in S : <<x, y>> \in before}) <= n}

\* The ids among S that come before fewer than n others of S.
Youngest(S, before, n) ==
    {x \in S : Cardinality({y \in S : <<x, y>> \in before}) < n}

\* Wrong variant: looking up the receipt of an evicted id fails.
CloseForEver(closed, nowTerminal, nowInFlight, receipts) ==
    LET remembered == tombstones \cup closed
        order == closedBefore \cup (tombstones \X closed)
        kept == Youngest(remembered, order, MaxTombstones)
    IN /\ entries' = entries \ closed
       /\ stagedBefore' = stagedBefore \cap (entries' \X entries')
       /\ terminal' = nowTerminal \ closed
       /\ inFlight' = nowInFlight \ closed
       /\ tombstones' = kept
       /\ closedBefore' = order \cap (kept \X kept)
       /\ receipt' = [id \in Ids \ (remembered \ kept) |-> receipts[id]]

\* The entries of `closed` leave _entries together with their flags, each
\* going through _remember_tombstone_locked with its receipt.  The oldest
\* tombstones beyond the bound are evicted, and with them all memory of
\* those ids.
Close(closed, nowTerminal, nowInFlight, receipts) ==
    LET remembered == tombstones \cup closed
        order == closedBefore \cup (tombstones \X closed)
                              \cup (stagedBefore \cap (closed \X closed))
        kept == Youngest(remembered, order, MaxTombstones)
    IN /\ entries' = entries \ closed
       /\ stagedBefore' = stagedBefore \cap (entries' \X entries')
       /\ terminal' = nowTerminal \ closed
       /\ inFlight' = nowInFlight \ closed
       /\ tombstones' = kept
       /\ closedBefore' = order \cap (kept \X kept)
       /\ receipt' = [id \in Ids |->
            IF id \in remembered \ kept THEN "none" ELSE receipts[id]]

\* Wrong variant: pop from the young end.
ExpiredYoungest(waiting) ==
    {x \in waiting :
        Cardinality({y \in waiting : <<y, x>> \in stagedBefore}) >= MaxRecoverable}

\* _prune_recoverable_locked once `waiting` is the outbox: its oldest
\* entries beyond the bound expire.
Expired(waiting) == waiting \ Youngest(waiting, stagedBefore, MaxRecoverable)

\* commit(), validation failed: terminal without a paste.
RefuseCommit(id, reason) ==
    /\ Committable(id)
    /\ Close(Expired(Recoverable \cup {id}), terminal \cup {id}, inFlight,
             [receipt EXCEPT ![id] = reason])

\* Wrong variant: terminal only once the callbacks have returned.
BeginCommitOpen(id) ==
    /\ Committable(id)
    /\ inFlight' = inFlight \cup {id}
    /\ receipt' = [receipt EXCEPT ![id] = "paste_outcome_unknown"]
    /\ UNCHANGED <<entries, stagedBefore, terminal, tombstones, closedBefore>>

\* commit(), validation passed: terminal before any platform code runs.
BeginCommit(id) ==
    /\ Committable(id)
    /\ terminal' = terminal \cup {id}
    /\ inFlight' = inFlight \cup {id}
    /\ receipt' = [receipt EXCEPT ![id] = "paste_outcome_unknown"]
    /\ UNCHANGED <<entries, stagedBefore, tombstones, closedBefore>>

\* commit(), second critical section: a proven insertion leaves the outbox,
\* any other stays recoverable within the bound.  The defensive branch for a
\* missing entry changes nothing.
EndCommit(id, outcome) ==
    IF id \notin entries THEN UNCHANGED coordinatorVars
    ELSE Close(IF outcome = "commit_verified" THEN {id}
               ELSE Expired(Recoverable \cup {id}),
               terminal, inFlight \ {id}, [receipt EXCEPT ![id] = outcome])

\* Wrong variant: dismiss also while the paste is in flight.
AcknowledgeInFlight(id) ==
    IF id \in entries
    THEN Close({id}, terminal, inFlight, receipt)
    ELSE UNCHANGED coordinatorVars

\* acknowledge(): dismiss one entry unless its paste is in flight.
Acknowledge(id) ==
    IF id \in entries \ inFlight
    THEN Close({id}, terminal, inFlight, receipt)
    ELSE UNCHANGED coordinatorVars

=============================================================================
