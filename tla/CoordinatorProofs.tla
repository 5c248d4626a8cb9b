--------------------------- MODULE CoordinatorProofs ------------------------
(***************************************************************************)
(* Theorems about InsertionCoordinator under concurrent callers, for any   *)
(* finite set of utterance ids, any callers and any bounds.                *)
(*                                                                         *)
(* The argument for the single paste: an id in flight is owned by exactly  *)
(* one caller, no prune and no acknowledgement can close it meanwhile      *)
(* (Owned), and an id that has not been pasted yet is either not terminal  *)
(* or held by a caller that has not pasted (Fresh).                        *)
(***************************************************************************)
EXTENDS CoordinatorClients, FiniteSetTheorems, TLAPS

Busy(c) == pc[c] \in {"pasting", "readback"}

\* The entry flags are those of a state the coordinator's lock protects.
WellFormed ==
    /\ terminal \subseteq entries
    /\ inFlight \subseteq terminal
    /\ entries \cap tombstones = {}

Owned ==
    /\ \A c \in Callers : Busy(c) => job[c] \in inFlight
    /\ \A c, d \in Callers : Busy(c) /\ Busy(d) /\ job[c] = job[d] => c = d

Jobs == \A c \in Callers : pc[c] # "idle" => job[c] \in Ids

Fresh ==
    /\ \A id \in entries \ terminal : attempts[id] = 0
    /\ \A c \in Callers : pc[c] = "pasting" => attempts[job[c]] = 0

IInv ==
    /\ TypeOK
    /\ WellFormed
    /\ Owned
    /\ Jobs
    /\ Fresh
    /\ AtMostOnePaste

-----------------------------------------------------------------------------
(* The operators the coordinator is built from.                            *)

\* Pruning expires only entries that wait in the outbox.
LEMMA ExpiredWaits ==
    ASSUME NEW waiting
    PROVE  Expired(waiting) \subseteq waiting
BY DEF Expired

\* Closing entries keeps the flags well-formed and the types.
LEMMA CloseWellFormed ==
    ASSUME TypeOK, WellFormed,
           NEW closed \in SUBSET entries,
           NEW nowTerminal \in SUBSET entries,
           NEW nowInFlight \in SUBSET nowTerminal,
           NEW receipts \in [Ids -> Receipts],
           Close(closed, nowTerminal, nowInFlight, receipts)
    PROVE  CoordinatorTypeOK' /\ WellFormed'
<1>1. /\ entries' = entries \ closed
      /\ terminal' = nowTerminal \ closed
      /\ inFlight' = nowInFlight \ closed
      /\ tombstones' \subseteq tombstones \cup closed
  BY DEF Close, Youngest
<1>2. /\ stagedBefore' \in SUBSET (Ids \X Ids)
      /\ closedBefore' \in SUBSET (Ids \X Ids)
  BY <1>1 DEF Close, TypeOK, CoordinatorTypeOK
<1>3. receipt' \in [Ids -> Receipts]
  BY DEF Close, Receipts
<1> QED
  BY <1>1, <1>2, <1>3 DEF TypeOK, CoordinatorTypeOK, WellFormed

\* What every step of the coordinator keeps.
LEMMA OutcomesAreReceipts ==
    /\ Outcomes \subseteq Receipts
    /\ Refusals \subseteq Receipts
    /\ "paste_outcome_unknown" \in Receipts
    /\ "pending" \in Receipts
BY DEF Outcomes, Refusals, Receipts, Unproven

-----------------------------------------------------------------------------
(* The inductive invariant.                                                *)

\* The invariant holds before any call.
LEMMA InitIInv == Init => IInv
<1> SUFFICES ASSUME Init PROVE IInv
  OBVIOUS
<1>1. TypeOK
  BY DEF Init, TypeOK, CoordinatorInit, CoordinatorTypeOK, Receipts
<1> QED
  BY <1>1 DEF IInv, Init, CoordinatorInit, WellFormed, Owned, Jobs, Fresh,
              Busy, AtMostOnePaste

\* Staging: the new entry has not been pasted and is owned by nobody.
LEMMA StageKeeps ==
    ASSUME IInv, NEW c \in Callers, NEW id \in Ids, StageText(c, id)
    PROVE  IInv'
<1> USE DEF IInv, StageText, Stage, Known
<1>1. TypeOK'
  BY OutcomesAreReceipts DEF TypeOK, CoordinatorTypeOK
<1>2. WellFormed'
  BY DEF WellFormed
<1>3. Owned' /\ Jobs'
  BY DEF Owned, Busy, Jobs
<1>4. Fresh' /\ AtMostOnePaste'
  <2>1. \A d \in Callers : pc[d] = "pasting" => job[d] # id /\ job[d] \in Ids
    BY DEF Owned, Busy, WellFormed, Jobs
  <2> QED
    BY <2>1 DEF Fresh, AtMostOnePaste, TypeOK, WellFormed
<1> QED
  BY <1>1, <1>2, <1>3, <1>4

\* What a refused commit() closes, and the receipts it leaves.
RefusalClosed(id) == Expired(Recoverable \cup {id})
ReceiptsWith(id, reason) == [receipt EXCEPT ![id] = reason]

\* A refused commit expires outbox entries only, never one in flight.
LEMMA RefusalCloses ==
    ASSUME IInv, NEW id \in Ids, NEW reason \in Refusals,
           RefuseCommit(id, reason)
    PROVE  /\ id \in entries \ terminal
           /\ RefusalClosed(id) \in SUBSET entries
           /\ RefusalClosed(id) \subseteq Recoverable \cup {id}
           /\ terminal \cup {id} \in SUBSET entries
           /\ inFlight \in SUBSET (terminal \cup {id})
           /\ ReceiptsWith(id, reason) \in [Ids -> Receipts]
           /\ Close(RefusalClosed(id), terminal \cup {id}, inFlight,
                    ReceiptsWith(id, reason))
           /\ entries' = entries \ RefusalClosed(id)
           /\ terminal' = (terminal \cup {id}) \ RefusalClosed(id)
           /\ inFlight' = inFlight
<1> DEFINE closed == RefusalClosed(id)
<1>1. id \in entries \ terminal
  BY DEF RefuseCommit, Committable
<1>2. closed \subseteq Recoverable \cup {id}
  BY ExpiredWaits DEF RefusalClosed
<1>3. closed \in SUBSET entries /\ closed \cap inFlight = {}
  BY <1>1, <1>2 DEF Recoverable, IInv, WellFormed
<1>4. terminal \cup {id} \in SUBSET entries /\ inFlight \in SUBSET (terminal \cup {id})
  BY <1>1 DEF IInv, WellFormed
<1>5. ReceiptsWith(id, reason) \in [Ids -> Receipts]
  BY OutcomesAreReceipts DEF IInv, TypeOK, CoordinatorTypeOK, ReceiptsWith
<1>6. Close(closed, terminal \cup {id}, inFlight, ReceiptsWith(id, reason))
  BY DEF RefuseCommit, RefusalClosed, ReceiptsWith
<1>7. /\ entries' = entries \ closed
      /\ terminal' = (terminal \cup {id}) \ closed
      /\ inFlight' = inFlight
  BY <1>3, <1>6 DEF Close
<1> QED
  BY <1>1, <1>2, <1>3, <1>4, <1>5, <1>6, <1>7

\* A refused commit closes only waiting entries, none in flight.
LEMMA RefusalKeeps ==
    ASSUME IInv, NEW c \in Callers, NEW id \in Ids, NEW reason \in Refusals,
           CommitRefused(c, id, reason)
    PROVE  IInv'
<1>1. RefuseCommit(id, reason) /\ UNCHANGED <<pc, job, attempts>>
  BY DEF CommitRefused
<1>2. CoordinatorTypeOK' /\ WellFormed'
  BY <1>1, RefusalCloses, CloseWellFormed DEF IInv
<1>3. Owned' /\ Jobs'
  BY <1>1, RefusalCloses DEF IInv, Owned, Busy, Jobs
<1>4. Fresh' /\ AtMostOnePaste' /\ TypeOK'
  BY ZenonT(60), <1>1, <1>2, RefusalCloses
     DEF IInv, Fresh, AtMostOnePaste, TypeOK
<1> QED
  BY <1>2, <1>3, <1>4 DEF IInv

\* An accepted commit makes its caller the only owner of an unpasted entry.
LEMMA AcceptKeeps ==
    ASSUME IInv, NEW c \in Callers, NEW id \in Ids, CommitAccepted(c, id)
    PROVE  IInv'
<1> USE DEF IInv, CommitAccepted, BeginCommit, Committable, Starts
<1>1. TypeOK'
  BY OutcomesAreReceipts DEF TypeOK, CoordinatorTypeOK
<1>2. WellFormed'
  BY DEF WellFormed
<1>3. Owned' /\ Jobs'
  BY DEF Owned, Busy, Jobs, TypeOK, WellFormed
<1>4. Fresh' /\ AtMostOnePaste'
  BY DEF Fresh, AtMostOnePaste, TypeOK
<1> QED
  BY <1>1, <1>2, <1>3, <1>4

\* The paste: the owner alone counts it, and from zero.
LEMMA PasteKeeps ==
    ASSUME IInv, NEW c \in Callers, PasteText(c)
    PROVE  IInv'
<1> USE DEF IInv, PasteText, coordinatorVars
<1>1. /\ job[c] \in Ids
      /\ attempts[job[c]] = 0
      /\ attempts' = [attempts EXCEPT ![job[c]] = 1]
      /\ job[c] \in inFlight
      /\ \A d \in Callers : Busy(d) /\ job[d] = job[c] => d = c
  <2>1. job[c] \in Ids /\ attempts[job[c]] = 0
    BY DEF Jobs, Fresh
  <2>2. attempts' = [attempts EXCEPT ![job[c]] = 1]
    BY <2>1
  <2>3. Busy(c)
    BY DEF Busy
  <2> QED
    BY <2>1, <2>2, <2>3 DEF Owned
<1>2. TypeOK'
  BY <1>1 DEF TypeOK, CoordinatorTypeOK
<1>3. WellFormed' /\ Jobs' /\ Owned'
  BY DEF WellFormed, Jobs, Owned, Busy, TypeOK
<1>4. Fresh'
  <2>1. job[c] \notin entries \ terminal
    BY <1>1 DEF WellFormed
  <2>2. \A d \in Callers : pc'[d] = "pasting" => d # c /\ pc[d] = "pasting"
    BY DEF TypeOK
  <2>3. \A d \in Callers : pc'[d] = "pasting" => attempts'[job[d]] = 0
    BY <1>1, <2>2 DEF Fresh, Busy, TypeOK, Jobs
  <2> QED
    BY <1>1, <2>1, <2>3 DEF Fresh, TypeOK, CoordinatorTypeOK
<1>5. AtMostOnePaste'
  BY <1>1 DEF AtMostOnePaste, TypeOK
<1> QED
  BY <1>2, <1>3, <1>4, <1>5

\* What the second critical section of commit() closes.
FinishClosed(id, outcome) ==
    IF outcome = "commit_verified" THEN {id}
    ELSE Expired(Recoverable \cup {id})

\* The end of a commit closes its own entry or waiting ones only.
LEMMA FinishCloses ==
    ASSUME IInv, NEW c \in Callers, NEW outcome \in Outcomes,
           FinishCommit(c, outcome)
    PROVE  /\ Busy(c)
           /\ job[c] \in Ids
           /\ job[c] \in inFlight
           /\ job[c] \in entries \cap terminal
           /\ FinishClosed(job[c], outcome) \in SUBSET entries
           /\ FinishClosed(job[c], outcome) \subseteq Recoverable \cup {job[c]}
           /\ inFlight \ {job[c]} \in SUBSET terminal
           /\ ReceiptsWith(job[c], outcome) \in [Ids -> Receipts]
           /\ Close(FinishClosed(job[c], outcome), terminal,
                    inFlight \ {job[c]}, ReceiptsWith(job[c], outcome))
           /\ entries' = entries \ FinishClosed(job[c], outcome)
           /\ terminal' = terminal \ FinishClosed(job[c], outcome)
           /\ inFlight' = inFlight \ {job[c]}
<1> DEFINE id == job[c]
           closed == FinishClosed(id, outcome)
<1>1. /\ Busy(c)
      /\ id \in Ids
      /\ id \in inFlight
      /\ id \in entries \cap terminal
  BY DEF FinishCommit, IInv, Busy, Jobs, Owned, WellFormed
<1>2. closed \subseteq Recoverable \cup {id}
  BY ExpiredWaits DEF FinishClosed
<1>3. /\ closed \in SUBSET entries
      /\ inFlight \ {id} \in SUBSET terminal
      /\ closed \cap (inFlight \ {id}) = {}
  BY <1>1, <1>2 DEF Recoverable, IInv, WellFormed
<1>4. ReceiptsWith(id, outcome) \in [Ids -> Receipts]
  BY OutcomesAreReceipts DEF IInv, TypeOK, CoordinatorTypeOK, ReceiptsWith
<1>5. Close(closed, terminal, inFlight \ {id}, ReceiptsWith(id, outcome))
  BY <1>1 DEF FinishCommit, EndCommit, FinishClosed, ReceiptsWith
<1>6. /\ entries' = entries \ closed
      /\ terminal' = terminal \ closed
      /\ inFlight' = inFlight \ {id}
  BY <1>3, <1>5 DEF Close
<1> QED
  BY <1>1, <1>2, <1>3, <1>4, <1>5, <1>6

\* The end of a commit releases the ownership of its caller.
LEMMA FinishKeeps ==
    ASSUME IInv, NEW c \in Callers, NEW outcome \in Outcomes,
           FinishCommit(c, outcome)
    PROVE  IInv'
<1>1. CoordinatorTypeOK' /\ WellFormed'
  <2>1. terminal \in SUBSET entries
    BY DEF IInv, WellFormed
  <2> QED
    BY <2>1, FinishCloses, CloseWellFormed DEF IInv
<1>2. /\ TypeOK'
      /\ \A d \in Callers \ {c} : pc'[d] = pc[d] /\ job'[d] = job[d]
      /\ pc'[c] = "idle"
      /\ UNCHANGED attempts
  BY <1>1 DEF FinishCommit, Returns, Starts, IInv, TypeOK
<1>3. Owned' /\ Jobs'
  <2>1. \A d \in Callers \ {c} : Busy(d) => job[d] # job[c]
    BY FinishCloses DEF IInv, Owned
  <2> QED
    BY ZenonT(60), <1>2, <2>1, FinishCloses DEF IInv, Owned, Busy, Jobs
<1>4. Fresh' /\ AtMostOnePaste'
  <2>1. entries' \ terminal' \subseteq entries \ terminal
    BY FinishCloses
  <2> QED
    BY <1>2, <2>1 DEF IInv, Fresh, AtMostOnePaste
<1> QED
  BY <1>1, <1>2, <1>3, <1>4 DEF IInv

\* Copying changes nothing but the caller.
LEMMA CopyKeeps ==
    ASSUME IInv, NEW c \in Callers, NEW id \in Ids, CopyLatest(c, id)
    PROVE  IInv'
<1> USE DEF IInv, CopyLatest, Starts, coordinatorVars
<1>1. TypeOK' /\ WellFormed'
  BY DEF TypeOK, CoordinatorTypeOK, WellFormed
<1>2. Owned' /\ Jobs' /\ Fresh' /\ AtMostOnePaste'
  BY DEF Owned, Busy, Jobs, Fresh, AtMostOnePaste, TypeOK
<1> QED
  BY <1>1, <1>2

\* A dismissal never closes an entry in flight.
LEMMA DismissKeeps ==
    ASSUME IInv, NEW c \in Callers, DismissCopied(c)
    PROVE  IInv'
<1> USE DEF IInv, DismissCopied, Returns, Starts
<1>1. /\ \A d \in Callers \ {c} : pc'[d] = pc[d] /\ job'[d] = job[d]
      /\ pc'[c] = "idle"
      /\ pc' \in [Callers -> {"idle", "pasting", "readback", "copied"}]
      /\ job' \in [Callers -> Ids \cup {NoId}]
  BY DEF TypeOK
<1>2. CASE UNCHANGED coordinatorVars
  <2>1. TypeOK' /\ WellFormed'
    BY <1>1, <1>2 DEF TypeOK, CoordinatorTypeOK, WellFormed, coordinatorVars
  <2>2. Owned' /\ Jobs' /\ Fresh' /\ AtMostOnePaste'
    BY <1>1, <1>2 DEF Owned, Busy, Jobs, Fresh, AtMostOnePaste, coordinatorVars
  <2> QED
    BY <2>1, <2>2
<1>3. CASE ~UNCHANGED coordinatorVars
  <2> DEFINE id == job[c]
  <2>1. /\ id \in entries \ inFlight
        /\ Close({id}, terminal, inFlight, receipt)
    BY <1>3 DEF Acknowledge
  <2>2. /\ {id} \in SUBSET entries
        /\ terminal \in SUBSET entries
        /\ inFlight \in SUBSET terminal
        /\ receipt \in [Ids -> Receipts]
    BY <2>1 DEF WellFormed, TypeOK, CoordinatorTypeOK
  <2>3. CoordinatorTypeOK' /\ WellFormed'
    BY <2>1, <2>2, CloseWellFormed
  <2>4. /\ entries' = entries \ {id}
        /\ terminal' = terminal \ {id}
        /\ inFlight' = inFlight
    BY <2>1 DEF Close
  <2>5. TypeOK'
    BY <1>1, <2>3 DEF TypeOK
  <2>6. Owned' /\ Jobs' /\ Fresh' /\ AtMostOnePaste'
    BY <1>1, <2>4 DEF Owned, Busy, Jobs, Fresh, AtMostOnePaste
  <2> QED
    BY <2>3, <2>5, <2>6
<1> QED
  BY <1>2, <1>3

\* Every step keeps IInv: one case per action.
LEMMA NextKeeps == IInv /\ [Next]_vars => IInv'
<1> SUFFICES ASSUME IInv, [Next]_vars PROVE IInv'
  OBVIOUS
<1>1. CASE Next
  <2> PICK c \in Callers :
        \/ \E id \in Ids :
            \/ StageText(c, id)
            \/ \E reason \in Refusals : CommitRefused(c, id, reason)
            \/ CommitAccepted(c, id)
            \/ CopyLatest(c, id)
        \/ PasteText(c)
        \/ \E outcome \in Outcomes : FinishCommit(c, outcome)
        \/ DismissCopied(c)
    BY <1>1 DEF Next
  <2> QED
    BY StageKeeps, RefusalKeeps, AcceptKeeps, PasteKeeps, FinishKeeps,
       CopyKeeps, DismissKeeps
<1>2. CASE UNCHANGED vars
  BY <1>2 DEF vars, IInv, TypeOK, CoordinatorTypeOK, WellFormed, Owned, Busy,
              Jobs, Fresh, AtMostOnePaste
<1> QED
  BY <1>1, <1>2

\* The strengthened invariant (ownership of the paste in flight, and the
\* entries not yet pasted) holds in every reachable state.
THEOREM CoordinatorInvariant == Spec => []IInv
<1> QED
  BY InitIInv, NextKeeps, PTL DEF Spec

\* Every caller and every dictionary keeps its type.
THEOREM CoordinatorTypeCorrect == Spec => []TypeOK
<1>1. IInv => TypeOK
  BY DEF IInv
<1> QED
  BY <1>1, CoordinatorInvariant, PTL

\* However many threads commit one utterance, it is pasted at most once.
THEOREM SinglePaste == Spec => []AtMostOnePaste
<1>1. IInv => AtMostOnePaste
  BY DEF IInv
<1> QED
  BY <1>1, CoordinatorInvariant, PTL

\* An entry whose callbacks run is closed by nobody but its caller.
THEOREM FlightOwnership == Spec => []InFlightIsOwned
<1>1. IInv => InFlightIsOwned
  BY DEF IInv, Owned, Busy, WellFormed, InFlightIsOwned
<1> QED
  BY <1>1, CoordinatorInvariant, PTL


-----------------------------------------------------------------------------
(***************************************************************************)
(* The coordinator's two bounded memories: pruning and eviction keep them  *)
(* within their bounds and drop oldest members first.                      *)
(*                                                                         *)
(* The insertion orders are strict total orders.  For such an order the    *)
(* number of members that come after x is a different number for every x;  *)
(* hence Youngest(S, before, n) has at most n members (pigeonhole), and a  *)
(* set that is one over its bound loses exactly its oldest member.         *)
(***************************************************************************)

\* `before` orders the members of S strictly and totally.
Ordered(S, before) ==
    /\ \A x \in S : <<x, x>> \notin before
    /\ \A x, y \in S : x # y => <<x, y>> \in before \/ <<y, x>> \in before
    /\ \A x, y, z \in S :
        <<x, y>> \in before /\ <<y, z>> \in before => <<x, z>> \in before

After(x, S, before) == {y \in S : <<x, y>> \in before}

-----------------------------------------------------------------------------
(* Youngest.                                                               *)

\* What comes after an entry in a finite dictionary is finite.
LEMMA AfterFinite ==
    ASSUME NEW S, IsFiniteSet(S), NEW before, NEW x
    PROVE  /\ IsFiniteSet(After(x, S, before))
           /\ Cardinality(After(x, S, before)) \in Nat
<1>1. After(x, S, before) \in SUBSET S
  BY DEF After
<1> QED
  BY <1>1, FS_Subset, FS_CardinalityType

\* Of two members, the earlier one has more after it.
LEMMA EarlierHasMore ==
    ASSUME NEW S, IsFiniteSet(S), NEW before, Ordered(S, before),
           NEW x \in S, NEW y \in S, <<x, y>> \in before
    PROVE  Cardinality(After(y, S, before)) < Cardinality(After(x, S, before))
<1> DEFINE ax == After(x, S, before)
           ay == After(y, S, before)
<1>1. ay \in SUBSET ax /\ y \in ax /\ y \notin ay
  BY DEF After, Ordered
<1>2. /\ IsFiniteSet(ax) /\ Cardinality(ax) \in Nat
      /\ Cardinality(ay) \in Nat
  BY AfterFinite
<1> HIDE DEF ax, ay
<1>3. Cardinality(ay) <= Cardinality(ax) /\ Cardinality(ay) # Cardinality(ax)
  BY <1>1, <1>2, FS_Subset
<1>4. Cardinality(ay) < Cardinality(ax)
  BY <1>2, <1>3
<1> QED
  BY <1>4 DEF ax, ay

\* An entry stays iff fewer than n entries were inserted after it.
LEMMA YoungestAfter ==
    ASSUME NEW S, NEW before, NEW n
    PROVE  Youngest(S, before, n) =
             {x \in S : Cardinality(After(x, S, before)) < n}
BY DEF Youngest, After

\* Of an ordered finite dictionary at most n entries are youngest (pigeonhole).
LEMMA YoungestBounded ==
    ASSUME NEW S, IsFiniteSet(S), NEW before, Ordered(S, before), NEW n \in Nat
    PROVE  /\ IsFiniteSet(Youngest(S, before, n))
           /\ Cardinality(Youngest(S, before, n)) \in Nat
           /\ Cardinality(Youngest(S, before, n)) <= n
<1> DEFINE K == Youngest(S, before, n)
           f == [x \in K |-> Cardinality(After(x, S, before))]
<1>1. K = {x \in S : Cardinality(After(x, S, before)) < n}
  BY YoungestAfter
<1>2. K \in SUBSET S
  BY <1>1
<1>3. IsFiniteSet(K) /\ Cardinality(K) \in Nat
  BY <1>2, FS_Subset, FS_CardinalityType
<1>4. f \in [K -> 0..(n - 1)]
  <2>1. \A x \in K : Cardinality(After(x, S, before)) \in 0..(n - 1)
    BY <1>1, AfterFinite
  <2> QED
    BY <2>1
<1>5. \A x, y \in K : x # y => f[x] # f[y]
  <2> TAKE x, y \in K
  <2> HAVE x # y
  <2>1. x \in S /\ y \in S
    BY <1>2
  <2>2. <<x, y>> \in before \/ <<y, x>> \in before
    BY <2>1 DEF Ordered
  <2>3. /\ Cardinality(After(x, S, before)) \in Nat
        /\ Cardinality(After(y, S, before)) \in Nat
    BY AfterFinite
  <2>4. Cardinality(After(x, S, before)) # Cardinality(After(y, S, before))
    BY <2>1, <2>2, <2>3, EarlierHasMore
  <2> QED
    BY <2>4
<1>6. IsFiniteSet(0..(n - 1)) /\ Cardinality(0..(n - 1)) = n
  <2>1. 0 \in Int /\ n - 1 \in Int
    OBVIOUS
  <2>2. /\ IsFiniteSet(0..(n - 1))
        /\ Cardinality(0..(n - 1)) =
             IF 0 > n - 1 THEN 0 ELSE (n - 1) - 0 + 1
    BY <2>1, FS_Interval
  <2> QED
    BY <2>2
<1>7. ~(Cardinality(0..(n - 1)) < Cardinality(K))
  <2> HIDE DEF K, f
  <2> QED
    BY <1>3, <1>4, <1>5, <1>6, FS_PigeonHole
<1> QED
  BY <1>3, <1>6, <1>7

\* A set within its bound loses nothing.
LEMMA YoungestAll ==
    ASSUME NEW S, IsFiniteSet(S), NEW before, Ordered(S, before),
           NEW n \in Nat, Cardinality(S) <= n
    PROVE  Youngest(S, before, n) = S
<1>1. ASSUME NEW x \in S
      PROVE  Cardinality(After(x, S, before)) < n
  <2>1. /\ IsFiniteSet(S) /\ Cardinality(S) \in Nat
        /\ Cardinality(After(x, S, before)) \in Nat
    BY FS_CardinalityType, AfterFinite
  <2>2. After(x, S, before) \in SUBSET S /\ After(x, S, before) # S
    BY DEF After, Ordered
  <2>3. /\ Cardinality(After(x, S, before)) <= Cardinality(S)
        /\ Cardinality(After(x, S, before)) # Cardinality(S)
    BY <2>2, FS_Subset
  <2> QED
    BY <2>1, <2>3
<1> QED
  BY <1>1, YoungestAfter

\* What is dropped came before everything that is kept.
LEMMA DroppedIsOlder ==
    ASSUME NEW S, IsFiniteSet(S), NEW before, Ordered(S, before), NEW n \in Nat,
           NEW x \in S \ Youngest(S, before, n), NEW y \in Youngest(S, before, n)
    PROVE  <<x, y>> \in before
<1>1. /\ x \in S /\ y \in S /\ x # y
      /\ ~(Cardinality(After(x, S, before)) < n)
      /\ Cardinality(After(y, S, before)) < n
  BY YoungestAfter
<1>2. /\ Cardinality(After(x, S, before)) \in Nat
      /\ Cardinality(After(y, S, before)) \in Nat
  BY AfterFinite
<1>3. CASE <<y, x>> \in before
  <2>1. Cardinality(After(x, S, before)) < Cardinality(After(y, S, before))
    BY <1>1, <1>3, EarlierHasMore
  <2> QED
    BY <1>1, <1>2, <2>1
<1> QED
  BY <1>1, <1>3 DEF Ordered

\* A set one over its bound loses at most one member.
LEMMA DropsAtMostOne ==
    ASSUME NEW S, IsFiniteSet(S), NEW before, Ordered(S, before), NEW n \in Nat,
           Cardinality(S) <= n + 1,
           NEW x \in S \ Youngest(S, before, n),
           NEW y \in S \ Youngest(S, before, n)
    PROVE  x = y
<1>1. ASSUME NEW u \in S \ Youngest(S, before, n),
             NEW v \in S \ Youngest(S, before, n), <<u, v>> \in before
      PROVE  FALSE
  <2>1. /\ u \in S /\ v \in S
        /\ ~(Cardinality(After(v, S, before)) < n)
    BY YoungestAfter
  <2>2. Cardinality(After(v, S, before)) < Cardinality(After(u, S, before))
    BY <1>1, <2>1, EarlierHasMore
  <2>3. /\ Cardinality(After(u, S, before)) \in Nat
        /\ Cardinality(After(v, S, before)) \in Nat
        /\ Cardinality(S) \in Nat
    BY AfterFinite, FS_CardinalityType
  <2>4. After(u, S, before) \in SUBSET S /\ After(u, S, before) # S
    BY <2>1 DEF After, Ordered
  <2>5. /\ Cardinality(After(u, S, before)) <= Cardinality(S)
        /\ Cardinality(After(u, S, before)) # Cardinality(S)
    BY <2>4, FS_Subset
  <2> QED
    BY <2>1, <2>2, <2>3, <2>5
<1> QED
  BY <1>1 DEF Ordered

-----------------------------------------------------------------------------
(* The strengthening: both dictionaries are ordered, and no entry that is  *)
(* still in the outbox carries a verified receipt.                         *)

OrdersKept ==
    /\ stagedBefore \subseteq entries \X entries
    /\ Ordered(entries, stagedBefore)
    /\ closedBefore \subseteq tombstones \X tombstones
    /\ Ordered(tombstones, closedBefore)

Unverified == \A id \in entries : receipt[id] # "commit_verified"

BInv == IInv /\ OrdersKept /\ MemoryIsBounded /\ Unverified

Pruned(waiting, expired) ==
    /\ expired \subseteq waiting
    /\ \A x, y \in expired : x = y
    /\ \A x \in expired, y \in waiting \ expired : <<x, y>> \in stagedBefore
    /\ Cardinality(waiting \ expired) <= MaxRecoverable
    /\ expired # {} => Cardinality(waiting \ expired) = MaxRecoverable

\* One pass of _prune_recoverable_locked over an outbox that has just gained
\* one entry: at most the oldest expires, and then the outbox is full.
LEMMA PruneOnce ==
    ASSUME BInv, NEW id \in entries
    PROVE  Pruned(Recoverable \cup {id}, Expired(Recoverable \cup {id}))
<1> DEFINE waiting == Recoverable \cup {id}
           kept == Youngest(waiting, stagedBefore, MaxRecoverable)
           gone == Expired(waiting)
<1>1. gone = waiting \ kept /\ kept \subseteq waiting /\ waiting \ gone = kept
  BY DEF Expired, Youngest
<1>2. MaxRecoverable \in Nat /\ IsFiniteSet(Ids)
  BY CoordinatorAssumption
<1>3. Recoverable \in SUBSET Ids /\ waiting \in SUBSET entries
  BY DEF BInv, IInv, TypeOK, CoordinatorTypeOK, Recoverable
<1>4. IsFiniteSet(Recoverable)
  BY <1>2, <1>3, FS_Subset
<1>5. /\ IsFiniteSet(waiting)
      /\ Cardinality(waiting) \in Nat
      /\ Cardinality(waiting) <= MaxRecoverable + 1
  <2>1. /\ Cardinality(Recoverable) \in Nat
        /\ Cardinality(Recoverable) <= MaxRecoverable
    BY <1>4, FS_CardinalityType DEF BInv, MemoryIsBounded
  <2>2. /\ IsFiniteSet(waiting)
        /\ Cardinality(waiting) = IF id \in Recoverable
             THEN Cardinality(Recoverable) ELSE Cardinality(Recoverable) + 1
    BY <1>4, FS_AddElement
  <2> QED
    BY <1>2, <2>1, <2>2
<1>6. Ordered(waiting, stagedBefore)
  BY <1>3 DEF BInv, OrdersKept, Ordered
<1>7. \A x, y \in gone : x = y
  <2> TAKE x, y \in gone
  <2>1. x \in waiting \ kept /\ y \in waiting \ kept
    BY <1>1
  <2> QED
    BY <1>2, <1>5, <1>6, <2>1, DropsAtMostOne
<1>8. \A x \in gone, y \in kept : <<x, y>> \in stagedBefore
  <2> TAKE x \in gone, y \in kept
  <2>1. x \in waiting \ kept /\ y \in kept
    BY <1>1
  <2> QED
    BY <1>2, <1>5, <1>6, <2>1, DroppedIsOlder
<1>9. Cardinality(kept) <= MaxRecoverable /\ Cardinality(kept) \in Nat
  BY <1>2, <1>5, <1>6, YoungestBounded
<1>10. ASSUME gone # {}
       PROVE  Cardinality(kept) = MaxRecoverable
  <2>1. PICK x \in gone : TRUE
    BY <1>10
  <2>2. kept = waiting \ {x} /\ x \in waiting
    BY <1>1, <1>7, <2>1
  <2>3. Cardinality(kept) = Cardinality(waiting) - 1
    <3>1. Cardinality(waiting \ {x}) = Cardinality(waiting) - 1
      BY <1>5, <2>2, FS_RemoveElement
    <3> HIDE DEF kept
    <3> QED
      BY <2>2, <3>1
  <2>4. kept # waiting
    BY <2>2
  <2>5. ~(Cardinality(waiting) <= MaxRecoverable)
    BY <1>2, <1>5, <1>6, <2>4, YoungestAll
  <2> QED
    BY <1>2, <1>5, <1>9, <2>3, <2>5
<1> HIDE DEF kept, gone
<1>11. Pruned(waiting, gone)
  BY <1>1, <1>7, <1>8, <1>9, <1>10 DEF Pruned
<1> QED
  BY <1>11 DEF gone

\* Closing entries keeps both orders and the bound on the tombstones.
LEMMA CloseKeepsOrders ==
    ASSUME BInv, NEW closed \in SUBSET entries,
           NEW nowTerminal, NEW nowInFlight, NEW receipts,
           Close(closed, nowTerminal, nowInFlight, receipts)
    PROVE  OrdersKept' /\ Cardinality(tombstones') <= MaxTombstones
<1> DEFINE remembered == tombstones \cup closed
           order == closedBefore \cup (tombstones \X closed)
                                 \cup (stagedBefore \cap (closed \X closed))
<1>1. /\ entries' = entries \ closed
      /\ stagedBefore' = stagedBefore \cap (entries' \X entries')
      /\ tombstones' = Youngest(remembered, order, MaxTombstones)
      /\ closedBefore' = order \cap (tombstones' \X tombstones')
  BY DEF Close
<1>2. tombstones \cap closed = {}
  BY DEF BInv, IInv, WellFormed
<1>3. Ordered(remembered, order)
  <2>1. \A x, y \in remembered : <<x, y>> \in order <=>
            \/ x \in tombstones /\ y \in closed
            \/ x \in tombstones /\ y \in tombstones /\ <<x, y>> \in closedBefore
            \/ x \in closed /\ y \in closed /\ <<x, y>> \in stagedBefore
    BY <1>2 DEF BInv, OrdersKept
  <2> HIDE DEF order
  <2>2. \A x \in remembered : <<x, x>> \notin order
    BY <1>2, <2>1 DEF BInv, OrdersKept, Ordered
  <2>3. \A x, y \in remembered :
            x # y => <<x, y>> \in order \/ <<y, x>> \in order
    BY <1>2, <2>1 DEF BInv, OrdersKept, Ordered
  <2>4. \A x, y, z \in remembered :
            <<x, y>> \in order /\ <<y, z>> \in order => <<x, z>> \in order
    BY <1>2, <2>1 DEF BInv, OrdersKept, Ordered
  <2> HIDE DEF remembered
  <2> QED
    BY <2>2, <2>3, <2>4 DEF Ordered
<1>4. IsFiniteSet(remembered) /\ MaxTombstones \in Nat
  <2>1. remembered \in SUBSET Ids
    BY DEF BInv, IInv, TypeOK, CoordinatorTypeOK
  <2> QED
    BY <2>1, CoordinatorAssumption, FS_Subset
<1>5. tombstones' \subseteq remembered
  BY <1>1 DEF Youngest
<1> HIDE DEF remembered, order
<1>6. Cardinality(tombstones') <= MaxTombstones
  BY <1>1, <1>3, <1>4, YoungestBounded
<1>7. Ordered(entries', stagedBefore') /\ stagedBefore' \subseteq entries' \X entries'
  <2>1. Ordered(entries, stagedBefore)
    BY DEF BInv, OrdersKept
  <2> QED
    BY <1>1, <2>1 DEF Ordered
<1>8. Ordered(tombstones', closedBefore')
  BY <1>1, <1>3, <1>5 DEF Ordered
<1> QED
  BY <1>1, <1>6, <1>7, <1>8 DEF OrdersKept

\* A single closed entry is the youngest tombstone and stays remembered.
LEMMA CloseRemembers ==
    ASSUME BInv, NEW closed \in SUBSET entries,
           \A x, y \in closed : x = y,
           NEW nowTerminal, NEW nowInFlight, NEW receipts,
           Close(closed, nowTerminal, nowInFlight, receipts)
    PROVE  closed \subseteq tombstones'
<1> SUFFICES ASSUME NEW id \in closed PROVE id \in tombstones'
  OBVIOUS
<1> DEFINE remembered == tombstones \cup closed
           order == closedBefore \cup (tombstones \X closed)
                                 \cup (stagedBefore \cap (closed \X closed))
<1>1. tombstones' = Youngest(remembered, order, MaxTombstones)
  BY DEF Close
<1>2. {y \in remembered : <<id, y>> \in order} = {}
  <2>1. id \notin tombstones /\ <<id, id>> \notin stagedBefore
    BY DEF BInv, IInv, WellFormed, OrdersKept, Ordered
  <2> QED
    BY <2>1 DEF BInv, OrdersKept
<1>3. Cardinality({}) < MaxTombstones
  BY FS_EmptySet, CoordinatorAssumption
<1>4. id \in remembered
  OBVIOUS
<1> HIDE DEF remembered, order
<1> QED
  BY <1>1, <1>2, <1>3, <1>4 DEF Youngest

-----------------------------------------------------------------------------
(* Every step keeps the strengthening.  CloseEffect collects what a step   *)
(* that closes entries does to the rest of the state.                      *)

CloseEffect(closed, receipts) ==
    /\ closed \in SUBSET entries
    /\ \A x, y \in closed : x = y
    /\ entries' = entries \ closed
    /\ closed \subseteq tombstones'
    /\ tombstones' \subseteq tombstones \cup closed
    /\ receipt' = [x \in Ids |->
            IF x \in (tombstones \cup closed) \ tombstones' THEN "none"
            ELSE receipts[x]]

\* A closing with receipts of the right kind has the effect CloseEffect.
LEMMA CloseHasEffect ==
    ASSUME BInv, NEW closed \in SUBSET entries,
           \A x, y \in closed : x = y,
           NEW nowTerminal, NEW nowInFlight, NEW receipts,
           Close(closed, nowTerminal, nowInFlight, receipts)
    PROVE  CloseEffect(closed, receipts)
<1>1. closed \subseteq tombstones'
  BY CloseRemembers
<1>2. /\ entries' = entries \ closed
      /\ tombstones' \subseteq tombstones \cup closed
      /\ receipt' = [x \in Ids |->
            IF x \in (tombstones \cup closed) \ tombstones' THEN "none"
            ELSE receipts[x]]
  BY DEF Close, Youngest
<1> QED
  BY <1>1, <1>2 DEF CloseEffect

\* A refused commit closes only what expires, keeping the outbox bounded.
LEMMA RefusalEffect ==
    ASSUME BInv, NEW id \in Ids, NEW reason \in Refusals,
           RefuseCommit(id, reason)
    PROVE  /\ CloseEffect(RefusalClosed(id), ReceiptsWith(id, reason))
           /\ OrdersKept' /\ MemoryIsBounded'
           /\ \A x \in Recoverable \ Recoverable' :
                /\ Cardinality(Recoverable') = MaxRecoverable
                /\ \A y \in Recoverable' : <<x, y>> \in stagedBefore
<1> DEFINE waiting == Recoverable \cup {id}
           closed == RefusalClosed(id)
<1>1. /\ id \in entries \ terminal
      /\ closed \in SUBSET entries
      /\ Close(closed, terminal \cup {id}, inFlight, ReceiptsWith(id, reason))
      /\ entries' = entries \ closed
      /\ terminal' = (terminal \cup {id}) \ closed
      /\ inFlight' = inFlight
  BY RefusalCloses DEF BInv
<1>2. Pruned(waiting, closed)
  BY <1>1, PruneOnce DEF RefusalClosed
<1>3. /\ closed \subseteq waiting
      /\ \A x, y \in closed : x = y
      /\ \A x \in closed, y \in waiting \ closed : <<x, y>> \in stagedBefore
      /\ Cardinality(waiting \ closed) <= MaxRecoverable
      /\ closed # {} => Cardinality(waiting \ closed) = MaxRecoverable
  BY <1>2 DEF Pruned
<1> HIDE DEF closed
<1>4. CloseEffect(closed, ReceiptsWith(id, reason))
  BY <1>1, <1>3, CloseHasEffect
<1>5. OrdersKept' /\ Cardinality(tombstones') <= MaxTombstones
  BY <1>1, CloseKeepsOrders
<1>6. Recoverable' = waiting \ closed
  BY <1>1 DEF Recoverable, BInv, IInv, WellFormed
<1> HIDE DEF waiting
<1>7. MemoryIsBounded'
  BY <1>3, <1>5, <1>6 DEF MemoryIsBounded
<1>8. ASSUME NEW x \in Recoverable \ Recoverable'
      PROVE  /\ Cardinality(Recoverable') = MaxRecoverable
             /\ \A y \in Recoverable' : <<x, y>> \in stagedBefore
  <2>1. x \in closed
    BY <1>6 DEF waiting
  <2> QED
    BY <1>3, <1>6, <2>1
<1> QED
  BY <1>4, <1>5, <1>7, <1>8 DEF closed

\* The end of a commit closes the proven text, or only what expires.
LEMMA FinishEffect ==
    ASSUME BInv, NEW c \in Callers, NEW outcome \in Outcomes,
           FinishCommit(c, outcome)
    PROVE  /\ CloseEffect(FinishClosed(job[c], outcome),
                         ReceiptsWith(job[c], outcome))
           /\ OrdersKept' /\ MemoryIsBounded'
           /\ \A x \in Recoverable \ Recoverable' :
                /\ Cardinality(Recoverable') = MaxRecoverable
                /\ \A y \in Recoverable' : <<x, y>> \in stagedBefore
<1> DEFINE id == job[c]
           waiting == Recoverable \cup {id}
           closed == FinishClosed(id, outcome)
<1>1. /\ id \in Ids
      /\ id \in entries \cap terminal
      /\ id \in inFlight
      /\ closed \in SUBSET entries
      /\ Close(closed, terminal, inFlight \ {id}, ReceiptsWith(id, outcome))
      /\ entries' = entries \ closed
      /\ terminal' = terminal \ closed
      /\ inFlight' = inFlight \ {id}
  BY FinishCloses DEF BInv
<1> HIDE DEF id
<1>2. OrdersKept' /\ Cardinality(tombstones') <= MaxTombstones
  BY <1>1, CloseKeepsOrders
<1>3. Recoverable' = waiting \ closed
  BY <1>1 DEF Recoverable, BInv, IInv, WellFormed
<1>4. CASE outcome = "commit_verified"
  <2>1. closed = {id}
    BY <1>4 DEF FinishClosed
  <2>2. CloseEffect(closed, ReceiptsWith(id, outcome))
    BY <1>1, <2>1, CloseHasEffect
  <2>3. id \notin Recoverable
    BY <1>1 DEF Recoverable
  <2>4. Recoverable' = Recoverable
    BY <1>3, <2>1, <2>3
  <2>5. MemoryIsBounded'
    BY <1>2, <2>4 DEF MemoryIsBounded, BInv
  <2> QED
    BY <1>2, <2>2, <2>4, <2>5 DEF id
<1>5. CASE outcome # "commit_verified"
  <2>1. Pruned(waiting, closed)
    BY <1>1, <1>5, PruneOnce DEF FinishClosed
  <2>2. /\ closed \subseteq waiting
        /\ \A x, y \in closed : x = y
        /\ \A x \in closed, y \in waiting \ closed : <<x, y>> \in stagedBefore
        /\ Cardinality(waiting \ closed) <= MaxRecoverable
        /\ closed # {} => Cardinality(waiting \ closed) = MaxRecoverable
    BY <2>1 DEF Pruned
  <2> HIDE DEF closed
  <2>3. CloseEffect(closed, ReceiptsWith(id, outcome))
    BY <1>1, <2>2, CloseHasEffect
  <2>4. MemoryIsBounded'
    BY <1>2, <1>3, <2>2 DEF MemoryIsBounded
  <2>5. ASSUME NEW x \in Recoverable \ Recoverable'
        PROVE  /\ Cardinality(Recoverable') = MaxRecoverable
               /\ \A y \in Recoverable' : <<x, y>> \in stagedBefore
    <3>1. x \in closed
      BY <1>3
    <3> QED
      BY <1>3, <2>2, <3>1
  <2> QED
    BY <1>2, <2>3, <2>4, <2>5 DEF closed, id
<1> QED
  BY <1>4, <1>5

\* acknowledge() of an entry that is not in flight.
LEMMA DismissEffect ==
    ASSUME BInv, NEW id \in entries \ inFlight,
           Close({id}, terminal, inFlight, receipt)
    PROVE  /\ CloseEffect({id}, receipt)
           /\ OrdersKept' /\ MemoryIsBounded'
           /\ Recoverable' = Recoverable \ {id}
           /\ terminal' = terminal \ {id}
           /\ inFlight' = inFlight
<1>1. CloseEffect({id}, receipt)
  BY CloseHasEffect
<1>2. OrdersKept' /\ Cardinality(tombstones') <= MaxTombstones
  BY CloseKeepsOrders
<1>3. /\ terminal' = terminal \ {id}
      /\ inFlight' = inFlight
      /\ Recoverable' = Recoverable \ {id}
  BY DEF Close, Recoverable
<1>4. Cardinality(Recoverable') <= MaxRecoverable
  <2>1. IsFiniteSet(Recoverable)
    <3>1. Recoverable \in SUBSET Ids
      BY DEF Recoverable, BInv, IInv, TypeOK, CoordinatorTypeOK
    <3> QED
      BY <3>1, CoordinatorAssumption, FS_Subset
  <2>2. /\ Cardinality(Recoverable) \in Nat
        /\ Cardinality(Recoverable') \in Nat
        /\ Cardinality(Recoverable') <= Cardinality(Recoverable)
    BY <1>3, <2>1, FS_Subset, FS_CardinalityType
  <2> QED
    BY <2>2, CoordinatorAssumption DEF BInv, MemoryIsBounded
<1> QED
  BY <1>1, <1>2, <1>3, <1>4 DEF MemoryIsBounded

-----------------------------------------------------------------------------
(* The inductive invariant.                                                *)

\* The coordinator starts empty, hence within its bounds.
LEMMA InitBInv == Init => BInv
<1> SUFFICES ASSUME Init PROVE BInv
  OBVIOUS
<1>1. IInv
  BY InitIInv
<1>2. OrdersKept
  BY DEF Init, CoordinatorInit, OrdersKept, Ordered
<1>3. MemoryIsBounded
  <2>1. Recoverable = {} /\ tombstones = {}
    BY DEF Init, CoordinatorInit, Recoverable
  <2> QED
    BY <2>1, FS_EmptySet, CoordinatorAssumption DEF MemoryIsBounded
<1>4. Unverified
  BY DEF Init, CoordinatorInit, Unverified
<1> QED
  BY <1>1, <1>2, <1>3, <1>4 DEF BInv

\* A step that leaves both dictionaries and the outbox as they are.
LEMMA QuietKeeps ==
    ASSUME BInv, Recoverable' = Recoverable,
           UNCHANGED <<entries, stagedBefore, tombstones, closedBefore>>,
           \A x \in entries : receipt'[x] # "commit_verified"
    PROVE  OrdersKept' /\ MemoryIsBounded' /\ Unverified'
BY DEF BInv, OrdersKept, MemoryIsBounded, Unverified, Ordered

\* Staging a text keeps the bounds: the outbox does not grow.
LEMMA BStage ==
    ASSUME BInv, NEW c \in Callers, NEW id \in Ids, StageText(c, id)
    PROVE  OrdersKept' /\ MemoryIsBounded' /\ Unverified'
<1>1. /\ id \notin entries /\ id \notin tombstones
      /\ entries' = entries \cup {id}
      /\ stagedBefore' = stagedBefore \cup (entries \X {id})
      /\ receipt' = [receipt EXCEPT ![id] = "pending"]
      /\ UNCHANGED <<terminal, inFlight, tombstones, closedBefore>>
  BY DEF StageText, Stage, Known
<1>2. OrdersKept'
  <2>1. \A x, y \in entries' : <<x, y>> \in stagedBefore' <=>
            \/ x \in entries /\ y = id
            \/ x \in entries /\ y \in entries /\ <<x, y>> \in stagedBefore
    BY <1>1 DEF BInv, OrdersKept
  <2>2. Ordered(entries', stagedBefore')
    BY <1>1, <2>1 DEF BInv, OrdersKept, Ordered
  <2> QED
    BY <1>1, <2>2 DEF BInv, OrdersKept, Ordered
<1>3. Recoverable' = Recoverable
  BY <1>1 DEF Recoverable, BInv, IInv, WellFormed
<1>4. MemoryIsBounded'
  BY <1>1, <1>3 DEF BInv, MemoryIsBounded
<1>5. Unverified'
  BY <1>1 DEF BInv, Unverified, IInv, TypeOK, CoordinatorTypeOK
<1> QED
  BY <1>2, <1>4, <1>5

\* A refused commit keeps the bounds.
LEMMA BRefuse ==
    ASSUME BInv, NEW c \in Callers, NEW id \in Ids, NEW reason \in Refusals,
           CommitRefused(c, id, reason)
    PROVE  OrdersKept' /\ MemoryIsBounded' /\ Unverified'
<1>1. RefuseCommit(id, reason)
  BY DEF CommitRefused
<1>2. /\ CloseEffect(RefusalClosed(id), ReceiptsWith(id, reason))
      /\ OrdersKept' /\ MemoryIsBounded'
  BY <1>1, RefusalEffect
<1>3. Unverified'
  BY <1>2 DEF CloseEffect, ReceiptsWith, Refusals, BInv, Unverified, IInv,
              WellFormed, TypeOK, CoordinatorTypeOK
<1> QED
  BY <1>2, <1>3

\* An accepted commit keeps the bounds: its entry is in flight, not waiting.
LEMMA BAccept ==
    ASSUME BInv, NEW c \in Callers, NEW id \in Ids, CommitAccepted(c, id)
    PROVE  OrdersKept' /\ MemoryIsBounded' /\ Unverified'
<1>1. /\ id \in entries /\ id \notin terminal
      /\ terminal' = terminal \cup {id}
      /\ inFlight' = inFlight \cup {id}
      /\ receipt' = [receipt EXCEPT ![id] = "paste_outcome_unknown"]
      /\ UNCHANGED <<entries, stagedBefore, tombstones, closedBefore>>
  BY DEF CommitAccepted, BeginCommit, Committable
<1>2. Recoverable' = Recoverable
  BY <1>1 DEF Recoverable
<1>3. \A x \in entries : receipt'[x] # "commit_verified"
  BY <1>1 DEF BInv, Unverified, IInv, TypeOK, CoordinatorTypeOK
<1> QED
  BY <1>1, <1>2, <1>3, QuietKeeps

\* A step of a caller alone keeps the bounds.
LEMMA BUnchanged ==
    ASSUME BInv, UNCHANGED coordinatorVars
    PROVE  OrdersKept' /\ MemoryIsBounded' /\ Unverified'
<1>1. /\ UNCHANGED <<entries, stagedBefore, tombstones, closedBefore>>
      /\ Recoverable' = Recoverable
      /\ receipt' = receipt
  BY DEF coordinatorVars, Recoverable
<1> QED
  BY <1>1, QuietKeeps DEF BInv, Unverified

\* The end of a commit keeps the bounds, after its prune.
LEMMA BFinish ==
    ASSUME BInv, NEW c \in Callers, NEW outcome \in Outcomes,
           FinishCommit(c, outcome)
    PROVE  OrdersKept' /\ MemoryIsBounded' /\ Unverified'
<1>1. /\ CloseEffect(FinishClosed(job[c], outcome),
                    ReceiptsWith(job[c], outcome))
      /\ OrdersKept' /\ MemoryIsBounded'
  BY FinishEffect
<1>2. outcome = "commit_verified" => FinishClosed(job[c], outcome) = {job[c]}
  BY DEF FinishClosed
<1>3. Unverified'
  BY <1>1, <1>2 DEF CloseEffect, ReceiptsWith, BInv, Unverified, IInv,
                    WellFormed, TypeOK, CoordinatorTypeOK
<1> QED
  BY <1>1, <1>3

\* Copying and dismissing keep the bounds.
LEMMA BDismiss ==
    ASSUME BInv, NEW c \in Callers, DismissCopied(c)
    PROVE  OrdersKept' /\ MemoryIsBounded' /\ Unverified'
<1>1. CASE UNCHANGED coordinatorVars
  BY <1>1, BUnchanged
<1>2. CASE ~UNCHANGED coordinatorVars
  <2>1. /\ job[c] \in entries \ inFlight
        /\ Close({job[c]}, terminal, inFlight, receipt)
    BY <1>2 DEF DismissCopied, Acknowledge
  <2>2. CloseEffect({job[c]}, receipt) /\ OrdersKept' /\ MemoryIsBounded'
    BY <2>1, DismissEffect
  <2>3. Unverified'
    BY <2>2 DEF CloseEffect, BInv, Unverified, IInv, WellFormed, TypeOK,
                CoordinatorTypeOK
  <2> QED
    BY <2>2, <2>3
<1> QED
  BY <1>1, <1>2

\* Every step keeps BInv: one case per action.
LEMMA NextKeepsBounds == BInv /\ [Next]_vars => BInv'
<1> SUFFICES ASSUME BInv, [Next]_vars PROVE BInv'
  OBVIOUS
<1>1. IInv'
  BY NextKeeps DEF BInv
<1>2. OrdersKept' /\ MemoryIsBounded' /\ Unverified'
  <2>1. CASE UNCHANGED vars
    <3>1. UNCHANGED coordinatorVars
      BY <2>1 DEF vars, coordinatorVars
    <3> QED
      BY <3>1, BUnchanged
  <2>2. CASE Next
    <3> PICK c \in Callers :
          \/ \E id \in Ids :
              \/ StageText(c, id)
              \/ \E reason \in Refusals : CommitRefused(c, id, reason)
              \/ CommitAccepted(c, id)
              \/ CopyLatest(c, id)
          \/ PasteText(c)
          \/ \E outcome \in Outcomes : FinishCommit(c, outcome)
          \/ DismissCopied(c)
      BY <2>2 DEF Next
    <3>1. CASE \/ PasteText(c) \/ \E id \in Ids : CopyLatest(c, id)
      BY <3>1, BUnchanged DEF PasteText, CopyLatest
    <3> QED
      BY <3>1, BStage, BRefuse, BAccept, BFinish, BDismiss
  <2> QED
    BY <2>1, <2>2
<1> QED
  BY <1>1, <1>2 DEF BInv

\* The strengthened invariant with the orders of both dictionaries holds
\* in every state the coordinator and its callers can reach.
THEOREM BoundsInvariant == Spec => []BInv
<1> QED
  BY InitBInv, NextKeepsBounds, PTL DEF Spec

\* The Voice Outbox and the tombstones stay within max_recoverable and
\* max_tombstones at every instant.
THEOREM BoundedMemory == Spec => []MemoryIsBounded
<1>1. BInv => MemoryIsBounded
  BY DEF BInv
<1> QED
  BY <1>1, BoundsInvariant, PTL


-----------------------------------------------------------------------------
(***************************************************************************)
(* What a step of the coordinator may never do, and that every step is one *)
(* InsertionContract allows.  Both follow from BInv: because at most one   *)
(* entry closes per step and a freshly closed entry is remembered, no id   *)
(* passes through two phases at once.                                      *)
(***************************************************************************)

\* A step of one of the callers, in the form the proofs below split on.
LEMMA NextCases ==
    ASSUME Next
    PROVE  \E c \in Callers :
            \/ \E id \in Ids : StageText(c, id)
            \/ \E id \in Ids, reason \in Refusals : CommitRefused(c, id, reason)
            \/ \E id \in Ids : CommitAccepted(c, id)
            \/ \E id \in Ids : CopyLatest(c, id)
            \/ PasteText(c)
            \/ \E outcome \in Outcomes : FinishCommit(c, outcome)
            \/ DismissCopied(c)
BY DEF Next

-----------------------------------------------------------------------------
(* Action properties.                                                      *)

OldestFirstStep ==
    \A id \in Recoverable \ Recoverable' :
        \/ \E c \in Callers : pc[c] = "copied" /\ job[c] = id /\ pc'[c] = "idle"
        \/ /\ Cardinality(Recoverable') = MaxRecoverable
           /\ \A other \in Recoverable' : <<id, other>> \in stagedBefore

\* Every step lets only dismissed or oldest texts leave the outbox.
LEMMA StepsOldestFirst == BInv /\ [Next]_vars => OldestFirstStep
<1> SUFFICES ASSUME BInv, [Next]_vars PROVE OldestFirstStep
  OBVIOUS
<1>1. CASE Recoverable' = Recoverable
  BY <1>1 DEF OldestFirstStep
<1>2. CASE UNCHANGED vars
  BY <1>1, <1>2 DEF vars, Recoverable
<1>3. CASE Next
  <2> PICK c \in Callers :
            \/ \E id \in Ids : StageText(c, id)
            \/ \E id \in Ids, reason \in Refusals : CommitRefused(c, id, reason)
            \/ \E id \in Ids : CommitAccepted(c, id)
            \/ \E id \in Ids : CopyLatest(c, id)
            \/ PasteText(c)
            \/ \E outcome \in Outcomes : FinishCommit(c, outcome)
            \/ DismissCopied(c)
    BY <1>3, NextCases
  <2>1. CASE \E id \in Ids : StageText(c, id)
    <3>1. Recoverable' = Recoverable
      BY <2>1 DEF StageText, Stage, Known, Recoverable, BInv, IInv, WellFormed
    <3> QED
      BY <1>1, <3>1
  <2>2. CASE \E id \in Ids, reason \in Refusals : CommitRefused(c, id, reason)
    BY <2>2, RefusalEffect DEF CommitRefused, OldestFirstStep
  <2>3. CASE \E id \in Ids : CommitAccepted(c, id)
    <3>1. Recoverable' = Recoverable
      BY <2>3 DEF CommitAccepted, BeginCommit, Committable, Recoverable
    <3> QED
      BY <1>1, <3>1
  <2>4. CASE PasteText(c) \/ \E id \in Ids : CopyLatest(c, id)
    <3>1. Recoverable' = Recoverable
      BY <2>4 DEF PasteText, CopyLatest, coordinatorVars, Recoverable
    <3> QED
      BY <1>1, <3>1
  <2>5. CASE \E outcome \in Outcomes : FinishCommit(c, outcome)
    BY <2>5, FinishEffect DEF OldestFirstStep
  <2>6. CASE DismissCopied(c)
    <3>1. pc[c] = "copied" /\ pc'[c] = "idle"
      BY <2>6 DEF DismissCopied, Returns, Starts, BInv, IInv, TypeOK
    <3>2. Recoverable' = Recoverable \/ Recoverable' = Recoverable \ {job[c]}
      <4>1. CASE UNCHANGED coordinatorVars
        BY <4>1 DEF coordinatorVars, Recoverable
      <4>2. CASE ~UNCHANGED coordinatorVars
        BY <2>6, <4>2, DismissEffect DEF DismissCopied, Acknowledge
      <4> QED
        BY <4>1, <4>2
    <3> QED
      BY <3>1, <3>2 DEF OldestFirstStep
  <2> QED
    BY <2>1, <2>2, <2>3, <2>4, <2>5, <2>6
<1> QED
  BY <1>2, <1>3

\* A text leaves the Voice Outbox only because its copy was dismissed, or as
\* the oldest of an outbox that overflowed.
THEOREM OutboxLosesOldest == Spec => LeavesOutboxOldestFirst
<1>1. BInv /\ [Next]_vars =>
        [\A id \in Recoverable \ Recoverable' :
            \/ \E c \in Callers :
                 pc[c] = "copied" /\ job[c] = id /\ pc'[c] = "idle"
            \/ /\ Cardinality(Recoverable') = MaxRecoverable
               /\ \A other \in Recoverable' : <<id, other>> \in stagedBefore]_vars
  BY StepsOldestFirst DEF OldestFirstStep
<1> QED
  BY <1>1, BoundsInvariant, PTL DEF Spec, LeavesOutboxOldestFirst

\* Closing entries leaves the receipt of every older tombstone alone.
LEMMA SettledReceiptKept ==
    ASSUME BInv, NEW closed, NEW receipts, CloseEffect(closed, receipts),
           \A x \in Ids \ entries : receipts[x] = receipt[x],
           NEW id \in tombstones, id \in tombstones'
    PROVE  receipt'[id] = receipt[id] /\ id \notin entries'
BY DEF CloseEffect, BInv, IInv, WellFormed, TypeOK, CoordinatorTypeOK

FinalStep ==
    \A id \in tombstones :
        receipt[id] = "commit_verified" /\ id \in tombstones' =>
            receipt'[id] = "commit_verified" /\ id \notin entries'

\* Every step keeps verified receipts verified and out of the outbox.
LEMMA StepsFinal == BInv /\ [Next]_vars => FinalStep
<1> SUFFICES ASSUME BInv, [Next]_vars,
                    NEW id \in tombstones, id \in tombstones'
             PROVE  receipt'[id] = receipt[id] /\ id \notin entries'
  BY DEF FinalStep
<1>1. id \notin entries /\ id \in Ids
  BY DEF BInv, IInv, WellFormed, TypeOK, CoordinatorTypeOK
<1>2. CASE UNCHANGED coordinatorVars
  BY <1>1, <1>2 DEF coordinatorVars
<1>3. CASE UNCHANGED vars
  BY <1>2, <1>3 DEF vars, coordinatorVars
<1>4. CASE Next
  <2> PICK c \in Callers :
            \/ \E new \in Ids : StageText(c, new)
            \/ \E x \in Ids, reason \in Refusals : CommitRefused(c, x, reason)
            \/ \E x \in Ids : CommitAccepted(c, x)
            \/ \E x \in Ids : CopyLatest(c, x)
            \/ PasteText(c)
            \/ \E outcome \in Outcomes : FinishCommit(c, outcome)
            \/ DismissCopied(c)
    BY <1>4, NextCases
  <2>1. CASE \E new \in Ids : StageText(c, new)
    BY <1>1, <2>1 DEF StageText, Stage, Known, BInv, IInv, TypeOK,
                      CoordinatorTypeOK
  <2>2. ASSUME NEW x \in Ids, NEW reason \in Refusals,
               CommitRefused(c, x, reason)
        PROVE  receipt'[id] = receipt[id] /\ id \notin entries'
    <3>1. /\ CloseEffect(RefusalClosed(x), ReceiptsWith(x, reason))
          /\ x \in entries
      BY <2>2, RefusalEffect DEF CommitRefused, RefuseCommit, Committable
    <3>2. \A y \in Ids \ entries : ReceiptsWith(x, reason)[y] = receipt[y]
      BY <3>1 DEF ReceiptsWith, BInv, IInv, TypeOK, CoordinatorTypeOK
    <3> QED
      BY <3>1, <3>2, SettledReceiptKept
  <2>3. CASE \E x \in Ids : CommitAccepted(c, x)
    BY <1>1, <2>3 DEF CommitAccepted, BeginCommit, Committable, BInv, IInv,
                      TypeOK, CoordinatorTypeOK
  <2>4. CASE PasteText(c) \/ \E x \in Ids : CopyLatest(c, x)
    BY <1>2, <2>4 DEF PasteText, CopyLatest
  <2>5. ASSUME NEW outcome \in Outcomes, FinishCommit(c, outcome)
        PROVE  receipt'[id] = receipt[id] /\ id \notin entries'
    <3>1. /\ CloseEffect(FinishClosed(job[c], outcome),
                        ReceiptsWith(job[c], outcome))
          /\ job[c] \in entries
      BY <2>5, FinishEffect, FinishCloses DEF BInv
    <3>2. \A y \in Ids \ entries :
            ReceiptsWith(job[c], outcome)[y] = receipt[y]
      BY <3>1 DEF ReceiptsWith, BInv, IInv, TypeOK, CoordinatorTypeOK
    <3> QED
      BY <3>1, <3>2, SettledReceiptKept
  <2>6. ASSUME DismissCopied(c), ~UNCHANGED coordinatorVars
        PROVE  receipt'[id] = receipt[id] /\ id \notin entries'
    <3>1. CloseEffect({job[c]}, receipt)
      BY <2>6, DismissEffect DEF DismissCopied, Acknowledge
    <3> QED
      BY <3>1, SettledReceiptKept
  <2> QED
    BY <1>2, <2>1, <2>2, <2>3, <2>4, <2>5, <2>6
<1> QED
  BY <1>3, <1>4

\* A verified receipt stays verified, and its text stays out of the outbox,
\* for as long as its tombstone is remembered.
THEOREM VerifiedStays == Spec => VerifiedIsFinal
<1>1. BInv /\ [Next]_vars =>
        [\A id \in tombstones :
            receipt[id] = "commit_verified" /\ id \in tombstones' =>
                receipt'[id] = "commit_verified" /\ id \notin entries']_vars
  BY StepsFinal DEF FinalStep
<1> QED
  BY <1>1, BoundsInvariant, PTL DEF Spec, VerifiedIsFinal

-----------------------------------------------------------------------------
(* Refinement of InsertionContract.                                        *)

\* The phase of an id, one fact per arm.
PhaseFacts(id) ==
    /\ id \in entries \ terminal => Phase(id) = "staged"
    /\ id \in inFlight => Phase(id) = "pasting"
    /\ id \in (entries \cap terminal) \ inFlight => Phase(id) = "kept"
    /\ id \in tombstones =>
         Phase(id) = IF receipt[id] = "commit_verified" THEN "proven" ELSE "closed"
    /\ id \notin entries \cup tombstones => Phase(id) = "unknown"

\* The phase of an id read off the coordinator's state.
LEMMA PhaseArms == WellFormed => \A id \in Ids : PhaseFacts(id)
<1> SUFFICES ASSUME WellFormed, NEW id \in Ids PROVE PhaseFacts(id)
  OBVIOUS
<1>1. id \in entries \ terminal => Phase(id) = "staged"
  BY DEF Phase, WellFormed
<1>2. id \in inFlight => Phase(id) = "pasting"
  BY DEF Phase, WellFormed
<1>3. id \in (entries \cap terminal) \ inFlight => Phase(id) = "kept"
  BY DEF Phase, WellFormed
<1>4. id \in tombstones =>
         Phase(id) = IF receipt[id] = "commit_verified" THEN "proven" ELSE "closed"
  BY DEF Phase, WellFormed
<1>5. id \notin entries \cup tombstones => Phase(id) = "unknown"
  BY DEF Phase, WellFormed
<1> QED
  BY <1>1, <1>2, <1>3, <1>4, <1>5 DEF PhaseFacts

\* The same in the next state.
LEMMA PhaseArmsNext == WellFormed' => \A id \in Ids : PhaseFacts(id)'
<1> SUFFICES ASSUME WellFormed', NEW id \in Ids PROVE PhaseFacts(id)'
  OBVIOUS
<1>1. (id \in entries \ terminal => Phase(id) = "staged")'
  BY DEF Phase, WellFormed
<1>2. (id \in inFlight => Phase(id) = "pasting")'
  BY DEF Phase, WellFormed
<1>3. (id \in (entries \cap terminal) \ inFlight => Phase(id) = "kept")'
  BY DEF Phase, WellFormed
<1>4. (id \in tombstones =>
         Phase(id) = IF receipt[id] = "commit_verified" THEN "proven" ELSE "closed")'
  BY DEF Phase, WellFormed
<1>5. (id \notin entries \cup tombstones => Phase(id) = "unknown")'
  BY DEF Phase, WellFormed
<1> QED
  BY <1>1, <1>2, <1>3, <1>4, <1>5 DEF PhaseFacts

\* What InsertionContract allows one id to do in one step.
Moved(id) ==
    /\ Phase(id)' = Phase(id) \/ <<Phase(id), Phase(id)'>> \in Contract!Moves
    /\ attempts'[id] = IF Phase(id) = "unknown" /\ Phase(id)' = "staged"
                       THEN 0 ELSE attempts[id]

\* Phases that each stay or take an allowed move are a step of the contract.
LEMMA MovesAdvance ==
    ASSUME \A id \in Ids : Moved(id)
    PROVE  Contract!Advance
BY DEF Moved, Contract!Advance

\* An id that was not an entry when others were closed.
LEMMA CloseMovesOthers ==
    ASSUME BInv, WellFormed', NEW closed, NEW receipts,
           CloseEffect(closed, receipts),
           \A x \in Ids \ entries : receipts[x] = receipt[x],
           UNCHANGED attempts, NEW id \in Ids \ entries
    PROVE  Moved(id)
<1>1. PhaseFacts(id) /\ PhaseFacts(id)'
  BY PhaseArms, PhaseArmsNext DEF BInv, IInv
<1>2. id \notin entries' /\ id \notin closed
  BY DEF CloseEffect
<1>3. CASE id \in tombstones /\ id \in tombstones'
  <2>1. receipt'[id] = receipt[id]
    BY <1>3, SettledReceiptKept
  <2> QED
    BY <1>1, <1>3, <2>1 DEF PhaseFacts, Moved
<1>4. CASE id \in tombstones /\ id \notin tombstones'
  <2>1. /\ Phase(id) \in {"proven", "closed"}
        /\ Phase(id)' = "unknown"
    BY <1>1, <1>2, <1>4 DEF PhaseFacts
  <2> QED
    BY <2>1 DEF Moved, Contract!Moves
<1>5. CASE id \notin tombstones
  <2>1. id \notin tombstones'
    BY <1>2, <1>5 DEF CloseEffect
  <2>2. Phase(id) = "unknown" /\ Phase(id)' = "unknown"
    BY <1>1, <1>2, <1>5, <2>1 DEF PhaseFacts
  <2> QED
    BY <2>2 DEF Moved
<1> QED
  BY <1>3, <1>4, <1>5

\* A closed entry becomes proven or closed, by the receipt it leaves with.
LEMMA ClosedPhase ==
    ASSUME BInv, WellFormed', NEW closed, NEW receipts,
           CloseEffect(closed, receipts), NEW id \in closed
    PROVE  Phase(id)' = IF receipts[id] = "commit_verified"
                        THEN "proven" ELSE "closed"
<1>1. id \in Ids /\ id \in tombstones' /\ receipt'[id] = receipts[id]
  BY DEF CloseEffect, BInv, IInv, TypeOK, CoordinatorTypeOK
<1>2. PhaseFacts(id)'
  BY <1>1, PhaseArmsNext
<1> QED
  BY <1>1, <1>2 DEF PhaseFacts

\* Staging moves one unknown id to staged.
LEMMA StageMoves ==
    ASSUME BInv, WellFormed', NEW c \in Callers, NEW new \in Ids,
           StageText(c, new), NEW id \in Ids
    PROVE  Moved(id)
<1>1. /\ new \notin entries /\ new \notin tombstones
      /\ entries' = entries \cup {new}
      /\ receipt' = [receipt EXCEPT ![new] = "pending"]
      /\ attempts' = [attempts EXCEPT ![new] = 0]
      /\ UNCHANGED <<terminal, inFlight, tombstones>>
  BY DEF StageText, Stage, Known
<1>2. PhaseFacts(id) /\ PhaseFacts(id)'
  BY PhaseArms, PhaseArmsNext DEF BInv, IInv
<1>3. CASE id = new
  <2>1. Phase(id) = "unknown" /\ Phase(id)' = "staged"
    BY <1>1, <1>2, <1>3 DEF PhaseFacts, BInv, IInv, WellFormed
  <2> QED
    BY <1>1, <1>3, <2>1 DEF Moved, Contract!Moves, BInv, IInv, TypeOK
<1>4. CASE id # new
  <2>1. Phase(id)' = Phase(id)
    BY <1>1, <1>4 DEF Phase, BInv, IInv, TypeOK, CoordinatorTypeOK
  <2>2. attempts'[id] = attempts[id]
    BY <1>1, <1>4 DEF BInv, IInv, TypeOK
  <2>3. ~(Phase(id) = "unknown" /\ Phase(id)' = "staged")
    BY <2>1
  <2> QED
    BY <2>1, <2>2, <2>3 DEF Moved
<1> QED
  BY <1>3, <1>4

\* A refused commit keeps its text, and closes what expires.
LEMMA RefuseMoves ==
    ASSUME BInv, WellFormed', NEW c \in Callers, NEW x \in Ids,
           NEW reason \in Refusals, CommitRefused(c, x, reason), NEW id \in Ids
    PROVE  Moved(id)
<1> DEFINE closed == RefusalClosed(x)
           receipts == ReceiptsWith(x, reason)
<1>1. RefuseCommit(x, reason) /\ UNCHANGED attempts
  BY DEF CommitRefused
<1>2. /\ x \in entries \ terminal
      /\ closed \subseteq Recoverable \cup {x}
      /\ entries' = entries \ closed
      /\ terminal' = (terminal \cup {x}) \ closed
      /\ inFlight' = inFlight
      /\ CloseEffect(closed, receipts)
  BY <1>1, RefusalCloses, RefusalEffect DEF BInv
<1>3. /\ \A y \in Ids \ entries : receipts[y] = receipt[y]
      /\ \A y \in entries : receipts[y] # "commit_verified"
  BY <1>2 DEF ReceiptsWith, Refusals, BInv, Unverified, IInv, TypeOK,
              CoordinatorTypeOK
<1> HIDE DEF closed, receipts
<1>4. PhaseFacts(id) /\ PhaseFacts(id)'
  BY PhaseArms, PhaseArmsNext DEF BInv, IInv
<1>5. CASE id \notin entries
  BY <1>1, <1>2, <1>3, <1>5, CloseMovesOthers
<1>6. CASE id \in closed
  <2>1. id \in entries /\ id \notin inFlight
    BY <1>2, <1>6 DEF Recoverable, BInv, IInv, WellFormed
  <2>2. Phase(id) \in {"staged", "kept"}
    BY <1>4, <2>1 DEF PhaseFacts, BInv, IInv, WellFormed
  <2>3. Phase(id)' = "closed"
    BY <1>2, <1>3, <1>6, <2>1, ClosedPhase
  <2> QED
    BY <1>1, <2>2, <2>3 DEF Moved, Contract!Moves
<1>7. CASE id \in entries \ closed
  <2>1. CASE id = x
    <3>1. id \in (entries' \cap terminal') \ inFlight'
      BY <1>2, <1>7, <2>1 DEF BInv, IInv, WellFormed
    <3>2. Phase(id) = "staged" /\ Phase(id)' = "kept"
      BY <1>2, <1>4, <2>1, <3>1 DEF PhaseFacts
    <3> QED
      BY <1>1, <3>2 DEF Moved, Contract!Moves
  <2>2. CASE id # x
    <3>1. id \in entries' /\ (id \in terminal' <=> id \in terminal)
      BY <1>2, <1>7, <2>2
    <3>2. Phase(id)' = Phase(id) /\ Phase(id) # "unknown"
      BY <1>2, <1>4, <1>7, <3>1 DEF PhaseFacts, BInv, IInv, WellFormed
    <3> QED
      BY <1>1, <3>2 DEF Moved
  <2> QED
    BY <2>1, <2>2
<1> QED
  BY <1>5, <1>6, <1>7

\* An accepted commit moves its id to pasting.
LEMMA AcceptMoves ==
    ASSUME BInv, WellFormed', NEW c \in Callers, NEW x \in Ids,
           CommitAccepted(c, x), NEW id \in Ids
    PROVE  Moved(id)
<1>1. /\ x \in entries /\ x \notin terminal
      /\ terminal' = terminal \cup {x}
      /\ inFlight' = inFlight \cup {x}
      /\ receipt' = [receipt EXCEPT ![x] = "paste_outcome_unknown"]
      /\ UNCHANGED <<entries, tombstones, attempts>>
  BY DEF CommitAccepted, BeginCommit, Committable
<1>2. PhaseFacts(id) /\ PhaseFacts(id)'
  BY PhaseArms, PhaseArmsNext DEF BInv, IInv
<1>3. CASE id = x
  <2>1. Phase(id) = "staged" /\ Phase(id)' = "pasting"
    BY <1>1, <1>2, <1>3 DEF PhaseFacts
  <2> QED
    BY <1>1, <2>1 DEF Moved, Contract!Moves
<1>4. CASE id # x
  <2>1. Phase(id)' = Phase(id)
    BY <1>1, <1>4 DEF Phase, BInv, IInv, TypeOK, CoordinatorTypeOK
  <2> QED
    BY <1>1, <2>1 DEF Moved
<1> QED
  BY <1>3, <1>4

\* The end of a commit proves its text or keeps it, and closes what expires.
LEMMA FinishMoves ==
    ASSUME BInv, WellFormed', NEW c \in Callers, NEW outcome \in Outcomes,
           FinishCommit(c, outcome), NEW id \in Ids
    PROVE  Moved(id)
<1> DEFINE x == job[c]
           closed == FinishClosed(x, outcome)
           receipts == ReceiptsWith(x, outcome)
<1>1. UNCHANGED attempts
  BY DEF FinishCommit
<1>2. /\ x \in entries \cap terminal
      /\ x \in inFlight
      /\ closed \subseteq Recoverable \cup {x}
      /\ entries' = entries \ closed
      /\ terminal' = terminal \ closed
      /\ inFlight' = inFlight \ {x}
      /\ CloseEffect(closed, receipts)
  BY FinishCloses, FinishEffect DEF BInv
<1>3. /\ \A y \in Ids \ entries : receipts[y] = receipt[y]
      /\ \A y \in entries \ {x} : receipts[y] # "commit_verified"
  BY <1>2 DEF ReceiptsWith, BInv, Unverified, IInv, TypeOK, CoordinatorTypeOK
<1> HIDE DEF closed, receipts, x
<1>4. PhaseFacts(id) /\ PhaseFacts(id)'
  BY PhaseArms, PhaseArmsNext DEF BInv, IInv
<1>5. CASE id \notin entries
  BY <1>1, <1>2, <1>3, <1>5, CloseMovesOthers
<1>6. CASE id = x
  <2>1. Phase(id) = "pasting"
    BY <1>2, <1>4, <1>6 DEF PhaseFacts
  <2>2. CASE id \in closed
    <3>1. Phase(id)' \in {"proven", "closed"}
      BY <1>2, <2>2, ClosedPhase
    <3> QED
      BY <1>1, <2>1, <3>1 DEF Moved, Contract!Moves
  <2>3. CASE id \notin closed
    <3>1. Phase(id)' = "kept"
      BY <1>2, <1>4, <1>6, <2>3 DEF PhaseFacts
    <3> QED
      BY <1>1, <2>1, <3>1 DEF Moved, Contract!Moves
  <2> QED
    BY <2>2, <2>3
<1>7. CASE id \in closed /\ id # x
  <2>1. id \in Recoverable
    BY <1>2, <1>7
  <2>2. Phase(id) = "kept"
    BY <1>4, <2>1 DEF PhaseFacts, Recoverable
  <2>3. Phase(id)' = "closed"
    BY <1>2, <1>3, <1>7, <2>1, ClosedPhase DEF Recoverable
  <2> QED
    BY <1>1, <2>2, <2>3 DEF Moved, Contract!Moves
<1>8. CASE id \in entries \ closed /\ id # x
  <2>1. /\ id \in entries'
        /\ id \in terminal' <=> id \in terminal
        /\ id \in inFlight' <=> id \in inFlight
    BY <1>2, <1>8
  <2>2. Phase(id)' = Phase(id) /\ Phase(id) # "unknown"
    BY <1>4, <1>8, <2>1 DEF PhaseFacts, BInv, IInv, WellFormed
  <2> QED
    BY <1>1, <2>2 DEF Moved
<1> QED
  BY <1>5, <1>6, <1>7, <1>8

\* A dismissal closes its text.
LEMMA DismissMoves ==
    ASSUME BInv, WellFormed', NEW c \in Callers, DismissCopied(c),
           ~UNCHANGED coordinatorVars, NEW id \in Ids
    PROVE  Moved(id)
<1> DEFINE x == job[c]
<1>1. UNCHANGED attempts
  BY DEF DismissCopied
<1>2. /\ x \in entries \ inFlight
      /\ Close({x}, terminal, inFlight, receipt)
  BY DEF DismissCopied, Acknowledge
<1>3. /\ CloseEffect({x}, receipt)
      /\ entries' = entries \ {x}
      /\ terminal' = terminal \ {x}
      /\ inFlight' = inFlight
  BY <1>2, DismissEffect DEF CloseEffect
<1> HIDE DEF x
<1>4. PhaseFacts(id) /\ PhaseFacts(id)'
  BY PhaseArms, PhaseArmsNext DEF BInv, IInv
<1>5. CASE id \notin entries
  BY <1>1, <1>3, <1>5, CloseMovesOthers
<1>6. CASE id = x
  <2>1. Phase(id) \in {"staged", "kept"}
    BY <1>2, <1>4, <1>6 DEF PhaseFacts
  <2>2. Phase(id)' = "closed"
    BY <1>2, <1>3, <1>6, ClosedPhase DEF BInv, Unverified
  <2> QED
    BY <1>1, <2>1, <2>2 DEF Moved, Contract!Moves
<1>7. CASE id \in entries /\ id # x
  <2>1. id \in entries' /\ (id \in terminal' <=> id \in terminal)
    BY <1>3, <1>7
  <2>2. Phase(id)' = Phase(id) /\ Phase(id) # "unknown"
    BY <1>3, <1>4, <1>7, <2>1 DEF PhaseFacts, BInv, IInv, WellFormed
  <2> QED
    BY <1>1, <2>2 DEF Moved
<1> QED
  BY <1>5, <1>6, <1>7

\* A step that leaves every phase and every count alone.
LEMMA StillMoves ==
    ASSUME UNCHANGED coordinatorVars, UNCHANGED attempts, NEW id \in Ids
    PROVE  Moved(id)
<1>1. Phase(id)' = Phase(id)
  BY DEF coordinatorVars, Phase
<1> QED
  BY <1>1 DEF Moved

\* A paste is the contract's single paste of an attempt.
LEMMA PasteIsOnce ==
    ASSUME BInv, NEW c \in Callers, PasteText(c)
    PROVE  Contract!PasteOnce(job[c])
<1>1. /\ job[c] \in Ids
      /\ job[c] \in inFlight
      /\ attempts[job[c]] = 0
      /\ attempts \in [Ids -> Nat]
  BY DEF PasteText, BInv, IInv, Jobs, Fresh, Owned, Busy, TypeOK
<1>2. attempts' = [attempts EXCEPT ![job[c]] = 1]
  BY <1>1 DEF PasteText
<1>3. Phase(job[c]) = "pasting"
  BY <1>1, PhaseArms DEF PhaseFacts, BInv, IInv
<1>4. UNCHANGED [x \in Ids |-> Phase(x)]
  BY DEF PasteText, coordinatorVars, Phase
<1> QED
  BY <1>1, <1>2, <1>3, <1>4 DEF Contract!PasteOnce

\* Every step is a step of the contract or changes nothing of it.
LEMMA StepsRefine == BInv /\ BInv' /\ [Next]_vars => [Contract!ContractNext]_Contract!contractVars
<1> SUFFICES ASSUME BInv, BInv', [Next]_vars
             PROVE  Contract!ContractNext
  OBVIOUS
<1>1. WellFormed'
  BY DEF BInv, IInv
<1>2. CASE \A id \in Ids : Moved(id)
  BY <1>2, MovesAdvance DEF Contract!ContractNext
<1>3. CASE UNCHANGED vars
  <2>1. UNCHANGED coordinatorVars /\ UNCHANGED attempts
    BY <1>3 DEF vars, coordinatorVars
  <2> QED
    BY <1>2, <2>1, StillMoves
<1>4. CASE Next
  <2> PICK c \in Callers :
            \/ \E id \in Ids : StageText(c, id)
            \/ \E id \in Ids, reason \in Refusals : CommitRefused(c, id, reason)
            \/ \E id \in Ids : CommitAccepted(c, id)
            \/ \E id \in Ids : CopyLatest(c, id)
            \/ PasteText(c)
            \/ \E outcome \in Outcomes : FinishCommit(c, outcome)
            \/ DismissCopied(c)
    BY <1>4, NextCases
  <2>1. CASE \E id \in Ids : StageText(c, id)
    BY <1>1, <1>2, <2>1, StageMoves
  <2>2. CASE \E id \in Ids, reason \in Refusals : CommitRefused(c, id, reason)
    BY <1>1, <1>2, <2>2, RefuseMoves
  <2>3. CASE \E id \in Ids : CommitAccepted(c, id)
    BY <1>1, <1>2, <2>3, AcceptMoves
  <2>4. CASE \E id \in Ids : CopyLatest(c, id)
    BY <1>2, <2>4, StillMoves DEF CopyLatest
  <2>5. CASE PasteText(c)
    <3>1. job[c] \in Ids
      BY <2>5 DEF PasteText, BInv, IInv, Jobs
    <3> QED
      BY <2>5, <3>1, PasteIsOnce DEF Contract!ContractNext
  <2>6. CASE \E outcome \in Outcomes : FinishCommit(c, outcome)
    BY <1>1, <1>2, <2>6, FinishMoves
  <2>7. CASE DismissCopied(c)
    <3>1. CASE UNCHANGED coordinatorVars
      BY <1>2, <2>7, <3>1, StillMoves DEF DismissCopied
    <3>2. CASE ~UNCHANGED coordinatorVars
      BY <1>1, <1>2, <2>7, <3>2, DismissMoves
    <3> QED
      BY <3>1, <3>2
  <2> QED
    BY <2>1, <2>2, <2>3, <2>4, <2>5, <2>6, <2>7
<1> QED
  BY <1>3, <1>4

\* The empty coordinator satisfies the contract's initial condition.
LEMMA InitRefines == Init => Contract!ContractInit
<1> SUFFICES ASSUME Init PROVE Contract!ContractInit
  OBVIOUS
<1>1. WellFormed /\ entries = {} /\ tombstones = {}
  BY InitIInv DEF IInv, Init, CoordinatorInit
<1>2. \A id \in Ids : Phase(id) = "unknown"
  BY <1>1, PhaseArms DEF PhaseFacts
<1> QED
  BY <1>2 DEF Init, Contract!ContractInit

\* The locks, bounds and threads implement ADR 0003's insertion contract.
THEOREM ContractRefined == Spec => ImplementsContract
<1> QED
  BY InitRefines, StepsRefine, BoundsInvariant, PTL
     DEF Spec, ImplementsContract, Contract!ContractSpec

=============================================================================
