-------------------------- MODULE VoiceInboxProofs --------------------------
(***************************************************************************)
(* What holds of VoiceInbox for any number of callers, items and objects.  *)
(***************************************************************************)
EXTENDS VoiceInbox, FiniteSetTheorems, TLAPS

Good(inbox) == Loads(inbox) /\ IsFiniteSet(inbox.items)

\* The operations, as relations between what is in memory and what is written.
Adds(b, a) ==
    /\ Cardinality(b.items) < MaxItems
    /\ \E id \in Ids, payload \in Payloads :
        /\ \A x \in b.items : x.id # id
        /\ a.items = b.items \cup {[id |-> id, payload |-> payload,
                                    state |-> "queued", sequence |-> b.next]}
    /\ a.next = b.next + 1

Settles(b, a) ==
    /\ \E x \in b.items, state \in Terminal :
        /\ x.state = "queued"
        /\ a.items = (b.items \ {x}) \cup {[x EXCEPT !.state = state]}
    /\ a.next = b.next

Purges(b, a) ==
    /\ a.items = {x \in b.items : x.state = "queued"}
    /\ a.next = b.next

OneOperation(b, a) == Adds(b, a) \/ Settles(b, a) \/ Purges(b, a)

\* An object in use is the newest one or an older one; it has one writer.
UseInv ==
    /\ current \in {0, opened}
    /\ \A c \in Callers : step[c] = "idle" => object[c] = 0
    /\ \A c, d \in Callers :
        Writing(c) /\ Writing(d) /\ object[c] = object[d] => c = d

\* Whatever is on disk, in memory or about to be written can be loaded.
LoadsInv ==
    /\ Good(file)
    /\ \A o \in 1..opened : Good(memory[o])
    /\ \A c \in Callers : Writing(c) => Good(proposed[c])

InUse == current # 0 \/ \E c \in Callers : step[c] # "idle"

\* With one owner, the object in use is the newest and holds what is on disk,
\* except between a replace and the commit that follows it.
OwnerInv ==
    ~overlapped =>
        /\ \A c \in Callers : step[c] # "idle" => object[c] = opened
        /\ InUse /\ (\A c \in Callers : step[c] # "replaced")
            => memory[opened] = file
        /\ \A c \in Callers :
            step[c] = "writing" => OneOperation(memory[opened], proposed[c])
        /\ \A c \in Callers : step[c] = "replaced" => file = proposed[c]

\* What callers were told agrees with the file, and its numbers are used up.
HistoryInv ==
    /\ AnsweredIsDurable
    /\ NumberNamesOneItem
    /\ ~overlapped => \A r \in receipts :
        /\ r.sequence < file.next
        /\ \A x \in file.items :
            r.sequence = x.sequence => r.id = x.id /\ r.payload = x.payload

IInv == TypeOK /\ UseInv /\ LoadsInv /\ OwnerInv /\ HistoryInv

-----------------------------------------------------------------------------
(* The operations.                                                         *)

\* An operation makes an inbox that can be loaded of one that can.
LEMMA OperationLoads ==
    ASSUME NEW b \in Inboxes, NEW a, Good(b), OneOperation(b, a),
           a = [items |-> a.items, next |-> a.next]
    PROVE  Good(a) /\ a \in Inboxes /\ a.next \in Nat /\ a.next >= b.next
  <1> USE InboxAssumption
  <1>0. b.items \subseteq Items /\ b.next \in Nat /\ IsFiniteSet(b.items)
        /\ Cardinality(b.items) <= MaxItems /\ Cardinality(b.items) \in Nat
    BY FS_CardinalityType DEF Inboxes, Good, Loads
  <1>1. CASE Adds(b, a)
    <2>1. PICK id \in Ids, payload \in Payloads :
            /\ \A x \in b.items : x.id # id
            /\ a.items = b.items \cup {[id |-> id, payload |-> payload,
                                    state |-> "queued", sequence |-> b.next]}
      BY <1>1 DEF Adds
    <2> DEFINE n == [id |-> id, payload |-> payload, state |-> "queued",
                     sequence |-> b.next]
    <2>2. n \in Items /\ n.id = id /\ n.sequence = b.next /\ n \notin b.items
          /\ a.items = b.items \cup {n}
      BY <1>0, <2>1 DEF Items
    <2>3. a.next = b.next + 1 /\ Cardinality(b.items) < MaxItems
      BY <1>1 DEF Adds
    <2>4. IsFiniteSet(a.items) /\ Cardinality(a.items) <= MaxItems
      <3> HIDE DEF n
      <3>1. IsFiniteSet(b.items \cup {n})
            /\ Cardinality(b.items \cup {n}) = Cardinality(b.items) + 1
        BY <1>0, <2>2, FS_AddElement
      <3> QED
        BY <1>0, <2>2, <2>3, <3>1
    <2>5. \A x \in b.items : x.sequence \in 1..(b.next - 1)
      BY DEF Good, Loads
    <2>6. \A x, y \in a.items : x # y => x.id # y.id /\ x.sequence # y.sequence
      <3>1. \A x, y \in b.items :
                x # y => x.id # y.id /\ x.sequence # y.sequence
        BY DEF Good, Loads
      <3>2. \A x \in b.items : x.id # n.id /\ x.sequence # n.sequence
        BY <1>0, <2>1, <2>2, <2>5
      <3> HIDE DEF n
      <3> SUFFICES ASSUME NEW x \in a.items, NEW y \in a.items, x # y
                   PROVE  x.id # y.id /\ x.sequence # y.sequence
        OBVIOUS
      <3>3. CASE x \in b.items /\ y \in b.items
        BY <3>1, <3>3
      <3>4. CASE x = n /\ y \in b.items
        BY <3>2, <3>4
      <3>5. CASE y = n /\ x \in b.items
        BY <3>2, <3>5
      <3> QED
        BY <2>2, <3>3, <3>4, <3>5
    <2>7. \A x \in a.items : x.sequence \in 1..(a.next - 1)
      <3>1. b.next >= 1
        BY DEF Good, Loads
      <3>2. \A x \in b.items : x.sequence \in 1..(a.next - 1)
        BY <1>0, <2>3, <2>5
      <3>3. n.sequence \in 1..(a.next - 1)
        BY <1>0, <2>2, <2>3, <3>1
      <3> HIDE DEF n
      <3> QED
        BY <2>2, <3>2, <3>3
    <2>8. a.items \subseteq Items /\ a.next \in Nat /\ a.next >= b.next
          /\ a.next >= 1
      BY <1>0, <2>1, <2>2, <2>3
    <2> QED
      BY <2>4, <2>6, <2>7, <2>8 DEF Good, Loads, Inboxes
  <1>2. CASE Settles(b, a)
    <2>1. PICK y \in b.items, state \in Terminal :
            /\ y.state = "queued"
            /\ a.items = (b.items \ {y}) \cup {[y EXCEPT !.state = state]}
      BY <1>2 DEF Settles
    <2> DEFINE n == [y EXCEPT !.state = state]
    <2>2. n \in Items /\ n.id = y.id /\ n.sequence = y.sequence
          /\ a.items = (b.items \ {y}) \cup {n}
      BY <1>0, <2>1 DEF Items, Terminal
    <2>3. IsFiniteSet(a.items) /\ Cardinality(a.items) <= MaxItems
      <3>1. IsFiniteSet(b.items \ {y})
            /\ Cardinality(b.items \ {y}) = Cardinality(b.items) - 1
        BY <1>0, <2>1, FS_RemoveElement
      <3>2. IsFiniteSet((b.items \ {y}) \cup {n})
            /\ Cardinality((b.items \ {y}) \cup {n})
                    <= Cardinality(b.items \ {y}) + 1
        <4> DEFINE r == b.items \ {y}
        <4> HIDE DEF n, r
        <4>1. IsFiniteSet(r) /\ Cardinality(r) \in Nat
          BY <3>1, FS_CardinalityType DEF r
        <4>2. CASE n \in r
          <5>1. r \cup {n} = r
            BY <4>2
          <5> QED
            BY <4>1, <5>1 DEF r
        <4>3. CASE n \notin r
          <5>1. IsFiniteSet(r \cup {n})
                /\ Cardinality(r \cup {n}) = Cardinality(r) + 1
            BY <4>1, <4>3, FS_AddElement
          <5> QED
            BY <4>1, <5>1 DEF r
        <4> QED
          BY <4>2, <4>3
      <3>3. Cardinality((b.items \ {y}) \cup {n}) \in Nat
        BY <3>2, FS_CardinalityType
      <3> QED
        BY <1>0, <2>1, <3>1, <3>2, <3>3
    <2>4. \A x, z \in a.items : x # z => x.id # z.id /\ x.sequence # z.sequence
      <3>1. \A x, z \in b.items :
                x # z => x.id # z.id /\ x.sequence # z.sequence
        BY DEF Good, Loads
      <3> HIDE DEF n
      <3>2. \A x \in b.items \ {y} : x.id # n.id /\ x.sequence # n.sequence
        BY <2>1, <2>2, <3>1
      <3> SUFFICES ASSUME NEW x \in a.items, NEW z \in a.items, x # z
                   PROVE  x.id # z.id /\ x.sequence # z.sequence
        OBVIOUS
      <3>3. CASE x \in b.items \ {y} /\ z \in b.items \ {y}
        BY <3>1, <3>3
      <3>4. CASE x = n /\ z \in b.items \ {y}
        BY <3>2, <3>4
      <3>5. CASE z = n /\ x \in b.items \ {y}
        BY <3>2, <3>5
      <3> QED
        BY <2>2, <3>3, <3>4, <3>5
    <2>5. a.next = b.next
      BY <1>2 DEF Settles
    <2>6. \A x \in a.items : x.sequence \in 1..(a.next - 1)
      <3>1. \A x \in b.items : x.sequence \in 1..(b.next - 1)
        BY DEF Good, Loads
      <3> HIDE DEF n
      <3> QED
        BY <2>1, <2>2, <2>5, <3>1
    <2>7. a.items \subseteq Items /\ a.next >= 1
      BY <1>0, <2>1, <2>2, <2>5 DEF Good, Loads
    <2> QED
      BY <1>0, <2>3, <2>4, <2>5, <2>6, <2>7 DEF Good, Loads, Inboxes
  <1>3. CASE Purges(b, a)
    <2>1. a.items \subseteq b.items /\ a.next = b.next
      BY <1>3 DEF Purges
    <2>2. IsFiniteSet(a.items) /\ Cardinality(a.items) <= MaxItems
      <3>1. IsFiniteSet(a.items) /\ Cardinality(a.items) <= Cardinality(b.items)
        BY <1>0, <2>1, FS_Subset
      <3>2. Cardinality(a.items) \in Nat
        BY <3>1, FS_CardinalityType
      <3> QED
        BY <1>0, <3>1, <3>2
    <2> QED
      BY <1>0, <2>1, <2>2 DEF Good, Loads, Inboxes
  <1> QED
    BY <1>1, <1>2, <1>3 DEF OneOperation

\* An operation is one step of the contract.
LEMMA OperationIsContractStep ==
    ASSUME OneOperation(file, file')
    PROVE  Contract!InboxNext
  <1>1. CASE Adds(file, file')
    <2>0. Contract!Cardinality(file.items) = Cardinality(file.items)
      BY DEF Contract!Cardinality, Cardinality
    <2>1. Contract!Add
      BY <1>1, <2>0 DEF Adds, Contract!Add
    <2> QED
      BY <2>1 DEF Contract!InboxNext
  <1>2. CASE Settles(file, file')
    <2>1. Contract!Settle
      BY <1>2 DEF Settles, Contract!Settle, Terminal
    <2> QED
      BY <2>1 DEF Contract!InboxNext
  <1>3. CASE Purges(file, file')
    <2>1. Contract!Purge
      BY <1>3 DEF Purges, Contract!Purge
    <2> QED
      BY <2>1 DEF Contract!InboxNext
  <1> QED
    BY <1>1, <1>2, <1>3 DEF OneOperation

\* After an operation every item is one there was, under the same number and
\* with the same content, or a new one with the next number.
LEMMA OperationKeepsNames ==
    ASSUME NEW b \in Inboxes, NEW a, OneOperation(b, a), NEW x \in a.items
    PROVE  \/ x.sequence = b.next
           \/ \E y \in b.items : /\ x.sequence = y.sequence
                                 /\ x.id = y.id /\ x.payload = y.payload
  <1>1. CASE Adds(b, a)
    BY <1>1 DEF Adds
  <1>2. CASE Settles(b, a)
    <2>1. PICK y \in b.items, state \in Terminal :
            /\ y.state = "queued"
            /\ a.items = (b.items \ {y}) \cup {[y EXCEPT !.state = state]}
      BY <1>2 DEF Settles
    <2>2. CASE x \in b.items
      BY <2>2
    <2>3. CASE x = [y EXCEPT !.state = state]
      <3>1. x.id = y.id /\ x.payload = y.payload /\ x.sequence = y.sequence
        BY <2>3 DEF Inboxes, Items
      <3> QED
        BY <3>1
    <2> QED
      BY <2>1, <2>2, <2>3
  <1>3. CASE Purges(b, a)
    BY <1>3 DEF Purges
  <1> QED
    BY <1>1, <1>2, <1>3 DEF OneOperation

\* An operation keeps each item, settled at most, or erases it when it is settled.
LEMMA OperationKeepsItems ==
    ASSUME NEW b \in Inboxes, NEW a, Good(b), OneOperation(b, a),
           NEW x \in b.items
    PROVE  \/ \E y \in a.items :
                /\ y.id = x.id /\ y.payload = x.payload
                /\ y.sequence = x.sequence
                /\ x.state \in Terminal => y.state = x.state
           \/ /\ x.state \in Terminal
              /\ \A y \in a.items : y.sequence # x.sequence
  <1>1. CASE Adds(b, a)
    BY <1>1 DEF Adds
  <1>2. CASE Settles(b, a)
    <2>1. PICK z \in b.items, state \in Terminal :
            /\ z.state = "queued"
            /\ a.items = (b.items \ {z}) \cup {[z EXCEPT !.state = state]}
      BY <1>2 DEF Settles
    <2>2. CASE x # z
      BY <2>1, <2>2
    <2>3. CASE x = z
      <3> DEFINE n == [z EXCEPT !.state = state]
      <3>1. n \in a.items /\ n.id = z.id /\ n.payload = z.payload
            /\ n.sequence = z.sequence
        BY <2>1 DEF Inboxes, Items
      <3>2. x.state \notin Terminal
        BY <2>1, <2>3 DEF Terminal
      <3> HIDE DEF n
      <3> QED
        BY <2>3, <3>1, <3>2
    <2> QED
      BY <2>2, <2>3
  <1>3. CASE Purges(b, a)
    <2>1. CASE x.state = "queued"
      BY <1>3, <2>1 DEF Purges
    <2>2. CASE x.state # "queued"
      <3>1. x.state \in Terminal
        BY <2>2 DEF Inboxes, Items
      <3>2. x \notin a.items /\ a.items \subseteq b.items
        BY <1>3, <2>2 DEF Purges
      <3>3. \A y \in b.items : x # y => x.sequence # y.sequence
        BY DEF Good, Loads
      <3> QED
        BY <3>1, <3>2, <3>3
    <2> QED
      BY <2>1, <2>2
  <1> QED
    BY <1>1, <1>2, <1>3 DEF OneOperation

-----------------------------------------------------------------------------
(* One lemma per action.                                                   *)

\* No inbox, no caller, nothing told.
LEMMA InboxInitial == Init => IInv
  <1> SUFFICES ASSUME Init PROVE IInv
    OBVIOUS
  <1> USE InboxAssumption DEF Init
  <1>1. Empty \in Inboxes /\ Empty.items = {} /\ Empty.next = 1
    BY DEF Empty, Inboxes
  <1>2. TypeOK
    <2>1. file \in Inboxes /\ memory \in [1..MaxOpened -> Inboxes]
          /\ proposed \in [Callers -> Inboxes]
      BY <1>1
    <2>2. opened \in 0..MaxOpened /\ current \in 0..opened
          /\ object \in [Callers -> 0..opened]
      BY DEF TypeOK
    <2> QED
      BY <2>1, <2>2 DEF TypeOK
  <1>3. UseInv
    BY DEF UseInv, Writing
  <1>4. Good(Empty)
    BY <1>1, FS_EmptySet DEF Good, Loads
  <1>5. LoadsInv
    BY <1>4 DEF LoadsInv, Writing
  <1>6. OwnerInv
    BY DEF OwnerInv, InUse
  <1>7. HistoryInv
    BY DEF HistoryInv, AnsweredIsDurable, NumberNamesOneItem
  <1> QED
    BY <1>2, <1>3, <1>5, <1>6, <1>7 DEF IInv

\* The history is about the file and what callers were told only.
LEMMA QuietHistory ==
    ASSUME HistoryInv, UNCHANGED <<file, overlapped, receipts, purged>>
    PROVE  HistoryInv'
  BY DEF HistoryInv, AnsweredIsDurable, NumberNamesOneItem

\* A caller that leaves with nothing written.
LEMMA LeaveKeeps ==
    ASSUME IInv, NEW c \in Callers, step[c] # "replaced", Leave(c),
           UNCHANGED <<file, memory, opened, current, overlapped, purged>>
    PROVE  UseInv' /\ LoadsInv' /\ OwnerInv'
           /\ (receipts' \subseteq Items => TypeOK')
  <1> USE DEF IInv, Leave
  <1>0. Empty \in Inboxes
    BY DEF Empty, Inboxes
  <1>1. receipts' \subseteq Items => TypeOK'
    BY <1>0 DEF TypeOK
  <1>2. UseInv'
    BY DEF TypeOK, UseInv, Writing
  <1>3. LoadsInv'
    BY DEF TypeOK, LoadsInv, Writing
  <1>4. OwnerInv'
    BY DEF TypeOK, OwnerInv, InUse
  <1> QED
    BY <1>1, <1>2, <1>3, <1>4

\* Fetching the current object.
LEMMA FetchKeeps ==
    ASSUME IInv, NEW c \in Callers, Fetch(c) PROVE IInv'
  <1> USE DEF IInv, Fetch, history
  <1>1. TypeOK'
    BY DEF TypeOK
  <1>2. UseInv'
    BY DEF TypeOK, UseInv, Writing
  <1>3. LoadsInv'
    BY DEF TypeOK, LoadsInv, Writing
  <1>4. OwnerInv'
    BY DEF TypeOK, UseInv, OwnerInv, InUse
  <1>5. HistoryInv'
    BY QuietHistory
  <1> QED
    BY <1>1, <1>2, <1>3, <1>4, <1>5

\* Opening another object: what it loads is what is on disk.
LEMMA OpenKeeps ==
    ASSUME IInv, NEW c \in Callers, Open(c) PROVE IInv'
  <1> USE InboxAssumption DEF IInv, Open
  <1>1. TypeOK'
    BY DEF TypeOK
  <1>2. UseInv'
    BY DEF TypeOK, UseInv, Writing
  <1>3. LoadsInv'
    BY DEF TypeOK, LoadsInv, Writing
  <1>4. OwnerInv'
    <2> SUFFICES ASSUME ~overlapped' PROVE OwnerInv'
      BY DEF OwnerInv
    <2>1. \A d \in Callers : step[d] = "idle"
      BY DEF TypeOK
    <2>2. memory'[opened'] = file' /\ object'[c] = opened'
      BY DEF TypeOK
    <2> QED
      BY <2>1, <2>2 DEF TypeOK, OwnerInv
  <1>5. HistoryInv'
    BY DEF TypeOK, HistoryInv, AnsweredIsDurable, NumberNamesOneItem
  <1> QED
    BY <1>1, <1>2, <1>3, <1>4, <1>5

\* Reading the current object again, or finding none.
LEMMA LookAgainKeeps ==
    ASSUME IInv, NEW c \in Callers, LookAgain(c) PROVE IInv'
  <1> USE DEF IInv, LookAgain, history
  <1>0. HistoryInv'
    BY QuietHistory
  <1>1. CASE current = 0
    BY <1>0, <1>1, LeaveKeeps DEF TypeOK
  <1>2. CASE current # 0
    <2>1. TypeOK'
      BY <1>2 DEF TypeOK
    <2>2. UseInv'
      BY ZenonT(60), <1>2 DEF TypeOK, UseInv, Writing
    <2>3. LoadsInv'
      BY <1>2 DEF TypeOK, LoadsInv, Writing
    <2>4. OwnerInv'
      BY <1>2 DEF TypeOK, UseInv, OwnerInv, InUse
    <2> QED
      BY <1>0, <2>1, <2>2, <2>3, <2>4
  <1> QED
    BY <1>1, <1>2

\* An operation whose write is about to begin.
LEMMA ProposesKeeps ==
    ASSUME IInv, NEW c \in Callers, step[c] \in {"bridge", "inbox"},
           NEW items, NEW next, Proposes(c, items, next),
           OneOperation(Mine(c), [items |-> items, next |-> next])
    PROVE  IInv'
  <1> DEFINE a == [items |-> items, next |-> next]
  <1> USE DEF IInv, Proposes, history
  <1>0. object[c] \in 1..opened /\ opened \in 0..MaxOpened
        /\ Mine(c) \in Inboxes /\ Good(Mine(c))
    BY InboxAssumption DEF TypeOK, LoadsInv, Mine
  <1>a. Good(a) /\ a \in Inboxes
    <2>1. a = [items |-> a.items, next |-> a.next]
      OBVIOUS
    <2> HIDE DEF a
    <2>2. OneOperation(Mine(c), a)
      BY DEF a
    <2> QED
      BY <1>0, <2>1, <2>2, OperationLoads
  <1>b. proposed' = [proposed EXCEPT ![c] = a]
    OBVIOUS
  <1>c. OneOperation(Mine(c), a)
    OBVIOUS
  <1> HIDE DEF a
  <1>1. TypeOK'
    BY <1>a, <1>b DEF TypeOK
  <1>2. UseInv'
    BY <1>0 DEF TypeOK, UseInv, Writing, LockFree
  <1>3. LoadsInv'
    BY <1>a, <1>b DEF TypeOK, LoadsInv, Writing
  <1>4. OwnerInv'
    <2> SUFFICES ASSUME ~overlapped' PROVE OwnerInv'
      BY DEF OwnerInv
    <2>1. \A d \in Callers : step'[d] # "idle" => object'[d] = opened'
      BY DEF TypeOK, OwnerInv
    <2>2. Mine(c) = memory'[opened']
      BY DEF TypeOK, OwnerInv, Mine
    <2>3. \A d \in Callers : step'[d] = "writing" =>
                OneOperation(memory'[opened'], proposed'[d])
      BY <1>b, <1>c, <2>2 DEF TypeOK, OwnerInv
    <2>4. \A d \in Callers : step'[d] = "replaced" => file' = proposed'[d]
      BY <1>b DEF TypeOK, OwnerInv
    <2>5. InUse' /\ (\A d \in Callers : step'[d] # "replaced")
            => memory'[opened'] = file'
      BY DEF TypeOK, OwnerInv, InUse
    <2> QED
      BY <2>1, <2>3, <2>4, <2>5 DEF OwnerInv
  <1>5. HistoryInv'
    BY QuietHistory
  <1> QED
    BY <1>1, <1>2, <1>3, <1>4, <1>5

LEMMA EnqueueKeeps ==
    ASSUME IInv, NEW c \in Callers, NEW id \in Ids, NEW payload \in Payloads,
           Enqueue(c, id, payload)
    PROVE  IInv'
  <1> DEFINE items == Mine(c).items \cup {NewItem(c, id, payload)}
             next == Mine(c).next + 1
  <1>1. Adds(Mine(c), [items |-> items, next |-> next])
    BY DEF Enqueue, Adds, NewItem
  <1>2. Proposes(c, items, next) /\ step[c] = "bridge"
    BY DEF Enqueue
  <1> HIDE DEF items, next
  <1> QED
    BY <1>1, <1>2, ProposesKeeps DEF OneOperation

LEMMA TransitionKeeps ==
    ASSUME IInv, NEW c \in Callers, NEW x \in Mine(c).items,
           NEW target \in Terminal, Transition(c, x, target)
    PROVE  IInv'
  <1> DEFINE items == (Mine(c).items \ {x}) \cup {[x EXCEPT !.state = target]}
  <1>1. Settles(Mine(c), [items |-> items, next |-> Mine(c).next])
    BY DEF Transition, Settles
  <1>2. Proposes(c, items, Mine(c).next) /\ step[c] = "inbox"
    BY DEF Transition
  <1> HIDE DEF items
  <1> QED
    BY <1>1, <1>2, ProposesKeeps DEF OneOperation

LEMMA PurgeKeeps ==
    ASSUME IInv, NEW c \in Callers, PurgeTerminal(c) PROVE IInv'
  <1>1. Purges(Mine(c), [items |-> Queued(c), next |-> Mine(c).next])
    BY DEF Purges, Queued
  <1>2. Proposes(c, Queued(c), Mine(c).next) /\ step[c] = "inbox"
    BY DEF PurgeTerminal
  <1> QED
    BY <1>1, <1>2, ProposesKeeps DEF OneOperation

\* With one owner, a caller that holds the free lock reads what is on disk.
LEMMA FreeLockReadsFile ==
    ASSUME IInv, ~overlapped, NEW c \in Callers, step[c] # "idle",
           \A d \in Callers : step[d] # "replaced"
    PROVE  Mine(c) = file
  BY DEF IInv, TypeOK, OwnerInv, InUse, Mine

\* Being told what is on disk already.
LEMMA RepeatKeeps ==
    ASSUME IInv, NEW c \in Callers, NEW x \in Mine(c).items, Repeat(c, x)
    PROVE  IInv'
  <1> USE DEF Repeat
  <1>1. x \in Items
    BY InboxAssumption DEF IInv, TypeOK, Mine, Inboxes
  <1>2. TypeOK' /\ UseInv' /\ LoadsInv' /\ OwnerInv'
    <2>1. receipts' \subseteq Items
      BY <1>1 DEF IInv, TypeOK
    <2> QED
      BY <2>1, LeaveKeeps
  <1>3. HistoryInv'
    <2> SUFFICES ASSUME ~overlapped PROVE HistoryInv'
      BY DEF HistoryInv, AnsweredIsDurable, NumberNamesOneItem
    <2>1. x \in file.items
      <3>1. \A d \in Callers : step[d] # "replaced"
        BY DEF IInv, TypeOK, OwnerInv, LockFree, Writing
      <3> QED
        BY <3>1, FreeLockReadsFile
    <2>2. x.sequence < file.next
      BY <2>1 DEF IInv, LoadsInv, Good, Loads, TypeOK, Inboxes
    <2>3. \A y \in file.items : x.sequence = y.sequence => x = y
      BY <2>1 DEF IInv, LoadsInv, Good, Loads
    <2>4. \A r \in receipts, y \in file.items :
            r.sequence = y.sequence => r.id = y.id /\ r.payload = y.payload
      BY DEF IInv, HistoryInv
    <2>5. AnsweredIsDurable'
      BY <2>1 DEF IInv, HistoryInv, AnsweredIsDurable
    <2>6. NumberNamesOneItem'
      BY <2>1, <2>4 DEF IInv, HistoryInv, NumberNamesOneItem
    <2>7. \A r \in receipts' :
            /\ r.sequence < file'.next
            /\ \A y \in file'.items :
                r.sequence = y.sequence => r.id = y.id /\ r.payload = y.payload
      BY <2>2, <2>3 DEF IInv, HistoryInv
    <2> QED
      BY <2>5, <2>6, <2>7 DEF HistoryInv
  <1> QED
    BY <1>2, <1>3 DEF IInv

LEMMA RefuseKeeps ==
    ASSUME IInv, NEW c \in Callers, Refuse(c) PROVE IInv'
  <1> USE DEF Refuse, history
  <1>1. HistoryInv'
    BY QuietHistory DEF IInv
  <1> QED
    BY <1>1, LeaveKeeps DEF IInv, TypeOK

LEMMA WriteFailsKeeps ==
    ASSUME IInv, NEW c \in Callers, WriteFails(c) PROVE IInv'
  <1> USE DEF WriteFails, history
  <1>1. HistoryInv'
    BY QuietHistory DEF IInv
  <1> QED
    BY <1>1, LeaveKeeps DEF IInv, TypeOK

\* With one owner, a write is one operation on what is on disk.
LEMMA WriteIsOneOperation ==
    ASSUME IInv, ~overlapped, NEW c \in Callers, step[c] = "writing"
    PROVE  OneOperation(file, proposed[c])
  <1>1. \A d \in Callers : step[d] # "replaced"
    BY DEF IInv, TypeOK, UseInv, OwnerInv, Writing
  <1>2. memory[opened] = file
    BY <1>1 DEF IInv, OwnerInv, InUse
  <1> QED
    BY <1>2 DEF IInv, OwnerInv

\* The write: what callers were told stays, or is erased when it is settled.
LEMMA ReplaceHistory ==
    ASSUME IInv, NEW c \in Callers, Replace(c), ~overlapped
    PROVE  HistoryInv'
  <1> USE DEF Replace
  <1>1. OneOperation(file, file')
    BY WriteIsOneOperation
  <1>2. file \in Inboxes /\ Good(file) /\ file' \in Inboxes
        /\ receipts \subseteq Items
    BY DEF IInv, TypeOK, LoadsInv
  <1>3. file'.next >= file.next /\ file.next \in Nat /\ file'.next \in Nat
    <2>1. file' = [items |-> file'.items, next |-> file'.next]
      BY <1>2 DEF Inboxes
    <2>2. file.next \in Nat
      BY <1>2 DEF Inboxes
    <2> QED
      BY <1>1, <1>2, <2>1, <2>2, OperationLoads
  <1>4. AnsweredIsDurable'
    <2> SUFFICES ASSUME NEW r \in receipts, r.sequence \notin purged'
                 PROVE  \E y \in file'.items :
                            /\ y.id = r.id /\ y.payload = r.payload
                            /\ y.sequence = r.sequence
                            /\ r.state \in Terminal => y.state = r.state
      BY DEF AnsweredIsDurable
    <2>1. PICK x \in file.items :
            /\ x.id = r.id /\ x.payload = r.payload
            /\ x.sequence = r.sequence
            /\ r.state \in Terminal => x.state = r.state
      BY DEF IInv, HistoryInv, AnsweredIsDurable
    <2>2. ~(/\ x.state \in Terminal
            /\ \A y \in file'.items : y.sequence # x.sequence)
      BY <2>1 DEF Erased
    <2>3. PICK y \in file'.items :
            /\ y.id = x.id /\ y.payload = x.payload
            /\ y.sequence = x.sequence
            /\ x.state \in Terminal => y.state = x.state
      BY <1>1, <1>2, <2>2, OperationKeepsItems
    <2> QED
      BY <2>1, <2>3
  <1>5. \A r \in receipts :
            /\ r.sequence < file'.next
            /\ \A x \in file'.items :
                r.sequence = x.sequence => r.id = x.id /\ r.payload = x.payload
    <2> SUFFICES ASSUME NEW r \in receipts
                 PROVE  /\ r.sequence < file'.next
                        /\ \A x \in file'.items : r.sequence = x.sequence
                            => r.id = x.id /\ r.payload = x.payload
      OBVIOUS
    <2>1. r.sequence \in Nat /\ r.sequence < file.next
      BY <1>2 DEF IInv, HistoryInv, Items
    <2>2. ASSUME NEW x \in file'.items, r.sequence = x.sequence
          PROVE  r.id = x.id /\ r.payload = x.payload
      <3>1. PICK y \in file.items : /\ x.sequence = y.sequence
                                    /\ x.id = y.id /\ x.payload = y.payload
        BY <1>1, <1>2, <1>3, <2>1, <2>2, OperationKeepsNames
      <3> QED
        BY <2>2, <3>1 DEF IInv, HistoryInv
    <2> QED
      BY <1>3, <2>1, <2>2
  <1>6. NumberNamesOneItem'
    BY DEF IInv, HistoryInv, NumberNamesOneItem
  <1> QED
    BY <1>4, <1>5, <1>6 DEF HistoryInv

LEMMA ReplaceKeeps ==
    ASSUME IInv, NEW c \in Callers, Replace(c) PROVE IInv'
  <1> USE DEF Replace
  <1>1. TypeOK'
    <2>1. Erased(c) \subseteq Nat
      BY DEF IInv, TypeOK, Erased, Inboxes, Items
    <2> QED
      BY <2>1 DEF IInv, TypeOK
  <1>2. UseInv'
    BY DEF IInv, TypeOK, UseInv, Writing
  <1>3. LoadsInv'
    BY DEF IInv, TypeOK, LoadsInv, Writing
  <1>4. OwnerInv'
    <2>1. ~overlapped => \A d \in Callers : d # c => ~Writing(d)
      BY DEF IInv, UseInv, OwnerInv, Writing
    <2> QED
      BY <2>1 DEF IInv, TypeOK, OwnerInv, InUse, Writing
  <1>5. HistoryInv'
    BY ReplaceHistory
       DEF HistoryInv, AnsweredIsDurable, NumberNamesOneItem
  <1> QED
    BY <1>1, <1>2, <1>3, <1>4, <1>5 DEF IInv

\* The commit: memory is what is on disk, and the caller is told what is there.
LEMMA CommitKeeps ==
    ASSUME IInv, NEW c \in Callers, Commit(c) PROVE IInv'
  <1> USE DEF Commit, Answers, Leave
  <1>0. Empty \in Inboxes /\ object[c] \in 1..opened
        /\ opened \in 0..MaxOpened
    BY InboxAssumption DEF Empty, Inboxes, IInv, TypeOK
  <1>1. TypeOK'
    <2>1. receipts' \subseteq Items
      BY DEF IInv, TypeOK, Inboxes
    <2>2. memory' \in [1..MaxOpened -> Inboxes]
      BY <1>0 DEF IInv, TypeOK
    <2>3. /\ step' \in [Callers -> {"idle", "bridge", "inbox", "writing",
                                   "replaced"}]
          /\ object' \in [Callers -> 0..opened]
          /\ proposed' \in [Callers -> Inboxes]
          /\ \A d \in Callers : step'[d] # "idle" => object'[d] # 0
      BY <1>0 DEF IInv, TypeOK
    <2> QED
      BY <2>1, <2>2, <2>3 DEF IInv, TypeOK
  <1>2. UseInv'
    BY DEF IInv, TypeOK, UseInv, Writing
  <1>3. LoadsInv'
    BY <1>0 DEF IInv, TypeOK, LoadsInv, Writing
  <1>4. OwnerInv'
    <2> SUFFICES ASSUME ~overlapped PROVE OwnerInv'
      BY DEF OwnerInv
    <2>1. \A d \in Callers : d # c => ~Writing(d)
      BY DEF IInv, UseInv, OwnerInv, Writing
    <2>2. object[c] = opened /\ file = proposed[c]
      BY DEF IInv, OwnerInv
    <2>3. memory'[opened'] = file'
      BY <1>0, <2>2 DEF IInv, TypeOK
    <2> QED
      BY <2>1, <2>2, <2>3 DEF IInv, TypeOK, OwnerInv, InUse, Writing
  <1>5. HistoryInv'
    <2> SUFFICES ASSUME ~overlapped PROVE HistoryInv'
      BY DEF HistoryInv, AnsweredIsDurable, NumberNamesOneItem
    <2>1. \A r \in receipts' : r \in receipts \/ r \in file.items
      BY DEF IInv, OwnerInv
    <2>2. \A x \in file.items : x.sequence < file.next
      BY DEF IInv, LoadsInv, Good, Loads, TypeOK, Inboxes
    <2>3. \A x, y \in file.items : x.sequence = y.sequence => x = y
      BY DEF IInv, LoadsInv, Good, Loads
    <2>4. \A r \in receipts, y \in file.items :
            r.sequence = y.sequence => r.id = y.id /\ r.payload = y.payload
      BY DEF IInv, HistoryInv
    <2>5. AnsweredIsDurable'
      BY <2>1 DEF IInv, HistoryInv, AnsweredIsDurable
    <2>6. NumberNamesOneItem'
      BY <2>1, <2>3, <2>4 DEF IInv, HistoryInv, NumberNamesOneItem
    <2>7. \A r \in receipts' :
            /\ r.sequence < file'.next
            /\ \A y \in file'.items :
                r.sequence = y.sequence => r.id = y.id /\ r.payload = y.payload
      BY <2>1, <2>2, <2>3 DEF IInv, HistoryInv
    <2> QED
      BY <2>5, <2>6, <2>7 DEF HistoryInv
  <1> QED
    BY <1>1, <1>2, <1>3, <1>4, <1>5 DEF IInv

\* Turning Voice Objects off, and the end of the process, only let go.
LEMMA LettingGoKeeps ==
    ASSUME IInv, TurnOff \/ Restart PROVE IInv'
  <1> USE DEF IInv, history
  <1>0. HistoryInv'
    BY QuietHistory DEF TurnOff, Restart
  <1>1. CASE TurnOff
    <2> USE DEF TurnOff, callerVars
    <2>1. TypeOK'
      BY <1>1 DEF TypeOK
    <2>2. UseInv' /\ LoadsInv' /\ OwnerInv'
      BY <1>1 DEF UseInv, LoadsInv, OwnerInv, InUse, Writing
    <2> QED
      BY <1>0, <2>1, <2>2
  <1>2. CASE Restart
    <2>0. Empty \in Inboxes
      BY DEF Empty, Inboxes
    <2>1. TypeOK'
      BY <1>2, <2>0 DEF Restart, TypeOK
    <2>2. \A c \in Callers : step'[c] = "idle" /\ object'[c] = 0
      BY <1>2 DEF Restart
    <2>3. UseInv'
      BY <1>2, <2>2 DEF Restart, UseInv, Writing
    <2>4. LoadsInv'
      BY <1>2, <2>2 DEF Restart, LoadsInv, Writing
    <2>5. OwnerInv'
      BY <1>2, <2>2 DEF Restart, OwnerInv, InUse
    <2> QED
      BY <1>0, <2>1, <2>3, <2>4, <2>5
  <1> QED
    BY <1>1, <1>2

\* Every step keeps the invariant.
LEMMA InboxStep == IInv /\ [Next]_vars => IInv'
  <1> SUFFICES ASSUME IInv, [Next]_vars PROVE IInv'
    OBVIOUS
  <1>1. CASE TurnOff \/ Restart
    BY <1>1, LettingGoKeeps
  <1>2. ASSUME NEW c \in Callers, CallerSteps(c) PROVE IInv'
    <2>1. CASE Fetch(c) \/ Open(c) \/ LookAgain(c)
      BY <2>1, FetchKeeps, OpenKeeps, LookAgainKeeps
    <2>2. CASE Refuse(c) \/ WriteFails(c)
      BY <2>2, RefuseKeeps, WriteFailsKeeps
    <2>3. CASE Replace(c) \/ Commit(c)
      BY <2>3, ReplaceKeeps, CommitKeeps
    <2>4. CASE Uses(c)
      BY <2>4, EnqueueKeeps, RepeatKeeps, TransitionKeeps, PurgeKeeps DEF Uses
    <2> QED
      BY <1>2, <2>1, <2>2, <2>3, <2>4 DEF CallerSteps
  <1>3. CASE UNCHANGED vars
    <2> USE <1>3 DEF vars, callerVars, history
    <2>1. TypeOK'
      BY DEF IInv, TypeOK
    <2>2. UseInv' /\ LoadsInv' /\ OwnerInv'
      BY DEF IInv, UseInv, LoadsInv, OwnerInv, InUse, Writing
    <2>3. HistoryInv'
      BY QuietHistory DEF IInv
    <2> QED
      BY <2>1, <2>2, <2>3 DEF IInv
  <1> QED
    BY <1>1, <1>2, <1>3 DEF Next

\* A step changes the file only as the contract allows.
LEMMA StepFollowsContract ==
    ASSUME IInv, [Next]_vars, ~overlapped
    PROVE  [Contract!InboxNext]_Contract!contractVars
  <1> USE DEF Contract!contractVars
  <1>1. ASSUME NEW c \in Callers, Replace(c) PROVE Contract!InboxNext
    BY <1>1, WriteIsOneOperation, OperationIsContractStep DEF Replace
  <1>2. (\A c \in Callers : ~Replace(c)) => UNCHANGED file
    BY DEF Next, vars, TurnOff, Restart, CallerSteps, Uses, Fetch, Open,
           LookAgain, Refuse, Enqueue, Transition, PurgeTerminal, Proposes,
           Repeat, WriteFails, Commit
  <1> QED
    BY <1>1, <1>2

-----------------------------------------------------------------------------
(* The theorems.                                                           *)

\* The invariant holds in every reachable state, for any callers and items.
THEOREM InboxInvariant == Spec => []IInv
  BY InboxInitial, InboxStep, PTL DEF Spec

\* The state of the inbox has its type (VoiceInbox, its callers).
THEOREM InboxTypeCorrect == Spec => []TypeOK
  BY InboxInvariant, PTL DEF IInv

\* The file can always be loaded again (_decode_state), also when two inboxes
\* share it.
THEOREM InboxAlwaysLoads == Spec => []Loads(file)
  <1>1. IInv => Loads(file)
    BY DEF IInv, LoadsInv, Good
  <1> QED
    BY <1>1, InboxInvariant, PTL

\* With one owner, what a caller was told survives failed writes and restarts.
THEOREM InboxKeepsItsWord == Spec => []AnsweredIsDurable
  <1>1. IInv => AnsweredIsDurable
    BY DEF IInv, HistoryInv
  <1> QED
    BY <1>1, InboxInvariant, PTL

\* With one owner, a number is never given to another item (next_sequence).
THEOREM InboxNeverReusesANumber == Spec => []NumberNamesOneItem
  <1>1. IInv => NumberNamesOneItem
    BY DEF IInv, HistoryInv
  <1> QED
    BY <1>1, InboxInvariant, PTL

\* With one owner, the file implements the contract: one whole operation at a
\* time (_atomic_write).
THEOREM InboxFollowsContract == Spec => FileFollowsContract
  <1>1. IInv /\ [Next]_vars
            => [~overlapped => [Contract!InboxNext]_Contract!contractVars]_vars
    BY StepFollowsContract
  <1> QED
    BY <1>1, InboxInvariant, PTL DEF Spec, FileFollowsContract
=============================================================================
