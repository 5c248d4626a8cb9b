---------------------- MODULE FieldTransactionsProofs -----------------------
(***************************************************************************)
(* Theorems about one text field, for any number of takes, undo threads    *)
(* and acts of the user, and for any radius of a fingerprint.              *)
(*                                                                         *)
(* That no watcher learns an undo rests on UInv: a take whose text an undo *)
(* has typed over is noted, or a thread that will note it is still at it.  *)
(*                                                                         *)
(* That an undo removes only text of its take rests on FInv: whoever may   *)
(* type over a paste has the field that the paste found, so what the       *)
(* fingerprint is compared with has nothing but the take before its caret. *)
(* From its look to its last key it rests on GInv: as long as nobody else  *)
(* has changed the field, as many characters are selected as keys were     *)
(* pressed, and the caret they were selected from is where it was.         *)
(*                                                                         *)
(* The delayed cleanups keep all of this (CInv), and their own comparison  *)
(* holds as long as it is fresh.  What they change follows from it: equal  *)
(* words, equal edits.                                                     *)
(***************************************************************************)
EXTENDS DelayedCleanup, SequenceTheorems, TLAPS

\* The part of the typing that the argument needs.
UndoTypes ==
    /\ undoStep \in [Undoers -> {"idle", "claimed", "looked", "typed",
                                 "clearing"}]
    /\ undoTake \in [Undoers -> Takes \cup {None}]
    /\ \A a \in Undoers : undoStep[a] # "idle" => undoTake[a] \in Takes
    /\ undoable \in Takes \cup {None}
    /\ watcher \in [Takes -> {"off", "watching", "read an edit",
                              "read an undo", "learned an edit",
                              "learned an undo"}]

\* A take whose text an undo has typed over is noted, or an undo thread that
\* will note it whatever its readback says is still at it.
RemovedIsNoted ==
    \A t \in removed :
        \/ t \in undone
        \/ \E a \in Undoers : undoStep[a] = "typed" /\ undoTake[a] = t

\* What a watcher read after an undo is noted before it can be learned.
ReadIsNoted ==
    \A t \in Takes : watcher[t] = "read an undo" => t \in undone

UInv == UndoTypes /\ RemovedIsNoted /\ ReadIsNoted /\ UndoIsNotLearned

\* Actions of the user, of insertions and of case commands touch neither the
\* undo threads nor what they noted, and only start watchers.
LEMMA OthersKeepUInv ==
    ASSUME UInv, UNCHANGED <<undoVars, watcher>>,
           undoable' \in Takes \cup {None}
    PROVE  UInv'
  BY DEF UInv, UndoTypes, RemovedIsNoted, ReadIsNoted, UndoIsNotLearned,
     undoVars

\* A thread that is not at "typed" has nothing to note.
LEMMA StillNoted ==
    ASSUME RemovedIsNoted, NEW a \in Undoers, undoStep[a] # "typed",
           removed' = removed, undone' = undone,
           \A b \in Undoers \ {a} :
               undoStep'[b] = undoStep[b] /\ undoTake'[b] = undoTake[b]
    PROVE  RemovedIsNoted'
<1> SUFFICES ASSUME NEW t \in removed, t \notin undone
             PROVE  \E b \in Undoers : undoStep'[b] = "typed" /\ undoTake'[b] = t
  BY DEF RemovedIsNoted
<1>1. PICK b \in Undoers : undoStep[b] = "typed" /\ undoTake[b] = t
  BY DEF RemovedIsNoted
<1>2. b \in Undoers \ {a}
  BY <1>1
<1> QED BY <1>1, <1>2

\* An undo thread leaves "typed" only by noting its take.
LEMMA UndoKeepsUInv ==
    ASSUME UInv, NEW a \in Undoers,
           \/ Claim(a) \/ RefuseUndo(a) \/ LookForUndo(a) \/ SelectForUndo(a)
           \/ Undo(a) \/ ProveUndo(a) \/ ClearLastInsertion(a)
           \/ DoNotProveUndo(a)
    PROVE  UInv'
<1> DEFINE t == undoTake[a]
<1> USE DEF UInv, UndoTypes, Doing
<1>1. CASE Claim(a)
  <2>1. UndoTypes' /\ UNCHANGED <<removed, undone, watcher>>
        /\ undoStep[a] = "idle"
        /\ \A b \in Undoers \ {a} :
              undoStep'[b] = undoStep[b] /\ undoTake'[b] = undoTake[b]
    BY <1>1, FieldAssumption DEF Claim
  <2>2. RemovedIsNoted'
    BY <2>1, StillNoted
  <2> QED BY <2>1, <2>2 DEF ReadIsNoted, UndoIsNotLearned
<1>2. CASE RefuseUndo(a) \/ LookForUndo(a)
  <2>1. UndoTypes' /\ UNCHANGED <<removed, undone, watcher>>
        /\ undoStep[a] # "typed"
        /\ \A b \in Undoers \ {a} :
              undoStep'[b] = undoStep[b] /\ undoTake'[b] = undoTake[b]
    BY <1>2 DEF RefuseUndo, LookForUndo, recordVars
  <2>2. RemovedIsNoted'
    BY <2>1, StillNoted
  <2> QED BY <2>1, <2>2 DEF ReadIsNoted, UndoIsNotLearned
<1>3. CASE Undo(a)
  <2>1. t \in Takes /\ UNCHANGED <<undoable, undone, watcher>>
        /\ removed' = removed \cup {t}
        /\ undoStep' = [undoStep EXCEPT ![a] = "typed"]
        /\ undoTake' = [undoTake EXCEPT ![a] = t]
        /\ undoStep[a] = "looked"
    BY <1>3 DEF Undo, recordVars
  <2>2. RemovedIsNoted'
    BY <2>1 DEF RemovedIsNoted
  <2>3. UndoTypes'
    BY <2>1
  <2> QED BY <2>1, <2>2, <2>3 DEF ReadIsNoted, UndoIsNotLearned
<1>4. CASE ClearLastInsertion(a)
  <2>1. UndoTypes' /\ UNCHANGED <<removed, undone, watcher>>
        /\ undoStep[a] = "clearing"
        /\ \A b \in Undoers \ {a} :
              undoStep'[b] = undoStep[b] /\ undoTake'[b] = undoTake[b]
    BY <1>4 DEF ClearLastInsertion
  <2>2. RemovedIsNoted'
    BY <2>1, StillNoted
  <2> QED BY <2>1, <2>2 DEF ReadIsNoted, UndoIsNotLearned
<1>5. CASE ProveUndo(a) \/ DoNotProveUndo(a)
  <2>1. undoStep[a] = "typed" /\ t \in Takes
    BY <1>5 DEF ProveUndo, DoNotProveUndo
  <2>2. /\ UNCHANGED <<removed, undoable, watcher>> /\ undone' = undone \cup {t}
        /\ \E step \in {"clearing", "idle"}, u \in {t, None} :
              /\ step = "clearing" => u = t
              /\ undoStep' = [undoStep EXCEPT ![a] = step]
              /\ undoTake' = [undoTake EXCEPT ![a] = u]
    BY <1>5 DEF ProveUndo, DoNotProveUndo, recordVars
  <2>3. UndoTypes'
    BY <2>1, <2>2
  <2>4. RemovedIsNoted'
    BY ZenonT(60), <2>1, <2>2 DEF RemovedIsNoted
  <2> QED BY <2>2, <2>3, <2>4 DEF ReadIsNoted, UndoIsNotLearned
<1>6. CASE SelectForUndo(a)
  BY <1>6, OthersKeepUInv DEF SelectForUndo, recordVars
<1> QED BY <1>1, <1>2, <1>3, <1>4, <1>5, <1>6

\* A watcher that reads after an undo ended finds the take noted.
LEMMA WatcherKeepsUInv ==
    ASSUME UInv, NEW t \in Takes, StopWatching(t) \/ Poll(t) \/ Learn(t)
    PROVE  UInv'
<1>1. UNCHANGED <<undoVars, undoable>>
  BY DEF StopWatching, Poll, Learn, WatcherVars, recordVars
<1>2. UndoTypes'
  BY <1>1 DEF UInv, UndoTypes, StopWatching, Poll, Learn, undoVars
<1>3. RemovedIsNoted'
  BY <1>1 DEF UInv, RemovedIsNoted, undoVars
<1>4. ReadIsNoted'
  <2>1. CASE Poll(t)
    BY ZenonT(60), <2>1, <1>1
       DEF UInv, UndoTypes, Poll, UndoEnded, RemovedIsNoted,
       ReadIsNoted, undoVars
  <2>2. CASE StopWatching(t) \/ Learn(t)
    BY <2>2, <1>1 DEF UInv, UndoTypes, StopWatching, Learn, ReadIsNoted,
       undoVars
  <2> QED BY <2>1, <2>2
<1>5. UndoIsNotLearned'
  BY ZenonT(60), <1>1
     DEF UInv, UndoTypes, StopWatching, Poll, Learn, ReadIsNoted,
     UndoIsNotLearned, undoVars
<1> QED BY <1>2, <1>3, <1>4, <1>5 DEF UInv

\* A paste that is verified publishes its take; its watcher starts empty.
LEMMA VerifyKeepsUInv ==
    ASSUME UInv, NEW t \in Takes, Verify(t)
    PROVE  UInv'
<1>1. /\ UNCHANGED undoVars /\ undoable' = t
      /\ watcher' = watcher \/ watcher' = [watcher EXCEPT ![t] = "watching"]
  BY DEF Verify
<1> QED
  BY <1>1 DEF UInv, UndoTypes, RemovedIsNoted, ReadIsNoted, UndoIsNotLearned,
     undoVars

LEMMA StepKeepsUInv == UInv /\ [Next]_vars => UInv'
<1> SUFFICES ASSUME UInv, [Next]_vars PROVE UInv'
  OBVIOUS
<1>0. undoable \in Takes \cup {None}
  BY DEF UInv, UndoTypes
<1>1. CASE UserTypes \/ UserDeletes \/ UserSelects \/ FocusMoves
  <2>1. UNCHANGED <<undoVars, watcher, undoable>>
    BY <1>1 DEF UserTypes, UserDeletes, UserSelects, FocusMoves, UserActs,
       recordVars
  <2> QED BY <2>1, <1>0, OthersKeepUInv
<1>2. CASE CaseCommand \/ SelectForCase \/ Rewrite \/ CaseCommandEnds
  <2>1. UNCHANGED <<undoVars, watcher, undoable>>
    BY <1>2 DEF CaseCommand, SelectForCase, Rewrite, CaseCommandEnds,
       recordVars
  <2> QED BY <2>1, <1>0, OthersKeepUInv
<1>3. ASSUME NEW t \in Takes,
             \/ Press(t) \/ Resolve(t) \/ Refuse(t) \/ Paste(t)
             \/ DoNotVerify(t)
      PROVE  UInv'
  <2>1. UNCHANGED <<undoVars, watcher, undoable>>
    BY <1>3 DEF Press, Resolve, Refuse, Paste, DoNotVerify, recordVars
  <2> QED BY <2>1, <1>0, OthersKeepUInv
<1>4. ASSUME NEW t \in Takes, Verify(t) PROVE UInv'
  BY <1>4, VerifyKeepsUInv
<1>5. ASSUME NEW t \in Takes, StopWatching(t) \/ Poll(t) \/ Learn(t)
      PROVE  UInv'
  BY <1>5, WatcherKeepsUInv
<1>6. ASSUME NEW a \in Undoers,
             \/ Claim(a) \/ RefuseUndo(a) \/ LookForUndo(a)
             \/ SelectForUndo(a) \/ Undo(a) \/ ProveUndo(a)
             \/ ClearLastInsertion(a) \/ DoNotProveUndo(a)
      PROVE  UInv'
  BY <1>6, UndoKeepsUInv
<1>7. CASE UNCHANGED vars
  BY <1>7, <1>0, OthersKeepUInv DEF vars, recordVars, undoVars
<1> QED
  BY <1>1, <1>2, <1>3, <1>4, <1>5, <1>6, <1>7 DEF Next

\* No watcher learns from a field it read after an undo of its take ended,
\* proven or not (note_undone_utterance, learn_from_corrections).
THEOREM FieldLearnsNoUndo == Spec => []UndoIsNotLearned
<1>1. Init => UInv
  BY DEF Init, UInv, UndoTypes, RemovedIsNoted, ReadIsNoted, UndoIsNotLearned
<1>2. UInv => UndoIsNotLearned
  BY DEF UInv
<1> QED BY <1>1, <1>2, StepKeepsUInv, PTL DEF Spec

-----------------------------------------------------------------------------
(* The field.                                                              *)

\* A field whose selection lies in its text.
Fields == {s \in Snapshots : s.start + s.length <= Len(s.text)}

\* What an undo goes by is there: who pasted, what is undoable, and what an
\* undo thread has claimed all have the field of their paste.
PastesKnown ==
    /\ \A t \in Takes :
        stage[t] \in {"pasting", "pasted"} => before[t] \in Fields
    /\ undoable # None => before[undoable] \in Fields
    /\ \A a \in Undoers : undoStep[a] # "idle" =>
        undoTake[a] \in Takes /\ before[undoTake[a]] \in Fields

TypedIsRemoved ==
    \A a \in Undoers : undoStep[a] = "typed" => undoTake[a] \in removed

FInv == TypeOK /\ PastesKnown /\ TypedIsRemoved

FieldTypes ==
    /\ text \in Seq(Tokens)
    /\ start \in 0..Len(text) /\ length \in 0..(Len(text) - start)

FlagTypes ==
    /\ focused \in BOOLEAN
    /\ fresh \subseteq Selectors \cup Takes

KeyTypes == keys \in [Selectors -> Nat]

StageTypes ==
    stage \in [Takes -> {"idle", "pressed", "pasting", "pasted", "done"}]

SnapshotTypes ==
    /\ lease \in [Takes -> Snapshots \cup {None}]
    /\ before \in [Takes -> Snapshots \cup {None}]

RecordTypes ==
    /\ undoable \in Takes \cup {None}
    /\ lastInsertion \in (Takes \X Cases) \cup {None}
    /\ caseStep \in {"idle", "looked", "typed"}
    /\ rewriting \in (Takes \X Cases) \cup {None}
    /\ caseStep = "idle" <=> rewriting = None

ThreadTypes ==
    /\ undoStep \in [Undoers -> {"idle", "claimed", "looked", "typed",
                                 "clearing"}]
    /\ undoTake \in [Undoers -> Takes \cup {None}]

NotedTypes == undone \in SUBSET removed /\ removed \in SUBSET Takes

WatcherTypes ==
    watcher \in [Takes -> {"off", "watching", "read an edit", "read an undo",
                           "learned an edit", "learned an undo"}]

LEMMA Parts ==
    TypeOK <=> /\ FieldTypes /\ FlagTypes /\ KeyTypes /\ StageTypes
               /\ SnapshotTypes /\ RecordTypes /\ ThreadTypes /\ NotedTypes
               /\ WatcherTypes /\ acts \in 0..MaxActs
  BY DEF TypeOK, FieldTypes, FlagTypes, KeyTypes, StageTypes, SnapshotTypes,
     RecordTypes, ThreadTypes, NotedTypes, WatcherTypes

LEMMA Whole ==
    ASSUME FieldTypes', FlagTypes', KeyTypes', StageTypes', SnapshotTypes',
           RecordTypes', ThreadTypes', NotedTypes', WatcherTypes',
           (acts \in 0..MaxActs)'
    PROVE  TypeOK'
  BY DEF TypeOK, FieldTypes, FlagTypes, KeyTypes, StageTypes, SnapshotTypes,
     RecordTypes, ThreadTypes, NotedTypes, WatcherTypes

\* What a text is after a part of it was replaced: the same before the part and
\* after it, and the new text between.
LEMMA ReplacedIs ==
    ASSUME NEW S, NEW s, s.text \in Seq(S), s.start \in Nat, s.length \in Nat,
           s.start + s.length <= Len(s.text), NEW new \in Seq(S)
    PROVE  /\ Replaced(s, new) \in Seq(S)
           /\ Len(Replaced(s, new)) = Len(s.text) - s.length + Len(new)
           /\ \A i \in 1..s.start : Replaced(s, new)[i] = s.text[i]
           /\ \A i \in 1..Len(new) : Replaced(s, new)[s.start + i] = new[i]
           /\ \A i \in s.start + s.length + 1 .. Len(s.text) :
                Replaced(s, new)[i - s.length + Len(new)] = s.text[i]
<1> DEFINE u == s.text
           m == s.start
           e == s.start + s.length
           head == SubSeq(u, 1, m)
           tail == SubSeq(u, e + 1, Len(u))
<1>1. /\ Len(u) \in Nat /\ m \in Nat /\ e \in Nat /\ m <= e /\ e <= Len(u)
      /\ Len(new) \in Nat /\ u \in Seq(S) /\ s.length = e - m
  OBVIOUS
<1>2. \A i \in 1..Len(u) : u[i] \in S
  BY ElementOfSeq
<1> HIDE DEF u, m, e
<1>3. /\ head \in Seq(S) /\ Len(head) = m
      /\ \A i \in 1..m : head[i] = u[i]
  <2>1. \A i \in 1..m : u[i] \in S
    BY <1>1, <1>2
  <2>2. /\ head \in Seq(S) /\ Len(head) = IF 1 <= m THEN m - 1 + 1 ELSE 0
        /\ \A i \in 1..m - 1 + 1 : head[i] = u[1 + i - 1]
    BY <1>1, <2>1, SubSeqProperties
  <2> QED BY <1>1, <2>2
<1>4. /\ tail \in Seq(S) /\ Len(tail) = Len(u) - e
      /\ \A i \in 1..Len(u) - e : tail[i] = u[e + i]
  <2>1. \A i \in e + 1 .. Len(u) : u[i] \in S
    BY <1>1, <1>2
  <2>2. /\ tail \in Seq(S)
        /\ Len(tail) = IF e + 1 <= Len(u) THEN Len(u) - (e + 1) + 1 ELSE 0
        /\ \A i \in 1..Len(u) - (e + 1) + 1 : tail[i] = u[(e + 1) + i - 1]
    BY <1>1, <2>1, SubSeqProperties
  <2> QED BY <1>1, <2>2
<1> HIDE DEF head, tail
<1>5. /\ head \o new \in Seq(S) /\ Len(head \o new) = m + Len(new)
      /\ \A i \in 1..m + Len(new) :
            (head \o new)[i] = IF i <= m THEN head[i] ELSE new[i - m]
  BY ZenonT(60), <1>3, ConcatProperties
<1> DEFINE front == head \o new
<1>6. /\ front \o tail \in Seq(S)
      /\ Len(front \o tail) = (m + Len(new)) + (Len(u) - e)
      /\ \A i \in 1..(m + Len(new)) + (Len(u) - e) :
            (front \o tail)[i] =
                IF i <= m + Len(new) THEN (head \o new)[i]
                ELSE tail[i - (m + Len(new))]
  <2>1. front \in Seq(S) /\ Len(front) = m + Len(new)
    BY <1>5
  <2>4. front \in Seq(S) /\ tail \in Seq(S)
    BY <1>4, <2>1
  <2> HIDE DEF front
  <2>2. /\ front \o tail \in Seq(S)
        /\ Len(front \o tail) = Len(front) + Len(tail)
        /\ \A i \in 1..Len(front) + Len(tail) :
              (front \o tail)[i] = IF i <= Len(front) THEN front[i]
                                   ELSE tail[i - Len(front)]
    BY <2>4, ConcatProperties
  <2>3. front = head \o new
    BY DEF front
  <2> QED BY <1>4, <2>1, <2>2, <2>3
<1>7. Replaced(s, new) = front \o tail
  BY DEF Replaced, head, tail, u, m, e
<1> DEFINE r == front \o tail
<1>8. Len(r) = Len(u) - (e - m) + Len(new)
  BY <1>1, <1>6
<1>9. ASSUME NEW i \in 1..m
      PROVE  r[i] = u[i]
  <2>1. i \in 1..m + Len(new) /\ i \in 1..(m + Len(new)) + (Len(u) - e)
    BY <1>1
  <2> QED BY SMTT(30), <1>1, <1>3, <1>5, <1>6, <2>1
<1>10. ASSUME NEW i \in 1..Len(new)
       PROVE  r[m + i] = new[i]
  <2>1. /\ m + i \in 1..m + Len(new)
        /\ m + i \in 1..(m + Len(new)) + (Len(u) - e)
        /\ ~(m + i <= m) /\ (m + i) - m = i /\ m + i <= m + Len(new)
    BY <1>1
  <2> QED BY <1>5, <1>6, <2>1
<1>11. ASSUME NEW i \in e + 1 .. Len(u)
       PROVE  r[i - (e - m) + Len(new)] = u[i]
  <2> DEFINE k == i - (e - m) + Len(new)
  <2>1. /\ k \in 1..(m + Len(new)) + (Len(u) - e) /\ ~(k <= m + Len(new))
        /\ k - (m + Len(new)) = i - e /\ i - e \in 1..Len(u) - e
        /\ e + (i - e) = i
    BY <1>1
  <2> HIDE DEF k
  <2>2. r[k] = tail[i - e]
    BY <1>6, <2>1
  <2>3. tail[i - e] = u[i]
    BY <1>4, <2>1
  <2> QED BY <2>2, <2>3 DEF k
<1> HIDE DEF r
<1>12. Replaced(s, new) = r
  BY <1>7 DEF r
<1>13. r \in Seq(S)
  BY <1>6 DEF r
<1> QED BY <1>1, <1>8, <1>9, <1>10, <1>11, <1>12, <1>13 DEF u, m, e

\* Typing leaves a caret in a well-formed field.
LEMMA TypingKeepsField ==
    ASSUME NEW s, s.text \in Seq(Tokens), s.start \in Nat, s.length \in Nat,
           s.start + s.length <= Len(s.text), NEW new \in Seq(Tokens),
           Types(s, new)
    PROVE  FieldTypes'
<1>1. Len(s.text) \in Nat /\ Len(new) \in Nat
  OBVIOUS
<1>2. /\ Replaced(s, new) \in Seq(Tokens)
      /\ Len(Replaced(s, new)) = Len(s.text) - s.length + Len(new)
  BY ReplacedIs
<1>3. /\ text' = Replaced(s, new) /\ start' = s.start + Len(new)
      /\ length' = 0
  BY DEF Types
<1>4. \A n, b, l, k \in Nat : b + l <= n => b + k \in 0..n - l + k
  OBVIOUS
<1>5. start' \in 0..Len(text')
  BY <1>1, <1>2, <1>3, <1>4
<1> QED BY <1>2, <1>3, <1>5 DEF FieldTypes

LEMMA SnapshotFits ==
    ASSUME FieldTypes
    PROVE  /\ Snapshot \in Fields /\ Snapshot.text = text
           /\ Snapshot.start = start /\ Snapshot.length = length
           /\ text \in Seq(Tokens) /\ Len(text) \in Nat
           /\ start \in Nat /\ length \in Nat /\ start + length <= Len(text)
<1>1. /\ text \in Seq(Tokens) /\ Len(text) \in Nat
      /\ start \in Nat /\ length \in Nat /\ start + length <= Len(text)
  BY DEF FieldTypes
<1> QED BY <1>1 DEF Snapshot, Fields, Snapshots

LEMMA FieldParts ==
    ASSUME NEW s \in Fields
    PROVE  /\ s \in Snapshots /\ s.text \in Seq(Tokens) /\ Len(s.text) \in Nat
           /\ s.start \in Nat /\ s.length \in Nat
           /\ s.start + s.length <= Len(s.text)
  BY DEF Fields, Snapshots

LEMMA BeforeFits ==
    ASSUME FieldTypes, NEW n \in Nat, n <= start
    PROVE  /\ Before(n).text = text /\ Before(n).start = start - n
           /\ Before(n).length = n
           /\ text \in Seq(Tokens) /\ start - n \in Nat
           /\ (start - n) + n <= Len(text) /\ Len(text) \in Nat
<1>1. text \in Seq(Tokens) /\ start \in Nat /\ Len(text) \in Nat
      /\ start <= Len(text)
  BY DEF FieldTypes
<1> QED BY <1>1 DEF Before

\* The tokens of a take are its own.
LEMMA TextIs ==
    ASSUME NEW t \in Takes, NEW case \in Cases
    PROVE  /\ TextOf(t, case) \in Seq(Tokens)
           /\ Len(TextOf(t, case)) = TextLength /\ TextLength \in Nat
           /\ \A i \in 1..TextLength : TextOf(t, case)[i][1] = t
<1>1. TextLength \in Nat /\ MaxActs \in Nat
  BY FieldAssumption
<1>2. \A i \in 1..TextLength : <<t, i, case>> \in Tokens
  BY <1>1 DEF Tokens
<1>3. TextOf(t, case) \in [1..TextLength -> Tokens]
  BY <1>2 DEF TextOf
<1>4. TextOf(t, case) \in Seq(Tokens)
  BY <1>1, <1>3, SeqDef
<1>5. DOMAIN TextOf(t, case) = 1..TextLength
  BY DEF TextOf
<1>6. Len(TextOf(t, case)) = TextLength
  BY <1>1, <1>4, <1>5
<1> QED BY <1>1, <1>4, <1>6 DEF TextOf

LEMMA JoinedIs ==
    ASSUME NEW t \in Takes, NEW s
    PROVE  /\ Joined(t, s) \in Seq(Tokens) /\ Len(Joined(t, s)) \in Nat
           /\ Len(Joined(t, s)) > 0
           /\ \A i \in 1..Len(Joined(t, s)) : Joined(t, s)[i][1] = t
<1> DEFINE said == TextOf(t, "as said")
           space == <<<<t, 0, "as said">>>>
<1>1. /\ said \in Seq(Tokens) /\ Len(said) = TextLength /\ TextLength \in Nat
      /\ \A i \in 1..TextLength : said[i][1] = t
  BY TextIs DEF Cases
<1>2. <<t, 0, "as said">> \in Tokens
  <2>1. 0 \in 0..(TextLength + MaxActs)
    BY FieldAssumption
  <2> QED BY <2>1 DEF Tokens, Cases
<1>3. space \in Seq(Tokens) /\ Len(space) = 1 /\ space[1][1] = t
  <2>1. \A token \in Tokens : /\ <<token>> \in Seq(Tokens)
                             /\ Len(<<token>>) = 1 /\ <<token>>[1] = token
    OBVIOUS
  <2>2. <<t, 0, "as said">>[1] = t
    OBVIOUS
  <2> QED BY <1>2, <2>1, <2>2
<1> HIDE DEF said, space
<1>4. /\ space \o said \in Seq(Tokens) /\ Len(space \o said) = 1 + TextLength
      /\ \A i \in 1..1 + TextLength :
            (space \o said)[i] = IF i <= 1 THEN space[i] ELSE said[i - 1]
  <2>1. /\ space \o said \in Seq(Tokens)
        /\ Len(space \o said) = Len(space) + Len(said)
        /\ \A i \in 1..Len(space) + Len(said) :
              (space \o said)[i] = IF i <= Len(space) THEN space[i]
                                   ELSE said[i - Len(space)]
    BY <1>1, <1>3, ConcatProperties
  <2> QED BY <1>1, <1>3, <2>1
<1>5. ASSUME NEW i \in 1..1 + TextLength
      PROVE  (space \o said)[i][1] = t
  <2>1. CASE i = 1
    BY <1>3, <1>4, <2>1
  <2>2. CASE i # 1
    <3>1. i - 1 \in 1..TextLength /\ ~(i <= 1)
      BY <1>1, <2>2
    <3> QED BY <1>1, <1>4, <3>1
  <2> QED BY <2>1, <2>2
<1>6. Joined(t, s) = space \o said \/ Joined(t, s) = said
  BY DEF Joined, space, said
<1>7. CASE Joined(t, s) = space \o said
  BY <1>1, <1>4, <1>5, <1>7
<1>8. CASE Joined(t, s) = said
  BY <1>1, <1>8, FieldAssumption
<1> QED BY <1>6, <1>7, <1>8

LEMMA SelectedIs ==
    ASSUME NEW s \in Fields
    PROVE  Selected(s) \in Seq(Tokens) /\ Len(Selected(s)) \in Nat
<1>1. /\ s.text \in Seq(Tokens) /\ Len(s.text) \in Nat
      /\ s.start \in Nat /\ s.length \in Nat
      /\ s.start + s.length <= Len(s.text)
  BY FieldParts
<1>2. \A i \in s.start + 1 .. s.start + s.length : s.text[i] \in Tokens
  <2> SUFFICES ASSUME NEW i \in s.start + 1 .. s.start + s.length
               PROVE  s.text[i] \in Tokens
    OBVIOUS
  <2>1. i \in 1..Len(s.text)
    BY <1>1
  <2> QED BY <1>1, <2>1, ElementOfSeq
<1>3. s.start + 1 \in Int /\ s.start + s.length \in Int
  BY <1>1
<1>4. Selected(s) \in Seq(Tokens)
  BY <1>2, <1>3, SubSeqProperties DEF Selected
<1> QED BY <1>4

-----------------------------------------------------------------------------
(* Every step keeps FInv.                                                  *)

LEMMA UserKeepsField ==
    ASSUME FInv, UserTypes \/ UserDeletes \/ UserSelects \/ FocusMoves
    PROVE  FInv'
<1>0. /\ FieldTypes /\ FlagTypes /\ KeyTypes /\ StageTypes
      /\ SnapshotTypes /\ RecordTypes /\ ThreadTypes /\ NotedTypes
      /\ WatcherTypes
      /\ acts \in 0..MaxActs /\ PastesKnown /\ TypedIsRemoved
  BY Parts DEF FInv
<1>1. /\ UNCHANGED <<keys, stage, lease, before, undoable, lastInsertion,
                     caseStep, rewriting, undoStep, undoTake, removed, undone,
                     watcher>>
      /\ acts < MaxActs /\ acts' = acts + 1 /\ fresh' = {}
  BY DEF UserTypes, UserDeletes, UserSelects, FocusMoves, UserActs, takeVars,
     recordVars, caseVars, undoVars
<1>2. acts' \in 1..MaxActs /\ acts' = acts + 1
  BY <1>0, <1>1, FieldAssumption
<1>3. /\ Snapshot.text \in Seq(Tokens) /\ Snapshot.start \in Nat
      /\ Snapshot.length \in Nat
      /\ Snapshot.start + Snapshot.length <= Len(Snapshot.text)
  BY <1>0, SnapshotFits
<1>4. FieldTypes' /\ FlagTypes'
  <2>1. CASE UserTypes
    <3>1. <<User, acts + 1, "as said">> \in Tokens
      <4>1. acts + 1 \in 0..(TextLength + MaxActs)
        BY <1>0, <1>2, FieldAssumption
      <4> QED BY <4>1 DEF Tokens, Cases
    <3>2. \A token \in Tokens : <<token>> \in Seq(Tokens)
      OBVIOUS
    <3>3. /\ Types(Snapshot, <<<<User, acts + 1, "as said">>>>)
          /\ <<<<User, acts + 1, "as said">>>> \in Seq(Tokens)
      BY <2>1, <3>1, <3>2 DEF UserTypes
    <3>4. FieldTypes'
      BY <1>3, <3>3, TypingKeepsField
    <3> QED BY <1>0, <1>1, <3>3, <3>4 DEF FlagTypes, Types
  <2>2. CASE UserDeletes
    <3>1. Types(Snapshot, <<>>) /\ <<>> \in Seq(Tokens)
      BY <2>2 DEF UserDeletes
    <3>2. FieldTypes'
      BY <1>3, <3>1, TypingKeepsField
    <3> QED BY <1>0, <1>1, <3>1, <3>2 DEF FlagTypes, Types
  <2>3. CASE UserSelects
    <3>1. /\ UNCHANGED <<text, focused>> /\ start' \in 0..Len(text)
          /\ length' \in 0..(IF start' < Len(text) THEN 1 ELSE 0)
      BY <2>3 DEF UserSelects
    <3>2. Len(text) \in Nat
      BY <1>0 DEF FieldTypes
    <3>3. length' \in 0..(Len(text) - start')
      BY <3>1, <3>2
    <3> QED BY <1>0, <1>1, <3>1, <3>3 DEF FieldTypes, FlagTypes
  <2>4. CASE FocusMoves
    <3>1. UNCHANGED <<text, start, length>> /\ focused' = ~focused
      BY <2>4 DEF FocusMoves
    <3>2. focused' \in BOOLEAN
      BY <3>1, Zenon
    <3> QED BY <1>0, <1>1, <3>1, <3>2 DEF FieldTypes, FlagTypes
  <2> QED BY <2>1, <2>2, <2>3, <2>4
<1>5. /\ KeyTypes' /\ StageTypes' /\ SnapshotTypes' /\ RecordTypes'
      /\ ThreadTypes' /\ NotedTypes' /\ WatcherTypes'
  BY <1>0, <1>1 DEF KeyTypes, StageTypes, SnapshotTypes, RecordTypes,
     ThreadTypes, NotedTypes, WatcherTypes
<1>6. (acts \in 0..MaxActs)'
  BY <1>0, <1>2
<1>7. PastesKnown' /\ TypedIsRemoved'
  BY <1>0, <1>1 DEF PastesKnown, TypedIsRemoved
<1> QED BY <1>4, <1>5, <1>6, <1>7, Whole DEF FInv

\* A key that selects moves the start of a selection that stays in the text.
LEMMA KeyKeepsField ==
    ASSUME FieldTypes, FlagTypes, KeyTypes, NEW p \in Selectors, PressesLeft(p)
    PROVE  FieldTypes' /\ FlagTypes' /\ KeyTypes' /\ acts' = acts
<1>1. UNCHANGED <<text, focused, acts>> /\ keys' = [keys EXCEPT ![p] = @ + 1]
  BY DEF PressesLeft
<1>2. /\ \/ start > 0 /\ start' = start - 1 /\ length' = length + 1
         \/ UNCHANGED <<start, length>>
      /\ fresh' \subseteq fresh
  BY DEF PressesLeft
<1>3. Len(text) \in Nat /\ start \in 0..Len(text)
      /\ length \in 0..(Len(text) - start) /\ text \in Seq(Tokens)
  BY DEF FieldTypes
<1>4. start' \in 0..Len(text) /\ length' \in 0..(Len(text) - start')
  BY <1>2, <1>3
<1>5. KeyTypes'
  BY <1>1 DEF KeyTypes
<1> QED BY <1>1, <1>2, <1>3, <1>4, <1>5 DEF FieldTypes, FlagTypes

\* The last key of a transaction, too.
LEMMA SubstituteKeepsField ==
    ASSUME FieldTypes, FlagTypes, NEW p \in Selectors, NEW new \in Seq(Tokens),
           Substitutes(p, new)
    PROVE  FieldTypes' /\ FlagTypes' /\ acts' = acts
<1>1. /\ Snapshot.text \in Seq(Tokens) /\ Snapshot.start \in Nat
      /\ Snapshot.length \in Nat
      /\ Snapshot.start + Snapshot.length <= Len(Snapshot.text)
  BY SnapshotFits
<1>2. /\ \/ Types(Snapshot, new)
         \/ start # 0 /\ Types(Before(1), <<>>)
         \/ UNCHANGED <<text, start, length, focused>>
      /\ fresh' \subseteq fresh /\ acts' = acts
  BY DEF Substitutes, Backspaces
<1>3. CASE Types(Snapshot, new)
  <2>1. FieldTypes' /\ focused' = focused
    BY <1>1, <1>3, TypingKeepsField DEF Types
  <2> QED BY <1>2, <2>1 DEF FlagTypes
<1>4. CASE start # 0 /\ Types(Before(1), <<>>)
  <2>1. 1 \in Nat /\ 1 <= start
    BY <1>4 DEF FieldTypes
  <2>2. /\ Before(1).text \in Seq(Tokens) /\ Before(1).start \in Nat
        /\ Before(1).length \in Nat
        /\ Before(1).start + Before(1).length <= Len(Before(1).text)
        /\ <<>> \in Seq(Tokens)
    BY <2>1, BeforeFits
  <2>3. FieldTypes' /\ focused' = focused
    BY <1>4, <2>2, TypingKeepsField DEF Types
  <2> QED BY <1>2, <2>3 DEF FlagTypes
<1>5. CASE UNCHANGED <<text, start, length, focused>>
  BY <1>2, <1>5 DEF FieldTypes, FlagTypes
<1> QED BY <1>2, <1>3, <1>4, <1>5

\* What a case command types is text of the take it goes by.
LEMMA RewritingIs ==
    ASSUME RecordTypes, caseStep # "idle"
    PROVE  /\ rewriting[1] \in Takes /\ rewriting[2] \in Cases
           /\ TextOf(rewriting[1], Other(rewriting[2])) \in Seq(Tokens)
<1>1. rewriting[1] \in Takes /\ rewriting[2] \in Cases
  BY DEF RecordTypes
<1>2. Other(rewriting[2]) \in Cases
  BY DEF Other, Cases
<1> QED BY <1>1, <1>2, TextIs

LEMMA CaseKeepsField ==
    ASSUME FInv, CaseCommand \/ SelectForCase \/ Rewrite \/ CaseCommandEnds
    PROVE  FInv'
<1>0. /\ FieldTypes /\ FlagTypes /\ KeyTypes /\ StageTypes
      /\ SnapshotTypes /\ RecordTypes /\ ThreadTypes /\ NotedTypes
      /\ WatcherTypes
      /\ acts \in 0..MaxActs /\ PastesKnown /\ TypedIsRemoved
      /\ Command \in Selectors
  BY Parts DEF FInv, Selectors
<1>1. UNCHANGED <<stage, lease, before, undoable, undoStep, undoTake, removed,
                  undone, watcher>>
  BY DEF CaseCommand, SelectForCase, Rewrite, CaseCommandEnds, takeVars,
     recordVars, undoVars
<1>2. ASSUME CaseCommand
      PROVE  FieldTypes' /\ FlagTypes' /\ KeyTypes' /\ RecordTypes'
             /\ (acts \in 0..MaxActs)'
  <2>1. /\ UNCHANGED <<text, start, length, focused, keys, undoable,
                       lastInsertion>>
        /\ acts < MaxActs /\ acts' = acts + 1
        /\ fresh' = fresh \cup {Command}
        /\ caseStep' = "looked" /\ rewriting' = lastInsertion
        /\ lastInsertion # None
    BY <1>2 DEF CaseCommand
  <2>2. FieldTypes' /\ FlagTypes' /\ KeyTypes' /\ RecordTypes'
    BY <1>0, <2>1 DEF FieldTypes, FlagTypes, KeyTypes, RecordTypes
  <2>3. acts' \in 0..MaxActs
    BY <1>0, <2>1, FieldAssumption
  <2> QED BY <2>2, <2>3
<1>3. ASSUME SelectForCase
      PROVE  FieldTypes' /\ FlagTypes' /\ KeyTypes' /\ RecordTypes'
             /\ (acts \in 0..MaxActs)'
  <2>1. PressesLeft(Command) /\ UNCHANGED recordVars
    BY <1>3 DEF SelectForCase
  <2>2. RecordTypes'
    BY <1>0, <2>1 DEF RecordTypes, recordVars, caseVars
  <2> QED BY <1>0, <2>1, <2>2, KeyKeepsField
<1>4. ASSUME Rewrite
      PROVE  FieldTypes' /\ FlagTypes' /\ KeyTypes' /\ RecordTypes'
             /\ (acts \in 0..MaxActs)'
  <2>1. /\ Substitutes(Command, TextOf(rewriting[1], Other(rewriting[2])))
        /\ keys' = [keys EXCEPT ![Command] = 0]
        /\ caseStep = "looked" /\ caseStep' = "typed"
        /\ UNCHANGED <<undoable, lastInsertion, rewriting>>
    BY <1>4 DEF Rewrite
  <2>2. KeyTypes' /\ RecordTypes'
    BY <1>0, <2>1 DEF KeyTypes, RecordTypes
  <2>3. TextOf(rewriting[1], Other(rewriting[2])) \in Seq(Tokens)
    BY <1>0, <2>1, RewritingIs
  <2> QED BY <1>0, <2>1, <2>2, <2>3, SubstituteKeepsField
<1>5. ASSUME CaseCommandEnds
      PROVE  FieldTypes' /\ FlagTypes' /\ KeyTypes' /\ RecordTypes'
             /\ (acts \in 0..MaxActs)'
  <2>1. /\ caseStep = "typed" /\ caseStep' = "idle" /\ rewriting' = None
        /\ UNCHANGED <<text, start, length, focused, acts, fresh, keys,
                       undoable>>
        /\ lastInsertion' =
               IF lastInsertion = None THEN None
               ELSE <<lastInsertion[1], Other(rewriting[2])>>
    BY <1>5 DEF CaseCommandEnds, fieldVars, field
  <2>2. lastInsertion # None => lastInsertion[1] \in Takes
    BY <1>0 DEF RecordTypes
  <2>3. Other(rewriting[2]) \in Cases
    BY DEF Other, Cases
  <2>4. lastInsertion' \in (Takes \X Cases) \cup {None}
    BY <2>1, <2>2, <2>3
  <2> QED BY <1>0, <2>1, <2>4 DEF FieldTypes, FlagTypes, KeyTypes, RecordTypes
<1>6. FieldTypes' /\ FlagTypes' /\ KeyTypes' /\ RecordTypes'
      /\ (acts \in 0..MaxActs)'
  BY <1>2, <1>3, <1>4, <1>5
<1>7. /\ StageTypes' /\ SnapshotTypes' /\ ThreadTypes' /\ NotedTypes'
      /\ WatcherTypes'
  BY <1>0, <1>1 DEF StageTypes, SnapshotTypes, ThreadTypes, NotedTypes,
     WatcherTypes
<1>8. PastesKnown' /\ TypedIsRemoved'
  BY <1>0, <1>1 DEF PastesKnown, TypedIsRemoved
<1> QED BY <1>6, <1>7, <1>8, Whole DEF FInv

LEMMA InsertionKeepsField ==
    ASSUME FInv, NEW t \in Takes,
           \/ Press(t) \/ Resolve(t) \/ Refuse(t) \/ Paste(t) \/ Verify(t)
           \/ DoNotVerify(t)
    PROVE  FInv'
<1>0. /\ FieldTypes /\ FlagTypes /\ KeyTypes /\ StageTypes
      /\ SnapshotTypes /\ RecordTypes /\ ThreadTypes /\ NotedTypes
      /\ WatcherTypes
      /\ acts \in 0..MaxActs /\ PastesKnown /\ TypedIsRemoved
  BY Parts DEF FInv
<1>1. /\ UNCHANGED <<acts, keys, caseStep, rewriting, undoStep, undoTake,
                     removed, undone>>
      /\ \E step \in {"pressed", "pasting", "pasted", "done"} :
            stage' = [stage EXCEPT ![t] = step]
  BY DEF Press, Resolve, Refuse, Paste, Verify, DoNotVerify, fieldVars, field,
     recordVars, caseVars, undoVars
<1>2. StageTypes' /\ KeyTypes'
  BY <1>0, <1>1 DEF StageTypes, KeyTypes
<1>3. ThreadTypes' /\ NotedTypes' /\ (acts \in 0..MaxActs)' /\ TypedIsRemoved'
  BY <1>0, <1>1 DEF ThreadTypes, NotedTypes, TypedIsRemoved
<1>4. Snapshot \in Fields /\ Snapshot \in Snapshots
  BY <1>0, SnapshotFits, FieldParts
<1>5. ASSUME UNCHANGED <<text, start, length, focused, fresh>>
      PROVE  FieldTypes' /\ FlagTypes'
  BY <1>0, <1>1, <1>5 DEF FieldTypes, FlagTypes
<1>6. ASSUME UNCHANGED <<undoable, lastInsertion, watcher>>
      PROVE  RecordTypes' /\ WatcherTypes'
  BY <1>0, <1>1, <1>6 DEF RecordTypes, WatcherTypes
<1>7. ASSUME Press(t) \/ Refuse(t) \/ DoNotVerify(t)
      PROVE  FInv'
  <2>1. /\ UNCHANGED <<text, start, length, focused, fresh, before, undoable,
                       lastInsertion, watcher>>
        /\ \E step \in {"pressed", "done"} :
              stage' = [stage EXCEPT ![t] = step]
        /\ lease' = lease \/ \E l \in {Snapshot, None} :
              lease' = [lease EXCEPT ![t] = l]
    BY <1>7 DEF Press, Refuse, DoNotVerify, fieldVars, field, recordVars
  <2>2. SnapshotTypes'
    BY <1>0, <1>4, <2>1 DEF SnapshotTypes
  <2>3. PastesKnown'
    <3>1. \A u \in Takes : stage'[u] \in {"pasting", "pasted"} =>
            stage[u] \in {"pasting", "pasted"}
      BY <1>0, <2>1 DEF StageTypes
    <3> QED BY <1>0, <1>1, <2>1, <3>1 DEF PastesKnown
  <2> QED BY <1>2, <1>3, <1>5, <1>6, <2>1, <2>2, <2>3, Whole DEF FInv
<1>8. ASSUME Resolve(t)
      PROVE  FInv'
  <2>1. /\ UNCHANGED <<text, start, length, focused, fresh, undoable,
                       lastInsertion, watcher>>
        /\ before' = [before EXCEPT ![t] = Snapshot]
        /\ lease' = [lease EXCEPT ![t] = None]
    BY <1>8 DEF Resolve, fieldVars, field, recordVars
  <2>2. SnapshotTypes'
    BY <1>0, <1>4, <2>1 DEF SnapshotTypes
  <2>3. before'[t] = Snapshot /\ \A u \in Takes \ {t} : before'[u] = before[u]
    BY <1>0, <2>1 DEF SnapshotTypes
  <2>4. PastesKnown'
    <3>1. \A u \in Takes : before[u] \in Fields => before'[u] \in Fields
      BY <1>4, <2>3
    <3>2. ASSUME NEW u \in Takes, stage'[u] \in {"pasting", "pasted"}
          PROVE  before'[u] \in Fields
      <4>1. CASE u = t
        BY <1>4, <2>3, <4>1
      <4>2. CASE u # t
        BY <1>0, <1>1, <3>1, <3>2, <4>2 DEF StageTypes, PastesKnown
      <4> QED BY <4>1, <4>2
    <3> QED BY <1>0, <1>1, <2>1, <3>1, <3>2
            DEF PastesKnown, ThreadTypes, RecordTypes
  <2> QED BY <1>2, <1>3, <1>5, <1>6, <2>1, <2>2, <2>4, Whole DEF FInv
<1>9. ASSUME Paste(t)
      PROVE  FInv'
  <2>1. /\ stage[t] = "pasting" /\ stage' = [stage EXCEPT ![t] = "pasted"]
        /\ UNCHANGED <<lease, before, undoable, lastInsertion, watcher>>
        /\ \/ Types(Snapshot, Inserted(t)) /\ fresh' = {}
           \/ UNCHANGED <<text, start, length, focused, fresh>>
    BY <1>9 DEF Paste, recordVars
  <2>2. SnapshotTypes'
    BY <1>0, <2>1 DEF SnapshotTypes
  <2>3. PastesKnown'
    <3>1. \A u \in Takes : stage'[u] \in {"pasting", "pasted"} =>
            stage[u] \in {"pasting", "pasted"}
      BY <1>0, <2>1 DEF StageTypes
    <3> QED BY <1>0, <1>1, <2>1, <3>1 DEF PastesKnown
  <2>4. FieldTypes' /\ FlagTypes'
    <3>1. CASE Types(Snapshot, Inserted(t)) /\ fresh' = {}
      <4>1. Inserted(t) \in Seq(Tokens)
        BY JoinedIs DEF Inserted
      <4>2. /\ Snapshot.text \in Seq(Tokens) /\ Snapshot.start \in Nat
            /\ Snapshot.length \in Nat
            /\ Snapshot.start + Snapshot.length <= Len(Snapshot.text)
        BY <1>0, SnapshotFits
      <4>3. FieldTypes'
        BY <3>1, <4>1, <4>2, TypingKeepsField
      <4> QED BY <1>0, <3>1, <4>3 DEF Types, FlagTypes
    <3> QED BY <1>5, <2>1, <3>1
  <2> QED BY <1>2, <1>3, <1>6, <2>1, <2>2, <2>3, <2>4, Whole DEF FInv
<1>10. ASSUME Verify(t)
       PROVE  FInv'
  <2>1. /\ UNCHANGED <<text, start, length, focused, fresh, lease, before>>
        /\ stage[t] = "pasted" /\ stage' = [stage EXCEPT ![t] = "done"]
        /\ undoable' = t
        /\ lastInsertion' = lastInsertion \/ lastInsertion' = <<t, "as said">>
        /\ watcher' = watcher \/ watcher' = [watcher EXCEPT ![t] = "watching"]
    BY <1>10 DEF Verify, fieldVars, field
  <2>2. <<t, "as said">> \in Takes \X Cases
    BY DEF Cases
  <2>3. RecordTypes' /\ WatcherTypes' /\ SnapshotTypes'
    BY <1>0, <1>1, <2>1, <2>2 DEF RecordTypes, WatcherTypes, SnapshotTypes
  <2>4. PastesKnown'
    <3>1. \A u \in Takes : stage'[u] \in {"pasting", "pasted"} =>
            stage[u] \in {"pasting", "pasted"}
      BY <1>0, <2>1 DEF StageTypes
    <3>2. before[t] \in Fields
      BY <1>0, <2>1 DEF PastesKnown
    <3> QED BY <1>0, <1>1, <2>1, <3>1, <3>2 DEF PastesKnown
  <2> QED BY <1>2, <1>3, <1>5, <2>1, <2>3, <2>4, Whole DEF FInv
<1> QED BY <1>7, <1>8, <1>9, <1>10

LEMMA WatcherKeepsField ==
    ASSUME FInv, NEW t \in Takes, StopWatching(t) \/ Poll(t) \/ Learn(t)
    PROVE  FInv'
<1>0. /\ FieldTypes /\ FlagTypes /\ KeyTypes /\ StageTypes
      /\ SnapshotTypes /\ RecordTypes /\ ThreadTypes /\ NotedTypes
      /\ WatcherTypes
      /\ acts \in 0..MaxActs /\ PastesKnown /\ TypedIsRemoved
  BY Parts DEF FInv
<1>1. UNCHANGED <<text, start, length, focused, acts, fresh, keys, stage,
                  lease, before, undoable, lastInsertion, caseStep, rewriting,
                  undoStep, undoTake, removed, undone>>
  BY DEF StopWatching, Poll, Learn, WatcherVars, fieldVars, field, takeVars,
     recordVars, caseVars, undoVars
<1>2. WatcherTypes'
  BY <1>0 DEF WatcherTypes, StopWatching, Poll, Learn
<1>3. /\ FieldTypes' /\ FlagTypes' /\ KeyTypes' /\ StageTypes'
      /\ SnapshotTypes' /\ RecordTypes' /\ ThreadTypes' /\ NotedTypes'
      /\ (acts \in 0..MaxActs)'
  BY <1>0, <1>1 DEF FieldTypes, FlagTypes, KeyTypes, StageTypes,
     SnapshotTypes, RecordTypes, ThreadTypes, NotedTypes
<1>4. PastesKnown' /\ TypedIsRemoved'
  BY <1>0, <1>1 DEF PastesKnown, TypedIsRemoved
<1> QED BY <1>2, <1>3, <1>4, Whole DEF FInv

LEMMA UndoKeepsField ==
    ASSUME FInv, NEW a \in Undoers,
           \/ Claim(a) \/ RefuseUndo(a) \/ LookForUndo(a) \/ SelectForUndo(a)
           \/ Undo(a) \/ ProveUndo(a) \/ ClearLastInsertion(a)
           \/ DoNotProveUndo(a)
    PROVE  FInv'
<1>0. /\ FieldTypes /\ FlagTypes /\ KeyTypes /\ StageTypes
      /\ SnapshotTypes /\ RecordTypes /\ ThreadTypes /\ NotedTypes
      /\ WatcherTypes
      /\ acts \in 0..MaxActs /\ PastesKnown /\ TypedIsRemoved
      /\ a \in Selectors
  BY Parts DEF FInv, Selectors
<1>1. UNCHANGED <<acts, stage, lease, before, caseStep, rewriting, watcher>>
  BY DEF Claim, RefuseUndo, LookForUndo, SelectForUndo, PressesLeft, Undo,
     Substitutes, ProveUndo, ClearLastInsertion, DoNotProveUndo, fieldVars,
     field, takeVars, recordVars, caseVars
<1>2. /\ StageTypes' /\ SnapshotTypes' /\ WatcherTypes' /\ (acts \in 0..MaxActs)'
  BY <1>0, <1>1 DEF StageTypes, SnapshotTypes, WatcherTypes
<1>3. \A b \in Undoers : undoStep[b] # "idle" =>
        undoTake[b] \in Takes /\ before[undoTake[b]] \in Fields
  BY <1>0 DEF PastesKnown
<1>4. ASSUME NEW t, NEW step \in {"idle", "claimed", "looked", "typed", "clearing"},
             Doing(a, t, step), t \in Takes \cup {None},
             step # "idle" => t \in Takes /\ before[t] \in Fields,
             undoable' \in {undoable, None}
      PROVE  ThreadTypes' /\ PastesKnown'
  <2>1. /\ undoStep' = [undoStep EXCEPT ![a] = step]
        /\ undoTake' = [undoTake EXCEPT ![a] = t]
    BY <1>4 DEF Doing
  <2>2. ThreadTypes'
    BY <1>0, <1>4, <2>1 DEF ThreadTypes
  <2>3. /\ undoStep'[a] = step /\ undoTake'[a] = t
        /\ \A b \in Undoers \ {a} :
              undoStep'[b] = undoStep[b] /\ undoTake'[b] = undoTake[b]
    BY <1>0, <2>1 DEF ThreadTypes
  <2>4. \A b \in Undoers : undoStep'[b] # "idle" =>
          undoTake'[b] \in Takes /\ before[undoTake'[b]] \in Fields
    BY <1>3, <1>4, <2>3
  <2>5. undoable' # None => before[undoable'] \in Fields
    BY <1>0, <1>4 DEF PastesKnown
  <2> QED BY <1>0, <1>1, <2>2, <2>4, <2>5 DEF PastesKnown
<1>5. ASSUME Doing(a, undoTake[a], "idle") \/ Doing(a, None, "idle")
             \/ \E t : \/ Doing(a, t, "claimed") \/ Doing(a, t, "looked")
                       \/ Doing(a, t, "clearing"),
             removed' = removed
      PROVE  TypedIsRemoved'
  BY <1>0, <1>5 DEF TypedIsRemoved, ThreadTypes, Doing
<1>6. ASSUME UNCHANGED <<text, start, length, focused, keys>>,
             fresh' \subseteq fresh \cup {a}
      PROVE  FieldTypes' /\ FlagTypes' /\ KeyTypes'
  BY <1>0, <1>1, <1>6 DEF FieldTypes, FlagTypes, KeyTypes
<1>7. ASSUME Claim(a)
      PROVE  FInv'
  <2>1. /\ UNCHANGED <<text, start, length, focused, fresh, keys,
                       lastInsertion, removed, undone>>
        /\ undoable # None /\ Doing(a, undoable, "claimed") /\ undoable' = None
    BY <1>7 DEF Claim, fieldVars, field
  <2>2. undoable \in Takes /\ before[undoable] \in Fields
    BY <1>0, <2>1 DEF RecordTypes, PastesKnown
  <2>3. PICK t \in Takes : t = undoable
    BY <2>2
  <2>4. ThreadTypes' /\ PastesKnown'
    BY <1>4, <2>1, <2>2, <2>3
  <2>5. RecordTypes' /\ NotedTypes'
    BY <1>0, <1>1, <2>1 DEF RecordTypes, NotedTypes
  <2>6. TypedIsRemoved'
    BY <1>5, <2>1
  <2> QED BY <1>2, <1>6, <2>1, <2>4, <2>5, <2>6, Whole DEF FInv
<1>8. ASSUME RefuseUndo(a) \/ LookForUndo(a)
      PROVE  FInv'
  <2>1. /\ UNCHANGED <<text, start, length, focused, keys, undoable,
                       lastInsertion, removed, undone>>
        /\ fresh' \subseteq fresh \cup {a}
        /\ \/ Doing(a, None, "idle")
           \/ undoStep[a] = "claimed" /\ Doing(a, undoTake[a], "looked")
    BY <1>8 DEF RefuseUndo, LookForUndo, field, recordVars
  <2>2. ThreadTypes' /\ PastesKnown' /\ TypedIsRemoved'
    BY <1>3, <1>4, <1>5, <2>1
  <2>3. RecordTypes' /\ NotedTypes'
    BY <1>0, <1>1, <2>1 DEF RecordTypes, NotedTypes
  <2> QED BY <1>2, <1>6, <2>1, <2>2, <2>3, Whole DEF FInv
<1>9. ASSUME SelectForUndo(a)
      PROVE  FInv'
  <2>1. /\ PressesLeft(a)
        /\ UNCHANGED <<undoable, lastInsertion, undoStep, undoTake, removed,
                       undone>>
    BY <1>9 DEF SelectForUndo, recordVars, undoVars
  <2>2. FieldTypes' /\ FlagTypes' /\ KeyTypes'
    BY <1>0, <2>1, KeyKeepsField
  <2>3. /\ RecordTypes' /\ NotedTypes' /\ ThreadTypes' /\ PastesKnown'
        /\ TypedIsRemoved'
    BY <1>0, <1>1, <2>1 DEF RecordTypes, NotedTypes, ThreadTypes, PastesKnown,
       TypedIsRemoved
  <2> QED BY <1>2, <2>2, <2>3, Whole DEF FInv
<1>10. ASSUME Undo(a)
       PROVE  FInv'
  <2>1. /\ undoStep[a] = "looked"
        /\ Substitutes(a, Selected(before[undoTake[a]]))
        /\ keys' = [keys EXCEPT ![a] = 0]
        /\ removed' = removed \cup {undoTake[a]}
        /\ Doing(a, undoTake[a], "typed")
        /\ UNCHANGED <<undoable, lastInsertion, undone>>
    BY <1>10 DEF Undo, recordVars
  <2>2. PICK t \in Takes : t = undoTake[a] /\ before[t] \in Fields
    BY <1>3, <2>1
  <2>3. Selected(before[t]) \in Seq(Tokens)
    BY <2>2, SelectedIs
  <2>4. FieldTypes' /\ FlagTypes'
    BY <1>0, <2>1, <2>2, <2>3, SubstituteKeepsField
  <2>5. KeyTypes'
    BY <1>0, <2>1 DEF KeyTypes
  <2>6. ThreadTypes' /\ PastesKnown'
    BY <1>4, <2>1, <2>2
  <2>7. RecordTypes' /\ NotedTypes'
    BY <1>0, <1>1, <2>1, <2>2 DEF RecordTypes, NotedTypes
  <2>8. TypedIsRemoved'
    BY <1>0, <2>1 DEF TypedIsRemoved, ThreadTypes, Doing
  <2> QED BY <1>2, <2>4, <2>5, <2>6, <2>7, <2>8, Whole DEF FInv
<1>11. ASSUME ProveUndo(a) \/ DoNotProveUndo(a)
       PROVE  FInv'
  <2>1. /\ UNCHANGED <<text, start, length, focused, fresh, keys, undoable,
                       lastInsertion, removed>>
        /\ undoStep[a] = "typed" /\ undone' = undone \cup {undoTake[a]}
        /\ Doing(a, undoTake[a], "clearing") \/ Doing(a, None, "idle")
    BY <1>11 DEF ProveUndo, DoNotProveUndo, fieldVars, field, recordVars
  <2>2. PICK t \in Takes : t = undoTake[a] /\ before[t] \in Fields
    BY <1>3, <2>1
  <2>3. t \in removed
    BY <1>0, <2>1, <2>2 DEF TypedIsRemoved
  <2>4. ThreadTypes' /\ PastesKnown' /\ TypedIsRemoved'
    BY <1>4, <1>5, <2>1, <2>2
  <2>5. RecordTypes' /\ NotedTypes'
    BY <1>0, <1>1, <2>1, <2>2, <2>3 DEF RecordTypes, NotedTypes
  <2> QED BY <1>2, <1>6, <2>1, <2>4, <2>5, Whole DEF FInv
<1>12. ASSUME ClearLastInsertion(a)
       PROVE  FInv'
  <2>1. /\ UNCHANGED <<text, start, length, focused, fresh, keys, undoable,
                       removed, undone>>
        /\ lastInsertion' = None /\ Doing(a, None, "idle")
    BY <1>12 DEF ClearLastInsertion, fieldVars, field
  <2>2. ThreadTypes' /\ PastesKnown' /\ TypedIsRemoved'
    BY <1>4, <1>5, <2>1
  <2>3. RecordTypes' /\ NotedTypes'
    BY <1>0, <1>1, <2>1 DEF RecordTypes, NotedTypes
  <2> QED BY <1>2, <1>6, <2>1, <2>2, <2>3, Whole DEF FInv
<1> QED BY <1>7, <1>8, <1>9, <1>10, <1>11, <1>12

LEMMA StepKeepsField == FInv /\ [Next]_vars => FInv'
<1> SUFFICES ASSUME FInv, [Next]_vars
             PROVE  FInv'
  OBVIOUS
<1>1. ASSUME UNCHANGED vars
      PROVE  FInv'
  <2>0. /\ FieldTypes /\ FlagTypes /\ KeyTypes /\ StageTypes
        /\ SnapshotTypes /\ RecordTypes /\ ThreadTypes /\ NotedTypes
        /\ WatcherTypes
        /\ acts \in 0..MaxActs /\ PastesKnown /\ TypedIsRemoved
    BY Parts DEF FInv
  <2>1. /\ FieldTypes' /\ FlagTypes' /\ KeyTypes' /\ StageTypes'
        /\ SnapshotTypes' /\ RecordTypes' /\ ThreadTypes' /\ NotedTypes'
        /\ WatcherTypes' /\ (acts \in 0..MaxActs)'
    BY <1>1, <2>0 DEF vars, fieldVars, field, takeVars, recordVars, caseVars,
       undoVars, FieldTypes, FlagTypes, KeyTypes, StageTypes, SnapshotTypes,
       RecordTypes, ThreadTypes, NotedTypes, WatcherTypes
  <2>2. PastesKnown' /\ TypedIsRemoved'
    BY <1>1, <2>0 DEF vars, takeVars, recordVars, undoVars, PastesKnown,
       TypedIsRemoved
  <2> QED BY <2>1, <2>2, Whole DEF FInv
<1> QED
  BY <1>1, UserKeepsField, CaseKeepsField, InsertionKeepsField,
     WatcherKeepsField, UndoKeepsField
  DEF Next

LEMMA InitIsField == Init => FInv
<1> SUFFICES ASSUME Init PROVE FInv
  OBVIOUS
<1>1. FieldTypes
  <2>1. text = <<>> /\ start = 0 /\ length = 0
    BY DEF Init
  <2> QED BY <2>1 DEF FieldTypes
<1>2. FlagTypes /\ KeyTypes
  BY DEF Init, FlagTypes, KeyTypes
<1>3. acts \in 0..MaxActs
  BY FieldAssumption DEF Init
<1>4. /\ StageTypes /\ SnapshotTypes /\ RecordTypes /\ ThreadTypes
      /\ NotedTypes /\ WatcherTypes
  BY DEF Init, StageTypes, SnapshotTypes, RecordTypes, ThreadTypes,
     NotedTypes, WatcherTypes
<1>5. PastesKnown /\ TypedIsRemoved
  BY DEF Init, PastesKnown, TypedIsRemoved
<1> QED BY <1>1, <1>2, <1>3, <1>4, <1>5, Parts DEF FInv

-----------------------------------------------------------------------------
(* From a look at the field to the last key.                               *)

\* What is undoable, or is being undone, has had its turn.
Settled ==
    /\ undoable # None => stage[undoable] = "done"
    /\ \A a \in Undoers : undoStep[a] # "idle" => stage[undoTake[a]] = "done"

\* Nobody has pressed keys who has not looked.
KeysAfterLook ==
    /\ \A a \in Undoers : undoStep[a] # "looked" => keys[a] = 0
    /\ caseStep # "looked" => keys[Command] = 0

\* The field with a caret where the selection ends.
FarEnd == [text |-> text, start |-> start + length, length |-> 0]

\* While the look of an undo is fresh it has selected one character for each
\* key, and what it looked at is still there.
UndoIsFresh(a, t) ==
    /\ undoStep[a] = "looked" /\ focused
    /\ length = keys[a] /\ keys[a] <= Len(Inserted(t))
    /\ Matches(FarEnd, Expected(t))

\* The same of a case command.
CaseIsFresh ==
    /\ caseStep = "looked" /\ focused
    /\ length = keys[Command] /\ keys[Command] <= TextLength
    /\ TextLength <= FarEnd.start
    /\ SubSeq(text, FarEnd.start - TextLength + 1, FarEnd.start)
         = TextOf(rewriting[1], rewriting[2])

FreshLooks ==
    /\ \A a \in fresh \cap Undoers : \E t \in Takes :
          undoTake[a] = t /\ UndoIsFresh(a, t)
    /\ Command \in fresh => CaseIsFresh

\* The inductive invariant of the field.
GInv == FInv /\ Settled /\ KeysAfterLook /\ FreshLooks

\* A take that is done stays done, with the field of its paste.
LEMMA DoneIsDone ==
    ASSUME FInv, Next, NEW t \in Takes, stage[t] = "done"
    PROVE  stage'[t] = "done" /\ before'[t] = before[t]
<1>1. /\ stage \in [Takes -> {"idle", "pressed", "pasting", "pasted", "done"}]
      /\ before \in [Takes -> Snapshots \cup {None}]
  BY DEF FInv, TypeOK
<1>2. ASSUME NEW u \in Takes, \/ Press(u) \/ Resolve(u) \/ Refuse(u)
                              \/ Paste(u) \/ Verify(u) \/ DoNotVerify(u)
      PROVE  stage'[t] = "done" /\ before'[t] = before[t]
  <2>1. /\ stage[u] # "done"
        /\ \E step : stage' = [stage EXCEPT ![u] = step]
        /\ before' = before \/ before' = [before EXCEPT ![u] = Snapshot]
    BY <1>2 DEF Press, Resolve, Refuse, Paste, Verify, DoNotVerify
  <2> QED BY <1>1, <2>1
<1>3. ASSUME UserTypes \/ UserDeletes \/ UserSelects \/ FocusMoves
      PROVE  UNCHANGED <<stage, before>>
  BY <1>3 DEF UserTypes, UserDeletes, UserSelects, FocusMoves, UserActs,
     takeVars
<1>4. ASSUME CaseCommand \/ SelectForCase \/ Rewrite \/ CaseCommandEnds
      PROVE  UNCHANGED <<stage, before>>
  BY <1>4 DEF CaseCommand, SelectForCase, Rewrite, CaseCommandEnds, takeVars
<1>5. ASSUME NEW u \in Takes, StopWatching(u) \/ Poll(u) \/ Learn(u)
      PROVE  UNCHANGED <<stage, before>>
  BY <1>5 DEF StopWatching, Poll, Learn, WatcherVars, takeVars
<1>6. ASSUME NEW a \in Undoers,
             \/ Claim(a) \/ RefuseUndo(a) \/ LookForUndo(a)
             \/ SelectForUndo(a) \/ Undo(a) \/ ProveUndo(a)
             \/ ClearLastInsertion(a) \/ DoNotProveUndo(a)
      PROVE  UNCHANGED <<stage, before>>
  BY <1>6 DEF Claim, RefuseUndo, LookForUndo, SelectForUndo, Undo, ProveUndo,
     ClearLastInsertion, DoNotProveUndo, takeVars
<1> QED BY <1>2, <1>3, <1>4, <1>5, <1>6 DEF Next

\* What a step of anybody else may do to a thread that selects: it does not
\* press its keys, and a look that is still fresh has found the same field.
LeavesAlone(p) ==
    /\ keys'[p] = keys[p]
    /\ p \in fresh' => /\ p \in fresh
                       /\ UNCHANGED <<text, start, length, focused>>

LEMMA OthersLeaveAlone ==
    ASSUME FInv, NEW p \in Selectors, NEW q \in Selectors \ {p},
           \/ PressesLeft(q)
           \/ /\ \E new : Substitutes(q, new)
              /\ keys' = [keys EXCEPT ![q] = 0]
    PROVE  LeavesAlone(p)
<1>1. keys'[p] = keys[p]
  BY DEF PressesLeft, FInv, TypeOK
<1>2. CASE PressesLeft(q)
  BY <1>1, <1>2 DEF PressesLeft, LeavesAlone
<1>3. CASE \E new : Substitutes(q, new)
  BY <1>1, <1>3 DEF Substitutes, LeavesAlone
<1> QED BY <1>2, <1>3

\* Steps of the user, of insertions and of watchers leave every thread alone.
LEMMA BystandersLeaveAlone ==
    ASSUME NEW p \in Selectors,
           \/ UserTypes \/ UserDeletes \/ UserSelects \/ FocusMoves
           \/ \E t \in Takes :
                 \/ Press(t) \/ Resolve(t) \/ Refuse(t) \/ Paste(t)
                 \/ Verify(t) \/ DoNotVerify(t)
                 \/ StopWatching(t) \/ Poll(t) \/ Learn(t)
    PROVE  LeavesAlone(p) /\ UNCHANGED <<undoStep, undoTake, caseVars>>
<1>1. CASE UserTypes \/ UserDeletes \/ UserSelects \/ FocusMoves
  BY <1>1 DEF UserTypes, UserDeletes, UserSelects, FocusMoves, UserActs,
     LeavesAlone, recordVars, undoVars
<1>2. CASE \E t \in Takes : \/ Press(t) \/ Resolve(t) \/ Refuse(t) \/ Verify(t)
                            \/ DoNotVerify(t)
  BY <1>2 DEF Press, Resolve, Refuse, Verify, DoNotVerify, LeavesAlone,
     fieldVars, field, recordVars, undoVars
<1>3. CASE \E t \in Takes : Paste(t)
  BY <1>3 DEF Paste, LeavesAlone, recordVars, undoVars
<1>4. CASE \E t \in Takes : StopWatching(t) \/ Poll(t) \/ Learn(t)
  BY <1>4 DEF StopWatching, Poll, Learn, WatcherVars, LeavesAlone, fieldVars,
     field, recordVars, undoVars
<1> QED BY <1>1, <1>2, <1>3, <1>4

\* The steps of one undo thread, and of the case command.
UndoSteps(a) ==
    \/ Claim(a) \/ RefuseUndo(a) \/ LookForUndo(a) \/ SelectForUndo(a)
    \/ Undo(a) \/ ProveUndo(a) \/ ClearLastInsertion(a) \/ DoNotProveUndo(a)

CaseSteps == CaseCommand \/ SelectForCase \/ Rewrite \/ CaseCommandEnds

LEMMA UndoersLeaveAlone ==
    ASSUME FInv, NEW a \in Undoers, UndoSteps(a), NEW p \in Selectors \ {a}
    PROVE  /\ LeavesAlone(p) /\ UNCHANGED caseVars
           /\ \A b \in Undoers \ {a} :
                 undoStep'[b] = undoStep[b] /\ undoTake'[b] = undoTake[b]
<1>0. /\ undoStep \in [Undoers -> {"idle", "claimed", "looked", "typed",
                                   "clearing"}]
      /\ undoTake \in [Undoers -> Takes \cup {None}]
      /\ a \in Selectors /\ a \in Selectors \ {p}
  BY DEF FInv, TypeOK, Selectors
<1>1. /\ UNCHANGED caseVars
      /\ \/ UNCHANGED <<undoStep, undoTake>>
         \/ \E t, step : Doing(a, t, step)
  BY DEF UndoSteps, Claim, RefuseUndo, LookForUndo, SelectForUndo, Undo,
     ProveUndo, ClearLastInsertion, DoNotProveUndo, recordVars, undoVars
<1>2. \A b \in Undoers \ {a} :
        undoStep'[b] = undoStep[b] /\ undoTake'[b] = undoTake[b]
  BY <1>0, <1>1 DEF Doing
<1>3. CASE SelectForUndo(a) \/ Undo(a)
  <2>1. \/ PressesLeft(a)
        \/ /\ \E new : Substitutes(a, new)
           /\ keys' = [keys EXCEPT ![a] = 0]
    BY <1>3 DEF SelectForUndo, Undo
  <2> QED BY <1>0, <1>1, <1>2, <2>1, OthersLeaveAlone
<1>4. CASE \/ Claim(a) \/ RefuseUndo(a) \/ LookForUndo(a) \/ ProveUndo(a)
           \/ ClearLastInsertion(a) \/ DoNotProveUndo(a)
  <2>1. /\ UNCHANGED <<text, start, length, focused, keys>>
        /\ fresh' \subseteq fresh \cup {a}
    BY <1>4 DEF Claim, RefuseUndo, LookForUndo, ProveUndo, ClearLastInsertion,
       DoNotProveUndo, fieldVars, field
  <2> QED BY <1>1, <1>2, <2>1 DEF LeavesAlone
<1> QED BY <1>3, <1>4 DEF UndoSteps

LEMMA CaseLeavesAlone ==
    ASSUME FInv, CaseSteps, NEW a \in Undoers
    PROVE  LeavesAlone(a) /\ UNCHANGED <<undoStep, undoTake>>
<1>0. a \in Selectors /\ Command \in Selectors \ {a} /\ Command # a
  BY FieldAssumption DEF Selectors
<1>1. UNCHANGED <<undoStep, undoTake>>
  BY DEF CaseSteps, CaseCommand, SelectForCase, Rewrite, CaseCommandEnds,
     undoVars
<1>2. CASE SelectForCase \/ Rewrite
  <2>1. \/ PressesLeft(Command)
        \/ /\ \E new : Substitutes(Command, new)
           /\ keys' = [keys EXCEPT ![Command] = 0]
    BY <1>2 DEF SelectForCase, Rewrite
  <2> QED BY <1>0, <1>1, <2>1, OthersLeaveAlone
<1>3. CASE CaseCommand \/ CaseCommandEnds
  <2>1. /\ UNCHANGED <<text, start, length, focused, keys>>
        /\ fresh' \subseteq fresh \cup {Command}
    BY <1>3 DEF CaseCommand, CaseCommandEnds, fieldVars, field
  <2> QED BY <1>0, <1>1, <2>1 DEF LeavesAlone
<1> QED BY <1>2, <1>3 DEF CaseSteps

\* Of what undo threads go by, only its own thread changes the take.
LEMMA StepKeepsSettled ==
    ASSUME FInv, Settled, Next
    PROVE  Settled'
<1>0. /\ undoable \in Takes \cup {None}
      /\ undoStep \in [Undoers -> {"idle", "claimed", "looked", "typed",
                                   "clearing"}]
      /\ undoTake \in [Undoers -> Takes \cup {None}]
      /\ \A a \in Undoers : undoStep[a] # "idle" => undoTake[a] \in Takes
  BY DEF FInv, TypeOK, PastesKnown
<1>1. \A t \in Takes : stage[t] = "done" => stage'[t] = "done"
  BY DoneIsDone
<1>2. ASSUME UNCHANGED <<undoStep, undoTake>>,
             \/ undoable' = undoable
             \/ \E t \in Takes : undoable' = t /\ stage'[t] = "done"
      PROVE  Settled'
  BY <1>0, <1>1, <1>2 DEF Settled
<1>3. ASSUME NEW t \in Takes,
             \/ Press(t) \/ Resolve(t) \/ Refuse(t) \/ Paste(t) \/ Verify(t)
             \/ DoNotVerify(t) \/ StopWatching(t) \/ Poll(t) \/ Learn(t)
      PROVE  Settled'
  <2>1. UNCHANGED <<undoStep, undoTake>>
    BY <1>3 DEF Press, Resolve, Refuse, Paste, Verify, DoNotVerify,
       StopWatching, Poll, Learn, WatcherVars, undoVars
  <2>2. CASE Verify(t)
    <3>1. undoable' = t /\ stage'[t] = "done"
      BY <2>2 DEF Verify, FInv, TypeOK
    <3> QED BY <1>2, <2>1, <3>1
  <2>3. CASE ~Verify(t)
    <3>1. undoable' = undoable
      BY <1>3, <2>3 DEF Press, Resolve, Refuse, Paste, DoNotVerify,
         StopWatching, Poll, Learn, WatcherVars, recordVars
    <3> QED BY <1>2, <2>1, <3>1
  <2> QED BY <2>2, <2>3
<1>4. ASSUME UserTypes \/ UserDeletes \/ UserSelects \/ FocusMoves \/ CaseSteps
      PROVE  Settled'
  <2>1. UNCHANGED <<undoStep, undoTake, undoable>>
    BY <1>4 DEF UserTypes, UserDeletes, UserSelects, FocusMoves, UserActs,
       CaseSteps, CaseCommand, SelectForCase, Rewrite, CaseCommandEnds,
       recordVars, undoVars
  <2> QED BY <1>2, <2>1
<1>5. ASSUME NEW a \in Undoers, UndoSteps(a)
      PROVE  Settled'
  <2>1. CASE SelectForUndo(a)
    BY <1>2, <2>1 DEF SelectForUndo, recordVars, undoVars
  <2>2. CASE ~SelectForUndo(a)
    <3>1. \E t, step :
            /\ Doing(a, t, step)
            /\ step # "idle" => t \in Takes /\ stage[t] = "done"
      BY <1>0, <1>5, <2>2
         DEF UndoSteps, Claim, RefuseUndo, LookForUndo, Undo, ProveUndo,
         ClearLastInsertion, DoNotProveUndo, Settled
    <3>2. undoable' \in {undoable, None}
      BY <1>5 DEF UndoSteps, Claim, RefuseUndo, LookForUndo, SelectForUndo,
         Undo, ProveUndo, ClearLastInsertion, DoNotProveUndo, recordVars
    <3>3. \A b \in Undoers : undoStep'[b] # "idle" =>
            undoTake'[b] \in Takes /\ stage[undoTake'[b]] = "done"
      BY <1>0, <3>1 DEF Doing, Settled
    <3>4. undoable' # None => stage'[undoable'] = "done"
      BY <1>0, <1>1, <3>2 DEF Settled
    <3> QED BY <1>1, <3>3, <3>4 DEF Settled
  <2> QED BY <2>1, <2>2
<1> QED BY <1>3, <1>4, <1>5 DEF Next, CaseSteps, UndoSteps

\* A thread leaves "looked" with no key counted.
LEMMA StepKeepsKeys ==
    ASSUME FInv, KeysAfterLook, Next
    PROVE  KeysAfterLook'
<1>0. /\ keys \in [Selectors -> Nat] /\ Command \in Selectors
      /\ \A a \in Undoers : a \in Selectors /\ a # Command
      /\ undoStep \in [Undoers -> {"idle", "claimed", "looked", "typed",
                                   "clearing"}]
  BY FieldAssumption DEF FInv, TypeOK, Selectors
<1>1. ASSUME \/ UserTypes \/ UserDeletes \/ UserSelects \/ FocusMoves
             \/ \E t \in Takes :
                   \/ Press(t) \/ Resolve(t) \/ Refuse(t) \/ Paste(t)
                   \/ Verify(t) \/ DoNotVerify(t)
                   \/ StopWatching(t) \/ Poll(t) \/ Learn(t)
      PROVE  KeysAfterLook'
  <2>1. \A p \in Selectors : /\ keys'[p] = keys[p]
                            /\ UNCHANGED <<undoStep, caseStep>>
    BY <1>1, BystandersLeaveAlone DEF LeavesAlone, caseVars
  <2> QED BY <1>0, <2>1 DEF KeysAfterLook
<1>2. ASSUME CaseSteps
      PROVE  KeysAfterLook'
  <2>1. \A a \in Undoers : keys'[a] = keys[a] /\ undoStep' = undoStep
    BY <1>2, CaseLeavesAlone DEF LeavesAlone
  <2>2. caseStep' # "looked" => keys'[Command] = 0
    BY <1>0, <1>2 DEF CaseSteps, CaseCommand, SelectForCase, PressesLeft,
       Rewrite, CaseCommandEnds, recordVars, caseVars, KeysAfterLook
  <2> QED BY <2>1, <2>2 DEF KeysAfterLook
<1>3. ASSUME NEW a \in Undoers, UndoSteps(a)
      PROVE  KeysAfterLook'
  <2>1. /\ \A p \in Selectors \ {a} : keys'[p] = keys[p]
        /\ \A b \in Undoers \ {a} : undoStep'[b] = undoStep[b]
        /\ caseStep' = caseStep
    BY <1>3, <1>0, UndoersLeaveAlone DEF LeavesAlone, caseVars
  <2>2. undoStep'[a] # "looked" => keys'[a] = 0
    <3>1. CASE SelectForUndo(a) \/ Undo(a)
      BY <1>0, <3>1 DEF SelectForUndo, Undo, undoVars
    <3>2. CASE \/ Claim(a) \/ RefuseUndo(a) \/ LookForUndo(a) \/ ProveUndo(a)
               \/ ClearLastInsertion(a) \/ DoNotProveUndo(a)
      BY <1>0, <3>2 DEF Claim, RefuseUndo, LookForUndo, ProveUndo,
         ClearLastInsertion, DoNotProveUndo, Doing, KeysAfterLook
    <3> QED BY <1>3, <3>1, <3>2 DEF UndoSteps
  <2> QED BY <1>0, <2>1, <2>2 DEF KeysAfterLook
<1> QED BY <1>1, <1>2, <1>3 DEF Next, CaseSteps, UndoSteps

\* What a fresh look found is still there after a step that leaves it alone.
LEMMA UndoStaysFresh ==
    ASSUME NEW a \in Undoers, NEW t \in Takes, UndoIsFresh(a, t),
           UNCHANGED <<text, focused>>, start' + length' = start + length,
           length' = keys'[a], keys'[a] <= Len(Inserted(t)),
           undoStep'[a] = "looked", before'[t] = before[t]
    PROVE  UndoIsFresh(a, t)'
<1>1. Inserted(t)' = Inserted(t)
  BY DEF Inserted, Joined
<1>2. Expected(t)' = Expected(t)
  BY <1>1 DEF Expected, Replaced
<1>3. FarEnd' = FarEnd
  BY DEF FarEnd
<1>4. Matches(FarEnd, Expected(t))'
  BY <1>2, <1>3 DEF UndoIsFresh, Matches, Surrounding
<1> QED BY <1>1, <1>4 DEF UndoIsFresh

\* It goes by the take of an undo, which has the field of its paste.
LEMMA UndoTakeIs ==
    ASSUME FInv, Settled, Next, NEW a \in Undoers, undoStep[a] # "idle"
    PROVE  /\ undoTake[a] \in Takes /\ before[undoTake[a]] \in Fields
           /\ before'[undoTake[a]] = before[undoTake[a]]
<1>1. /\ undoTake[a] \in Takes /\ before[undoTake[a]] \in Fields
      /\ stage[undoTake[a]] = "done"
  BY DEF FInv, PastesKnown, Settled
<1> QED BY <1>1, DoneIsDone

\* A key of a fresh undo finds a character to select.
LEMMA SelectingStaysFresh ==
    ASSUME FInv, NEW a \in Undoers, NEW t \in Takes, before[t] \in Fields,
           UndoIsFresh(a, t), keys[a] < Len(Inserted(t)), PressesLeft(a),
           undoStep'[a] = "looked", before'[t] = before[t]
    PROVE  UndoIsFresh(a, t)'
<1>1. /\ Len(Inserted(t)) \in Nat /\ before[t].start \in Nat
      /\ keys[a] \in Nat /\ keys \in [Selectors -> Nat] /\ a \in Selectors
      /\ start \in Nat /\ length \in Nat
  BY JoinedIs, FieldParts, SnapshotFits, Parts
     DEF FInv, Inserted, KeyTypes, Selectors
<1>2. /\ length = keys[a] /\ focused
      /\ start + length = before[t].start + Len(Inserted(t))
  BY DEF UndoIsFresh, Matches, FarEnd, Expected
<1>3. start > 0
  BY <1>1, <1>2
<1>4. /\ start' = start - 1 /\ length' = length + 1 /\ keys'[a] = keys[a] + 1
      /\ UNCHANGED <<text, focused>>
  BY <1>1, <1>2, <1>3 DEF PressesLeft
<1>5. start' + length' = start + length /\ length' = keys'[a]
  BY <1>1, <1>2, <1>4
<1>6. keys'[a] <= Len(Inserted(t))
  BY <1>1, <1>4
<1> QED BY <1>4, <1>5, <1>6, UndoStaysFresh

\* The same of a case command.
LEMMA CaseStaysFresh ==
    ASSUME CaseIsFresh, UNCHANGED <<text, focused, rewriting>>,
           start' + length' = start + length, length' = keys'[Command],
           keys'[Command] <= TextLength, caseStep' = "looked"
    PROVE  CaseIsFresh'
<1>1. FarEnd' = FarEnd
  BY DEF FarEnd
<1> QED BY <1>1 DEF CaseIsFresh

LEMMA CaseKeyStaysFresh ==
    ASSUME FInv, CaseIsFresh, SelectForCase
    PROVE  CaseIsFresh'
<1>1. /\ keys[Command] \in Nat /\ keys \in [Selectors -> Nat]
      /\ Command \in Selectors /\ start \in Nat /\ length \in Nat
      /\ TextLength \in Nat
  BY SnapshotFits, Parts, FieldAssumption DEF FInv, KeyTypes, Selectors
<1>2. /\ length = keys[Command] /\ focused /\ TextLength <= start + length
      /\ keys[Command] < TextLength /\ PressesLeft(Command)
      /\ caseStep = "looked" /\ UNCHANGED <<caseStep, rewriting>>
  BY DEF CaseIsFresh, FarEnd, SelectForCase, recordVars, caseVars
<1>3. start > 0
  BY <1>1, <1>2
<1>4. /\ start' = start - 1 /\ length' = length + 1
      /\ keys'[Command] = keys[Command] + 1 /\ UNCHANGED <<text, focused>>
  BY <1>1, <1>2, <1>3 DEF PressesLeft
<1>5. /\ start' + length' = start + length /\ length' = keys'[Command]
      /\ keys'[Command] <= TextLength
  BY <1>1, <1>2, <1>4
<1> QED BY <1>2, <1>4, <1>5, CaseStaysFresh

\* A look begins with no key pressed and the caret where it was looked for.
LEMMA LookIsFresh ==
    ASSUME GInv, Next, NEW a \in Undoers, LookForUndo(a)
    PROVE  \E t \in Takes : undoTake'[a] = t /\ UndoIsFresh(a, t)'
<1>1. PICK t \in Takes : /\ t = undoTake[a] /\ before'[t] = before[t]
                         /\ before[t] \in Fields
  BY UndoTakeIs DEF GInv, LookForUndo
<1>2. /\ focused /\ Matches(Snapshot, Expected(t)) /\ keys[a] = 0
      /\ UNCHANGED <<text, start, length, focused, keys>>
  BY <1>1 DEF GInv, KeysAfterLook, LookForUndo, CanUndo, field
<1>3. undoStep'[a] = "looked" /\ undoTake'[a] = t
  BY <1>1 DEF GInv, FInv, TypeOK, LookForUndo, Doing
<1>4. length = 0 /\ start \in Nat
  BY <1>2, SnapshotFits, Parts DEF GInv, FInv, Matches, Snapshot, Expected
<1>5. FarEnd' = Snapshot
  BY <1>2, <1>4 DEF FarEnd, Snapshot
<1>6. Inserted(t)' = Inserted(t)
  BY <1>1 DEF Inserted, Joined
<1>7. Expected(t)' = Expected(t)
  BY <1>1, <1>6 DEF Expected, Replaced
<1>8. Matches(FarEnd, Expected(t))'
  BY <1>2, <1>5, <1>7 DEF Matches, Surrounding
<1>9. Len(Inserted(t)) \in Nat
  BY <1>1, JoinedIs DEF Inserted
<1>10. UndoIsFresh(a, t)'
  BY <1>2, <1>3, <1>4, <1>6, <1>8, <1>9 DEF UndoIsFresh
<1> QED BY <1>3, <1>10

LEMMA CaseLookIsFresh ==
    ASSUME GInv, CaseCommand
    PROVE  CaseIsFresh'
<1>1. /\ focused /\ length = 0 /\ keys[Command] = 0 /\ start >= TextLength
      /\ UNCHANGED <<text, start, length, focused, keys>>
      /\ caseStep' = "looked" /\ rewriting' = lastInsertion
      /\ Selected(Before(TextLength))
           = TextOf(lastInsertion[1], lastInsertion[2])
  BY DEF CaseCommand, GInv, KeysAfterLook
<1>2. start \in Nat /\ TextLength \in Nat
  BY SnapshotFits, Parts, FieldAssumption DEF GInv, FInv
<1>3. Selected(Before(TextLength))
        = SubSeq(text, start - TextLength + 1, start - TextLength + TextLength)
  BY DEF Selected, Before
<1>4. FarEnd' = FarEnd /\ FarEnd.start = start
      /\ start - TextLength + TextLength = start
  BY <1>1, <1>2 DEF FarEnd
<1> QED BY <1>1, <1>2, <1>3, <1>4 DEF CaseIsFresh

LEMMA StepKeepsFreshUndo ==
    ASSUME GInv, Next, NEW a \in Undoers, a \in fresh'
    PROVE  \E t \in Takes : undoTake'[a] = t /\ UndoIsFresh(a, t)'
<1>0. /\ a \in Selectors /\ FInv /\ Settled /\ KeysAfterLook /\ FreshLooks
      /\ undoStep \in [Undoers -> {"idle", "claimed", "looked", "typed",
                                   "clearing"}]
      /\ undoTake \in [Undoers -> Takes \cup {None}]
  BY DEF GInv, FInv, TypeOK, Selectors
<1>1. ASSUME a \in fresh
      PROVE  \E t \in Takes :
                /\ undoTake[a] = t /\ UndoIsFresh(a, t)
                /\ undoStep[a] = "looked"
                /\ before[t] \in Fields /\ before'[t] = before[t]
  <2>1. PICK t \in Takes : undoTake[a] = t /\ UndoIsFresh(a, t)
    BY <1>0, <1>1 DEF FreshLooks
  <2>2. undoStep[a] = "looked"
    BY <2>1 DEF UndoIsFresh
  <2> QED BY <1>0, <2>1, <2>2, UndoTakeIs
<1>2. ASSUME LeavesAlone(a), undoStep'[a] = undoStep[a],
             undoTake'[a] = undoTake[a]
      PROVE  \E t \in Takes : undoTake'[a] = t /\ UndoIsFresh(a, t)'
  <2>1. /\ a \in fresh /\ UNCHANGED <<text, start, length, focused>>
        /\ keys'[a] = keys[a]
    BY <1>2 DEF LeavesAlone
  <2>2. PICK t \in Takes :
          /\ undoTake[a] = t /\ UndoIsFresh(a, t) /\ undoStep[a] = "looked"
          /\ before'[t] = before[t]
    BY <1>1, <2>1
  <2>3. length' = keys'[a] /\ keys'[a] <= Len(Inserted(t))
    BY <2>1, <2>2 DEF UndoIsFresh
  <2>4. start' + length' = start + length /\ undoStep'[a] = "looked"
    BY <1>2, <2>1, <2>2
  <2>5. UndoIsFresh(a, t)'
    BY <2>1, <2>2, <2>3, <2>4, UndoStaysFresh
  <2> QED BY <1>2, <2>2, <2>5
<1>3. CASE \/ UserTypes \/ UserDeletes \/ UserSelects \/ FocusMoves
           \/ \E t \in Takes :
                 \/ Press(t) \/ Resolve(t) \/ Refuse(t) \/ Paste(t)
                 \/ Verify(t) \/ DoNotVerify(t)
                 \/ StopWatching(t) \/ Poll(t) \/ Learn(t)
  BY <1>0, <1>2, <1>3, BystandersLeaveAlone
<1>4. CASE CaseSteps
  BY <1>0, <1>2, <1>4, CaseLeavesAlone
<1>5. ASSUME NEW b \in Undoers \ {a}, UndoSteps(b)
      PROVE  \E t \in Takes : undoTake'[a] = t /\ UndoIsFresh(a, t)'
  <2>1. a \in Selectors \ {b} /\ a \in Undoers \ {b}
    BY <1>0
  <2> QED BY <1>0, <1>2, <1>5, <2>1, UndoersLeaveAlone
<1>6. CASE LookForUndo(a)
  BY <1>6, LookIsFresh
<1>7. CASE SelectForUndo(a)
  <2>1. /\ PressesLeft(a) /\ UNCHANGED <<undoStep, undoTake>>
        /\ keys[a] < Len(Inserted(undoTake[a]))
    BY <1>7 DEF SelectForUndo, undoVars
  <2>2. a \in fresh
    BY <2>1 DEF PressesLeft
  <2>3. PICK t \in Takes :
          /\ undoTake[a] = t /\ UndoIsFresh(a, t) /\ undoStep[a] = "looked"
          /\ before[t] \in Fields /\ before'[t] = before[t]
    BY <1>1, <2>2
  <2>4. UndoIsFresh(a, t)'
    BY <1>0, <2>1, <2>3, SelectingStaysFresh
  <2> QED BY <2>1, <2>3, <2>4
<1>8. CASE Undo(a) \/ RefuseUndo(a)
  <2>1. a \notin fresh'
    BY <1>8 DEF Undo, Substitutes, RefuseUndo
  <2> QED BY <2>1
<1>9. CASE Claim(a) \/ ProveUndo(a) \/ ClearLastInsertion(a)
           \/ DoNotProveUndo(a)
  <2>1. a \in fresh /\ undoStep[a] # "looked"
    BY <1>9 DEF Claim, ProveUndo, ClearLastInsertion, DoNotProveUndo,
       fieldVars
  <2> QED BY <1>1, <2>1
<1>10. ASSUME UndoSteps(a)
       PROVE  \E t \in Takes : undoTake'[a] = t /\ UndoIsFresh(a, t)'
  BY <1>6, <1>7, <1>8, <1>9, <1>10 DEF UndoSteps
<1>11. CASE \E b \in Undoers : UndoSteps(b)
  BY <1>5, <1>10, <1>11
<1> QED BY <1>3, <1>4, <1>11 DEF Next, CaseSteps, UndoSteps

LEMMA StepKeepsFreshCase ==
    ASSUME GInv, Next, Command \in fresh'
    PROVE  CaseIsFresh'
<1>0. /\ Command \in Selectors /\ FInv /\ KeysAfterLook
      /\ Command \in fresh => CaseIsFresh
  BY DEF GInv, FreshLooks, Selectors
<1>1. ASSUME LeavesAlone(Command), UNCHANGED caseVars
      PROVE  CaseIsFresh'
  <2>1. /\ CaseIsFresh /\ UNCHANGED <<text, start, length, focused>>
        /\ keys'[Command] = keys[Command] /\ UNCHANGED <<caseStep, rewriting>>
    BY <1>0, <1>1 DEF LeavesAlone, caseVars
  <2> QED BY <2>1 DEF CaseIsFresh, FarEnd
<1>2. CASE \/ UserTypes \/ UserDeletes \/ UserSelects \/ FocusMoves
           \/ \E t \in Takes :
                 \/ Press(t) \/ Resolve(t) \/ Refuse(t) \/ Paste(t)
                 \/ Verify(t) \/ DoNotVerify(t)
                 \/ StopWatching(t) \/ Poll(t) \/ Learn(t)
  BY <1>0, <1>1, <1>2, BystandersLeaveAlone
<1>3. ASSUME NEW a \in Undoers, UndoSteps(a)
      PROVE  CaseIsFresh'
  <2>1. Command \in Selectors \ {a}
    BY <1>0, FieldAssumption
  <2> QED BY <1>0, <1>1, <1>3, <2>1, UndoersLeaveAlone
<1>4. CASE CaseCommand
  BY <1>4, CaseLookIsFresh
<1>5. CASE SelectForCase
  <2>1. Command \in fresh
    BY <1>5 DEF SelectForCase, PressesLeft
  <2> QED BY <1>0, <1>5, <2>1, CaseKeyStaysFresh
<1>6. CASE Rewrite
  BY <1>6 DEF Rewrite, Substitutes
<1>7. CASE CaseCommandEnds
  BY <1>0, <1>7 DEF CaseCommandEnds, CaseIsFresh, fieldVars
<1> QED BY <1>2, <1>3, <1>4, <1>5, <1>6, <1>7 DEF Next, UndoSteps

\* A step of none of these threads, which leaves them all alone.
LEMMA QuietKeepsGInv ==
    ASSUME GInv, FInv', Settled', \A p \in Selectors : LeavesAlone(p),
           UNCHANGED <<before, caseStep, rewriting, undoStep, undoTake>>
    PROVE  GInv'
<1>1. \A p \in Selectors : keys'[p] = keys[p]
  BY DEF LeavesAlone
<1>2. KeysAfterLook'
  BY <1>1 DEF GInv, KeysAfterLook, Selectors
<1>3. ASSUME NEW a \in fresh' \cap Undoers
      PROVE  \E t \in Takes : undoTake'[a] = t /\ UndoIsFresh(a, t)'
  <2>1. /\ a \in fresh /\ UNCHANGED <<text, start, length, focused>>
        /\ keys'[a] = keys[a]
    BY <1>3 DEF LeavesAlone, Selectors
  <2>2. PICK t \in Takes : undoTake[a] = t /\ UndoIsFresh(a, t)
    BY <2>1 DEF GInv, FreshLooks
  <2>3. /\ length' = keys'[a] /\ keys'[a] <= Len(Inserted(t))
        /\ undoStep'[a] = "looked"
    BY <2>1, <2>2 DEF UndoIsFresh
  <2>4. UndoIsFresh(a, t)'
    BY <2>1, <2>2, <2>3, UndoStaysFresh
  <2> QED BY <2>2, <2>4
<1>4. ASSUME Command \in fresh'
      PROVE  CaseIsFresh'
  <2>1. /\ Command \in fresh /\ UNCHANGED <<text, start, length, focused>>
        /\ keys'[Command] = keys[Command]
    BY <1>4 DEF LeavesAlone, Selectors
  <2>2. CaseIsFresh
    BY <2>1 DEF GInv, FreshLooks
  <2> QED BY <2>1, <2>2 DEF CaseIsFresh, FarEnd
<1> QED BY <1>2, <1>3, <1>4 DEF GInv, FreshLooks

LEMMA StepKeepsGInv == GInv /\ [Next]_vars => GInv'
<1>1. ASSUME GInv, Next
      PROVE  GInv'
  <2>1. FreshLooks'
    BY <1>1, StepKeepsFreshUndo, StepKeepsFreshCase DEF FreshLooks
  <2> QED
    BY <1>1, <2>1, StepKeepsField, StepKeepsSettled, StepKeepsKeys DEF GInv
<1>2. ASSUME GInv, UNCHANGED vars
      PROVE  GInv'
  <2>1. FInv'
    BY <1>2, StepKeepsField DEF GInv
  <2>2. UNCHANGED <<text, start, length, focused, fresh, keys, stage, before,
                    undoable, caseStep, rewriting, undoStep, undoTake>>
    BY <1>2 DEF vars, fieldVars, field, takeVars, recordVars, caseVars,
       undoVars
  <2>3. Settled'
    BY <1>2, <2>2 DEF GInv, Settled
  <2> QED BY <1>2, <2>1, <2>2, <2>3, QuietKeepsGInv DEF LeavesAlone
<1> QED BY <1>1, <1>2

LEMMA InitIsGInv == Init => GInv
<1> SUFFICES ASSUME Init PROVE GInv
  OBVIOUS
<1>1. Settled /\ KeysAfterLook /\ FreshLooks
  BY DEF Init, Settled, KeysAfterLook, FreshLooks, Selectors
<1> QED BY <1>1, InitIsField DEF GInv

\* The inductive invariant: who may type over a paste has the field that the
\* paste found, and a look that is fresh still shows the field as it is.
THEOREM FieldInvariant == Spec => []GInv
  BY InitIsGInv, StepKeepsGInv, PTL DEF Spec

\* The field, its records, undo threads and watchers keep their types, and what
\* is noted as undone was typed over.
THEOREM FieldTypeCorrect == Spec => []TypeOK
<1>1. GInv => TypeOK
  BY DEF GInv, FInv
<1> QED BY <1>1, FieldInvariant, PTL


-----------------------------------------------------------------------------
(* What is removed.                                                        *)

\* A token that typing over the selection removes was selected.
LEMMA RemovedWasSelected ==
    ASSUME FieldTypes, NEW new \in Seq(Tokens),
           text' = Replaced(Snapshot, new), NEW i \in 1..Len(text), Removes(i)
    PROVE  i \in start + 1 .. start + length
<1>1. /\ Snapshot.text = text /\ Snapshot.start = start
      /\ Snapshot.length = length
      /\ text \in Seq(Tokens) /\ start \in Nat /\ length \in Nat
      /\ start + length <= Len(text) /\ Len(text) \in Nat /\ Len(new) \in Nat
  BY SnapshotFits
<1>2. /\ Len(text') = Len(text) - length + Len(new)
      /\ \A k \in 1..start : text'[k] = text[k]
      /\ \A k \in start + length + 1 .. Len(text) :
            text'[k - length + Len(new)] = text[k]
  <2> DEFINE s == Snapshot
  <2>1. /\ s.text \in Seq(Tokens) /\ s.start \in Nat /\ s.length \in Nat
        /\ s.start + s.length <= Len(s.text) /\ new \in Seq(Tokens)
    BY <1>1
  <2> HIDE DEF s
  <2>2. Len(Replaced(s, new)) = Len(s.text) - s.length + Len(new)
    BY SMTT(30), <2>1, ReplacedIs
  <2>3. ASSUME NEW k \in 1..s.start
        PROVE  Replaced(s, new)[k] = s.text[k]
    BY <2>1, ReplacedIs
  <2>4. \A k \in s.start + s.length + 1 .. Len(s.text) :
          Replaced(s, new)[k - s.length + Len(new)] = s.text[k]
    BY <2>1, ReplacedIs
  <2>5. s.text = text /\ s.start = start /\ s.length = length
    BY <1>1 DEF s
  <2>6. text' = Replaced(s, new)
    BY DEF s
  <2> QED BY <2>2, <2>3, <2>4, <2>5, <2>6
<1>3. i > start
  <2>1. ASSUME i <= start
        PROVE  FALSE
    <3>1. i \in 1..start /\ i \in 1..Len(text')
      BY <1>1, <1>2, <2>1
    <3> QED BY <1>2, <3>1 DEF Removes
  <2> QED BY <1>1, <2>1
<1>4. i <= start + length
  <2>1. ASSUME i > start + length
        PROVE  FALSE
    <3>1. /\ i \in start + length + 1 .. Len(text)
          /\ i - length + Len(new) \in 1..Len(text')
      BY <1>1, <1>2, <2>1
    <3> QED BY <1>2, <3>1 DEF Removes
  <2> QED BY <1>1, <2>1
<1> QED BY <1>1, <1>3, <1>4

\* Fields with the same surroundings of the same caret have the same tokens
\* before it, as far as the radius goes.
LEMMA SameBeforeCaret ==
    ASSUME NEW r, NEW s, r.text \in Seq(Tokens), s.text \in Seq(Tokens),
           r.start \in Nat, s.start = r.start, r.length = 0, s.length = 0,
           r.start <= Len(r.text), s.start <= Len(s.text),
           Surrounding(r) = Surrounding(s),
           NEW i \in 1..r.start, i > r.start - Radius
    PROVE  r.text[i] = s.text[i]
<1> DEFINE low == IF r.start > Radius THEN r.start - Radius + 1 ELSE 1
           high(f) == IF f.start + f.length + Radius < Len(f.text)
                      THEN f.start + f.length + Radius ELSE Len(f.text)
<1>1. Radius \in Nat
  BY FieldAssumption
<1>2. Len(r.text) \in Nat /\ Len(s.text) \in Nat
  OBVIOUS
<1>3. low \in Nat /\ 1 <= low /\ low <= i
  BY <1>1
<1>4. /\ high(r) \in Nat /\ i <= high(r) /\ high(r) <= Len(r.text)
      /\ high(s) \in Nat /\ i <= high(s) /\ high(s) <= Len(s.text)
  BY <1>1, <1>2
<1>5. /\ Surrounding(r) = SubSeq(r.text, low, high(r))
      /\ Surrounding(s) = SubSeq(s.text, low, high(s))
  BY DEF Surrounding
<1> HIDE DEF low, high
<1>6. ASSUME NEW f \in {r, s}
      PROVE  Surrounding(f)[i - low + 1] = f.text[i]
  <2>1. /\ f.text \in Seq(Tokens) /\ Len(f.text) \in Nat
        /\ high(f) \in Nat /\ i <= high(f) /\ high(f) <= Len(f.text)
        /\ Surrounding(f) = SubSeq(f.text, low, high(f))
    BY <1>2, <1>4, <1>5
  <2>2. \A k \in low..high(f) : f.text[k] \in Tokens
    <3> SUFFICES ASSUME NEW k \in low..high(f)
                 PROVE  f.text[k] \in Tokens
      OBVIOUS
    <3>1. k \in 1..Len(f.text)
      BY <1>3, <2>1
    <3> QED BY <2>1, <3>1, ElementOfSeq
  <2>3. \A k \in 1..high(f) - low + 1 :
          SubSeq(f.text, low, high(f))[k] = f.text[low + k - 1]
    BY <1>3, <2>1, <2>2, SubSeqProperties
  <2>4. i - low + 1 \in 1..high(f) - low + 1 /\ low + (i - low + 1) - 1 = i
    BY <1>3, <2>1
  <2> QED BY <2>1, <2>3, <2>4
<1> QED BY <1>6

\* The tokens before the caret that a paste left are those of its take.
LEMMA PastedIsOwn ==
    ASSUME NEW t \in Takes, before[t] \in Fields,
           NEW i \in before[t].start + 1
                     .. before[t].start + Len(Inserted(t))
    PROVE  /\ Expected(t).text \in Seq(Tokens)
           /\ Expected(t).start <= Len(Expected(t).text)
           /\ Expected(t).text[i][1] = t
<1>1. /\ before[t].text \in Seq(Tokens) /\ Len(before[t].text) \in Nat
      /\ before[t].start \in Nat /\ before[t].length \in Nat
      /\ before[t].start + before[t].length <= Len(before[t].text)
  BY FieldParts
<1>2. /\ Inserted(t) \in Seq(Tokens) /\ Len(Inserted(t)) \in Nat
      /\ \A k \in 1..Len(Inserted(t)) : Inserted(t)[k][1] = t
  BY JoinedIs DEF Inserted
<1>3. /\ Expected(t).text = Replaced(before[t], Inserted(t))
      /\ Expected(t).start = before[t].start + Len(Inserted(t))
  BY DEF Expected
<1>4. /\ Replaced(before[t], Inserted(t)) \in Seq(Tokens)
      /\ Len(Replaced(before[t], Inserted(t)))
            = Len(before[t].text) - before[t].length + Len(Inserted(t))
      /\ \A k \in 1..Len(Inserted(t)) :
            Replaced(before[t], Inserted(t))[before[t].start + k]
                = Inserted(t)[k]
  <2> DEFINE s == before[t]
             new == Inserted(t)
  <2>1. /\ s.text \in Seq(Tokens) /\ s.start \in Nat /\ s.length \in Nat
        /\ s.start + s.length <= Len(s.text) /\ new \in Seq(Tokens)
    BY <1>1, <1>2
  <2> HIDE DEF s, new
  <2>2. /\ Replaced(s, new) \in Seq(Tokens)
        /\ Len(Replaced(s, new)) = Len(s.text) - s.length + Len(new)
    BY SMTT(30), <2>1, ReplacedIs
  <2>3. \A k \in 1..Len(new) : Replaced(s, new)[s.start + k] = new[k]
    BY SMTT(30), <2>1, ReplacedIs
  <2> QED BY <2>2, <2>3 DEF s, new
<1>5. /\ i - before[t].start \in 1..Len(Inserted(t))
      /\ before[t].start + (i - before[t].start) = i
  BY SMTT(30), <1>1, <1>2
<1>6. Expected(t).text[i] = Inserted(t)[i - before[t].start]
  BY <1>3, <1>4, <1>5
<1>7. \A n, b, l, k \in Nat : b + l <= n => b + k <= n - l + k
  OBVIOUS
<1>8. Expected(t).start <= Len(Expected(t).text)
  BY <1>1, <1>2, <1>3, <1>4, <1>7
<1> QED BY <1>2, <1>3, <1>4, <1>5, <1>6, <1>8

\* Pressed over a selection, the last key of a transaction types the new text.
LEMMA SubstitutesSelection ==
    ASSUME NEW p, NEW new, Substitutes(p, new), focused, length # 0
    PROVE  text' = Replaced(Snapshot, new)
  BY DEF Substitutes, Types

\* An undo removes, as far as its fingerprint sees, text of its take.
LEMMA UndoRemovesOwn ==
    ASSUME GInv, NEW a \in fresh \cap Undoers, Undo(a),
           NEW i \in 1..Len(text), i > start + length - Radius, Removes(i)
    PROVE  text[i][1] = undoTake[a]
<1>1. PICK t \in Takes : undoTake[a] = t /\ UndoIsFresh(a, t)
  BY DEF GInv, FreshLooks
<1>2. before[t] \in Fields
  BY <1>1 DEF GInv, FInv, PastesKnown, UndoIsFresh
<1>3. /\ Len(Inserted(t)) \in Nat /\ Len(Inserted(t)) > 0
      /\ before[t].start \in Nat /\ Selected(before[t]) \in Seq(Tokens)
  BY <1>2, JoinedIs, FieldParts, SelectedIs DEF Inserted
<1>4. /\ focused /\ length = Len(Inserted(t))
      /\ start + length = before[t].start + Len(Inserted(t))
      /\ Surrounding(FarEnd) = Surrounding(Expected(t))
      /\ Expected(t).start = start + length /\ Expected(t).length = 0
  BY <1>1 DEF UndoIsFresh, Undo, Matches, FarEnd, Expected
<1>5. text' = Replaced(Snapshot, Selected(before[t]))
  <2>1. Substitutes(a, Selected(before[t])) /\ length # 0
    BY <1>1, <1>3, <1>4 DEF Undo
  <2> QED BY <1>4, <2>1, SubstitutesSelection
<1>6. FieldTypes
  BY Parts DEF GInv, FInv
<1>7. i \in start + 1 .. start + length
  BY <1>3, <1>5, <1>6, RemovedWasSelected
<1>8. /\ text \in Seq(Tokens) /\ start \in Nat /\ length \in Nat
      /\ start + length <= Len(text)
  BY <1>6, SnapshotFits
<1>9. /\ i \in before[t].start + 1 .. before[t].start + Len(Inserted(t))
      /\ i \in 1..start + length
  BY <1>3, <1>4, <1>7, <1>8
<1>10. /\ Expected(t).text \in Seq(Tokens)
       /\ Expected(t).start <= Len(Expected(t).text)
       /\ Expected(t).text[i][1] = t
  BY <1>2, <1>9, PastedIsOwn
<1>11. /\ FarEnd.text = text /\ FarEnd.start = start + length
       /\ FarEnd.length = 0 /\ start + length \in Nat
  BY <1>8 DEF FarEnd
<1>12. text[i] = Expected(t).text[i]
  <2> DEFINE r == FarEnd
             u == Expected(t)
  <2>1. /\ u.text \in Seq(Tokens) /\ u.start <= Len(u.text)
        /\ u.start = start + length /\ u.length = 0
        /\ Surrounding(r) = Surrounding(u)
    BY <1>4, <1>10
  <2>2. r.text = text /\ r.start = start + length /\ r.length = 0
    BY <1>11
  <2> HIDE DEF r, u
  <2>3. /\ r.text \in Seq(Tokens) /\ r.start \in Nat /\ u.start = r.start
        /\ r.start <= Len(r.text) /\ i \in 1..r.start
        /\ i > r.start - Radius
    BY <1>8, <1>9, <1>11, <2>1, <2>2, FieldAssumption
  <2>4. r.text[i] = u.text[i]
    BY <2>1, <2>2, <2>3, SameBeforeCaret
  <2> QED BY <2>2, <2>4 DEF u
<1> QED BY <1>1, <1>10, <1>12

\* A case command removes text of the take it goes by.
LEMMA CaseRemovesOwn ==
    ASSUME GInv, Command \in fresh, Rewrite, NEW i \in 1..Len(text), Removes(i)
    PROVE  text[i][1] = rewriting[1]
<1> DEFINE t == rewriting[1]
           case == rewriting[2]
<1>1. /\ focused /\ length = TextLength /\ caseStep # "idle"
      /\ SubSeq(text, FarEnd.start - TextLength + 1, FarEnd.start)
           = TextOf(t, case)
      /\ Substitutes(Command, TextOf(t, Other(case)))
  BY DEF GInv, FreshLooks, CaseIsFresh, Rewrite
<1>2. /\ t \in Takes /\ case \in Cases
      /\ TextOf(t, Other(case)) \in Seq(Tokens)
  BY <1>1, RewritingIs, Parts DEF GInv, FInv
<1>3. TextLength \in Nat /\ TextLength # 0
  BY FieldAssumption
<1>4. text' = Replaced(Snapshot, TextOf(t, Other(case)))
  BY <1>1, <1>3, SubstitutesSelection
<1>5. /\ FieldTypes /\ text \in Seq(Tokens) /\ start \in Nat
      /\ start + TextLength <= Len(text) /\ Len(text) \in Nat
  BY <1>1, SnapshotFits, Parts DEF GInv, FInv
<1>6. i \in start + 1 .. start + TextLength
  BY <1>1, <1>2, <1>4, <1>5, RemovedWasSelected
<1> DEFINE low == FarEnd.start - TextLength + 1
           high == FarEnd.start
           k == i - low + 1
<1>7. /\ low \in Int /\ high \in Int /\ low = start + 1
      /\ high = start + TextLength
      /\ k \in 1..high - low + 1 /\ low + k - 1 = i /\ k \in 1..TextLength
  BY <1>1, <1>3, <1>5, <1>6 DEF FarEnd
<1>8. SubSeq(text, low, high) = TextOf(t, case)
  BY <1>1
<1> HIDE DEF low, high, k
<1>9. \A l \in low..high : text[l] \in Tokens
  <2> SUFFICES ASSUME NEW l \in low..high
               PROVE  text[l] \in Tokens
    OBVIOUS
  <2>1. l \in 1..Len(text)
    BY <1>3, <1>5, <1>7
  <2> QED BY <1>5, <2>1, ElementOfSeq
<1>10. SubSeq(text, low, high)[k] = text[i]
  BY <1>7, <1>9, SubSeqProperties
<1>11. TextOf(t, case)[k][1] = t
  BY <1>2, <1>7, TextIs
<1> QED BY <1>8, <1>10, <1>11

\* What a step of the field removes.
OwnTextStep ==
    /\ \A a \in fresh \cap Undoers : undoStep'[a] = "typed" =>
         \A i \in 1..Len(text) :
             i > start + length - Radius /\ Removes(i)
             => text[i][1] = undoTake[a]
    /\ Command \in fresh /\ caseStep' = "typed" =>
         \A i \in 1..Len(text) :
             Removes(i) => text[i][1] = rewriting[1]

\* Only its last key ends a selection of an undo, and of a case command.
LEMMA LastKeyIs ==
    ASSUME FInv, Next
    PROVE  /\ \A a \in Undoers :
                undoStep[a] = "looked" /\ undoStep'[a] = "typed" => Undo(a)
           /\ caseStep = "looked" /\ caseStep' = "typed" => Rewrite
<1>0. undoStep \in [Undoers -> {"idle", "claimed", "looked", "typed",
                                "clearing"}]
  BY DEF FInv, TypeOK
<1>1. CASE \/ UserTypes \/ UserDeletes \/ UserSelects \/ FocusMoves
           \/ \E t \in Takes :
                 \/ Press(t) \/ Resolve(t) \/ Refuse(t) \/ Paste(t)
                 \/ Verify(t) \/ DoNotVerify(t)
                 \/ StopWatching(t) \/ Poll(t) \/ Learn(t)
  <2>1. UNCHANGED <<undoStep, caseStep>>
    BY <1>1, BystandersLeaveAlone DEF caseVars, Selectors
  <2> QED BY <2>1
<1>2. CASE CaseSteps
  <2>1. \A a \in Undoers : undoStep'[a] = undoStep[a]
    BY <1>2, CaseLeavesAlone
  <2>2. caseStep = "looked" /\ caseStep' = "typed" => Rewrite
    BY <1>2 DEF CaseSteps, CaseCommand, SelectForCase, CaseCommandEnds,
       recordVars, caseVars
  <2> QED BY <2>1, <2>2
<1>3. ASSUME NEW b \in Undoers, UndoSteps(b)
      PROVE  /\ \A a \in Undoers :
                  undoStep[a] = "looked" /\ undoStep'[a] = "typed" => Undo(a)
             /\ caseStep' = caseStep
  <2>1. /\ caseStep' = caseStep
        /\ \A a \in Undoers \ {b} : undoStep'[a] = undoStep[a]
    <3>1. Command \in Selectors \ {b}
      BY FieldAssumption DEF Selectors
    <3> QED BY <1>3, <3>1, UndoersLeaveAlone DEF caseVars
  <2>2. undoStep[b] = "looked" /\ undoStep'[b] = "typed" => Undo(b)
    BY <1>0, <1>3 DEF UndoSteps, Claim, RefuseUndo, LookForUndo,
       SelectForUndo, ProveUndo, ClearLastInsertion, DoNotProveUndo, Doing,
       undoVars
  <2> QED BY <2>1, <2>2
<1> QED BY <1>1, <1>2, <1>3 DEF Next, CaseSteps, UndoSteps

LEMMA StepRemovesOwn ==
    ASSUME GInv, Next
    PROVE  OwnTextStep
<1>0. FInv
  BY DEF GInv
<1>1. ASSUME NEW a \in fresh \cap Undoers, undoStep'[a] = "typed",
             NEW i \in 1..Len(text), i > start + length - Radius, Removes(i)
      PROVE  text[i][1] = undoTake[a]
  <2>1. undoStep[a] = "looked"
    BY DEF GInv, FreshLooks, UndoIsFresh
  <2>2. Undo(a)
    BY <1>0, <1>1, <2>1, LastKeyIs
  <2> QED BY <1>1, <2>2, UndoRemovesOwn
<1>2. ASSUME Command \in fresh, caseStep' = "typed",
             NEW i \in 1..Len(text), Removes(i)
      PROVE  text[i][1] = rewriting[1]
  <2>1. caseStep = "looked"
    BY <1>2 DEF GInv, FreshLooks, CaseIsFresh
  <2>2. Rewrite
    BY <1>0, <1>2, <2>1, LastKeyIs
  <2> QED BY <1>2, <2>2, CaseRemovesOwn
<1> QED BY <1>1, <1>2 DEF OwnTextStep

\* What an undo removes from the part of the field that its fingerprint sees,
\* and all that a case command removes, is text of the take it acts on, for any
\* radius, any edits before its look and any number of threads, unless somebody
\* else changed the field between its look and its last key
\* (undo_last_dictation, apply_spoken_edit_command).
THEOREM FieldRemovesOnlyOwn == Spec => OnlyOwnTextRemoved
<1>1. GInv /\ [Next]_vars => [OwnTextStep]_vars
  BY StepRemovesOwn
<1> QED
  BY <1>1, FieldInvariant, PTL DEF Spec, OnlyOwnTextRemoved, OwnTextStep

-----------------------------------------------------------------------------
(* The field with delayed cleanups: one more kind of writer.               *)

\* Where the anchor of an edit stands in a text.
LEMMA AnchorIs ==
    ASSUME NEW t \in Takes
    PROVE  /\ AnchorFirst \in 1..EditAt /\ AnchorLast \in EditAt..TextLength
           /\ EditAt \in 1..TextLength /\ TextLength \in Nat
           /\ Len(Anchor(t)) = AnchorLast - AnchorFirst + 1
<1>1. EditAt \in 1..TextLength /\ TextLength \in Nat
  BY FieldAssumption, CleanupAssumption
<1>2. AnchorFirst \in 1..EditAt /\ AnchorLast \in EditAt..TextLength
  BY <1>1 DEF AnchorFirst, AnchorLast
<1>3. /\ TextOf(t, "as said") \in Seq(Tokens)
      /\ Len(TextOf(t, "as said")) = TextLength
  BY TextIs DEF Cases
<1> DEFINE said == TextOf(t, "as said")
<1>4. \A i \in AnchorFirst..AnchorLast : said[i] \in Tokens
  <2> SUFFICES ASSUME NEW i \in AnchorFirst..AnchorLast
               PROVE  said[i] \in Tokens
    OBVIOUS
  <2>1. i \in 1..TextLength
    BY <1>1, <1>2
  <2> QED BY <1>3, <2>1, ElementOfSeq
<1> HIDE DEF said
<1>5. Len(SubSeq(said, AnchorFirst, AnchorLast))
        = IF AnchorFirst <= AnchorLast THEN AnchorLast - AnchorFirst + 1 ELSE 0
  BY <1>2, <1>4, SubSeqProperties
<1>6. Anchor(t) = SubSeq(said, AnchorFirst, AnchorLast)
  BY DEF Anchor, said
<1> QED BY <1>1, <1>2, <1>5, <1>6

\* The words of a text are as many as its tokens.
LEMMA WordsAre ==
    ASSUME NEW u \in Seq(Tokens)
    PROVE  /\ Len(Words(u)) = Len(u) /\ Len(u) \in Nat
           /\ DOMAIN Words(u) = 1..Len(u)
           /\ \A j \in 1..Len(u) : Words(u)[j] = Said(u[j])
<1>1. Len(u) \in Nat
  OBVIOUS
<1> DEFINE W == {Said(u[j]) : j \in 1..Len(u)}
<1>2. Words(u) \in [1..Len(u) -> W]
  BY DEF Words
<1>3. Words(u) \in Seq(W)
  BY <1>1, <1>2, SeqDef
<1>4. DOMAIN Words(u) = 1..Len(u)
  BY DEF Words
<1>5. Len(Words(u)) = Len(u)
  <2> HIDE DEF W
  <2> QED BY <1>1, <1>3, <1>4
<1> QED BY <1>1, <1>4, <1>5 DEF Words

\* A text without the edited word: what was before it and after it is there, in
\* its order.
LEMMA EditedIs ==
    ASSUME NEW t \in Takes, NEW u \in Seq(Tokens), NEW i \in Occurrences(u, t)
    PROVE  /\ i \in 0..Len(u) /\ i + EditAt - AnchorFirst \in 0..Len(u) - 1
           /\ Edited(u, i) \in Seq(Tokens)
           /\ Len(Edited(u, i)) = Len(u) - 1
           /\ \A j \in 1..Len(u) - 1 :
                Edited(u, i)[j] = u[IF j <= i + EditAt - AnchorFirst THEN j
                                    ELSE j + 1]
<1> DEFINE k == i + EditAt - AnchorFirst
           s == [text |-> u, start |-> k, length |-> 1]
           new == <<>>
<1>1. Len(u) \in Nat /\ Len(Words(u)) = Len(u)
  BY WordsAre
<1>2. i \in 0..Len(u) - (AnchorLast - AnchorFirst + 1)
  BY <1>1, AnchorIs DEF Occurrences
<1>3. i \in 0..Len(u) /\ k \in 0..Len(u) - 1
  BY <1>1, <1>2, AnchorIs
<1> HIDE DEF k
<1>4. /\ s.text \in Seq(Tokens) /\ s.start \in Nat /\ s.length \in Nat
      /\ s.start + s.length <= Len(s.text) /\ new \in Seq(Tokens)
  BY <1>1, <1>3
<1>5. s.text = u /\ s.start = k /\ s.length = 1
  OBVIOUS
<1> HIDE DEF s, new
<1>0. Len(new) = 0
  BY DEF new
<1>6. /\ Replaced(s, new) \in Seq(Tokens)
      /\ Len(Replaced(s, new)) = Len(s.text) - s.length + Len(new)
  BY <1>4, ReplacedIs
<1>7. ASSUME NEW j \in 1..s.start
      PROVE  Replaced(s, new)[j] = s.text[j]
  BY <1>4, ReplacedIs
<1>8. \A j \in s.start + s.length + 1 .. Len(s.text) :
        Replaced(s, new)[j - s.length + Len(new)] = s.text[j]
  BY <1>4, ReplacedIs
<1>9. Edited(u, i) = Replaced(s, new)
  BY DEF Edited, s, k, new
<1> DEFINE r == Replaced(s, new)
<1> HIDE DEF r
<1>10. ASSUME NEW j \in 1..Len(u) - 1
       PROVE  r[j] = u[IF j <= k THEN j ELSE j + 1]
  <2>1. CASE j <= k
    BY <1>3, <1>5, <1>7, <2>1 DEF r
  <2>2. CASE ~(j <= k)
    <3>1. /\ j + 1 \in s.start + s.length + 1 .. Len(s.text)
          /\ (j + 1) - s.length + Len(new) = j
      BY <1>0, <1>1, <1>3, <1>5, <2>2
    <3> QED BY <1>5, <1>8, <2>2, <3>1 DEF r
  <2> QED BY <2>1, <2>2
<1>11. r \in Seq(Tokens) /\ Len(r) = Len(u) - 1
  BY <1>0, <1>1, <1>5, <1>6 DEF r
<1> QED BY <1>3, <1>9, <1>10, <1>11 DEF r, k

\* Texts of the same words have the same places of an anchor, and are of the
\* same words after the edit.
LEMMA SameWordsSameEdit ==
    ASSUME NEW t \in Takes, NEW u \in Seq(Tokens), NEW v \in Seq(Tokens),
           Words(u) = Words(v), NEW i \in Occurrences(u, t)
    PROVE  /\ Occurrences(v, t) = Occurrences(u, t)
           /\ Words(Edited(v, i)) = Words(Edited(u, i))
<1>1. Occurrences(v, t) = Occurrences(u, t)
  BY DEF Occurrences
<1>2. Len(u) = Len(v) /\ Len(u) \in Nat
  BY WordsAre
<1>3. \A j \in 1..Len(u) : Said(u[j]) = Said(v[j])
  BY <1>2, WordsAre
<1> DEFINE n == Len(u) - 1
           k == i + EditAt - AnchorFirst
           at(j) == IF j <= k THEN j ELSE j + 1
<1>4. /\ Edited(u, i) \in Seq(Tokens) /\ Len(Edited(u, i)) = n
      /\ k \in 0..n
      /\ \A j \in 1..n : Edited(u, i)[j] = u[at(j)]
  BY EditedIs
<1>5. /\ Edited(v, i) \in Seq(Tokens) /\ Len(Edited(v, i)) = n
      /\ \A j \in 1..n : Edited(v, i)[j] = v[at(j)]
  BY ZenonT(60), <1>1, <1>2, EditedIs
<1>6. \A j \in 1..n : at(j) \in 1..Len(u)
  BY <1>2, <1>4
<1> HIDE DEF at, k
<1>7. \A j \in 1..n : Said(Edited(u, i)[j]) = Said(Edited(v, i)[j])
  BY <1>3, <1>4, <1>5, <1>6
<1> QED BY <1>1, <1>4, <1>5, <1>7 DEF Words

\* What each cleanup thread and the outcome on show can be.
CleanupTypes ==
    /\ cleanup \in [Takes -> {"off", "building", "captured", "rechecked",
                              "agreed", "wrote", "gave up", "ended"}]
    /\ captured \in [Takes -> Snapshots \cup {None}]
    /\ \A t \in Takes :
        captured[t] # None <=>
            cleanup[t] \in {"captured", "rechecked", "agreed"}
    /\ generation \in Nat
    /\ itsGeneration \in [Takes -> 0..generation]
    /\ shown \in (Takes \X {"wrote", "gave up"}) \cup {None}

\* A take is cleaned up once, after the turn that proved its paste.
CleanupAfterTurn == \A t \in Takes : cleanup[t] # "off" => stage[t] = "done"

\* While the last comparison of a cleanup is fresh, it would not fail.
AgreedIsFresh ==
    \A t \in fresh \cap Takes : cleanup[t] = "agreed" /\ Unchanged(t)

\* The inductive invariant: that of the field, that no pass is scheduled again,
\* that whatever makes an outcome old takes it off the menu, and that a fresh
\* comparison still holds.
CInv ==
    GInv /\ CleanupTypes /\ CleanupAfterTurn /\ AgreedIsFresh /\ ShowsNewest

\* A take whose paste is proven keeps the field of its paste.
LEMMA ScheduleKeepsField ==
    ASSUME GInv, NEW t \in Takes, VerifyAndSchedule(t)
    PROVE  GInv'
<1>0. /\ FieldTypes /\ FlagTypes /\ KeyTypes /\ StageTypes
      /\ SnapshotTypes /\ RecordTypes /\ ThreadTypes /\ NotedTypes
      /\ WatcherTypes
      /\ acts \in 0..MaxActs /\ PastesKnown /\ TypedIsRemoved /\ Settled
  BY Parts DEF GInv, FInv
<1>1. /\ UNCHANGED <<text, start, length, focused, acts, fresh, keys, lease,
                     before, caseStep, rewriting, undoStep, undoTake, removed,
                     undone, watcher>>
      /\ stage[t] = "pasted" /\ stage' = [stage EXCEPT ![t] = "done"]
      /\ undoable' = t
      /\ lastInsertion' = lastInsertion \/ lastInsertion' = <<t, "as said">>
  BY DEF VerifyAndSchedule, fieldVars, field, caseVars, undoVars
<1>2. <<t, "as said">> \in Takes \X Cases
  BY DEF Cases
<1>3. RecordTypes' /\ StageTypes'
  BY <1>0, <1>1, <1>2 DEF RecordTypes, StageTypes
<1>4. /\ FieldTypes' /\ FlagTypes' /\ KeyTypes' /\ SnapshotTypes'
      /\ ThreadTypes' /\ NotedTypes' /\ WatcherTypes' /\ (acts \in 0..MaxActs)'
      /\ TypedIsRemoved'
  BY <1>0, <1>1 DEF FieldTypes, FlagTypes, KeyTypes, SnapshotTypes,
     ThreadTypes, NotedTypes, WatcherTypes, TypedIsRemoved
<1>5. PastesKnown'
  <2>1. \A u \in Takes : stage'[u] \in {"pasting", "pasted"} =>
          stage[u] \in {"pasting", "pasted"}
    BY <1>0, <1>1 DEF StageTypes
  <2>2. before[t] \in Fields
    BY <1>0, <1>1 DEF PastesKnown
  <2> QED BY <1>0, <1>1, <2>1, <2>2 DEF PastesKnown
<1>6. FInv'
  BY <1>3, <1>4, <1>5, Whole DEF FInv
<1>7. Settled'
  BY <1>0, <1>1 DEF Settled, StageTypes, PastesKnown
<1>8. \A p \in Selectors : LeavesAlone(p)
  BY <1>1 DEF LeavesAlone
<1> QED BY <1>1, <1>6, <1>7, <1>8, QuietKeepsGInv

\* A snapshot that a thread goes by is one.
LEMMA CapturedIs ==
    ASSUME CleanupTypes, NEW t \in Takes,
           cleanup[t] \in {"captured", "rechecked", "agreed"}
    PROVE  captured[t] \in Snapshots /\ captured[t].text \in Seq(Tokens)
<1>1. captured[t] # None /\ captured[t] \in Snapshots \cup {None}
  BY DEF CleanupTypes
<1>2. captured[t] \in Snapshots
  BY <1>1
<1> QED BY <1>2 DEF Snapshots

\* A write leaves a well-formed field, and no look at it is fresh.
LEMMA WriteKeepsField ==
    ASSUME GInv, CleanupTypes, NEW t \in Takes, SetValue(t)
    PROVE  GInv'
<1>0. /\ FieldTypes /\ FlagTypes /\ KeyTypes /\ StageTypes
      /\ SnapshotTypes /\ RecordTypes /\ ThreadTypes /\ NotedTypes
      /\ WatcherTypes
      /\ acts \in 0..MaxActs /\ PastesKnown /\ TypedIsRemoved /\ Settled
  BY Parts DEF GInv, FInv
<1>1. /\ UNCHANGED <<focused, acts, keys, stage, lease, before, undoable,
                     lastInsertion, caseStep, rewriting, undoStep, undoTake,
                     removed, undone, watcher>>
      /\ start' \in 0..Len(text') /\ length' = 0 /\ fresh' = {}
      /\ cleanup[t] = "agreed"
      /\ \E i \in 0..Len(captured[t].text) :
            /\ MayEdit(captured[t].text, t, i)
            /\ text' = Edited(captured[t].text, i)
  BY DEF SetValue, takeVars, recordVars, caseVars, undoVars
<1>2. captured[t].text \in Seq(Tokens)
  BY <1>1, CapturedIs
<1> DEFINE u == captured[t].text
<1>3. PICK i \in Occurrences(u, t) : text' = Edited(u, i)
  BY <1>1 DEF MayEdit
<1> HIDE DEF u
<1>4. text' \in Seq(Tokens)
  BY <1>2, <1>3, EditedIs DEF u
<1>5. FieldTypes'
  BY <1>1, <1>4 DEF FieldTypes
<1>6. /\ FlagTypes' /\ KeyTypes' /\ StageTypes' /\ SnapshotTypes'
      /\ RecordTypes' /\ ThreadTypes' /\ NotedTypes' /\ WatcherTypes'
      /\ (acts \in 0..MaxActs)'
  BY <1>0, <1>1 DEF FlagTypes, KeyTypes, StageTypes, SnapshotTypes,
     RecordTypes, ThreadTypes, NotedTypes, WatcherTypes
<1>7. PastesKnown' /\ TypedIsRemoved' /\ Settled'
  BY <1>0, <1>1 DEF PastesKnown, TypedIsRemoved, Settled
<1>8. FInv'
  BY <1>5, <1>6, <1>7, Whole DEF FInv
<1>9. \A p \in Selectors : LeavesAlone(p)
  BY <1>1 DEF LeavesAlone
<1> QED BY <1>1, <1>7, <1>8, <1>9, QuietKeepsGInv

\* A comparison leaves the field alone, and so does a thread that gives up.
LEMMA ComparingKeepsField ==
    ASSUME GInv, NEW t \in Takes, Agree(t) \/ GiveUp(t)
    PROVE  GInv'
<1>0. /\ FieldTypes /\ FlagTypes /\ KeyTypes /\ StageTypes
      /\ SnapshotTypes /\ RecordTypes /\ ThreadTypes /\ NotedTypes
      /\ WatcherTypes
      /\ acts \in 0..MaxActs /\ PastesKnown /\ TypedIsRemoved /\ Settled
  BY Parts DEF GInv, FInv
<1>1. /\ UNCHANGED <<text, start, length, focused, acts, keys, stage, lease,
                     before, undoable, lastInsertion, caseStep, rewriting,
                     undoStep, undoTake, removed, undone, watcher>>
      /\ fresh' \subseteq fresh \cup {t}
  BY DEF Agree, GiveUp, field, takeVars, recordVars, caseVars, undoVars
<1>2. /\ FieldTypes' /\ FlagTypes' /\ KeyTypes' /\ StageTypes'
      /\ SnapshotTypes' /\ RecordTypes' /\ ThreadTypes' /\ NotedTypes'
      /\ WatcherTypes' /\ (acts \in 0..MaxActs)'
  BY <1>0, <1>1 DEF FieldTypes, FlagTypes, KeyTypes, StageTypes,
     SnapshotTypes, RecordTypes, ThreadTypes, NotedTypes, WatcherTypes
<1>3. PastesKnown' /\ TypedIsRemoved' /\ Settled'
  BY <1>0, <1>1 DEF PastesKnown, TypedIsRemoved, Settled
<1>4. FInv'
  BY <1>2, <1>3, Whole DEF FInv
<1>5. \A p \in Selectors : LeavesAlone(p)
  BY <1>1, FieldAssumption DEF LeavesAlone, Selectors
<1> QED BY <1>1, <1>3, <1>4, <1>5, QuietKeepsGInv

LEMMA CleanupKeepsField ==
    ASSUME GInv, CleanupTypes, [CleanupNext]_allVars
    PROVE  GInv'
<1>1. ASSUME NEW t \in Takes, Capture(t) \/ Recheck(t) \/ Report(t)
      PROVE  UNCHANGED vars
  BY <1>1 DEF Capture, Recheck, Report
<1>2. CASE Next \/ UNCHANGED vars
  BY <1>2, StepKeepsGInv
<1>3. CASE UNCHANGED allVars
  BY <1>3, StepKeepsGInv DEF allVars
<1> QED
  BY <1>1, <1>2, <1>3, ScheduleKeepsField, WriteKeepsField,
     ComparingKeepsField
  DEF CleanupNext

LEMMA CleanupStaysAfterTurn ==
    ASSUME GInv, CleanupTypes, CleanupAfterTurn, [CleanupNext]_allVars
    PROVE  CleanupAfterTurn'
<1>1. CASE Next /\ UNCHANGED cleanupVars
  BY <1>1, DoneIsDone DEF CleanupAfterTurn, cleanupVars, GInv
<1>2. CASE UNCHANGED allVars
  BY <1>2 DEF CleanupAfterTurn, allVars, vars, takeVars, cleanupVars
<1>3. ASSUME NEW t \in Takes, VerifyAndSchedule(t)
      PROVE  CleanupAfterTurn'
  <2>1. /\ stage' = [stage EXCEPT ![t] = "done"]
        /\ cleanup' = [cleanup EXCEPT ![t] = "building"]
    BY <1>3 DEF VerifyAndSchedule
  <2>2. stage \in [Takes -> {"idle", "pressed", "pasting", "pasted", "done"}]
    BY DEF GInv, FInv, TypeOK
  <2> QED BY <2>1, <2>2 DEF CleanupAfterTurn, CleanupTypes
<1>4. ASSUME NEW t \in Takes,
             \/ Capture(t) \/ Recheck(t) \/ Agree(t) \/ SetValue(t)
             \/ GiveUp(t) \/ Report(t)
      PROVE  CleanupAfterTurn'
  <2>1. /\ cleanup[t] # "off" /\ stage' = stage
        /\ \E step : cleanup' = [cleanup EXCEPT ![t] = step]
    BY <1>4 DEF Capture, Recheck, Agree, SetValue, GiveUp, Report, Goes, vars,
       takeVars
  <2> QED BY <2>1 DEF CleanupAfterTurn, CleanupTypes
<1> QED BY <1>1, <1>2, <1>3, <1>4 DEF CleanupNext

\* A step of the field leaves a comparison alone, or it is no longer fresh.
LEMMA FieldLeavesCleanups ==
    ASSUME Next
    PROVE  \/ fresh' \cap Takes = {}
           \/ /\ UNCHANGED <<text, start, length, focused>>
              /\ fresh' \cap Takes \subseteq fresh
<1>0. Selectors \cap Takes = {} /\ Command \in Selectors
      /\ Undoers \subseteq Selectors
  BY FieldAssumption DEF Selectors
<1>1. ASSUME NEW p \in Selectors, PressesLeft(p) \/ \E new : Substitutes(p, new)
      PROVE  \/ fresh' \cap Takes = {}
             \/ /\ UNCHANGED <<text, start, length, focused>>
                /\ fresh' \subseteq fresh
  BY <1>0, <1>1 DEF PressesLeft, Substitutes
<1>2. CASE UserTypes \/ UserDeletes \/ UserSelects \/ FocusMoves
  BY <1>2 DEF UserTypes, UserDeletes, UserSelects, FocusMoves, UserActs
<1>3. CASE CaseCommand \/ CaseCommandEnds
  BY <1>0, <1>3 DEF CaseCommand, CaseCommandEnds, fieldVars, field
<1>4. CASE SelectForCase \/ Rewrite
  BY <1>0, <1>1, <1>4 DEF SelectForCase, Rewrite
<1>5. CASE \E t \in Takes : \/ Press(t) \/ Resolve(t) \/ Refuse(t) \/ Verify(t)
                            \/ DoNotVerify(t)
  BY <1>5 DEF Press, Resolve, Refuse, Verify, DoNotVerify, fieldVars, field
<1>6. CASE \E t \in Takes : \/ Paste(t) \/ StopWatching(t) \/ Poll(t)
                            \/ Learn(t)
  BY <1>6 DEF Paste, StopWatching, Poll, Learn, WatcherVars, fieldVars, field
<1>7. CASE \E a \in Undoers : SelectForUndo(a) \/ Undo(a)
  BY <1>0, <1>1, <1>7 DEF SelectForUndo, Undo
<1>8. CASE \E a \in Undoers : \/ Claim(a) \/ RefuseUndo(a) \/ LookForUndo(a)
                              \/ ProveUndo(a) \/ ClearLastInsertion(a)
                              \/ DoNotProveUndo(a)
  BY <1>0, <1>8 DEF Claim, RefuseUndo, LookForUndo, ProveUndo,
     ClearLastInsertion, DoNotProveUndo, fieldVars, field
<1> QED BY <1>2, <1>3, <1>4, <1>5, <1>6, <1>7, <1>8 DEF Next

\* A comparison holds as long as it is fresh: its snapshot is kept until its
\* write, and whoever changes the field makes it stale.
LEMMA StepKeepsAgreed ==
    ASSUME CInv, [CleanupNext]_allVars
    PROVE  AgreedIsFresh'
<1> USE DEF CInv
<1>0. /\ AgreedIsFresh /\ CleanupTypes /\ CleanupAfterTurn
      /\ stage \in [Takes -> {"idle", "pressed", "pasting", "pasted", "done"}]
  BY DEF GInv, FInv, TypeOK
<1>1. ASSUME \/ fresh' \cap Takes = {}
             \/ /\ UNCHANGED <<text, start, length, focused>>
                /\ fresh' \cap Takes \subseteq fresh,
             UNCHANGED <<cleanup, captured>>
      PROVE  AgreedIsFresh'
  BY <1>0, <1>1 DEF AgreedIsFresh, Unchanged
<1>2. CASE Next /\ UNCHANGED cleanupVars
  BY <1>1, <1>2, FieldLeavesCleanups DEF cleanupVars
<1>3. CASE UNCHANGED allVars
  BY <1>1, <1>3 DEF allVars, vars, fieldVars, field, cleanupVars
<1>4. ASSUME NEW t \in Takes, t \notin fresh',
             UNCHANGED <<text, start, length, focused>>, fresh' \subseteq fresh,
             \A u \in Takes \ {t} :
                 cleanup'[u] = cleanup[u] /\ captured'[u] = captured[u]
      PROVE  AgreedIsFresh'
  BY <1>0, <1>4 DEF AgreedIsFresh, Unchanged
<1>5. ASSUME NEW t \in Takes,
             VerifyAndSchedule(t) \/ Capture(t) \/ Recheck(t) \/ Report(t)
      PROVE  AgreedIsFresh'
  <2>1. /\ UNCHANGED <<text, start, length, focused, fresh>>
        /\ cleanup[t] # "agreed"
    BY <1>0, <1>5 DEF VerifyAndSchedule, Capture, Recheck, Report, vars,
       fieldVars, field, CleanupAfterTurn
  <2>2. t \notin fresh
    BY <1>0, <2>1 DEF AgreedIsFresh
  <2>3. \A u \in Takes \ {t} :
          cleanup'[u] = cleanup[u] /\ captured'[u] = captured[u]
    BY <1>0, <1>5 DEF VerifyAndSchedule, Capture, Recheck, Report, Goes,
       CleanupTypes
  <2> QED BY <1>4, <2>1, <2>2, <2>3
<1>6. ASSUME NEW t \in Takes, GiveUp(t)
      PROVE  AgreedIsFresh'
  <2>1. /\ UNCHANGED <<text, start, length, focused>> /\ fresh' = fresh \ {t}
        /\ \A u \in Takes \ {t} :
              cleanup'[u] = cleanup[u] /\ captured'[u] = captured[u]
    BY <1>0, <1>6 DEF GiveUp, Goes, field, CleanupTypes
  <2> QED BY <1>4, <2>1
<1>7. ASSUME NEW t \in Takes, Agree(t)
      PROVE  AgreedIsFresh'
  <2>1. /\ UNCHANGED <<text, start, length, focused, captured>>
        /\ fresh' = fresh \cup {t} /\ cleanup'[t] = "agreed" /\ Unchanged(t)
        /\ \A u \in Takes \ {t} : cleanup'[u] = cleanup[u]
    BY <1>0, <1>7 DEF Agree, Goes, field, CleanupTypes
  <2> QED BY <1>0, <2>1 DEF AgreedIsFresh, Unchanged
<1>8. ASSUME NEW t \in Takes, SetValue(t)
      PROVE  AgreedIsFresh'
  BY <1>8 DEF SetValue, AgreedIsFresh
<1> QED BY <1>2, <1>3, <1>5, <1>6, <1>7, <1>8 DEF CleanupNext

\* Each pass has its number when it is scheduled, and no outcome is on show
\* then; a pass reports if its number is still the newest.
LEMMA CleanupKeepsTypes ==
    ASSUME CInv, [CleanupNext]_allVars
    PROVE  CleanupTypes' /\ ShowsNewest'
<1> USE DEF CInv
<1>0. Snapshot \in Snapshots /\ None \notin Snapshots
  BY Parts, SnapshotFits, FieldParts, CleanupAssumption DEF GInv, FInv
<1>1. CASE UNCHANGED cleanupVars
  BY <1>1 DEF CleanupTypes, ShowsNewest, cleanupVars
<1>2. ASSUME NEW t \in Takes, VerifyAndSchedule(t)
      PROVE  CleanupTypes' /\ ShowsNewest'
  <2>1. /\ generation' = generation + 1
        /\ itsGeneration' = [itsGeneration EXCEPT ![t] = generation']
        /\ shown' = None /\ captured' = captured
        /\ cleanup' = [cleanup EXCEPT ![t] = "building"]
        /\ stage[t] = "pasted"
    BY <1>2 DEF VerifyAndSchedule, Schedule
  <2>2. cleanup[t] = "off"
    BY <2>1 DEF CleanupAfterTurn
  <2>3. itsGeneration' \in [Takes -> 0..generation'] /\ generation' \in Nat
    <3>1. generation \in Nat /\ itsGeneration \in [Takes -> 0..generation]
      BY DEF CleanupTypes
    <3>2. 0..generation \subseteq 0..generation + 1
      BY <3>1
    <3>3. itsGeneration \in [Takes -> 0..generation + 1]
      BY <3>1, <3>2
    <3>4. generation + 1 \in 0..generation + 1
      BY <3>1
    <3> QED BY <2>1, <3>1, <3>3, <3>4
  <2>4. \A u \in Takes :
          captured'[u] # None
          <=> cleanup'[u] \in {"captured", "rechecked", "agreed"}
    BY <2>1, <2>2 DEF CleanupTypes
  <2> QED BY <2>1, <2>3, <2>4 DEF CleanupTypes, ShowsNewest
<1>3. ASSUME NEW t \in Takes, Report(t)
      PROVE  CleanupTypes' /\ ShowsNewest'
  <2>1. /\ cleanup[t] \in {"wrote", "gave up"}
        /\ shown' = (IF itsGeneration[t] = generation THEN <<t, cleanup[t]>>
                     ELSE shown)
        /\ cleanup' = [cleanup EXCEPT ![t] = "ended"]
        /\ UNCHANGED <<captured, generation, itsGeneration>>
    BY <1>3 DEF Report
  <2>2. shown' \in (Takes \X {"wrote", "gave up"}) \cup {None}
    BY <2>1 DEF CleanupTypes
  <2>3. CleanupTypes'
    BY <2>1, <2>2 DEF CleanupTypes
  <2>4. ShowsNewest'
    BY <2>1 DEF ShowsNewest
  <2> QED BY <2>3, <2>4
<1>4. ASSUME NEW t \in Takes, NEW step, NEW snapshot, Goes(t, step, snapshot),
             \/ /\ step \in {"captured", "rechecked", "agreed"}
                /\ snapshot \in Snapshots
             \/ step \in {"wrote", "gave up"} /\ snapshot = None
      PROVE  CleanupTypes' /\ ShowsNewest'
  <2>1. /\ cleanup' = [cleanup EXCEPT ![t] = step]
        /\ captured' = [captured EXCEPT ![t] = snapshot]
        /\ UNCHANGED <<generation, itsGeneration, shown>>
    BY <1>4 DEF Goes
  <2>2. captured'[t] # None
        <=> cleanup'[t] \in {"captured", "rechecked", "agreed"}
    BY <1>0, <1>4, <2>1 DEF CleanupTypes
  <2>3. \A u \in Takes \ {t} :
          captured'[u] = captured[u] /\ cleanup'[u] = cleanup[u]
    BY <2>1 DEF CleanupTypes
  <2>4. CleanupTypes'
    BY <1>4, <2>1, <2>2, <2>3 DEF CleanupTypes
  <2>5. ShowsNewest'
    BY <2>1 DEF ShowsNewest
  <2> QED BY <2>4, <2>5
<1>5. ASSUME NEW t \in Takes,
             \/ Capture(t) \/ Recheck(t) \/ Agree(t) \/ SetValue(t)
             \/ GiveUp(t)
      PROVE  CleanupTypes' /\ ShowsNewest'
  <2>1. \/ Goes(t, "captured", Snapshot) \/ Goes(t, "rechecked", Snapshot)
        \/ cleanup[t] = "rechecked" /\ Goes(t, "agreed", captured[t])
        \/ Goes(t, "wrote", None) \/ Goes(t, "gave up", None)
    BY <1>5 DEF Capture, Recheck, Agree, SetValue, GiveUp
  <2>2. cleanup[t] = "rechecked" => captured[t] \in Snapshots
    BY CapturedIs
  <2> QED BY <1>0, <1>4, <2>1, <2>2
<1>6. CASE UNCHANGED allVars
  BY <1>1, <1>6 DEF allVars
<1> QED BY <1>1, <1>2, <1>3, <1>5, <1>6 DEF CleanupNext

LEMMA StepKeepsCInv == CInv /\ [CleanupNext]_allVars => CInv'
  BY CleanupKeepsField, CleanupStaysAfterTurn, StepKeepsAgreed,
     CleanupKeepsTypes
  DEF CInv

\* The inductive invariant of the field and its cleanups.
THEOREM CleanupInvariant == CleanupSpec => []CInv
<1>1. CleanupInit => CInv
  <2> SUFFICES ASSUME CleanupInit PROVE CInv
    OBVIOUS
  <2>1. Init
    BY DEF CleanupInit
  <2>2. GInv
    BY <2>1, InitIsGInv
  <2>3. CleanupTypes
    BY DEF CleanupInit, CleanupTypes
  <2>4. CleanupAfterTurn /\ AgreedIsFresh /\ ShowsNewest
    BY DEF CleanupInit, Init, CleanupAfterTurn, AgreedIsFresh, ShowsNewest
  <2> QED BY <2>2, <2>3, <2>4 DEF CInv
<1> QED BY <1>1, StepKeepsCInv, PTL DEF CleanupSpec

\* The field, the snapshots that cleanups go by and their numbers keep their
\* types: a thread has a snapshot exactly between its first read and its write
\* (apply), and no pass has a number that was not given out.
THEOREM CleanupTypeCorrect == CleanupSpec => []CleanupTypeOK
<1>1. CInv => CleanupTypeOK
  BY DEF CInv, GInv, FInv, CleanupTypes, CleanupTypeOK
<1> QED BY <1>1, CleanupInvariant, PTL

\* However many passes overlap and in whatever order they end, the outcome on
\* show is that of the newest (_run_delayed_cleanup).
THEOREM CleanupShowsNewest == CleanupSpec => []ShowsNewest
<1>1. CInv => ShowsNewest
  BY DEF CInv
<1> QED BY <1>1, CleanupInvariant, PTL

\* A cleanup changes the focused field as it is at its write, not as it was
\* captured, and only at the one place where the anchor of its edit stands, for
\* any number of passes and any length of a take, unless somebody else changed
\* the field after its last comparison
\* (DelayedCleanupTransactionAdapter.apply, apply_if_unchanged).
THEOREM CleanupWritesPrecisely == CleanupSpec => CleanupIsPrecise
<1> DEFINE Precise ==
      \A t \in fresh \cap Takes : Writes(t) =>
          /\ focused
          /\ \E i \in 0..Len(text) :
                /\ Occurrences(text, t) = {i}
                /\ Words(text') = Words(Edited(text, i))
<1>1. ASSUME CInv, CleanupNext
      PROVE  Precise
  <2> SUFFICES ASSUME NEW t \in fresh \cap Takes, Writes(t)
               PROVE  /\ focused
                      /\ \E i \in 0..Len(text) :
                            /\ Occurrences(text, t) = {i}
                            /\ Words(text') = Words(Edited(text, i))
    OBVIOUS
  <2>1. cleanup[t] = "agreed" /\ cleanup'[t] = "wrote" /\ CleanupTypes
    BY <1>1 DEF Writes, CInv
  <2>2. SetValue(t)
    <3>1. ASSUME NEW u \in Takes,
                 \/ VerifyAndSchedule(u) \/ Capture(u) \/ Recheck(u)
                 \/ Agree(u) \/ GiveUp(u) \/ Report(u) \/ SetValue(u)
          PROVE  u = t /\ SetValue(u)
      BY <2>1, <3>1 DEF CleanupTypes, VerifyAndSchedule, Capture, Recheck,
         Agree, GiveUp, Report, SetValue, Goes
    <3>2. ~ UNCHANGED cleanupVars
      BY <2>1 DEF cleanupVars
    <3> QED BY <1>1, <3>1, <3>2 DEF CleanupNext
  <2> DEFINE u == captured[t].text
  <2>3. u \in Seq(Tokens) /\ text \in Seq(Tokens)
    BY <1>1, <2>1, CapturedIs DEF CInv, GInv, FInv, TypeOK
  <2>4. focused /\ Words(text) = Words(u)
    BY <1>1 DEF CInv, AgreedIsFresh, Unchanged
  <2>5. PICK i : Occurrences(u, t) = {i} /\ text' = Edited(u, i)
    BY <2>2 DEF SetValue, MayEdit
  <2> HIDE DEF u
  <2>6. /\ Occurrences(text, t) = Occurrences(u, t)
        /\ Words(Edited(text, i)) = Words(Edited(u, i))
    BY <2>3, <2>4, <2>5, SameWordsSameEdit
  <2>7. i \in 0..Len(text)
    BY <2>3, <2>5, <2>6, EditedIs
  <2> QED BY <2>4, <2>5, <2>6, <2>7
<1>2. CInv /\ [CleanupNext]_allVars => [Precise]_allVars
  <2> HIDE DEF Precise
  <2> QED BY <1>1
<1> QED BY <1>2, CleanupInvariant, PTL DEF CleanupSpec, CleanupIsPrecise

\* With cleanups that set the whole field, too, an undo removes, as far as its
\* fingerprint sees, and a case command altogether, only text of the take it
\* acts on, unless somebody, a cleanup among them, changed the field after its
\* look.
THEOREM CleanupKeepsOwnText == CleanupSpec => OnlyOwnTextRemoved
<1>1. ASSUME CInv, CleanupNext
      PROVE  OwnTextStep \/ UNCHANGED vars
  <2>1. CASE Next
    BY <1>1, <2>1, StepRemovesOwn DEF CInv
  <2>2. ASSUME NEW t \in Takes,
               VerifyAndSchedule(t) \/ Agree(t) \/ SetValue(t) \/ GiveUp(t)
        PROVE  OwnTextStep
    <3>1. UNCHANGED <<undoStep, caseStep>>
      BY <2>2 DEF VerifyAndSchedule, Agree, SetValue, GiveUp, undoVars,
         recordVars, caseVars
    <3>2. /\ \A a \in fresh \cap Undoers : undoStep[a] = "looked"
          /\ Command \in fresh => caseStep = "looked"
      BY <1>1 DEF CInv, GInv, FreshLooks, UndoIsFresh, CaseIsFresh
    <3> QED BY <3>1, <3>2 DEF OwnTextStep
  <2>3. ASSUME NEW t \in Takes, Capture(t) \/ Recheck(t) \/ Report(t)
        PROVE  UNCHANGED vars
    BY <2>3 DEF Capture, Recheck, Report
  <2> QED BY <1>1, <2>1, <2>2, <2>3 DEF CleanupNext
<1>2. CInv /\ [CleanupNext]_allVars => [OwnTextStep]_vars
  BY <1>1 DEF allVars
<1> QED
  BY <1>2, CleanupInvariant, PTL
  DEF CleanupSpec, OnlyOwnTextRemoved, OwnTextStep

\* No watcher learns from a field it read after an undo of its take ended, where
\* takes are cleaned up as well: their threads note nothing and start no watcher.
THEOREM CleanupLearnsNoUndo == CleanupSpec => []UndoIsNotLearned
<1>1. CleanupInit => UInv
  BY DEF CleanupInit, Init, UInv, UndoTypes, RemovedIsNoted, ReadIsNoted,
     UndoIsNotLearned
<1>2. ASSUME UInv, [CleanupNext]_allVars
      PROVE  UInv'
  <2>1. CASE Next
    BY <1>2, <2>1, StepKeepsUInv
  <2>2. ASSUME NEW t \in Takes,
               \/ VerifyAndSchedule(t) \/ Capture(t) \/ Recheck(t)
               \/ Agree(t) \/ SetValue(t) \/ GiveUp(t) \/ Report(t)
        PROVE  UInv'
    <3>1. /\ UNCHANGED <<undoVars, watcher>>
          /\ undoable' = undoable \/ undoable' = t
      BY <2>2 DEF VerifyAndSchedule, Capture, Recheck, Agree, SetValue, GiveUp,
         Report, vars, recordVars, undoVars
    <3>2. undoable' \in Takes \cup {None}
      BY <1>2, <3>1 DEF UInv, UndoTypes
    <3> QED BY <1>2, <3>1, <3>2, OthersKeepUInv
  <2>3. CASE UNCHANGED allVars
    BY <1>2, <2>3, StepKeepsUInv DEF allVars
  <2> QED BY <1>2, <2>1, <2>2, <2>3 DEF CleanupNext
<1>3. UInv => UndoIsNotLearned
  BY DEF UInv
<1> QED BY <1>1, <1>2, <1>3, PTL DEF CleanupSpec
=============================================================================
