-------------------------- MODULE FieldTransactions -------------------------
(***************************************************************************)
(* dictate.py: what happens to one text field that the user dictates into  *)
(* and edits.  Four kinds of thread meet there: the turn of a take (paste  *)
(* and readback, or a spoken case command), a re-paste from the menu, the  *)
(* undo threads of the hotkey and the menu, and the correction watchers.   *)
(*                                                                         *)
(* The field holds tokens <<owner, number, case>>; every take inserts its  *)
(* own, and number 0 is the space that joins it to what stands before it.  *)
(* A transaction looks at the field, presses its keys one by one, and      *)
(* reads the field back, each in a step of its own: no lock is held over   *)
(* them, and anybody may write the field or take its focus in between.     *)
(***************************************************************************)
EXTENDS Integers, SequencesExt

CONSTANTS
    Takes,          \* insertions; those in Repastes are not dictations
    Repastes,
    Undoers,        \* undo threads
    Command,        \* the case command that has its turn
    None,
    TextLength,     \* tokens a take inserts
    Radius,         \* of bounded_focus_text
    UndoMax,        \* UNDO_MAX_CHARACTERS
    MaxActs,        \* bound: things the user does, commands included
    MaxLength       \* bound: tokens in the field

ASSUME FieldAssumption ==
    /\ Repastes \subseteq Takes
    /\ None \notin Takes
    /\ (Takes \cup {Command}) \cap Undoers = {} /\ Command \notin Takes
    /\ {TextLength, Radius, UndoMax, MaxActs, MaxLength} \subseteq Nat
    /\ TextLength > 0

VARIABLES
    text, start, length,    \* the field and its selection; length 0 is a caret
    focused,                \* the field has the focus
    acts,                   \* acts of the user so far
    fresh,                  \* history: writers who have looked at the field
                            \*   since anybody else changed it
    keys,                   \* of each thread that selects: its keys so far
    stage,                  \* of each take
    lease, before,          \* each take's field at its press, and at its paste
    undoable,               \* UNDOABLE_INSERTION["record"], as its take
    lastInsertion,          \* LAST_INSERTION: its take and case
    caseStep, rewriting,    \* the case command, and its copy of that record
    undoStep, undoTake,     \* of each undo thread
    removed,                \* history: takes for whose undo keys were pressed
    undone,                 \* UNDONE_UTTERANCES
    watcher                 \* of each take: its correction watcher

field == <<text, start, length, focused, acts>>
fieldVars == <<field, fresh>>
takeVars == <<stage, lease, before>>
caseVars == <<caseStep, rewriting>>
recordVars == <<undoable, lastInsertion, caseVars>>
undoVars == <<undoStep, undoTake, removed, undone>>
vars == <<fieldVars, keys, takeVars, recordVars, undoVars, watcher>>

User == "user"
Cases == {"as said", "changed"}
Tokens == (Takes \cup {User}) \X (0..(TextLength + MaxActs)) \X Cases
Snapshots == [text : Seq(Tokens), start : Nat, length : Nat]
Selectors == Undoers \cup {Command}

TypeOK ==
    /\ text \in Seq(Tokens)
    /\ start \in 0..Len(text) /\ length \in 0..(Len(text) - start)
    /\ focused \in BOOLEAN
    /\ acts \in 0..MaxActs
    /\ fresh \subseteq Selectors \cup Takes
    /\ keys \in [Selectors -> Nat]
    /\ stage \in [Takes -> {"idle", "pressed", "pasting", "pasted", "done"}]
    /\ lease \in [Takes -> Snapshots \cup {None}]
    /\ before \in [Takes -> Snapshots \cup {None}]
    /\ undoable \in Takes \cup {None}
    /\ lastInsertion \in (Takes \X Cases) \cup {None}
    /\ caseStep \in {"idle", "looked", "typed"}
    /\ rewriting \in (Takes \X Cases) \cup {None}
    /\ caseStep = "idle" <=> rewriting = None
    /\ undoStep \in [Undoers -> {"idle", "claimed", "looked", "typed",
                                 "clearing"}]
    /\ undoTake \in [Undoers -> Takes \cup {None}]
    /\ undone \in SUBSET removed /\ removed \in SUBSET Takes
    /\ watcher \in [Takes -> {"off", "watching", "read an edit",
                              "read an undo", "learned an edit",
                              "learned an undo"}]

Init ==
    /\ text = <<>> /\ start = 0 /\ length = 0
    /\ focused = TRUE
    /\ acts = 0
    /\ fresh = {} /\ keys = [p \in Selectors |-> 0]
    /\ stage = [t \in Takes |-> "idle"]
    /\ lease = [t \in Takes |-> None] /\ before = [t \in Takes |-> None]
    /\ undoable = None /\ lastInsertion = None
    /\ caseStep = "idle" /\ rewriting = None
    /\ undoStep = [a \in Undoers |-> "idle"]
    /\ undoTake = [a \in Undoers |-> None]
    /\ removed = {} /\ undone = {}
    /\ watcher = [t \in Takes |-> "off"]

-----------------------------------------------------------------------------
(* Snapshots of the field.                                                 *)

\* focused_snapshot of the field.
Snapshot == [text |-> text, start |-> start, length |-> length]

\* A text with the selected part replaced.
Replaced(s, new) ==
    SubSeq(s.text, 1, s.start) \o new
        \o SubSeq(s.text, s.start + s.length + 1, Len(s.text))

Selected(s) == SubSeq(s.text, s.start + 1, s.start + s.length)

\* bounded_focus_text: what a fingerprint sees of the field.
Surrounding(s) ==
    SubSeq(s.text, IF s.start > Radius THEN s.start - Radius + 1 ELSE 1,
           IF s.start + s.length + Radius < Len(s.text)
           THEN s.start + s.length + Radius ELSE Len(s.text))

\* _validate: selection and surroundings are those of the lease.
Matches(s, l) ==
    /\ s.start = l.start /\ s.length = l.length
    /\ Surrounding(s) = Surrounding(l)

\* The tokens of a take in one case.
TextOf(t, case) == [i \in 1..TextLength |-> <<t, i, case>>]

\* insertion_join_prefix: a space, unless the field or a space comes before.
Joined(t, s) ==
    IF s.start > 0 /\ s.text[s.start][2] > 0
    THEN <<<<t, 0, "as said">>>> \o TextOf(t, "as said")
    ELSE TextOf(t, "as said")

\* committed_text: what the paste of a take put into the field.
Inserted(t) == Joined(t, before[t])

\* UndoableInsertion.expected and .caret: the field as the paste left it.
Expected(t) ==
    [text |-> Replaced(before[t], Inserted(t)),
     start |-> before[t].start + Len(Inserted(t)), length |-> 0]

\* The field its correction watcher takes for unedited: make_paste_receipt has
\* the text before the join.
Watched(t) == Replaced(before[t], TextOf(t, "as said"))

\* Typing replaces the selection and leaves a caret behind it.
Types(s, new) ==
    /\ text' = Replaced(s, new)
    /\ start' = s.start + Len(new)
    /\ length' = 0
    /\ UNCHANGED focused

\* The characters before the caret.
Before(n) == [text |-> text, start |-> start - n, length |-> n]

-----------------------------------------------------------------------------
(* Keys.  They go to whatever has the focus when they are pressed.         *)

\* Shift and left arrow: one more character, to the left of the selection.
PressesLeft(p) ==
    /\ keys' = [keys EXCEPT ![p] = @ + 1]
    /\ \/ /\ focused /\ start > 0
          /\ start' = start - 1 /\ length' = length + 1
          /\ fresh' = fresh \cap {p}
       \/ /\ ~(focused /\ start > 0)
          /\ UNCHANGED <<start, length, fresh>>
    /\ UNCHANGED <<text, focused, acts>>

\* Backspace with no selection takes the character before the caret.
Backspaces ==
    /\ length = 0
    /\ \/ start > 0 /\ Types(Before(1), <<>>)
       \/ start = 0 /\ UNCHANGED <<text, start, length, focused>>

\* The last key of a transaction of p: the new text is pasted over whatever is
\* selected by now, or if there is none, backspace.
Substitutes(p, new) ==
    /\ \/ /\ focused /\ fresh' = {}
          /\ IF new = <<>> /\ length = 0 THEN Backspaces
             ELSE Types(Snapshot, new)
       \/ /\ ~focused /\ fresh' = fresh \ {p}
          /\ UNCHANGED <<text, start, length, focused>>
    /\ UNCHANGED acts

-----------------------------------------------------------------------------
(* The user: types, deletes, selects, moves, turns to another field, or    *)
(* speaks a case command (further down).                                   *)

UserActs ==
    /\ acts < MaxActs
    /\ acts' = acts + 1
    /\ fresh' = {}
    /\ UNCHANGED <<keys, takeVars, recordVars, undoVars, watcher>>

UserTypes ==
    /\ UserActs
    /\ focused /\ Len(text) < MaxLength
    /\ Types(Snapshot, <<<<User, acts + 1, "as said">>>>)

UserDeletes ==
    /\ UserActs
    /\ focused /\ length > 0
    /\ Types(Snapshot, <<>>)

\* A caret anywhere, or one token selected.
UserSelects ==
    /\ UserActs
    /\ focused
    /\ start' \in 0..Len(text)
    /\ length' \in 0..(IF start' < Len(text) THEN 1 ELSE 0)
    /\ UNCHANGED <<text, focused>>

FocusMoves ==
    /\ UserActs
    /\ focused' = ~focused
    /\ UNCHANGED <<text, start, length>>

-----------------------------------------------------------------------------
(* An insertion: the turn of a take, or the thread of a re-paste.          *)

\* One take has its turn; a re-paste waits for nobody.
InTurn(t) ==
    \/ t \in Repastes
    \/ /\ caseStep = "idle"
       /\ \A u \in Takes \ Repastes : stage[u] \notin {"pasting", "pasted"}

\* The press captures the lease of a readable field.
Press(t) ==
    /\ stage[t] = "idle"
    /\ focused
    /\ stage' = [stage EXCEPT ![t] = "pressed"]
    /\ lease' = [lease EXCEPT ![t] = Snapshot]
    /\ UNCHANGED <<fieldVars, keys, before, recordVars, undoVars, watcher>>

\* resolve_insertion_target: the field that commit_insertion is given, for its
\* comparison with the lease, the joining space and the readback.
Resolve(t) ==
    /\ stage[t] = "pressed" /\ InTurn(t)
    /\ focused /\ Matches(Snapshot, lease[t])
    /\ stage' = [stage EXCEPT ![t] = "pasting"]
    /\ before' = [before EXCEPT ![t] = Snapshot]
    /\ lease' = [lease EXCEPT ![t] = None]
    /\ UNCHANGED <<fieldVars, keys, recordVars, undoVars, watcher>>

\* It moved on since the press, or another application is in front by the time
\* of the comparison: nothing is typed.
Refuse(t) ==
    /\ \/ /\ stage[t] = "pressed" /\ InTurn(t)
          /\ ~(focused /\ Matches(Snapshot, lease[t]))
       \/ stage[t] = "pasting" /\ ~focused
    /\ stage' = [stage EXCEPT ![t] = "done"]
    /\ lease' = [lease EXCEPT ![t] = None]
    /\ UNCHANGED <<fieldVars, keys, before, recordVars, undoVars, watcher>>

\* The paste, over what is selected by now, into this field or another one.
Paste(t) ==
    /\ stage[t] = "pasting"
    /\ Len(text) + TextLength < MaxLength
    /\ \/ focused /\ Types(Snapshot, Inserted(t)) /\ fresh' = {}
       \/ ~focused /\ UNCHANGED <<text, start, length, focused, fresh>>
    /\ stage' = [stage EXCEPT ![t] = "pasted"]
    /\ UNCHANGED <<acts, keys, lease, before, recordVars, undoVars, watcher>>

\* insertion_readback proves the paste: it can be undone, rewritten by a case
\* command if that is enabled, and is watched for corrections.
Verify(t) ==
    /\ stage[t] = "pasted"
    /\ text = Expected(t).text
    /\ stage' = [stage EXCEPT ![t] = "done"]
    /\ undoable' = t
    /\ IF t \in Repastes THEN UNCHANGED <<lastInsertion, watcher>>
       ELSE /\ lastInsertion' \in {lastInsertion, <<t, "as said">>}
            /\ watcher' = [watcher EXCEPT ![t] = "watching"]
    /\ UNCHANGED <<fieldVars, keys, lease, before, caseVars, undoVars>>

\* A field that is slow to show the paste: it is not proven, and whatever was
\* undoable before still is.
DoNotVerify(t) ==
    /\ stage[t] = "pasted"
    /\ stage' = [stage EXCEPT ![t] = "done"]
    /\ UNCHANGED <<fieldVars, keys, lease, before, recordVars, undoVars,
                   watcher>>

-----------------------------------------------------------------------------
(* Undo: undo_last_dictation on a thread of its own.                       *)

Doing(a, t, step) ==
    /\ undoStep' = [undoStep EXCEPT ![a] = step]
    /\ undoTake' = [undoTake EXCEPT ![a] = t]

\* Claims the record before any platform work; a text that is too long keeps
\* its record.
Claim(a) ==
    /\ undoStep[a] = "idle"
    /\ undoable # None
    /\ Len(Inserted(undoable)) <= UndoMax
    /\ Doing(a, undoable, "claimed")
    /\ undoable' = None
    /\ UNCHANGED <<fieldVars, keys, takeVars, lastInsertion, caseVars, removed,
                   undone, watcher>>

\* Wrong variant: the fingerprint is not compared.
CanUndoAtCaret(t) ==
    focused /\ start = Expected(t).start /\ length = Expected(t).length

\* The field is the one the paste left, as far as a fingerprint sees.
CanUndo(t) == focused /\ Matches(Snapshot, Expected(t))

\* commit() refuses: the record is gone, and the field untouched.
RefuseUndo(a) ==
    /\ \/ undoStep[a] = "claimed" /\ ~CanUndo(undoTake[a])
       \/ undoStep[a] = "looked" /\ keys[a] = 0 /\ ~focused
    /\ Doing(a, None, "idle")
    /\ fresh' = fresh \ {a}
    /\ UNCHANGED <<field, keys, takeVars, recordVars, removed, undone, watcher>>

\* The snapshot that commit() compares.
LookForUndo(a) ==
    /\ undoStep[a] = "claimed" /\ CanUndo(undoTake[a])
    /\ Doing(a, undoTake[a], "looked")
    /\ fresh' = fresh \cup {a}
    /\ UNCHANGED <<field, keys, takeVars, recordVars, removed, undone, watcher>>

\* perform: one key for each inserted character ...
SelectForUndo(a) ==
    /\ undoStep[a] = "looked" /\ keys[a] < Len(Inserted(undoTake[a]))
    /\ PressesLeft(a)
    /\ UNCHANGED <<takeVars, recordVars, undoVars, watcher>>

\* ... and what the paste had replaced, over them.
Undo(a) ==
    LET t == undoTake[a] IN
    /\ undoStep[a] = "looked" /\ keys[a] = Len(Inserted(t))
    /\ Substitutes(a, Selected(before[t]))
    /\ keys' = [keys EXCEPT ![a] = 0]
    /\ removed' = removed \cup {t}
    /\ Doing(a, t, "typed")
    /\ UNCHANGED <<takeVars, recordVars, undone, watcher>>

\* Proven: the correction watcher is told before anything else, then the case
\* commands.
ProveUndo(a) ==
    LET t == undoTake[a] IN
    /\ undoStep[a] = "typed" /\ text = before[t].text
    /\ undone' = undone \cup {t}
    /\ IF lastInsertion # None /\ lastInsertion[1] = t
       THEN Doing(a, t, "clearing") ELSE Doing(a, None, "idle")
    /\ UNCHANGED <<fieldVars, keys, takeVars, recordVars, removed, watcher>>

\* LAST_INSERTION = None, whatever it has become.
ClearLastInsertion(a) ==
    /\ undoStep[a] = "clearing"
    /\ lastInsertion' = None
    /\ Doing(a, None, "idle")
    /\ UNCHANGED <<fieldVars, keys, takeVars, undoable, caseVars, removed,
                   undone, watcher>>

\* Wrong variant: an attempt that is not proven is not noted.
ForgetUnprovenUndo(a) ==
    /\ undoStep[a] = "typed"
    /\ Doing(a, None, "idle")
    /\ UNCHANGED <<fieldVars, keys, takeVars, recordVars, removed, undone,
                   watcher>>

\* Not proven: the field was still touched by us.
DoNotProveUndo(a) ==
    LET t == undoTake[a] IN
    /\ undoStep[a] = "typed"
    /\ undone' = undone \cup {t}
    /\ Doing(a, None, "idle")
    /\ UNCHANGED <<fieldVars, keys, takeVars, recordVars, removed, watcher>>

-----------------------------------------------------------------------------
(* Spoken case commands, in their take's turn.                             *)

Other(case) == IF case = "as said" THEN "changed" ELSE "as said"

\* The snapshot: the exact text of the last insertion is right before a caret of
\* the field.
CaseCommand ==
    /\ acts < MaxActs /\ acts' = acts + 1
    /\ caseStep = "idle" /\ lastInsertion # None /\ focused
    /\ \A u \in Takes \ Repastes : InTurn(u)
    /\ length = 0 /\ start >= TextLength
    /\ Selected(Before(TextLength)) = TextOf(lastInsertion[1], lastInsertion[2])
    /\ caseStep' = "looked" /\ rewriting' = lastInsertion
    /\ fresh' = fresh \cup {Command}
    /\ UNCHANGED <<text, start, length, focused, keys, takeVars, undoable,
                   lastInsertion, undoVars, watcher>>

\* One key for each of its characters ...
SelectForCase ==
    /\ caseStep = "looked" /\ keys[Command] < TextLength
    /\ PressesLeft(Command)
    /\ UNCHANGED <<takeVars, recordVars, undoVars, watcher>>

\* ... and the text in the other case, over them.
Rewrite ==
    /\ caseStep = "looked" /\ keys[Command] = TextLength
    /\ Substitutes(Command, TextOf(rewriting[1], Other(rewriting[2])))
    /\ keys' = [keys EXCEPT ![Command] = 0]
    /\ caseStep' = "typed"
    /\ UNCHANGED <<takeVars, undoable, lastInsertion, rewriting, undoVars,
                   watcher>>

\* LAST_INSERTION["text"] = transformed; it raises after an undo cleared it.
CaseCommandEnds ==
    /\ caseStep = "typed"
    /\ caseStep' = "idle" /\ rewriting' = None
    /\ lastInsertion' =
           IF lastInsertion = None THEN None
           ELSE <<lastInsertion[1], Other(rewriting[2])>>
    /\ UNCHANGED <<fieldVars, keys, takeVars, undoable, undoVars, watcher>>

-----------------------------------------------------------------------------
(* The correction watcher of a take: learn_from_corrections.               *)

WatcherVars == <<fieldVars, keys, takeVars, recordVars, undoVars>>

\* Undone, or the end of its window with nothing to learn.
StopWatching(t) ==
    /\ watcher[t] = "watching"
    /\ watcher' = [watcher EXCEPT ![t] = "off"]
    /\ UNCHANGED WatcherVars

\* infer_revised_insertion: what is around the paste is intact, and what is in
\* its place is not the paste.
LooksRevised(t) ==
    LET tail == Len(before[t].text) - before[t].start - before[t].length
    IN /\ text \notin {<<>>, before[t].text, Watched(t)}
       /\ Len(text) >= before[t].start + tail
       /\ SubSeq(text, 1, before[t].start)
             = SubSeq(before[t].text, 1, before[t].start)
       /\ SubSeq(text, Len(text) - tail + 1, Len(text))
             = SubSeq(before[t].text, Len(before[t].text) - tail + 1,
                      Len(before[t].text))

\* An undo of the take has typed and is over.
UndoEnded(t) ==
    /\ t \in removed
    /\ \A a \in Undoers : undoStep[a] # "typed" \/ undoTake[a] # t

\* observe_paste_outcome reads a revision from the field.
Poll(t) ==
    /\ watcher[t] = "watching"
    /\ LooksRevised(t)
    /\ watcher' = [watcher EXCEPT ![t] =
                      IF UndoEnded(t) THEN "read an undo" ELSE "read an edit"]
    /\ UNCHANGED WatcherVars

\* The check after the wait.
Learn(t) ==
    /\ watcher[t] \in {"read an edit", "read an undo"}
    /\ watcher' = [watcher EXCEPT ![t] =
                      IF t \in undone THEN "off"
                      ELSE IF @ = "read an undo" THEN "learned an undo"
                      ELSE "learned an edit"]
    /\ UNCHANGED WatcherVars

-----------------------------------------------------------------------------
Next ==
    \/ UserTypes \/ UserDeletes \/ UserSelects \/ FocusMoves
    \/ CaseCommand \/ SelectForCase \/ Rewrite \/ CaseCommandEnds
    \/ \E t \in Takes :
          \/ Press(t) \/ Resolve(t) \/ Refuse(t) \/ Paste(t)
          \/ Verify(t) \/ DoNotVerify(t)
          \/ StopWatching(t) \/ Poll(t) \/ Learn(t)
    \/ \E a \in Undoers :
          \/ Claim(a) \/ RefuseUndo(a) \/ LookForUndo(a) \/ SelectForUndo(a)
          \/ Undo(a) \/ ProveUndo(a) \/ ClearLastInsertion(a)
          \/ DoNotProveUndo(a)

Spec == Init /\ [][Next]_vars

-----------------------------------------------------------------------------
(* Properties.                                                             *)

\* The text at i is gone after a step.
Removes(i) == \A j \in 1..Len(text') : text'[j] # text[i]

\* What an undo removes from the part of the field that a fingerprint sees, and
\* all that a case command removes, is text of the take it acts on, whatever was
\* edited before its look.  Between its look and its last key nobody else may
\* have typed, moved the selection or the focus, or set the field: nothing in
\* the code keeps them from it, and then other text is removed
\* (undo_last_dictation, apply_spoken_edit_command).
OnlyOwnTextRemoved ==
    [][/\ \A a \in fresh \cap Undoers : undoStep'[a] = "typed" =>
            \A i \in 1..Len(text) :
                i > start + length - Radius /\ Removes(i)
                => text[i][1] = undoTake[a]
       /\ Command \in fresh /\ caseStep' = "typed" =>
            \A i \in 1..Len(text) :
                Removes(i) => text[i][1] = rewriting[1]]_vars

\* No watcher learns from a field it read after an undo of its take ended,
\* proven or not (note_undone_utterance, learn_from_corrections).
UndoIsNotLearned == \A t \in Takes : watcher[t] # "learned an undo"

\* A watcher reads a revision only from a field that is not as the paste left
\* it (commit_insertion's "exactly one string", dictate.py:9070-9071).
OnlyEditsAreRead ==
    [][\A t \in Takes :
          watcher[t] = "watching" /\ watcher'[t] \notin {"watching", "off"}
          => text # Expected(t).text]_vars

=============================================================================
