--------------------------- MODULE DelayedCleanup ---------------------------
(***************************************************************************)
(* delayed_cleanup_merge.py, macos_delayed_cleanup_destination.py and      *)
(* their callers in dictate.py: one more writer of the field.  After a     *)
(* proven insertion a thread asks the language model for a cleaner text,   *)
(* reads the field, merges, reads it twice again, and if it is still the   *)
(* one it read replaces its whole value.  Everything of FieldTransactions  *)
(* goes on meanwhile, also between the last read and the write.            *)
(*                                                                         *)
(* The threads compare words, not who wrote them: owners in Alike say the  *)
(* same words.  A proposal takes one word of the take away; an edit is     *)
(* found again by its anchor, the words next to it.                        *)
(***************************************************************************)
EXTENDS FieldTransactions

CONSTANTS
    Alike,          \* takes, and perhaps the user, who say the same words
    EditAt          \* the word that a proposal takes away

ASSUME CleanupAssumption ==
    /\ None \notin Snapshots
    /\ Alike \subseteq Takes \cup {User}
    /\ EditAt \in 1..TextLength

VARIABLES
    cleanup,        \* of each take: where its cleanup thread is
    captured,       \* the snapshot that the thread read last
    generation,     \* DELAYED_CLEANUP_STATE["generation"]
    itsGeneration,  \* of each take: its thread's argument
    shown           \* the outcome in PIPELINE_STATE, None for "scheduled"

cleanupVars == <<cleanup, captured, generation, itsGeneration, shown>>
allVars == <<vars, cleanupVars>>

CleanupTypeOK ==
    /\ TypeOK
    /\ cleanup \in [Takes -> {"off", "building", "captured", "rechecked",
                              "agreed", "wrote", "gave up", "ended"}]
    /\ captured \in [Takes -> Snapshots \cup {None}]
    /\ \A t \in Takes :
        captured[t] # None <=>
            cleanup[t] \in {"captured", "rechecked", "agreed"}
    /\ generation \in Nat
    /\ itsGeneration \in [Takes -> 0..generation]
    /\ shown \in (Takes \X {"wrote", "gave up"}) \cup {None}

CleanupInit ==
    /\ Init
    /\ cleanup = [t \in Takes |-> "off"]
    /\ captured = [t \in Takes |-> None]
    /\ generation = 0 /\ itsGeneration = [t \in Takes |-> 0]
    /\ shown = None

-----------------------------------------------------------------------------
(* The three-way merge.                                                    *)

\* The words of a text, whoever wrote them.
Said(x) == <<IF x[1] \in Alike THEN "alike" ELSE x[1], x[2], x[3]>>
Words(s) == [i \in 1..Len(s) |-> Said(s[i])]

\* _unique_boundary_anchor: the edit with the unchanged word on either side.
AnchorFirst == IF EditAt > 1 THEN EditAt - 1 ELSE 1
AnchorLast == IF EditAt < TextLength THEN EditAt + 1 ELSE TextLength
Anchor(t) == SubSeq(TextOf(t, "as said"), AnchorFirst, AnchorLast)

\* _occurrences: where the anchor stands in a text, as words before it.
Occurrences(s, t) ==
    {i \in 0..(Len(Words(s)) - Len(Anchor(t))) :
        SubSeq(Words(s), i + 1, i + Len(Anchor(t))) = Words(Anchor(t))}

\* merge_delayed_cleanup admits the edit, at the only place of its anchor.  At
\* either end of the take's text it must not touch what others wrote.
MayEdit(s, t, i) ==
    /\ TextLength > 1
    /\ Occurrences(s, t) = {i}
    /\ EditAt = 1 => i = 0
    /\ EditAt = TextLength => i + Len(Anchor(t)) = Len(s)

\* A text without the edited word.
Edited(s, i) ==
    Replaced([text |-> s, start |-> i + EditAt - AnchorFirst, length |-> 1],
             <<>>)

-----------------------------------------------------------------------------
(* The thread of a take's cleanup.                                         *)

\* A cleanup may read what it read before: text, selection, and the focus.
Unchanged(t) ==
    /\ focused
    /\ Words(text) = Words(captured[t].text)
    /\ start = captured[t].start /\ length = captured[t].length

\* Wrong variant: the number is taken but not counted.
ScheduleUncounted(t) ==
    /\ generation' = generation
    /\ itsGeneration' = [itsGeneration EXCEPT ![t] = generation + 1]
    /\ shown' = None

\* schedule_delayed_cleanup: the newest pass is the one that reports.
Schedule(t) ==
    /\ generation' = generation + 1
    /\ itsGeneration' = [itsGeneration EXCEPT ![t] = generation']
    /\ shown' = None

\* The paste is proven, and the language model is asked instead of a watcher.
VerifyAndSchedule(t) ==
    /\ stage[t] = "pasted" /\ t \notin Repastes
    /\ text = Expected(t).text
    /\ stage' = [stage EXCEPT ![t] = "done"]
    /\ undoable' = t
    /\ lastInsertion' \in {lastInsertion, <<t, "as said">>}
    /\ Schedule(t)
    /\ cleanup' = [cleanup EXCEPT ![t] = "building"]
    /\ UNCHANGED <<fieldVars, keys, lease, before, caseVars, undoVars, watcher,
                   captured>>

Goes(t, step, snapshot) ==
    /\ cleanup' = [cleanup EXCEPT ![t] = step]
    /\ captured' = [captured EXCEPT ![t] = snapshot]
    /\ UNCHANGED <<generation, itsGeneration, shown>>

\* The proposal is proof-checked; the first snapshot of the focused field.
Capture(t) ==
    /\ cleanup[t] = "building"
    /\ focused
    /\ Goes(t, "captured", Snapshot)
    /\ UNCHANGED vars

\* The merge has an edit to make, and a second snapshot equals the first.
Recheck(t) ==
    /\ cleanup[t] = "captured"
    /\ \E i \in 0..Len(captured[t].text) : MayEdit(captured[t].text, t, i)
    /\ Unchanged(t)
    /\ Goes(t, "rechecked", Snapshot)
    /\ UNCHANGED vars

\* Wrong variant: the field is not compared again before it is set.
AgreeAnyway(t) ==
    /\ cleanup[t] = "rechecked" /\ focused
    /\ Goes(t, "agreed", captured[t])
    /\ fresh' = fresh \cup {t}
    /\ UNCHANGED <<field, keys, takeVars, recordVars, undoVars, watcher>>

\* compare_and_swap_focused_destination, the comparison: a third snapshot.
Agree(t) ==
    /\ cleanup[t] = "rechecked" /\ Unchanged(t)
    /\ Goes(t, "agreed", captured[t])
    /\ fresh' = fresh \cup {t}
    /\ UNCHANGED <<field, keys, takeVars, recordVars, undoVars, watcher>>

\* Its write: the whole value of the element that was read becomes the merged
\* one, whatever it is by now and whatever has the focus; where that leaves the
\* caret is up to the application.
SetValue(t) ==
    /\ cleanup[t] = "agreed"
    /\ \E i \in 0..Len(captured[t].text) :
        /\ MayEdit(captured[t].text, t, i)
        /\ text' = Edited(captured[t].text, i)
    /\ start' \in 0..Len(text') /\ length' = 0
    /\ fresh' = {}
    /\ Goes(t, "wrote", None)
    /\ UNCHANGED <<focused, acts, keys, takeVars, recordVars, undoVars, watcher>>

\* No proposal, an unreadable or changed field, an edit that is refused or is
\* held because a difference touches it, an exception.
GiveUp(t) ==
    /\ cleanup[t] \in {"building", "captured", "rechecked", "agreed"}
    /\ Goes(t, "gave up", None)
    /\ fresh' = fresh \ {t}
    /\ UNCHANGED <<field, keys, takeVars, recordVars, undoVars, watcher>>

\* The end of _run_delayed_cleanup: a pass that is not the newest is silent.
Report(t) ==
    /\ cleanup[t] \in {"wrote", "gave up"}
    /\ shown' = IF itsGeneration[t] = generation THEN <<t, cleanup[t]>>
                ELSE shown
    /\ cleanup' = [cleanup EXCEPT ![t] = "ended"]
    /\ UNCHANGED <<vars, captured, generation, itsGeneration>>

CleanupNext ==
    \/ Next /\ UNCHANGED cleanupVars
    \/ \E t \in Takes :
          VerifyAndSchedule(t) \/ Capture(t) \/ Recheck(t) \/ Agree(t)
          \/ SetValue(t) \/ GiveUp(t) \/ Report(t)

CleanupSpec == CleanupInit /\ [][CleanupNext]_allVars

-----------------------------------------------------------------------------
(* Properties, beside those of FieldTransactions.                          *)

Writes(t) == cleanup[t] = "agreed" /\ cleanup'[t] = "wrote"

\* A cleanup takes one word away, where the anchor of its edit stands in the
\* field at its write, which is one place, and every other word stays, although
\* it merges what it read two snapshots earlier.  Between its last comparison
\* and its write nobody else may have written the field or moved its selection
\* or the focus: Accessibility has no compare-and-swap, and then their words are
\* lost (DelayedCleanupTransactionAdapter.apply, apply_if_unchanged).
CleanupIsPrecise ==
    [][\A t \in fresh \cap Takes : Writes(t) =>
          /\ focused
          /\ \E i \in 0..Len(text) :
                /\ Occurrences(text, t) = {i}
                /\ Words(text') = Words(Edited(text, i))]_allVars

\* The outcome on show is that of the newest pass (_run_delayed_cleanup).
ShowsNewest == shown # None => itsGeneration[shown[1]] = generation
=============================================================================
