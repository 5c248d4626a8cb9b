# Whisper Face in TLA+

Specifications of the concurrent core of Whisper Face (the dictation program in
`src/`), checked with TLC on small instances and, where said so, proved with
TLAPS for every value of the constants. Line numbers are those of the files in
`src/`; `PROJECT.json` lists for every definition the lines it stands for.

## 1. The system

`dictate.py` is one process: a key listener, one worker, a thread per released
take, PortAudio callbacks, a menu on the main thread and a dozen of helper
threads share module-level state. The other files are collaborators with a
narrow interface, and pure functions.

```
 key listener --events--> hotkey worker --ticket, thread--> finisher (one per take)
   ^  restart                 |  Recorder.start                |  Recorder.stop
 watchdog                     v                                v
              Flight stream / audio pool <--invalidate-- recovery worker <-- OS notifications
                              ^                                |
                 menu: pause, Flight on/off                    v  in release order
                                            recognition -> compile -> InsertionCoordinator
                                                                |         \-> Voice Outbox (window)
                                        undo, spoken edits, correction watcher
```

### Components

| component | state | operations | what is hard, and what makes it correct |
|---|---|---|---|
| hotkey worker, release order (`dictate.py` 1200-1232, 6787-6831, 11029-11760, 12160-12330) | key latch, event queue, active take, tickets | press, release, listener recovery, pause; capture tail, decode, turn, completion | takes overlap and fail anywhere: effects in release order, one at a time; nobody waits for ever; no microphone stays open |
| insertion coordinator, Voice Outbox (`insertion_integrity.py`, `dictate.py` 6226-6266) | staged entries, outbox, tombstones | stage, commit, recoverable, acknowledge, copy | callbacks run without the lock: one paste per staging, nothing in flight removed, outbox loses its oldest only |
| Flight Recorder (`dictate.py` 4140-4303) | stream, ring, attached take, deferred recovery | enable, disable, attach, detach, clear, extract, invalidate | callback reads its target and calls it outside the lock; a device may change under a take; the ring must not outlive its permission |
| audio recovery notifications (4640-4815) | signal, active count | signal, take, invalidate, wait for idle, close | a notification that arrives during an invalidation must not be lost |
| Recorder, rolling recognition (4818-5100) | frames, chunk cuts, speculation | callback, start, stop, assemble | pieces decoded early must cover the take exactly once |
| audio pool (4308-4556) | slots, busy slots, deferred recovery, prewarm worker | acquire, release, invalidate, prewarm, close | stale slots replaced only when idle; capacity |
| leases and readback (8794-9060) | a lease per take | capture, resolve, seal, read back | the destination may change at any moment before the paste |
| undo and spoken edits (9064-9500) | last insertion, undo record | undo, replace, delete | undo races a new take and the correction watcher |
| paste and clipboard (10574-10700) | pasteboard, restore timer | paste, restore | two pastes within a second, a user copy in between |
| correction learning (5105-5160, 6272-6780, 9509-9640, `personal_regression.py`) | learned map, suppressed ids | watch, mine, merge | reads a field seconds later |
| delayed cleanup (`delayed_cleanup_*.py`) | consumed proposals, revisions | propose, merge, apply | stale destination |
| verification children (`process_verifier.py`, `prewarmed_verifier.py`) | child, phase, deadline | start, verify, close | late answer, crash, discarded child |
| voice objects, inbox (`voice_inbox.py`, `voice_objects.py`) | durable queue | enqueue, settle, load | crash between file replace and commit in memory |
| Voice Input Protocol (`voice_input_protocol*.py`) | session | hello, propose, result | one exchange per session |
| small machines: risky confirmation, point and speak, circuit breaker | proposal, nonces, cooldown | confirm, execute, allow | deadlines, single use |
| pure parts: compiler, text core, drop-to-target decision, calibration gates, model wallet | none | functions | strings; the unit tests' domain |
| presentation, self update, support, evaluation tools | none shared | clicks, scripts | not part of the concurrent core |

`PROJECT.json` has the same list with the state of each ("components"), and
under "hazards" the behaviours that are hard to test, each at its line.

## 2. Modules

| module | models | state and actions |
|---|---|---|
| `ReleaseOrder` | class `ReleaseOrder` | `issued`, `nextUp`, `completed`; `issue()`, `complete()`, and `wait()` as a guard. Each method runs under one condition lock, hence one step |
| `DictationPipeline` | listener callbacks, watchdog, worker, finishers | a take's `stage` is where its thread is; one action per handler or per part of one between two points where another thread can see it |
| `OrderedDelivery` | what the pipeline promises | releases, acts, settles; no thread, no ticket to wait for |
| `InsertionCoordinator` | class `InsertionCoordinator` | the critical sections of its lock; `commit()` has two |
| `CoordinatorClients` | callers of it | any caller stages, commits, copies or dismisses any id at any time; the callbacks run between two steps |
| `InsertionContract` | ADR 0003, per utterance | an automaton: unknown, staged, pasting, kept, proven, closed |
| `FlightCapture` | class `FlightRecorder` and the Recorders, menu, threads and callbacks that share it | sound is a run of numbered blocks; the ring and each take's audio are sequences of them |
| `AudioPool` | classes `AudioPool`, `AudioSlot`, and the threads that meet in the pool | `pc` is where each thread is between two of the pool's short sections; `initLock` is held over several steps; `stale` marks the streams of a device that is gone |
| `FieldTransactions` | one text field: insertions with their leases, `undo_last_dictation`, the spoken case commands, the correction watchers, the user | the field is a sequence of tokens that know who typed them; looking at the field, each key pressed into it and reading it back are steps of their own; `fresh` remembers who has looked at the field since somebody else changed it |
| `DelayedCleanup` | the same field with the delayed cleanup threads: `schedule_delayed_cleanup`, the two snapshots, the merge of one edit, the last comparison and the write, the report | `cleanup` is where a take's thread is, `captured` what it read last; everything of `FieldTransactions` goes on between its steps |
| `CapturedTake` | `Recorder._callback`, the decode worker, `stop()` and the finisher's plan | audio is a sequence of blocks; a future is a range of them; `parakeet` says which route the speculations take; the callback is cut where the finisher can look at the Recorder |
| `VoiceInbox` | class `VoiceInbox` and `dictate.py`'s reference to the current one | `file` and the `memory` of every object made; a write and the commit in memory are two steps; the process may end between any two |
| `InboxContract` | what an inbox promises | items added, settled and purged; no file, no process |
| `PrewarmedVerifier` | class `PrewarmedVerifierSupervisor`, its owner and prewarm worker in `dictate.py`, its child, and `execute_consequence_plan` | a request is a take and a span; `late` says that a deadline has passed; setting the flag "warming" and starting the thread are two steps, and a request is sent when the child reads it |
| `MCPrewarmedVerifier` | | the symmetry of its instance |
| `*Proofs` | | theorems, section 5 |

`DelayedCleanup` extends `FieldTransactions` with one more writer and has all its
behaviours. `DictationPipeline` extends `ReleaseOrder`, and `CoordinatorClients` extends
`InsertionCoordinator`: both composed systems refine their abstract
specification through `INSTANCE ... WITH`, and so does `VoiceInbox`, whose file
is the queue of `InboxContract`.

Some modules hold definitions marked "Wrong variant". No specification uses
them. Each is a way the definition after it could plausibly be wrong, and each
makes one of the checked properties false: they document what the property is
sensitive to. `PROJECT.json` pairs them under "mutants".

### Abstractions

- A take's text is left out. What a take does in its turn (insertion, command,
  queued draft, edit, snippet) is one `Act`; that it does nothing is `DropInTurn`.
- The pipeline sees microphones as "off", "pool" or "flight"; `FlightCapture` has
  the detail, and there a take is driven by the same worker (`WorkerBusy`).
- In `FlightCapture`, `Recorder.stop()` is two steps: up to the end of
  `detach()`, then `clear()`. A block of sound is captured or not; its samples,
  thresholds of speech and `FLIGHT_MAX_LAG` only decide *which* suffix of the ring
  a tap returns, so any suffix is allowed. The comparison of end times with the
  press is kept, since a property rests on it. The ring loses whole blocks.
- A device change makes the stream of the old device "stale". What reopening gives
  is the new device, or a failure.
- In the coordinator the two ordered dictionaries are sets with an order relation.
  The comparison of a lease with its destination and the readback are
  nondeterministic outcomes. The text itself is left out.
- A Recorder that is not used yet is like any other, so a press takes a fixed one
  of them.
- In `AudioPool` a stream is open or closed, and of the present device or not. Which
  PortAudio call fails is free. Closing is left to the thread that detached a slot,
  as in the code.
- In `FieldTransactions` a text is a run of tokens `<<owner, number, case>>`; token 0 is the
  joining space. The field is readable and keeps what is typed. Keys go to
  whatever has the focus and act on whatever is selected when they are pressed, as
  the code presses them: shift and left arrow extends the selection to the left, whichever end the
  user anchored. That is for the application to decide, and matters only if somebody else
  changed the selection in between. Of another field nothing is kept: what is
  typed there is lost to the model. The staging of
  an insertion is the business of `InsertionCoordinator`, so a commit is its
  comparison and its paste. A take without words is not pasted
  (`TextLength > 0`). `UNDONE_UTTERANCES` keeps 64 ids; here it keeps all.
- In `DelayedCleanup` a proposal takes one word of a take away. Proposals are made once per
  utterance, so the sets of consumed and running proposal ids never refuse one and are left
  out. The code compares words, not who wrote them: owners in `Alike` say the same
  words. A field out of focus stands for any other destination. What the user changed since
  the capture may touch the edit only at either end of the take's text (`MayEdit`);
  every other reason to hold is `GiveUp`, possible at any time. Where setting the
  whole value leaves the caret is free. The last comparison (`Agree`) and the
  write (`SetValue`) are two steps. The code sets the element that it read, so
  the write reaches the field also if the focus has moved on meanwhile.
- In `CapturedTake` the voice threshold is the level of a block; captions, prompts and
  the assembly of text are left out. The two branches of the finisher
  (tail captured or not) read the Recorder in the same order and are one. Whether the
  final Parakeet route exists is decided once for a take; how confident a fast
  decode is, is free.
- In `VoiceInbox` an item's provenance follows from its id. A file that does not
  exist is the empty inbox.
- In `PrewarmedVerifier` a child that does not start is one that dies at once.
  `connection.send` ends when the child reads: a request holds seconds of audio, far more
  than the buffer of a pipe. The start of the thread that warms a supervisor may raise, in the menu
  and in a take.

## 3. What the runs check

| run | instance | checks |
|---|---|---|
| `pipeline` | 3 takes, 2 pool streams, 2 queued events | the five invariants, the two liveness properties and the refinement below |
| `coordinator` | 3 ids, 2 callers, outbox of 2, memory of 1 | the coordinator's invariants, action properties and the refinement of the contract |
| `flight` | 2 takes, a ring of 2 blocks, 3 blocks of sound, 1 starter thread | the Flight invariants |
| `audio_pool` | 2 takes, a pool of 2, 4 streams, any number of device changes | the pool's invariants and its liveness property |
| `field` | `DelayedCleanup`: 2 insertions (one a re-paste) who say the same words, 1 undo thread, 1 act of the user (a spoken case command is one), texts of 3 tokens, one cleanup pass | the field's and the cleanup's invariants and action properties |
| `captured_take` | a take of 9 blocks, both ways of capture | exact cover and final reuse, on both routes |
| `voice_inbox` | 2 callers, 2 ids, 2 items, numbers up to 3, 2 objects | the inbox's invariants and the refinement of its contract |
| `verifier` | 2 takes of 2 spans, 2 workers, 2 children, 2 supervisors | the supervisor's invariants |
| `stranded_ticket`, `flight_reuse`, `flight_off`, `joined_text` | the same shapes | one claim of the documentation each that the code does not keep (section 6) |

**Pipeline.** `EffectsInReleaseOrder` and `OneTakeInTurn`: side effects come in the order of
release, one at a time, although decodes overlap and any stage may raise.
`NoOrphanMicrophone`: an open stream always has the active take, the worker or a
finisher behind it that will stop it. `CaptureIsAnswered`: with the queue empty, a
take records only while the key is down, whatever died in between.
`EveryReleaseSettles`: a released take ends unless an earlier ticket is stranded (that
exception is the finding). `OrphanedCaptureEnds`: a take whose listener died
ends. `ImplementsOrderedDelivery`: the threads refine `OrderedDelivery`.

**Coordinator.** `AtMostOnePaste`, `InFlightIsOwned`, `MemoryIsBounded` at every
instant; `LeavesOutboxOldestFirst` says what one step may never do;
`ImplementsContract`: every id follows the contract, whatever the callers do. That
a verified id stays verified (`VerifiedIsFinal`) follows from the contract; it is proved by
itself and not run.

**Flight.** `HoldIsContiguous`: no recovery cuts a hole into a hold.
`TakesRespectThePress`: a hold has nothing from before its press, a tap nothing
from after it. `TapsAreDisjoint`: no speech is returned by two taps.
`StaleStreamIsOwed`: a stream of a device that is gone is always somebody's to replace,
through every interleaving of notification, recovery worker, menu and take.

**Audio pool.** `TakeKeepsItsStream`: the stream a take records from is its own and stays
open, whatever is replaced meanwhile. `StaleSlotIsOwed`: a slot of a device that is gone
always has a notification, the worker or a take to replace it.
`EveryStreamHasAnOwner`: no failure leaves a stream open that nobody will close, and
none is opened once the pool is closed. `StaleSlotsAreReplaced`: they are replaced in
the end. What is not claimed: that the pool is *warm* again afterwards. `warm_async` declines
while an earlier worker is still alive, so readiness may stay "Starting" until
the next press, which warms the pool itself.

**Field.** `OnlyOwnTextRemoved`: what an undo takes out of the part of the field its
fingerprint covers, and all that a case command takes out, is text of its own take,
whatever was done to the field before its look.
The limit is the code's: the fingerprint has 160 characters on each side of
the caret (`bounded_focus_text`) while an undo removes up to 2,000, so an edit inside
a long insertion, further from the caret, is not seen, although the
docstring (9336-9340) has it refuse when the surrounding text changed.
The property has a premise, `fresh`: between the look and the last key nobody
else has typed, moved the selection or the focus, or set the field. The model has that gap,
key by key, with re-pastes, cleanups and the user in it. Nothing in the code closes it, since no
lock of the process covers a field of another application, and without the premise TLC
finds other text removed. So what the docstring says (9338-9340), that an undo
refuses "rather than deleting whatever happens to be there now", holds of its look and not
of its keys.
`UndoIsNotLearned`: a field that a watcher read after an undo ended is not
learned from. A poll that falls between an undo's last key and its note and is also
followed by the second check before the note is not covered, by the code or
by the property. `CleanupIsPrecise`: a cleanup changes the field as it is at
the write, at the only place where the words of its edit stand, whatever an undo, another
insertion or the user did between the snapshot it merged and its last comparison. It has the
same premise for the window between that comparison and the write, which the
docstring (`macos_delayed_cleanup_destination.py` 340-343) admits; without it TLC finds words
lost that were typed in the window. The first two properties hold with
cleanups in between as well. `ShowsNewest`: the outcome on show is that of the newest
pass. It needs two passes that overlap, for which the run has no room, and is proved
instead. What is not claimed: the generation only decides who reports, after the write
(`dictate.py` 10103-10106), although `wiki/delayed-cleanup.md` 27-28 has it that it "invalidates
stale cleanup threads"; a pass that is not the newest still writes if its
comparison allows it. And a pass looks for its words anywhere in the focused field, so it may
edit the same words of another take (`delayed_cleanup_merge.py` 386).

**Captured take.** `DecodedOnce`: every block with voice is in exactly one of the decoded
pieces, except a remainder under a quarter of a second. `ReusedIsFinal`: no
cancelled decode and none that had stopped counting is assembled, although all speculations of
a take share one flag; and where there is a Parakeet route, none that was not verified.
Without the route (4802-4808) a confident fast decode is final, unverified, by
intention. Both are stated for a take whose callback was out before
the finisher read it. That holds for every take through the pool, whose
stream has stopped; a Flight callback may still be inside after `detach()`, which the comment
at 11060-11062 ("Quiesce the callback") does not consider.

**Voice inbox.** `AnsweredIsDurable`: what a caller was told is on disk, until a purge.
`NumberNamesOneItem`: purges, failed writes and restarts never reuse a number.
`FileFollowsContract`: the file refines `InboxContract`. All three have the premise
`~overlapped`: the class calls itself a "Single-owner" queue. `dictate.py` does not
quite keep to that: when Voice Objects are switched off and on while a caller holds
the old object, two objects write the file, each from its own memory. In the model
this happens, and without the premise all three properties are violated.

**Verifier.** `AnswerIsOwn`: an answer counts for the request it answers.
`NoStrayChild`: a running child is known to a supervisor that is not closed.
`WarmingHasOneWorker`: one thread at most warms a supervisor, counted from the setting of the
flag "warming" (1788), and the flag is set exactly while one warms the current supervisor. The
exception is named in it: the flag is set before the thread exists, so if `start()` (1789-1794)
raises it stays set, and nobody warms that supervisor again (`abandoned`).
`OnlySendOutlastsDeadline`: whoever holds the lock can go on once its deadline has
passed, but for one that is still sending to a child that lives and does not read
(`prewarmed_verifier.py` 270). That send has no deadline, and then the next take and the menu's
`close()` wait for the child.

### Bounds, and why they are enough

- `Takes`: three takes give a holder of the turn, one that finished early and one that
  waits; two pool streams then also meet the exhausted pool. In `FlightCapture`
  two takes give one in its tail or closing and one starting, and both ways of
  capture for each; the worker drives only one press at a time.
- `MaxQueued = 2`: the worker can lag a press and a release, or a release and a
  recovery event. `KeyPress` is also bounded by the Recorders left.
- Ids and callers: three texts overflow an outbox of two; a memory of one is evicted by
  the second settlement, so an id comes back; two callers are enough for a commit
  inside another's callbacks.
- `MaxBuffer = 2`, `MaxBlocks = 3`: the ring expires a block, and there is sound before,
  during and after a press. `MaxStarters = 1`: one late thread; the second
  `enable()` of two would find the stream open.

- `AudioPool`: two takes over two slots give a take that acquires while the tail of
  the other records, and either may run the deferred recovery; a refusal for want of slots
  needs no third take, since a recovery that is pending refuses as well. Four streams: two
  that one thread still has to close, and two that are opened meanwhile.
- `DelayedCleanup` and the field: two insertions give a text before and a text after the
  caret; one undo thread meets the re-paste, the cleanup and the user at every key; one act is
  typing, selecting, moving the focus, deleting or a case command. Two undo threads claim different
  records, so the second is one writer more; that any number of them keeps the properties is
  proved. `Radius = 1` is smaller than a text,
  `UndoMax = 4` lets a joined text through, and with three tokens the edited word has a
  neighbour on either side. A re-paste starts no cleanup, so one pass runs, and meets
  the same words of the re-paste: it may find its anchor twice, or in the wrong take.
  It has 1.2 million states. `joined_text` runs `FieldTransactions` alone, with three acts.
- `CapturedTake`: 9 blocks with `ChunkMin = 3` give a cut chunk, an invalidated and a
  reused speculation, and a remainder, in any order.
- `VoiceInbox`: two callers for a lock that is waited for and for a
  reference that goes stale; three numbers for two items, so that a purge makes room;
  two objects, so that one is made while another is held.
- `PrewarmedVerifier`: two takes meet at the lock, two spans let an answer be
  late for the next request, two supervisors give a worker that outlives its own and a take that
  is about to start a worker for one that is closed by then; a
  child that is gone may be started again, so two names suffice. Takes, workers and children are
  symmetric (`MCPrewarmedVerifier`): nothing tells them apart, and the run checks invariants only. It has
  460,000 states.

`pipeline`, `field`, `captured_take`, `voice_inbox` and `verifier` turn deadlock checking off:
their takes, acts, blocks, numbers and supervisors are finite and may all be
used up. In the other runs devices, the menu or the callers can always move.

### Fairness

The liveness properties of the pipeline and of the pool need any. In the pipeline, the worker
(`while True: events.get()`), the watchdog's poll and each finisher are running
threads, so a step of theirs that stays possible is taken: weak fairness of each. Nothing
is assumed of keys, the pause menu or the listener's death: a take held for ever
is legal. That a decode ends is part of a finisher's fairness: `assemble_raw` joins
futures whose work is bounded by the audio. That a restart of the listener
succeeds eventually is the watchdog's retry loop (`RetryListener`); a macOS that
refuses for ever is not covered.

In `AudioPool` each thread has strong fairness of its steps. `threading.Lock` is not
fair, but the sections under `init_lock` are finite and its users few, so that one
that waits gets it in the end. A take's steps include the end of its
recording: its key is released or the listener is recovered, which is what
`OrphanedCaptureEnds` shows. Device changes, presses and quitting are not fair.

No liveness is checked of the verifier: what could hold it up is the lock, and
`OnlySendOutlastsDeadline` says as an invariant who can be stuck with it. No fairness would be
justified for a child that does not read. `close()` may also wait for a
prewarm of up to 60 s.

## 4. Details worth knowing when reading the modules

- The worker publishes `active["rec"]` before `rec.start()`, and forgets it before the
  ticket is issued: both orders are kept, since exceptions can fall between.
- `restart_dead_hotkey_listener` runs `on_dead()` once and then retries: `RestartListener`
  and `RetryListener`.
- `complete()` of a ticket that has been passed does nothing; otherwise it drains the set.
- `commit()` makes the entry terminal in its first critical section, so that an
  exception in the callbacks leaves it in the outbox with an unknown outcome.
- `copy_latest_outbox` reads the item, fills the clipboard and then acknowledges
  the id it read, which may have changed meanwhile.
- `init_lock` is held while a stream is replaced, which takes long, and by every
  attach, detach, enable and disable; `invalidate()` with a take attached only sets
  `recovery_pending`, and the detach runs the recovery.
- `release()` drops its slot and may run the recovery under `init_lock`; the slots are
  closed after it, and only then is the prewarm scheduled. A take whose stream does not
  start drops its slot and detaches all of them in one section.
- `RecoveryClosed`: quitting closes the notifications before the pool. The model lets the
  recovery worker finish what it is at; `close()` waits a second for it.
- Undo claims its record before it looks at the field, so a refused undo has used it
  up: a second press finds nothing to undo. `ClearLastInsertion` is a step of its
  own, since the code compares and clears `LAST_INSERTION` without a lock; a case command
  whose record was cleared meanwhile raises at its last assignment.
- An undo and a case command press shift and left arrow once per inserted character, then one
  substitution: `PressesLeft` and `Substitutes`. The comments call the substitution atomic
  (9380-9382, 10763-10765); the keys before it are not part of it. A paste whose comparison was good
  goes into whatever has the focus at its key.
- A command that takes its turn while `LAST_INSERTION` is rewritten keeps its own copy
  (`rewriting`) of text and case.
- The flag `speculative_invalid` is set only while there is a speculation; `CanReuseSpeculation`
  compares the start of the speculation with the current cut.
- `_voice_object_inbox_bridge()` returns an object that may not be current any more, and
  three of its callers look at the reference again: `LookAgain`. It may be `None` by
  then; the AttributeError is not among the exceptions they catch.
- A verifier's child that dies after a take found it warm is started again inside the take
  (`Verify`), within its deadline of 0.75 s. `wiki/consequence-receipts.md` 49-50 has it that "no
  dictation ever pays model load"; this is the exception.

## 5. Proofs

All of them hold for any sets of takes, ids and callers and any bounds allowed
by the ASSUMEs of the modules (`CoordinatorAssumption` asks for finitely
many ids, as a dictionary has).

- `DictationPipelineProofs`. Type correctness first. `MicInv` ties `active`, `working`
  and `mic` to the stage of each take; the goal alone is not inductive, since
  who may close a stream depends on who is driving the take.
  `QueueInv`: the last press or release in the queue tells whether the key is latched and a
  recovery event resets it, so an empty queue leaves no unanswered take.
  `IInv` is the ordering argument: completed tickets were issued, tickets are
  unique, a ticket in a stage that owes a completion is not settled, a take in its
  turn has been passed, and every effect's ticket is at most `nextUp`. An unsettled ticket
  that has been passed is `nextUp` itself, so two takes in their turn are the same
  and an effect is later than all before it. The refinement takes each step to one of
  `OrderedDelivery` or a stutter; `CompleteSettlesOne` says that `complete()` settles
  its ticket and no other. `NobodyWaitsInACircle` is what is safety in `EveryReleaseSettles`: a take
  that waits, waits for the owner of `nextUp`, which every ticket has and which
  `complete()` never leaves among the completed (`TicketsAreHeld`); that owner meets the
  guard of its thread's next step, or its thread was never started. With a `complete()` that
  does not drain the tickets finished early it is false.
- `CoordinatorProofs`. `IInv`: well-formedness, ownership of what is in flight, and
  that an id that is not terminal has not been pasted. From it the type
  invariant, `AtMostOnePaste` and `InFlightIsOwned`. `BInv` adds the bounds: the order
  relations are strict total orders on their sets, and then
  `Youngest(S, before, n)` has at most n members, by a counting argument on finite
  sets. A step adds at most one to the outbox, so at most the oldest one leaves. The
  two action properties and the refinement of the contract follow from `BInv`.
- `FlightCaptureProofs`. Type correctness needs that a block on its way to a take was
  spoken (`Heard`). `Owed`: while `init_lock` is held across a replacement the
  stream is closed and nobody rides it, and who rides the stream knows it does; with
  that `StaleStreamIsOwed` is inductive. `PressInv`, `HoldInv` and `TapInv` carry the
  other three: a recording take has heard every block but the one on its way (which is
  the next of its take), and what a closed tap returned is older than all that is in
  the ring, because the worker drives one take at a time and closes a tap before
  the next press.

- `AudioPoolProofs`. `LockInv` says who may be opening or starting, `StreamInv` that an open
  stream is in exactly one of the pool, the streams being opened and what one thread
  detached, `BusyInv` that the busy slots are those of the takes, and `RecoveryInv` that
  a deferred recovery has a take to run it. One lemma per action; the four
  invariants follow.
- `FieldTransactionsProofs`. `RemovedIsNoted`: a take whose text an undo has typed over is
  noted, or a thread that will note it is still at it. With it a watcher that
  reads an undo finds it noted at its second check. `FInv`: typing and "undo removes only
  text of its take" need each other. An undo moves the caret back by the length of the
  insertion, which stays in the text only if that insertion stands before the caret; so
  the type invariant is not inductive. `PastesKnown` says that who may type over a paste
  has the field the paste found, with its selection inside its text, and `TypedIsRemoved`
  that an undo that has typed has noted its take as removed.
  `OnlyOwnTextRemoved` is about the last key, many steps after the look; what connects the two is
  `FreshLooks`, and with it the inductive invariant is `GInv`: as long as nobody else changed the field
  since the look of an undo, as many characters are selected as keys were pressed, and
  the field with a caret at the far end of that selection still matches the fingerprint (for a case
  command: still has its text there). Without `KeysAfterLook` and `Settled` that is not inductive: a
  thread must begin with no keys pressed, and the text it is to remove must not be pasted again. At the
  last key the selection is then the inserted text, with lemmas about what `Replaced` leaves where
  (`ReplacedIs`, `SameBeforeCaret`, `PastedIsOwn`).
  With cleanups the same properties are proved from `CInv`: `GInv`, the typing of the
  passes, `AgreedIsFresh` (the comparison of a pass that is fresh still holds), `ShowsNewest` and
  `CleanupAfterTurn`, that a pass exists only for a take
  whose turn is done. Without the last the rest is not inductive: a take could be scheduled
  again while its outcome is on show. `FInv` survives a write of the whole field because it speaks
  of what the paste found and of the records, not of the field as it is now, and `FreshLooks` because
  the write leaves no other look fresh. `CleanupIsPrecise` follows from `AgreedIsFresh`: the
  words that stand there at the write are those the merge was made from (`WordsAre`), and equal
  words have the same edit (`EditedIs`, `SameWordsSameEdit`), although their owners may differ.
  `CleanupShowsNewest`, for any number of overlapping passes, is beyond the run.
- `CapturedTakeProofs`. `DecodedOnce` is about the end of a take; what carries it is
  where the futures lie before. `ChunkInv`: the listed chunks follow one another up to the cut
  without overlap and every voice block up to there is in one. `SpecInv`: a speculation that
  still counts starts at the cut, and all behind it is quiet. `FinisherInv`: what the
  finisher has read, if no callback came after the stop, is still so. `ReusedIsFinal` rests
  on the order of the one worker (`FifoInv`: nothing is begun before what was submitted
  earlier is over) and on what may be listed (`ListedInv`): the shared flag is set only for a
  speculation that was begun, so what was listed before it is over by then. That
  nothing is accepted unverified on the Parakeet route is `RouteInv`, an invariant of the worker alone. The typing
  has to say in addition that a block just appended is the callback's own.
- `PrewarmedVerifierProofs`. `AnswerIsOwn` needs that what is in a pipe belongs to the request in
  progress (`PipeInv`), which needs that a child is known to one supervisor (`ChildInv`) and
  that who is inside the locked section holds that supervisor's lock (`LockInv`,
  `PlaceInv`). Every refusal discards the child with its pipe, so no answer outlives its
  request. `WarmingHasOneWorker`, which is inductive with the typing, and
  `NoStrayChild` are from the same invariant.
  `VerifierHolderMayGoOn` is what can be proved of `OnlySendOutlastsDeadline`: whoever holds a lock past
  its deadline meets the guard of a step that gives it up, unless it sends to a child that lives and
  has not read. That such a step is ENABLED is TLC's part. `VerifierAssumption` says that a take and a worker are
  different threads and that None is no thread and no child.
- `VoiceInboxProofs`. `UseInv` (one writer per object), `LoadsInv` (what is on disk, in memory or
  about to be written can be loaded), `OwnerInv` (with one owner, memory is the file
  except between a replace and its commit) and `HistoryInv` (receipts agree with the
  file and their numbers are used up). `AnsweredIsDurable` alone is not inductive: a
  write could start from a memory that has missed another. `InboxAlwaysLoads` needs no premise
  on owners.

Not proved, only model-checked: the liveness properties (`EveryReleaseSettles`, `OrphanedCaptureEnds`,
`StaleSlotsAreReplaced`), since fairness is beyond the prover's reach, and
`OnlySendOutlastsDeadline`, which uses ENABLED. Every other property of a passing run is the subject of a theorem.
Proved but in no run: `VerifiedIsFinal`, `ShowsNewest`, `WaitsForOneThatGoesOn` and `TypeOK` of
`FieldTransactions`, which `CleanupTypeOK` contains.
Induction over data and RECURSIVE operators are out of reach as well; the modules declare none.

## 6. Where the code departs from its own documentation

1. **A ticket without a thread** (`stranded_ticket`). `finish_in_release_order` says it
   will "always unblock later releases", but the worker issues the ticket before the
   thread exists; an exception in between strands it and every later take waits.
2. **A hold stays in the ring** (`flight_reuse`). The buffer is "cleared after use", which
   `Recorder.stop` does only for a take that rode the Flight stream. A hold that had
   to use the pool while Flight ran can be returned again by a tap.
3. **Flight after it was switched off** (`flight_off`). A buffer "cleared on pause, when disabled" is
   filled again when the thread that starts Flight is late: it looks neither at the preference nor at
   the pause again. The trace switches Flight on and then off again, or pauses: the two are equally
   long, and TLC reports either.
4. **The joined text** (`joined_text`). `commit_insertion` joins a text to what stands before it
   "so the staged string, the paste, the readback expectation, and the observed range
   all agree on exactly one string". The correction watcher's receipt is made before
   that, without the space. In the trace a word of the user stands before the take; the
   watcher's first poll takes the unedited field for a revision,
   records the take as edited, and stops before a real correction can come.

## 7. Plan

Done: release order, pipeline, coordinator, Flight capture, audio pool, the field, key by key, with
undo, correction watchers and delayed cleanups, a captured take, the voice inbox, the prewarmed verifier.
What would come next:

1. An abstract specification of a captured take (every voice block is in the result
   once, and nothing after the release) that `CapturedTake` implements, and one of the
   field (insert, undo, revise by whole takes) for `FieldTransactions`.
2. The pasteboard with its restore timers: two pastes within a second and a copy by the user.
3. The session of the Voice Input Protocol over `InsertionCoordinator`, once the app serves it.

## 8. Not modelled, and why

Pure text processing (the compiler, the text core, command parsing, the mining of
corrections), the model wallet and the calibration gates have no state over
time: their properties are about strings and files. Presentation, self update, support bundles,
the evaluation tools and the experimental networkless worker do not take part in
the concurrent core; together they are most of the lines of the repository. The
native recognition helper is outside: a recognition is an outcome. Risky
action confirmation, point and speak, the cleanup circuit breaker and drop to target are
small machines or decisions under one lock or without callers.

Of the parts modelled "partly", `PROJECT.json` says what is left out of each: above all the
pasteboard, opaque windows, how a cleanup is proposed and its differences are found, the one-shot verifier process, and the undo key and
modifier latch of the key callbacks.
