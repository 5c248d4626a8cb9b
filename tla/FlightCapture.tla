---------------------------- MODULE FlightCapture ---------------------------
(***************************************************************************)
(* dictate.py, class FlightRecorder and what shares it: the Recorders that *)
(* ride its stream (start, stop, retrospective tap), the menu that toggles *)
(* and pauses it, the thread that starts it, the recovery worker that      *)
(* replaces a stream of a changed default input, and PortAudio's callback. *)
(*                                                                         *)
(* Sound is a run of numbered blocks of speech.  FlightRecorder.lock makes *)
(* each of its short sections one step; init_lock is held across a         *)
(* recovery, which closes a stream and opens another, and is a variable.   *)
(***************************************************************************)
EXTENDS Integers, SequencesExt

CONSTANTS
    Takes,          \* the Recorders that may be created
    NoTake,
    RecoveryWorker, \* whisper-face-audio-recovery, as holder of init_lock
    MaxBuffer,      \* max_samples, in blocks
    MaxBlocks,      \* bound: blocks spoken
    MaxStarters     \* bound: start() threads alive at once

ASSUME FlightAssumption ==
    /\ NoTake \notin Takes
    /\ RecoveryWorker \notin Takes \cup {NoTake}
    /\ MaxBuffer \in Nat \ {0}
    /\ MaxBlocks \in Nat
    /\ MaxStarters \in Nat

VARIABLES
    stream,         \* FLIGHT.stream: "closed", "fresh", or bound to a "stale" device
    buffer,         \* FLIGHT.frames
    target,         \* FLIGHT.target
    pending,        \* FLIGHT.recovery_pending
    initLock,       \* holder of FLIGHT.init_lock, or NoTake
    pref, paused,   \* PREFERENCES["flight_recorder"], PAUSED["on"]
    menu,           \* "idle", or "disabling": the main thread is to call disable()
    starters,       \* start() threads that have not called enable() yet
    notified,       \* a device notification the recovery worker has not taken
    recovery,       \* the recovery worker: "waiting" or "invalidating"
    now,            \* blocks spoken so far
    forward,        \* the take the Flight callback is about to call, or NoTake
    stage, via, source, pressAt, audio  \* of each Recorder

flightVars == <<stream, buffer, target, pending, initLock>>
menuVars == <<pref, paused, menu, starters>>
deviceVars == <<notified, recovery>>
soundVars == <<now, forward>>
takeVars == <<stage, via, source, pressAt, audio>>
vars == <<stream, buffer, target, pending, initLock, pref, paused, menu,
          starters, notified, recovery, now, forward, stage, via, source,
          pressAt, audio>>

Stages == {"unused", "pressed", "held", "tail", "closing",
           "abandoning", "used", "dropped"}
Blocks == 1..MaxBlocks

TypeOK ==
    /\ stream \in {"closed", "fresh", "stale"}
    /\ buffer \in Seq(Blocks) /\ Len(buffer) <= MaxBuffer
    /\ target \in Takes \cup {NoTake}
    /\ pending \in BOOLEAN
    /\ initLock \in Takes \cup {NoTake, RecoveryWorker}
    /\ pref \in BOOLEAN /\ paused \in BOOLEAN
    /\ menu \in {"idle", "disabling"}
    /\ starters \in 0..MaxStarters
    /\ notified \in BOOLEAN
    /\ recovery \in {"waiting", "invalidating"}
    /\ now \in 0..MaxBlocks
    /\ forward \in Takes \cup {NoTake}
    /\ stage \in [Takes -> Stages]
    /\ via \in [Takes -> {"none", "flight", "pool"}]
    /\ source \in [Takes -> {"hold", "flight"}]
    /\ pressAt \in [Takes -> 0..MaxBlocks]
    /\ audio \in [Takes -> Seq(Blocks)]

\* The state main() reaches before the worker and the listener start.
Init ==
    /\ pref \in BOOLEAN
    /\ stream = IF pref THEN "fresh" ELSE "closed"
    /\ buffer = <<>>
    /\ target = NoTake
    /\ pending = FALSE
    /\ initLock = NoTake
    /\ paused = FALSE
    /\ menu = "idle"
    /\ starters = 0
    /\ notified = FALSE
    /\ recovery = "waiting"
    /\ now = 0
    /\ forward = NoTake
    /\ stage = [t \in Takes |-> "unused"]
    /\ via = [t \in Takes |-> "none"]
    /\ source = [t \in Takes |-> "hold"]
    /\ pressAt = [t \in Takes |-> 0]
    /\ audio = [t \in Takes |-> <<>>]

LockFree == initLock = NoTake

-----------------------------------------------------------------------------
(* Sound.                                                                  *)

\* Recorder.recording as its callback sees it.
Recording(t) == stage[t] \in {"pressed", "held", "tail"}

\* Wrong variant: nothing expires.
RingForEver(frames) == frames

\* Appending to the ring drops what exceeds max_samples.
Ring(frames) ==
    IF Len(frames) > MaxBuffer THEN Tail(frames) ELSE frames

\* One block reaches every open stream.  The Flight callback buffers it and
\* reads its target under the lock, and calls the target outside of it.
Speak ==
    /\ now < MaxBlocks
    /\ forward = NoTake
    /\ now' = now + 1
    /\ \/ stream = "closed" /\ UNCHANGED <<buffer, forward>>
       \/ /\ stream # "closed"
          /\ buffer' = Ring(Append(buffer, now + 1))
          /\ forward' = target
    /\ audio' = [t \in Takes |->
            IF via[t] = "pool" /\ Recording(t) THEN Append(audio[t], now + 1)
            ELSE audio[t]]
    /\ UNCHANGED <<stream, target, pending, initLock, menuVars, deviceVars,
                   stage, via, source, pressAt>>

\* target._callback: ignored unless the Recorder still records.
Forward ==
    /\ forward # NoTake
    /\ forward' = NoTake
    /\ audio' = [audio EXCEPT ![forward] =
            IF Recording(forward) THEN Append(@, now) ELSE @]
    /\ UNCHANGED <<flightVars, menuVars, deviceVars, now, stage, via, source,
                   pressAt>>

-----------------------------------------------------------------------------
(* The menu: set_paused, set_flight_enabled and start_flight_async.        *)

\* start_flight_async, when it is called: spawn start() unless it is running.
StartAsync ==
    \/ stream # "closed" /\ UNCHANGED starters
    \/ /\ stream = "closed"
       /\ starters < MaxStarters
       /\ starters' = starters + 1

TogglePause ==
    /\ menu = "idle"
    /\ paused' = ~paused
    /\ \/ paused' /\ menu' = "disabling" /\ UNCHANGED starters
       \/ ~paused' /\ pref /\ StartAsync /\ UNCHANGED menu
       \/ ~paused' /\ ~pref /\ UNCHANGED <<menu, starters>>
    /\ UNCHANGED <<flightVars, pref, deviceVars, soundVars, takeVars>>

ToggleFlight ==
    /\ menu = "idle"
    /\ pref' = ~pref
    /\ \/ ~pref' /\ menu' = "disabling" /\ UNCHANGED starters
       \/ pref' /\ paused /\ UNCHANGED <<menu, starters>>
       \/ pref' /\ ~paused /\ StartAsync /\ UNCHANGED menu
    /\ UNCHANGED <<flightVars, paused, deviceVars, soundVars, takeVars>>

\* FLIGHT.disable().
Disable ==
    /\ menu = "disabling"
    /\ LockFree
    /\ menu' = "idle"
    /\ stream' = "closed"
    /\ buffer' = <<>>
    /\ target' = NoTake
    /\ pending' = FALSE
    /\ UNCHANGED <<initLock, pref, paused, starters, deviceVars, soundVars,
                   takeVars>>

\* FLIGHT.enable() of a start() thread; a failure turns the preference off.
StartFlight ==
    /\ starters > 0
    /\ LockFree
    /\ starters' = starters - 1
    /\ \/ stream # "closed" /\ UNCHANGED <<stream, buffer, pref>>
       \/ /\ stream = "closed"
          /\ buffer' = <<>>
          /\ \/ stream' = "fresh" /\ UNCHANGED pref
             \/ stream' = "closed" /\ pref' = FALSE
    /\ UNCHANGED <<target, pending, initLock, paused, menu, deviceVars,
                   soundVars, takeVars>>

-----------------------------------------------------------------------------
(* Device changes and recovery.                                            *)

\* The default input changes or the machine wakes; the native callback only
\* signals the recovery worker.
DeviceChanges ==
    /\ stream' = IF stream = "closed" THEN "closed" ELSE "stale"
    /\ notified' = TRUE
    /\ UNCHANGED <<buffer, target, pending, initLock, menuVars, recovery,
                   soundVars, takeVars>>

\* The worker takes every signal up to now, then invalidates.
TakeNotification ==
    /\ recovery = "waiting"
    /\ notified
    /\ notified' = FALSE
    /\ recovery' = "invalidating"
    /\ UNCHANGED <<flightVars, menuVars, soundVars, takeVars>>

\* _recover_locked of an idle stream, up to the moment it is closed.
BeginRecovery(holder) ==
    /\ initLock' = holder
    /\ stream' = "closed"
    /\ buffer' = <<>>
    /\ pending' = FALSE

\* Wrong variant: the stream is replaced under the take that rides it.
InvalidateAttached ==
    /\ recovery = "invalidating"
    /\ LockFree
    /\ BeginRecovery(RecoveryWorker)
    /\ UNCHANGED <<target, recovery, menuVars, notified, soundVars, takeVars>>

\* Wrong variant: a change during a take is forgotten.
InvalidateIdle ==
    /\ recovery = "invalidating"
    /\ LockFree
    /\ \/ /\ target # NoTake
          /\ recovery' = "waiting"
          /\ UNCHANGED <<stream, buffer, pending, initLock>>
       \/ /\ target = NoTake
          /\ BeginRecovery(RecoveryWorker)
          /\ UNCHANGED recovery
    /\ UNCHANGED <<target, menuVars, notified, soundVars, takeVars>>

\* invalidate(): recover now, or when the attached take detaches.
Invalidate ==
    /\ recovery = "invalidating"
    /\ LockFree
    /\ \/ /\ target # NoTake
          /\ pending' = TRUE
          /\ recovery' = "waiting"
          /\ UNCHANGED <<stream, buffer, initLock>>
       \/ /\ target = NoTake
          /\ BeginRecovery(RecoveryWorker)
          /\ UNCHANGED recovery
    /\ UNCHANGED <<target, menuVars, notified, soundVars, takeVars>>

\* The rest of _recover_locked: restore_allowed(), then open the new default
\* input, which may fail.
EndRecovery ==
    /\ initLock # NoTake
    /\ initLock' = NoTake
    /\ \/ pref /\ ~paused /\ stream' = "fresh"
       \/ stream' = "closed"
    /\ recovery' = IF initLock = RecoveryWorker THEN "waiting" ELSE recovery
    /\ UNCHANGED <<buffer, target, pending, menuVars, notified, soundVars,
                   takeVars>>

-----------------------------------------------------------------------------
(* Recorders, driven by the hotkey worker and the finisher threads.        *)

Moves(t, to) == stage' = [stage EXCEPT ![t] = to]

\* The worker is inside a press or a tap of some take, or holds one.
WorkerBusy ==
    \E t \in Takes :
        \/ stage[t] \in {"pressed", "held", "abandoning"}
        \/ source[t] = "flight" /\ stage[t] = "closing"

\* Recorder(): unused recorders are interchangeable, so take any fixed one.
FreshTake == CHOOSE t \in Takes : stage[t] = "unused"

Press(t) ==
    /\ stage[t] = "unused"
    /\ t = FreshTake
    /\ ~WorkerBusy
    /\ ~paused
    /\ Moves(t, "pressed")
    /\ pressAt' = [pressAt EXCEPT ![t] = now]
    /\ UNCHANGED <<flightVars, menuVars, deviceVars, soundVars, via, source,
                   audio>>

\* Recorder.start: attach to the Flight stream or take one of the pool's; the
\* pool may have none, and the take is dropped.
Start(t) ==
    /\ stage[t] = "pressed"
    /\ LockFree
    /\ \/ /\ stream # "closed" /\ target = NoTake
          /\ target' = t
          /\ via' = [via EXCEPT ![t] = "flight"]
          /\ Moves(t, "held")
       \/ /\ stream = "closed" \/ target # NoTake
          /\ via' = [via EXCEPT ![t] = "pool"]
          /\ Moves(t, "held")
          /\ UNCHANGED target
       \/ /\ stream = "closed" \/ target # NoTake
          /\ Moves(t, "dropped")
          /\ UNCHANGED <<target, via>>
    /\ UNCHANGED <<stream, buffer, pending, initLock, menuVars, deviceVars,
                   soundVars, source, pressAt, audio>>

\* The release of a hold; capture goes on into the tail.
ReleaseHold(t) ==
    /\ stage[t] = "held"
    /\ Moves(t, "tail")
    /\ UNCHANGED <<flightVars, menuVars, deviceVars, soundVars, via, source,
                   pressAt, audio>>

\* Wrong variant: the utterance may reach past the press.
ExtractedUpToNow(t) ==
    {SubSeq(buffer, first, Len(buffer)) : first \in 1..(Len(buffer) + 1)}

\* extract_before(press_at): the latest utterance among the blocks that ended
\* before the press, as far back as its silences allow; perhaps nothing.
Extracted(t) ==
    {SubSeq(buffer, first, last) :
        first \in 1..(Len(buffer) + 1),
        last \in {k \in 0..Len(buffer) :
            \A i \in 1..Len(buffer) : i <= k <=> buffer[i] <= pressAt[t]}}

\* Recorder.stop() up to the end of FLIGHT.detach(self), which runs the
\* recovery that waited for the take.  Sound that arrives between the two is
\* not recorded, as none is while a Flight take waits for init_lock.
StopCapture(t, to) ==
    /\ Moves(t, to)
    /\ \/ via[t] = "pool" /\ UNCHANGED flightVars
       \/ /\ via[t] = "flight"
          /\ LockFree
          /\ \/ target # t /\ UNCHANGED flightVars
             \/ /\ target = t
                /\ target' = NoTake
                /\ \/ pending /\ BeginRecovery(t)
                   \/ ~pending /\ UNCHANGED <<stream, buffer, pending, initLock>>

\* The release of a tap that rides the Flight stream:
\* _capture_retrospective_flight_tap extracts, then stops the live take.
CaptureTap(t) ==
    /\ stage[t] = "held"
    /\ via[t] = "flight"
    /\ source' = [source EXCEPT ![t] = "flight"]
    /\ \E utterance \in Extracted(t) : audio' = [audio EXCEPT ![t] = utterance]
    /\ StopCapture(t, "closing")
    /\ UNCHANGED <<menuVars, deviceVars, soundVars, via, pressAt>>

\* finish_and_process: the tail is over.
StopHold(t) ==
    /\ stage[t] = "tail"
    /\ StopCapture(t, "closing")
    /\ UNCHANGED <<menuVars, deviceVars, soundVars, via, source, pressAt, audio>>

\* A listener recovery, or an exception of the worker, abandons the take.
AbandonTake(t) ==
    /\ stage[t] = "held"
    /\ StopCapture(t, "abandoning")
    /\ audio' = [audio EXCEPT ![t] = <<>>]
    /\ UNCHANGED <<menuVars, deviceVars, soundVars, via, source, pressAt>>

\* Wrong variant: only stop() clears, and only for a hold.
ClearHold(t) ==
    buffer' = IF via[t] = "flight" /\ source[t] = "hold" THEN <<>> ELSE buffer

\* What stop() and the tap clear: a take that rode the Flight stream.
ClearUsed(t) ==
    buffer' = IF via[t] = "flight" THEN <<>> ELSE buffer

\* stop() returns the audio, all that outlives the capture; an abandoned take
\* and a tap that found nothing have none.
CloseTake(t) ==
    /\ stage[t] \in {"closing", "abandoning"}
    /\ initLock # t
    /\ ClearUsed(t)
    /\ Moves(t, IF audio[t] = <<>> THEN "dropped" ELSE "used")
    /\ via' = [via EXCEPT ![t] = "none"]
    /\ pressAt' = [pressAt EXCEPT ![t] = 0]
    /\ UNCHANGED <<stream, target, pending, initLock, menuVars, deviceVars,
                   soundVars, source, audio>>

-----------------------------------------------------------------------------
Menu == TogglePause \/ ToggleFlight \/ Disable \/ StartFlight

Recover == TakeNotification \/ Invalidate \/ EndRecovery

TakeStep(t) ==
    \/ Press(t) \/ Start(t) \/ ReleaseHold(t) \/ CaptureTap(t)
    \/ StopHold(t) \/ AbandonTake(t) \/ CloseTake(t)

Next ==
    \/ Speak \/ Forward
    \/ Menu
    \/ DeviceChanges \/ Recover
    \/ \E t \in Takes : TakeStep(t)

Spec == Init /\ [][Next]_vars

-----------------------------------------------------------------------------
(* Properties.                                                             *)

\* A recovery never cuts a take: whatever devices change under it, what a hold
\* has recorded is one unbroken run of speech, and as long as it rides the
\* Flight stream nothing said since its first block is missing.
HoldIsContiguous ==
    \A t \in Takes : source[t] = "hold" =>
        /\ \A i \in 1..(Len(audio[t]) - 1) : audio[t][i + 1] = audio[t][i] + 1
        /\ target = t /\ forward = NoTake /\ audio[t] # <<>>
             => Last(audio[t]) = now

\* Until it is closed, a hold records nothing from before its press and a
\* retrospective tap nothing from after it (the cue is not part of it).
TakesRespectThePress ==
    \A t \in Takes : \A i \in 1..Len(audio[t]) :
        stage[t] \in {"held", "tail", "closing"} =>
            IF source[t] = "hold" THEN audio[t][i] > pressAt[t]
            ELSE audio[t][i] <= pressAt[t]

\* Two taps never return the same speech.
TapsAreDisjoint ==
    \A t, u \in Takes :
        /\ t # u /\ source[t] = "flight" /\ source[u] = "flight"
        => Range(audio[t]) \cap Range(audio[u]) = {}

\* A stream of a device that is gone is never forgotten: the notification is
\* still queued, or the worker is about to act on it, or it has been handed to
\* the take that rides the stream; and that take is still recording, so it
\* will detach and run the recovery.
StaleStreamIsOwed ==
    /\ stream = "stale" => notified \/ recovery = "invalidating" \/ pending
    /\ pending => target # NoTake
    /\ target # NoTake => stage[target] \in {"held", "tail"} /\ stream # "closed"

\* README.md:629, "the bounded buffer is cleared after use", and the comment in
\* Recorder.stop, "never let a hold paste twice": speech a hold has returned is
\* no longer there for a later tap.
UsedHoldLeavesBuffer ==
    \A t \in Takes :
        stage[t] = "used" /\ source[t] = "hold"
            => Range(audio[t]) \cap Range(buffer) = {}

\* README.md:629, the buffer is cleared "on pause, when disabled": once the
\* menu and the threads it started are done, Flight records only if allowed.
BufferClearedWhenOff ==
    /\ menu = "idle" /\ starters = 0
    /\ paused \/ ~pref
    => buffer = <<>>

=============================================================================
