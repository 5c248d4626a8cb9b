------------------------------ MODULE AudioPool -----------------------------
(***************************************************************************)
(* dictate.py, class AudioPool and the threads that meet in it: the        *)
(* Recorders of the takes (start, stop), the main thread (startup warm,    *)
(* quit), the recovery worker of MacAudioRecoveryNotifications and the     *)
(* prewarm thread of warm_async.                                           *)
(*                                                                         *)
(* AudioPool.lock makes each of its short sections one step.  init_lock is *)
(* held while streams are opened, and is a variable; streams are closed    *)
(* outside of both locks, by the thread that detached them.                *)
(***************************************************************************)
EXTENDS Integers, FiniteSets

CONSTANTS
    Takes,                      \* Recorders that use the pool
    Main, Recovery, Prewarm,    \* the other threads
    Streams,                    \* AudioSlots that can be open at once
    Size,                       \* AudioPool.size
    None

Threads == Takes \cup {Main, Recovery, Prewarm}

ASSUME PoolAssumption ==
    /\ Main # Recovery /\ Main # Prewarm /\ Recovery # Prewarm
    /\ Takes \cap {Main, Recovery, Prewarm} = {}
    /\ None \notin Threads \cup Streams
    /\ Size \in Nat \ {0}

VARIABLES
    slots, busy,    \* AudioPool.slots, .busy
    pending,        \* .recovery_pending
    warmError,      \* .warm_error is set
    closed,         \* .closed
    initLock,       \* holder of .init_lock, or None
    opening,        \* the streams the holder of init_lock has opened so far
    open,           \* the AudioSlots whose stream is open
    stale,          \* those of slots and opening bound to a former default input
    detached,       \* of each thread: the slots it is to close
    slotOf,         \* Recorder.slot
    notified,       \* MacAudioRecoveryNotifications.event is set
    pc              \* where each thread is

poolVars == <<slots, busy, pending, warmError, closed>>
vars == <<slots, busy, pending, warmError, closed, initLock, opening, open,
          stale, detached, slotOf, notified, pc>>

Places == {"idle", "warm", "opening", "start", "recording", "stopped",
           "stop failed", "closing", "dropping", "invalidate", "ending",
           "quitting", "gone"}

TypeOK ==
    /\ slots \in SUBSET Streams /\ busy \in SUBSET Streams
    /\ opening \in SUBSET Streams /\ open \in SUBSET Streams
    /\ stale \in SUBSET Streams
    /\ Cardinality(slots) \in {0, Size} /\ Cardinality(opening) <= Size
    /\ pending \in BOOLEAN /\ warmError \in BOOLEAN /\ closed \in BOOLEAN
    /\ initLock \in Threads \cup {None}
    /\ detached \in [Threads -> SUBSET Streams]
    /\ slotOf \in [Takes -> Streams \cup {None}]
    /\ notified \in BOOLEAN
    /\ pc \in [Threads -> Places]

\* main() has started the recovery worker and is about to warm the pool.
Init ==
    /\ slots = {} /\ busy = {} /\ opening = {} /\ open = {} /\ stale = {}
    /\ pending = FALSE /\ warmError = FALSE /\ closed = FALSE
    /\ initLock = None
    /\ detached = [p \in Threads |-> {}]
    /\ slotOf = [t \in Takes |-> None]
    /\ notified = FALSE
    /\ pc = [p \in Threads |-> IF p = Main THEN "warm" ELSE "idle"]

LockFree == initLock = None

Goes(p, to) == pc' = [pc EXCEPT ![p] = to]

\* quitApp_ closes the notifications before the pool.
RecoveryClosed == pc[Main] \in {"quitting", "closing", "gone"}

\* An AudioSlot nobody refers to any more.
FreeStream ==
    CHOOSE s \in Streams : s \notin open /\ \A t \in Takes : slotOf[t] # s

-----------------------------------------------------------------------------
(* _warm_locked, run by warm() and by acquire().                           *)

\* Where its caller goes on when the pool has streams, and when it has none.
Warmed(p) == IF p \in Takes THEN "start"
             ELSE IF p = Prewarm THEN "ending" ELSE "idle"
NotWarmed(p) == IF p = Prewarm THEN "ending" ELSE "idle"

\* The prefix that opens nothing.
BeginWarm(p) ==
    /\ pc[p] = IF p \in Takes THEN "idle" ELSE "warm"
    /\ LockFree
    /\ \/ /\ closed
          /\ Goes(p, NotWarmed(p))
          /\ UNCHANGED initLock
       \/ /\ ~closed /\ slots # {}
          /\ Goes(p, Warmed(p))
          /\ initLock' = IF p \in Takes THEN p ELSE None
       \/ /\ ~closed /\ slots = {}
          /\ Goes(p, "opening")
          /\ initLock' = p
    /\ UNCHANGED <<poolVars, opening, open, stale, detached, slotOf,
                   notified>>

\* AudioSlot(): a stream of what is the default input now.
OpenSlot(p) ==
    /\ pc[p] = "opening"
    /\ Cardinality(opening) < Size
    /\ \E s \in Streams : s \notin open /\ \A t \in Takes : slotOf[t] # s
    /\ opening' = opening \cup {FreeStream}
    /\ open' = open \cup {FreeStream}
    /\ UNCHANGED <<poolVars, initLock, stale, detached, slotOf, notified, pc>>

\* Wrong variant: what was opened before the failure stays open.
AbandonOpening(p) ==
    /\ pc[p] = "opening"
    /\ opening' = {} /\ stale' = {}
    /\ warmError' = TRUE
    /\ initLock' = None
    /\ Goes(p, NotWarmed(p))
    /\ UNCHANGED <<slots, busy, pending, closed, open, detached, slotOf,
                   notified>>

\* Opening or exercising a stream raises: all of them are closed.
OpenFails(p) ==
    /\ pc[p] = "opening"
    /\ open' = open \ opening
    /\ opening' = {} /\ stale' = {}
    /\ warmError' = TRUE
    /\ initLock' = None
    /\ Goes(p, NotWarmed(p))
    /\ UNCHANGED <<slots, busy, pending, closed, detached, slotOf, notified>>

\* Wrong variant: one stream is as good as all.
InstallFirst(p) ==
    /\ pc[p] = "opening"
    /\ opening # {}
    /\ slots' = opening
    /\ opening' = {}
    /\ pending' = FALSE
    /\ warmError' = FALSE
    /\ Goes(p, Warmed(p))
    /\ initLock' = IF p \in Takes THEN p ELSE None
    /\ UNCHANGED <<busy, closed, open, stale, detached, slotOf, notified>>

\* All streams are open and exercised.
Install(p) ==
    /\ pc[p] = "opening"
    /\ Cardinality(opening) = Size
    /\ slots' = opening
    /\ opening' = {}
    /\ pending' = FALSE
    /\ warmError' = FALSE
    /\ Goes(p, Warmed(p))
    /\ initLock' = IF p \in Takes THEN p ELSE None
    /\ UNCHANGED <<busy, closed, open, stale, detached, slotOf, notified>>

\* Wrong variant: slots are replaced under the other takes that record.
InvalidateBusy(p) ==
    /\ slots' = {} /\ stale' = {}
    /\ detached' = [detached EXCEPT ![p] = slots]
    /\ pending' = FALSE

\* Wrong variant: a change during a take is forgotten.
InvalidateUnlessBusy(p) ==
    \/ /\ busy' # {}
       /\ UNCHANGED <<slots, stale, pending, detached>>
    \/ /\ busy' = {}
       /\ slots' = {} /\ stale' = {}
       /\ detached' = [detached EXCEPT ![p] = slots]
       /\ pending' = FALSE

\* _invalidate_locked: detach the slots, or defer until the last take releases.
InvalidateLocked(p) ==
    \/ /\ busy' # {}
       /\ pending' = TRUE
       /\ UNCHANGED <<slots, stale, detached>>
    \/ /\ busy' = {}
       /\ slots' = {} /\ stale' = {}
       /\ detached' = [detached EXCEPT ![p] = slots]
       /\ pending' = FALSE

\* _close_slots of what the thread has detached.
CloseSlots(p) ==
    /\ open' = open \ detached[p]
    /\ detached' = [detached EXCEPT ![p] = {}]
    /\ UNCHANGED <<poolVars, initLock, opening, stale, slotOf, notified>>

-----------------------------------------------------------------------------
(* A take: acquire and release.                                            *)

\* Recorder.start, called by the one hotkey worker once main() runs it.
Press(t) ==
    /\ pc[t] = "idle"
    /\ pc[Main] \notin {"warm", "opening"}
    /\ \A u \in Takes : pc[u] \notin {"opening", "start"}
    /\ BeginWarm(t)

\* acquire, once the pool is warm: no slot may be handed out.
Refuse(t) ==
    /\ pc[t] = "start"
    /\ pending \/ slots \subseteq busy
    /\ initLock' = None
    /\ Goes(t, "idle")
    /\ UNCHANGED <<poolVars, opening, open, stale, detached, slotOf,
                   notified>>

\* The slots have a fixed order.
FreeSlot == CHOOSE s \in slots : s \notin busy

\* acquire hands out a free slot, whose stream starts.
StartSlot(t) ==
    /\ pc[t] = "start"
    /\ ~pending
    /\ slots \ busy # {}
    /\ busy' = busy \cup {FreeSlot}
    /\ slotOf' = [slotOf EXCEPT ![t] = FreeSlot]
    /\ warmError' = FALSE
    /\ initLock' = None
    /\ Goes(t, "recording")
    /\ UNCHANGED <<slots, pending, closed, opening, open, stale,
                   detached, notified>>

\* The stream does not start: the slot is free again and all are suspect.
StartFails(t) ==
    /\ pc[t] = "start"
    /\ ~pending
    /\ ~(slots \subseteq busy)
    /\ warmError' = TRUE
    /\ UNCHANGED busy
    /\ InvalidateLocked(t)
    /\ initLock' = None
    /\ Goes(t, "dropping")
    /\ UNCHANGED <<closed, opening, open, slotOf, notified>>

\* release: the callback stops feeding the Recorder even when stop() raises.
StopSlot(t) ==
    /\ pc[t] = "recording"
    /\ \/ Goes(t, "stopped")
       \/ Goes(t, "stop failed")
    /\ UNCHANGED <<poolVars, initLock, opening, open, stale, detached, slotOf,
                   notified>>

\* Wrong variant: only a failed stop() runs the recovery that was deferred.
ReleaseWithoutRecovery(t) ==
    /\ pc[t] \in {"stopped", "stop failed"}
    /\ LockFree
    /\ busy' = busy \ {slotOf[t]}
    /\ slotOf' = [slotOf EXCEPT ![t] = None]
    /\ \/ /\ pc[t] = "stop failed"
          /\ InvalidateLocked(t)
          /\ warmError' = TRUE
          /\ Goes(t, "closing")
       \/ /\ pc[t] = "stopped"
          /\ Goes(t, "idle")
          /\ UNCHANGED <<slots, stale, pending, warmError, detached>>
    /\ UNCHANGED <<closed, initLock, opening, open, notified>>

\* release, under init_lock: the last take out runs the recovery that waited;
\* an earlier one whose stop() failed asks for it.
Release(t) ==
    /\ pc[t] \in {"stopped", "stop failed"}
    /\ LockFree
    /\ busy' = busy \ {slotOf[t]}
    /\ slotOf' = [slotOf EXCEPT ![t] = None]
    /\ warmError' = \/ pc[t] = "stop failed"
                    \/ warmError /\ ~(pending /\ busy' = {})
    /\ \/ /\ pending \/ pc[t] = "stop failed"
          /\ InvalidateLocked(t)
          /\ Goes(t, IF busy' = {} THEN "closing" ELSE "idle")
       \/ /\ ~pending /\ pc[t] = "stopped"
          /\ Goes(t, "idle")
          /\ UNCHANGED <<slots, stale, pending, detached>>
    /\ UNCHANGED <<closed, initLock, opening, open, notified>>

\* The end of an acquire whose stream did not start.
Drop(t) ==
    /\ pc[t] = "dropping"
    /\ CloseSlots(t)
    /\ Goes(t, "idle")

\* warm_async: a prewarm thread, unless something makes it unnecessary.
WarmAsync ==
    IF closed \/ pending \/ slots # {} \/ pc[Prewarm] # "idle"
    THEN pc[Prewarm] ELSE "warm"

\* The end of a release that ran a recovery.
Recovered(t) ==
    /\ pc[t] = "closing"
    /\ CloseSlots(t)
    /\ pc' = [pc EXCEPT ![t] = "idle", ![Prewarm] = WarmAsync]

-----------------------------------------------------------------------------
(* The prewarm thread, the recovery worker, the main thread, the device.   *)

\* Thread.is_alive() holds a little longer than the work.
PrewarmEnds ==
    /\ pc[Prewarm] = "ending"
    /\ Goes(Prewarm, "idle")
    /\ UNCHANGED <<poolVars, initLock, opening, open, stale, detached, slotOf,
                   notified>>

\* The default input changes or the machine wakes; the native callback only
\* signals the worker.  Once the listener is closed nobody notices.
DeviceChanges ==
    /\ ~RecoveryClosed
    /\ stale' = slots \cup opening
    /\ notified' = TRUE
    /\ UNCHANGED <<poolVars, initLock, opening, open, detached, slotOf, pc>>

\* _run takes every signal up to now; what comes later sets the event again.
TakeNotification ==
    /\ pc[Recovery] = "idle"
    /\ notified
    /\ ~RecoveryClosed
    /\ notified' = FALSE
    /\ Goes(Recovery, "invalidate")
    /\ UNCHANGED <<poolVars, initLock, opening, open, stale, detached, slotOf>>

\* recover_default_device: invalidate().
Invalidate ==
    /\ pc[Recovery] = "invalidate"
    /\ LockFree
    /\ warmError' = FALSE
    /\ UNCHANGED busy
    /\ InvalidateLocked(Recovery)
    /\ Goes(Recovery, "closing")
    /\ UNCHANGED <<closed, initLock, opening, open, slotOf, notified>>

\* recover_default_device: a deferred recovery is left to the last take.
Replace ==
    /\ pc[Recovery] = "closing"
    /\ CloseSlots(Recovery)
    /\ Goes(Recovery, IF pending THEN "idle" ELSE "warm")

\* quitApp_: AUDIO_RECOVERY.close().
Quit ==
    /\ pc[Main] = "idle"
    /\ Goes(Main, "quitting")
    /\ UNCHANGED <<poolVars, initLock, opening, open, stale, detached, slotOf,
                   notified>>

\* AUDIO_POOL.close().
ClosePool ==
    /\ pc[Main] = "quitting"
    /\ LockFree
    /\ detached' = [detached EXCEPT ![Main] = slots]
    /\ slots' = {} /\ busy' = {} /\ stale' = {}
    /\ pending' = FALSE
    /\ closed' = TRUE
    /\ Goes(Main, "closing")
    /\ UNCHANGED <<warmError, initLock, opening, open, slotOf, notified>>

ClosePoolSlots ==
    /\ pc[Main] = "closing"
    /\ CloseSlots(Main)
    /\ Goes(Main, "gone")

-----------------------------------------------------------------------------
Warm(p) == BeginWarm(p) \/ OpenSlot(p) \/ OpenFails(p) \/ Install(p)

TakeStep(t) ==
    \/ OpenSlot(t) \/ OpenFails(t) \/ Install(t)
    \/ Refuse(t) \/ StartSlot(t) \/ StartFails(t) \/ Drop(t)
    \/ StopSlot(t) \/ Release(t) \/ Recovered(t)

PrewarmStep == Warm(Prewarm) \/ PrewarmEnds

RecoveryStep ==
    \/ Warm(Recovery)
    \/ TakeNotification \/ Invalidate \/ Replace

MainStep == Warm(Main) \/ ClosePool \/ ClosePoolSlots

Next ==
    \/ \E t \in Takes : Press(t) \/ TakeStep(t)
    \/ PrewarmStep \/ RecoveryStep \/ MainStep
    \/ DeviceChanges
    \/ Quit

Spec == Init /\ [][Next]_vars

\* No thread stands still for ever where it could go on: one that waits for
\* init_lock gets it in the end, and a take ends, because its key is released
\* or the listener is recovered.
Fairness ==
    /\ \A t \in Takes : SF_vars(TakeStep(t))
    /\ SF_vars(PrewarmStep) /\ SF_vars(RecoveryStep) /\ SF_vars(MainStep)

FairSpec == Spec /\ Fairness

-----------------------------------------------------------------------------
(* Properties.                                                             *)

\* Whatever devices change, fail or recover under it, the stream a take
\* records from is its own and stays open until the pool itself is closed;
\* a replacement of the slots waits for it.
TakeKeepsItsStream ==
    \A t \in Takes : pc[t] = "recording" /\ ~closed =>
        /\ slotOf[t] \in slots \cap busy
        /\ slotOf[t] \in open
        /\ \A u \in Takes \ {t} : slotOf[u] # slotOf[t]

\* A stream of a device that is gone is never forgotten: until the app quits,
\* the notification is still queued, or the worker is about to act on it, or
\* it has been handed to a take that still has to release its slot.
StaleSlotIsOwed ==
    ~RecoveryClosed /\ slots \cap stale # {} =>
        \/ notified \/ pc[Recovery] = "invalidate"
        \/ pending /\ \E t \in Takes : slotOf[t] \in busy

\* No stream stays open, and no microphone on, without someone who is to close
\* it: the pool, the thread that opens it or the thread that detached it.  Once
\* the app has closed the pool nobody opens it again.
EveryStreamHasAnOwner ==
    /\ \A s \in open :
        \/ s \in slots \/ s \in opening
        \/ \E p \in Threads : s \in detached[p]
    /\ closed => slots \cup opening = {}

\* Slots bound to a device that is gone are replaced, however the recovery,
\* the prewarm thread and the takes that defer it meet.
StaleSlotsAreReplaced ==
    slots \cap stale # {} ~> slots \cap stale = {} \/ RecoveryClosed

=============================================================================
