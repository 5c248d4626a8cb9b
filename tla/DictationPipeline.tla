-------------------------- MODULE DictationPipeline -------------------------
(***************************************************************************)
(* The hold-to-talk pipeline of dictate.py: the key callbacks of the       *)
(* listener, the watchdog that replaces a dead listener, the single hotkey *)
(* worker, and one thread per released take (finish_in_release_order),     *)
(* synchronised by ReleaseOrder.                                           *)
(*                                                                         *)
(* A take is one Recorder.  Its recognised text, caption and sounds are    *)
(* abstracted; what the take does to the world (paste, voice command,      *)
(* queued draft, spoken edit, snippet) is one entry of `effects`.          *)
(***************************************************************************)
EXTENDS ReleaseOrder, Sequences, FiniteSets

CONSTANTS
    Takes,          \* the Recorders that may be created
    NoTake,         \* active["rec"] is None
    PoolSize,       \* AudioPool(size=2)
    MaxQueued       \* bound: events waiting for the worker

ASSUME PipelineAssumption ==
    /\ NoTake \notin Takes
    /\ PoolSize \in Nat \ {0}
    /\ MaxQueued \in Nat

Events == {"press", "release", "listener_recovery"}

\* Where a take is.  The worker owns it up to "ticketed", its own thread
\* from "tail" to "closing".
Stages == {"unused", "starting", "readying", "held", "releasing",
           "ticketed", "tail", "decoding", "waiting", "turn", "closing",
           "gone"}

VARIABLES
    listener,   \* "alive", "dead", or "recovering" (restart failed once)
    keyDown,    \* key_down["on"], the latch of the key callbacks
    events,     \* the queue.Queue between callbacks and worker
    paused,     \* PAUSED["on"]
    active,     \* active["rec"]
    working,    \* the take whose event the worker is in the middle of
    stage,      \* stage[t]: progress of take t
    mic,        \* mic[t]: the microphone stream take t holds
    ticket,     \* ticket[t]: rec.process_ticket
    effects     \* history: takes in the order they acted on the world

inputVars == <<listener, keyDown>>
vars == <<issued, nextUp, completed, listener, keyDown, events, paused,
          active, working, stage, mic, ticket, effects>>

TypeOK ==
    /\ OrderTypeOK
    /\ listener \in {"alive", "dead", "recovering"}
    /\ keyDown \in BOOLEAN
    /\ events \in Seq(Events)
    /\ paused \in BOOLEAN
    /\ active \in Takes \cup {NoTake}
    /\ working \in Takes \cup {NoTake}
    /\ stage \in [Takes -> Stages]
    /\ mic \in [Takes -> {"off", "pool", "flight"}]
    /\ ticket \in [Takes -> Nat \cup {NoTicket}]
    /\ effects \in Seq(Takes)

Init ==
    /\ OrderInit
    /\ listener = "alive"
    /\ keyDown = FALSE
    /\ events = <<>>
    /\ paused = FALSE
    /\ active = NoTake
    /\ working = NoTake
    /\ stage = [t \in Takes |-> "unused"]
    /\ mic = [t \in Takes |-> "off"]
    /\ ticket = [t \in Takes |-> NoTicket]
    /\ effects = <<>>

-----------------------------------------------------------------------------
(* The key callbacks and the watchdog: they only latch and enqueue.        *)

Enqueue(ev) ==
    /\ Len(events) < MaxQueued
    /\ events' = Append(events, ev)

\* on_press: the latch swallows autorepeat.  Bound: every press that waits
\* for the worker finds a Recorder to create.
KeyPress ==
    /\ Cardinality({i \in 1..Len(events) : events[i] = "press"})
         < Cardinality({t \in Takes : stage[t] = "unused"})
    /\ listener = "alive"
    /\ ~keyDown
    /\ keyDown' = TRUE
    /\ Enqueue("press")
    /\ UNCHANGED <<orderVars, listener, paused, active, working, stage, mic,
                   ticket, effects>>

\* on_release.
KeyRelease ==
    /\ listener = "alive"
    /\ keyDown
    /\ keyDown' = FALSE
    /\ Enqueue("release")
    /\ UNCHANGED <<orderVars, listener, paused, active, working, stage, mic,
                   ticket, effects>>

\* The OS disables the event tap; from here no key callback runs.
ListenerDies ==
    /\ listener = "alive"
    /\ listener' = "dead"
    /\ UNCHANGED <<orderVars, keyDown, events, paused, active, working,
                   stage, mic, ticket, effects>>

\* Wrong variant: the restart unlatches the key and tells the worker nothing.
RestartSilently ==
    /\ listener = "dead"
    /\ keyDown' = FALSE
    /\ listener' \in {"alive", "recovering"}
    /\ UNCHANGED <<orderVars, events, paused, active, working, stage, mic,
                   ticket, effects>>

\* Wrong variant: a failed restart leaves a state nobody retries from.
RestartGivesUp ==
    /\ listener = "dead"
    /\ Enqueue("listener_recovery")
    /\ keyDown' = FALSE
    /\ listener' \in {"alive", "failed"}
    /\ UNCHANGED <<orderVars, paused, active, working, stage, mic, ticket,
                   effects>>

\* restart_dead_hotkey_listener, first attempt: on_dead() unlatches the key
\* and queues the recovery event, then the replacement starts or fails.
RestartListener ==
    /\ listener = "dead"
    /\ Enqueue("listener_recovery")
    /\ keyDown' = FALSE
    /\ listener' \in {"alive", "recovering"}
    /\ UNCHANGED <<orderVars, paused, active, working, stage, mic, ticket,
                   effects>>

\* Later attempts keep retrying without running on_dead() again.
RetryListener ==
    /\ listener = "recovering"
    /\ listener' = "alive"
    /\ UNCHANGED <<orderVars, keyDown, events, paused, active, working,
                   stage, mic, ticket, effects>>

\* The menu's Pause / Resume: only the press path reads it.
TogglePause ==
    /\ paused' = ~paused
    /\ UNCHANGED <<orderVars, listener, keyDown, events, active, working,
                   stage, mic, ticket, effects>>

-----------------------------------------------------------------------------
(* The hotkey worker.                                                      *)

WorkerIdle == working = NoTake

Receives(ev) ==
    /\ WorkerIdle
    /\ events # <<>>
    /\ Head(events) = ev
    /\ events' = Tail(events)

\* Recorder(): unused recorders are interchangeable, so take any fixed one.
FreshTake == CHOOSE t \in Takes : stage[t] = "unused"

\* active["rec"] = Recorder() is published before rec.start().
Press(t) ==
    /\ Receives("press")
    /\ active = NoTake
    /\ ~paused
    /\ stage[t] = "unused"
    /\ t = FreshTake
    /\ active' = t
    /\ working' = t
    /\ stage' = [stage EXCEPT ![t] = "starting"]
    /\ UNCHANGED <<orderVars, inputVars, paused, mic, ticket, effects>>

\* A press while a take is active or dictation is paused does nothing.
IgnorePress ==
    /\ Receives("press")
    /\ active # NoTake \/ paused
    /\ UNCHANGED <<orderVars, inputVars, paused, active, working, stage, mic,
                   ticket, effects>>

PoolBusy == {t \in Takes : mic[t] = "pool"}
FlightTargets == {t \in Takes : mic[t] = "flight"}

\* Recorder.start: ride the Flight stream when it is on and unattached, else
\* take a stream of the pool.
StartCapture(t) ==
    /\ working = t
    /\ stage[t] = "starting"
    /\ \/ /\ FlightTargets = {}
          /\ mic' = [mic EXCEPT ![t] = "flight"]
       \/ /\ Cardinality(PoolBusy) < PoolSize
          /\ mic' = [mic EXCEPT ![t] = "pool"]
    /\ stage' = [stage EXCEPT ![t] = "readying"]
    /\ UNCHANGED <<orderVars, inputVars, events, paused, active, working,
                   ticket, effects>>

\* Context, lease and prompt are collected; the worker takes its next event.
CaptureReady(t) ==
    /\ working = t
    /\ stage[t] = "readying"
    /\ stage' = [stage EXCEPT ![t] = "held"]
    /\ working' = NoTake
    /\ UNCHANGED <<orderVars, inputVars, events, paused, active, mic, ticket,
                   effects>>

\* Wrong variant: the take is forgotten while its stream runs on.
AbandonRecording(t) ==
    /\ active' = NoTake
    /\ working' = NoTake
    /\ stage' = [stage EXCEPT ![t] = "gone"]
    /\ UNCHANGED mic

\* abandon_active_recording(rec): stop the microphone, forget the take.
Abandon(t) ==
    /\ active' = NoTake
    /\ working' = NoTake
    /\ stage' = [stage EXCEPT ![t] = "gone"]
    /\ mic' = [mic EXCEPT ![t] = "off"]

\* An exception while the press is handled: the pool is exhausted or the
\* device fails in rec.start, or collecting the context raises.
PressFails(t) ==
    /\ working = t
    /\ stage[t] \in {"starting", "readying"}
    /\ Abandon(t)
    /\ UNCHANGED <<orderVars, inputVars, events, paused, ticket, effects>>

\* A release ends the active take; capture itself runs on into the tail.
Release(t) ==
    /\ Receives("release")
    /\ active = t
    /\ active' = NoTake
    /\ working' = t
    /\ stage' = [stage EXCEPT ![t] = "releasing"]
    /\ UNCHANGED <<orderVars, inputVars, paused, mic, ticket, effects>>

IgnoreRelease ==
    /\ Receives("release")
    /\ active = NoTake
    /\ UNCHANGED <<orderVars, inputVars, paused, active, working, stage, mic,
                   ticket, effects>>

\* A tap that rode the Flight stream: the live take is stopped and replaced
\* by the buffered utterance, or dropped without a ticket if there is none.
FlightTap(t) ==
    /\ working = t
    /\ stage[t] = "releasing"
    /\ mic[t] = "flight"
    /\ mic' = [mic EXCEPT ![t] = "off"]
    /\ \/ UNCHANGED <<working, stage>>
       \/ /\ working' = NoTake
          /\ stage' = [stage EXCEPT ![t] = "gone"]
    /\ UNCHANGED <<orderVars, inputVars, events, paused, active, ticket,
                   effects>>

\* rec.process_ticket = DICTATION_PROCESS_ORDER.issue()
TicketRelease(t) ==
    /\ working = t
    /\ stage[t] = "releasing"
    /\ ticket' = [ticket EXCEPT ![t] = issued]
    /\ IssueTicket
    /\ stage' = [stage EXCEPT ![t] = "ticketed"]
    /\ UNCHANGED <<inputVars, events, paused, active, working, mic, effects>>

\* threading.Thread(target=finish_in_release_order).start()
SpawnFinisher(t) ==
    /\ working = t
    /\ stage[t] = "ticketed"
    /\ stage' = [stage EXCEPT ![t] = "tail"]
    /\ working' = NoTake
    /\ UNCHANGED <<orderVars, inputVars, events, paused, active, mic, ticket,
                   effects>>

\* An exception while the release is handled, before the ticket is issued
\* or between issue() and the start of the thread.
ReleaseFails(t) ==
    /\ working = t
    /\ stage[t] \in {"releasing", "ticketed"}
    /\ Abandon(t)
    /\ UNCHANGED <<orderVars, inputVars, events, paused, ticket, effects>>

\* Wrong variant: the recovery event resets nothing.
RecoverNothing ==
    /\ Receives("listener_recovery")
    /\ UNCHANGED <<orderVars, inputVars, paused, active, working, stage, mic,
                   ticket, effects>>

\* A listener recovery abandons whatever take the dead listener left open.
RecoverListener ==
    /\ Receives("listener_recovery")
    /\ \/ /\ active = NoTake
          /\ UNCHANGED <<active, working, stage, mic>>
       \/ \E t \in Takes : active = t /\ Abandon(t)
    /\ UNCHANGED <<orderVars, inputVars, paused, ticket, effects>>

-----------------------------------------------------------------------------
(* finish_in_release_order, one thread per ticketed take.                  *)

\* finish_and_process: the tail is over and rec.stop() returns the stream.
StopCapture(t) ==
    /\ stage[t] = "tail"
    /\ mic' = [mic EXCEPT ![t] = "off"]
    /\ stage' = [stage EXCEPT ![t] = "decoding"]
    /\ UNCHANGED <<orderVars, inputVars, events, paused, active, working,
                   ticket, effects>>

\* Too short, or no speech: return before waiting for the turn.
DropSilentTake(t) ==
    /\ stage[t] = "decoding"
    /\ stage' = [stage EXCEPT ![t] = "closing"]
    /\ UNCHANGED <<orderVars, inputVars, events, paused, active, working,
                   mic, ticket, effects>>

\* assemble_raw has joined every decode of the take.
RecognitionReady(t) ==
    /\ stage[t] = "decoding"
    /\ stage' = [stage EXCEPT ![t] = "waiting"]
    /\ UNCHANGED <<orderVars, inputVars, events, paused, active, working,
                   mic, ticket, effects>>

\* DICTATION_PROCESS_ORDER.wait(rec.process_ticket) returns.
EnterTurn(t) ==
    /\ stage[t] = "waiting"
    /\ MayPass(ticket[t])
    /\ stage' = [stage EXCEPT ![t] = "turn"]
    /\ UNCHANGED <<orderVars, inputVars, events, paused, active, working,
                   mic, ticket, effects>>

\* Nothing usable was said: no text, hallucination, prompt echo, empty
\* cleanup, unsupported command, edit mode without a selection.
DropInTurn(t) ==
    /\ stage[t] = "turn"
    /\ stage' = [stage EXCEPT ![t] = "closing"]
    /\ UNCHANGED <<orderVars, inputVars, events, paused, active, working,
                   mic, ticket, effects>>

\* The take acts: confirmation phrase, voice command, queued draft, spoken
\* edit, snippet, or the insertion transaction.
Act(t) ==
    /\ stage[t] = "turn"
    /\ effects' = Append(effects, t)
    /\ stage' = [stage EXCEPT ![t] = "closing"]
    /\ UNCHANGED <<orderVars, inputVars, events, paused, active, working,
                   mic, ticket>>

\* An exception before or inside the turn; the finally clause stops capture.
FinishFails(t) ==
    /\ stage[t] \in {"tail", "decoding", "turn"}
    /\ stage' = [stage EXCEPT ![t] = "closing"]
    /\ mic' = [mic EXCEPT ![t] = "off"]
    /\ UNCHANGED <<orderVars, inputVars, events, paused, active, working,
                   ticket, effects>>

\* finish_in_release_order's finally: complete the ticket, whatever happened.
CompleteTake(t) ==
    /\ stage[t] = "closing"
    /\ CompleteTicket(ticket[t])
    /\ stage' = [stage EXCEPT ![t] = "gone"]
    /\ UNCHANGED <<inputVars, events, paused, active, working, mic, ticket,
                   effects>>

-----------------------------------------------------------------------------
Environment ==
    \/ KeyPress \/ KeyRelease \/ ListenerDies \/ TogglePause

Watchdog == RestartListener \/ RetryListener

WorkerStep(t) ==
    \/ Press(t) \/ StartCapture(t) \/ CaptureReady(t) \/ PressFails(t)
    \/ Release(t) \/ FlightTap(t) \/ TicketRelease(t) \/ SpawnFinisher(t)
    \/ ReleaseFails(t)

Worker ==
    \/ \E t \in Takes : WorkerStep(t)
    \/ IgnorePress \/ IgnoreRelease \/ RecoverListener

FinishStep(t) ==
    \/ StopCapture(t) \/ DropSilentTake(t) \/ RecognitionReady(t)
    \/ EnterTurn(t) \/ DropInTurn(t) \/ Act(t) \/ FinishFails(t)
    \/ CompleteTake(t)

Next ==
    \/ Environment
    \/ Watchdog
    \/ Worker
    \/ \E t \in Takes : FinishStep(t)

\* The worker and every finisher thread keep running, and the watchdog polls
\* for ever; nobody is obliged to touch a key.
Fairness ==
    /\ WF_vars(Watchdog)
    /\ WF_vars(Worker)
    /\ \A t \in Takes : WF_vars(FinishStep(t))

Spec == Init /\ [][Next]_vars
FairSpec == Spec /\ Fairness

-----------------------------------------------------------------------------
(* Properties.                                                             *)

\* Side effects are serialised: at most one take is between the end of
\* wait() and complete(), however many decode concurrently.
OneTakeInTurn ==
    \A t, u \in Takes : stage[t] = "turn" /\ stage[u] = "turn" => t = u

\* Takes act on the world in the order they were released, and none acts
\* twice, although their recordings and decodes overlap and some fail.
EffectsInReleaseOrder ==
    \A i, j \in 1..Len(effects) :
        i < j => ticket[effects[i]] < ticket[effects[j]]

\* Every open microphone has somebody who will stop it: the active take, the
\* worker inside a release, or a finisher still in its tail.  In particular
\* a take that waits for its turn no longer holds the microphone.
NoOrphanMicrophone ==
    \A t \in Takes :
        mic[t] # "off" =>
            \/ active = t
            \/ stage[t] \in {"releasing", "ticketed", "tail"}

\* With no event left for the worker, a take records only while the key is
\* latched down, whatever the listener went through.
CaptureIsAnswered ==
    events = <<>> /\ active # NoTake => keyDown

\* A ticket that was issued and not yet settled has a thread, or is about to
\* get one, that will complete it (finish_in_release_order: "always unblock
\* later releases").
NoStrandedTicket ==
    \A n \in 0..(issued - 1) :
        Settled(n) \/ \E t \in Takes : ticket[t] = n /\ stage[t] # "gone"

Stranded(t) == stage[t] = "gone" /\ ticket[t] # NoTicket /\ ~Settled(ticket[t])

\* Every released take finishes, whatever the takes before it did, except
\* behind a ticket whose finisher thread was never started.
EveryReleaseSettles ==
    \A t \in Takes :
        stage[t] = "tail" ~>
            \/ stage[t] = "gone"
            \/ \E u \in Takes : Stranded(u) /\ ticket[u] < ticket[t]

\* A recording whose key listener died does not record for ever: the
\* replacement listener's recovery event reaches the worker.
OrphanedCaptureEnds ==
    \A t \in Takes : (active = t /\ listener = "dead") ~> active # t

Delivery == INSTANCE OrderedDelivery WITH
    NoRank <- NoTicket,
    rank <- ticket,
    pending <- {t \in Takes : ticket[t] # NoTicket /\ ~Settled(ticket[t])},
    log <- effects

\* The threads, events and tickets implement the ordered delivery of
\* OrderedDelivery.
ImplementsOrderedDelivery == Delivery!DeliverySpec

=============================================================================
