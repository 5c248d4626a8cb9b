----------------------- MODULE DictationPipelineProofs ----------------------
(***************************************************************************)
(* Theorems about DictationPipeline for every number of takes, streams and *)
(* queued events: type correctness, the serialised turn, the order of the  *)
(* side effects, the microphone discipline, the refinement of              *)
(* OrderedDelivery, and that the takes never wait in a circle.             *)
(***************************************************************************)
EXTENDS DictationPipeline, TLAPS

\* The initial state is well-typed.
LEMMA TypeInit == Init => TypeOK
  <1> SUFFICES ASSUME Init PROVE TypeOK
    OBVIOUS
  <1> USE DEF Init
  <1>1. OrderTypeOK
    BY DEF OrderInit, OrderTypeOK
  <1>2. events \in Seq(Events) /\ effects \in Seq(Takes)
    OBVIOUS
  <1>3. stage \in [Takes -> Stages]
    BY DEF Stages
  <1>4. /\ mic \in [Takes -> {"off", "pool", "flight"}]
        /\ ticket \in [Takes -> Nat \cup {NoTicket}]
    OBVIOUS
  <1>5. QED
    BY <1>1, <1>2, <1>3, <1>4 DEF TypeOK

\* The queue operations keep the event queue well typed.
LEMMA QueueType ==
  ASSUME TypeOK
  PROVE  /\ \A ev \in Events : Enqueue(ev) => events' \in Seq(Events)
         /\ \A ev \in Events : Receives(ev) => events' \in Seq(Events)
  <1>1. \A ev \in Events : Enqueue(ev) => events' \in Seq(Events)
    BY DEF TypeOK, Enqueue
  <1>2. \A ev \in Events : Receives(ev) => events' \in Seq(Events)
    BY DEF TypeOK, Receives
  <1>3. QED
    BY <1>1, <1>2

\* Completing a ticket settles that ticket and no other.
LEMMA CompleteSettlesOne ==
  ASSUME OrderTypeOK, NEW k \in Int, CompleteTicket(k)
  PROVE  /\ OrderTypeOK'
         /\ issued' = issued
         /\ nextUp <= nextUp'
         /\ \A m \in Nat : Settled(m)' <=> (Settled(m) \/ m = k)
  <1>1. CASE k < nextUp
    <2>1. UNCHANGED <<issued, nextUp, completed>>
      BY <1>1 DEF CompleteTicket, OrderTypeOK
    <2>2. QED
      BY <1>1, <2>1 DEF Settled, OrderTypeOK
  <1>2. CASE ~(k < nextUp)
    <2> DEFINE done == completed \cup {k}
    <2>1. PICK n \in nextUp..issued :
            /\ n \notin done
            /\ \A m \in nextUp..(n - 1) : m \in done
            /\ nextUp' = n
            /\ completed' = done \ (nextUp..(n - 1))
      BY <1>2 DEF CompleteTicket, OrderTypeOK
    <2> UNCHANGED issued
      BY DEF CompleteTicket
    <2>2. OrderTypeOK'
      BY <1>2, <2>1 DEF OrderTypeOK
    <2>3. \A m \in Nat : Settled(m)' <=> (Settled(m) \/ m = k)
      BY <1>2, <2>1 DEF Settled, OrderTypeOK
    <2>4. QED
      BY <2>1, <2>2, <2>3 DEF OrderTypeOK
  <1>3. QED
    BY <1>1, <1>2

\* Every step keeps the types, one case per group of actions.
LEMMA TypeNext == TypeOK /\ [Next]_vars => TypeOK'
  <1> SUFFICES ASSUME TypeOK, [Next]_vars
               PROVE  TypeOK'
    OBVIOUS
  <1> USE DEF TypeOK
  <1>1. CASE Environment
    BY <1>1, QueueType
       DEF Environment, KeyPress, KeyRelease, ListenerDies, TogglePause,
           Events, orderVars, OrderTypeOK
  <1>2. CASE Watchdog
    BY <1>2, QueueType
       DEF Watchdog, RestartListener, RetryListener, Events, orderVars,
           OrderTypeOK
  <1>3. ASSUME NEW t \in Takes, WorkerStep(t)
        PROVE  TypeOK'
    <2> USE DEF Stages, inputVars, orderVars, OrderTypeOK
    <2>1. CASE Press(t)
      BY <2>1, QueueType DEF Press, Events
    <2>2. CASE StartCapture(t)
      BY <2>2 DEF StartCapture
    <2>3. CASE CaptureReady(t)
      BY <2>3 DEF CaptureReady
    <2>4. CASE PressFails(t)
      BY <2>4 DEF PressFails, Abandon
    <2>5. CASE Release(t)
      BY <2>5, QueueType DEF Release, Events
    <2>6. CASE FlightTap(t)
      BY <2>6 DEF FlightTap
    <2>7. CASE TicketRelease(t)
      BY <2>7 DEF TicketRelease, IssueTicket
    <2>8. CASE SpawnFinisher(t)
      BY <2>8 DEF SpawnFinisher
    <2>9. CASE ReleaseFails(t)
      BY <2>9 DEF ReleaseFails, Abandon
    <2>10. QED
      BY <1>3, <2>1, <2>2, <2>3, <2>4, <2>5, <2>6, <2>7, <2>8, <2>9
         DEF WorkerStep
  <1>4. CASE IgnorePress \/ IgnoreRelease
    BY <1>4, QueueType
       DEF IgnorePress, IgnoreRelease, Events, inputVars, orderVars,
           OrderTypeOK
  <1>5. CASE RecoverListener
    BY <1>5, QueueType
       DEF RecoverListener, Abandon, Events, Stages, inputVars, orderVars,
           OrderTypeOK
  <1>6. ASSUME NEW t \in Takes, FinishStep(t)
        PROVE  TypeOK'
    <2> USE DEF Stages, inputVars, orderVars
    <2>1. CASE StopCapture(t) \/ DropSilentTake(t) \/ RecognitionReady(t)
               \/ EnterTurn(t) \/ DropInTurn(t) \/ FinishFails(t)
      BY <2>1 DEF StopCapture, DropSilentTake, RecognitionReady, EnterTurn,
                  DropInTurn, FinishFails, OrderTypeOK
    <2>2. CASE Act(t)
      BY <2>2 DEF Act, OrderTypeOK
    <2>3. CASE CompleteTake(t)
      <3>1. OrderTypeOK'
        <4>1. ticket[t] \in Int /\ CompleteTicket(ticket[t])
          BY <2>3 DEF CompleteTake, NoTicket
        <4>2. QED
          BY <4>1, CompleteSettlesOne
      <3>2. QED
        BY <2>3, <3>1 DEF CompleteTake
    <2>4. QED
      BY <1>6, <2>1, <2>2, <2>3 DEF FinishStep
  <1>7. CASE UNCHANGED vars
    BY <1>7 DEF vars, OrderTypeOK
  <1>8. QED
    BY <1>1, <1>2, <1>3, <1>4, <1>5, <1>6, <1>7 DEF Next, Worker

(* Type correctness of every variable the pipeline keeps. *)
THEOREM PipelineTypeCorrect == Spec => []TypeOK
  <1>1. QED
    BY TypeInit, TypeNext, PTL DEF Spec
-----------------------------------------------------------------------------
(* The microphone: active["rec"] is exactly the take the worker has not     *)
(* released yet, so whoever holds a stream is the active take or on a path  *)
(* that stops it.                                                           *)

ActiveStages ==
    \A t \in Takes : active = t <=> stage[t] \in {"starting", "readying", "held"}

WorkingStages ==
    \A t \in Takes :
        /\ stage[t] \in {"starting", "readying", "releasing", "ticketed"}
               => working = t
        /\ stage[t] \in {"releasing", "ticketed"} => active = NoTake

MicInv ==
    /\ ActiveStages
    /\ WorkingStages
    /\ NoOrphanMicrophone

\* No microphone is open at first.
LEMMA MicInit == Init => MicInv
  BY PipelineAssumption
     DEF Init, MicInv, ActiveStages, WorkingStages, NoOrphanMicrophone

\* Every step keeps the ownership of open microphones.
LEMMA MicNext == TypeOK /\ MicInv /\ [Next]_vars => MicInv'
  <1> SUFFICES ASSUME TypeOK, MicInv, [Next]_vars
               PROVE  MicInv'
    OBVIOUS
  <1> USE PipelineAssumption
      DEF TypeOK, MicInv, ActiveStages, WorkingStages, NoOrphanMicrophone,
          Receives, WorkerIdle
  <1>1. ASSUME UNCHANGED <<active, working, stage, mic>>
        PROVE  MicInv'
    BY <1>1
  <1>2. CASE Environment \/ Watchdog \/ IgnorePress \/ IgnoreRelease
             \/ UNCHANGED vars
    BY <1>1, <1>2
       DEF Environment, KeyPress, KeyRelease, ListenerDies, TogglePause,
           Watchdog, RestartListener, RetryListener, IgnorePress,
           IgnoreRelease, vars
  <1>3. ASSUME NEW t \in Takes, WorkerStep(t)
        PROVE  MicInv'
    <2>1. CASE Press(t)
      BY <2>1 DEF Press
    <2>2. CASE StartCapture(t) \/ CaptureReady(t)
      BY <2>2 DEF StartCapture, CaptureReady
    <2>3. CASE PressFails(t) \/ ReleaseFails(t)
      <3>1. /\ working = t /\ active' = NoTake
            /\ stage' = [stage EXCEPT ![t] = "gone"]
            /\ mic' = [mic EXCEPT ![t] = "off"]
            /\ stage[t] \in {"starting", "readying", "releasing", "ticketed"}
        BY <2>3 DEF PressFails, ReleaseFails, Abandon
      <3>2. active \in {t, NoTake}
        BY <3>1
      <3>3. \A u \in Takes \ {t} :
               /\ stage'[u] = stage[u] /\ mic'[u] = mic[u]
               /\ stage[u] \notin {"starting", "readying", "held",
                                  "releasing", "ticketed"}
        BY <3>1, <3>2
      <3>4. stage'[t] = "gone" /\ mic'[t] = "off"
        BY <3>1
      <3> QED BY <3>1, <3>2, <3>3, <3>4
    <2>4. CASE Release(t)
      BY <2>4 DEF Release
    <2>5. CASE FlightTap(t) \/ TicketRelease(t) \/ SpawnFinisher(t)
      BY <2>5 DEF FlightTap, TicketRelease, SpawnFinisher
    <2>6. QED
      BY <1>3, <2>1, <2>2, <2>3, <2>4, <2>5 DEF WorkerStep
  <1>4. CASE RecoverListener
    BY <1>1, <1>4 DEF RecoverListener, Abandon
  <1>5. ASSUME NEW t \in Takes, FinishStep(t)
        PROVE  MicInv'
    BY SMTT(30), <1>5
       DEF FinishStep, StopCapture, DropSilentTake, RecognitionReady,
           EnterTurn, DropInTurn, Act, FinishFails, CompleteTake
  <1>6. QED
    BY <1>2, <1>3, <1>4, <1>5 DEF Next, Worker

\* Types and microphone ownership hold in every reachable state.
LEMMA MicInvariance == Spec => [](TypeOK /\ MicInv)
  BY TypeInit, TypeNext, MicInit, MicNext, PTL DEF Spec

(* No stream is left open behind the back of whoever should stop it, in     *)
(* particular not while a take waits for its turn.                          *)
THEOREM MicrophoneDiscipline == Spec => []NoOrphanMicrophone
  <1>1. MicInv => NoOrphanMicrophone
    BY DEF MicInv
  <1>2. QED
    BY <1>1, MicInvariance, PTL

(* The queue: its last event agrees with the latch, so once it is drained   *)
(* the worker's view of the key is the callbacks' view.                     *)

LastEventIsLatch ==
    events # <<>> => (keyDown <=> events[Len(events)] = "press")

QueueInv == LastEventIsLatch /\ CaptureIsAnswered

\* What the steps that touch the queue, the latch or the active take do.
LEMMA QueueSteps ==
  ASSUME TypeOK
  PROVE  /\ \A ev \in Events : Enqueue(ev) =>
                events' # <<>> /\ events'[Len(events')] = ev
         /\ \A ev \in Events : Receives(ev) =>
                /\ events # <<>>
                /\ events' # <<>> => events'[Len(events')] = events[Len(events)]
                /\ events' = <<>> => events[Len(events)] = ev
  <1>1. ASSUME NEW ev \in Events, Enqueue(ev)
        PROVE  events' # <<>> /\ events'[Len(events')] = ev
    <2>1. events \in Seq(Events) /\ events' = Append(events, ev)
      BY <1>1 DEF TypeOK, Enqueue
    <2>2. Len(events') = Len(events) + 1 /\ events'[Len(events) + 1] = ev
      BY <2>1
    <2>3. QED
      BY <2>1, <2>2
  <1>2. ASSUME NEW ev \in Events, Receives(ev)
        PROVE  /\ events # <<>>
               /\ events' # <<>> => events'[Len(events')] = events[Len(events)]
               /\ events' = <<>> => events[Len(events)] = ev
    <2>0. events # <<>> /\ events' = Tail(events) /\ Head(events) = ev
      BY <1>2 DEF Receives
    <2>1. /\ events # <<>> /\ events' = Tail(events) /\ events[1] = ev
          /\ events \in Seq(Events) /\ Len(events) \in Nat \ {0}
      BY <2>0 DEF TypeOK
    <2>2. Len(events') = Len(events) - 1
      BY <2>1
    <2>3. CASE events' = <<>>
      <3>1. Len(events') = 0
        BY <2>3
      <3>2. Len(events) = 1
        BY <2>1, <2>2, <3>1
      <3>3. QED
        BY <2>1, <2>3, <3>2
    <2>4. CASE events' # <<>>
      BY <2>1, <2>2, <2>4
    <2>5. QED
      BY <2>1, <2>3, <2>4
  <1>3. QED
    BY <1>1, <1>2

\* Every step keeps the agreement of queue, latch and active take.
LEMMA QueueNext == TypeOK /\ QueueInv /\ [Next]_vars => QueueInv'
  <1> SUFFICES ASSUME TypeOK, QueueInv, [Next]_vars
               PROVE  QueueInv'
    OBVIOUS
  <1> USE DEF QueueInv, LastEventIsLatch, CaptureIsAnswered, inputVars
  <1>1. CASE KeyPress \/ KeyRelease \/ RestartListener
    BY <1>1, QueueSteps DEF KeyPress, KeyRelease, RestartListener, Events
  <1>2. ASSUME UNCHANGED <<events, keyDown>>, active' \in {active, NoTake}
        PROVE  QueueInv'
    BY <1>2
  <1>3. CASE ListenerDies \/ RetryListener \/ TogglePause \/ UNCHANGED vars
    BY <1>2, <1>3 DEF ListenerDies, RetryListener, TogglePause, vars
  <1>4. ASSUME NEW t \in Takes, WorkerStep(t)
        PROVE  QueueInv'
    <2>1. CASE Press(t)
      BY <2>1, QueueSteps DEF Press, Events
    <2>2. CASE Release(t)
      BY <2>2, QueueSteps DEF Release, Events
    <2>3. CASE StartCapture(t) \/ CaptureReady(t) \/ PressFails(t)
               \/ FlightTap(t) \/ TicketRelease(t) \/ SpawnFinisher(t)
               \/ ReleaseFails(t)
      BY <1>2, <2>3
         DEF StartCapture, CaptureReady, PressFails, FlightTap,
             TicketRelease, SpawnFinisher, ReleaseFails, Abandon
    <2>4. QED
      BY <1>4, <2>1, <2>2, <2>3 DEF WorkerStep
  <1>5. CASE IgnorePress \/ IgnoreRelease \/ RecoverListener
    BY <1>5, QueueSteps
       DEF IgnorePress, IgnoreRelease, RecoverListener, Abandon, Events
  <1>6. ASSUME NEW t \in Takes, FinishStep(t)
        PROVE  QueueInv'
    BY <1>2, <1>6
       DEF FinishStep, StopCapture, DropSilentTake, RecognitionReady,
           EnterTurn, DropInTurn, Act, FinishFails, CompleteTake
  <1>7. QED
    BY <1>1, <1>3, <1>4, <1>5, <1>6
       DEF Next, Environment, Watchdog, Worker

(* No recording outlives its key: with the queue drained an active take      *)
(* means the key is latched, even after listeners died and were replaced.   *)
THEOREM CaptureAnswered == Spec => []CaptureIsAnswered
  <1>1. Init => QueueInv
    BY DEF Init, QueueInv, LastEventIsLatch, CaptureIsAnswered
  <1>2. QueueInv => CaptureIsAnswered
    BY DEF QueueInv
  <1>3. QED
    BY <1>1, <1>2, QueueNext, PipelineTypeCorrect, PTL DEF Spec

-----------------------------------------------------------------------------
(* The inductive invariant.  A ticket belongs to one take; a take that the  *)
(* worker or its finisher still owes a completion holds an unsettled        *)
(* ticket; whoever has acted has done so at or before the current turn.     *)

OwesCompletion == {"ticketed", "tail", "decoding", "waiting", "turn",
                   "closing"}
BeforeTicket == {"unused", "starting", "readying", "held", "releasing"}

CompletedIssued ==
    /\ nextUp <= issued
    /\ \A k \in completed : k < issued

TicketsIssued ==
    \A t \in Takes : ticket[t] # NoTicket => ticket[t] < issued

TicketsUnique ==
    \A t, u \in Takes :
        ticket[t] # NoTicket /\ ticket[t] = ticket[u] => t = u

TicketsFollowStage ==
    \A t \in Takes :
        /\ stage[t] \in BeforeTicket => ticket[t] = NoTicket
        /\ stage[t] \in OwesCompletion =>
               ticket[t] # NoTicket /\ ~Settled(ticket[t])

TurnIsPassed ==
    \A t \in Takes : stage[t] = "turn" => ticket[t] <= nextUp

EffectsArePassed ==
    \A i \in 1..Len(effects) :
        /\ stage[effects[i]] \in {"closing", "gone"}
        /\ ticket[effects[i]] # NoTicket
        /\ ticket[effects[i]] <= nextUp

IInv ==
    /\ TypeOK
    /\ CompletedIssued
    /\ TicketsIssued
    /\ TicketsUnique
    /\ TicketsFollowStage
    /\ TurnIsPassed
    /\ EffectsArePassed
    /\ EffectsInReleaseOrder

\* No ticket, no effect: the ordering invariant holds at first.
LEMMA InvInit == Init => IInv
  <1> SUFFICES ASSUME Init PROVE IInv
    OBVIOUS
  <1>1. TypeOK
    BY TypeInit
  <1>2. \A t \in Takes : stage[t] = "unused" /\ ticket[t] = NoTicket
    BY DEF Init
  <1>3. Len(effects) = 0
    BY DEF Init
  <1>4. QED
    BY <1>1, <1>2, <1>3
       DEF IInv, CompletedIssued, TicketsIssued, TicketsUnique,
           TicketsFollowStage, TurnIsPassed, EffectsArePassed,
           EffectsInReleaseOrder, OwesCompletion, Init, OrderInit

\* Most steps move one take between stages that agree on whether it has a
\* ticket, without touching the tickets, the order or the effects.
LEMMA StageStepKeepsInv ==
  ASSUME IInv, TypeOK', UNCHANGED <<issued, nextUp, completed, ticket, effects>>,
         \A t \in Takes :
            \/ stage'[t] = stage[t]
            \/ stage[t] \in BeforeTicket /\ stage'[t] \in BeforeTicket
            \/ stage'[t] = "gone"
            \/ /\ stage[t] \in OwesCompletion \ {"closing"}
               /\ stage'[t] \in OwesCompletion
               /\ stage'[t] = "turn" => ticket[t] <= nextUp
  PROVE  IInv'
  <1> USE DEF IInv
  <1>1. \A k \in Nat : Settled(k)' <=> Settled(k)
    BY DEF Settled
  <1>2. TicketsIssued' /\ TicketsUnique' /\ CompletedIssued'
    BY DEF TicketsIssued, TicketsUnique, CompletedIssued
  <1>3. TicketsFollowStage'
    BY <1>1 DEF TicketsFollowStage, TypeOK, OwesCompletion, BeforeTicket
  <1>4. TurnIsPassed'
    BY DEF TurnIsPassed, BeforeTicket
  <1>5. EffectsArePassed' /\ EffectsInReleaseOrder'
    <2>1. \A i \in 1..Len(effects) : effects[i] \in Takes
      BY DEF TypeOK
    <2>2. \A i \in 1..Len(effects) : stage'[effects[i]] \in {"closing", "gone"}
      BY <2>1 DEF EffectsArePassed, OwesCompletion, BeforeTicket
    <2>3. QED
      BY <2>2 DEF EffectsArePassed, EffectsInReleaseOrder
  <1>6. QED
    BY <1>2, <1>3, <1>4, <1>5

\* A new ticket is larger than every ticket before it.
LEMMA TicketReleaseKeepsInv ==
  ASSUME IInv, TypeOK', NEW t \in Takes, TicketRelease(t)
  PROVE  IInv'
  <1> USE DEF IInv
  <1>a. /\ \A i \in 1..Len(effects) : effects[i] \in Takes
        /\ UNCHANGED <<nextUp, completed, effects>>
    BY DEF TypeOK, TicketRelease, IssueTicket
  <1>0. /\ ticket'[t] = issued /\ issued \in Nat /\ issued' = issued + 1
        /\ \A u \in Takes \ {t} : ticket'[u] = ticket[u] /\ stage'[u] = stage[u]
        /\ stage'[t] = "ticketed" /\ stage[t] = "releasing"
        /\ ticket[t] = NoTicket
    BY DEF TypeOK, OrderTypeOK, TicketRelease, IssueTicket,
           TicketsFollowStage, BeforeTicket
  <1>1. TicketsIssued'
    BY <1>0 DEF TicketsIssued, TypeOK
  <1>2. TicketsUnique'
    BY <1>0 DEF TicketsIssued, TicketsUnique, NoTicket, TypeOK
  <1>3. TicketsFollowStage'
    <2>1. ~Settled(issued)
      BY DEF CompletedIssued, TypeOK, OrderTypeOK, Settled
    <2>2. \A k : Settled(k)' <=> Settled(k)
      BY <1>a DEF Settled
    <2>3. QED
      BY <1>0, <2>1, <2>2
         DEF TicketsFollowStage, BeforeTicket, OwesCompletion, NoTicket
  <1>4. TurnIsPassed'
    BY <1>0, <1>a DEF TurnIsPassed
  <1>5. EffectsArePassed' /\ EffectsInReleaseOrder'
    <2>1. \A i \in 1..Len(effects) : effects[i] # t
      BY <1>0, <1>a DEF EffectsArePassed
    <2>2. QED
      BY <1>0, <1>a, <2>1 DEF EffectsArePassed, EffectsInReleaseOrder
  <1>6. CompletedIssued'
    BY <1>0, <1>a DEF CompletedIssued, TypeOK, OrderTypeOK
  <1>7. QED
    BY <1>1, <1>2, <1>3, <1>4, <1>5, <1>6

\* A take that acts has the oldest unsettled ticket and has not acted yet.
LEMMA ActKeepsInv ==
  ASSUME IInv, TypeOK', NEW t \in Takes, Act(t)
  PROVE  IInv'
  <1> USE DEF IInv
  <1>a. /\ \A i \in 1..Len(effects) : effects[i] \in Takes /\ effects[i] # t
        /\ UNCHANGED <<issued, nextUp, completed, ticket>>
        /\ stage[t] = "turn" /\ stage'[t] = "closing"
        /\ \A u \in Takes \ {t} : stage'[u] = stage[u]
    BY DEF TypeOK, Act, EffectsArePassed, orderVars
  <1>b. /\ effects \in Seq(Takes)
        /\ Len(effects') = Len(effects) + 1
        /\ \A i \in 1..Len(effects) : effects'[i] = effects[i]
        /\ effects'[Len(effects) + 1] = t
    BY DEF TypeOK, Act
  <1>c. /\ ticket[t] = nextUp
        /\ ticket[t] # NoTicket
        /\ \A i \in 1..Len(effects) : ticket[effects[i]] < ticket[t]
    <2>1. ticket[t] # NoTicket /\ ~Settled(ticket[t]) /\ ticket[t] <= nextUp
      BY <1>a DEF TicketsFollowStage, TurnIsPassed, OwesCompletion
    <2>2. ticket[t] = nextUp
      BY <2>1 DEF Settled, TypeOK, OrderTypeOK, NoTicket
    <2>3. ASSUME NEW i \in 1..Len(effects)
          PROVE  ticket[effects[i]] < ticket[t]
      <3>1. ticket[effects[i]] <= nextUp /\ ticket[effects[i]] # ticket[t]
        BY <1>a, <2>1 DEF EffectsArePassed, TicketsUnique
      <3>2. ticket[effects[i]] \in Int /\ nextUp \in Int
        BY <1>a DEF TypeOK, OrderTypeOK, NoTicket
      <3>3. QED
        BY <2>2, <3>1, <3>2
    <2>4. QED
      BY <2>1, <2>2, <2>3
  <1>1. TicketsIssued' /\ TicketsUnique' /\ CompletedIssued'
    BY <1>a DEF TicketsIssued, TicketsUnique, CompletedIssued
  <1>2. TicketsFollowStage' /\ TurnIsPassed'
    BY <1>a
       DEF TicketsFollowStage, TurnIsPassed, Settled, BeforeTicket,
           OwesCompletion
  <1>3. EffectsArePassed'
    <2>1. ASSUME NEW i \in 1..Len(effects')
          PROVE  /\ stage'[effects'[i]] \in {"closing", "gone"}
                 /\ ticket[effects'[i]] # NoTicket
                 /\ ticket[effects'[i]] <= nextUp
      <3>1. CASE i = Len(effects) + 1
        BY <1>a, <1>b, <1>c, <3>1 DEF TypeOK, OrderTypeOK
      <3>2. CASE i \in 1..Len(effects)
        BY <1>a, <1>b, <3>2 DEF EffectsArePassed
      <3>3. QED
        BY <1>b, <3>1, <3>2
    <2>2. QED
      BY <1>a, <2>1 DEF EffectsArePassed
  <1>4. EffectsInReleaseOrder'
    <2>1. ASSUME NEW i \in 1..Len(effects'), NEW j \in 1..Len(effects'), i < j
          PROVE  ticket[effects'[i]] < ticket[effects'[j]]
      <3>1. i \in 1..Len(effects)
        BY <1>b, <2>1
      <3>2. CASE j = Len(effects) + 1
        BY <1>b, <1>c, <3>1, <3>2
      <3>3. CASE j \in 1..Len(effects)
        BY <1>b, <2>1, <3>1, <3>3 DEF EffectsInReleaseOrder
      <3>4. QED
        BY <1>b, <3>2, <3>3
    <2>2. QED
      BY <1>a, <2>1 DEF EffectsInReleaseOrder
  <1>5. QED
    BY <1>1, <1>2, <1>3, <1>4

\* Completing settles one ticket and lets nobody pass an unsettled one.
LEMMA CompleteTakeKeepsInv ==
  ASSUME IInv, TypeOK', NEW t \in Takes, CompleteTake(t)
  PROVE  IInv'
  <1> USE DEF IInv
  <1>a. /\ stage[t] = "closing" /\ stage'[t] = "gone"
        /\ \A u \in Takes \ {t} : stage'[u] = stage[u]
        /\ UNCHANGED <<ticket, effects>>
        /\ CompleteTicket(ticket[t])
    BY DEF TypeOK, CompleteTake
  <1>b. ticket[t] \in Nat /\ ticket[t] # NoTicket
    BY <1>a DEF TypeOK, TicketsFollowStage, OwesCompletion
  <1>c. /\ issued' = issued
        /\ nextUp <= nextUp'
        /\ \A m \in Nat : Settled(m)' <=> (Settled(m) \/ m = ticket[t])
    BY <1>a, <1>b, CompleteSettlesOne DEF TypeOK
  <1>1. TicketsIssued' /\ TicketsUnique'
    BY <1>a, <1>c DEF TicketsIssued, TicketsUnique
  <1>2. TicketsFollowStage'
    <2>1. ASSUME NEW u \in Takes, stage'[u] \in OwesCompletion
          PROVE  ticket[u] # NoTicket /\ ~Settled(ticket[u])'
      <3>1. u # t /\ stage[u] \in OwesCompletion
        BY <1>a, <2>1 DEF OwesCompletion
      <3>2. ticket[u] # NoTicket /\ ~Settled(ticket[u]) /\ ticket[u] \in Nat
        BY <3>1 DEF TicketsFollowStage, TypeOK
      <3>3. ticket[u] # ticket[t]
        BY <1>b, <3>1, <3>2 DEF TicketsUnique
      <3>4. Settled(ticket[u])' <=> (Settled(ticket[u]) \/ ticket[u] = ticket[t])
        BY <1>a, <1>c, <3>2 DEF Settled
      <3>5. QED
        BY <3>2, <3>3, <3>4
    <2>2. QED
      BY <1>a, <2>1 DEF TicketsFollowStage, BeforeTicket, Settled
  <1>3. TurnIsPassed' /\ EffectsArePassed'
    <2>1. \A u \in Takes : ticket[u] <= nextUp => ticket[u] <= nextUp'
      BY SMTT(30), <1>c DEF TypeOK, OrderTypeOK, NoTicket
    <2>2. \A i \in 1..Len(effects) : effects[i] \in Takes
      BY DEF TypeOK
    <2>3. QED
      BY <1>a, <2>1, <2>2 DEF TurnIsPassed, EffectsArePassed
  <1>4. EffectsInReleaseOrder'
    BY <1>a DEF EffectsInReleaseOrder
  <1>5. CompletedIssued'
    <2>1. \A k \in completed' : k \in Nat /\ Settled(k)'
      BY DEF TypeOK, OrderTypeOK, Settled
    <2>2. ASSUME NEW k \in completed'
          PROVE  k < issued
      <3>1. k \in Nat /\ (Settled(k) \/ k = ticket[t])
        BY <1>c, <2>1
      <3>2. CASE Settled(k)
        BY <3>1, <3>2 DEF Settled, CompletedIssued, TypeOK, OrderTypeOK
      <3>3. CASE k = ticket[t]
        BY <1>b, <3>3 DEF TicketsIssued
      <3> QED BY <3>1, <3>2, <3>3
    <2>3. nextUp' <= issued
      BY <1>a
         DEF CompleteTicket, CompletedIssued, TypeOK, OrderTypeOK
    <2>4. QED
      BY <1>c, <2>2, <2>3 DEF CompletedIssued
  <1>6. QED
    BY <1>1, <1>2, <1>3, <1>4, <1>5

\* Every step keeps the ordering invariant, one case per action.
LEMMA InvNext == IInv /\ MicInv /\ [Next]_vars => IInv'
  <1> SUFFICES ASSUME IInv, MicInv, [Next]_vars
               PROVE  IInv'
    OBVIOUS
  <1>0. TypeOK /\ TypeOK'
    BY TypeNext DEF IInv
  <1> USE DEF orderVars, inputVars
  <1>1. CASE Environment \/ Watchdog
    BY <1>0, <1>1, StageStepKeepsInv
       DEF Environment, KeyPress, KeyRelease, ListenerDies, TogglePause,
           Watchdog, RestartListener, RetryListener
  <1>2. ASSUME NEW t \in Takes, WorkerStep(t)
        PROVE  IInv'
    <2>1. CASE Press(t) \/ StartCapture(t) \/ CaptureReady(t) \/ PressFails(t)
      BY <1>0, <2>1, StageStepKeepsInv
         DEF Press, StartCapture, CaptureReady, PressFails, Abandon, TypeOK,
             BeforeTicket
    <2>2. CASE Release(t)
      <3>1. stage[t] \in {"starting", "readying", "held"}
        BY <2>2 DEF Release, MicInv, ActiveStages
      <3>2. QED
        BY <1>0, <2>2, <3>1, StageStepKeepsInv
           DEF Release, TypeOK, BeforeTicket
    <2>3. CASE FlightTap(t) \/ SpawnFinisher(t) \/ ReleaseFails(t)
      BY <1>0, <2>3, StageStepKeepsInv
         DEF FlightTap, SpawnFinisher, ReleaseFails, Abandon, TypeOK,
             OwesCompletion
    <2>4. CASE TicketRelease(t)
      BY <1>0, <2>4, TicketReleaseKeepsInv
    <2>5. QED
      BY <1>2, <2>1, <2>2, <2>3, <2>4 DEF WorkerStep
  <1>3. CASE IgnorePress \/ IgnoreRelease \/ RecoverListener
    BY <1>0, <1>3, StageStepKeepsInv
       DEF IgnorePress, IgnoreRelease, RecoverListener, Abandon, TypeOK
  <1>4. ASSUME NEW t \in Takes, FinishStep(t)
        PROVE  IInv'
    <2>1. CASE StopCapture(t) \/ DropSilentTake(t) \/ RecognitionReady(t)
               \/ EnterTurn(t) \/ DropInTurn(t) \/ FinishFails(t)
      BY <1>0, <2>1, StageStepKeepsInv
         DEF StopCapture, DropSilentTake, RecognitionReady, EnterTurn,
             MayPass, DropInTurn, FinishFails, TypeOK, OwesCompletion
    <2>2. CASE Act(t)
      BY <1>0, <2>2, ActKeepsInv
    <2>3. CASE CompleteTake(t)
      BY <1>0, <2>3, CompleteTakeKeepsInv
    <2>4. QED
      BY <1>4, <2>1, <2>2, <2>3 DEF FinishStep
  <1>5. CASE UNCHANGED vars
    BY <1>0, <1>5, StageStepKeepsInv DEF vars
  <1>6. QED
    BY <1>1, <1>2, <1>3, <1>4, <1>5 DEF Next, Worker

\* The ordering invariant holds in every reachable state.
LEMMA Invariance == Spec => []IInv
  BY InvInit, InvNext, MicInvariance, PTL DEF Spec

-----------------------------------------------------------------------------

(* Whatever the takes, the streams and the failures, side effects happen in *)
(* release order and none happens twice.                                    *)
THEOREM DeliveryOrder == Spec => []EffectsInReleaseOrder
  <1>1. IInv => EffectsInReleaseOrder
    BY DEF IInv
  <1>2. QED
    BY <1>1, Invariance, PTL

(* At most one take is ever between wait() and complete(): its ticket is    *)
(* unsettled and not ahead of nextUp, hence it is nextUp, and tickets are   *)
(* unique.                                                                  *)
THEOREM SerialisedTurn == Spec => []OneTakeInTurn
  <1>1. IInv => OneTakeInTurn
    <2> SUFFICES ASSUME IInv, NEW t \in Takes, NEW u \in Takes,
                        stage[t] = "turn", stage[u] = "turn"
                 PROVE  t = u
      BY DEF OneTakeInTurn
    <2>1. ASSUME NEW v \in Takes, stage[v] = "turn"
          PROVE  ticket[v] = nextUp /\ ticket[v] # NoTicket
      BY <2>1
         DEF IInv, TurnIsPassed, TicketsFollowStage, OwesCompletion,
             Settled, TypeOK, OrderTypeOK
    <2>2. QED
      BY <2>1 DEF IInv, TicketsUnique
  <1>2. QED
    BY <1>1, Invariance, PTL

(* Every step of the pipeline is a step of OrderedDelivery or leaves its    *)
(* variables alone.                                                         *)
LEMMA StepRefines ==
  IInv /\ IInv' /\ [Next]_vars =>
      [Delivery!DeliveryNext]_Delivery!deliveryVars
  <1> SUFFICES ASSUME IInv, IInv', [Next]_vars
               PROVE  [Delivery!DeliveryNext]_Delivery!deliveryVars
    OBVIOUS
  <1> DEFINE pend == {t \in Takes : ticket[t] # NoTicket /\ ~Settled(ticket[t])}
  <1> USE DEF Delivery!deliveryVars, Delivery!DeliveryNext
  <1>1. ASSUME NEW t \in Takes, TicketRelease(t)
        PROVE  Delivery!ReleaseTake(t)
    <2>1. /\ ticket[t] = NoTicket
          /\ ticket' = [ticket EXCEPT ![t] = issued]
          /\ UNCHANGED <<nextUp, completed, effects>>
          /\ issued \in Nat
      BY <1>1
         DEF TicketRelease, IssueTicket, IInv, TicketsFollowStage,
             BeforeTicket, TypeOK, OrderTypeOK
    <2>2. ticket'[t] = issued
      BY <2>1 DEF IInv, TypeOK
    <2>3. pend' = pend \cup {t}
      <3>1. \A k : Settled(k)' <=> Settled(k)
        BY <2>1 DEF Settled
      <3>2. ~Settled(issued)
        BY DEF IInv, CompletedIssued, TypeOK, OrderTypeOK, Settled
      <3>3. \A u \in Takes \ {t} : ticket'[u] = ticket[u]
        BY <2>1 DEF IInv, TypeOK
      <3>4. QED
        BY <2>1, <2>2, <3>1, <3>2, <3>3 DEF NoTicket
    <2>4. \A u \in Takes : ticket[u] # NoTicket => ticket[u] < ticket'[t]
      BY <2>2 DEF IInv, TicketsIssued
    <2>5. QED
      BY <2>1, <2>2, <2>3, <2>4 DEF Delivery!ReleaseTake
  <1>2. ASSUME NEW t \in Takes, Act(t)
        PROVE  Delivery!ActInOrder(t)
    <2>1. /\ stage[t] = "turn"
          /\ UNCHANGED <<issued, nextUp, completed, ticket>>
          /\ effects' = Append(effects, t)
      BY <1>2 DEF Act, orderVars
    <2>2. ticket[t] # NoTicket /\ ~Settled(ticket[t]) /\ ticket[t] <= nextUp
      BY <2>1 DEF IInv, TicketsFollowStage, TurnIsPassed, OwesCompletion
    <2>3. \A u \in pend : ticket[t] <= ticket[u]
      BY <2>2 DEF IInv, TypeOK, OrderTypeOK, Settled, NoTicket
    <2>4. \A i \in 1..Len(effects) : effects[i] # t
      BY <2>1 DEF IInv, EffectsArePassed
    <2>5. pend' = pend
      BY <2>1 DEF Settled
    <2>6. QED
      BY <2>1, <2>2, <2>3, <2>4, <2>5 DEF Delivery!ActInOrder
  <1>3. ASSUME NEW t \in Takes, CompleteTake(t)
        PROVE  Delivery!Settle(t)
    <2>1. /\ stage[t] = "closing"
          /\ UNCHANGED <<ticket, effects>>
          /\ CompleteTicket(ticket[t])
      BY <1>3 DEF CompleteTake
    <2>2. ticket[t] \in Nat /\ ticket[t] # NoTicket /\ ~Settled(ticket[t])
      BY <2>1 DEF IInv, TypeOK, TicketsFollowStage, OwesCompletion
    <2>3. \A m \in Nat : Settled(m)' <=> (Settled(m) \/ m = ticket[t])
      BY <2>1, <2>2, CompleteSettlesOne DEF IInv, TypeOK
    <2>4. pend' = pend \ {t}
      <3>1. ASSUME NEW u \in Takes, ticket[u] # NoTicket
            PROVE  /\ Settled(ticket[u])'
                        <=> (Settled(ticket[u]) \/ ticket[u] = ticket[t])
                   /\ ticket[u] = ticket[t] => u = t
        <4>1. ticket[u] \in Nat
          BY <3>1 DEF IInv, TypeOK
        <4>2. Settled(ticket[u])' <=> (Settled(ticket[u]) \/ ticket[u] = ticket[t])
          BY <2>1, <2>3, <4>1 DEF Settled
        <4>3. QED
          BY <2>2, <3>1, <4>2 DEF IInv, TicketsUnique
      <3>2. QED
        BY <2>1, <2>2, <3>1
    <2>5. QED
      BY <2>1, <2>2, <2>4 DEF Delivery!Settle
  <1>4. ASSUME UNCHANGED <<issued, nextUp, completed, ticket, effects>>
        PROVE  UNCHANGED Delivery!deliveryVars
    BY <1>4 DEF Settled
  <1>5. ASSUME NEW t \in Takes, WorkerStep(t)
        PROVE  [Delivery!DeliveryNext]_Delivery!deliveryVars
    <2>1. CASE TicketRelease(t)
      BY <1>1, <2>1
    <2>2. CASE ~TicketRelease(t)
      <3>1. UNCHANGED <<issued, nextUp, completed, ticket, effects>>
        BY <1>5, <2>2
           DEF WorkerStep, Press, StartCapture, CaptureReady, PressFails,
               Release, FlightTap, SpawnFinisher, ReleaseFails, orderVars
      <3>2. QED
        BY <1>4, <3>1
    <2>3. QED
      BY <2>1, <2>2
  <1>6. ASSUME NEW t \in Takes, FinishStep(t)
        PROVE  [Delivery!DeliveryNext]_Delivery!deliveryVars
    <2>1. CASE Act(t)
      BY <1>2, <2>1
    <2>2. CASE CompleteTake(t)
      BY <1>3, <2>2
    <2>3. CASE ~Act(t) /\ ~CompleteTake(t)
      <3>1. UNCHANGED <<issued, nextUp, completed, ticket, effects>>
        BY <1>6, <2>3
           DEF FinishStep, StopCapture, DropSilentTake, RecognitionReady,
               EnterTurn, DropInTurn, FinishFails, orderVars
      <3>2. QED
        BY <1>4, <3>1
    <2>4. QED
      BY <2>1, <2>2, <2>3
  <1>7. CASE \/ Environment \/ Watchdog
             \/ IgnorePress \/ IgnoreRelease \/ RecoverListener
             \/ UNCHANGED vars
    <2>1. UNCHANGED <<issued, nextUp, completed, ticket, effects>>
      BY <1>7
         DEF Environment, KeyPress, KeyRelease, ListenerDies, TogglePause,
             Watchdog, RestartListener, RetryListener, IgnorePress,
             IgnoreRelease, RecoverListener, vars, orderVars
    <2>2. QED
      BY <1>4, <2>1
  <1>8. QED
    BY <1>5, <1>6, <1>7 DEF Next, Worker

(* The pipeline implements the ordered, at-most-once delivery it promises.  *)
THEOREM Refinement == Spec => ImplementsOrderedDelivery
  <1>1. Init => Delivery!DeliveryInit
    BY DEF Init, Delivery!DeliveryInit
  <1>2. QED
    BY <1>1, StepRefines, Invariance, PTL
       DEF Spec, ImplementsOrderedDelivery, Delivery!DeliverySpec

-----------------------------------------------------------------------------
(* What is safety in EveryReleaseSettles: the takes do not wait in a circle. *)

\* Every ticket was given to a take, and the turn is not over already.
TicketsAreHeld ==
    /\ \A n \in 0..(issued - 1) : \E t \in Takes : ticket[t] = n
    /\ nextUp \notin completed

\* The worker or the take's own thread is at a step that waits for no take.
GoesOn(t) ==
    \/ stage[t] = "ticketed" /\ working = t
    \/ stage[t] \in {"tail", "decoding", "turn", "closing"}
    \/ stage[t] = "waiting" /\ MayPass(ticket[t])

\* A take that waits, waits for the one whose turn it is; that one goes on,
\* or its thread was never started.
WaitsForOneThatGoesOn ==
    \A t \in Takes : stage[t] = "waiting" =>
        \E u \in Takes :
            /\ ticket[u] = nextUp /\ nextUp <= ticket[t]
            /\ GoesOn(u) \/ Stranded(u)

\* A step gives out a ticket, settles one, or touches none.
LEMMA StepKeepsHeld ==
  ASSUME IInv, TicketsAreHeld, [Next]_vars
  PROVE  TicketsAreHeld'
  <1>1. ASSUME NEW t \in Takes, TicketRelease(t)
        PROVE  TicketsAreHeld'
    <2>1. /\ ticket' = [ticket EXCEPT ![t] = issued]
          /\ issued' = issued + 1 /\ issued \in Nat
          /\ UNCHANGED <<nextUp, completed>>
          /\ ticket[t] = NoTicket /\ ticket \in [Takes -> Nat \cup {NoTicket}]
      BY <1>1 DEF TicketRelease, IssueTicket, IInv, TypeOK, OrderTypeOK,
                  TicketsFollowStage, BeforeTicket
    <2>2. ASSUME NEW n \in 0..(issued' - 1)
          PROVE  \E u \in Takes : ticket'[u] = n
      <3>1. CASE n = issued
        BY <2>1, <3>1
      <3>2. CASE n \in 0..(issued - 1)
        <4>1. PICK u \in Takes : ticket[u] = n
          BY <3>2 DEF TicketsAreHeld
        <4>2. u # t
          BY <2>1, <3>2, <4>1 DEF NoTicket
        <4> QED BY <2>1, <4>1, <4>2
      <3> QED BY <2>1, <3>1, <3>2
    <2> QED BY <2>1, <2>2 DEF TicketsAreHeld
  <1>2. ASSUME NEW t \in Takes, CompleteTake(t)
        PROVE  TicketsAreHeld'
    BY <1>2 DEF CompleteTake, CompleteTicket, TicketsAreHeld
  <1>3. CASE UNCHANGED <<issued, nextUp, completed, ticket>>
    BY <1>3 DEF TicketsAreHeld
  <1>4. \/ \E t \in Takes : TicketRelease(t) \/ CompleteTake(t)
        \/ UNCHANGED <<issued, nextUp, completed, ticket>>
    BY DEF Next, vars, orderVars, Environment, KeyPress, KeyRelease,
           ListenerDies, TogglePause, Watchdog, RestartListener,
           RetryListener, Worker, WorkerStep, Press, StartCapture,
           CaptureReady, PressFails, Release, FlightTap, SpawnFinisher,
           ReleaseFails, IgnorePress, IgnoreRelease, RecoverListener,
           FinishStep, StopCapture, DropSilentTake, RecognitionReady,
           EnterTurn, DropInTurn, Act, FinishFails
  <1> QED BY <1>1, <1>2, <1>3, <1>4

\* The owner of the ticket whose turn it is has not completed it.
LEMMA NextIsOwed ==
  ASSUME IInv, MicInv, TicketsAreHeld, nextUp < issued
  PROVE  \E u \in Takes : ticket[u] = nextUp /\ (GoesOn(u) \/ Stranded(u))
  <1>1. nextUp \in Nat /\ issued \in Nat /\ stage \in [Takes -> Stages]
    BY DEF IInv, TypeOK, OrderTypeOK
  <1>2. PICK u \in Takes : ticket[u] = nextUp
    BY <1>1 DEF TicketsAreHeld
  <1>3. ticket[u] # NoTicket /\ ~Settled(ticket[u])
    BY <1>1, <1>2 DEF NoTicket, Settled, TicketsAreHeld
  <1>4. stage[u] \in OwesCompletion \cup {"gone"}
    BY <1>1, <1>3 DEF IInv, TicketsFollowStage, Stages, BeforeTicket,
                      OwesCompletion
  <1>5. stage[u] = "ticketed" => working = u
    BY DEF MicInv, WorkingStages
  <1>6. MayPass(ticket[u])
    BY <1>1, <1>2 DEF MayPass
  <1>7. GoesOn(u) \/ Stranded(u)
    BY <1>3, <1>4, <1>5, <1>6 DEF GoesOn, Stranded, OwesCompletion
  <1> QED BY <1>2, <1>7

\* No take waits for a take that waits itself, whatever failed before it.
THEOREM NobodyWaitsInACircle == Spec => []WaitsForOneThatGoesOn
  <1>1. Init => TicketsAreHeld
    BY DEF Init, OrderInit, TicketsAreHeld
  <1>2. IInv /\ MicInv /\ TicketsAreHeld => WaitsForOneThatGoesOn
    <2> SUFFICES ASSUME IInv, MicInv, TicketsAreHeld,
                        NEW t \in Takes, stage[t] = "waiting"
                 PROVE  \E u \in Takes :
                            /\ ticket[u] = nextUp /\ nextUp <= ticket[t]
                            /\ GoesOn(u) \/ Stranded(u)
      BY DEF WaitsForOneThatGoesOn
    <2>1. /\ ticket[t] # NoTicket /\ ~Settled(ticket[t])
          /\ ticket[t] < issued
          /\ ticket[t] \in Nat \cup {NoTicket} /\ nextUp \in Nat /\ issued \in Nat
      BY DEF IInv, TypeOK, OrderTypeOK, TicketsFollowStage, TicketsIssued,
             OwesCompletion
    <2>2. nextUp <= ticket[t] /\ nextUp < issued
      BY <2>1 DEF Settled
    <2> QED BY <2>2, NextIsOwed
  <1>3. IInv /\ TicketsAreHeld /\ [Next]_vars => TicketsAreHeld'
    BY StepKeepsHeld
  <1> QED BY <1>1, <1>2, <1>3, Invariance, MicInvariance, PTL DEF Spec

=============================================================================
