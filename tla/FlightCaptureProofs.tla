------------------------ MODULE FlightCaptureProofs -------------------------
(***************************************************************************)
(* What holds of FlightCapture for any takes, ring and bounds.             *)
(***************************************************************************)
EXTENDS FlightCapture, TLAPS

-----------------------------------------------------------------------------
(* Type correctness.                                                       *)

\* The initial state is well typed.
LEMMA TypeInit == Init => TypeOK
  <1> SUFFICES ASSUME Init PROVE TypeOK
    OBVIOUS
  <1>1. buffer \in Seq(Blocks) /\ Len(buffer) <= MaxBuffer
    BY FlightAssumption DEF Init
  <1>2. stage \in [Takes -> Stages]
    BY DEF Init, Stages
  <1>3. /\ via \in [Takes -> {"none", "flight", "pool"}]
        /\ source \in [Takes -> {"hold", "flight"}]
    BY DEF Init
  <1>4. pressAt \in [Takes -> 0..MaxBlocks]
    BY FlightAssumption DEF Init
  <1>5. audio \in [Takes -> Seq(Blocks)]
    BY DEF Init
  <1>6. now \in 0..MaxBlocks /\ starters \in 0..MaxStarters
    BY FlightAssumption DEF Init
  <1>7. QED
    BY <1>1, <1>2, <1>3, <1>4, <1>5, <1>6 DEF Init, TypeOK

\* The empty ring is a ring.
LEMMA EmptyRing ==
  ASSUME NEW frames, frames = <<>>
  PROVE  frames \in Seq(Blocks) /\ Len(frames) <= MaxBuffer
  BY FlightAssumption

\* Buffering a block keeps the ring within its bound, and what it holds is
\* that block and what it held.
LEMMA RingKeeps ==
  ASSUME NEW frames \in Seq(Blocks), Len(frames) <= MaxBuffer, NEW b \in Blocks
  PROVE  /\ Ring(Append(frames, b)) \in Seq(Blocks)
         /\ Len(Ring(Append(frames, b))) <= MaxBuffer
         /\ \A i \in 1..Len(Ring(Append(frames, b))) :
              \/ Ring(Append(frames, b))[i] = b
              \/ \E j \in 1..Len(frames) : Ring(Append(frames, b))[i] = frames[j]
  BY FlightAssumption DEF Ring

\* A tap returns blocks of the ring that ended before its press.
LEMMA ExtractedFromRing ==
  ASSUME TypeOK, NEW t \in Takes, NEW utterance \in Extracted(t)
  PROVE  /\ utterance \in Seq(Blocks)
         /\ \A i \in 1..Len(utterance) :
              /\ utterance[i] <= pressAt[t]
              /\ \E j \in 1..Len(buffer) : utterance[i] = buffer[j]
  <1>1. PICK first \in 1..(Len(buffer) + 1), last \in 0..Len(buffer) :
          /\ \A i \in 1..Len(buffer) : i <= last <=> buffer[i] <= pressAt[t]
          /\ utterance = SubSeq(buffer, first, last)
    BY DEF Extracted
  <1> buffer \in Seq(Blocks)
    BY DEF TypeOK
  <1>2. utterance \in Seq(Blocks)
    BY <1>1
  <1>3. ASSUME NEW i \in 1..Len(utterance)
        PROVE  /\ first + i - 1 \in 1..last
               /\ utterance[i] = buffer[first + i - 1]
    BY <1>1, <1>3
  <1>4. QED
    BY <1>1, <1>2, <1>3

\* One block of sound keeps the types.
LEMMA SpeakType == TypeOK /\ Speak => TypeOK'
  <1> SUFFICES ASSUME TypeOK, Speak PROVE TypeOK'
    OBVIOUS
  <1>1. now + 1 \in Blocks /\ now' \in 0..MaxBlocks
    BY FlightAssumption DEF TypeOK, Speak, Blocks
  <1>2. buffer' \in Seq(Blocks) /\ Len(buffer') <= MaxBuffer
    BY <1>1, RingKeeps DEF TypeOK, Speak
  <1>3. audio' \in [Takes -> Seq(Blocks)]
    BY <1>1 DEF TypeOK, Speak
  <1>4. forward' \in Takes \cup {NoTake}
    BY DEF TypeOK, Speak
  <1>5. QED
    BY <1>1, <1>2, <1>3, <1>4 DEF TypeOK, Speak, menuVars, deviceVars

\* What is on its way to a take has been spoken.
Heard == TypeOK /\ (forward # NoTake => now > 0)

\* Its delivery keeps them too.
LEMMA ForwardType == Heard /\ Forward => TypeOK'
  <1> SUFFICES ASSUME Heard, Forward PROVE TypeOK'
    OBVIOUS
  <1>1. now \in Blocks
    BY FlightAssumption DEF Heard, TypeOK, Forward, Blocks
  <1>2. audio' \in [Takes -> Seq(Blocks)]
    BY <1>1 DEF Heard, TypeOK, Forward
  <1>3. QED
    BY <1>2 DEF Heard, TypeOK, Forward, flightVars, menuVars, deviceVars

\* The end of a capture, which may begin a recovery, keeps the types of all it
\* changes.
LEMMA StopType ==
  ASSUME TypeOK, NEW t \in Takes, NEW to \in Stages, StopCapture(t, to)
  PROVE  /\ stream' \in {"closed", "fresh", "stale"}
         /\ buffer' \in Seq(Blocks) /\ Len(buffer') <= MaxBuffer
         /\ target' \in Takes \cup {NoTake}
         /\ pending' \in BOOLEAN
         /\ initLock' \in Takes \cup {NoTake, RecoveryWorker}
         /\ stage' \in [Takes -> Stages]
  <1>1. stage' \in [Takes -> Stages]
    BY DEF TypeOK, StopCapture, Moves
  <1>2. CASE UNCHANGED flightVars
    BY <1>1, <1>2 DEF TypeOK, flightVars
  <1>3. CASE target' = NoTake /\ BeginRecovery(t)
    <2>1. buffer' \in Seq(Blocks) /\ Len(buffer') <= MaxBuffer
      BY <1>3, EmptyRing DEF BeginRecovery
    <2>2. QED
      BY <1>1, <1>3, <2>1 DEF BeginRecovery
  <1>4. CASE target' = NoTake /\ UNCHANGED <<stream, buffer, pending, initLock>>
    BY <1>1, <1>4 DEF TypeOK
  <1>5. QED
    BY <1>2, <1>3, <1>4 DEF StopCapture

\* A step of the menu, of a device or of the recovery worker keeps the types.
LEMMA ControlType ==
  TypeOK /\ (Menu \/ DeviceChanges \/ Recover) => TypeOK'
  <1> SUFFICES ASSUME TypeOK, Menu \/ DeviceChanges \/ Recover PROVE TypeOK'
    OBVIOUS
  <1> USE DEF flightVars, menuVars, deviceVars, soundVars, takeVars
  <1>1. CASE TogglePause
    BY SMTT(30), <1>1, FlightAssumption DEF TypeOK, TogglePause, StartAsync
  <1>2. CASE ToggleFlight
    BY SMTT(30), <1>2, FlightAssumption DEF TypeOK, ToggleFlight, StartAsync
  <1>3. CASE Disable
    <2>1. buffer' \in Seq(Blocks) /\ Len(buffer') <= MaxBuffer
      BY <1>3, EmptyRing DEF Disable
    <2>2. QED
      BY <1>3, <2>1 DEF TypeOK, Disable
  <1>4. CASE StartFlight
    <2>1. buffer' \in Seq(Blocks) /\ Len(buffer') <= MaxBuffer
      BY <1>4, EmptyRing DEF TypeOK, StartFlight
    <2>2. starters' \in 0..MaxStarters
      BY <1>4, FlightAssumption DEF TypeOK, StartFlight
    <2>3. stream' \in {"closed", "fresh", "stale"} /\ pref' \in BOOLEAN
      BY <1>4 DEF TypeOK, StartFlight
    <2>4. QED
      BY <1>4, <2>1, <2>2, <2>3 DEF TypeOK, StartFlight
  <1>5. CASE DeviceChanges
    BY <1>5 DEF TypeOK, DeviceChanges
  <1>6. CASE TakeNotification
    BY ZenonT(60), <1>6 DEF TypeOK, TakeNotification
  <1>7. CASE Invalidate
    <2>1. buffer' \in Seq(Blocks) /\ Len(buffer') <= MaxBuffer
      BY <1>7, EmptyRing DEF TypeOK, Invalidate, BeginRecovery
    <2>2. QED
      BY <1>7, <2>1 DEF TypeOK, Invalidate, BeginRecovery
  <1>8. CASE EndRecovery
    BY <1>8 DEF TypeOK, EndRecovery
  <1>9. QED
    BY <1>1, <1>2, <1>3, <1>4, <1>5, <1>6, <1>7, <1>8 DEF Menu, Recover

\* So does a step of a take.
LEMMA TakeType ==
  ASSUME TypeOK, NEW t \in Takes, TakeStep(t)
  PROVE  TypeOK'
  <1> USE DEF flightVars, menuVars, deviceVars, soundVars
  <1>1. CASE Press(t)
    BY SMTT(30), <1>1 DEF TypeOK, Press, Moves, Stages
  <1>2. CASE Start(t)
    <2>1. stage' \in [Takes -> Stages]
      BY ZenonT(60), <1>2 DEF TypeOK, Start, Moves, Stages
    <2>2. via' \in [Takes -> {"none", "flight", "pool"}]
      BY <1>2 DEF TypeOK, Start
    <2>3. target' \in Takes \cup {NoTake}
      BY <1>2 DEF TypeOK, Start
    <2>4. QED
      BY SMTT(30), <1>2, <2>1, <2>2, <2>3 DEF TypeOK, Start
  <1>3. CASE ReleaseHold(t)
    BY <1>3 DEF TypeOK, ReleaseHold, Moves, Stages
  <1>4. CASE CaptureTap(t)
    <2>1. audio' \in [Takes -> Seq(Blocks)]
      BY <1>4, ExtractedFromRing DEF TypeOK, CaptureTap
    <2>2. source' \in [Takes -> {"hold", "flight"}]
      BY <1>4 DEF TypeOK, CaptureTap
    <2>3. "closing" \in Stages /\ StopCapture(t, "closing")
      BY <1>4 DEF CaptureTap, Stages
    <2>4. QED
      BY <1>4, <2>1, <2>2, <2>3, StopType DEF TypeOK, CaptureTap
  <1>5. CASE StopHold(t)
    <2>1. "closing" \in Stages /\ StopCapture(t, "closing")
      BY <1>5 DEF StopHold, Stages
    <2>2. QED
      BY <1>5, <2>1, StopType DEF TypeOK, StopHold
  <1>6. CASE AbandonTake(t)
    <2>1. audio' \in [Takes -> Seq(Blocks)]
      BY <1>6 DEF TypeOK, AbandonTake
    <2>2. "abandoning" \in Stages /\ StopCapture(t, "abandoning")
      BY <1>6 DEF AbandonTake, Stages
    <2>3. QED
      BY <1>6, <2>1, <2>2, StopType DEF TypeOK, AbandonTake
  <1>7. CASE CloseTake(t)
    <2>1. buffer' \in Seq(Blocks) /\ Len(buffer') <= MaxBuffer
      BY <1>7, FlightAssumption DEF TypeOK, CloseTake, ClearUsed
    <2>2. stage' \in [Takes -> Stages]
      BY <1>7 DEF TypeOK, CloseTake, Moves, Stages
    <2>3. pressAt' \in [Takes -> 0..MaxBlocks]
      BY <1>7, FlightAssumption DEF TypeOK, CloseTake
    <2>4. QED
      BY <1>7, <2>1, <2>2, <2>3 DEF TypeOK, CloseTake
  <1>8. QED
    BY <1>1, <1>2, <1>3, <1>4, <1>5, <1>6, <1>7 DEF TakeStep

\* Every step keeps the types, and what is forwarded has been spoken.
LEMMA HeardNext == Heard /\ [Next]_vars => Heard'
  <1> SUFFICES ASSUME Heard, [Next]_vars PROVE Heard'
    OBVIOUS
  <1>1. CASE Speak
    BY <1>1, SpeakType DEF Heard, TypeOK, Speak
  <1>2. CASE Forward
    BY <1>2, ForwardType DEF Heard, Forward
  <1>3. CASE Menu \/ DeviceChanges \/ Recover
    <2>1. UNCHANGED soundVars
      BY <1>3 DEF Menu, Recover, TogglePause, ToggleFlight, Disable,
         StartFlight, DeviceChanges, TakeNotification, Invalidate, EndRecovery
    <2>2. QED
      BY <1>3, <2>1, ControlType DEF Heard, soundVars
  <1>4. CASE \E t \in Takes : TakeStep(t)
    <2>1. UNCHANGED soundVars
      BY <1>4 DEF TakeStep, Press, Start, ReleaseHold, CaptureTap, StopHold,
         AbandonTake, CloseTake
    <2>2. QED
      BY <1>4, <2>1, TakeType DEF Heard, soundVars
  <1>5. CASE UNCHANGED vars
    BY <1>5 DEF Heard, TypeOK, vars
  <1>6. QED
    BY <1>1, <1>2, <1>3, <1>4, <1>5 DEF Next

\* The state of Flight, menu, recovery and takes is well typed.
LEMMA HeardInvariance == Spec => []Heard
  <1>1. Init => Heard
    BY TypeInit DEF Init, Heard
  <1>2. QED
    BY <1>1, HeardNext, PTL DEF Spec

\* Type correctness of Flight Recorder and its users (FlightRecorder,
\* Recorder), for any takes and bounds: in particular the ring never exceeds
\* max_samples.
THEOREM FlightTypeCorrect == Spec => []TypeOK
  BY HeardInvariance, PTL DEF Heard

-----------------------------------------------------------------------------
(* The stream of a device that is gone.                                    *)

\* While a stream is being replaced nobody rides it, and who rides it says so.
Owed ==
    /\ StaleStreamIsOwed
    /\ ~LockFree => stream = "closed" /\ target = NoTake
    /\ target # NoTake => via[target] = "flight"

\* The end of a capture leaves no debt behind.
LEMMA StopOwed ==
  ASSUME TypeOK, Owed, NEW t \in Takes, NEW to \in Stages, StopCapture(t, to),
         UNCHANGED <<deviceVars, via>>
  PROVE  Owed'
  <1> USE DEF TypeOK, Owed, StaleStreamIsOwed, LockFree, deviceVars
  <1>1. target # t => UNCHANGED flightVars
    BY DEF StopCapture
  <1>2. target = t => via[t] = "flight"
    BY FlightAssumption
  <1>3. CASE target # t
    <2>1. target # NoTake => stage'[target] = stage[target]
      BY <1>3 DEF StopCapture, Moves
    <2>2. QED
      BY <1>1, <1>3, <2>1 DEF flightVars
  <1>4. CASE target = t
    BY <1>2, <1>4, FlightAssumption DEF StopCapture, BeginRecovery
  <1>5. QED
    BY <1>3, <1>4

\* Every step keeps track of who owes a recovery.
LEMMA OwedNext == TypeOK /\ Owed /\ [Next]_vars => Owed'
  <1> SUFFICES ASSUME TypeOK, Owed, [Next]_vars PROVE Owed'
    OBVIOUS
  <1> USE DEF flightVars, menuVars, deviceVars, soundVars, takeVars
  <1>1. CASE Speak
    BY <1>1 DEF TypeOK, Owed, StaleStreamIsOwed, LockFree, Speak
  <1>2. CASE Forward
    BY <1>2 DEF TypeOK, Owed, StaleStreamIsOwed, LockFree, Forward
  <1>3. CASE TogglePause \/ ToggleFlight
    BY <1>3 DEF TypeOK, Owed, StaleStreamIsOwed, LockFree, TogglePause, ToggleFlight
  <1>4. CASE Disable
    BY <1>4 DEF TypeOK, Owed, StaleStreamIsOwed, LockFree, Disable
  <1>5. CASE StartFlight
    BY <1>5 DEF TypeOK, Owed, StaleStreamIsOwed, LockFree, StartFlight
  <1>6. CASE DeviceChanges
    BY <1>6 DEF TypeOK, Owed, StaleStreamIsOwed, LockFree, DeviceChanges
  <1>7. CASE TakeNotification
    BY <1>7 DEF TypeOK, Owed, StaleStreamIsOwed, LockFree, TakeNotification
  <1>8. CASE Invalidate
    BY <1>8, FlightAssumption
       DEF TypeOK, Owed, StaleStreamIsOwed, LockFree, Invalidate, BeginRecovery
  <1>9. CASE EndRecovery
    BY <1>9 DEF TypeOK, Owed, StaleStreamIsOwed, LockFree, EndRecovery
  <1>10. ASSUME NEW t \in Takes, TakeStep(t) PROVE Owed'
    <2>1. CASE Press(t) \/ ReleaseHold(t)
      BY <2>1 DEF TypeOK, Owed, StaleStreamIsOwed, LockFree, Press, ReleaseHold, Moves
    <2>2. CASE Start(t)
      BY <2>2, FlightAssumption
         DEF TypeOK, Owed, StaleStreamIsOwed, LockFree, Start, Moves
    <2>3. CASE CaptureTap(t) \/ StopHold(t) \/ AbandonTake(t)
      <3>1. UNCHANGED <<deviceVars, via>>
        BY <2>3 DEF CaptureTap, StopHold, AbandonTake
      <3>2. \E to \in Stages : StopCapture(t, to)
        BY <2>3 DEF CaptureTap, StopHold, AbandonTake, Stages
      <3>3. QED
        BY <3>1, <3>2, StopOwed
    <2>4. CASE CloseTake(t)
      <3>1. target # t
        BY <2>4, FlightAssumption DEF TypeOK, Owed, StaleStreamIsOwed, CloseTake
      <3>2. target # NoTake => UNCHANGED <<stage[target], via[target]>>
        BY <2>4, <3>1 DEF TypeOK, CloseTake, Moves
      <3>3. QED
        BY <2>4, <3>2 DEF TypeOK, Owed, StaleStreamIsOwed, LockFree, CloseTake
    <2>5. QED
      BY <1>10, <2>1, <2>2, <2>3, <2>4 DEF TakeStep
  <1>11. CASE UNCHANGED vars
    BY <1>11 DEF TypeOK, Owed, StaleStreamIsOwed, LockFree, vars
  <1>12. QED
    BY <1>1, <1>2, <1>3, <1>4, <1>5, <1>6, <1>7, <1>8, <1>9, <1>10, <1>11
       DEF Next, Menu, Recover

\* Who owes a recovery is always known.
LEMMA OwedInvariance == Spec => [](Heard /\ Owed)
  <1>1. Init => Owed
    BY DEF Init, Owed, StaleStreamIsOwed, LockFree
  <1>2. Heard /\ Owed /\ [Next]_vars => Owed'
    BY OwedNext DEF Heard
  <1>3. QED
    BY <1>1, <1>2, HeardInvariance, PTL DEF Spec

\* A device change is never lost (FlightRecorder.invalidate, attach, detach
\* and disable, the recovery worker), for any number of takes.
THEOREM StaleStreamOwed == Spec => []StaleStreamIsOwed
  BY OwedInvariance, PTL DEF Owed

-----------------------------------------------------------------------------
(* What a take records.                                                    *)

\* A take starts with nothing, on a press that has been, and the block on its
\* way to a take is later than its press.
PressInv ==
    /\ \A t \in Takes : stage[t] \in {"unused", "pressed"} =>
            audio[t] = <<>> /\ via[t] = "none" /\ forward # t
    /\ \A t \in Takes : stage[t] \in {"unused", "pressed", "held", "tail"} =>
            source[t] = "hold"
    /\ \A t \in Takes : pressAt[t] <= now
    /\ \A t \in Takes : forward = t /\ Recording(t) => pressAt[t] < now
    /\ TakesRespectThePress

\* Sound respects the presses.
LEMMA PressSpeak == TypeOK /\ Owed /\ PressInv /\ Speak => PressInv'
  <1> SUFFICES ASSUME TypeOK, Owed, PressInv, Speak PROVE PressInv'
    OBVIOUS
  <1> USE DEF TypeOK, Speak, Recording
  <1>1. UNCHANGED <<stage, via, source, pressAt>> /\ now' = now + 1
    OBVIOUS
  <1>2. forward' \in {NoTake, target}
    OBVIOUS
  <1>3. ASSUME NEW t \in Takes, stage[t] \in {"unused", "pressed"}
        PROVE  audio'[t] = <<>> /\ via[t] = "none" /\ forward' # t
    BY <1>2, <1>3, FlightAssumption DEF PressInv, Owed, StaleStreamIsOwed
  <1>4. ASSUME NEW t \in Takes, stage[t] \in {"held", "tail", "closing"},
               NEW i \in 1..Len(audio'[t])
        PROVE  IF source[t] = "hold" THEN audio'[t][i] > pressAt[t]
               ELSE audio'[t][i] <= pressAt[t]
    <2>1. CASE audio'[t] = audio[t]
      BY <1>4, <2>1 DEF PressInv, TakesRespectThePress
    <2>2. CASE audio'[t] = Append(audio[t], now + 1) /\ Recording(t)
      <3>1. source[t] = "hold" /\ pressAt[t] < now + 1
        BY <1>4, <2>2 DEF PressInv
      <3>2. \/ i \in 1..Len(audio[t]) /\ audio'[t][i] = audio[t][i]
            \/ audio'[t][i] = now + 1
        BY <1>4, <2>2
      <3>3. QED
        BY <1>4, <3>1, <3>2 DEF PressInv, TakesRespectThePress
    <2>3. QED
      BY <2>1, <2>2
  <1>5. QED
    BY <1>1, <1>3, <1>4 DEF PressInv, TakesRespectThePress

\* So does its delivery.
LEMMA PressForward == TypeOK /\ PressInv /\ Forward => PressInv'
  <1> SUFFICES ASSUME TypeOK, PressInv, Forward PROVE PressInv'
    OBVIOUS
  <1> USE DEF TypeOK, Forward, Recording
  <1>1. UNCHANGED <<stage, via, source, pressAt, now>> /\ forward' = NoTake
    OBVIOUS
  <1>2. ASSUME NEW t \in Takes, stage[t] \in {"unused", "pressed"}
        PROVE  audio'[t] = <<>>
    BY <1>2 DEF PressInv
  <1>3. ASSUME NEW t \in Takes, stage[t] \in {"held", "tail", "closing"},
               NEW i \in 1..Len(audio'[t])
        PROVE  IF source[t] = "hold" THEN audio'[t][i] > pressAt[t]
               ELSE audio'[t][i] <= pressAt[t]
    <2>1. CASE audio'[t] = audio[t]
      BY <1>3, <2>1 DEF PressInv, TakesRespectThePress
    <2>2. CASE audio'[t] = Append(audio[t], now) /\ Recording(t) /\ forward = t
      <3>1. source[t] = "hold" /\ pressAt[t] < now
        BY <1>3, <2>2 DEF PressInv
      <3>2. \/ i \in 1..Len(audio[t]) /\ audio'[t][i] = audio[t][i]
            \/ audio'[t][i] = now
        BY <1>3, <2>2
      <3>3. QED
        BY <1>3, <3>1, <3>2 DEF PressInv, TakesRespectThePress
    <2>3. QED
      BY <2>1, <2>2
  <1>4. QED
    BY SMTT(30), <1>1, <1>2, <1>3, FlightAssumption
       DEF PressInv, TakesRespectThePress

\* So do the steps of a take.
LEMMA PressTake ==
  ASSUME TypeOK, PressInv, NEW t \in Takes, TakeStep(t)
  PROVE  PressInv'
  <1> USE DEF TypeOK, Recording, soundVars, Moves
  <1>1. CASE Press(t) \/ Start(t) \/ ReleaseHold(t)
    <2>1. UNCHANGED <<source, audio, now, forward>>
      BY <1>1 DEF Press, Start, ReleaseHold
    <2>2. \A u \in Takes \ {t} : UNCHANGED <<stage[u], via[u], pressAt[u]>>
      BY <1>1 DEF Press, Start, ReleaseHold
    <2>3. CASE Press(t)
      BY <2>1, <2>2, <2>3 DEF PressInv, TakesRespectThePress, Press
    <2>4. CASE Start(t)
      BY SMTT(30), <2>1, <2>2, <2>4 DEF PressInv, TakesRespectThePress, Start
    <2>5. CASE ReleaseHold(t)
      BY <2>1, <2>2, <2>5 DEF PressInv, TakesRespectThePress, ReleaseHold
    <2>6. QED
      BY <1>1, <2>3, <2>4, <2>5
  <1>2. CASE CaptureTap(t)
    <2>1. UNCHANGED <<via, pressAt, now, forward>>
      BY <1>2 DEF CaptureTap
    <2>2. stage' = [stage EXCEPT ![t] = "closing"]
      BY <1>2 DEF CaptureTap, StopCapture
    <2>3. \A u \in Takes \ {t} : UNCHANGED <<source[u], audio[u]>>
      BY <1>2 DEF CaptureTap
    <2>4. /\ source'[t] = "flight"
          /\ \A i \in 1..Len(audio'[t]) : audio'[t][i] <= pressAt[t]
      BY <1>2, ExtractedFromRing DEF CaptureTap
    <2>5. QED
      BY ZenonT(60), <2>1, <2>2, <2>3, <2>4 DEF PressInv, TakesRespectThePress
  <1>3. CASE StopHold(t) \/ AbandonTake(t) \/ CloseTake(t)
    <2>1. UNCHANGED <<source, now, forward>>
      BY <1>3 DEF StopHold, AbandonTake, CloseTake
    <2>2. \A u \in Takes \ {t} : UNCHANGED <<stage[u], via[u], pressAt[u], audio[u]>>
      BY <1>3 DEF StopHold, AbandonTake, CloseTake, StopCapture
    <2>3. /\ stage'[t] \in {"closing", "abandoning", "used", "dropped"}
          /\ stage'[t] = "closing" =>
                stage[t] = "tail" /\ UNCHANGED <<audio[t], pressAt[t]>>
      BY <1>3 DEF StopHold, AbandonTake, CloseTake, StopCapture
    <2>4. pressAt'[t] <= now
      BY <1>3 DEF PressInv, StopHold, AbandonTake, CloseTake
    <2>5. QED
      BY ZenonT(60), <2>1, <2>2, <2>3, <2>4 DEF PressInv, TakesRespectThePress
  <1>4. QED
    BY <1>1, <1>2, <1>3 DEF TakeStep

\* What neither speaks nor moves a take leaves the recordings alone.
LEMMA ControlIsSilent ==
  ASSUME Menu \/ DeviceChanges \/ Recover
  PROVE  UNCHANGED <<soundVars, takeVars>>
  BY DEF Menu, Recover, TogglePause, ToggleFlight, Disable, StartFlight,
     DeviceChanges, TakeNotification, Invalidate, EndRecovery

\* No step mixes up what was before and what after a press.
LEMMA PressNext == TypeOK /\ Owed /\ PressInv /\ [Next]_vars => PressInv'
  <1> SUFFICES ASSUME TypeOK, Owed, PressInv, [Next]_vars PROVE PressInv'
    OBVIOUS
  <1>1. CASE (Menu \/ DeviceChanges \/ Recover) \/ UNCHANGED vars
    <2>1. UNCHANGED <<soundVars, takeVars>>
      BY <1>1, ControlIsSilent DEF vars, soundVars, takeVars
    <2>2. QED
      BY <2>1 DEF PressInv, TakesRespectThePress, Recording, soundVars, takeVars
  <1>2. QED
    BY <1>1, PressSpeak, PressForward, PressTake DEF Next

\* Everything known about types, streams and presses.
LEMMA PressInvariance == Spec => [](Heard /\ Owed /\ PressInv)
  <1>1. Init => PressInv
    BY FlightAssumption DEF Init, PressInv, TakesRespectThePress, Recording
  <1>2. Heard /\ Owed /\ PressInv /\ [Next]_vars => PressInv'
    BY PressNext DEF Heard
  <1>3. QED
    BY <1>1, <1>2, OwedInvariance, PTL DEF Spec

\* A hold records nothing from before its press and a tap returns nothing
\* from after it (Recorder._callback, FlightRecorder.extract_before).
THEOREM PressIsRespected == Spec => []TakesRespectThePress
  BY PressInvariance, PTL DEF PressInv

-----------------------------------------------------------------------------
(* Holds without holes.                                                    *)

Consecutive(s) == \A i \in 1..(Len(s) - 1) : s[i + 1] = s[i] + 1

EndsAt(s, b) == s # <<>> => s[Len(s)] = b

\* A recording take has heard every block, but for the one on its way.
HoldInv ==
    /\ \A t \in Takes : source[t] = "hold" => Consecutive(audio[t])
    /\ \A t \in Takes : via[t] = "pool" /\ Recording(t) => EndsAt(audio[t], now)
    /\ \A t \in Takes : target = t /\ forward # t => EndsAt(audio[t], now)
    /\ \A t \in Takes : forward = t /\ Recording(t) =>
            via[t] = "flight" /\ EndsAt(audio[t], now - 1)

\* Appending the next block leaves no hole.
LEMMA AppendNext ==
  ASSUME NEW s \in Seq(Blocks), NEW b \in Blocks, Consecutive(s), EndsAt(s, b - 1)
  PROVE  Consecutive(Append(s, b)) /\ EndsAt(Append(s, b), b)
  <1>1. b \in Int /\ \A i \in 1..Len(s) : s[i] \in Int
    BY FlightAssumption DEF Blocks
  <1>2. Append(s, b)[Len(Append(s, b))] = b
    OBVIOUS
  <1>3. ASSUME NEW i \in 1..(Len(Append(s, b)) - 1)
        PROVE  Append(s, b)[i + 1] = Append(s, b)[i] + 1
    <2>1. CASE i = Len(s)
      BY <1>1, <2>1 DEF EndsAt
    <2>2. CASE i \in 1..(Len(s) - 1)
      BY <1>1, <2>2 DEF Consecutive
    <2>3. QED
      BY <1>1, <1>3, <2>1, <2>2
  <1>4. QED
    BY <1>2, <1>3 DEF Consecutive, EndsAt

\* Every stream hears the next block.
LEMMA HoldSpeak == TypeOK /\ Owed /\ PressInv /\ HoldInv /\ Speak => HoldInv'
  <1> SUFFICES ASSUME TypeOK, Owed, PressInv, HoldInv, Speak PROVE HoldInv'
    OBVIOUS
  <1>1. /\ UNCHANGED <<stage, via, source, target>>
        /\ now \in Nat /\ now' = now + 1 /\ now + 1 \in Blocks
        /\ forward = NoTake
    BY FlightAssumption DEF TypeOK, Speak, Blocks
  <1>2. target # NoTake => forward' = target
    BY DEF Speak, Owed, StaleStreamIsOwed
  <1>3. target = NoTake => forward' = NoTake
    BY DEF TypeOK, Speak
  <1>4. ASSUME NEW t \in Takes, ~(via[t] = "pool" /\ Recording(t))
        PROVE  audio'[t] = audio[t]
    BY <1>4 DEF TypeOK, Speak
  <1>5. ASSUME NEW t \in Takes, via[t] = "pool", Recording(t)
        PROVE  /\ audio'[t] = Append(audio[t], now + 1)
               /\ Consecutive(audio'[t]) /\ EndsAt(audio'[t], now + 1)
    <2>1. audio'[t] = Append(audio[t], now + 1)
      BY <1>5 DEF TypeOK, Speak
    <2>2. Consecutive(audio[t]) /\ EndsAt(audio[t], (now + 1) - 1)
      BY <1>1, <1>5 DEF HoldInv, PressInv, Recording
    <2>3. audio[t] \in Seq(Blocks)
      BY DEF TypeOK
    <2>4. QED
      BY <1>1, <2>1, <2>2, <2>3, AppendNext
  <1>6. ASSUME NEW t \in Takes, forward' = t
        PROVE  /\ via[t] = "flight" /\ audio'[t] = audio[t]
               /\ EndsAt(audio[t], now)
    <2>1. target = t
      BY <1>2, <1>3, <1>6, FlightAssumption DEF TypeOK
    <2>2. via[t] = "flight"
      BY <2>1, FlightAssumption DEF Owed
    <2>3. QED
      BY <1>1, <1>4, <2>1, <2>2, FlightAssumption DEF HoldInv
  <1>7. \A t \in Takes : source[t] = "hold" => Consecutive(audio'[t])
    BY <1>4, <1>5 DEF HoldInv
  <1>8. \A t \in Takes : target = t => forward' = t
    BY <1>2, FlightAssumption
  <1>9. QED
    BY <1>1, <1>5, <1>6, <1>7, <1>8 DEF HoldInv, Recording

\* The block on its way is the next one of its take.
LEMMA HoldForward == Heard /\ Owed /\ PressInv /\ HoldInv /\ Forward => HoldInv'
  <1> SUFFICES ASSUME Heard, TypeOK, Owed, PressInv, HoldInv, Forward PROVE HoldInv'
    BY DEF Heard
  <1>1. /\ UNCHANGED <<stage, via, source, target, now>>
        /\ now \in Blocks /\ forward \in Takes
        /\ forward' = NoTake
    BY FlightAssumption DEF Heard, TypeOK, Forward, flightVars, Blocks
  <1>2. \A t \in Takes \ {forward} : audio'[t] = audio[t]
    BY <1>1 DEF TypeOK, Forward
  <1>3. CASE Recording(forward)
    <2>1. audio'[forward] = Append(audio[forward], now)
      BY <1>1, <1>3 DEF TypeOK, Forward
    <2>2. /\ via[forward] = "flight"
          /\ Consecutive(audio[forward]) /\ EndsAt(audio[forward], now - 1)
      BY <1>1, <1>3 DEF HoldInv, PressInv, Recording
    <2>3. Consecutive(audio'[forward]) /\ EndsAt(audio'[forward], now)
      BY <1>1, <2>1, <2>2, AppendNext DEF TypeOK
    <2>4. QED
      BY <1>1, <1>2, <2>2, <2>3, FlightAssumption DEF HoldInv, Recording
  <1>4. CASE ~Recording(forward)
    <2>1. audio'[forward] = audio[forward]
      BY <1>1, <1>4 DEF TypeOK, Forward
    <2>2. target # forward
      BY <1>1, <1>4, FlightAssumption DEF Owed, StaleStreamIsOwed, Recording
    <2>3. QED
      BY <1>1, <1>2, <1>4, <2>1, <2>2, FlightAssumption DEF HoldInv, Recording
  <1>5. QED
    BY <1>3, <1>4

\* The steps of a take keep its sound whole.
LEMMA HoldTake ==
  ASSUME TypeOK, Owed, PressInv, HoldInv, NEW t \in Takes, TakeStep(t)
  PROVE  HoldInv'
  <1> USE DEF TypeOK, Recording, flightVars, soundVars, Moves
  <1>1. CASE Press(t)
    BY <1>1 DEF HoldInv, PressInv, Press
  <1>2. CASE Start(t)
    <2>1. audio[t] = <<>> /\ forward # t
      BY <1>2 DEF PressInv, Start
    <2>2. UNCHANGED <<source, audio, now, forward>>
      BY <1>2 DEF Start
    <2>3. \A u \in Takes \ {t} : UNCHANGED <<stage[u], via[u]>>
      BY <1>2 DEF Start
    <2>4. target' = target \/ target' = t
      BY <1>2 DEF Start
    <2>5. EndsAt(audio[t], now)
      BY <2>1 DEF EndsAt
    <2>6. QED
      BY <2>1, <2>2, <2>3, <2>4, <2>5 DEF HoldInv
  <1>3. CASE ReleaseHold(t)
    BY <1>3 DEF HoldInv, ReleaseHold
  <1>4. CASE CaptureTap(t) \/ StopHold(t) \/ AbandonTake(t) \/ CloseTake(t)
    <2>1. UNCHANGED <<now, forward>> /\ target' \in {target, NoTake}
      BY <1>4 DEF CaptureTap, StopHold, AbandonTake, CloseTake, StopCapture
    <2>2. \A u \in Takes \ {t} : UNCHANGED <<stage[u], via[u], source[u], audio[u]>>
      BY <1>4 DEF CaptureTap, StopHold, AbandonTake, CloseTake, StopCapture
    <2>3. ~Recording(t)'
      BY <1>4 DEF CaptureTap, StopHold, AbandonTake, CloseTake, StopCapture
    <2>4. source'[t] = "hold" => Consecutive(audio'[t])
      <3>1. CASE CaptureTap(t)
        BY <3>1 DEF CaptureTap
      <3>2. CASE StopHold(t) \/ CloseTake(t)
        BY <3>2 DEF StopHold, CloseTake, HoldInv
      <3>3. CASE AbandonTake(t)
        BY <3>3 DEF AbandonTake, Consecutive
      <3>4. QED
        BY <1>4, <3>1, <3>2, <3>3
    <2>5. target' # t
      BY <1>4, FlightAssumption
         DEF CaptureTap, StopHold, AbandonTake, CloseTake, StopCapture, Owed,
             StaleStreamIsOwed
    <2>6. \A u \in Takes : source'[u] = "hold" => Consecutive(audio'[u])
      BY <2>2, <2>4 DEF HoldInv
    <2>7. \A u \in Takes : via'[u] = "pool" /\ Recording(u)' => EndsAt(audio'[u], now)
      BY <2>2, <2>3 DEF HoldInv
    <2>8. \A u \in Takes : target' = u /\ forward # u => EndsAt(audio'[u], now)
      BY SMTT(30), <2>1, <2>2, <2>5, FlightAssumption DEF HoldInv
    <2>9. \A u \in Takes : forward = u /\ Recording(u)' =>
            via'[u] = "flight" /\ EndsAt(audio'[u], now - 1)
      BY <2>2, <2>3 DEF HoldInv
    <2>10. QED
      BY <2>1, <2>6, <2>7, <2>8, <2>9 DEF HoldInv
  <1>5. QED
    BY <1>1, <1>2, <1>3, <1>4 DEF TakeStep

\* A step of the menu or of a recovery takes nobody's place.
LEMMA HoldControl ==
  ASSUME TypeOK, HoldInv, Menu \/ DeviceChanges \/ Recover
  PROVE  HoldInv'
  <1>1. UNCHANGED <<soundVars, takeVars>>
    BY ControlIsSilent
  <1>2. target' \in {target, NoTake}
    BY DEF Menu, Recover, TogglePause, ToggleFlight, Disable, StartFlight,
       DeviceChanges, TakeNotification, Invalidate, EndRecovery, flightVars
  <1>3. QED
    BY <1>1, <1>2, FlightAssumption DEF HoldInv, Recording, soundVars, takeVars

\* No step cuts a hole into a hold.
LEMMA HoldNext ==
  Heard /\ Owed /\ PressInv /\ HoldInv /\ [Next]_vars => HoldInv'
  <1> SUFFICES ASSUME Heard, TypeOK, Owed, PressInv, HoldInv, [Next]_vars
               PROVE  HoldInv'
    BY DEF Heard
  <1>1. CASE UNCHANGED vars
    BY <1>1 DEF HoldInv, Recording, vars
  <1>2. QED
    BY <1>1, HoldSpeak, HoldForward, HoldControl, HoldTake DEF Next

\* What a hold records is one unbroken run of speech (FlightRecorder._callback,
\* invalidate, detach; Recorder._callback), whatever devices change under it.
THEOREM HoldsAreWhole == Spec => []HoldIsContiguous
  <1>1. Init => HoldInv
    BY FlightAssumption
       DEF Init, HoldInv, Consecutive, EndsAt, Recording
  <1>2. Heard /\ Owed /\ PressInv /\ HoldInv /\ [Next]_vars => HoldInv'
    BY HoldNext
  <1>3. Heard /\ HoldInv => HoldIsContiguous
    <2> SUFFICES ASSUME TypeOK, HoldInv, NEW t \in Takes, source[t] = "hold"
                 PROVE  /\ Consecutive(audio[t])
                        /\ target = t /\ forward = NoTake /\ audio[t] # <<>>
                             => Last(audio[t]) = now
      BY DEF Heard, HoldIsContiguous, Consecutive
    <2>1. QED
      BY FlightAssumption DEF TypeOK, HoldInv, EndsAt, Last
  <1>4. QED
    BY <1>1, <1>2, <1>3, PressInvariance, PTL DEF Spec

-----------------------------------------------------------------------------
(* No speech twice.                                                        *)

Busy(t) ==
    \/ stage[t] \in {"pressed", "held", "abandoning"}
    \/ source[t] = "flight" /\ stage[t] = "closing"

\* The worker drives one take.
OneBusy == \A t, u \in Takes : Busy(t) /\ Busy(u) => t = u

RingHeard == \A i \in 1..Len(buffer) : buffer[i] <= now

TapStages ==
    \A t \in Takes : source[t] = "flight" =>
        /\ stage[t] \in {"closing", "used", "dropped"}
        /\ stage[t] = "closing" => via[t] = "flight"

TapsHeard ==
    \A t \in Takes : source[t] = "flight" =>
        \A j \in 1..Len(audio[t]) : audio[t][j] <= now

\* What a closed tap returned is older than all that is in the ring.
TapsBeforeRing ==
    \A t \in Takes : source[t] = "flight" /\ stage[t] # "closing" =>
        \A j \in 1..Len(audio[t]), i \in 1..Len(buffer) : audio[t][j] < buffer[i]

TapsDiffer ==
    \A t, u \in Takes : t # u /\ source[t] = "flight" /\ source[u] = "flight" =>
        \A i \in 1..Len(audio[t]), j \in 1..Len(audio[u]) :
            audio[t][i] # audio[u][j]

TapInv ==
    OneBusy /\ RingHeard /\ TapStages /\ TapsHeard /\ TapsBeforeRing /\ TapsDiffer

\* Blocks are numbers.
LEMMA BlocksAreNumbers ==
  ASSUME TypeOK
  PROVE  /\ now \in Int
         /\ \A i \in 1..Len(buffer) : buffer[i] \in Int
         /\ \A t \in Takes : \A j \in 1..Len(audio[t]) : audio[t][j] \in Int
  BY SMTT(30), FlightAssumption DEF TypeOK, Blocks

\* A new block is later than any tap.
LEMMA TapSpeak == TypeOK /\ TapInv /\ Speak => TapInv'
  <1> SUFFICES ASSUME TypeOK, TapInv, Speak PROVE TapInv'
    OBVIOUS
  <1>1. /\ UNCHANGED <<stage, via, source>>
        /\ now \in Nat /\ now' = now + 1 /\ now + 1 \in Blocks
    BY FlightAssumption DEF TypeOK, Speak, Blocks
  <1>2. \A t \in Takes : source[t] = "flight" => audio'[t] = audio[t]
    BY DEF TypeOK, TapInv, TapStages, Speak, Recording
  <1>3. \A i \in 1..Len(buffer') :
            buffer'[i] = now + 1 \/ \E j \in 1..Len(buffer) : buffer'[i] = buffer[j]
    <2>1. CASE buffer' = buffer
      BY <2>1
    <2>2. CASE buffer' = Ring(Append(buffer, now + 1))
      BY <1>1, <2>2, RingKeeps DEF TypeOK
    <2>3. QED
      BY <2>1, <2>2 DEF Speak
  <1>4. RingHeard'
    BY <1>1, <1>3, BlocksAreNumbers DEF TapInv, RingHeard
  <1>5. TapsHeard'
    BY <1>1, <1>2, BlocksAreNumbers DEF TapInv, TapsHeard
  <1>6. TapsBeforeRing'
    BY <1>1, <1>2, <1>3, BlocksAreNumbers DEF TapInv, TapsHeard, TapsBeforeRing
  <1>7. OneBusy' /\ TapStages'
    BY <1>1 DEF TapInv, OneBusy, TapStages, Busy
  <1>8. TapsDiffer'
    BY <1>1, <1>2 DEF TapInv, TapsDiffer
  <1>9. QED
    BY <1>4, <1>5, <1>6, <1>7, <1>8 DEF TapInv

\* What leaves the takes alone and at most empties the ring.
LEMMA TapQuiet ==
  ASSUME TypeOK, TapInv, UNCHANGED <<now, stage, via, source>>,
         buffer' \in {buffer, <<>>},
         \A t \in Takes : source[t] = "flight" => audio'[t] = audio[t]
  PROVE  TapInv'
  <1>1. \A i \in 1..Len(buffer') : i \in 1..Len(buffer) /\ buffer'[i] = buffer[i]
    OBVIOUS
  <1>2. RingHeard'
    BY <1>1 DEF TapInv, RingHeard
  <1>3. TapsHeard' /\ TapsDiffer'
    BY DEF TapInv, TapsHeard, TapsDiffer
  <1>4. TapsBeforeRing'
    BY <1>1 DEF TapInv, TapsBeforeRing
  <1>5. OneBusy' /\ TapStages'
    BY DEF TapInv, OneBusy, TapStages, Busy
  <1>6. QED
    BY <1>2, <1>3, <1>4, <1>5 DEF TapInv

\* Neither delivery nor control writes into the ring or a tap.
LEMMA TapOthers ==
  TypeOK /\ TapInv /\ (Forward \/ Menu \/ DeviceChanges \/ Recover) => TapInv'
  <1> SUFFICES ASSUME TypeOK, TapInv, Forward \/ Menu \/ DeviceChanges \/ Recover
               PROVE  TapInv'
    OBVIOUS
  <1>1. CASE Forward
    <2>1. \A t \in Takes : source[t] = "flight" => audio'[t] = audio[t]
      BY <1>1 DEF TypeOK, TapInv, TapStages, Forward, Recording
    <2>2. QED
      BY <1>1, <2>1, TapQuiet DEF Forward, flightVars
  <1>2. CASE Menu \/ DeviceChanges \/ Recover
    <2>1. UNCHANGED <<soundVars, takeVars>>
      BY <1>2, ControlIsSilent
    <2>2. buffer' \in {buffer, <<>>}
      BY <1>2 DEF Menu, Recover, TogglePause, ToggleFlight, Disable, StartFlight,
         DeviceChanges, TakeNotification, Invalidate, EndRecovery, flightVars,
         BeginRecovery
    <2>3. QED
      BY <2>1, <2>2, TapQuiet DEF soundVars, takeVars
  <1>3. QED
    BY <1>1, <1>2

\* A tap takes its blocks from a ring that is younger than every other tap,
\* and empties it before the worker goes on.
LEMMA TapTake ==
  ASSUME TypeOK, PressInv, TapInv, NEW t \in Takes, TakeStep(t)
  PROVE  TapInv'
  <1>1. now' = now /\ \A u \in Takes \ {t} :
            UNCHANGED <<stage[u], via[u], source[u], audio[u]>>
    BY DEF TakeStep, Press, Start, ReleaseHold, CaptureTap, StopHold,
       AbandonTake, CloseTake, StopCapture, TypeOK, soundVars, Moves
  <1>2. buffer' \in {buffer, <<>>}
    BY DEF TakeStep, Press, Start, ReleaseHold, CaptureTap, StopHold,
       AbandonTake, CloseTake, StopCapture, BeginRecovery, ClearUsed, flightVars
  <1>3. \A i \in 1..Len(buffer') : i \in 1..Len(buffer) /\ buffer'[i] = buffer[i]
    BY <1>2
  <1>4. RingHeard'
    BY <1>1, <1>3 DEF TapInv, RingHeard
  <1>5. OneBusy'
    <2>1. \A u \in Takes \ {t} : Busy(u)' = Busy(u)
      BY <1>1 DEF Busy
    <2>2. Busy(t)' => Busy(t) \/ \A u \in Takes : ~Busy(u)
      BY DEF TakeStep, Press, Start, ReleaseHold, CaptureTap, StopHold,
         AbandonTake, CloseTake, StopCapture, Busy, WorkerBusy, PressInv,
         TypeOK, Moves
    <2>3. QED
      BY <2>1, <2>2 DEF TapInv, OneBusy
  <1>6. CASE CaptureTap(t)
    <2>1. \A j \in 1..Len(audio'[t]) :
            \E i \in 1..Len(buffer) : audio'[t][j] = buffer[i]
      BY <1>6, ExtractedFromRing DEF CaptureTap, TypeOK
    <2>2. /\ stage'[t] = "closing" /\ via'[t] = "flight" /\ source'[t] = "flight"
          /\ Busy(t)
      BY <1>6 DEF CaptureTap, StopCapture, Busy, TypeOK, Moves
    <2>3. \A u \in Takes \ {t} : source[u] = "flight" => stage[u] # "closing"
      BY <2>2 DEF TapInv, OneBusy, Busy
    <2>4. TapStages'
      BY <1>1, <2>2 DEF TapInv, TapStages
    <2>5. TapsHeard'
      BY <1>1, <2>1 DEF TapInv, RingHeard, TapsHeard
    <2>6. TapsBeforeRing'
      BY <1>1, <1>3, <2>2 DEF TapInv, TapsBeforeRing
    <2>7. \A u \in Takes \ {t} : source[u] = "flight" =>
            \A j \in 1..Len(audio[u]), k \in 1..Len(audio'[t]) :
                audio[u][j] # audio'[t][k]
      BY <2>1, <2>3, BlocksAreNumbers DEF TapInv, TapsBeforeRing
    <2>8. TapsDiffer'
      BY <1>1, <2>7 DEF TapInv, TapsDiffer
    <2>9. QED
      BY <1>4, <1>5, <2>4, <2>5, <2>6, <2>8 DEF TapInv
  <1>7. CASE CloseTake(t)
    <2>1. UNCHANGED <<source, audio>> /\ stage'[t] \in {"used", "dropped"}
      BY <1>7 DEF CloseTake, TypeOK, Moves
    <2>2. source[t] = "flight" => buffer' = <<>>
      BY <1>7 DEF CloseTake, ClearUsed, TapInv, TapStages
    <2>3. TapStages'
      BY <1>1, <2>1 DEF TapInv, TapStages
    <2>4. TapsHeard' /\ TapsDiffer'
      BY <1>1, <2>1 DEF TapInv, TapsHeard, TapsDiffer
    <2>5. TapsBeforeRing'
      BY <1>1, <1>3, <2>1, <2>2 DEF TapInv, TapsBeforeRing
    <2>6. QED
      BY <1>4, <1>5, <2>3, <2>4, <2>5 DEF TapInv
  <1>8. CASE ~CaptureTap(t) /\ ~CloseTake(t)
    <2>1. source' = source /\ source[t] = "hold"
      BY <1>8 DEF TakeStep, Press, Start, ReleaseHold, StopHold, AbandonTake,
         PressInv
    <2>2. TapStages'
      BY <1>1, <2>1 DEF TapInv, TapStages
    <2>3. TapsHeard' /\ TapsDiffer'
      BY <1>1, <2>1 DEF TapInv, TapsHeard, TapsDiffer
    <2>4. TapsBeforeRing'
      BY <1>1, <1>3, <2>1 DEF TapInv, TapsBeforeRing
    <2>5. QED
      BY <1>4, <1>5, <2>2, <2>3, <2>4 DEF TapInv
  <1>9. QED
    BY <1>6, <1>7, <1>8

\* No step makes two taps share speech.
LEMMA TapNext == TypeOK /\ PressInv /\ TapInv /\ [Next]_vars => TapInv'
  <1> SUFFICES ASSUME TypeOK, PressInv, TapInv, [Next]_vars PROVE TapInv'
    OBVIOUS
  <1>1. CASE UNCHANGED vars
    <2>1. \A t \in Takes : audio'[t] = audio[t]
      BY <1>1 DEF vars
    <2>2. QED
      BY <1>1, <2>1, TapQuiet DEF vars
  <1>2. QED
    BY <1>1, TapSpeak, TapOthers, TapTake DEF Next

\* Two taps never return the same speech (_capture_retrospective_flight_tap,
\* FlightRecorder.clear), for any number of takes and any ring.
THEOREM TapsNeverRepeat == Spec => []TapsAreDisjoint
  <1>1. Init => TapInv
    BY DEF Init, TapInv, OneBusy, Busy, RingHeard, TapStages, TapsHeard,
       TapsBeforeRing, TapsDiffer
  <1>2. Heard /\ PressInv /\ TapInv /\ [Next]_vars => TapInv'
    BY TapNext DEF Heard
  <1>3. Heard /\ TapInv => TapsAreDisjoint
    <2> SUFFICES ASSUME TypeOK, TapsDiffer, NEW t \in Takes, NEW u \in Takes,
                        t # u, source[t] = "flight", source[u] = "flight",
                        NEW b \in Range(audio[t]), b \in Range(audio[u])
                 PROVE  FALSE
      BY DEF Heard, TapInv, TapsAreDisjoint
    <2>1. PICK i \in 1..Len(audio[t]) : audio[t][i] = b
      BY DEF TypeOK, Range
    <2>2. PICK j \in 1..Len(audio[u]) : audio[u][j] = b
      BY DEF TypeOK, Range
    <2>3. QED
      BY <2>1, <2>2 DEF TapsDiffer
  <1>4. QED
    BY <1>1, <1>2, <1>3, PressInvariance, PTL DEF Spec

=============================================================================
