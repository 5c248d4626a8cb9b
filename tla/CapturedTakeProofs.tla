------------------------- MODULE CapturedTakeProofs -------------------------
(***************************************************************************)
(* Theorems about one take, for any thresholds and any length.             *)
(*                                                                         *)
(* That voice is decoded once rests on where the futures lie: the listed   *)
(* chunks follow each other up to the cut with nothing but quiet between   *)
(* them (ChunkInv), and a speculation that still counts starts at the cut  *)
(* and has only quiet behind it (SpecInv).                                 *)
(*                                                                         *)
(* That what is reused was not cut short rests on the one worker: nothing  *)
(* is begun before what was submitted earlier is over (FifoInv).  The      *)
(* shared flag is set only for a speculation that was begun, so what was   *)
(* listed before it is over by then.                                       *)
(***************************************************************************)
EXTENDS CapturedTake, FiniteSetTheorems, SequenceTheorems, TLAPS

States == {"queued", "running", "verifying", "done", "cancelled"}
Results == {"none", "fast", "accepted", "final"}
Futures == [from : Nat, to : Nat, speculative : BOOLEAN, state : States,
            result : Results]

\* The callback has judged the blocks so far, but for one it just appended.
Judged == IF callback = "appended" THEN Len(audio) - 1 ELSE Len(audio)

TInv ==
    /\ TypeOK
    /\ futures \in Seq(Futures)
    /\ callback = "appended" =>
        audio # <<>> /\ audio[Len(audio)] = level /\ silent <= Judged

Open(f) == futures[f].state \in {"queued", "running", "verifying"}

FifoInv ==
    \A i, j \in 1..Len(futures) :
        i < j /\ Open(i) => futures[j].state \in {"queued", "cancelled"}

SpecInv ==
    speculation # 0 =>
        /\ futures[speculation].from = cut
        /\ futures[speculation].state # "cancelled"
        /\ invalid => futures[speculation].state # "queued"
        /\ ~invalid =>
            /\ futures[speculation].result # "fast"
            /\ \A b \in futures[speculation].to + 1 .. Judged :
                    audio[b] = "quiet"

\* Up to here the chunks have the take.
ChunkEnd == IF callback = "listed" THEN Len(audio) ELSE cut

ChunkInv ==
    /\ \A i \in 1..Len(chunks) : futures[chunks[i]].to <= ChunkEnd
    /\ \A i, j \in 1..Len(chunks) :
        i < j => futures[chunks[i]].to <= futures[chunks[j]].from
    /\ \A b \in 1..ChunkEnd :
        audio[b] = "voice" =>
            \E i \in 1..Len(chunks) :
                b \in futures[chunks[i]].from + 1 .. futures[chunks[i]].to

ListedInv ==
    \A i \in 1..Len(chunks) :
        /\ futures[chunks[i]].state # "cancelled"
        /\ futures[chunks[i]].result # "fast"
        /\ speculation # 0 =>
            \/ chunks[i] < speculation
            \/ callback = "listed" /\ chunks[i] = speculation /\ ~invalid
            \/ callback = "listed" /\ ~futures[chunks[i]].speculative

\* What the finisher has read, if nobody disturbed it, is still so.
FinisherInv ==
    /\ recording <=> finisher = "held"
    /\ Undisturbed =>
        /\ finisher \notin {"held", "stopping"} => callback = "idle"
        /\ finisher \in {"has audio", "has cut", "has chunks", "planned"} =>
            heard = Len(audio)
        /\ finisher \in {"has cut", "has chunks", "planned"} => itsCut = cut
        /\ finisher \in {"has chunks", "planned"} => itsChunks = chunks
        /\ finisher = "planned" =>
            \/ /\ last.kind = "speculation" /\ last.future = speculation
               /\ speculation # 0 /\ ~invalid
            \/ ~CanReuseSpeculation(cut) /\ last = Remainder

IInv == TInv /\ FifoInv /\ SpecInv /\ ChunkInv /\ ListedInv /\ FinisherInv

\* The parts of TInv.
Shape ==
    /\ via \in {"pool", "flight"} /\ parakeet \in BOOLEAN
    /\ callback \in {"idle", "entered", "appended", "judged", "speculated",
                     "listed"}
    /\ level \in Levels
    /\ finisher \in {"held", "stopping", "stopped", "has audio", "has cut",
                     "has chunks", "planned"}
    /\ last.kind \in {"none", "speculation", "remainder"}

Flags ==
    /\ recording \in BOOLEAN /\ voiced \in BOOLEAN /\ overtaken \in BOOLEAN
    /\ invalid \in BOOLEAN

Counts ==
    /\ audio \in Seq(Levels)
    /\ silent \in 0..Len(audio) /\ cut \in 0..Len(audio)
    /\ heard \in 0..Len(audio) /\ itsCut \in 0..Len(audio)

FutureTypes ==
    /\ futures \in Seq(Futures)
    /\ \A i \in 1..Len(futures) :
        /\ futures[i].from \in 0..Len(audio)
        /\ futures[i].to \in futures[i].from + 1 .. Len(audio)

Links ==
    /\ chunks \in Seq(1..Len(futures)) /\ itsChunks \in Seq(1..Len(futures))
    /\ speculation \in 0..Len(futures)
    /\ invalid => speculation # 0

JustAppended ==
    callback = "appended" =>
        audio # <<>> /\ audio[Len(audio)] = level /\ silent <= Judged

LEMMA Parts ==
    ASSUME TInv
    PROVE  /\ Shape /\ Flags /\ Counts /\ FutureTypes /\ Links /\ JustAppended
  BY DEF TInv, TypeOK, Shape, Flags, Counts, FutureTypes, Links, JustAppended

LEMMA Whole ==
    ASSUME Shape', Flags', Counts', FutureTypes', Links', JustAppended'
    PROVE  TInv'
<1>1. ASSUME NEW i \in 1..Len(futures')
      PROVE  /\ futures'[i].speculative \in BOOLEAN
             /\ futures'[i].state \in States /\ futures'[i].result \in Results
  <2>1. futures'[i] \in Futures
    BY DEF FutureTypes
  <2>2. \A f \in Futures : /\ f.speculative \in BOOLEAN
                           /\ f.state \in States /\ f.result \in Results
    BY Zenon DEF Futures
  <2> QED BY <2>1, <2>2
<1> QED
  BY <1>1 DEF TInv, TypeOK, Shape, Flags, Counts, FutureTypes, Links,
     JustAppended, States, Results

-----------------------------------------------------------------------------
(* Futures.                                                                *)

\* Futures are added at the end, and keep their ranges.
KeepsRanges ==
    /\ Len(futures') >= Len(futures)
    /\ \A j \in 1..Len(futures) :
        /\ futures'[j].from = futures[j].from
        /\ futures'[j].to = futures[j].to
        /\ futures'[j].speculative = futures[j].speculative

LEMMA NoFutureMoves ==
    ASSUME FutureTypes, futures' = futures
    PROVE  KeepsRanges
<1>1. Len(futures) \in Nat
  BY DEF FutureTypes
<1> QED BY <1>1 DEF KeepsRanges

\* What the worker or a cancellation does to future i.
Becomes(i, state, result) ==
    /\ futures' \in Seq(Futures) /\ Len(futures') = Len(futures)
    /\ futures'[i].state = state /\ futures'[i].result = result
    /\ \A j \in 1..Len(futures) : j # i => futures'[j] = futures[j]
    /\ KeepsRanges

LEMMA FutureMoves ==
    ASSUME FutureTypes, NEW i \in 1..Len(futures),
           NEW state \in States, NEW result \in Results,
           \/ Moves(i, state, result)
           \/ /\ futures' = [futures EXCEPT ![i].state = state]
              /\ result = futures[i].result
    PROVE  Becomes(i, state, result)
<1> DEFINE new == [from |-> futures[i].from, to |-> futures[i].to,
                   speculative |-> futures[i].speculative,
                   state |-> state, result |-> result]
<1>1. futures[i] \in Futures
  BY DEF FutureTypes
<1>2. new \in Futures
  BY <1>1 DEF Futures
<1>3. futures' = [futures EXCEPT ![i] = new]
  <2>1. CASE Moves(i, state, result)
    <3>1. futures' = [futures EXCEPT ![i] =
              [[futures[i] EXCEPT !.state = state] EXCEPT !.result = result]]
      BY <2>1 DEF Moves, FutureTypes
    <3> DEFINE moved == [from |-> futures[i].from, to |-> futures[i].to,
                         speculative |-> futures[i].speculative,
                         state |-> state, result |-> futures[i].result]
    <3>2. [futures[i] EXCEPT !.state = state] = moved
      BY <1>1 DEF Futures
    <3>3. [moved EXCEPT !.result = result] = new
      OBVIOUS
    <3>4. [[futures[i] EXCEPT !.state = state] EXCEPT !.result = result] = new
      BY <3>2, <3>3
    <3> QED BY <3>1, <3>4
  <2>2. CASE /\ futures' = [futures EXCEPT ![i].state = state]
             /\ result = futures[i].result
    <3>1. [futures[i] EXCEPT !.state = state] = new
      BY <1>1, <2>2 DEF Futures
    <3> QED BY <2>2, <3>1
  <2> QED BY <2>1, <2>2
<1>4. /\ futures' \in Seq(Futures) /\ Len(futures') = Len(futures)
      /\ futures'[i] = new
      /\ \A j \in 1..Len(futures) : j # i => futures'[j] = futures[j]
  BY <1>2, <1>3 DEF FutureTypes
<1>5. KeepsRanges
  <2>1. Len(futures) \in Nat
    BY DEF FutureTypes
  <2> QED BY <1>4, <2>1 DEF KeepsRanges
<1> QED BY <1>4, <1>5 DEF Becomes

LEMMA FutureSubmitted ==
    ASSUME FutureTypes, NEW from \in Nat, NEW speculative \in BOOLEAN,
           Len(audio) \in Nat, futures' = Submitted(from, speculative)
    PROVE  /\ futures' \in Seq(Futures) /\ Len(futures') = Len(futures) + 1
           /\ futures'[Len(futures) + 1] =
                [from |-> from, to |-> Len(audio), speculative |-> speculative,
                 state |-> "queued", result |-> "none"]
           /\ \A j \in 1..Len(futures) : futures'[j] = futures[j]
           /\ KeepsRanges
<1> DEFINE new == [from |-> from, to |-> Len(audio),
                   speculative |-> speculative,
                   state |-> "queued", result |-> "none"]
<1>1. new \in Futures
  BY DEF Futures, States, Results
<1>2. futures' = Append(futures, new) /\ futures \in Seq(Futures)
  BY DEF Submitted, FutureTypes
<1> HIDE DEF new
<1>3. /\ futures' \in Seq(Futures) /\ Len(futures') = Len(futures) + 1
      /\ futures'[Len(futures) + 1] = new
      /\ \A j \in 1..Len(futures) : futures'[j] = futures[j]
  BY <1>1, <1>2
<1>4. KeepsRanges
  <2>1. Len(futures) \in Nat
    BY <1>2
  <2> QED BY <1>3, <2>1 DEF KeepsRanges
<1> QED BY <1>3, <1>4 DEF new

LEMMA RangesTyped ==
    ASSUME FutureTypes, Counts, KeepsRanges, futures' \in Seq(Futures),
           Len(audio') \in Nat, Len(audio) <= Len(audio'),
           \A j \in 1..Len(futures') \ 1..Len(futures) :
               /\ futures'[j].from \in 0..Len(audio')
               /\ futures'[j].to \in futures'[j].from + 1 .. Len(audio')
    PROVE  FutureTypes'
<1> SUFFICES ASSUME NEW i \in 1..Len(futures')
             PROVE  /\ futures'[i].from \in 0..Len(audio')
                    /\ futures'[i].to \in futures'[i].from + 1 .. Len(audio')
  BY DEF FutureTypes
<1>1. Len(audio) \in Nat /\ Len(futures) \in Nat
  BY DEF Counts, FutureTypes
<1>2. CASE i \in 1..Len(futures)
  <2>1. /\ futures[i].from \in 0..Len(audio)
        /\ futures[i].to \in futures[i].from + 1 .. Len(audio)
    BY <1>2 DEF FutureTypes
  <2> QED BY <1>1, <1>2, <2>1 DEF KeepsRanges
<1>3. CASE i \notin 1..Len(futures)
  BY <1>3
<1> QED BY <1>2, <1>3

LEMMA ChunksKept ==
    ASSUME Links, FutureTypes, ChunkInv, KeepsRanges, chunks' = chunks,
           ChunkEnd' = ChunkEnd, \A b \in 1..ChunkEnd : audio'[b] = audio[b]
    PROVE  ChunkInv'
<1>1. \A i \in 1..Len(chunks) : chunks[i] \in 1..Len(futures)
  BY DEF Links
<1>2. \A i \in 1..Len(chunks) :
        /\ futures'[chunks[i]].from = futures[chunks[i]].from
        /\ futures'[chunks[i]].to = futures[chunks[i]].to
  BY <1>1 DEF KeepsRanges
<1> QED BY <1>2 DEF ChunkInv

-----------------------------------------------------------------------------
(* The worker.                                                             *)

LEMMA LaterWait ==
    ASSUME FifoInv, NEW i \in 1..Len(futures), Len(futures) \in Nat,
           futures[i].state \in {"running", "verifying"}
    PROVE  \A j \in 1..(i - 1) : ~Open(j)
<1> SUFFICES ASSUME NEW j \in 1..(i - 1), Open(j)
             PROVE  FALSE
  OBVIOUS
<1>1. j \in 1..Len(futures) /\ j < i
  OBVIOUS
<1>2. futures[i].state \in {"queued", "cancelled"}
  BY <1>1 DEF FifoInv
<1> QED BY <1>2

LEMMA WorkerKeepsOrder ==
    ASSUME FifoInv, NEW i \in 1..Len(futures), Len(futures) \in Nat,
           NEW state, NEW result, Becomes(i, state, result),
           state # "cancelled" => Open(i) /\ \A j \in 1..(i - 1) : ~Open(j)
    PROVE  FifoInv'
<1> SUFFICES ASSUME NEW a \in 1..Len(futures), NEW b \in 1..Len(futures),
                    a < b, Open(a)'
             PROVE  futures'[b].state \in {"queued", "cancelled"}
  BY DEF FifoInv, Becomes
<1>1. futures'[a].state \in {"queued", "running", "verifying"}
  BY DEF Open
<1>2. CASE a = i
  <2>1. state # "cancelled"
    BY <1>1, <1>2 DEF Becomes
  <2>2. Open(a) /\ futures'[b] = futures[b]
    BY <1>2, <2>1 DEF Becomes
  <2> QED BY <2>2 DEF FifoInv
<1>3. CASE a # i /\ b = i
  <2>1. Open(a) /\ a \in 1..(i - 1)
    BY <1>1, <1>3 DEF Becomes, Open
  <2>2. futures'[b].state = "cancelled"
    BY <2>1, <1>3 DEF Becomes
  <2> QED BY <2>2
<1>4. CASE a # i /\ b # i
  <2>1. Open(a) /\ futures'[b] = futures[b]
    BY <1>1, <1>4 DEF Becomes, Open
  <2> QED BY <2>1 DEF FifoInv
<1> QED BY <1>2, <1>3, <1>4

LEMMA WorkerKeepsTypes ==
    ASSUME TInv, NEW i, NEW state, NEW result, Becomes(i, state, result),
           UNCHANGED <<via, parakeet, callbackVars, finisherVars>>
    PROVE  TInv'
<1>0. Shape /\ Flags /\ Counts /\ FutureTypes /\ Links /\ JustAppended
  BY Parts
<1>1. Shape'
  BY <1>0 DEF Shape, callbackVars, finisherVars, segmentVars
<1>2. Flags'
  BY <1>0 DEF Flags, callbackVars, finisherVars, segmentVars
<1>3. Counts'
  BY <1>0 DEF Counts, callbackVars, finisherVars, segmentVars
<1>4. FutureTypes'
  <2>1. /\ Len(audio') \in Nat /\ Len(audio) <= Len(audio')
        /\ 1..Len(futures') \ 1..Len(futures) = {}
    BY <1>0 DEF Counts, callbackVars, Becomes
  <2> QED BY <1>0, <2>1, RangesTyped DEF Becomes
<1>5. Links'
  BY <1>0 DEF Links, Becomes, callbackVars, finisherVars, segmentVars
<1>6. JustAppended'
  BY <1>0 DEF JustAppended, Judged, callbackVars, segmentVars
<1> QED BY <1>1, <1>2, <1>3, <1>4, <1>5, <1>6, Whole

\* What the finisher read does not depend on how far a decode is.
LEMMA WorkerKeepsReads ==
    ASSUME TInv, FinisherInv, KeepsRanges,
           UNCHANGED <<via, parakeet, callbackVars, finisherVars>>
    PROVE  FinisherInv'
<1>1. UNCHANGED <<via, parakeet, recording, callback, audio, cut, chunks,
                  speculation, invalid, finisher, overtaken, heard, itsCut,
                  itsChunks, last>>
  BY DEF callbackVars, finisherVars, segmentVars
<1>2. speculation # 0 => futures'[speculation].from = futures[speculation].from
  BY Parts DEF Links, FutureTypes, KeepsRanges
<1>3. CanReuseSpeculation(cut)' <=> CanReuseSpeculation(cut)
  BY <1>1, <1>2 DEF CanReuseSpeculation
<1>4. Remainder' = Remainder
  BY <1>1 DEF Remainder
<1> QED BY <1>1, <1>3, <1>4 DEF FinisherInv, Undisturbed

LEMMA WorkerKeeps ==
    ASSUME IInv, NEW i \in 1..Len(futures),
           NEW state \in {"running", "verifying", "done"}, NEW result,
           Becomes(i, state, result),
           Open(i), \A j \in 1..(i - 1) : ~Open(j),
           result = "fast" =>
               invalid /\ futures[i].state = "running" /\ futures[i].speculative,
           UNCHANGED <<via, parakeet, callbackVars, finisherVars>>
    PROVE  IInv'
<1>0. /\ Shape /\ Flags /\ Counts /\ FutureTypes /\ Links
      /\ FifoInv /\ SpecInv /\ ChunkInv /\ ListedInv /\ FinisherInv
  BY Parts DEF IInv
<1>1. /\ UNCHANGED <<audio, callback, cut, chunks, speculation, invalid>>
      /\ Len(futures) \in Nat /\ KeepsRanges
  BY <1>0 DEF callbackVars, segmentVars, FutureTypes, Becomes
<1>2. TInv'
  BY WorkerKeepsTypes DEF IInv
<1>3. FifoInv'
  BY <1>0, <1>1, WorkerKeepsOrder
<1>4. SpecInv'
  <2> SUFFICES ASSUME speculation # 0
               PROVE  /\ futures'[speculation].from = cut
                      /\ futures'[speculation].state # "cancelled"
                      /\ invalid => futures'[speculation].state # "queued"
                      /\ ~invalid =>
                          /\ futures'[speculation].result # "fast"
                          /\ \A b \in futures'[speculation].to + 1 .. Judged :
                                  audio[b] = "quiet"
    BY <1>1 DEF SpecInv, Judged
  <2>1. speculation \in 1..Len(futures)
    BY <1>0, <1>1 DEF Links
  <2>2. /\ futures'[speculation].from = futures[speculation].from
        /\ futures'[speculation].to = futures[speculation].to
    BY <1>1, <2>1 DEF KeepsRanges
  <2>3. CASE speculation = i
    BY <1>0, <2>2, <2>3 DEF SpecInv, Becomes
  <2>4. CASE speculation # i
    BY <1>0, <2>1, <2>4 DEF SpecInv, Becomes
  <2> QED BY <2>3, <2>4
<1>5. ChunkInv'
  BY <1>0, <1>1, ChunksKept DEF ChunkEnd
<1>6. ListedInv'
  <2> SUFFICES ASSUME NEW k \in 1..Len(chunks)
               PROVE  /\ futures'[chunks[k]].state # "cancelled"
                      /\ futures'[chunks[k]].result # "fast"
                      /\ futures'[chunks[k]].speculative =
                             futures[chunks[k]].speculative
    BY <1>0, <1>1 DEF ListedInv
  <2>1. chunks[k] \in 1..Len(futures)
    BY <1>0 DEF Links
  <2>2. futures'[chunks[k]].speculative = futures[chunks[k]].speculative
    BY <1>1, <2>1 DEF KeepsRanges
  <2>3. CASE chunks[k] # i
    BY <1>0, <2>1, <2>2, <2>3 DEF ListedInv, Becomes
  <2>4. CASE chunks[k] = i
    <3>1. ASSUME result = "fast"
          PROVE  FALSE
      <4>1. /\ invalid /\ speculation # 0 /\ speculation \in 1..Len(futures)
            /\ futures[i].speculative
        BY <1>0, <1>1, <3>1 DEF Links
      <4>2. futures[speculation].state \notin {"queued", "cancelled"}
        BY <1>0, <4>1 DEF SpecInv
      <4>3. i < speculation
        BY <1>0, <2>4, <4>1 DEF ListedInv
      <4> QED BY <1>0, <4>1, <4>2, <4>3 DEF FifoInv
    <3> QED BY <2>2, <2>4, <3>1 DEF Becomes
  <2> QED BY <2>3, <2>4
<1>7. FinisherInv'
  BY <1>0, <1>1, WorkerKeepsReads DEF IInv
<1> QED BY <1>2, <1>3, <1>4, <1>5, <1>6, <1>7 DEF IInv

LEMMA WorkerStepsKeep ==
    ASSUME IInv, WorkerSteps
    PROVE  IInv'
<1>0. FutureTypes /\ FifoInv /\ Len(futures) \in Nat
  BY Parts DEF IInv, FutureTypes
<1>1. ASSUME WorkerTakes
      PROVE  IInv'
  <2>1. PICK i \in 1..Len(futures) :
          /\ futures[i].state = "queued"
          /\ \A j \in 1..(i - 1) : futures[j].state # "queued"
          /\ Moves(i, "running", "none")
    BY <1>1 DEF WorkerTakes
  <2>2. Becomes(i, "running", "none")
    BY <1>0, <2>1, FutureMoves DEF States, Results
  <2>3. Open(i) /\ \A j \in 1..(i - 1) : ~Open(j)
    BY <1>0, <1>1, <2>1 DEF WorkerTakes, Busy, Open
  <2> QED BY <1>1, <2>2, <2>3, WorkerKeeps DEF WorkerTakes
<1>2. ASSUME ChunkDecoded
      PROVE  IInv'
  <2>1. PICK i \in 1..Len(futures) :
          /\ futures[i].state = "running"
          /\ Moves(i, "done", "final")
    BY <1>2 DEF ChunkDecoded
  <2>2. Becomes(i, "done", "final")
    BY <1>0, <2>1, FutureMoves DEF States, Results
  <2>3. Open(i) /\ \A j \in 1..(i - 1) : ~Open(j)
    BY <1>0, <2>1, LaterWait DEF Open
  <2> QED BY <1>2, <2>2, <2>3, WorkerKeeps DEF ChunkDecoded
<1>3. ASSUME FastDecoded
      PROVE  IInv'
  <2>1. PICK i \in 1..Len(futures) :
          /\ futures[i].state = "running" /\ futures[i].speculative
          /\ \/ invalid /\ Moves(i, "done", "fast")
             \/ ~invalid /\ Moves(i, "verifying", "none")
             \/ ~invalid /\ ~parakeet /\ Moves(i, "done", "accepted")
    BY <1>3 DEF FastDecoded
  <2>2. Open(i) /\ \A j \in 1..(i - 1) : ~Open(j)
    BY <1>0, <2>1, LaterWait DEF Open
  <2>3. CASE invalid /\ Moves(i, "done", "fast")
    <3>1. Becomes(i, "done", "fast")
      BY <1>0, <2>1, <2>3, FutureMoves DEF States, Results
    <3> QED BY <1>3, <2>1, <2>2, <2>3, <3>1, WorkerKeeps DEF FastDecoded
  <2>4. CASE Moves(i, "verifying", "none")
    <3>1. Becomes(i, "verifying", "none")
      BY <1>0, <2>1, <2>4, FutureMoves DEF States, Results
    <3> QED BY <1>3, <2>1, <2>2, <3>1, WorkerKeeps DEF FastDecoded
  <2>5. CASE Moves(i, "done", "accepted")
    <3>1. Becomes(i, "done", "accepted")
      BY <1>0, <2>1, <2>5, FutureMoves DEF States, Results
    <3> QED BY <1>3, <2>1, <2>2, <3>1, WorkerKeeps DEF FastDecoded
  <2> QED BY <2>1, <2>3, <2>4, <2>5
<1>4. ASSUME Verified
      PROVE  IInv'
  <2>1. PICK i \in 1..Len(futures) :
          /\ futures[i].state = "verifying"
          /\ Moves(i, "done", "final")
    BY <1>4 DEF Verified
  <2>2. Becomes(i, "done", "final")
    BY <1>0, <2>1, FutureMoves DEF States, Results
  <2>3. Open(i) /\ \A j \in 1..(i - 1) : ~Open(j)
    BY <1>0, <2>1, LaterWait DEF Open
  <2> QED BY <1>4, <2>2, <2>3, WorkerKeeps DEF Verified
<1> QED BY <1>1, <1>2, <1>3, <1>4 DEF WorkerSteps

-----------------------------------------------------------------------------
(* The finisher.                                                           *)

LEMMA FinisherFrame ==
    ASSUME IInv, UNCHANGED <<callbackVars, futures>>
    PROVE  /\ FutureTypes' /\ FifoInv' /\ SpecInv' /\ ChunkInv' /\ ListedInv'
           /\ JustAppended'
<1>0. UNCHANGED <<audio, callback, level, silent, voiced, cut, chunks,
                  speculation, invalid, futures>>
  BY DEF callbackVars, segmentVars
<1>1. FutureTypes' /\ JustAppended'
  BY <1>0, Parts DEF IInv, FutureTypes, JustAppended, Judged
<1>2. FifoInv'
  BY <1>0 DEF IInv, FifoInv, Open
<1>3. SpecInv'
  BY <1>0 DEF IInv, SpecInv, Judged
<1>4. ChunkInv'
  BY <1>0 DEF IInv, ChunkInv, ChunkEnd
<1>5. ListedInv'
  BY <1>0 DEF IInv, ListedInv
<1> QED BY <1>1, <1>2, <1>3, <1>4, <1>5

LEMMA FinisherStepsKeep ==
    ASSUME IInv, FinisherSteps
    PROVE  IInv'
<1>0. /\ Shape /\ Flags /\ Counts /\ FutureTypes /\ Links /\ JustAppended
      /\ FinisherInv
  BY Parts DEF IInv
<1>1. /\ UNCHANGED <<via, parakeet, callbackVars, futures>>
      /\ UNCHANGED <<audio, callback, level, silent, voiced, cut, chunks,
                     speculation, invalid>>
  BY DEF FinisherSteps, StopRecording, StreamQuiet, ReadAudio, ReadCut,
     ReadChunks, PlanDecode, callbackVars, segmentVars
<1>2. /\ FutureTypes' /\ FifoInv' /\ SpecInv' /\ ChunkInv' /\ ListedInv'
      /\ JustAppended'
  BY <1>1, FinisherFrame
<1>3. Len(audio) \in Nat /\ Len(futures) \in Nat
  BY <1>0 DEF Counts, FutureTypes
<1>4. Remainder.kind \in {"none", "speculation", "remainder"}
  BY DEF Remainder, NoPiece
<1>5. ASSUME StopRecording
      PROVE  TInv' /\ FinisherInv'
  <2>1. Shape' /\ Flags' /\ Counts' /\ Links'
    BY <1>0, <1>1, <1>5
    DEF StopRecording, finisherReads, Shape, Flags, Counts, Links
  <2>2. FinisherInv'
    BY <1>0, <1>1, <1>5
    DEF StopRecording, finisherReads, FinisherInv, Undisturbed
  <2> QED BY <1>2, <2>1, <2>2, Whole
<1>6. ASSUME StreamQuiet
      PROVE  TInv' /\ FinisherInv'
  <2>1. Shape' /\ Counts' /\ Links'
    BY <1>0, <1>1, <1>6
    DEF StreamQuiet, finisherReads, Shape, Counts, Links
  <2>3. Flags'
    <3>1. /\ overtaken' = (callback # "idle")
          /\ UNCHANGED <<recording, voiced, invalid>>
      BY <1>1, <1>6 DEF StreamQuiet
    <3>2. overtaken' \in BOOLEAN
      BY <3>1, Zenon
    <3> QED BY <1>0, <3>1, <3>2 DEF Flags
  <2>2. FinisherInv'
    BY <1>0, <1>1, <1>6
    DEF StreamQuiet, finisherReads, FinisherInv, Undisturbed, Flags, Shape
  <2> QED BY <1>2, <2>1, <2>3, <2>2, Whole
<1>7. ASSUME ReadAudio
      PROVE  TInv' /\ FinisherInv'
  <2>1. Shape' /\ Flags' /\ Links'
    BY <1>0, <1>1, <1>7 DEF ReadAudio, Shape, Flags, Links
  <2>3. Counts'
    <3>1. heard' = Len(audio) /\ UNCHANGED <<audio, silent, cut, itsCut>>
      BY <1>1, <1>7 DEF ReadAudio
    <3>2. heard' \in 0..Len(audio)
      BY <1>3, <3>1
    <3> QED BY <1>0, <3>1, <3>2 DEF Counts
  <2>2. FinisherInv'
    BY <1>0, <1>1, <1>7 DEF ReadAudio, FinisherInv, Undisturbed
  <2> QED BY <1>2, <2>1, <2>2, <2>3, Whole
<1>8. ASSUME ReadCut
      PROVE  TInv' /\ FinisherInv'
  <2>1. Shape' /\ Flags' /\ Counts' /\ Links'
    BY <1>0, <1>1, <1>8 DEF ReadCut, Shape, Flags, Counts, Links
  <2>2. FinisherInv'
    BY <1>0, <1>1, <1>8 DEF ReadCut, FinisherInv, Undisturbed
  <2> QED BY <1>2, <2>1, <2>2, Whole
<1>9. ASSUME ReadChunks
      PROVE  TInv' /\ FinisherInv'
  <2>1. Shape' /\ Flags' /\ Counts' /\ Links'
    BY <1>0, <1>1, <1>9 DEF ReadChunks, Shape, Flags, Counts, Links
  <2>2. FinisherInv'
    BY <1>0, <1>1, <1>9 DEF ReadChunks, FinisherInv, Undisturbed
  <2> QED BY <1>2, <2>1, <2>2, Whole
<1>10. ASSUME PlanDecode
       PROVE  TInv' /\ FinisherInv'
  <2>1. Shape' /\ Flags' /\ Counts' /\ Links'
    BY <1>0, <1>1, <1>4, <1>10 DEF PlanDecode, Shape, Flags, Counts, Links
  <2>2. FinisherInv'
    <3>1. UNCHANGED <<via, parakeet, recording, overtaken, heard, itsCut,
                      itsChunks>>
      BY <1>10 DEF PlanDecode
    <3>2. Undisturbed => itsCut = cut
      BY <1>0, <1>10 DEF PlanDecode, FinisherInv
    <3>3. Remainder' = Remainder
      BY <1>1, <3>1 DEF Remainder
    <3>4. CanReuseSpeculation(cut)' <=> CanReuseSpeculation(cut)
      BY <1>1 DEF CanReuseSpeculation
    <3>5. CanReuseSpeculation(cut) /\ itsCut = cut =>
            /\ last'.kind = "speculation" /\ last'.future = speculation
            /\ speculation # 0 /\ ~invalid
      BY <1>10 DEF PlanDecode, CanReuseSpeculation
    <3>6. ~CanReuseSpeculation(cut) /\ itsCut = cut => last' = Remainder
      BY <1>10 DEF PlanDecode
    <3>7. finisher = "has chunks" /\ finisher' = "planned"
      BY <1>10 DEF PlanDecode
    <3> QED BY <1>0, <1>1, <3>1, <3>2, <3>3, <3>4, <3>5, <3>6, <3>7
            DEF FinisherInv, Undisturbed
  <2> QED BY <1>2, <2>1, <2>2, Whole
<1>11. TInv' /\ FinisherInv'
  BY <1>5, <1>6, <1>7, <1>8, <1>9, <1>10 DEF FinisherSteps
<1> QED BY <1>2, <1>11 DEF IInv

-----------------------------------------------------------------------------
(* The callback.                                                           *)

\* A finisher that waited for the callback has read nothing while it is inside.
LEMMA CallbackKeepsReads ==
    ASSUME FinisherInv, UNCHANGED <<via, parakeet, finisherVars>>,
           callback # "idle" \/ recording
    PROVE  FinisherInv'
<1>1. UNCHANGED <<via, parakeet, recording, finisher, overtaken>>
  BY DEF finisherVars
<1>2. Undisturbed => finisher \in {"held", "stopping"}
  BY DEF FinisherInv
<1> QED BY <1>1, <1>2 DEF FinisherInv, Undisturbed

LEMMA EnterKeeps ==
    ASSUME IInv, Enter
    PROVE  IInv'
<1>0. /\ Shape /\ Flags /\ Counts /\ FutureTypes /\ Links /\ JustAppended
      /\ FifoInv /\ SpecInv /\ ChunkInv /\ ListedInv /\ FinisherInv
  BY Parts DEF IInv
<1>1. /\ callback = "idle" /\ callback' = "entered" /\ level' \in Levels
      /\ UNCHANGED <<via, parakeet, audio, silent, voiced, cut, chunks,
                     speculation, invalid, futures>>
      /\ UNCHANGED <<recording, finisher, overtaken, heard, itsCut, itsChunks,
                     last>>
  BY DEF Enter, segmentVars, finisherVars
<1>2. Shape' /\ Flags' /\ Counts' /\ Links'
  BY ZenonT(60), <1>0, <1>1 DEF Shape, Flags, Counts, Links
<1>3. FutureTypes' /\ JustAppended' /\ FifoInv'
  BY <1>0, <1>1 DEF FutureTypes, JustAppended, FifoInv, Open
<1>4. SpecInv'
  BY <1>0, <1>1 DEF SpecInv, Judged
<1>5. ChunkInv'
  BY <1>0, <1>1 DEF ChunkInv, ChunkEnd
<1>6. ListedInv'
  BY <1>0, <1>1 DEF ListedInv
<1>7. FinisherInv'
  BY <1>0, CallbackKeepsReads DEF Enter
<1> QED BY <1>2, <1>3, <1>4, <1>5, <1>6, <1>7, Whole DEF IInv

LEMMA KeepSegmentKeeps ==
    ASSUME IInv, KeepSegment
    PROVE  IInv'
<1>0. /\ Shape /\ Flags /\ Counts /\ FutureTypes /\ Links /\ JustAppended
      /\ FifoInv /\ SpecInv /\ ChunkInv /\ ListedInv /\ FinisherInv
  BY Parts DEF IInv
<1>1. /\ callback = "speculated" /\ callback' = "idle"
      /\ UNCHANGED <<via, parakeet, audio, level, silent, voiced, cut, chunks,
                     speculation, invalid, futures>>
      /\ UNCHANGED <<recording, finisher, overtaken, heard, itsCut, itsChunks,
                     last>>
  BY DEF KeepSegment, segmentVars, finisherVars
<1>2. Shape' /\ Flags' /\ Counts' /\ Links'
  BY <1>0, <1>1 DEF Shape, Flags, Counts, Links
<1>3. FutureTypes' /\ JustAppended' /\ FifoInv'
  BY <1>0, <1>1 DEF FutureTypes, JustAppended, FifoInv, Open
<1>4. SpecInv'
  BY <1>0, <1>1 DEF SpecInv, Judged
<1>5. ChunkInv'
  BY <1>0, <1>1 DEF ChunkInv, ChunkEnd
<1>6. ListedInv'
  BY <1>0, <1>1 DEF ListedInv
<1>7. FinisherInv'
  BY <1>0, <1>1, CallbackKeepsReads DEF KeepSegment
<1> QED BY <1>2, <1>3, <1>4, <1>5, <1>6, <1>7, Whole DEF IInv

LEMMA CutSegmentKeeps ==
    ASSUME IInv, CutSegment
    PROVE  IInv'
<1>0. /\ Shape /\ Flags /\ Counts /\ FutureTypes /\ Links /\ JustAppended
      /\ FifoInv /\ SpecInv /\ ChunkInv /\ ListedInv /\ FinisherInv
  BY Parts DEF IInv
<1>1. /\ callback = "listed" /\ callback' = "idle"
      /\ speculation' = 0 /\ invalid' = FALSE
      /\ cut' = Len(audio) /\ voiced' = FALSE
      /\ UNCHANGED <<via, parakeet, audio, level, silent, chunks, futures>>
      /\ UNCHANGED <<recording, finisher, overtaken, heard, itsCut, itsChunks,
                     last>>
  BY DEF CutSegment, finisherVars
<1>2. Shape'
  BY <1>0, <1>1 DEF Shape
<1>3. Links'
  <2>1. ~invalid' /\ speculation' \in 0..Len(futures')
    BY <1>0, <1>1 DEF FutureTypes
  <2> QED BY <1>0, <1>1, <2>1 DEF Links
<1>4. Flags'
  BY <1>0, <1>1 DEF Flags
<1>5. Counts'
  BY <1>0, <1>1 DEF Counts
<1>6. FutureTypes' /\ JustAppended' /\ FifoInv'
  BY <1>0, <1>1 DEF FutureTypes, JustAppended, FifoInv, Open
<1>7. SpecInv'
  BY <1>1 DEF SpecInv
<1>8. ChunkInv'
  <2>1. ChunkEnd' = ChunkEnd
    BY <1>1 DEF ChunkEnd
  <2> QED BY <1>0, <1>1, <2>1 DEF ChunkInv
<1>9. ListedInv'
  BY <1>0, <1>1 DEF ListedInv
<1>10. FinisherInv'
  BY <1>0, <1>1, CallbackKeepsReads DEF CutSegment
<1> QED BY <1>2, <1>3, <1>4, <1>5, <1>6, <1>7, <1>8, <1>9, <1>10, Whole
        DEF IInv

LEMMA AppendBlockKeeps ==
    ASSUME IInv, AppendBlock
    PROVE  IInv'
<1>0. /\ Shape /\ Flags /\ Counts /\ FutureTypes /\ Links
      /\ FifoInv /\ SpecInv /\ ChunkInv /\ ListedInv /\ FinisherInv
  BY Parts DEF IInv
<1>1. /\ callback = "entered" /\ callback' = "appended"
      /\ audio' = Append(audio, level)
      /\ UNCHANGED <<via, parakeet, level, silent, voiced, cut, chunks,
                     speculation, invalid, futures>>
      /\ UNCHANGED <<recording, finisher, overtaken, heard, itsCut, itsChunks,
                     last>>
  BY DEF AppendBlock, segmentVars, finisherVars
<1>2. audio \in Seq(Levels) /\ level \in Levels
  BY <1>0 DEF Counts, Shape
<1>3. /\ Len(audio) \in Nat /\ audio' \in Seq(Levels)
      /\ Len(audio') = Len(audio) + 1 /\ audio'[Len(audio) + 1] = level
      /\ \A b \in 1..Len(audio) : audio'[b] = audio[b]
  BY <1>1, <1>2
<1>4. Shape' /\ Flags' /\ Links'
  BY <1>0, <1>1 DEF Shape, Flags, Links
<1>5. Counts'
  BY <1>0, <1>1, <1>3 DEF Counts
<1>6. FutureTypes'
  <2>1. KeepsRanges /\ 1..Len(futures') \ 1..Len(futures) = {}
    BY <1>0, <1>1, NoFutureMoves
  <2>2. futures' \in Seq(Futures) /\ Len(audio') \in Nat
        /\ Len(audio) <= Len(audio')
    BY <1>0, <1>1, <1>3 DEF FutureTypes
  <2> QED BY <1>0, <2>1, <2>2, RangesTyped
<1>7. JustAppended'
  <2>1. audio' # <<>> /\ audio'[Len(audio')] = level'
    BY <1>1, <1>3
  <2>2. Judged' = Len(audio) /\ silent' <= Len(audio)
    BY <1>0, <1>1, <1>3 DEF Judged, Counts
  <2> QED BY <2>1, <2>2 DEF JustAppended
<1>8. FifoInv'
  BY <1>0, <1>1 DEF FifoInv, Open
<1>9. SpecInv'
  <2> SUFFICES ASSUME speculation # 0, ~invalid,
                      NEW b \in futures[speculation].to + 1 .. Judged'
               PROVE  audio'[b] = "quiet"
    BY <1>0, <1>1 DEF SpecInv
  <2>1. Judged' = Len(audio) /\ Judged = Len(audio)
    BY <1>1, <1>3 DEF Judged
  <2>2. speculation \in 1..Len(futures)
    BY <1>0 DEF Links, FutureTypes
  <2>3. futures[speculation].to \in Nat
    BY SMTT(30), <1>0, <1>3, <2>2 DEF FutureTypes
  <2>4. b \in 1..Len(audio)
    BY <1>3, <2>1, <2>3
  <2>5. audio[b] = "quiet"
    BY <1>0, <2>1 DEF SpecInv
  <2> QED BY <1>3, <2>4, <2>5
<1>10. ChunkInv'
  <2>1. KeepsRanges
    BY <1>0, <1>1, NoFutureMoves
  <2>2. ChunkEnd' = ChunkEnd /\ \A b \in 1..ChunkEnd : audio'[b] = audio[b]
    BY <1>0, <1>1, <1>3 DEF ChunkEnd, Counts
  <2> QED BY <1>0, <1>1, <2>1, <2>2, ChunksKept
<1>11. ListedInv'
  BY <1>0, <1>1 DEF ListedInv
<1>12. FinisherInv'
  BY <1>0, <1>1, CallbackKeepsReads DEF AppendBlock
<1> QED BY <1>4, <1>5, <1>6, <1>7, <1>8, <1>9, <1>10, <1>11, <1>12, Whole
        DEF IInv

\* What Judge leaves: the speculation that still is one, or none.
LEMMA JudgeOutcome ==
    ASSUME Judge, Links, Len(futures) \in Nat
    PROVE  /\ callback = "appended" /\ callback' = "judged"
           /\ silent' = IF level = "quiet" THEN silent + 1 ELSE 0
           /\ UNCHANGED <<via, parakeet, audio, level, cut, chunks, recording,
                          finisher, overtaken, heard, itsCut, itsChunks, last>>
           /\ voiced' \in BOOLEAN /\ invalid' \in BOOLEAN
           /\ speculation' \in {0, speculation}
           /\ speculation' # 0 =>
                /\ futures' = futures
                /\ level = "voice" => futures[speculation].state # "queued"
                /\ invalid' <=> invalid \/ level = "voice"
           /\ speculation' = 0 => ~invalid'
           /\ \/ futures' = futures
              \/ /\ speculation # 0
                 /\ futures' =
                      [futures EXCEPT ![speculation].state = "cancelled"]
<1>1. /\ callback = "appended" /\ callback' = "judged"
      /\ silent' = IF level = "quiet" THEN silent + 1 ELSE 0
      /\ voiced' = (voiced \/ level = "voice")
      /\ UNCHANGED <<via, parakeet, audio, level, cut, chunks, recording,
                     finisher, overtaken, heard, itsCut, itsChunks, last>>
  BY DEF Judge, finisherVars
<1>2. /\ speculation' = IF /\ level = "voice" /\ Current # 0
                           /\ futures[Current].state = "queued"
                        THEN 0 ELSE Current
      /\ invalid' = (speculation' # 0 /\ (invalid \/ level = "voice"))
      /\ futures' = IF /\ level = "voice" /\ Current # 0
                       /\ futures[Current].state = "queued"
                    THEN [futures EXCEPT ![Current].state = "cancelled"]
                    ELSE futures
  BY DEF Judge
<1>3. Current \in {0, speculation}
  BY DEF Current
<1>4. voiced' \in BOOLEAN
  BY <1>1, Zenon
<1>5. invalid' \in BOOLEAN
  BY <1>2, Zenon
<1>6. speculation' \in {0, speculation}
  BY <1>2, <1>3
<1>7. speculation' # 0 =>
        /\ futures' = futures
        /\ level = "voice" => futures[speculation].state # "queued"
  BY <1>2, <1>3
<1>8. speculation' # 0 => (invalid' <=> invalid \/ level = "voice")
  BY <1>2, Zenon
<1>9. speculation' = 0 => ~invalid'
  BY <1>2, Zenon
<1>10. \/ futures' = futures
       \/ /\ speculation # 0
          /\ futures' = [futures EXCEPT ![speculation].state = "cancelled"]
  BY <1>2, <1>3
<1> QED BY <1>1, <1>4, <1>5, <1>6, <1>7, <1>8, <1>9, <1>10

LEMMA JudgeKeeps ==
    ASSUME IInv, Judge
    PROVE  IInv'
<1>0. /\ Shape /\ Flags /\ Counts /\ FutureTypes /\ Links /\ JustAppended
      /\ FifoInv /\ SpecInv /\ ChunkInv /\ ListedInv /\ FinisherInv
      /\ Len(futures) \in Nat /\ Len(audio) \in Nat
  BY Parts DEF IInv, FutureTypes, Counts
<1>1. /\ callback = "appended" /\ callback' = "judged"
      /\ silent' = IF level = "quiet" THEN silent + 1 ELSE 0
      /\ UNCHANGED <<via, parakeet, audio, level, cut, chunks, recording,
                     finisher, overtaken, heard, itsCut, itsChunks, last>>
      /\ voiced' \in BOOLEAN /\ invalid' \in BOOLEAN
      /\ speculation' \in {0, speculation}
      /\ speculation' # 0 =>
           /\ futures' = futures
           /\ level = "voice" => futures[speculation].state # "queued"
           /\ invalid' <=> invalid \/ level = "voice"
      /\ speculation' = 0 => ~invalid'
      /\ \/ futures' = futures
         \/ /\ speculation # 0
            /\ futures' = [futures EXCEPT ![speculation].state = "cancelled"]
  BY <1>0, JudgeOutcome
<1>2. ASSUME futures' = futures
      PROVE  KeepsRanges /\ futures' \in Seq(Futures) /\ FifoInv'
             /\ Len(futures') = Len(futures)
             /\ \A i \in 1..Len(chunks) : futures'[chunks[i]] = futures[chunks[i]]
  <2>1. KeepsRanges
    BY <1>0, <1>2, NoFutureMoves
  <2>2. FifoInv'
    BY <1>0, <1>2 DEF FifoInv, Open
  <2> QED BY <1>0, <1>2, <2>1, <2>2 DEF FutureTypes
<1>3. ASSUME speculation # 0,
             futures' = [futures EXCEPT ![speculation].state = "cancelled"]
      PROVE  KeepsRanges /\ futures' \in Seq(Futures) /\ FifoInv'
             /\ Len(futures') = Len(futures)
             /\ \A i \in 1..Len(chunks) : futures'[chunks[i]] = futures[chunks[i]]
  <2>1. speculation \in 1..Len(futures)
    BY <1>0, <1>3 DEF Links
  <2>2. futures[speculation].result \in Results
    <3>1. futures[speculation] \in Futures
      BY <1>0, <2>1 DEF FutureTypes
    <3> QED BY <3>1 DEF Futures
  <2>3. PICK result \in Results : Becomes(speculation, "cancelled", result)
    BY <1>0, <1>3, <2>1, <2>2, FutureMoves DEF States
  <2>4. FifoInv'
    <3>1. PICK i \in 1..Len(futures) : i = speculation
      BY <2>1
    <3>2. Becomes(i, "cancelled", result)
      BY <2>3, <3>1
    <3> QED BY <1>0, <3>1, <3>2, WorkerKeepsOrder
  <2>5. \A i \in 1..Len(chunks) : futures'[chunks[i]] = futures[chunks[i]]
    <3>1. ASSUME NEW i \in 1..Len(chunks)
          PROVE  chunks[i] \in 1..Len(futures) /\ chunks[i] # speculation
      BY <1>0, <1>1, <1>3 DEF ListedInv, Links
    <3> QED BY <2>3, <3>1 DEF Becomes
  <2> QED BY <2>3, <2>4, <2>5 DEF Becomes
<1>4. KeepsRanges /\ futures' \in Seq(Futures) /\ FifoInv'
      /\ Len(futures') = Len(futures)
      /\ \A i \in 1..Len(chunks) : futures'[chunks[i]] = futures[chunks[i]]
  BY <1>1, <1>2, <1>3
<1>5. Shape'
  BY <1>0, <1>1 DEF Shape
<1>6. Flags'
  BY <1>0, <1>1 DEF Flags
<1>7. Counts'
  <2>1. silent <= Len(audio) - 1 /\ silent \in Nat
    BY <1>0, <1>1 DEF JustAppended, Judged, Counts
  <2>2. silent' \in 0..Len(audio)
    <3>1. silent' = silent + 1 \/ silent' = 0
      BY <1>1
    <3> QED BY <1>0, <2>1, <3>1
  <2>3. UNCHANGED <<audio, cut, heard, itsCut>>
    BY <1>1
  <2> QED BY <1>0, <2>2, <2>3 DEF Counts
<1>8. FutureTypes'
  BY <1>0, <1>1, <1>4, RangesTyped
<1>9. Links'
  BY <1>0, <1>1, <1>4 DEF Links
<1>10. JustAppended'
  BY <1>1 DEF JustAppended
<1>11. SpecInv'
  <2> SUFFICES ASSUME speculation' # 0
               PROVE  SpecInv'
    BY DEF SpecInv
  <2>1. /\ speculation' = speculation /\ speculation # 0
        /\ futures' = futures /\ cut' = cut
        /\ level = "voice" => futures[speculation].state # "queued"
        /\ invalid' <=> invalid \/ level = "voice"
    BY <1>1
  <2>2. /\ futures[speculation].from = cut
        /\ futures[speculation].state # "cancelled"
        /\ invalid' => futures[speculation].state # "queued"
    BY <1>0, <2>1 DEF SpecInv
  <2>3. ASSUME ~invalid', NEW b \in futures[speculation].to + 1 .. Len(audio)
        PROVE  audio[b] = "quiet"
    <3>1. level = "quiet" /\ audio[Len(audio)] = level
      BY <1>0, <1>1, <2>1, <2>3 DEF JustAppended, Shape, Levels
    <3>2. CASE b = Len(audio)
      BY <3>1, <3>2
    <3>3. CASE b # Len(audio)
      <4>1. futures[speculation].to \in Int
        BY <1>0, <2>1 DEF FutureTypes, Links
      <4>2. b \in futures[speculation].to + 1 .. Judged
        BY <1>0, <1>1, <3>3, <4>1 DEF Judged
      <4> QED BY <1>0, <2>1, <2>3, <4>2 DEF SpecInv
    <3> QED BY <3>2, <3>3
  <2>4. ~invalid' => futures[speculation].result # "fast"
    BY <1>0, <2>1 DEF SpecInv
  <2>5. Judged' = Len(audio)
    BY <1>1 DEF Judged
  <2>6. audio' = audio
    BY <1>1
  <2> QED BY <2>1, <2>2, <2>3, <2>4, <2>5, <2>6 DEF SpecInv
<1>12. ChunkInv'
  <2>1. ChunkEnd' = ChunkEnd
    BY <1>1 DEF ChunkEnd
  <2> QED BY <1>0, <1>1, <1>4, <2>1, ChunksKept
<1>13. ListedInv'
  <2> SUFFICES ASSUME NEW i \in 1..Len(chunks)
               PROVE  /\ futures[chunks[i]].state # "cancelled"
                      /\ futures[chunks[i]].result # "fast"
                      /\ speculation' # 0 => chunks[i] < speculation'
    BY <1>1, <1>4 DEF ListedInv
  <2> QED BY <1>0, <1>1 DEF ListedInv
<1>14. FinisherInv'
  <2>1. UNCHANGED <<via, parakeet, finisherVars>> /\ callback # "idle"
    BY DEF Judge
  <2> QED BY <1>0, <2>1, CallbackKeepsReads
<1>15. TInv'
  BY <1>5, <1>6, <1>7, <1>8, <1>9, <1>10, Whole
<1> QED BY <1>4, <1>11, <1>12, <1>13, <1>14, <1>15 DEF IInv

\* A future that was just submitted waits behind all others.
LEMMA SubmitKeepsOrder ==
    ASSUME FutureTypes, FifoInv, Len(futures') = Len(futures) + 1,
           futures'[Len(futures) + 1].state = "queued",
           \A j \in 1..Len(futures) : futures'[j] = futures[j]
    PROVE  FifoInv'
<1>1. Len(futures) \in Nat
  BY DEF FutureTypes
<1> SUFFICES ASSUME NEW a \in 1..(Len(futures) + 1),
                    NEW b \in 1..(Len(futures) + 1), a < b, Open(a)'
             PROVE  futures'[b].state \in {"queued", "cancelled"}
  BY DEF FifoInv
<1>2. a \in 1..Len(futures) /\ Open(a)
  BY <1>1 DEF Open
<1>3. CASE b \in 1..Len(futures)
  BY <1>2, <1>3 DEF FifoInv
<1>4. CASE b = Len(futures) + 1
  BY <1>4
<1> QED BY <1>1, <1>3, <1>4

LEMMA SubmitKeepsTypes ==
    ASSUME FutureTypes, Counts, NEW speculative \in BOOLEAN, audio' = audio,
           cut < Len(audio), futures' = Submitted(cut, speculative)
    PROVE  /\ FutureTypes' /\ KeepsRanges
           /\ Len(futures) \in Nat /\ Len(futures') = Len(futures) + 1
           /\ futures'[Len(futures) + 1] =
                [from |-> cut, to |-> Len(audio), speculative |-> speculative,
                 state |-> "queued", result |-> "none"]
           /\ \A j \in 1..Len(futures) : futures'[j] = futures[j]
<1>1. cut \in Nat /\ Len(audio) \in Nat /\ Len(futures) \in Nat
  BY DEF Counts, FutureTypes
<1>2. /\ futures' \in Seq(Futures) /\ KeepsRanges
      /\ Len(futures') = Len(futures) + 1
      /\ futures'[Len(futures) + 1] =
           [from |-> cut, to |-> Len(audio), speculative |-> speculative,
            state |-> "queued", result |-> "none"]
      /\ \A j \in 1..Len(futures) : futures'[j] = futures[j]
  BY <1>1, FutureSubmitted
<1>3. 1..Len(futures') \ 1..Len(futures) = {Len(futures) + 1}
  BY <1>1, <1>2
<1>4. /\ futures'[Len(futures) + 1].from = cut
      /\ futures'[Len(futures) + 1].to = Len(audio)
  BY <1>2
<1>5. FutureTypes'
  BY <1>1, <1>2, <1>3, <1>4, RangesTyped
<1> QED BY <1>1, <1>2, <1>5

LEMMA SpeculateKeeps ==
    ASSUME IInv, Speculate
    PROVE  IInv'
<1>0. /\ Shape /\ Flags /\ Counts /\ FutureTypes /\ Links
      /\ FifoInv /\ SpecInv /\ ChunkInv /\ ListedInv /\ FinisherInv
      /\ Len(futures) \in Nat /\ Len(audio) \in Nat
  BY Parts DEF IInv, FutureTypes, Counts
<1>1. /\ callback = "judged" /\ callback' = "speculated"
      /\ UNCHANGED <<via, parakeet, audio, level, silent, voiced, cut, chunks>>
      /\ UNCHANGED <<recording, finisher, overtaken, heard, itsCut, itsChunks,
                     last>>
      /\ UNCHANGED finisherVars
  BY DEF Speculate, finisherVars
<1>2. Judged' = Len(audio) /\ Judged = Len(audio) /\ ChunkEnd' = ChunkEnd
  BY <1>1 DEF Judged, ChunkEnd
<1>3. Shape'
  BY <1>0, <1>1 DEF Shape
<1>4. Counts' /\ JustAppended'
  BY <1>0, <1>1 DEF Counts, JustAppended
<1>5. FinisherInv'
  BY <1>0, <1>1, CallbackKeepsReads
<1>6. ASSUME ShouldStartSpeculation
      PROVE  IInv'
  <2>1. /\ futures' = Submitted(cut, TRUE)
        /\ speculation' = Len(futures) + 1 /\ ~invalid' /\ invalid' = FALSE
    BY <1>6 DEF Speculate
  <2>2. cut < Len(audio)
    BY <1>0, <1>6, CaptureAssumption DEF ShouldStartSpeculation, Counts
  <2>3. /\ FutureTypes' /\ KeepsRanges /\ Len(futures') = Len(futures) + 1
        /\ futures'[Len(futures) + 1] =
             [from |-> cut, to |-> Len(audio), speculative |-> TRUE,
              state |-> "queued", result |-> "none"]
        /\ \A j \in 1..Len(futures) : futures'[j] = futures[j]
    BY <1>0, <1>1, <2>1, <2>2, SubmitKeepsTypes
  <2>4. /\ futures'[Len(futures) + 1].from = cut
        /\ futures'[Len(futures) + 1].to = Len(audio)
        /\ futures'[Len(futures) + 1].state = "queued"
        /\ futures'[Len(futures) + 1].result = "none"
    BY <2>3
  <2>5. Flags'
    BY <1>0, <1>1, <2>1 DEF Flags
  <2>6. Links'
    <3>1. 1..Len(futures) \subseteq 1..Len(futures')
      BY <1>0, <2>3
    <3>2. speculation' \in 0..Len(futures')
      <4>1. \A n \in Nat : n + 1 \in 0..n + 1
        OBVIOUS
      <4>2. Len(futures') = Len(futures) + 1
        BY <2>3
      <4> QED BY <1>0, <2>1, <4>1, <4>2
    <3>3. chunks' \in Seq(1..Len(futures')) /\ itsChunks' \in Seq(1..Len(futures'))
      BY <1>0, <1>1, <3>1, SeqMonotonic DEF Links
    <3> QED BY <2>1, <3>2, <3>3 DEF Links
  <2>7. FifoInv'
    BY <1>0, <2>3, <2>4, SubmitKeepsOrder
  <2>8. SpecInv'
    <3>1. \A b \in Len(audio) + 1 .. Len(audio) : audio[b] = "quiet"
      BY <1>0
    <3>2. cut' = cut /\ audio' = audio
      BY <1>1
    <3> QED BY <1>2, <2>1, <2>4, <3>1, <3>2 DEF SpecInv
  <2>9. ChunkInv'
    BY <1>0, <1>1, <1>2, <2>3, ChunksKept
  <2>10. ListedInv'
    <3> SUFFICES ASSUME NEW i \in 1..Len(chunks)
                 PROVE  /\ futures'[chunks[i]].state # "cancelled"
                        /\ futures'[chunks[i]].result # "fast"
                        /\ chunks[i] < Len(futures) + 1
      BY <1>1, <2>1 DEF ListedInv
    <3>1. chunks[i] \in 1..Len(futures)
      BY <1>0 DEF Links
    <3> QED BY <1>0, <2>3, <3>1 DEF ListedInv
  <2>11. TInv'
    BY <1>3, <1>4, <2>3, <2>5, <2>6, Whole
  <2> QED BY <1>5, <2>7, <2>8, <2>9, <2>10, <2>11 DEF IInv
<1>7. ASSUME ~ShouldStartSpeculation
      PROVE  IInv'
  <2>1. UNCHANGED <<futures, speculation, invalid>>
    BY <1>7 DEF Speculate
  <2>2. FutureTypes' /\ Links' /\ FifoInv'
    BY <1>0, <1>1, <2>1 DEF FutureTypes, Links, FifoInv, Open
  <2>3. Flags'
    BY <1>0, <1>1, <2>1 DEF Flags
  <2>4. SpecInv'
    BY <1>0, <1>1, <1>2, <2>1 DEF SpecInv
  <2>5. ChunkInv'
    BY <1>0, <1>1, <1>2, <2>1 DEF ChunkInv
  <2>6. ListedInv'
    BY <1>0, <1>1, <2>1 DEF ListedInv
  <2>7. TInv'
    BY <1>3, <1>4, <2>2, <2>3, Whole
  <2> QED BY <1>5, <2>2, <2>4, <2>5, <2>6, <2>7 DEF IInv
<1> QED BY <1>6, <1>7

\* The chunks go on where they ended, with one that reaches the last voice.
LEMMA ChunkAdded ==
    ASSUME Links, FutureTypes, Counts, ChunkInv, KeepsRanges,
           ChunkEnd = cut, ChunkEnd' = Len(audio), audio' = audio,
           NEW f \in 1..Len(futures'), chunks' = Append(chunks, f),
           futures'[f].from = cut, futures'[f].to \in 0..Len(audio),
           \A b \in futures'[f].to + 1 .. Len(audio) : audio[b] = "quiet"
    PROVE  ChunkInv'
<1>1. /\ Len(audio) \in Nat /\ cut \in 0..Len(audio)
      /\ Len(futures) \in Nat /\ Len(chunks) \in Nat
      /\ chunks \in Seq(1..Len(futures))
  BY DEF Counts, FutureTypes, Links
<1>2. \A i \in 1..Len(chunks) : chunks[i] \in 1..Len(futures)
  BY <1>1
<1>3. /\ Len(chunks') = Len(chunks) + 1 /\ chunks'[Len(chunks) + 1] = f
      /\ \A i \in 1..Len(chunks) : chunks'[i] = chunks[i]
  BY <1>1
<1>4. ASSUME NEW i \in 1..Len(chunks)
      PROVE  /\ futures'[chunks'[i]].from = futures[chunks[i]].from
             /\ futures'[chunks'[i]].to = futures[chunks[i]].to
             /\ futures[chunks[i]].to \in Int
  <2>1. chunks'[i] = chunks[i] /\ chunks[i] \in 1..Len(futures)
    BY <1>2, <1>3
  <2>2. futures[chunks[i]].to \in Int
    BY SMTT(30), <1>1, <2>1 DEF FutureTypes
  <2> QED BY <2>1, <2>2 DEF KeepsRanges
<1>5. \A i \in 1..Len(chunks) : futures[chunks[i]].to <= cut
  BY DEF ChunkInv
<1>6. ASSUME NEW i \in 1..Len(chunks')
      PROVE  futures'[chunks'[i]].to <= Len(audio)
  <2>1. CASE i \in 1..Len(chunks)
    <3>1. /\ futures'[chunks'[i]].to = futures[chunks[i]].to
          /\ futures[chunks[i]].to \in Int /\ futures[chunks[i]].to <= cut
      BY <1>4, <1>5, <2>1
    <3> QED BY SMTT(30), <1>1, <3>1
  <2>2. CASE i = Len(chunks) + 1
    BY <1>3, <2>2
  <2> QED BY <1>1, <1>3, <2>1, <2>2
<1>7. ASSUME NEW i \in 1..Len(chunks'), NEW j \in 1..Len(chunks'), i < j
      PROVE  futures'[chunks'[i]].to <= futures'[chunks'[j]].from
  <2>1. i \in 1..Len(chunks)
    BY <1>1, <1>3, <1>7
  <2>2. CASE j \in 1..Len(chunks)
    BY <1>4, <1>7, <2>1, <2>2 DEF ChunkInv
  <2>3. CASE j = Len(chunks) + 1
    BY <1>3, <1>4, <1>5, <2>1, <2>3
  <2> QED BY SMTT(30), <1>1, <1>3, <2>2, <2>3
<1>8. ASSUME NEW b \in 1..Len(audio), audio[b] = "voice"
      PROVE  \E i \in 1..Len(chunks') :
                b \in futures'[chunks'[i]].from + 1 .. futures'[chunks'[i]].to
  <2>1. CASE b \in 1..cut
    <3>1. PICK i \in 1..Len(chunks) :
             b \in futures[chunks[i]].from + 1 .. futures[chunks[i]].to
      BY <1>8, <2>1 DEF ChunkInv
    <3>2. i \in 1..Len(chunks')
      BY <1>1, <1>3
    <3>3. b \in futures'[chunks'[i]].from + 1 .. futures'[chunks'[i]].to
      BY <1>4, <3>1
    <3> QED BY <3>2, <3>3
  <2>2. CASE b \in cut + 1 .. Len(audio)
    <3>1. b \in cut + 1 .. futures'[f].to
      <4>1. ASSUME b > futures'[f].to
            PROVE  FALSE
        <5>1. b \in futures'[f].to + 1 .. Len(audio)
          BY <1>1, <2>2, <4>1
        <5> QED BY <1>8, <5>1
      <4> QED BY <1>1, <2>2, <4>1
    <3>2. Len(chunks) + 1 \in 1..Len(chunks')
      BY <1>1, <1>3
    <3>3. b \in futures'[chunks'[Len(chunks) + 1]].from + 1
                .. futures'[chunks'[Len(chunks) + 1]].to
      BY <1>3, <3>1
    <3> QED BY <3>2, <3>3
  <2>3. b \in 1..cut \/ b \in cut + 1 .. Len(audio)
    BY <1>1, <1>8
  <2> QED BY <2>1, <2>2, <2>3
<1> QED BY <1>6, <1>7, <1>8 DEF ChunkInv

LEMMA ListChunkKeeps ==
    ASSUME IInv, ListChunk
    PROVE  IInv'
<1>0. /\ Shape /\ Flags /\ Counts /\ FutureTypes /\ Links
      /\ FifoInv /\ SpecInv /\ ChunkInv /\ ListedInv /\ FinisherInv
      /\ Len(futures) \in Nat /\ Len(audio) \in Nat /\ cut \in 0..Len(audio)
  BY Parts DEF IInv, FutureTypes, Counts
<1>1. /\ callback = "speculated" /\ callback' = "listed"
      /\ UNCHANGED <<via, parakeet, audio, level, silent, voiced, cut,
                     speculation, invalid>>
      /\ UNCHANGED <<recording, finisher, overtaken, heard, itsCut, itsChunks,
                     last>>
      /\ UNCHANGED finisherVars
  BY DEF ListChunk, finisherVars
<1>2. /\ Judged' = Len(audio) /\ Judged = Len(audio)
      /\ ChunkEnd = cut /\ ChunkEnd' = Len(audio)
  BY <1>1 DEF Judged, ChunkEnd
<1>3. Shape'
  BY <1>0, <1>1 DEF Shape
<1>4. Counts' /\ JustAppended'
  BY <1>0, <1>1 DEF Counts, JustAppended
<1>5. Flags'
  BY <1>0, <1>1 DEF Flags
<1>6. FinisherInv'
  BY <1>0, <1>1, CallbackKeepsReads
<1>7. chunks \in Seq(1..Len(futures)) /\ Len(chunks) \in Nat
  BY <1>0 DEF Links
<1>8. \A i \in 1..Len(chunks) : chunks[i] \in 1..Len(futures)
  BY <1>7
<1>9. ASSUME CanReuseSpeculation(cut)
      PROVE  IInv'
  <2>1. /\ chunks' = Append(chunks, speculation) /\ futures' = futures
        /\ speculation # 0 /\ ~invalid
    BY <1>9 DEF ListChunk, CanReuseSpeculation
  <2>2. speculation \in 1..Len(futures) /\ KeepsRanges
    BY <1>0, <2>1, NoFutureMoves DEF Links
  <2>3. /\ futures[speculation].from = cut
        /\ futures[speculation].to \in 0..Len(audio)
        /\ futures[speculation].state # "cancelled"
        /\ futures[speculation].result # "fast"
        /\ \A b \in futures[speculation].to + 1 .. Len(audio) :
                audio[b] = "quiet"
    <3>1. futures[speculation].to \in 0..Len(audio)
      BY <1>0, <2>2 DEF FutureTypes
    <3> QED BY <1>0, <1>2, <2>1, <3>1 DEF SpecInv
  <2>4. ChunkInv'
    <3>1. PICK f \in 1..Len(futures') : f = speculation
      BY <2>1, <2>2
    <3> QED BY <1>0, <1>1, <1>2, <2>1, <2>2, <2>3, <3>1, ChunkAdded
  <2>5. FutureTypes' /\ FifoInv'
    BY <1>0, <1>1, <2>1 DEF FutureTypes, FifoInv, Open
  <2>6. Links'
    BY <1>0, <1>1, <2>1, <2>2 DEF Links
  <2>7. SpecInv'
    BY <1>0, <1>1, <1>2, <2>1 DEF SpecInv
  <2>8. ListedInv'
    <3>1. /\ Len(chunks') = Len(chunks) + 1
          /\ chunks'[Len(chunks) + 1] = speculation
          /\ \A i \in 1..Len(chunks) : chunks'[i] = chunks[i]
      BY <1>7, <2>1, <2>2
    <3> SUFFICES ASSUME NEW i \in 1..Len(chunks')
                 PROVE  /\ futures[chunks'[i]].state # "cancelled"
                        /\ futures[chunks'[i]].result # "fast"
                        /\ chunks'[i] < speculation \/ chunks'[i] = speculation
      BY <1>1, <2>1 DEF ListedInv
    <3>2. CASE i \in 1..Len(chunks)
      <4>1. chunks'[i] = chunks[i]
        BY <3>1, <3>2
      <4> QED BY <1>0, <1>1, <2>1, <3>2, <4>1 DEF ListedInv
    <3>3. CASE i = Len(chunks) + 1
      <4>1. chunks'[i] = speculation
        BY <3>1, <3>3
      <4> QED BY <2>3, <4>1
    <3> QED BY <1>7, <3>1, <3>2, <3>3
  <2>9. TInv'
    BY <1>3, <1>4, <1>5, <2>5, <2>6, Whole
  <2> QED BY <1>6, <2>4, <2>5, <2>7, <2>8, <2>9 DEF IInv
<1>10. ASSUME ~CanReuseSpeculation(cut)
       PROVE  IInv'
  <2>1. /\ futures' = Submitted(cut, FALSE)
        /\ chunks' = Append(chunks, Len(futures) + 1)
    BY <1>10 DEF ListChunk
  <2>2. cut < Len(audio)
    BY <1>0, CaptureAssumption DEF ListChunk, PauseEndsChunk
  <2>3. /\ FutureTypes' /\ KeepsRanges /\ Len(futures') = Len(futures) + 1
        /\ futures'[Len(futures) + 1] =
             [from |-> cut, to |-> Len(audio), speculative |-> FALSE,
              state |-> "queued", result |-> "none"]
        /\ \A j \in 1..Len(futures) : futures'[j] = futures[j]
    BY <1>0, <1>1, <2>1, <2>2, SubmitKeepsTypes
  <2>4. /\ futures'[Len(futures) + 1].from = cut
        /\ futures'[Len(futures) + 1].to = Len(audio)
        /\ futures'[Len(futures) + 1].state = "queued"
        /\ futures'[Len(futures) + 1].result = "none"
        /\ ~futures'[Len(futures) + 1].speculative
    BY <2>3
  <2>5. PICK f \in 1..Len(futures') : f = Len(futures) + 1
    BY <1>0, <2>3
  <2>6. ChunkInv'
    <3>1. \A b \in Len(audio) + 1 .. Len(audio) : audio[b] = "quiet"
      BY <1>0
    <3>2. /\ futures'[f].from = cut /\ futures'[f].to = Len(audio)
          /\ chunks' = Append(chunks, f)
      BY <2>1, <2>4, <2>5
    <3>3. Len(audio) \in 0..Len(audio)
      BY <1>0
    <3> QED BY <1>0, <1>1, <1>2, <2>3, <2>5, <3>1, <3>2, <3>3, ChunkAdded
  <2>7. FifoInv'
    BY <1>0, <2>3, <2>4, SubmitKeepsOrder
  <2>8. Links'
    <3>1. 1..Len(futures) \subseteq 1..Len(futures')
      BY <1>0, <2>3
    <3>2. chunks \in Seq(1..Len(futures')) /\ itsChunks' \in Seq(1..Len(futures'))
      BY <1>0, <1>1, <3>1, SeqMonotonic DEF Links
    <3>3. chunks' \in Seq(1..Len(futures'))
      <4>1. chunks' = Append(chunks, f)
        BY <2>1, <2>5
      <4> QED BY <2>5, <3>2, <4>1
    <3>4. speculation' \in 0..Len(futures')
      BY <1>0, <1>1, <2>3 DEF Links
    <3> QED BY <1>0, <1>1, <3>2, <3>3, <3>4 DEF Links
  <2>9. SpecInv'
    <3> SUFFICES ASSUME speculation # 0
                 PROVE  SpecInv'
      BY <1>1 DEF SpecInv
    <3>1. futures'[speculation] = futures[speculation]
      BY <1>0, <2>3 DEF Links
    <3> QED BY <1>0, <1>1, <1>2, <3>1 DEF SpecInv
  <2>10. ListedInv'
    <3>1. /\ Len(chunks') = Len(chunks) + 1
          /\ chunks'[Len(chunks) + 1] = Len(futures) + 1
          /\ \A i \in 1..Len(chunks) : chunks'[i] = chunks[i]
      BY <1>7, <2>1
    <3> SUFFICES ASSUME NEW i \in 1..Len(chunks')
                 PROVE  /\ futures'[chunks'[i]].state # "cancelled"
                        /\ futures'[chunks'[i]].result # "fast"
                        /\ speculation # 0 =>
                            \/ chunks'[i] < speculation
                            \/ ~futures'[chunks'[i]].speculative
      BY <1>1 DEF ListedInv
    <3>2. CASE i \in 1..Len(chunks)
      <4>1. chunks'[i] = chunks[i] /\ futures'[chunks[i]] = futures[chunks[i]]
        BY <1>8, <2>3, <3>1, <3>2
      <4> QED BY <1>0, <1>1, <3>2, <4>1 DEF ListedInv
    <3>3. CASE i = Len(chunks) + 1
      <4>1. chunks'[i] = Len(futures) + 1
        BY <3>1, <3>3
      <4> QED BY <2>4, <4>1
    <3> QED BY <1>7, <3>1, <3>2, <3>3
  <2>11. TInv'
    BY <1>3, <1>4, <1>5, <2>3, <2>8, Whole
  <2> QED BY <1>6, <2>6, <2>7, <2>9, <2>10, <2>11 DEF IInv
<1> QED BY <1>9, <1>10

-----------------------------------------------------------------------------
(* The theorems.                                                           *)

LEMMA InitHolds ==
    ASSUME Init
    PROVE  IInv
<1>1. /\ audio = <<>> /\ futures = <<>> /\ chunks = <<>> /\ itsChunks = <<>>
      /\ silent = 0 /\ cut = 0 /\ speculation = 0 /\ heard = 0 /\ itsCut = 0
      /\ recording = TRUE /\ voiced = FALSE /\ invalid = FALSE
      /\ overtaken = FALSE
      /\ via \in {"pool", "flight"} /\ parakeet \in BOOLEAN
      /\ callback = "idle" /\ level = "quiet"
      /\ finisher = "held" /\ last = NoPiece
  BY DEF Init
<1>2. /\ Len(audio) = 0 /\ Len(futures) = 0 /\ Len(chunks) = 0
      /\ audio \in Seq(Levels) /\ futures \in Seq(Futures)
      /\ chunks \in Seq(1..Len(futures)) /\ itsChunks \in Seq(1..Len(futures))
  BY <1>1
<1>3. last.kind = "none"
  BY <1>1 DEF NoPiece
<1>4. TypeOK
  <2>1. /\ recording \in BOOLEAN /\ voiced \in BOOLEAN /\ invalid \in BOOLEAN
        /\ overtaken \in BOOLEAN
    BY <1>1
  <2>2. /\ silent \in 0..Len(audio) /\ cut \in 0..Len(audio)
        /\ heard \in 0..Len(audio) /\ itsCut \in 0..Len(audio)
        /\ speculation \in 0..Len(futures) /\ 1..Len(futures) = {}
    BY <1>1, <1>2
  <2>3. /\ callback \in {"idle", "entered", "appended", "judged", "speculated",
                         "listed"}
        /\ finisher \in {"held", "stopping", "stopped", "has audio", "has cut",
                         "has chunks", "planned"}
        /\ level \in Levels
    BY <1>1 DEF Levels
  <2> QED BY <1>1, <1>2, <1>3, <2>1, <2>2, <2>3 DEF TypeOK
<1>5. TInv
  BY <1>1, <1>2, <1>4 DEF TInv
<1>6. FifoInv /\ SpecInv /\ ChunkInv /\ ListedInv
  BY <1>1, <1>2 DEF FifoInv, SpecInv, ChunkInv, ChunkEnd, ListedInv
<1>7. FinisherInv
  BY <1>1 DEF FinisherInv
<1> QED BY <1>5, <1>6, <1>7 DEF IInv

LEMMA StepKeeps ==
    ASSUME IInv, [Next]_vars
    PROVE  IInv'
<1>1. ASSUME UNCHANGED vars
      PROVE  IInv'
  <2>1. UNCHANGED <<via, parakeet, audio, callback, level, silent, voiced, cut,
                    chunks, speculation, invalid, futures, recording, finisher,
                    overtaken, heard, itsCut, itsChunks, last>>
    BY <1>1 DEF vars, callbackVars, segmentVars, finisherVars
  <2>2. TInv'
    <3>0. Shape /\ Flags /\ Counts /\ FutureTypes /\ Links /\ JustAppended
      BY Parts DEF IInv
    <3>1. Shape' /\ Flags'
      BY ZenonT(60), <2>1, <3>0 DEF Shape, Flags
    <3>2. Counts' /\ FutureTypes' /\ Links'
      BY <2>1, <3>0 DEF Counts, FutureTypes, Links
    <3>3. JustAppended'
      BY <2>1, <3>0 DEF JustAppended, Judged
    <3> QED BY <3>1, <3>2, <3>3, Whole
  <2>3. FifoInv' /\ SpecInv' /\ ListedInv'
    BY <2>1 DEF IInv, FifoInv, Open, SpecInv, Judged, ListedInv
  <2>4. ChunkInv'
    BY <2>1 DEF IInv, ChunkInv, ChunkEnd
  <2>5. FinisherInv'
    BY <2>1 DEF IInv, FinisherInv, Undisturbed, CanReuseSpeculation, Remainder
  <2> QED BY <2>2, <2>3, <2>4, <2>5 DEF IInv
<1> QED
  BY <1>1, EnterKeeps, AppendBlockKeeps, JudgeKeeps, SpeculateKeeps,
     ListChunkKeeps, CutSegmentKeeps, KeepSegmentKeeps, WorkerStepsKeep,
     FinisherStepsKeep
  DEF Next, CallbackSteps

\* The inductive invariant: where the futures of a take lie, and in which order
\* the one worker takes them.
THEOREM CaptureInvariant == Spec => []IInv
<1>1. Init => IInv
  BY InitHolds
<1>2. IInv /\ [Next]_vars => IInv'
  BY StepKeeps
<1> QED BY <1>1, <1>2, PTL DEF Spec

\* Every field of a Recorder keeps its type and its range.
THEOREM CaptureTypeCorrect == Spec => []TypeOK
<1>1. IInv => TypeOK
  BY DEF IInv, TInv
<1> QED BY <1>1, CaptureInvariant, PTL

\* What an undisturbed finisher assembles: the chunks, and the speculation of
\* the last segment if it is reused.
LEMMA WhatIsAssembled ==
    ASSUME IInv, finisher = "planned", Undisturbed
    PROVE  /\ callback = "idle" /\ itsCut = cut /\ itsChunks = chunks
           /\ heard = Len(audio)
           /\ \/ /\ last.kind = "speculation" /\ speculation # 0 /\ ~invalid
                 /\ Assembled = {chunks[i] : i \in 1..Len(chunks)}
                                    \cup {speculation}
              \/ /\ last = Remainder
                 /\ Assembled = {chunks[i] : i \in 1..Len(chunks)}
<1>1. /\ callback = "idle" /\ itsCut = cut /\ itsChunks = chunks
      /\ heard = Len(audio)
      /\ \/ /\ last.kind = "speculation" /\ last.future = speculation
            /\ speculation # 0 /\ ~invalid
         \/ ~CanReuseSpeculation(cut) /\ last = Remainder
  BY DEF IInv, FinisherInv
<1>2. Remainder.future = 0
  BY DEF Remainder, NoPiece
<1> QED BY <1>1, <1>2 DEF Assembled

\* Where there is a Parakeet route, nothing is accepted for its confidence.
RouteInv ==
    parakeet => \A i \in 1..Len(futures) : futures[i].result # "accepted"

LEMMA SubmittedIsRouted ==
    ASSUME IInv, RouteInv, parakeet, NEW from \in Nat,
           NEW speculative \in BOOLEAN, futures' = Submitted(from, speculative)
    PROVE  \A i \in 1..Len(futures') : futures'[i].result # "accepted"
<1>1. FutureTypes /\ Len(audio) \in Nat /\ Len(futures) \in Nat
  BY Parts DEF IInv, Counts, FutureTypes
<1>2. /\ Len(futures') = Len(futures) + 1
      /\ futures'[Len(futures) + 1] =
            [from |-> from, to |-> Len(audio), speculative |-> speculative,
             state |-> "queued", result |-> "none"]
      /\ \A j \in 1..Len(futures) : futures'[j] = futures[j]
  BY <1>1, FutureSubmitted
<1>3. futures'[Len(futures) + 1].result = "none"
  BY <1>2
<1> QED BY <1>1, <1>2, <1>3 DEF RouteInv

LEMMA MovedIsRouted ==
    ASSUME IInv, RouteInv, parakeet, NEW i \in 1..Len(futures),
           NEW state \in States, NEW result \in Results, result # "accepted",
           \/ Moves(i, state, result)
           \/ /\ futures' = [futures EXCEPT ![i].state = state]
              /\ result = futures[i].result
    PROVE  \A j \in 1..Len(futures') : futures'[j].result # "accepted"
<1>1. FutureTypes
  BY Parts DEF IInv
<1>2. Becomes(i, state, result)
  BY <1>1, FutureMoves
<1> QED BY <1>2 DEF Becomes, RouteInv

LEMMA StepKeepsRoute ==
    ASSUME IInv, RouteInv, [Next]_vars
    PROVE  RouteInv'
<1> SUFFICES ASSUME parakeet, parakeet' = parakeet
             PROVE  \A i \in 1..Len(futures') : futures'[i].result # "accepted"
  <2>1. parakeet' = parakeet
    BY DEF Next, CallbackSteps, WorkerSteps, FinisherSteps, Enter, AppendBlock,
       Judge, Speculate, ListChunk, CutSegment, KeepSegment, WorkerTakes,
       ChunkDecoded, FastDecoded, Verified, StopRecording, StreamQuiet,
       ReadAudio, ReadCut, ReadChunks, PlanDecode, vars
  <2> QED BY <2>1 DEF RouteInv
<1>0. cut \in Nat /\ speculation \in 0..Len(futures) /\ FutureTypes
  BY Parts DEF IInv, Counts, Links
<1>1. CASE futures' = futures
  BY <1>1 DEF RouteInv
<1>2. CASE WorkerSteps
  <2>1. PICK i \in 1..Len(futures) :
          \/ Moves(i, "running", "none") \/ Moves(i, "verifying", "none")
          \/ Moves(i, "done", "fast") \/ Moves(i, "done", "final")
    BY <1>2 DEF WorkerSteps, WorkerTakes, ChunkDecoded, FastDecoded, Verified
  <2> QED BY <2>1, MovedIsRouted DEF States, Results
<1>3. CASE Judge
  <2>1. \/ futures' = futures
        \/ /\ Current \in 1..Len(futures)
           /\ futures' = [futures EXCEPT ![Current].state = "cancelled"]
    BY <1>0, <1>3 DEF Judge, Current
  <2>2. ASSUME NEW i \in 1..Len(futures),
               futures' = [futures EXCEPT ![i].state = "cancelled"]
        PROVE  \A j \in 1..Len(futures') : futures'[j].result # "accepted"
    <3>1. futures[i] \in Futures /\ "cancelled" \in States
      BY <1>0 DEF FutureTypes, States
    <3>2. futures[i].result \in Results /\ futures[i].result # "accepted"
      BY <3>1 DEF RouteInv, Futures
    <3> QED BY <2>2, <3>1, <3>2, MovedIsRouted
  <2> QED BY <1>1, <2>1, <2>2
<1>4. CASE Speculate \/ ListChunk
  <2>1. \/ futures' = futures
        \/ futures' = Submitted(cut, TRUE) \/ futures' = Submitted(cut, FALSE)
    BY <1>4 DEF Speculate, ListChunk
  <2> QED BY <1>0, <1>1, <2>1, SubmittedIsRouted
<1>5. CASE Enter \/ AppendBlock \/ CutSegment \/ KeepSegment \/ FinisherSteps
  <2>1. futures' = futures
    BY <1>5 DEF Enter, AppendBlock, CutSegment, KeepSegment, FinisherSteps,
       StopRecording, StreamQuiet, ReadAudio, ReadCut, ReadChunks, PlanDecode
  <2> QED BY <1>1, <2>1
<1>6. CASE UNCHANGED vars
  BY <1>1, <1>6 DEF vars
<1> QED
  BY <1>2, <1>3, <1>4, <1>5, <1>6 DEF Next, CallbackSteps

\* What is assembled was not cancelled, not cut short, and verified wherever
\* there is a Parakeet route, for any thresholds and any number of speculations
\* (_speculative_frames, finish_and_process).
THEOREM ReuseIsFinal == Spec => []ReusedIsFinal
<1>1. ASSUME IInv, RouteInv
      PROVE  ReusedIsFinal
  <2> SUFFICES ASSUME finisher = "planned", Undisturbed, NEW f \in Assembled
               PROVE  /\ futures[f].state # "cancelled"
                      /\ futures[f].result # "fast"
                      /\ parakeet => futures[f].result # "accepted"
    BY DEF ReusedIsFinal
  <2>0. f \in 1..Len(futures)
    <3>1. chunks \in Seq(1..Len(futures)) /\ speculation \in 0..Len(futures)
      BY <1>1, Parts DEF IInv, Links
    <3>2. \/ f \in {chunks[i] : i \in 1..Len(chunks)}
          \/ f = speculation /\ speculation # 0
      BY <1>1, WhatIsAssembled
    <3> QED BY <3>1, <3>2
  <2>1. CASE f \in {chunks[i] : i \in 1..Len(chunks)}
    BY <1>1, <2>0, <2>1 DEF IInv, ListedInv, RouteInv
  <2>2. CASE f = speculation /\ speculation # 0 /\ ~invalid
    BY <1>1, <2>0, <2>2 DEF IInv, SpecInv, RouteInv
  <2> QED BY <1>1, <2>1, <2>2, WhatIsAssembled
<1>2. Init => RouteInv
  BY DEF Init, RouteInv
<1>3. IInv /\ RouteInv /\ [Next]_vars => RouteInv'
  BY StepKeepsRoute
<1>4. Spec => []RouteInv
  BY <1>2, <1>3, CaptureInvariant, PTL DEF Spec
<1> QED BY <1>1, <1>4, CaptureInvariant, PTL

LEMMA AtMostOne ==
    ASSUME NEW S, \A x, y \in S : x = y
    PROVE  /\ Cardinality(S) \in {0, 1}
           /\ Cardinality(S) = 0 => S = {}
<1>1. CASE S = {}
  BY <1>1, FS_EmptySet
<1>2. CASE S # {}
  <2>1. PICK x : S = {x}
    BY <1>2
  <2> QED BY <2>1, FS_Singleton
<1> QED BY <1>1, <1>2

\* No block of a take is in two pieces, and none with voice is in no piece but
\* in a remainder that is too short.
THEOREM VoiceDecodedOnce == Spec => []DecodedOnce
<1>1. ASSUME IInv
      PROVE  DecodedOnce
  <2> SUFFICES ASSUME finisher = "planned", Undisturbed, NEW b \in 1..heard
               PROVE  /\ PiecesWith(b) <= 1
                      /\ audio[b] = "voice" /\ PiecesWith(b) = 0 =>
                             b > itsCut /\ heard - itsCut < RemainderMin
    BY DEF DecodedOnce
  <2> DEFINE chunk(i) == futures[chunks[i]].from + 1 .. futures[chunks[i]].to
             Holding == {f \in Assembled :
                           b \in futures[f].from + 1 .. futures[f].to}
             rest == IF last.kind = "remainder" /\ b \in last.from + 1 .. last.to
                     THEN 1 ELSE 0
  <2>0. /\ Counts /\ FutureTypes /\ Links /\ SpecInv /\ ChunkInv
        /\ Len(audio) \in Nat /\ cut \in 0..Len(audio) /\ Len(chunks) \in Nat
        /\ Len(futures) \in Nat
    BY <1>1, Parts DEF IInv, Counts, Links, FutureTypes
  <2>1. /\ callback = "idle" /\ itsCut = cut /\ heard = Len(audio)
        /\ \/ /\ last.kind = "speculation" /\ speculation # 0 /\ ~invalid
              /\ Assembled = {chunks[i] : i \in 1..Len(chunks)}
                                 \cup {speculation}
           \/ /\ last = Remainder
              /\ Assembled = {chunks[i] : i \in 1..Len(chunks)}
    BY <1>1, WhatIsAssembled
  <2>2. ASSUME NEW i \in 1..Len(chunks)
        PROVE  /\ futures[chunks[i]].from \in Nat
               /\ futures[chunks[i]].to \in Nat
               /\ futures[chunks[i]].to <= cut
    <3>1. chunks[i] \in 1..Len(futures)
      BY <2>0 DEF Links
    <3>2. futures[chunks[i]].to <= cut
      BY <2>0, <2>1 DEF ChunkInv, ChunkEnd
    <3> QED BY <2>0, <3>1, <3>2 DEF FutureTypes
  <2>3. ASSUME NEW i \in 1..Len(chunks), NEW j \in 1..Len(chunks),
               b \in chunk(i), b \in chunk(j)
        PROVE  i = j
    <3>1. \A k, l \in 1..Len(chunks) :
            k < l => futures[chunks[k]].to <= futures[chunks[l]].from
      BY <2>0 DEF ChunkInv
    <3>2. /\ futures[chunks[i]].from < b /\ b <= futures[chunks[i]].to
          /\ futures[chunks[j]].from < b /\ b <= futures[chunks[j]].to
      BY <2>2, <2>3
    <3>3. ~(futures[chunks[i]].to <= futures[chunks[j]].from)
      BY <2>2, <2>3, <3>2
    <3>4. ~(futures[chunks[j]].to <= futures[chunks[i]].from)
      BY <2>2, <2>3, <3>2
    <3>5. ~(i < j) /\ ~(j < i)
      BY <3>1, <3>3, <3>4
    <3> QED BY <2>0, <3>5
  <2>4. ASSUME speculation # 0
        PROVE  /\ futures[speculation].from = cut
               /\ futures[speculation].to \in Nat
    <3>1. speculation \in 1..Len(futures)
      BY <2>0, <2>4 DEF Links
    <3> QED BY <2>0, <2>4, <3>1 DEF SpecInv, FutureTypes
  <2>5. PiecesWith(b) = Cardinality(Holding) + rest
    BY DEF PiecesWith
  <2>6. \A f, g \in Holding : f = g
    <3> SUFFICES ASSUME NEW f \in Assembled, NEW g \in Assembled,
                        b \in futures[f].from + 1 .. futures[f].to,
                        b \in futures[g].from + 1 .. futures[g].to
                 PROVE  f = g
      OBVIOUS
    <3>1. \A h \in Assembled :
            \/ \E i \in 1..Len(chunks) : h = chunks[i]
            \/ h = speculation /\ speculation # 0
      BY <2>1
    <3>2. ASSUME NEW i \in 1..Len(chunks), b \in chunk(i), speculation # 0,
                 b \in futures[speculation].from + 1 .. futures[speculation].to
          PROVE  FALSE
      BY SMTT(30), <2>0, <2>2, <2>4, <3>2
    <3> QED BY <2>3, <3>1, <3>2
  <2>7. /\ Cardinality(Holding) \in {0, 1}
        /\ Cardinality(Holding) = 0 => Holding = {}
    <3> HIDE DEF Holding
    <3> QED BY <2>6, AtMostOne
  <2>8. CASE last.kind = "speculation" /\ speculation # 0 /\ ~invalid
             /\ Assembled = {chunks[i] : i \in 1..Len(chunks)}
                                \cup {speculation}
    <3>1. rest = 0
      BY <2>8
    <3>2. ASSUME audio[b] = "voice", Holding = {}
          PROVE  FALSE
      <4>1. CASE b <= cut
        <5>1. PICK i \in 1..Len(chunks) : b \in chunk(i)
          BY <2>0, <2>1, <3>2, <4>1 DEF ChunkInv, ChunkEnd
        <5>2. chunks[i] \in Holding
          BY <2>8, <5>1
        <5> QED BY <3>2, <5>2
      <4>2. CASE b > cut
        <5>1. b <= futures[speculation].to
          <6>1. ASSUME b > futures[speculation].to
                PROVE  FALSE
            <7>1. b \in futures[speculation].to + 1 .. Judged
              BY <2>0, <2>1, <2>4, <2>8, <6>1 DEF Judged
            <7> QED BY <2>0, <2>8, <3>2, <7>1 DEF SpecInv
          <6> QED BY <2>4, <2>8, <6>1
        <5>2. b \in futures[speculation].from + 1 .. futures[speculation].to
          BY <2>0, <2>4, <2>8, <4>2, <5>1
        <5>3. speculation \in Holding
          BY <2>8, <5>2
        <5> QED BY <3>2, <5>3
      <4> QED BY <2>0, <4>1, <4>2
    <3> HIDE DEF Holding, rest
    <3> QED BY <2>5, <2>7, <3>1, <3>2
  <2>9. CASE last = Remainder
             /\ Assembled = {chunks[i] : i \in 1..Len(chunks)}
    <3>1. rest \in {0, 1}
      OBVIOUS
    <3>2. rest = 1 => b > cut
      BY <2>0, <2>1, <2>9 DEF Remainder, NoPiece
    <3>3. b > cut => Holding = {}
      <4>1. ASSUME b > cut, NEW i \in 1..Len(chunks), b \in chunk(i)
            PROVE  FALSE
        BY <2>0, <2>2, <4>1
      <4> QED BY <2>9, <4>1
    <3>4. audio[b] = "voice" /\ Holding = {} => b > cut
      <4> SUFFICES ASSUME audio[b] = "voice", Holding = {}, b <= cut
                   PROVE  FALSE
        BY <2>0
      <4>1. PICK i \in 1..Len(chunks) : b \in chunk(i)
        BY <2>0, <2>1 DEF ChunkInv, ChunkEnd
      <4>2. chunks[i] \in Holding
        BY <2>9, <4>1
      <4> QED BY <4>2
    <3>5. audio[b] = "voice" /\ b > cut /\ ~(heard - cut < RemainderMin) =>
            rest = 1
      <4> SUFFICES ASSUME audio[b] = "voice", b > cut,
                          ~(heard - cut < RemainderMin)
                   PROVE  rest = 1
        OBVIOUS
      <4>1. b \in cut + 1 .. heard /\ heard - cut >= RemainderMin
        BY <2>0, <2>1, CaptureAssumption
      <4>2. last = [kind |-> "remainder", from |-> cut, to |-> heard,
                    future |-> 0]
        BY <2>1, <2>9, <4>1 DEF Remainder
      <4> QED BY <4>1, <4>2
    <3>6. Cardinality({}) = 0
      BY FS_EmptySet
    <3> HIDE DEF Holding, rest
    <3>7. PiecesWith(b) <= 1
      BY <2>5, <2>7, <3>1, <3>2, <3>3, <3>6
    <3>8. ASSUME audio[b] = "voice", PiecesWith(b) = 0
          PROVE  b > cut /\ heard - cut < RemainderMin
      <4>1. rest = 0 /\ Cardinality(Holding) = 0
        BY <2>5, <2>7, <3>1, <3>8
      <4> QED BY <2>7, <3>4, <3>5, <3>8, <4>1
    <3> QED BY <2>1, <3>7, <3>8
  <2> QED BY <2>1, <2>8, <2>9
<1> QED BY <1>1, CaptureInvariant, PTL
=============================================================================
