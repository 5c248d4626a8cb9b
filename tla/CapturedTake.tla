---------------------------- MODULE CapturedTake ----------------------------
(***************************************************************************)
(* dictate.py, class Recorder: one take from its first audio block to the  *)
(* plan of what is decoded.  While the key is held the audio callback cuts *)
(* chunks at long pauses and speculates on short ones; the finisher stops  *)
(* the stream, reads what the callback left, and decodes the remainder.    *)
(*                                                                         *)
(* Audio is a sequence of blocks, each with voice or quiet.  A decode is a *)
(* future of CHUNK_PREP_POOL over the blocks from + 1 .. to.  The take may *)
(* be heard through the audio pool, whose stream stops before it returns,  *)
(* or through the Flight Recorder, whose callback may still be inside.     *)
(***************************************************************************)
EXTENDS Integers, SequencesExt

CONSTANTS
    SpeculateMin,       \* SPECULATIVE_MIN_SECONDS, in blocks
    SpeculateSilence,   \* SPECULATIVE_SILENCE
    ChunkMin,           \* CHUNK_MIN_SECONDS
    ChunkSilence,       \* CHUNK_CUT_SILENCE
    RemainderMin,       \* 0.25 s: a shorter remainder is not decoded
    MaxBlocks           \* bound: blocks of a take

ASSUME CaptureAssumption ==
    {SpeculateMin, SpeculateSilence, ChunkMin, ChunkSilence, RemainderMin,
     MaxBlocks} \subseteq Nat \ {0}

VARIABLES
    via,                        \* "pool" or "flight"
    parakeet,                   \* final_parakeet_route, by platform, language
    audio,                      \* frames
    recording,
    callback, level,            \* where the callback is, the block it has
    silent, voiced, cut, chunks,
    speculation, invalid,       \* speculative_future (0: None), _invalid
    futures,                    \* all that was submitted to CHUNK_PREP_POOL
    finisher,                   \* where the finisher is
    overtaken,                  \* history: it found the callback inside
    heard, itsCut, itsChunks,   \* what it has read
    last                        \* the last piece: a future, a remainder, none

segmentVars == <<silent, voiced, cut, chunks, speculation, invalid>>
callbackVars == <<audio, callback, level, segmentVars>>
finisherVars == <<recording, finisher, overtaken, heard, itsCut, itsChunks,
                  last>>
vars == <<via, parakeet, callbackVars, futures, finisherVars>>

Levels == {"voice", "quiet"}
NoPiece == [kind |-> "none", from |-> 0, to |-> 0, future |-> 0]

TypeOK ==
    /\ via \in {"pool", "flight"}
    /\ parakeet \in BOOLEAN
    /\ audio \in Seq(Levels)
    /\ recording \in BOOLEAN
    /\ callback \in {"idle", "entered", "appended", "judged", "speculated",
                     "listed"}
    /\ level \in Levels
    /\ silent \in 0..Len(audio) /\ voiced \in BOOLEAN
    /\ cut \in 0..Len(audio)
    /\ \A i \in 1..Len(futures) :
        /\ futures[i].from \in 0..Len(audio)
        /\ futures[i].to \in futures[i].from + 1 .. Len(audio)
        /\ futures[i].speculative \in BOOLEAN
        /\ futures[i].state \in {"queued", "running", "verifying", "done",
                                 "cancelled"}
        /\ futures[i].result \in {"none", "fast", "accepted", "final"}
    /\ chunks \in Seq(1..Len(futures))
    /\ speculation \in 0..Len(futures)
    /\ invalid \in BOOLEAN /\ (invalid => speculation # 0)
    /\ finisher \in {"held", "stopping", "stopped", "has audio", "has cut",
                     "has chunks", "planned"}
    /\ overtaken \in BOOLEAN
    /\ heard \in 0..Len(audio) /\ itsCut \in 0..Len(audio)
    /\ itsChunks \in Seq(1..Len(futures))
    /\ last.kind \in {"none", "speculation", "remainder"}

Init ==
    /\ via \in {"pool", "flight"} /\ parakeet \in BOOLEAN
    /\ audio = <<>> /\ recording = TRUE
    /\ callback = "idle" /\ level = "quiet"
    /\ silent = 0 /\ voiced = FALSE /\ cut = 0 /\ chunks = <<>>
    /\ speculation = 0 /\ invalid = FALSE
    /\ futures = <<>>
    /\ finisher = "held" /\ overtaken = FALSE
    /\ heard = 0 /\ itsCut = 0 /\ itsChunks = <<>> /\ last = NoPiece

-----------------------------------------------------------------------------
(* CHUNK_PREP_POOL: one worker, first in, first out.                       *)

Submitted(from, speculative) ==
    Append(futures, [from |-> from, to |-> Len(audio),
                     speculative |-> speculative,
                     state |-> "queued", result |-> "none"])

\* Wrong variant: a second worker takes a future while the first is at one.
BusyTwice ==
    \E i, j \in 1..Len(futures) :
        /\ i # j
        /\ futures[i].state \in {"running", "verifying"}
        /\ futures[j].state \in {"running", "verifying"}

Busy ==
    \E i \in 1..Len(futures) : futures[i].state \in {"running", "verifying"}

Moves(i, state, result) ==
    futures' = [futures EXCEPT ![i].state = state, ![i].result = result]

\* The worker takes the next future.
WorkerTakes ==
    /\ ~Busy
    /\ \E i \in 1..Len(futures) :
        /\ futures[i].state = "queued"
        /\ \A j \in 1..(i - 1) : futures[j].state # "queued"
        /\ Moves(i, "running", "none")
    /\ UNCHANGED <<via, parakeet, callbackVars, finisherVars>>

\* _transcribe_frames returns.
ChunkDecoded ==
    /\ \E i \in 1..Len(futures) :
        /\ futures[i].state = "running" /\ ~futures[i].speculative
        /\ Moves(i, "done", "final")
    /\ UNCHANGED <<via, parakeet, callbackVars, finisherVars>>

\* Wrong variant: confidence decides whatever the route.
AcceptConfident ==
    /\ \E i \in 1..Len(futures) :
        /\ futures[i].state = "running" /\ futures[i].speculative
        /\ IF invalid THEN Moves(i, "done", "fast")
           ELSE \/ Moves(i, "verifying", "none")
                \/ Moves(i, "done", "accepted")
    /\ UNCHANGED <<via, parakeet, callbackVars, finisherVars>>

\* _speculative_frames: the fast decode is all there is once the speculation
\* no longer counts.  Otherwise it is verified, unless there is no Parakeet
\* route and its confidence will do.
FastDecoded ==
    /\ \E i \in 1..Len(futures) :
        /\ futures[i].state = "running" /\ futures[i].speculative
        /\ \/ invalid /\ Moves(i, "done", "fast")
           \/ ~invalid /\ Moves(i, "verifying", "none")
           \/ ~invalid /\ ~parakeet /\ Moves(i, "done", "accepted")
    /\ UNCHANGED <<via, parakeet, callbackVars, finisherVars>>

Verified ==
    /\ \E i \in 1..Len(futures) :
        /\ futures[i].state = "verifying"
        /\ Moves(i, "done", "final")
    /\ UNCHANGED <<via, parakeet, callbackVars, finisherVars>>

-----------------------------------------------------------------------------
(* The audio callback, for one block.                                      *)

\* It finds the take recording.
Enter ==
    /\ callback = "idle" /\ recording
    /\ Len(audio) < MaxBlocks
    /\ level' \in Levels
    /\ callback' = "entered"
    /\ UNCHANGED <<via, parakeet, audio, segmentVars, futures, finisherVars>>

AppendBlock ==
    /\ callback = "entered"
    /\ audio' = Append(audio, level)
    /\ callback' = "appended"
    /\ UNCHANGED <<via, parakeet, level, segmentVars, futures, finisherVars>>

\* A speculation that stopped counting is dropped once it is done.
Current ==
    IF speculation # 0 /\ invalid /\ futures[speculation].state = "done"
    THEN 0 ELSE speculation

\* Wrong variant: voice leaves the speculation as it is.
JudgeOnly ==
    /\ callback = "appended"
    /\ silent' = IF level = "quiet" THEN silent + 1 ELSE 0
    /\ voiced' = (voiced \/ level = "voice")
    /\ speculation' = Current
    /\ invalid' = (invalid /\ Current # 0)
    /\ callback' = "judged"
    /\ UNCHANGED <<via, parakeet, audio, level, cut, chunks, futures,
                   finisherVars>>

\* Voice after a speculation: cancel it, or have it no longer count.
Judge ==
    /\ callback = "appended"
    /\ silent' = IF level = "quiet" THEN silent + 1 ELSE 0
    /\ voiced' = (voiced \/ level = "voice")
    /\ LET cancels == /\ level = "voice" /\ Current # 0
                      /\ futures[Current].state = "queued"
       IN /\ speculation' = IF cancels THEN 0 ELSE Current
          /\ invalid' = (speculation' # 0 /\ (invalid \/ level = "voice"))
          /\ futures' = IF cancels
                        THEN [futures EXCEPT ![Current].state = "cancelled"]
                        ELSE futures
    /\ callback' = "judged"
    /\ UNCHANGED <<via, parakeet, audio, level, cut, chunks, finisherVars>>

ShouldStartSpeculation ==
    /\ voiced /\ speculation = 0
    /\ Len(audio) - cut >= SpeculateMin
    /\ silent >= SpeculateSilence

Speculate ==
    /\ callback = "judged"
    /\ IF ShouldStartSpeculation
       THEN /\ futures' = Submitted(cut, TRUE)
            /\ speculation' = Len(futures) + 1
            /\ invalid' = FALSE
       ELSE UNCHANGED <<futures, speculation, invalid>>
    /\ callback' = "speculated"
    /\ UNCHANGED <<via, parakeet, audio, level, silent, voiced, cut, chunks,
                   finisherVars>>

CanReuseSpeculation(currentCut) ==
    speculation # 0 /\ ~invalid /\ futures[speculation].from = currentCut

PauseEndsChunk ==
    voiced /\ Len(audio) - cut >= ChunkMin /\ silent >= ChunkSilence

\* A long pause: the segment is a chunk, decoded by its speculation or anew.
ListChunk ==
    /\ callback = "speculated" /\ PauseEndsChunk
    /\ IF CanReuseSpeculation(cut)
       THEN chunks' = Append(chunks, speculation) /\ UNCHANGED futures
       ELSE /\ futures' = Submitted(cut, FALSE)
            /\ chunks' = Append(chunks, Len(futures) + 1)
    /\ callback' = "listed"
    /\ UNCHANGED <<via, parakeet, audio, level, silent, voiced, cut,
                   speculation, invalid, finisherVars>>

\* Wrong variant: the flag of the last speculation outlives it.
CutAndKeepFlag ==
    /\ callback = "listed"
    /\ speculation' = 0
    /\ cut' = Len(audio)
    /\ voiced' = FALSE
    /\ callback' = "idle"
    /\ UNCHANGED <<via, parakeet, audio, level, silent, chunks, invalid,
                   futures, finisherVars>>

CutSegment ==
    /\ callback = "listed"
    /\ speculation' = 0 /\ invalid' = FALSE
    /\ cut' = Len(audio)
    /\ voiced' = FALSE
    /\ callback' = "idle"
    /\ UNCHANGED <<via, parakeet, audio, level, silent, chunks, futures,
                   finisherVars>>

KeepSegment ==
    /\ callback = "speculated" /\ ~PauseEndsChunk
    /\ callback' = "idle"
    /\ UNCHANGED <<via, parakeet, audio, level, segmentVars, futures,
                   finisherVars>>

-----------------------------------------------------------------------------
(* The finisher, after the key is released (and the tail was captured).    *)

finisherReads == <<heard, itsCut, itsChunks, last>>

\* Recorder.stop: no block enters any more ...
StopRecording ==
    /\ finisher = "held"
    /\ recording' = FALSE
    /\ finisher' = "stopping"
    /\ UNCHANGED <<via, parakeet, callbackVars, futures, overtaken,
                   finisherReads>>

\* ... and the slot's stream has stopped, or the Flight Recorder is detached.
StreamQuiet ==
    /\ finisher = "stopping"
    /\ via = "pool" => callback = "idle"
    /\ overtaken' = (callback # "idle")
    /\ finisher' = "stopped"
    /\ UNCHANGED <<via, parakeet, callbackVars, futures, recording,
                   finisherReads>>

ReadAudio ==
    /\ finisher = "stopped"
    /\ heard' = Len(audio)
    /\ finisher' = "has audio"
    /\ UNCHANGED <<via, parakeet, callbackVars, futures, recording, overtaken,
                   itsCut, itsChunks, last>>

ReadCut ==
    /\ finisher = "has audio"
    /\ itsCut' = cut
    /\ finisher' = "has cut"
    /\ UNCHANGED <<via, parakeet, callbackVars, futures, recording, overtaken,
                   heard, itsChunks, last>>

ReadChunks ==
    /\ finisher = "has cut"
    /\ itsChunks' = chunks
    /\ finisher' = "has chunks"
    /\ UNCHANGED <<via, parakeet, callbackVars, futures, recording, overtaken,
                   heard, itsCut, last>>

\* A remainder that is long and loud enough is decoded, now or when the parts
\* are assembled.
Remainder ==
    IF /\ heard - itsCut >= RemainderMin
       /\ \E i \in (itsCut + 1)..heard : audio[i] = "voice"
    THEN [kind |-> "remainder", from |-> itsCut, to |-> heard, future |-> 0]
    ELSE NoPiece

PlanDecode ==
    /\ finisher = "has chunks"
    /\ last' = IF CanReuseSpeculation(itsCut)
               THEN [kind |-> "speculation",
                     from |-> futures[speculation].from,
                     to |-> futures[speculation].to, future |-> speculation]
               ELSE Remainder
    /\ finisher' = "planned"
    /\ UNCHANGED <<via, parakeet, callbackVars, futures, recording, overtaken,
                   heard, itsCut, itsChunks>>

-----------------------------------------------------------------------------
CallbackSteps ==
    Enter \/ AppendBlock \/ Judge \/ Speculate \/ ListChunk \/ CutSegment
    \/ KeepSegment

WorkerSteps == WorkerTakes \/ ChunkDecoded \/ FastDecoded \/ Verified

FinisherSteps ==
    StopRecording \/ StreamQuiet \/ ReadAudio \/ ReadCut \/ ReadChunks
    \/ PlanDecode

Next == CallbackSteps \/ WorkerSteps \/ FinisherSteps

Spec == Init /\ [][Next]_vars

-----------------------------------------------------------------------------
(* Properties.                                                             *)

\* The finisher read a quiet take.
Undisturbed == via = "pool" \/ ~overtaken

\* The futures whose text is assembled.
Assembled ==
    {itsChunks[i] : i \in 1..Len(itsChunks)} \cup ({last.future} \ {0})

\* How many of the assembled pieces hold block i.
PiecesWith(i) ==
    Cardinality({f \in Assembled : i \in futures[f].from + 1 .. futures[f].to})
    + (IF last.kind = "remainder" /\ i \in last.from + 1 .. last.to
       THEN 1 ELSE 0)

\* Every block with voice is decoded in exactly one piece, and no block in two,
\* whatever was speculated, cancelled and cut; only a remainder below a quarter
\* of a second is left out (Recorder._callback, finish_and_process).
DecodedOnce ==
    finisher = "planned" /\ Undisturbed =>
        \A i \in 1..heard :
            /\ PiecesWith(i) <= 1
            /\ audio[i] = "voice" /\ PiecesWith(i) = 0 =>
                   i > itsCut /\ heard - itsCut < RemainderMin

\* A speculation that is assembled was neither cancelled nor cut short because
\* it no longer counted: one flag of the recorder and one worker keep a later
\* speculation from spoiling an earlier one.  It was verified, or, where there
\* is no Parakeet route, the fast decode was confident (_speculative_frames).
ReusedIsFinal ==
    finisher = "planned" /\ Undisturbed =>
        \A f \in Assembled :
            /\ futures[f].state # "cancelled" /\ futures[f].result # "fast"
            /\ parakeet => futures[f].result # "accepted"
=============================================================================
