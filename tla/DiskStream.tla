--------------------------- MODULE DiskStream ---------------------------
(***************************************************************************)
(* Recording the master output to a file (src/file_streamer.rs, its use in *)
(* RuntimeAudioProcessor and in NativeRuntime::set_streaming).  Three      *)
(* threads: the control thread starts a stream, hands its PcmOutput to the *)
(* callback, stops it and joins; the audio callback copies each rendered   *)
(* block into a block of the stream's pool and queues it; an encoder       *)
(* thread of the stream writes the blocks and recycles them.               *)
(*                                                                         *)
(* Every stream has its own status, rings and thread.  Blocks are counted: *)
(* the rings are FIFO, so that what is still queued when the file closes   *)
(* is what the file lacks at its end.  The definitions whose name starts   *)
(* with Bad are faults a change to the code could introduce.               *)
(***************************************************************************)
EXTENDS Naturals

CONSTANTS
  MaxStreams,   \* bound: streams started in one session
  PoolBlocks    \* DEFAULT_BUFFER_BLOCKS: the pool and both rings

ASSUME StreamAssumption == MaxStreams \in Nat \ {0} /\ PoolBlocks \in Nat \ {0}

Streams == 1..MaxStreams
NoStream    == 0

VARIABLES
  control,    \* what the control thread is doing
  started,    \* streams started so far; the last one is the current
  streaming,  \* r.streamer and StreamState::Writing: the stream, or NoStream
  handoff,    \* stream_queue, capacity 1: the stream of the PcmOutput in it
  installed,  \* stream_output of the processor: the stream of the PcmOutput
  callback,   \* where the audio callback is
  status,     \* the AtomicU8 of every stream
  encoder,    \* where the encoder thread of every stream is
  file,       \* what became of the file of every stream
  unused,     \* PcmOutput::free of every stream
  ring,       \* blocks queued for the encoder
  emptied     \* blocks on their way back

streamVars == <<control, started, streaming, handoff, installed, callback,
          status, encoder, file, unused, ring, emptied>>

controls  == <<control, started, streaming>>
callbacks == <<installed, callback>>
blocks    == <<unused, ring, emptied>>

StreamInit ==
  /\ control = "idle" /\ started = 0 /\ streaming = NoStream
  /\ handoff = NoStream /\ installed = NoStream /\ callback = "retire"
  /\ status   = [g \in Streams |-> "idle"]
  /\ encoder  = [g \in Streams |-> "none"]
  /\ file     = [g \in Streams |-> "none"]
  /\ unused   = [g \in Streams |-> 0]
  /\ ring     = [g \in Streams |-> 0]
  /\ emptied  = [g \in Streams |-> 0]

--------------------------------------------------------------------------
(* The control thread                                                      *)

\* start_writing: a fresh status, a whole pool, a thread.
StartWriting ==
  /\ control = "idle" /\ streaming = NoStream /\ started < MaxStreams
  /\ started' = started + 1
  /\ control' = "handoff"
  /\ status'  = [status EXCEPT ![started + 1] = "writing"]
  /\ encoder' = [encoder EXCEPT ![started + 1] = "open"]
  /\ unused'  = [unused EXCEPT ![started + 1] = PoolBlocks]
  /\ UNCHANGED <<streaming, handoff, callbacks, file, ring, emptied>>

HandOver ==
  /\ control = "handoff" /\ handoff = NoStream
  /\ handoff' = started
  /\ streaming' = started
  /\ control' = "idle"
  /\ UNCHANGED <<started, callbacks, status, encoder, file, blocks>>

\* The callback has not taken the last PcmOutput yet: this one is given up.
HandOverRefused ==
  /\ control = "handoff" /\ handoff # NoStream
  /\ control' = "stop"
  /\ UNCHANGED <<started, streaming, handoff, callbacks, status, encoder, file, blocks>>

\* The user stops the stream, or the event loop sees that it has ended by itself.
Stop ==
  /\ control = "idle" /\ streaming # NoStream
  /\ control' = "stop"
  /\ UNCHANGED <<started, streaming, handoff, callbacks, status, encoder, file, blocks>>

\* Mutant: the encoder is joined but never told.
BadRequestStop ==
  /\ control = "stop"
  /\ control' = "join"
  /\ UNCHANGED <<started, streaming, handoff, callbacks, status, encoder, file, blocks>>

RequestStop ==
  /\ control = "stop"
  /\ control' = "join"
  /\ status' = [status EXCEPT ![started] = IF @ = "writing" THEN "stopPending" ELSE @]
  /\ UNCHANGED <<started, streaming, handoff, callbacks, encoder, file, blocks>>

Join ==
  /\ control = "join" /\ encoder[started] = "done"
  /\ control' = "idle"
  /\ streaming' = NoStream
  /\ status' = [status EXCEPT ![started] = "idle"]
  /\ UNCHANGED <<started, handoff, callbacks, encoder, file, blocks>>

--------------------------------------------------------------------------
(* The audio callback                                                      *)

\* drain_commands drops an output whose stream is no longer written ...
Retire ==
  /\ callback = "retire"
  /\ callback' = "install"
  /\ installed' = IF installed # NoStream /\ status[installed] # "writing" THEN NoStream ELSE installed
  /\ UNCHANGED <<controls, handoff, status, encoder, file, blocks>>

\* ... and takes the next one.
Install ==
  /\ callback = "install"
  /\ callback' = "load"
  /\ installed' = IF installed = NoStream THEN handoff ELSE installed
  /\ handoff'   = IF installed = NoStream THEN NoStream ELSE handoff
  /\ UNCHANGED <<controls, status, encoder, file, blocks>>

\* push_audio looks at the status once, before it copies the block.
LoadStatus ==
  /\ callback = "load"
  /\ callback' = IF installed # NoStream /\ status[installed] = "writing" THEN "push" ELSE "retire"
  /\ UNCHANGED <<controls, handoff, installed, status, encoder, file, blocks>>

\* The size of the next block is checked before recycled blocks are taken back: with
\* no block at hand this one is dropped as an overrun.
DropBlock ==
  /\ callback = "push" /\ unused[installed] = 0
  /\ callback' = "retire"
  /\ UNCHANGED <<controls, handoff, installed, status, encoder, file, blocks>>

PushBlock ==
  /\ callback = "push" /\ unused[installed] > 0
  /\ callback' = "retire"
  /\ LET back == IF unused[installed] + emptied[installed] <= PoolBlocks THEN emptied[installed]
                 ELSE PoolBlocks - unused[installed]
         sent == IF ring[installed] < PoolBlocks THEN 1 ELSE 0
     IN /\ unused'  = [unused EXCEPT ![installed] = @ + back - sent]
        /\ emptied' = [emptied EXCEPT ![installed] = @ - back]
        /\ ring'     = [ring EXCEPT ![installed] = @ + sent]
  /\ UNCHANGED <<controls, handoff, installed, status, encoder, file>>

--------------------------------------------------------------------------
(* The encoder thread of stream g                                          *)

At(g, place) == encoder[g] = place
Goes(g, place) == encoder' = [encoder EXCEPT ![g] = place]

\* The file is created; setting the encoder up on it may fail.
OpenFile(g) ==
  /\ At(g, "open")
  /\ Goes(g, "check") \/ Goes(g, "failed")
  /\ file' = [file EXCEPT ![g] = "partial"]
  /\ UNCHANGED <<controls, handoff, callbacks, status, blocks>>

\* A file of that name exists, or the directory is gone: it is left alone.
OpenFileFails(g) ==
  /\ At(g, "open") /\ Goes(g, "done")
  /\ status' = [status EXCEPT ![g] = "error"]
  /\ UNCHANGED <<controls, handoff, callbacks, file, blocks>>

\* Only the encoder itself stores an error, as its last step.
Check(g) ==
  /\ At(g, "check")
  /\ Goes(g, IF status[g] = "stopPending" THEN "drain" ELSE "pop")
  /\ UNCHANGED <<controls, handoff, callbacks, status, file, blocks>>

\* An empty ring sends the thread to sleep for a millisecond.
Pop(g) ==
  /\ At(g, "pop")
  /\ Goes(g, IF ring[g] > 0 THEN "write" ELSE "check")
  /\ ring' = [ring EXCEPT ![g] = IF @ > 0 THEN @ - 1 ELSE @]
  /\ UNCHANGED <<controls, handoff, callbacks, status, file, unused, emptied>>

\* Mutant: one block is taken for all that were queued.
BadDrain(g) ==
  /\ At(g, "drain")
  /\ Goes(g, "close")
  /\ UNCHANGED <<controls, handoff, callbacks, status, file, blocks>>

\* After the stop: what is queued is written, then the file is closed.
Drain(g) ==
  /\ At(g, "drain")
  /\ Goes(g, IF ring[g] > 0 THEN "writeLast" ELSE "close")
  /\ ring' = [ring EXCEPT ![g] = IF @ > 0 THEN @ - 1 ELSE @]
  /\ UNCHANGED <<controls, handoff, callbacks, status, file, unused, emptied>>

\* write_block gives the block back whether or not the disk took it.
Recycle(g) == emptied' = [emptied EXCEPT ![g] = IF @ < PoolBlocks THEN @ + 1 ELSE @]

Writing(g) == encoder[g] \in {"write", "writeLast"}

Write(g) ==
  /\ Writing(g)
  /\ Goes(g, IF At(g, "write") THEN "check" ELSE "drain")
  /\ Recycle(g)
  /\ UNCHANGED <<controls, handoff, callbacks, status, file, unused, ring>>

WriteFails(g) ==
  /\ Writing(g)
  /\ Goes(g, "failed")
  /\ Recycle(g)
  /\ UNCHANGED <<controls, handoff, callbacks, status, file, unused, ring>>

CloseFileFails(g) ==
  /\ At(g, "close") /\ Goes(g, "failed")
  /\ UNCHANGED <<controls, handoff, callbacks, status, file, blocks>>

CloseFile(g) ==
  /\ At(g, "close") /\ Goes(g, "done")
  /\ file'   = [file EXCEPT ![g] = "complete"]
  /\ status' = [status EXCEPT ![g] = "idle"]
  /\ UNCHANGED <<controls, handoff, callbacks, blocks>>

Abandon(g) ==
  /\ At(g, "failed") /\ Goes(g, "done")
  /\ file'   = [file EXCEPT ![g] = "removed"]
  /\ status' = [status EXCEPT ![g] = "error"]
  /\ UNCHANGED <<controls, handoff, callbacks, blocks>>

--------------------------------------------------------------------------
ControlStep  == StartWriting \/ HandOver \/ HandOverRefused \/ Stop \/ RequestStop \/ Join
Finishing    == HandOver \/ HandOverRefused \/ RequestStop \/ Join
OutputStep   == Retire \/ Install \/ LoadStatus \/ DropBlock \/ PushBlock

EncoderStep(g) ==
  \/ OpenFile(g) \/ OpenFileFails(g) \/ Check(g) \/ Pop(g) \/ Drain(g)
  \/ Write(g) \/ WriteFails(g) \/ CloseFile(g) \/ CloseFileFails(g) \/ Abandon(g)

StreamNext == ControlStep \/ OutputStep \/ \E g \in Streams : EncoderStep(g)

StreamSpec == StreamInit /\ [][StreamNext]_streamVars

\* The device keeps calling back, the encoder wakes up after a millisecond at the
\* latest, and the control thread runs the call it is in to its end.
StreamFairSpec ==
  /\ StreamSpec
  /\ WF_streamVars(OutputStep) /\ WF_streamVars(Finishing)
  /\ \A g \in Streams : WF_streamVars(EncoderStep(g))

--------------------------------------------------------------------------
(* Properties                                                              *)

Held(g) == IF Writing(g) THEN 1 ELSE 0   \* in write_block

\* Every variable has a value of its type.
StreamTypeOK ==
  /\ control \in {"idle", "handoff", "stop", "join"}
  /\ started \in 0..MaxStreams
  /\ streaming \in 0..started /\ handoff \in 0..started /\ installed \in 0..started
  /\ callback \in {"retire", "install", "load", "push"}
  /\ status \in [Streams -> {"idle", "writing", "stopPending", "error"}]
  /\ encoder \in [Streams -> {"none", "open", "check", "pop", "write", "drain",
                              "writeLast", "close", "failed", "done"}]
  /\ file \in [Streams -> {"none", "partial", "complete", "removed"}]
  /\ unused \in [Streams -> Nat] /\ ring \in [Streams -> Nat] /\ emptied \in [Streams -> Nat]

\* Between the callback and the encoder no block of a started stream is lost or
\* made: the rings are never full and lost_blocks stays zero.
PoolConserved ==
  \A g \in Streams : g <= started => unused[g] + ring[g] + Held(g) + emptied[g] = PoolBlocks

\* A file that was closed well lacks at most the block the callback was copying
\* while the stop was requested (push_audio says TRUE for it).
LosesAtMostOne ==
  \A g \in Streams : file[g] = "complete" => ring[g] <= 1

\* A thread that has ended, for whatever reason, left a status that makes the
\* callback retire its output and the event loop collect its result.
EndIsSeen ==
  \A g \in Streams : encoder[g] = "done" => status[g] # "writing"

\* At most one stream has a thread, and it is the current one.
OneEncoder ==
  \A g \in Streams : encoder[g] \notin {"none", "done"} =>
    g = started /\ (streaming = g \/ control # "idle")

\* The call that stops a stream returns, whatever the disk and the callback do; and the
\* callback lets go of the output of a stream that has ended, so that the next stream can
\* be handed over.
StopReturns ==
  /\ control = "join" ~> control = "idle"
  /\ \A g \in Streams : (installed = g /\ encoder[g] = "done") ~> installed # g

\* "a momentarily exhausted pool only drops this block" (push_audio): when blocks
\* have come back the stream goes on.
ExhaustionIsMomentary ==
  \A g \in Streams :
    (installed = g /\ unused[g] = 0) ~> (unused[g] > 0 \/ status[g] # "writing")
==========================================================================
