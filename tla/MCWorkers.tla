---------------------------- MODULE MCWorkers ----------------------------
(***************************************************************************)
(* One run for what surrounds the audio callback: the threads that         *)
(* allocate for it (loop-storage, mem-mgr), the one that writes its stream *)
(* to the disk, the files of the library, the MIDI clock it sends, and the *)
(* ring that brings it what was captured.  They share no variable, so that *)
(* their product would only multiply their states: a behaviour is one of   *)
(* one of them, chosen at the start, and the others stay where they began. *)
(***************************************************************************)
EXTENDS LoopStorage, DiskStream, MemoryPool, LibraryFiles, MidiClock, DuplexRing

VARIABLE part

workersVars == <<part, vars, streamVars, poolVars, libraryVars, clockVars, duplexVars>>

WorkersInit ==
  /\ part \in {"storage", "stream", "memory", "files", "clock", "duplex"}
  /\ Init /\ StreamInit /\ PoolInit /\ FilesInit /\ ClockInit /\ DuplexInit
  /\ part # "memory" => blockMode

Storage == part = "storage" /\ UNCHANGED <<part, streamVars, poolVars, libraryVars, clockVars, duplexVars>>
Stream  == part = "stream" /\ UNCHANGED <<part, vars, poolVars, libraryVars, clockVars, duplexVars>>
Memory  == part = "memory" /\ UNCHANGED <<part, vars, streamVars, libraryVars, clockVars, duplexVars>>
Library == part = "files" /\ UNCHANGED <<part, vars, streamVars, poolVars, clockVars, duplexVars>>

Clock   == part = "clock" /\ UNCHANGED <<part, vars, streamVars, poolVars, libraryVars, duplexVars>>
Duplex  == part = "duplex" /\ UNCHANGED <<part, vars, streamVars, poolVars, libraryVars, clockVars>>

WorkersNext ==
  \/ Storage /\ Next
  \/ Stream /\ StreamNext
  \/ Memory /\ PoolNext
  \/ Library /\ FilesNext
  \/ Clock /\ ClockNext
  \/ Duplex /\ DuplexNext
  \/ part = "duplex" /\ metrics.callbacks = MaxCallbacks /\ UNCHANGED workersVars   \* the bound
  \/ part = "memory" /\ manager = "gone" /\ UNCHANGED workersVars   \* nothing restocks any more

\* The fairness of each of the threads; nothing is promised of the files.
WorkersSpec ==
  /\ WorkersInit /\ [][WorkersNext]_workersVars
  /\ WF_vars(Storage /\ CallbackStep) /\ WF_vars(Storage /\ WorkerStep)
  /\ WF_streamVars(Stream /\ OutputStep) /\ WF_streamVars(Stream /\ Finishing)
  /\ \A g \in Streams : WF_streamVars(Stream /\ EncoderStep(g))
  /\ WF_poolVars(Memory /\ PoolCall) /\ WF_poolVars(Memory /\ PoolWorker)
==========================================================================
