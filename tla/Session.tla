----------------------------- MODULE Session -----------------------------
(***************************************************************************)
(* One run of the program: the phases of startup and their rollback        *)
(* (core_startup.rs, native_startup.rs), Core::go and the event loop's     *)
(* part in it (core.rs, application_services.rs), the ordered closing      *)
(* (production_app.rs) and what each of these does to the resources of     *)
(* native_runtime.rs.  Audio is activated on a thread of its own while the *)
(* main thread keeps the window alive, and is recovered by AudioRecovery.  *)
(*                                                                         *)
(* A phase is its name; `open` is the set of resources it leaves.          *)
(***************************************************************************)
EXTENDS AudioRecovery, Sequences

VARIABLES
  main,        \* what the main thread is doing
  step,        \* the step of setup() or of the closing it is at
  completed,   \* NativeStartupServices::completed
  open,        \* the resources that exist, and the DSP graph in PROCESSOR
  interfaces,  \* NativeComponents: video_open, input_open, midi_open, audio_open
  graph,       \* NativeComponents::graph_open
  writing,     \* RuntimeResources::stream_state = Writing
  name,        \* Core::stream_name is published
  thread,      \* "coreaudio-setup": "none", "activating", "ok", "failed"
  joined       \* the main thread still waits for it, or has

life        == <<main, step, completed>>
flags       == <<interfaces, graph>>
stream      == <<writing, name>>
activation      == <<thread, joined>>
sessionVars == <<audioVars, life, open, flags, stream, activation>>

\* The steps of setup(); those of the configuration are no phases and have no rollback.
Config == {"parse", "refresh", "refreshConfig", "startConfig"}
Phases == <<"LockMemory", "RtThreads", "MainThread", "PlatformThreads", "Sdl", "MemoryManager",
            "parse", "EventManager", "Video", "VideoReady", "Audio", "CoreGraph",
            "SynthAndBuffers", "Browsers", "InputAndMidi", "OscAndMixer", "SystemVariables",
            "refresh", "refreshConfig", "startConfig",
            "SignalProcessing", "StreamersAndRings", "ProcessingElements">>
Phase  == Phases[step]

\* What a phase creates.  JACK brings its MIDI with the audio.
Creates(p) ==
  CASE p = "LockMemory"      -> {"lock"}
    [] p = "Sdl"             -> {"input"}
    [] p = "MemoryManager"   -> {"memory"}
    [] p = "EventManager"    -> {"events"}
    [] p = "Video"           -> {"video"}
    [] p = "Audio"           -> {"audio"}
    [] p = "SynthAndBuffers" -> {"controls", "processor"}
    [] p = "Browsers"        -> {"browsers"}
    [] p = "InputAndMidi"    -> IF backend = "jack" THEN {"bridge"} ELSE {"bridge", "midi"}
    [] p = "OscAndMixer"     -> {"osc"}
    [] OTHER                 -> {}

\* What rollback_resource takes away; it can be asked for a phase that never started.
Removes(p) ==
  CASE p = "LockMemory"       -> {"lock"}
    [] p = "MemoryManager"    -> {"memory"}
    [] p = "EventManager"     -> {"events"}
    [] p = "Video"            -> {"video"}
    [] p = "Audio"            -> {"streamer", "audio", "controls"}
    [] p = "CoreGraph"        -> {"controls"}
    [] p = "Browsers"         -> {"browsers"}
    [] p = "InputAndMidi"     -> {"input", "midi", "bridge"}
    [] p = "OscAndMixer"      -> {"osc"}
    [] p = "SignalProcessing" -> {"streamer"}
    [] OTHER                  -> {}

\* Phases whose start can return an error.
Fallible == {"LockMemory", "PlatformThreads", "Sdl", "Video", "VideoReady", "Audio",
             "CoreGraph", "SynthAndBuffers", "Browsers", "InputAndMidi", "OscAndMixer",
             "SystemVariables", "StreamersAndRings"} \cup Config

\* AudioIO::close in both audio phases; the phase Audio drops the back end as well.
RemoveAudio(p, late) ==
  CASE p = "Audio" /\ "audio" \in open ->
         /\ late => Cpal /\ active
         /\ closure' = IF active THEN Dropped(late) ELSE closure
         /\ route' = NoRoute /\ retained' = FALSE /\ returning' = "none" /\ active' = FALSE
    [] p = "SignalProcessing" /\ "audio" \in open /\ active ->
         CloseDevices(late) /\ active' = FALSE
    [] OTHER -> late = FALSE /\ UNCHANGED <<route, retained, closure, returning, active>>

RollbackResource(p, late) ==
  /\ open' = open \ Removes(p)
  /\ RemoveAudio(p, late)
  /\ UNCHANGED <<outside, requested, inHand, polling, controller, rate>>

SessionInit ==
  /\ Idle
  /\ route = NoRoute /\ active = FALSE /\ closure = "none" /\ returning = "none" /\ rate = 0
  /\ main = "setup" /\ step = 1 /\ completed = <<>> /\ open = {}
  /\ interfaces = FALSE /\ graph = FALSE /\ writing = FALSE /\ name = FALSE
  /\ thread = "none" /\ joined = TRUE

--------------------------------------------------------------------------
(* setup()                                                                 *)

\* After the last phase the rollback stack is discarded.
Advance ==
  IF step = Len(Phases)
    THEN main' = "session" /\ step' = 1 /\ completed' = <<>>
    ELSE /\ main' = "setup" /\ step' = step + 1
         /\ completed' = IF Phase \in Config THEN completed ELSE Append(completed, Phase)

\* The phases without a step of their own; Audio reads the rate of the route it opens.
StartPhase ==
  /\ main = "setup" /\ Phase # "SignalProcessing"
  /\ open' = open \cup Creates(Phase)
  /\ IF Phase = "Audio"
       THEN OpenDevices /\ rate' = Rate(system)
       ELSE UNCHANGED <<route, requested, rate>>
  /\ Advance
  /\ UNCHANGED <<outside, processor, active, polling, controller, flags, stream, activation>>

\* A phase's start fails: it is rolled back at once.  A step of the configuration is not.
StartFails(late) ==
  /\ main = "setup" /\ Phase \in Fallible
  /\ main' = "rollback"
  /\ RollbackResource(Phase, late)
  /\ UNCHANGED <<step, completed, flags, stream, activation>>

\* SignalProcessing: the graph and the audio go to a thread.
StartActivation ==
  /\ main = "setup" /\ Phase = "SignalProcessing"
  /\ open' = open \ {"processor", "audio"} /\ inHand' = TRUE
  /\ thread' = "activating" /\ joined' = FALSE
  /\ main' = "activating"
  /\ UNCHANGED <<outside, route, requested, retained, closure, returning, active, polling,
                 controller, rate, step, completed, flags, stream>>

\* No thread: both are lost with the closure that was to carry them.
SpawnFails ==
  /\ main = "setup" /\ Phase = "SignalProcessing"
  /\ open' = open \ {"processor", "audio"}
  /\ route' = NoRoute
  /\ main' = "rollback"
  /\ UNCHANGED <<outside, requested, processor, active, polling, controller, rate,
                 step, completed, flags, stream, activation>>

\* AudioIO::activate on that thread.
ThreadActivates ==
  /\ thread = "activating"
  /\ RunStreams
  /\ active' = TRUE /\ thread' = "ok"
  /\ UNCHANGED <<outside, route, requested, polling, controller, rate, life, open,
                 flags, stream, joined>>

\* It fails and closes; CPAL may still hold the graph.
ThreadFails(late) ==
  /\ thread = "activating"
  /\ KeepProcessor(late)
  /\ route' = NoRoute /\ thread' = "failed"
  /\ UNCHANGED <<outside, requested, active, polling, controller, rate, life, open,
                 flags, stream, joined>>

\* The main thread joins it.  If it failed the phase is rolled back, which finds the audio
\* inactive.
JoinActivation ==
  /\ main = "activating" /\ thread \in {"ok", "failed"}
  /\ thread' = "none" /\ joined' = TRUE
  /\ open' = open \cup {"audio"}
  /\ main' = IF thread = "ok" THEN "probing" ELSE "rollback"
  /\ UNCHANGED <<audioVars, step, completed, flags, stream>>

\* Drawing the window fails while it runs: setup ends, the thread goes on alone.
AbandonActivation ==
  /\ main = "activating"
  /\ joined' = TRUE
  /\ main' = "rollback"
  /\ UNCHANGED <<audioVars, step, completed, open, flags, stream, thread>>

\* What the abandoned thread returns is dropped: AudioIO closes itself.
StrayEnds(late) ==
  /\ thread \in {"ok", "failed"} /\ joined
  /\ late => Cpal /\ closure = "running"
  /\ thread' = "none"
  /\ route' = NoRoute /\ retained' = FALSE /\ returning' = "none" /\ active' = FALSE
  /\ closure' = Dropped(late)
  /\ UNCHANGED <<outside, requested, inHand, polling, controller, rate, life, open,
                 flags, stream, joined>>

\* The callbacks have run, or three seconds have passed: the latency is measured.
ProbeEnds ==
  /\ main = "probing"
  /\ Advance
  /\ UNCHANGED <<audioVars, open, flags, stream, activation>>

BadProbeFails(late) ==             \* only completed phases are rolled back
  /\ main = "probing"
  /\ main' = "rollback" /\ late = FALSE
  /\ UNCHANGED <<audioVars, step, completed, open, flags, stream, activation>>

ProbeFails(late) ==
  /\ main = "probing"
  /\ main' = "rollback"
  /\ RollbackResource("SignalProcessing", late)
  /\ UNCHANGED <<step, completed, flags, stream, activation>>

\* rollback_setup: completed phases, the last one first.
RollbackStep(late) ==
  /\ main = "rollback" /\ completed # <<>>
  /\ RollbackResource(completed[Len(completed)], late)
  /\ completed' = SubSeq(completed, 1, Len(completed) - 1)
  /\ UNCHANGED <<main, step, flags, stream, activation>>

RollbackEnds ==
  /\ main = "rollback" /\ completed = <<>>
  /\ main' = "aborted"
  /\ UNCHANGED <<audioVars, step, completed, open, flags, stream, activation>>

--------------------------------------------------------------------------
(* go(): the session and its interfaces, then one event after the other    *)

Closing == main' = "closing" /\ step' = 1

\* The binding of StartSession may be refused.
StartSession ==
  /\ main = "session"
  /\ \/ main' = "interfaces" /\ graph' = TRUE /\ UNCHANGED step
     \/ Closing /\ UNCHANGED graph
  /\ UNCHANGED <<audioVars, completed, open, interfaces, stream, activation>>

\* The flags are set before the call; a session without Midir is not fully started.
StartInterfaces ==
  /\ main = "interfaces"
  /\ interfaces' = TRUE
  /\ \/ /\ {"audio", "midi", "input", "video", "controls"} \subseteq open
        /\ main' = "loop" /\ UNCHANGED step
     \/ Closing
  /\ UNCHANGED <<audioVars, completed, open, graph, stream, activation>>

InLoop == main = "loop" /\ polling = "idle"

LoopPoll ==
  /\ main = "loop"
  /\ \E due, broken \in BOOLEAN : Poll(due, broken)
  /\ UNCHANGED <<life, open, flags, stream, activation>>

LoopRecovers ==
  /\ main = "loop"
  /\ RecoverStep
  /\ UNCHANGED <<life, open, flags, stream, activation>>

\* The error of an exhausted recovery.
GiveUp ==
  /\ main = "loop" /\ polling = "over"
  /\ Closing
  /\ UNCHANGED <<audioVars, completed, open, flags, stream, activation>>

\* ExitSession (a window closed, a signal), or an error of a pass.
LeaveLoop ==
  /\ InLoop
  /\ Closing
  /\ UNCHANGED <<audioVars, completed, open, flags, stream, activation>>

\* toggle_disk_output: the name is published once the stream is accepted.
StartStream ==
  /\ InLoop /\ ~writing
  /\ writing' = TRUE /\ name' = TRUE
  /\ open' = open \cup {"streamer"}
  /\ UNCHANGED <<audioVars, life, flags, activation>>

\* The streamer is finalized; its error ends the session before the name is cleared.
StopStream ==
  /\ InLoop /\ writing
  /\ writing' = FALSE
  /\ open' = open \ {"streamer"}
  /\ \/ name' = FALSE /\ UNCHANGED <<main, step>>
     \/ Closing /\ UNCHANGED name
  /\ UNCHANGED <<audioVars, completed, flags, activation>>

\* A pass finds that the encode thread has stopped by itself, always with an error.
StreamDied ==
  /\ InLoop /\ writing
  /\ writing' = FALSE
  /\ open' = open \ {"streamer"}
  /\ Closing
  /\ UNCHANGED <<audioVars, completed, flags, name, activation>>

--------------------------------------------------------------------------
(* Core::shutdown, and the end of the process                              *)

\* close_video, close_sdl, close_midi, close_audio: what each rolls back.
Order == <<"Video", "InputAndMidi", "InputAndMidi", "Audio">>

BadCloseStep(late) ==              \* audio that is not active is not closed
  /\ main = "closing" /\ step <= Len(Order)
  /\ IF interfaces /\ (Order[step] = "Audio" => active)
       THEN RollbackResource(Order[step], late)
       ELSE late = FALSE /\ UNCHANGED <<audioVars, open>>
  /\ step' = step + 1
  /\ UNCHANGED <<main, completed, flags, stream, activation>>

CloseStep(late) ==
  /\ main = "closing" /\ step <= Len(Order)
  /\ IF interfaces THEN RollbackResource(Order[step], late)
                   ELSE late = FALSE /\ UNCHANGED <<audioVars, open>>
  /\ step' = step + 1
  /\ UNCHANGED <<main, completed, flags, stream, activation>>

CloseEnds ==
  /\ main = "closing" /\ step > Len(Order)
  /\ main' = "ended"
  /\ open' = IF graph THEN open \ (Removes("OscAndMixer") \cup Removes("EventManager")) ELSE open
  /\ interfaces' = FALSE /\ graph' = FALSE
  /\ UNCHANGED <<audioVars, step, completed, stream, activation>>

\* run() has returned: everything is dropped, and other threads end with the process.
Exit ==
  /\ main \in {"ended", "aborted"}
  /\ main' = "exited" /\ open' = {} /\ thread' = "none" /\ joined' = TRUE
  /\ route' = NoRoute /\ active' = FALSE
  /\ retained' = FALSE /\ closure' = "none" /\ returning' = "none" /\ inHand' = FALSE
  /\ UNCHANGED <<outside, requested, polling, controller, rate, step, completed, flags, stream>>

--------------------------------------------------------------------------
Setup == \/ StartPhase \/ StartActivation \/ SpawnFails \/ JoinActivation \/ ProbeEnds
         \/ RollbackEnds
         \/ \E late \in BOOLEAN : StartFails(late) \/ ProbeFails(late) \/ RollbackStep(late)

Thread == ThreadActivates \/ \E late \in BOOLEAN : ThreadFails(late) \/ StrayEnds(late)

Shutdown == CloseEnds \/ Exit \/ \E late \in BOOLEAN : CloseStep(late)

Loop == LoopPoll \/ LeaveLoop \/ StartStream \/ StopStream \/ StreamDied

Around == main # "exited" /\ World /\ UNCHANGED <<life, open, flags, stream, activation>>

\* The main thread while the user does nothing.
MainStep == Setup \/ StartSession \/ StartInterfaces \/ LoopRecovers \/ GiveUp \/ Shutdown

SessionNext == MainStep \/ AbandonActivation \/ Thread \/ Loop \/ Around

SessionSpec == SessionInit /\ [][SessionNext]_sessionVars
SessionFairSpec == /\ SessionSpec
                   /\ WF_sessionVars(MainStep) /\ WF_sessionVars(Thread)
                   /\ WF_sessionVars(BackoffEnds /\ Around)
                   /\ SF_sessionVars(main = "loop" /\ Poll(TRUE, FALSE) /\ LoopPoll)

--------------------------------------------------------------------------
(* Properties                                                              *)

Resources == UNION {Creates(Phases[i]) : i \in 1..Len(Phases)} \cup {"streamer"}

\* Every variable has its type, and the rollback stack holds phases in the order they
\* were started, those of the configuration left out.
SessionTypeOK ==
  /\ AudioTypeOK
  /\ main \in {"setup", "activating", "probing", "rollback", "aborted", "session", "interfaces",
               "loop", "closing", "ended", "exited"}
  /\ step \in 1..Len(Phases) /\ open \subseteq Resources
  /\ interfaces \in BOOLEAN /\ graph \in BOOLEAN /\ writing \in BOOLEAN /\ name \in BOOLEAN
  /\ thread \in {"none", "activating", "ok", "failed"} /\ joined \in BOOLEAN
  /\ completed = SubSeq(SelectSeq(Phases, LAMBDA p : p \notin Config), 1, Len(completed))

\* A session whose interfaces were started, ended by whatever error, has closed everything
\* in the order of close_video ... shutdown, and no callback runs any more.  And whatever
\* phase of the startup fails, and however, what rollback leaves behind is at most the
\* input of SDL and a graph that was never given to the audio: the phases Sdl and
\* SynthAndBuffers have no rollback (rollback_resource).
EndedSessionIsClosed ==
  [][/\ main' = "ended" /\ interfaces =>
          open' \subseteq {"lock", "memory", "browsers"} /\ closure' # "running"
     /\ main' = "aborted" => open' \subseteq {"input", "processor"}]_sessionVars

\* A callback that runs has the control side of its rings, and it can be stopped: AudioIO is
\* in its place or on the way there.  The exception to the first is an activation nobody
\* waits for any more, which closes what it has opened.
CallbackIsServed ==
  closure = "running" =>
    /\ "controls" \in open \/ (joined /\ thread # "none")
    /\ "audio" \in open \/ thread # "none"

\* A session in its loop has its graph, in one place, through every outage (CPAL), and what
\* it writes gets the rate of the route that is live.
LoopHasItsAudio == main = "loop" => OneProcessor /\ RateFollowsRoute

\* A recovery asked for by a stream is answered, or the session ends.
LoopAnswersRequest == (main = "loop" /\ requested) ~> (~requested \/ main # "loop")
==========================================================================
