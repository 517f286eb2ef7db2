--------------------------- MODULE LoopEngine ---------------------------
(***************************************************************************)
(* Recording and playing loops in the audio callback                       *)
(* (src/native_dsp_graph.rs, RuntimeAudioProcessor::apply_command and      *)
(* AudioProcessor::process): one recorder shared by all slots, synchronised*)
(* to the pulse or free, over the block storage of LoopStorage.            *)
(*                                                                         *)
(* Time is the frame.  A callback renders CallbackFrames frames and takes  *)
(* commands only before its first.  Samples, gains and scopes are left     *)
(* out; lengths, positions, phases and storage are kept.  An operator that *)
(* takes e works on the engine e = [loops, rec, pulse, ready], so that a   *)
(* handler that calls another is the composition of the two.               *)
(***************************************************************************)
EXTENDS Pulse, FiniteSets

CONSTANTS
  NSlots,          \* MAX_RUNTIME_LOOPS
  BlockFrames,     \* AUDIO_BLOCK_FRAMES
  MaxBlocks,       \* bound: blocks of one loop
  ReadyBlocks,     \* blocks the pool has ready, see ReadyPool
  WorkerKeepsUp,   \* TRUE: a taken block is replaced before the next frame
  BufferFrames,    \* length of an imported buffer
  TailFrames,      \* REC_TAIL_FRAMES
  SmoothFrames,    \* LOOP_SMOOTH_FRAMES
  Alignment,       \* recording_alignment_frames of this device
  CallbackFrames,  \* frames of a callback
  CopyFrames,      \* EXPORT_COPY_FRAMES_PER_CALLBACK
  StartPulse,      \* frames of the pulse set before anything else, 0: none
  PulseLengths,    \* bound: lengths SetPulse is given
  TapGaps,         \* bound: gaps between taps
  ImportLengths,   \* bound: lengths of imported loops
  Subdivision,     \* pulse_subdivide
  MaxElapsed,      \* bound: recording_elapsed_frames stops counting here
  Commands         \* the commands of this instance

LoopSlots == 1..NSlots
None  == 0                     \* no slot, no tail, no target, no fade

ASSUME EngineAssumption ==
  /\ {NSlots, BlockFrames, MaxBlocks, TailFrames, CallbackFrames, CopyFrames, Subdivision} \subseteq Nat \ {0}
  /\ {ReadyBlocks, BufferFrames, SmoothFrames, Alignment, StartPulse, MaxElapsed} \subseteq Nat
  /\ WorkerKeepsUp \in BOOLEAN
  /\ PulseLengths \subseteq Nat /\ TapGaps \subseteq Nat /\ ImportLengths \subseteq 1..BufferFrames
  /\ SmoothFrames < BlockFrames /\ SmoothFrames < BufferFrames

VARIABLES
  loops,        \* LoopSlot of every slot
  rec,          \* the recorder: `recording` and the recording_* fields
  pulse,        \* the clock, see Pulse
  ready,        \* blocks the callback can take now
  job,          \* export_job
  calibrating,  \* latency_calibration.is_some()
  frame,        \* frames of this callback already rendered
  asked         \* ghost: how the running recording was asked to stop

vars == <<loops, rec, pulse, ready, job, calibrating, frame, asked>>

EmptyLoop ==
  [mode |-> "Empty", len |-> 0, position |-> 0, blocks |-> 0, buffer |-> 0, offset |-> 0,
   synced |-> FALSE, beats |-> 0, alignment |-> 0,
   ending |-> None,            \* overdub_fade_out: frames begun
   jump |-> None, heard |-> 0] \* overdub_jump: frames of the fade begun, count

IdleRecorder ==
  [slot |-> None, waitStart |-> FALSE, waitStop |-> FALSE, tail |-> None, late |-> FALSE,
   phase |-> 0, elapsed |-> 0, target |-> None, skip |-> 0,
   justify |-> FALSE, beats |-> 0, extended |-> FALSE]

NoJob == [slot |-> None, cursor |-> 0, frames |-> 0]

Init ==
  /\ loops = [i \in LoopSlots |-> EmptyLoop]
  /\ rec = IdleRecorder
  /\ pulse = IF StartPulse = 0 THEN IdlePulse(BlockFrames) ELSE SetPulse(IdlePulse(BlockFrames), StartPulse)
  /\ ready = ReadyBlocks
  /\ job = NoJob
  /\ calibrating = FALSE
  /\ frame = 0
  /\ asked = "no"

--------------------------------------------------------------------------
(* Storage of a loop                                                       *)

\* A loop with blocks lives in them, any other in its contiguous buffer.
Stored(l) ==
  LET frames == IF l.blocks > 0 THEN l.blocks * BlockFrames ELSE l.buffer
  IN IF frames < l.offset THEN 0 ELSE frames - l.offset

\* add_block until slot i holds `need` frames or a request is refused.
Grow(e, i, need) ==
  LET l       == e.loops[i]
      missing == IF need <= Stored(l) THEN 0
                 ELSE (need - Stored(l) + BlockFrames - 1) \div BlockFrames
      taken   == Smaller(missing, Smaller(e.ready, MaxBlocks - l.blocks))
  IN [e EXCEPT !.loops[i].blocks = @ + taken,
               !.ready = IF WorkerKeepsUp THEN @ ELSE @ - taken]

\* release_blocks with room in the return ring, which LoopStorage is about.
Release(l) == [l EXCEPT !.blocks = 0]

Erased(l) ==
  [Release(l) EXCEPT !.offset = 0, !.len = 0, !.position = 0, !.mode = "Empty",
                     !.synced = FALSE, !.beats = 0, !.alignment = 0,
                     !.jump = None, !.heard = 0]

--------------------------------------------------------------------------
(* Stopping a recording                                                    *)

RecordingTailFrames == Larger(TailFrames, Alignment)

LoopPosition(p, l) == SyncedPosition(p, l.len, l.beats, l.alignment)

\* Mutant: the tail is left running.
BadForget(r) ==
  [r EXCEPT !.slot = None, !.waitStart = FALSE, !.waitStop = FALSE, !.late = FALSE,
            !.phase = 0, !.elapsed = 0, !.target = None, !.skip = 0]

Forget(r) ==
  [r EXCEPT !.slot = None, !.waitStart = FALSE, !.waitStop = FALSE, !.tail = None,
            !.late = FALSE, !.phase = 0, !.elapsed = 0, !.target = None, !.skip = 0]

\* The head of the loop is blended into SmoothFrames appended frames and cut off,
\* when there is storage for them: the length stays.
Smooth(e, i) ==
  LET l     == e.loops[i]
      grown == IF l.mode = "Recording" /\ ~l.synced /\ l.len >= SmoothFrames
               THEN IF l.blocks > 0 THEN Grow(e, i, l.len + SmoothFrames) ELSE e
               ELSE e
      cut   == /\ l.mode = "Recording" /\ ~l.synced /\ l.len >= SmoothFrames
               /\ Stored(grown.loops[i]) >= l.len + SmoothFrames
  IN IF cut THEN [grown EXCEPT !.loops[i].offset = @ + SmoothFrames] ELSE grown

\* Mutant: a recording of no frames plays too.
BadStopRecording(e) ==
  IF e.rec.slot = None THEN [e EXCEPT !.rec = Forget(@)]
  ELSE [e EXCEPT !.loops[e.rec.slot].mode = "Playing", !.loops[e.rec.slot].position = 0,
                 !.loops[e.rec.slot].ending = None, !.rec = Forget(@)]

StopRecording(e) ==
  LET i == e.rec.slot
      s == Smooth(e, i)
      fresh   == s.loops[i].mode = "Recording" /\ s.loops[i].synced /\ s.loops[i].len # 0
      l       == [s.loops[i] EXCEPT !.beats = IF fresh THEN Larger(@, 1) ELSE @]
      stopped == [l EXCEPT
        !.ending   = None,
        !.position = IF l.mode = "Overdubbing" THEN @
                     ELSE IF e.pulse.active THEN LoopPosition(e.pulse, l) ELSE 0,
        !.mode     = IF l.len = 0 THEN "Empty" ELSE "Playing"]
  IN IF i = None THEN [e EXCEPT !.rec = Forget(@)]
     ELSE [s EXCEPT !.loops[i] = stopped,
                    !.rec = [Forget(@) EXCEPT !.extended = FALSE],
                    !.pulse = IF fresh /\ ~e.rec.extended
                              THEN Extend(@, stopped.beats, e.rec.justify) ELSE @]

\* The loop is committed to `beats` beats now, whenever its recording ends.
Commit(e, beats) ==
  [e EXCEPT !.loops[e.rec.slot].beats = beats,
            !.pulse = Extend(@, beats, TRUE),
            !.rec.extended = TRUE, !.rec.justify = TRUE]

RequestStop(e) ==
  LET r    == e.rec
      i    == r.slot
      n    == Larger(e.pulse.frames, 1)
      at   == e.pulse.position % n
      tail == RecordingTailFrames
      byLength == (r.late \/ (r.phase # 0 /\ at < tail)) /\ ~r.waitStart
      byNow    == 2 * at < n /\ at >= tail
      nearest  == Larger((r.elapsed + n \div 2) \div n, 1)
      target   == nearest * n + tail
  IN CASE i # None /\ e.loops[i].mode = "Overdubbing" -> [e EXCEPT !.loops[i].ending = 1]
       [] (i = None \/ e.loops[i].mode # "Overdubbing") /\ (~e.pulse.active \/ i = None) -> StopRecording(e)
       [] OTHER ->
            CASE byLength /\ e.loops[i].len >= target ->
                   StopRecording([Commit(e, nearest) EXCEPT !.loops[i].len = target])
              [] byLength /\ e.loops[i].len < target -> [Commit(e, nearest) EXCEPT !.rec.target = target]
              [] ~byLength /\ byNow ->
                   StopRecording([e EXCEPT !.rec.justify = FALSE, !.loops[i].beats = Larger(r.beats, 1)])
              [] OTHER -> [Commit(e, r.beats + 1) EXCEPT !.rec.waitStop = TRUE]

--------------------------------------------------------------------------
(* Starting to record and to play                                          *)

\* The input since the last downbeat is already in the history buffer.
Prefill(e, i) ==
  LET g == IF e.loops[i].blocks > 0 THEN Grow(e, i, e.pulse.position) ELSE e
  IN [g EXCEPT !.loops[i].len = Smaller(e.pulse.position, Stored(g.loops[i]))]

StartRecording(e, i) ==
  LET late == e.pulse.active /\ 2 * e.pulse.position >= e.pulse.frames
      new  == [e EXCEPT
        !.loops[i] = [@ EXCEPT !.offset = 0, !.len = 0, !.position = 0, !.mode = "Recording",
                               !.synced = e.pulse.active, !.beats = 0,
                               !.alignment = IF e.pulse.active THEN Alignment ELSE 0,
                               !.jump = None, !.heard = 0],
        !.rec = [e.rec EXCEPT !.slot = i, !.waitStart = @ \/ late, !.late = late,
                          !.phase = IF e.pulse.active THEN e.pulse.position ELSE 0,
                          !.elapsed = 0, !.target = None,
                          !.skip = IF e.pulse.active THEN 0 ELSE Alignment \div 2,
                          !.justify = FALSE, !.beats = 0, !.extended = FALSE]]
  IN IF e.pulse.active /\ ~late THEN Prefill(new, i) ELSE new

\* A loop that had blocks gives them back before it asks for its first ...
Provide(e, i) ==
  LET r == [e EXCEPT !.loops[i] = Release(@)]
  IN IF r.loops[i].buffer = 0 THEN Grow(r, i, BlockFrames) ELSE r

\* ... and may be refused.
Record(e, i) ==
  IF e.loops[i].buffer = 0 /\ e.loops[i].blocks = 0 THEN e ELSE StartRecording(e, i)

\* Sound(e, i, mode): slot i plays from where the clock says it is.
Sound(e, i, mode) ==
  LET l == e.loops[i]
  IN [e EXCEPT !.loops[i].mode = mode,
               !.loops[i].position = IF l.synced /\ e.pulse.active THEN LoopPosition(e.pulse, l) ELSE 0,
               !.pulse = IF l.synced THEN Extend(@, Larger(l.beats, 1), TRUE) ELSE @]

Overdub(e, i) ==
  IF e.loops[i].len = 0 THEN e
  ELSE [Sound(e, i, "Overdubbing") EXCEPT
          !.loops[i].ending = None, !.loops[i].jump = None, !.loops[i].heard = 0,
          !.rec.slot = i]

--------------------------------------------------------------------------
(* One frame of the callback                                               *)

\* Mutant: a stop that waited ends with the first frame after the downbeat.
BadAtDownbeat(e) ==
  [e EXCEPT !.rec.tail = IF e.rec.waitStop THEN 1 ELSE @,
            !.rec.waitStop = FALSE, !.rec.waitStart = FALSE]

\* The loops hear of a downbeat: a stop that waited begins its tail, a beat of the
\* recording is complete, a loop at the end of its beats returns to its start.
AtDownbeat(e) ==
  LET r == IF e.rec.waitStop
           THEN [e.rec EXCEPT !.waitStop = FALSE, !.waitStart = FALSE, !.tail = RecordingTailFrames]
           ELSE [e.rec EXCEPT !.waitStart = FALSE]
      counted  == {i \in LoopSlots : LET l == e.loops[i]
                                IN l.mode = "Recording" /\ l.synced /\ l.len # 0}
      realigns(l) == /\ l.mode \in {"Playing", "Overdubbing"}
                     /\ l.synced /\ l.beats # 0 /\ l.len # 0
                     /\ e.pulse.longCount % l.beats = 0
                     /\ l.position # LoopPosition(e.pulse, l)
      realigned(l) == [l EXCEPT !.position = LoopPosition(e.pulse, l),
                                !.jump = IF l.mode = "Overdubbing" /\ l.heard # 0 THEN 1 ELSE @]
  IN [e EXCEPT
        !.rec = IF counted = {} THEN r ELSE [r EXCEPT !.beats = @ + Cardinality(counted), !.late = FALSE],
        !.loops = [i \in LoopSlots |-> IF realigns(@[i]) THEN realigned(@[i]) ELSE @[i]]]

\* The frame goes to the recording in slot i, unless it waits or has no room left.
Capture(e, i) ==
  LET l == e.loops[i]
      g == IF l.len = Stored(l) /\ l.blocks > 0 THEN Grow(e, i, l.len + 1) ELSE e
      cut == ~l.synced /\ l.len >= SmoothFrames
      full == [g.loops[i] EXCEPT !.mode = "Playing", !.position = 0,
                                 !.offset = IF cut THEN @ + SmoothFrames ELSE @,
                                 !.len    = IF cut THEN @ - SmoothFrames ELSE @]
  IN CASE e.rec.waitStart /\ e.rec.slot = i -> e
       [] ~(e.rec.waitStart /\ e.rec.slot = i) /\ l.len = Stored(g.loops[i]) ->
            [g EXCEPT !.loops[i] = full, !.rec.slot = None, !.rec.tail = None]
       [] OTHER -> IF e.rec.skip > 0 THEN [g EXCEPT !.rec.skip = @ - 1]
                   ELSE [g EXCEPT !.loops[i].len = @ + 1]

\* Mutant: the last fade never ends.
BadDub(l) == [l EXCEPT !.position = (@ + 1) % l.len]

\* An overdub plays and writes one frame; its last fade runs unless a jump fades.
Dub(l) ==
  LET jumping == l.jump # None /\ l.jump <= l.heard
  IN [l EXCEPT !.jump     = IF jumping /\ @ < l.heard THEN @ + 1 ELSE IF jumping THEN None ELSE @,
               !.ending   = IF jumping \/ @ = None THEN @ ELSE IF @ < CallbackFrames THEN @ + 1 ELSE None,
               !.heard    = Smaller(@ + 1, SmoothFrames),
               !.position = (@ + 1) % l.len]

SlotFrame(e, i) ==
  LET l == e.loops[i]
  IN CASE l.mode = "Recording"   -> Capture(e, i)
       [] l.mode = "Overdubbing" -> [e EXCEPT !.loops[i] = Dub(l)]
       [] l.mode = "Playing"     -> [e EXCEPT !.loops[i].position = (@ + 1) % l.len]
       [] OTHER                  -> e

AllSlotsFrame(e) ==
  LET upTo[n \in 0..NSlots] == IF n = 0 THEN e ELSE SlotFrame(upTo[n - 1], n)
  IN upTo[NSlots]

\* After the slots: a recording at its target, an overdub that has faded or a tail
\* that has run out stops; the tail stops at the position of the next frame.
FinishFrame(before, e) ==
  LET r == e.rec
      atTarget == /\ r.slot # None /\ r.target # None
                  /\ e.loops[r.slot].mode = "Recording" /\ e.loops[r.slot].len >= r.target
                  /\ e.loops[r.slot].len > before.loops[r.slot].len
      dubbed   == \E i \in LoopSlots : before.loops[i].ending # None /\ e.loops[i].ending = None
      next     == [e EXCEPT !.pulse.position = (@ + 1) % Larger(e.pulse.frames, 1), !.rec.tail = None]
  IN CASE atTarget \/ dubbed                        -> StopRecording(e)
       [] ~(atTarget \/ dubbed) /\ r.tail > 1       -> [e EXCEPT !.rec.tail = @ - 1]
       [] ~(atTarget \/ dubbed) /\ r.tail = 1       ->
            [StopRecording(next) EXCEPT !.pulse.position = e.pulse.position]
       [] OTHER                                     -> e

Counted(e) == IF e.rec.slot = None THEN e
              ELSE [e EXCEPT !.rec.elapsed = Smaller(@ + 1, MaxElapsed)]

\* The clock comes first, then the slots, then the recorder, then the clock moves on.
Beat(e)    == IF Downbeat(e.pulse) THEN AtDownbeat(e) ELSE [e EXCEPT !.pulse = Heard(@)]
Elapsed(e) == [Counted(e) EXCEPT !.pulse = Tick(@)]

--------------------------------------------------------------------------
(* The callback                                                            *)

Now == [loops |-> loops, rec |-> rec, pulse |-> pulse, ready |-> ready]

\* The engine becomes `next`; a recording that goes on was asked to stop like `how`.
BecomeAs(next, how) ==
  \E e \in {next} :
    /\ loops' = e.loops /\ rec' = e.rec /\ pulse' = e.pulse /\ ready' = e.ready
    /\ asked' = IF e.rec.slot = None THEN "no" ELSE how

Become(next) == BecomeAs(next, asked)

\* advance_export copies a chunk before the first frame of the callback.
AdvanceExport ==
  IF frame # 0 \/ job.slot = None THEN UNCHANGED job
  ELSE job' = IF job.cursor + CopyFrames < job.frames THEN [job EXCEPT !.cursor = @ + CopyFrames] ELSE NoJob

Frame ==
  /\ AdvanceExport
  /\ \E heard \in {Beat(Now)} : \E played \in {AllSlotsFrame(heard)} :
       \E finished \in {FinishFrame(heard, played)} : Become(Elapsed(finished))
  /\ frame' = (frame + 1) % CallbackFrames
  /\ UNCHANGED calibrating

\* The storage worker has replaced a block.
Refill ==
  /\ ready < ReadyBlocks
  /\ ready' = ready + 1
  /\ UNCHANGED <<loops, rec, pulse, job, calibrating, frame, asked>>

--------------------------------------------------------------------------
(* Commands, drained before the first frame                                *)

Drains(command) == frame = 0 /\ command \in Commands

\* Two things users do and some instances leave out: "DuringRecording", to trigger,
\* mute or import the loop being recorded, and "StopAgain", to stop one twice.
Aimed(command, i) == Drains(command) /\ (rec.slot = i => "DuringRecording" \in Commands)

\* Mutant: the export does not protect its source.
BadMutable(i) == TRUE

\* A command that would change the loop being exported is refused.
Mutable(i) == job.slot # i

Handle(e) == Become(e) /\ UNCHANGED <<job, calibrating, frame>>

HandleAs(e, how) == BecomeAs(e, how) /\ UNCHANGED <<job, calibrating, frame>>

\* Record, with the length of the key press in the event that caused it: the
\* export is protected from a Record of a press of no length only.  Whatever is
\* recording stops first, here and in Overdub.
RecordLoop(i) ==
  /\ ~calibrating
  /\ \/ Drains("Record") /\ Mutable(i)
     \/ Drains("RecordHeld")
  /\ \E stopped \in {StopRecording(Now)} : \E provided \in {Provide(stopped, i)} :
       HandleAs(Record(provided, i), "no")

OverdubLoop(i) ==
  /\ Drains("Overdub") /\ ~calibrating /\ Mutable(i)
  /\ \E stopped \in {StopRecording(Now)} : HandleAs(Overdub(stopped, i), "no")

StopRecord ==
  /\ Drains("StopRecord") /\ (asked # "no" => "StopAgain" \in Commands)
  /\ HandleAs(RequestStop(Now),
              IF asked = "no" THEN IF rec.slot # None /\ loops[rec.slot].len > 0 THEN "once" ELSE "early"
              ELSE IF asked = "early" THEN "early" ELSE "again")

Trigger(i) ==
  /\ Aimed("Trigger", i) /\ loops[i].len > 0
  /\ Handle(Sound(Now, i, "Playing"))

Mute(i) ==
  /\ Aimed("Mute", i) /\ loops[i].len > 0
  /\ Handle([Now EXCEPT !.loops[i].mode = "Muted", !.loops[i].position = 0])

Unmute(i) ==
  /\ Aimed("Unmute", i) /\ loops[i].len > 0
  /\ Handle([Now EXCEPT !.loops[i].mode = "Playing"])

\* Mutant: the recorder does not follow.
BadMoved(r, from, to) == r

Moved(r, from, to) == [r EXCEPT !.slot = CASE @ = from -> to [] @ = to -> from [] OTHER -> @]

MoveLoop(from, to) ==
  /\ Drains("MoveLoop") /\ Mutable(from) /\ Mutable(to)
  /\ from # to /\ loops[from].len > 0 /\ loops[to].len = 0
  /\ Handle([Now EXCEPT !.loops[from] = loops[to], !.loops[to] = loops[from],
                        !.rec = Moved(@, from, to)])

Erase(i) ==
  /\ Drains("Erase") /\ Mutable(i)
  /\ Handle([Now EXCEPT !.loops[i] = Erased(@), !.rec.slot = IF @ = i THEN None ELSE @])

\* The prepared buffer replaces whatever the slot holds.
ImportLoop(i, n) ==
  /\ Aimed("ImportLoop", i) /\ Mutable(i)
  /\ Handle([Now EXCEPT !.loops[i] = [Release(@) EXCEPT
       !.buffer = BufferFrames, !.len = n, !.offset = 0, !.position = 0,
       !.mode = "Playing", !.synced = FALSE, !.alignment = 0]])

RequestLoopExport(i) ==
  /\ Drains("RequestLoopExport") /\ job.slot = None
  /\ loops[i].len > 0 /\ loops[i].mode \notin {"Recording", "Overdubbing"}
  /\ job' = [slot |-> i, cursor |-> 0, frames |-> loops[i].len]
  /\ UNCHANGED <<loops, rec, pulse, ready, calibrating, frame, asked>>

--------------------------------------------------------------------------
(* Commands for the clock                                                  *)

DefinePulse(n) == Drains("SetPulse") /\ Handle([Now EXCEPT !.pulse = SetPulse(@, n)])

SetPulseFromLoop(i) ==
  /\ Drains("SetPulseFromLoop") /\ ~pulse.active /\ loops[i].len > 0
  /\ Handle([Now EXCEPT !.pulse = PulseOfLoop(@, loops[i].len, loops[i].position, Subdivision),
                        !.loops[i] = [@ EXCEPT !.synced = TRUE, !.beats = Subdivision, !.alignment = 0]])

Tap(newLen, gap) == Drains("TapPulse") /\ Handle([Now EXCEPT !.pulse = TapPulse(@, newLen, gap)])

ClearPulse == Drains("ClearPulse") /\ Handle([Now EXCEPT !.pulse = NoPulse(@)])

\* Every synchronised loop goes with its pulse.
DeletePulse ==
  /\ Drains("DeletePulse")
  /\ Handle([Now EXCEPT
       !.loops = [i \in LoopSlots |-> IF @[i].synced THEN Erased(@[i]) ELSE @[i]],
       !.rec.slot = IF @ # None /\ loops[rec.slot].synced THEN None ELSE @,
       !.pulse = NoPulse(@)])

CalibrateLatency ==
  /\ Drains("CalibrateLatency") /\ ~calibrating
  /\ calibrating' = TRUE
  /\ UNCHANGED <<loops, rec, pulse, ready, job, frame, asked>>

\* The last probe has been measured.
Calibrated ==
  /\ calibrating
  /\ calibrating' = FALSE
  /\ UNCHANGED <<loops, rec, pulse, ready, job, frame, asked>>

Next ==
  \/ Frame \/ Refill
  \/ StopRecord \/ ClearPulse \/ DeletePulse \/ CalibrateLatency \/ Calibrated
  \/ \E n \in PulseLengths : DefinePulse(n)
  \/ \E newLen \in BOOLEAN, gap \in TapGaps : Tap(newLen, gap)
  \/ \E i \in LoopSlots :
       \/ RecordLoop(i) \/ OverdubLoop(i) \/ Trigger(i) \/ Mute(i) \/ Unmute(i)
       \/ Erase(i) \/ RequestLoopExport(i) \/ SetPulseFromLoop(i)
       \/ \E n \in ImportLengths : ImportLoop(i, n)
       \/ \E to \in LoopSlots : MoveLoop(i, to)

Spec == Init /\ [][Next]_vars

\* The audio device keeps calling back and the worker keeps replacing blocks.  Only
\* Frame changes `frame`: the first conjunct is fairness of Frame when a callback has
\* more than one frame, said without evaluating a frame once more.
Renders  == frame' = (frame + 1) % CallbackFrames
LiveSpec == Spec /\ WF_frame(Renders) /\ WF_vars(Refill)

--------------------------------------------------------------------------
(* Properties                                                              *)

\* A loop the callback plays or overdubs has frames, all of them in storage, and its
\* position is one of them: the callback indexes without looking.  The clock it takes that
\* position from is inside its beat and its cycle.
Playable ==
  /\ pulse.position < Larger(pulse.frames, 1) /\ pulse.longCount < pulse.longLength
  /\ \A i \in LoopSlots : loops[i].mode \in {"Playing", "Overdubbing"} =>
       /\ loops[i].len \in 1..Stored(loops[i])
       /\ loops[i].position < loops[i].len

\* Only the slot the recorder names records or overdubs, through every Move, Erase,
\* Trigger and change of the pulse.
OneRecorder ==
  \A i \in LoopSlots : loops[i].mode \in {"Recording", "Overdubbing"} => rec.slot = i

\* What advance_export still has to copy is in the storage of the source loop.
ExportReadsInside ==
  job.slot # None => /\ job.cursor < job.frames
                     /\ job.frames <= Stored(loops[job.slot])

\* Whatever happens to a loop between two callbacks, what the callback is about to read
\* of it exists: what plays, and what an export has begun to copy.
ReadsInside == Playable /\ ExportReadsInside

\* The long cycle covers every synchronised loop that sounds: its beats divide it, so
\* that the long count tells the beat each loop is at (comment at 3166-3168).
CycleCoversLoops ==
  pulse.active =>
    \A i \in LoopSlots : (loops[i].mode = "Playing" /\ loops[i].synced /\ loops[i].beats # 0 /\ rec.slot # i)
                       => pulse.longLength % loops[i].beats = 0

\* A synchronised loop plays the frame its beats and the clock ask for.
InPhase(l) == l.position = LoopPosition(pulse, l)
AFrameLate(l) == (l.position + 1) % l.len = LoopPosition(pulse, l)

SoundsInSync(i) ==
  /\ pulse.active /\ pulse.position # 0 /\ rec.slot # i
  /\ loops[i].mode = "Playing" /\ loops[i].synced /\ loops[i].beats # 0
  /\ loops[i].len >= loops[i].beats * pulse.frames

\* Between downbeats a synchronised loop that holds all its beats is where the clock
\* says it is, or one frame behind: recording, stopping and triggering other loops,
\* which stretch the long cycle under it, never shift it.
InSync == \A i \in LoopSlots : SoundsInSync(i) => InPhase(loops[i]) \/ AFrameLate(loops[i])

\* A recording synchronised to the pulse that is ended by a frame has the frames of
\* its beats and the tail, when it was asked to stop once and after its start.
EndedByFrame(i) ==
  /\ rec.slot = i /\ rec'.slot = None
  /\ loops[i].mode = "Recording" /\ loops'[i].mode = "Playing" /\ loops[i].synced
  /\ loops'[i].len = loops[i].len + 1

WholeBeats(i) == loops'[i].len = loops'[i].beats * pulse.frames + RecordingTailFrames

RecordsWholeBeats ==
  [][\A i \in LoopSlots : EndedByFrame(i) /\ asked = "once" => WholeBeats(i)]_vars

\* No frame ends a recording or an overdub nobody asked to stop, unless it is full:
\* what a stop of an earlier recording left behind never reaches a later one.
EndsOnlyWhenAsked ==
  [][Frame => \A i \in LoopSlots :
       (/\ rec.slot = i /\ rec'.slot = None /\ asked = "no"
        /\ loops[i].mode \in {"Recording", "Overdubbing"})
       => loops[i].len = Stored(loops[i])]_vars

\* A recorder asked to stop stops, and a stop that waits for a downbeat meets it.
StopIsObeyed == /\ asked # "no" ~> asked = "no"
                /\ rec.waitStop ~> ~rec.waitStop
==========================================================================
