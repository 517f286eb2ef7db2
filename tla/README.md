# A verification of FreeWheeling Plus

FreeWheeling Plus is a live looper: a musician records loops against a pulse, plays,
overdubs, moves, saves and loads them while an audio callback must never wait. This
directory holds TLA+ specifications of the parts of the program where threads,
rings and long sequences of commands make testing weak, TLC configurations that
check them on small instances, and proofs, checked by TLAPS, of the results that
should hold for every instance. All paths below are relative to the repository;
line numbers are given as `file:line`, and `native_dsp_graph.rs` and the like are
in `src/src/`.

Contents: [the system](#1-the-system), [the models](#2-the-models),
[what is checked](#3-what-is-checked), [what is proved](#4-what-is-proved),
[disagreements with the code](#5-disagreements),
[what is not modelled](#6-what-is-not-modelled), [plan](#7-plan),
[how to run it](#8-running-the-checks).

## 1. The system

### 1.1 Threads

| thread | code | talks to the others through |
| --- | --- | --- |
| event loop ("control thread") | `core.rs` `go`, `native_runtime.rs` `next_event` | command ring, transfer slots, hand-over queue of the disk stream, event inbox |
| audio callback | `RuntimeAudioProcessor::process` | status ring, transfer slots, storage rings, disk-stream rings, MIDI rings |
| storage worker | `LoopStorageRefiller` (`native_dsp_graph.rs`) | refill ring, return ring, request counter |
| encoder thread, one per take | `file_streamer.rs` `run_encode_thread` | block ring, recycle ring, an `AtomicU8` |
| "mem-mgr" | `mem.rs` `MemoryManager` | update queue, stop flag, its own parking |
| "coreaudio-setup", once | `native_startup.rs`, audio activation | a join with polling by the main thread |
| MIDI input callback, worker, bridge worker | `midiio_platform.rs`, `midiio.rs`, `native_event_bridge.rs` | two bounded channels |
| event dispatcher | `event.rs` `EventManager` | its queue, a condition variable, the event inbox |

Audio is recovered by the event loop itself, on a request that a device callback raises
in an atomic flag (`audio_native_cpal.rs`). The audio callback never locks, allocates or waits. Every ring has one producer and one
consumer; a full ring refuses, and what happens then is the subject of half of the
properties below.

### 1.2 Components

Each entry gives the state the component keeps, its operations, and what it takes
for it to be right.

**Loop storage** (`native_dsp_graph.rs` 1130-1330; `LoopStorage`, `ReadyPool`).
Blocks the callback can take without allocating: its free list, the refill and
return rings, the request counter, the worker's own recycled blocks.
`add_block`, `release_blocks`, `refill_loop_storage`, stop of the worker. Right
when every block taken is replaced exactly once, memory stays bounded, and neither
a starved callback nor a full return ring stays that way.

**PCM transfers and the command ring** (`native_dsp_graph.rs` 305-380, 700-850,
2640-2850; `PcmTransfer`, `TransferOwnership`). A few long buffers through which
whole loops travel between the threads, each governed by an atomic state and a
generation. `try_acquire_transfer`, `write_transfer`, `try_import_loop`,
`try_request_loop_export`, `with_exported_pcm`, `release_transfer`; in the callback
ImportLoop, RequestLoopExport, `advance_export`, Shutdown. Right when the two
threads never touch one buffer at a time, a stale handle opens nothing, and a
transfer that was lent comes back.

**Pulse** (`native_dsp_graph.rs`, the `pulse_*` fields; `Pulse`). Length and
position of the beat, the long cycle (the least common multiple of the beats of the
loops committed so far) and the position in it, tap state. Right when the position
stays inside the beat and the cycle covers every loop that sounds.

**Recording and playing** (`native_dsp_graph.rs` `apply_command`, `process`;
`LoopEngine`). The loop slots, one recorder with ten fields that remember how a
recording was started and asked to stop, an export in progress. Right when what
plays is in storage, a recording has whole beats, loops stay in phase with the
clock, and no stop of one recording reaches another.

**Recording to disk** (`file_streamer.rs`, `set_streaming`; `DiskStream`). One take
after another, each with a status, a block pool, two rings and a thread. Start,
hand-over, `push_audio`, `request_stop`, the encoder's loop, join. Right when blocks
are conserved, ends are seen, calls return and a file that closed well is whole.

**Loop library orchestration** (`native_runtime.rs` 2640-3210, 4060-4150;
`LoopLibrary`). Pending and queued exports and imports, the hash of every slot, a
scene save that waits, requested snapshots. User actions, and the pass that drains
the status ring. Right when transfers come home, queues move, and a scene file
names the audio of the snapshot it was made from.

**Audio recovery** (`native_runtime.rs` 453-532, 1346-1416; `audioio.rs`, the CPAL and
CoreAudio back ends; `AudioRecovery`). A retry controller with deadline and failure count;
the route in use; the one owner of the DSP graph among the back end, the realtime closure,
the channel it comes back through and the recovering call. Right when the graph is never in
two places nor lost, when an outage is retried with pauses and answered, and when the rest of
the session learns the rate of the route that is live.

**Startup, rollback, session** (`core_startup.rs`, `native_startup.rs`, `core.rs`,
`production_app.rs`; `Session`). Twenty phases and three steps of configuration; the stack of
what is completed; the resources each leaves; the flags by which the closing decides. Start,
failure and rollback, activation on a thread of its own that the main thread may abandon, the
run loop with its stream, the ordered closing. Right when what was started is closed, a
running callback has its control side, and nothing is left after the end.

**Event delivery** (`midiio.rs`, `native_event_bridge.rs`, `event.rs`, the inbox of
`native_runtime.rs`; `EventDelivery`). Four bounded queues in a row and the threads between
them. Right when events of a source keep their order, while the session goes on each one is
handled, waiting in one place or counted as refused (the inbox counts nothing), no wakeup is
lost, and the end of the session joins every thread.

**Memory manager** (`mem.rs`; `MemoryPool`). Per type, a queue of ready instances and one of
recycled ones; a queue of updates; the worker; counted references to the manager. Right when
every slot of a pool is ready, asked for or counted as lost, and an empty pool is restocked.

**Loop and scene files** (`native_runtime.rs` 209-345, 2605-2745, 2960-3035;
`file_codecs.rs`; `LibraryFiles`, `SceneFiles`). A directory in which a loop is a pair of files
named after the hash of its audio, and a scene is a file with numbered backups. Save, reuse,
rename with rollback, load; setting a scene aside, pruning, writing. Right when a saved take is
never replaced or removed, audio and metadata stay together, the session knows its files, and
a save always leaves the scene it replaces somewhere.

**The loops as the panel sees them** (`native_runtime.rs` 1895-2274, 3951-4140;
`native_loop_selection.rs`, `runtime_event_actions.rs` 572-604; `LoopPanel`). The modes of the
last snapshot, ten selection sets, the names. A press of a key, erase, select, move, rename; the
snapshot asked for every 33 ms. Right when a name or a selection stays with the loop the player
meant, and the panel comes back to the truth whatever the rings have lost.

**MIDI echo** (`native_runtime.rs` 1528-1622, 2275-2292, 2480-2540; `midiio.rs` 388-493;
`MidiEcho`). The routes of the patch, the routes remembered per key, echo port, channel and
transposition. Keys down and up, settings. Right when every note that sounds is ended.

**Bindings** (`config.rs` 1299-1503, 2069-2296; `runtime_event_actions.rs` 238-490;
`Bindings`). Per event type, buckets of chains of outputs; variables; a batch of actions. Load,
match, dispatch. Right when the buckets answer like the list they stand for, and when an output
sees what the outputs before it have set.

**MIDI clock** (`native_dsp_graph.rs` 2425-2610, 3480-3560; `midiio.rs`, `sync_transmit`;
`MidiClock`). The state of the clock, its counters, a gate in the callback and one in `MidiIo`.
Taps, a pulse taken from a loop, cleared or deleted, the frames of the beat, the way of START,
CLOCK and STOP to the instruments. Right when the clock neither drifts from the pulse nor
leaves an instrument running without one.

**Capture to playback under CPAL** (`audio_native_cpal.rs`; `DuplexRing`). A ring of frames,
the counters of `SharedMetrics`, and two callbacks on the clocks of two devices. Right when
latency does not add up and every captured frame is heard or counted.

**Touch and window input** (`sdlio.rs`, `native_runtime.rs` 4200-4350; `TouchInput`). One
gesture with its deadline, an event put aside, the keys held, the surfaces that may take an
event. Right when each gesture has one meaning, a button pressed is released, and no key and
no close request is lost.

The other parts (codecs, drivers, DSP arithmetic, synthesizer, OSC, drawing,
browsers' cursors) are sequential or external; section 6 says why they stay out.

### 1.3 How they interact

```
 user, MIDI ──> event loop ──commands (512)──> audio callback ──> device
                 │   ▲  ▲                         │  │   │
                 │   │  └──────statuses (64)──────┘  │   │ refills / returns / requests
                 │   │                               │   └──────> storage worker
                 │   └── transfer slots (atomic) ────┤
                 │                                   │ blocks / recycled blocks
                 └── start, hand-over, stop, join ───┴──────────> encoder thread

 MIDI device ──> port ──> MIDI worker ──> bridge worker ──┐
                                            keyboard ─────┴──> event queue ──> dispatcher ──> inbox ──> event loop
 event loop ──save, load, rename──> library directory        callers ──updates──> mem-mgr
```

What is hard, and where:

- steps of two threads in any order: the transfer states, the request counter, the
  end of a take (`PcmTransfer`, `LoopStorage`, `DiskStream`);
- a decision taken on state that has moved on: a stale handle, a stop that waits for
  a downbeat while the clock is changed, an export that is deduplicated against an
  older one (`PcmTransfer`, `LoopEngine`, `LoopLibrary`);
- a press, a move, a selection or a released key that means what was shown, or sounded, some
  time ago (`LoopPanel`, `MidiEcho`); one lookup made of two (`Bindings`);
- rings at their limit: refused commands, dropped statuses, an empty pool (all);
- a long sequence of legal commands: the recorder's ten fields, the slot it names
  (`LoopEngine`);
- one step of several failing: a full disk, a file that does not decode, a scene
  load that stops half way, a phase of the startup, the second of two renames
  (`DiskStream`, `LoopLibrary`, `Session`, `LibraryFiles`);
- the end of the process between two calls of the file system (`LibraryFiles`, `SceneFiles`);
- deadlines that pass while other input waits, and surfaces that lie over one another
  (`TouchInput`); two devices on clocks of their own (`DuplexRing`); a gate that two threads
  shut at different times (`MidiClock`);
- retries and late answers: a device that comes back during the backoff, an activation
  that ends after nobody waits for it any more (`AudioRecovery`, `Session`);
- everyone waiting for everyone: three joins at the end of the session, a condition variable
  and its flag (`EventDelivery`), the last reference to the memory manager (`MemoryPool`).

`PROJECT.json` lists these hazards one by one at their lines.

## 2. The models

A module's header says what it leaves out; the comment before each definition names
the code where that is not obvious; `PROJECT.json` maps every definition to its
lines. Definitions whose name starts with `Bad` are not part of any specification:
each is the change a plausible bug would make to the definition that follows it, and
each property is known to be violated by at least one of them.

### 2.1 LoopStorage, implementing ReadyPool

State: `free`, `chained`, `releasing`, `cpc` (callback); `refills`, `returned`,
`requests`, `stopping` (shared); `recycled`, `batch`, `allocated`, `wpc` (worker).
Blocks are counted, not named: no code looks at which block it has. Every ring
operation and every access to the counter is an action. `add_block` is StartAdd,
CollectRefill, TakeBlock or FailAdd, RequestReplacement; `release_blocks` is
StartRelease, ReleaseBlock, FinishRelease; a pass of the worker is DrainReturned,
SwapRequests, SendRefill or RejectRefill, EndPass. The worker's last pass, after
`stopping`, is modelled.

`ReadyPool` is what the recorder is promised: a fixed number of credits, each a
ready block or a debt. `ImplementsReadyPool` maps ready to `free + refills` and debt
to everything asked for or about to be.

### 2.2 PcmTransfer, implementing TransferOwnership

State: `state`, `generation`, `pcm` of every transfer; the command ring (transfer
commands only); `cop, arg` and `bop, cmd`, the places of the two threads; `loops`
(size, buffer present, recording) and `job` (the export). Each atomic load, store,
exchange and each access to a buffer is an action. The control thread may use any
handle it was ever given. Sizes are in units of what one callback copies.
Other commands share the ring, so a send can be refused at any time; that is
RefusedImport and RefusedExport.

`TransferOwnership` has one variable, the owner of each transfer, and six hand-overs.
A transfer that is Queued belongs to the control thread until its command is in the
ring, since a refused send takes it back, and to the inbox afterwards.

### 2.3 Pulse and LoopEngine

`Pulse` has operators on a clock record and no state of its own; `LoopEngine`
extends it. An operator that takes `e` works on the engine `[loops, rec, pulse,
ready]`, so that a handler that calls another (Record stops the running recording,
Overdub does, too) is the composition of the two, as in the code. `Frame` is one
frame of `process` in the order of the code: downbeat work, pending starts and stops,
recording, playing, tick. Commands come only before the first frame of a callback.
Left out: samples, gains, panning, scopes, metering; the MIDI clock is a module of its
own (2.14). `asked` is a ghost: how the running recording was asked to stop ("once",
"early", "again"), which the recorder itself does not know.

### 2.4 DiskStream

One record of places and counts per stream. The control thread is in Start, HandOver
(or HandOverRefused), Stop, RequestStop, Join; the callback in Retire, Install,
LoadStatus, DropBlock, PushBlock; the encoder in Open, Check, Pop, Write, Drain, Close
and their failures. The point of the model is that `push_audio` loads the status,
copies, and only then queues the block. Since the rings are FIFO, what a closed
file lacks at its end is what is left in the ring.

### 2.5 LoopLibrary

State: `r`, the library's fields of `RuntimeResources`; transfers; both rings; the
callback's loops, recorder and export; the place of either thread. Handlers are
operators on a record `s` that also carries whether a `?` has returned; `Try` is what
follows a `?` and `ForEach` a loop of them, written as a recursive function on the turns so that
it can be proved about. `SceneLoops` is the list of loops in the scene file, in the order it has
them. A pass dispatches at most one event
(Idle, Dispatch, or StartLoad and FinishLoad) and then drains (Drain), in the order
of `next_event`: snapshot, exports, imports, completed loops, scene save, transfer
error, requested snapshot. An error of a dispatch is printed; an error of a drain ends
the session.

What is atomic: a pass, but for the two places where time passes: between dispatch
and drain, and while the first loop of a scene is decoded. A drain handles the statuses
it has read at its start, and touches only transfers whose status has arrived, which
the callback has given back; hence the rest of a drain commutes with the callback.
The steps inside a call on a transfer are `PcmTransfer`'s subject and are one step here.

Ghosts: `takes` numbers what is recorded or imported, and stands for the content and
for its hash (a hash copied from a scene file is FromFile); `lost` holds the handles
whose answer met a full status ring or whose import was rejected; `scene` is the
scene written last. A StopRecord takes effect at once (free time; `LoopEngine` has
delayed stops). The 33 ms display refresh asks for snapshots, too, and a scene save
takes any snapshot.

### 2.6 AudioRecovery and Session

`AudioRecovery` follows `poll_audio_recovery` step by step: Poll decides, Recover takes the
graph out of the realtime closure (which may be dropped late), OpenRoute and ActivateRoute
may fail, Adopt takes over the rate, CountFailure sets the deadline. The world changes the
default devices, kills a stream, drops the closure, lets time pass. Four variables say who
holds the graph.

`Session` extends it. A phase is its name; `Creates` and `Removes` say which resources it
leaves and what its rollback takes away, which are not the same (`CoreGraph` starts nothing
and removes the controls). Activation runs on a thread: ThreadActivates, ThreadFails,
StrayEnds; the main thread joins it or abandons it. `completed` is the rollback stack.
CloseStep goes through the components in the order of `production_app.rs`, guarded by the
flags as they are, which do not always say what exists. While the main thread is in its loop,
the actions of `AudioRecovery` are its polls; before and after, only the world's part goes on.

### 2.7 EventDelivery

Each lock, send, receive, test of a flag and wait is an action; a wait on the condition
variable is FallAsleep and a wakeup by Flag or by nobody (SpuriousWakeup). Posting takes two
steps, as in the code: push under the lock, then the flag. An event is its source and its
number, so that order and loss can be told. EndSession starts the eight steps of the end.
The MIDI worker looks for the stop message before each receive, so that one more message may
pass it ("told", then "stop"). Closing takes two steps, as `MidirMidiBackend::close` does: the
receiver with what waits in the port (WorkerCloses), then the inputs (InputsGo), whose messages
are refused and counted in between. `dropped` is what the program counts, in the counter of the
port, of the bridge or of the manager; `uncounted` is a history variable for what it does not:
refusals of the inbox, and what close finds in the port.

### 2.8 MemoryPool

Instances and callers are counted. `rt_new` is TakeInstance, AskManager, QueueRestock, Leave;
`rt_delete` GiveInstance, QueueFree, Leave. `References` counts who holds the manager: the
last to let go, the session or a caller, stops and joins the worker (JoinWorker). `manager`,
`worker` and the queue of updates are the worker's loop: PopUpdate, ProcessRestock or
ProcessFree, TestStop.

### 2.9 LibraryFiles and SceneFiles

Files of different hashes never meet, so `LibraryFiles` has one hash and, as takes, the
recordings that share it: a second take with the same hash is the collision the code guards
against. `dir` says what each file holds: nothing, a torn half, a take, metadata. A save is
ReuseAudio, or FillMetadata, or CreateAudio with Encoded, OpenMetadata and WriteMetadata after
it; a rename is StartRename, RenameFile per file in any order, Renamed, or RenameFails,
RenameBack and RolledBack. Every call of the file system may fail (EncodeFails, MetadataFails,
RenameFails and a RenameBack that moves nothing), at most `MaxFaults` times, and Restart ends
the process before any of them. An operation runs on the event loop, hence one at a time.

`SceneFiles` has the versions of one scene: SetAside gives the file the smallest free backup
number, Prune keeps the highest ones, Write or WriteFails follow, SessionEnds may come before
each.

### 2.10 LoopPanel

Callback and panel with the two rings between them. A slot has a mode, whether it has frames,
and a take, the identity of what it holds; a recording makes a new one. Each command of the
player is an action with the whole handler: what it sends, what it does to names, selection and
cached modes at once. RequestSnapshot, Callback and Drain are the way back; a status that finds
the ring full is lost. Capture and EndRecording are what the callback does without being asked.
Ghosts: `meant`, the takes the player selected by what was shown, and `moves`, how far a
MoveLoop has come and whether anything was refused: a move by the callback, or by a full ring the
erasure of a loop that was taken out of the selection before (section 5.2). Names and selections
are made when no move is on its way (`Settled`), since a player who names what is not shown yet
means nothing definite. `Keep`, the `retain` of a vector, is a recursive function: of the
`SelectSeq` of the library nothing can be proved here.

### 2.11 MidiEcho

A note that sounds is its port, channel and pitch. NoteOn and NoteOff take the zones of the
patch, or those remembered, and send one after the other until one fails. The settings change
under keys that are down. `excused` says which notes the code gives up on (section 5.2): those
sent to the echo port, transposed ones, keys struck twice.

### 2.12 Bindings

`Load` builds the buckets from a list of elements, `Matched` looks an event up in two of them,
`DispatchAtDepth` runs what it finds: an event takes a dispatch in progress to another, with so
many levels left to the events it dispatches; `RunChain` has the outputs of one event, each with
what it evaluates when its turn comes, and `Join` what a nested event adds to the batch. These are
recursive functions, so that they can be reasoned about. One variable, and one condition on it,
stand for all. `outcome.log` is a ghost: what was set and sent, in order.

### 2.13 The hosts: MCWorkers, MCControl and MCEventLoop

Components that share no variable would only multiply each other's states. The three host
modules put several behind one variable, chosen at the start: `MCWorkers` has LoopStorage,
DiskStream, MemoryPool, LibraryFiles, MidiClock and DuplexRing; `MCControl` Session,
EventDelivery and LoopPanel; `MCEventLoop`, without fairness, PcmTransfer, LoopPanel, MidiEcho,
Bindings, TouchInput and, as `Synced`, a LoopEngine with constants of its own: loops kept in
step by a running pulse. A behaviour is one of one component, with its own fairness; the others
keep their initial state. LoopEngine is also run by itself, with other commands and constants.
LoopPanel is in two of them: its safety with three gestures, its liveness with two. The
components that do interact are composed where it matters: Session with AudioRecovery,
LoopEngine and MidiClock with Pulse, LoopLibrary and LoopPanel with the callback's answers.

### 2.14 MidiClock

It extends `Pulse`: taps, loops and frames change the same clock record as in LoopEngine, and a
callback renders one frame. An order of the event loop shuts or opens MidiIo's gate at once and
the callback's when it is met. ClockFrame is `process` where a clock may fall due: a START at
the end of a beat, a CLOCK where position * clocks / frames passes an integer, and the
metronome's accents with it. Statuses pass a ring that may refuse, and Forwards, which the
event loop does to them. Ghosts: `due`, clocks sent less clocks owed, as long as it is `steady`
(nothing has changed pulse, speed, type or gate since the START), and `untold`, that a START or
STOP was lost on a way listed at its property.

### 2.15 DuplexRing

A frame is its number. A capture callback pushes one after the other; a playback callback looks
how many are queued, trims what exceeds its own period, and pops chunk by chunk for the
processor. Each push, pop and reading of the ring is a step.

### 2.16 TouchInput

The user's fingers and keys fill SDL's queue; `Poll_event` is one pass over it with the
translation of a touch, the deadline of a hold (`late`), and `pending_touch_event`, the event a
due hold has overtaken. Positions are rows, and distances compare with the three thresholds of
the code. What is returned reaches the event loop in the same pass: `Adapted` is
`SdlIo::poll`, `Offered` goes through the modifier, the settings overlay and the list in the
order of the code. `told`, `meanings`, `wheel` and `slid` are ghosts of what the event loop was
told and what the finger did.

## 3. What is checked

| run | module, configuration | expected |
| --- | --- | --- |
| workers | MCWorkers, Workers | holds |
| event_loop | MCEventLoop, EventLoop | holds |
| engine | LoopEngine, Engine | holds |
| engine_stops | LoopEngine, LoopEngineStops | holds |
| engine_slots | LoopEngine, LoopEngineSlots | holds |
| library | MCLoopLibrary, LoopLibrary | holds |
| control | MCControl, Control | holds |
| disk_stream_exhausted | DiskStream, DiskStreamExhausted | ExhaustionIsMomentary is violated |
| library_snapshot | MCLoopLibrary, LoopLibrarySnapshot | SnapshotIsKept is violated |
| audio_recovery | AudioRecovery | RetriesReachTheDevice is violated |
| scene_backups | SceneFiles | FreshBackupIsKept is violated |
| window_close | TouchInput, TouchInput | CloseIsAnswered is violated |

### 3.1 Properties and what they show

*workers, storage.* `MemoryBounded`: the worker drains before it allocates, so a session
allocates no more than ready set + longest chain + return ring. `ReplacementArrives`: a
starved callback is served until the worker is stopped. `ImplementsReadyPool`: neither the
swap against the fetch_add nor the re-post after a refusal mints or loses a block.

*workers, stream.* `LosesAtMostOne`: a file that closed well lacks at most the block that
was being copied when the stop came. `StopReturns`: takes follow one another
without a call that hangs, and an ended one is retired by the callback. That encoders never
overlap, that no block is lost and that an end is always seen is proved (section 4) and not
repeated in a run.

*workers, memory.* `SlotsConserved`: a slot of a pool is ready, asked for once, or counted
as lost, with the queue full and the manager gone, too. `StockReturns`: an empty pool is
restocked, although the worker parks on an empty queue.

*workers, files.* `SavedTakesAreKept`: a take whose save was answered with Ok is in the
library for good, through collisions, failing calls, renames, failed renames and restarts.
`SavedPairIsWhole`: one failing call does not part a saved take from its metadata, and the
session's names are those of files, after renames that succeed and renames that are rolled
back. It holds for one fault: a rollback that fails, too, leaves a pair under two names, and
says so.

*event_loop, transfers.* `ExclusiveAccess` is what the `unsafe impl Sync` relies on. `ExportFits`: an
import gives the transfer's buffer away, and release rebuilds it, so no export meets an empty
buffer. `ImplementsOwnership`: every change of an owner is a hand-over of the protocol.

*event_loop, panel.* `PanelFollowsLoops`: what the player named or selected is, once no move or
erasure is on its way, where its loop is, although the panel moves names and selection before
the callback has moved the loop; a take is never selected, or named, in a slot it has left. As
long as no move was refused, and no erasure of a selected loop.

*event_loop, echo.* `NotesEnd`: a note that sounds has a key that is down, through any
sequence of patches, ports and channels, but for the notes the code gives up on.

*event_loop, bindings.* `SpecificFirst`: for every configuration of two of twelve elements and
every value, below zero and past the number of buckets included, the two buckets find the chain
a search of the whole list would: the first that asks for just this value, else the first that
holds. `SendsSeeWrites`: a command carries what the last output before it has set, in its own
chain or in a nested one.

*event_loop, touch.* `GesturesAreWhole`: however fingers, keys and deadlines mix, a hold and a
double tap are pressed and released once, a tap is nothing else, and a drag turns the wheel by
what it moved. `InputIsKept`: an event that a deadline overtook is not lost, nor does a later
one pass it, so that the keys held are those the user holds.

*event_loop, loops.* Two slots, recorded in any beat of a running pulse, stopped anywhere,
and triggered. `LoopsInSync` has two parts: the beats of every synchronised loop that sounds
divide the long cycle (`CycleCoversLoops`); between downbeats such a loop plays the frame the
clock asks for, or the one before (a recording that ended at its target starts one frame late,
section 5).

*engine.* The clock is set, tapped, derived from a loop, cleared, deleted while a loop records
and plays. `Playable`: what plays has frames, all in storage, and its position is one of them,
whatever the clock is told.

*workers, clock.* `ClockKeepsTime`: for beats that 24 does not divide, and beats shorter than
their clocks, the clocks since the START are as many as the beats since ask for, and the
accents fall on the downbeats. `FollowersAreTold`: an instrument runs just while the clock
beats, counting what is on its way, but for the losses the property names.

*workers, capture.* `CaptureFlows`: what a playback callback found queued has left the ring when
it ends, so that the two clocks add no latency to each other; each captured frame is pushed,
heard, trimmed or counted as refused, and each frame played was captured or counted as missing.

*engine_stops.* One slot and storage that runs out. `RecordsWholeBeats`: a
recording that was asked to stop once, after it began, and is ended by a frame, has its
beats and the tail. `EndsOnlyWhenAsked`: nothing an earlier stop left behind ends a
later recording. `StopIsObeyed`: a recorder asked to stop stops.

*engine_slots.* Free loops recorded, overdubbed, moved, imported, exported, erased in
any order, also while one is being recorded. `ReadsInside`: what plays, and what an export
still copies, is inside the storage of its loop (`Playable` and `ExportReadsInside`).
`OneRecorder`: the recorder's slot number follows moves and erases.

*library.* `TransfersComeHome`: a transfer that is not free is named by a command, an
export or an unread status, or its answer was lost. `ExportsMoveOn`: one export at a
time, and nothing is queued behind nothing. `SceneIsWhole`: a saved scene names no audio
older than its snapshot, for the loops whose export began after the snapshot was
handled. `SaveEnds`: a scene save is written or the session ends, unless an answer was
lost.

*control, session.* `CallbackIsServed`: a running callback has the
control side of its rings and can be stopped. `LoopHasItsAudio`: through every outage the
graph is in one place, and what the session writes gets the rate of the live route.
`EndedSessionIsClosed`: the ordered closing leaves no thread and no callback, and a setup that
fails anywhere leaves what it cannot help leaving and nothing else (section 5.2).
`LoopAnswersRequest`: a recovery that a stream asked for is made, or the session ends.

*control, events.* `InOrder`, `LossesAreCounted`: the events of a source keep their order,
and none disappears without being counted, except at the inbox, whose refusals nothing counts,
and at the end of the session, when the MIDI back end is closed with what waits in its port
(`OnlyTheEndDiscards`: not before). The back end counts no message it closes on
(midiio_platform.rs:229).
`DeliveryMovesOn` has two parts: no wakeup is lost (`QueueIsDispatched`), and the end of the
session, which waits for three threads, comes to its end (`EndComes`).

*control, panel.* `PanelCatchesUp`: once the player rests the panel shows what is there, and
keeps showing it, whatever statuses and snapshot requests the rings have refused.

Type correctness of the modules with proofs, and with it that every queue is within its
capacity, is a theorem (section 4) and not repeated in the runs. The five violations are in
section 5.

### 3.2 Bounds, and why they are enough

- *workers, storage*: 3 ready blocks, a refill ring of 1 (so that it refuses; the code's ring is
  as large as the ready set, and then `RefillFits` is proved), a return ring of 2, a chain
  of at most 4. Each ring can be empty, partly full, full; a release is longer than the
  return ring.
- *event_loop, transfers*: 2 transfers, so that a stale handle can meet its slot in other hands; 2
  generations, so that there is a stale handle; 2 slots, so that a loop moves away and
  back; loops of at most one unit. The proofs cover every other size, slots that do not
  exist included. `MaxGeneration` bounds a 32-bit counter that wraps after 2^32
  acquisitions; the wrap is not modelled.
- *event_loop, panel*: 2 slots, one of them with a loop, a ring of 2 commands and one of one
  status, 3 gestures: a move needs a name or a selection before it and something behind it.
  3 slots, 4 gestures and larger rings were run once, 8 million states, with the same result.
- *event_loop, echo*: 2 keys, 2 instruments, 3 patches (one zone, a split keyboard, a zone of a
  port that is not there), 2 changes of settings under the keys that are down.
- *event_loop, bindings*: up to 2 of 12 elements (3 were run once), 2 buckets and the one for
  the rest, values on both sides of them, nesting up to a depth of 2, a batch of 2 (in the code
  512, 32 and 32); 2 events, so that the second meets the variable the first has left.
- *engine runs* and *event_loop, loops*: beats of 3 to 5 frames, blocks of 4 to 10, callbacks of 1 or 2, a tail
  of 1 or 2, so that a beat, a block, a callback and a tail end at different frames and
  a loop spans two blocks. `MaxElapsed` stops a counter that is only compared with
  small targets, `U32Max` and `ShortTap` are small so that saturation and the
  short-beat branch happen. Each run enables the commands (`Commands`) its question
  needs; together they fire every action. Two command names are not the code's:
  "StopAgain" allows a second stop while one waits, "DuringRecording" lets Trigger,
  Mute and ImportLoop aim at the slot being recorded. Both lead to states section 5
  describes, and a run has them only when its properties are claimed there.
- *workers, clock*: 2 clocks to the beat in place of 24, and pulses of 3, 4 and 9 frames: clocks
  per beat, with speeds of 1 and 2 and the factor of 4 of the type, are 2, 4, 8 or 16, so that
  they divide the frames, do not, and exceed them. A status ring of 2 refuses; 4 commands stop
  and start the clock twice.
- *workers, capture*: a ring of 4, callbacks of 0 to 3 frames on either side against an expected 2
  and at most 2 at a time for the processor; 6 captured frames, 3 callbacks: the ring overruns,
  runs dry, and is trimmed, also while frames arrive.
- *event_loop, touch*: 2 fingers, 3 rows, thresholds of 1, 2 and 1 row, 3 keys, SDL's queue of 1;
  2 contacts, so that there is a double tap, and one stroke of a key beside them (two were run
  once, with the same result). window_close: one finger and two strokes.
- *workers, stream*: 2 streams (the end of one meets the start of the next), 3 blocks.
- *workers, memory*: 3 instances, 2 callers, an update queue of 2, so that restocks and
  frees fill it; pools in block mode and in instance mode.
- *workers, files*: 2 takes of one hash, one loop, 2 given names next to none, 2 failing
  calls (a rename and its rollback). Two loops add nothing to the directory: an operation
  concerns one.
- *control*: the three back ends; 3 routes with 2 rates, which change twice; 3 attempts, as
  in the code. Queues of one event and two events of either source: each queue is empty,
  full and refusing, and an event can overtake if the code lets it. The panel as above, with 2
  gestures: enough to fill the command ring and lose a snapshot behind them.
- *scene_backups*: the limit of the code, 8 backups, and 12 saves; the tenth shows it.
- *library*: 2 loops, 2 transfers, 3 user actions, a command ring of 4 and a status
  ring of 3, so that both overflow (a scene load sends an erase per slot, as in the code,
  where 512 slots meet a ring of 512); a scene file that lists the second loop
  first, as no ascending list would. Three actions are what it takes to record, save
  and disturb a save. 200 thousand states; four actions are out of reach of a
  configuration that also checks liveness.

### 3.3 Fairness

Fairness is only assumed where the scheduling of the program gives it.

- The audio device calls back again and again: WF of the callback's steps in every
  module. While a device is lost this is not so, and nothing is claimed.
- The storage worker, the encoder and "mem-mgr" park for at most one millisecond: WF of
  their steps. A caller of `rt_new` does not stop inside the call: WF of PoolCall.
- The event loop polls, the route at least every 250 ms; a backoff deadline passes; a
  thread of the startup ends: WF in AudioRecovery and Session, SF of the poll that finds its
  interval over, since other work of the loop comes between. StreamError and device changes
  have no fairness.
- The threads of EventDelivery go on; the bridge worker and the event loop obtain the
  queue's mutex, which others hold for moments only, again and again: SF of their steps. The
  device, the user and spurious wakeups have none.
- The panel asks for a snapshot every 33 ms and reads what has come: WF of RequestSnapshot and
  Drain in LoopPanel. The player has none.
- Nothing is promised of notes, bindings and gestures: `MCEventLoop` has no fairness; nor of
  clocks, captured frames and files: `MCWorkers` has none for these parts.
- The control thread finishes the call it is in: WF of `Finishing` (DiskStream) and
  `ControlStep` (PcmTransfer). Nothing makes it start one.
- A callback drains the command ring until it is empty; that it ever is, although the
  control thread may refill it, is SF of `EndDrain` (PcmTransfer, LoopLibrary): a
  control thread that outruns the callback for ever is ruled out. In the library's run
  the number of user actions is bounded anyway; it matters for display refreshes.
- LoopEngine's `LiveSpec` has WF of rendering a frame, and of `Refill`, which is the
  promise of `ReadyPool` seen from the recorder. Commands have no fairness: a user may
  stop pressing keys.
- LoopLibrary: WF of the event loop and SF of `Idle(TRUE)`, the pass that asks for a
  display snapshot every 33 ms.

## 4. What is proved

Theorems are in `LoopEngine_proof` (with Pulse), `Workers_proof` (LoopStorage, MemoryPool,
DiskStream, LibraryFiles), `PcmTransfer_proof`, `LoopLibrary_proof`, `Session_proof` (with
AudioRecovery), `EventDelivery_proof`, `Callback_proof` (DuplexRing, MidiClock) and
`EventLoop_proof` (MidiEcho, TouchInput, LoopPanel, Bindings). They hold for every value of the constants,
under the named assumptions of the modules, which only say that sizes, capacities and bounds are
(positive) natural numbers, that the slots of the panel are 1 to some number, and, of `Bindings`,
what the parser lets into a configuration: an element has an output, and its values are literals
or one of the two expressions.

**LoopEngine** (`OneRecorderAlways`, `EndsOnlyWhenAskedAlways`, `RecordsWholeBeatsAlways`,
`CycleCoversLoopsAlways`, `PlayableAlways`, `ReadsInsideAlways`). The inductive
invariant `EngineInv` speaks of the whole engine. The pulse is inside its beat and its long cycle
(`Beating`), however it was shortened, tapped, cleared or set: a loop's position is computed from
it. A loop that sounds has frames, and all are stored (`Provided`); its position is at one of them
(`Inside`); one slot at most is recorded or overdubbed, and the recorder names it (`OneAt`). In the
middle of a handler less holds (`WorkingBut`: all but the slot in hand), since a stop shortens,
blends, extends the cycle and repositions one after the other. There is one lemma per operator on
the engine, which says what it gives back for every engine, and handlers compose these lemmas as
the code composes calls: Record those of the stop of what runs, of `Provide`, of `Prefill`; a frame
those of the downbeat, of every slot, of the finish, of the tick. What holds slot after slot of a
frame is shown by the least slot at which it would fail, which needs no induction over operators.
For exports, every operator also leaves the storage of a loop that is not being recorded alone
(`Spares`), except for those that `mutates_loop` refuses while that loop is exported.

For the stops: while nobody has asked for one, a running recorder has no stop that waits for a
downbeat, no tail and no target, and what it records or overdubs has no fade begun (`AskedInv`,
`Unasked`). Every operator but `RequestStop` is shown to keep it so (`Heeds`), a stop because it
forgets all of them, a refused Record because nothing is left running. In a frame each slot
either goes on or ends because it is full (`Full`, `GoesOn`, `Played`), from the first slot to the
last by the same least slot (`AllSlotsPlayed`); a recorder that none of them stopped has then
nothing for `FinishFrame` to act on (`FinishFollows`).

For the beats (`TimeInv`): a synchronised recording has, at every frame, those of its complete beats
and of the one it is in (`Beaten`), or it is of those that never get one more (`Stuck`: it has no
blocks and its buffer is full). Asked to stop once, it waits for the downbeat after its last beat,
for its length or for the tail, and each of the three ends at the same frame (`Due`). Inside a
frame the two run ahead of each other, so a recording is followed by phase: between the downbeat
and the slots (`Counts`), between the slots and the clock (`Spent`), and `FinishCounts` is the frame
that ends it. `RequestStop` gives the order that is due from wherever in the beat it comes (`Asked`,
`StopInTime`); every other command goes on with the loop and the orders, in whichever slot
(`Carries`), or records no more.
The theorem has two hypotheses on the instance. The pulse keeps its length (`OnePulse`): a command
that changes it in the middle of a recording leaves no one length of which there could be
multiples. And a beat is no longer than two blocks: a recording begins with the input of up to half
a beat, for which only its first block is certain, and without a second one it would be short from
the start (5.2).

For the long cycle (`CycleInv`): the beats of every synchronised loop that has frames, or is about
to, divide it (`Covered`), a muted one and a recording included. What is recorded has no beats
until it is asked to stop; it then gets them and is in the cycle at once (`Uncommitted`, and
`Committed` in the middle of a stop, when all loops are covered but the one in hand). That the least
common multiple is a multiple of both, and of whatever divided the cycle before, is arithmetic over
`Gcd` (`CycleCovers`); no other step of a frame or a command touches the cycle or the beats of what
sounds (`Shares`, `Longer`, `Cycled`). The theorem is about a cycle below the largest number, at which the code
cuts it off, and an instance in which the pulse keeps its length (`OnePulse`) and a recording is
stopped once and not played meanwhile (`AskedSimply`): otherwise it is false of the code (5.2).

`OneRecorderAlways` and `EndsOnlyWhenAskedAlways` assume nothing of the commands or the worker:
they cover the Record that is refused, the held Record, and Trigger or Mute of the slot being
recorded. So does `RecordsWholeBeatsAlways`, but for the pulse. The other two assume
what the passing runs assume, because without it they are false of the code (5.2):
`PlayableAlways` that there is a ready block and the worker replaces it before the next frame
(`Supplied`); `ReadsInsideAlways` also that no command takes the storage of a loop under export
(`Guarded`: neither `RecordHeld` nor `DeletePulse` arrives), or that nothing is exported.

**LoopStorage** (`StorageTypes`, `CreditsConserved`, `MemoryStaysBounded`,
`RefillAlwaysFits`, `PoolRefinement`). The inductive invariant adds to the types and
the conservation of credits: that no batch is left when the worker is not sending; that
the chain has room while a block is being added; and `BlocksAccounted`, that every
block ever allocated is in one of the five places. Conservation alone does not bound
memory: the bound needs the last part, and that blocks are allocated only when none
is recycled, for a batch that is part of the credits. The refinement maps
TakeBlock to Take, SendRefill to Repay, and every other step to a stutter.

**PcmTransfer** (`TypeCorrect`, `OwnersTouch`, `Exclusive`, `CommandsSpeakAlone`,
`FreeIsWhole`, `ExportStaysInside`, `OwnershipRefinement`). Exclusive access is not
inductive: that a thread may touch a buffer follows from a state it read some steps
ago. The invariant says, for each place of each thread, who owns the transfer it works
on (`ControlOwns`, `CallbackOwns`, `JobOwns`), that a Queued transfer has one voice among
the ring, the callback's hands and the send about to happen (`OneVoice`), and that a
transfer owned for an export keeps a whole buffer (`ExportsStayWhole`). One lemma per
action; sends and receives share lemmas about sequences. Exclusivity follows from
ownership: the states in which the two threads touch are disjoint. The refinement
shows one lemma per thread: a step changes the owner of at most one transfer, by one
hand-over.

**DiskStream** (`StreamTypes`, `PoolIsConserved`, `ThreadsNeverOverlap`,
`EndIsAlwaysSeen`, `AtMostOneBlockLost`). `LosesAtMostOne` needs `Leftover`: once the
last drain found the ring empty, the ring and the callback's hands hold at most one
block together; which needs `Ending` (an encoder past the stop has a status that is not
"writing", so that the callback starts no new block), and `Fresh` and `Current` (the
callback's block belongs to the stream it thinks it does).

**MemoryPool** (`PoolTypes`, `SlotsAreConserved`). `SlotsConserved` is inductive together
with the types: each step moves one slot, one instance or one reference. The sum bounds what
is ready, so a restock always finds room and `spilled` stays zero, for any number of callers.

**LibraryFiles** (`TypeCorrect`, `TakesAreKept`, `PairsStayWhole`). `SavedTakesAreKept` is not inductive: a
save writes over the unnamed audio and, after an error, removes it; a rename moves files one
by one and a rollback moves them back, both with a call that replaces what it meets. The
invariant adds why this is harmless: the file that is being written was not there when the
save created it, so every saved take has another name (`NewIsExtra`); what is being described
holds its take (`DescribedIsWritten`); no file has a name another is still to get
(`RoomAhead`), and the names a rollback goes back to are free (`RoomBehind`). Two lemmas carry
most actions: one file is put (`PutFile`), one file is moved to a free name (`MoveFile`). The
theorem is for any number of takes, names, failing calls and restarts.
`SavedPairIsWhole` follows from more than it says: every audio file, saved or not, has its metadata
beside it (`Mated`), but for the one a save is at. That an Ok given for audio already there
(`ReuseAudio`) is true rests on it. In the middle of a rename or a rollback files are followed to
where they are (`Place`); one lemma (`Carried`) shows that a call moves one of them and disturbs no
other, forwards or back.

**LoopLibrary** (`TransfersComeHomeAlways`, `ExportsMoveOnAlways`, `SceneIsWholeAlways`). The
inductive invariant `LibraryInv` is about a record of what a handler holds, `Good(s, left, unasked)`,
so that it can be said between any two calls of a handler, and not only between passes. Every
transfer in use is named by a command, by the callback's export or by one of the statuses that are
`left` to this drain (`Homeward`); nothing is lent twice (`Lent`), no handle is of a generation to
come (`Past`), and the handle of an export is named by that export alone (`Own`): a handler that
frees what a status names frees nothing that is still at work. A loop is queued only behind an export
under way (`Moving`); a drain breaks this between the end of one export and the start of the next,
and the invariant within a handler (`Sound`) leaves it out. For the scene, `Waited` says of each loop whose
export had not begun when the snapshot came: it is still to be asked for (`unasked`), queued, under
way, or its hash is new enough or erased (`Asked`); what the loop holds is no older than the
snapshot, unless it was erased (`Since`); and no answer on its way brings an older take (`Due`).
Each operator of the handlers has a lemma that says what it keeps, and each event and each loop of
the drain composes these. The loops are taken turn by turn (`Turns`); instead of an induction, which
would need an operator as a parameter, the least turn at which the invariant would fail is ruled out
(`Least`, `Inductively`). The callback's steps share one lemma (`CallbackKeeps`): they say one
status or lose it, take one command or none, and give no transfer a new generation. None of this
depends on the bound on the user's actions or on fairness.

**AudioRecovery and Session** (`ProcessorIsKept`, `RateIsOfTheRoute`, `LoopKeepsItsAudio`,
`CallbacksAreServed`, `EndsAreClean`; in `Session_proof`). That the graph is in one place is not
inductive: a step finds it where it looks because of how far the recovery is (`InHandWhere`),
because the channel a closure will answer on is there (`ClosureAnswers`), and because only CPAL
drops closures late (`OnlyCpal`). This is `RecoveryInv`; it holds of a session from the moment
its activation is joined (`LiveAudio`). Before that, `SessionInv` follows the startup (`NotYet`,
`Activation`, `Strays`), and afterwards what a callback that still runs has ahead of it
(`Served`). That rollback and closing leave nothing needs to know who will take each resource
away: a phase on the rollback stack (`Stacked`), with the controls left to the phase Audio
(`AudioStacked`), or a step of the closing still to come (`Taken`).

**EventDelivery** (`EveryEventIsAccounted`, `QueuesAreBounded`, `NoWakeupIsLost`,
`EventsStayInOrder`).
`LossesAreCounted` is kept in books by place, before the bridge, around the queue, behind it,
refused or thrown away, handled: a step moves one event, or a batch, from one place to the next
(`Accounted`). That only the end throws anything away (`OnlyTheEndDiscards`) follows from
`DiscardInv`: the worker is told to stop by the end, and closes its port no earlier. It needs to
know that nothing is overwritten: a thread posts when its last event is gone, and a batch is taken
when the last is delivered; these are parts of the types. `NoLostWakeup` is the safety behind
`QueueIsDispatched`, a part of `DeliveryMovesOn`: while something is queued the flag is up or about to be, or the dispatch
thread is on its way. `EndIsNoticed` is the one behind `EndComes`, and rests on the mutex that
`EventManager::drop` takes between clearing `running` and notifying, and on a loop that ends no
session in the middle of a post (`LoopPosts`).


`InOrder` only speaks of what was handled, and is not inductive: `OrderInv` states it of the whole
way. The way of the sources is cut into what they share (queue, batch, inbox) and what each has to
itself (the port, the bridge's hands and channel; the key about to be posted); every piece is in
order, after what was handled and before what is to come (`InLine`). The lemmas are about
sequences: pieces in order may be joined (`Ordered`), what is left out disturbs nothing (`Thins`), and
pieces of different sources are in order whatever their numbers. A step moves a border between
two pieces; that a queue refuses is a step that thins one.

**DuplexRing** (`CaptureIsAccounted`). `CaptureFlows` holds between callbacks; in the middle of
one, frames are out of the ring and not yet in a counter. `DuplexInv` says what the callback owes:
how far it has come (`PlaybackShape`), what it has taken out and not counted
(`CapturedAreAccounted`), what it has played ahead of its counter (`PlayedAreAccounted`). That
no frame it found queued outlives the callback needs that frames are numbered as they come
(`NumbersGrow`), and that the frames it saw are among those it has decided to trim and play
(`OldAreAhead`).

**MidiClock** (`InstrumentsAreTold`, `ClockDoesNotDrift`). For the first, the invariant adds what
a clock that beats without a pulse has ahead of it (`Followed`); the lemmas say what the statuses on
their way make of an instrument when one is added, taken or refused (`ToldBy`). For the second,
`OnTime` counts the ticks of a beat twice, as the metronome does and since the START. The arithmetic is
that of marks: c clocks over f frames pass none or one at a frame if c < f and at least one
otherwise, where the code sends just one; all but the last are passed before the beat ends, for all c and f, so also for the 24 clocks and
the beats of some ten thousand frames that TLC cannot reach.

**MidiEcho** (`NotesAreEnded`). The release of a key ends what its NoteOn started because both
compute the same notes (`HeldAsStarted`), whatever patch, port and channel were chosen in
between: of remembered zones nothing but the pitch is looked up again (`RememberedNotes`).

**TouchInput** (`GesturesStayWhole`, `InputStaysKept`). Gestures are whole because a contact that
may still be a tap has said nothing yet, and one that goes on was no tap (`Whole`); a drag takes
one step of the wheel at a time and carries the rest. For the input, a key is followed through
four places: SDL's queue (`SaidMore`), its head (`SaidLess`), the event that waits behind a
deadline (`SettledKeys`), and what SdlIo made of what was returned (`ReturnedKeys`). In each the
last event about a key decides, so a step that hands an event from one to the next keeps what is
said of every key.

**LoopPanel** (`PanelFollowsLoopsAlways`). The property looks at the panel when no order that
moves or erases is on its way; `PanelInv` says what holds on the way. A name is where the orders on
the ring will take its loop, unless one of them erases it or is refused (`NamesLead`), and so is a
selection (`SetsLead`). A loop is followed place by place along the ring (`Led`, `Reaches`). What
could go wrong is a move that is not refused and takes what is in its way back to where it came
from: the callback swaps two slots, and only a target with frames is a refusal. It never displaces a
loop that was named or selected: without frames that is a recording under way, which stays shown
where it is (`ShortStay`), so the panel moves nothing there unless it has moved the recording away
before, by an order that is ahead on the ring (`OutFirst`). A player who names what is shown names
the right take, because an answer that has seen all moves shows a take where it is or nowhere
(`ViewsPlace`, `ViewsStay`, `ViewsSee`); moves are counted along the ring (`Between`), so that
`Settled` means that none is on it. What a batch puts on the ring and what the callback takes off
it are lemmas about one order, by the least number principle over the places of the ring.

The run has one selection set, in which all that is selected is erased together; the theorem has any
number. Its first attempt failed for a good reason: with two sets and a ring that fills up, loops
are neither erased nor selected any more (section 5.2), which the property now excepts.

**Bindings** (`SpecificFirstAlways`, `SendsSeeWritesAlways`). The runs have configurations of two
elements; the theorems have any. For the first, a bucket answers for its elements (`Answers`): the
chain it finds is that of the first that holds. Loading an element keeps it so because a bucket
never ends in the middle of a chain, so that no chain is entered but at its beginning
(`AnswersMore`). What asks for a literal and holds is in the bucket of the value, and a bucket
that is not the last has nothing else (`FirstsFound`); negative values share the last bucket with
what asks for none. For the second, a dispatch has what was set last in sight, wherever it is in a
chain (`Current`), and an event dispatched from it keeps it so, whatever is left of the depth
(`Deeper`). What recursive functions compute is followed step by step (`Iterates`), by the least
number principle again.

Only model-checked: liveness (TLAPS has no reasoning about fairness or ENABLED here);
of `LoopEngine`, the second part of `LoopsInSync`: that a loop plays the frame the clock asks
for.

## 5. Disagreements

### 5.1 Shown by a run

- **disk_stream_exhausted**: `push_audio` compares the block size with that of the first
  free block (`file_streamer.rs:64`) before it collects recycled blocks (69). Once the pool
  was empty, no further block of the take is accepted, although the comment at 47 says
  that a momentarily exhausted pool "only drops this block".
- **library_snapshot**: a snapshot the user creates is struck off by the drain of the same
  pass (`native_runtime.rs:4141`), before the callback has made it, and a drained snapshot
  is kept only when a scene save was waiting (4083).
- **audio_recovery**: `AudioIO::recover` closes the back end and clears `active` when an
  attempt fails (`audioio.rs:600`), and answers every later attempt with "audio backend is not
  active" (588). The retries the controller counts never reach the device, and the session
  ends after the limit even if the device is back. The comment at `audio_native_cpal.rs:461`
  calls such failures "retryable during recovery".
- **scene_backups**: a backup takes the smallest free number (`native_runtime.rs:2992`), and
  pruning keeps the highest (309). After the ninth backup number 1 is free; every later save
  puts the scene there and prunes it at once, before the new file is written, although the
  comment at 3005 says "with the freshly numbered head already in place".
- **window_close**: while the settings overlay is shown, the event loop passes over every input
  but its own (`native_runtime.rs:4227`), a close request included; `SdlIo` has cleared `active`
  for it (`sdlio.rs:736`) and polls nothing any more (727), so neither a second request nor the
  Escape that hides the overlay arrives. The comment at `sdlio.rs:581` says of a Quit that
  "losing one would be permanent".

### 5.2 Observed while modelling

These were seen in the source or in runs with other constants; no run is kept for them.

Transfers and exports (`native_dsp_graph.rs`):
- An ImportLoop aimed at the loop being exported is rejected (2067) before its transfer is
  looked at. The transfer stays Queued, no call accepts it, a slot of the pool is gone, and
  the import queue behind it never moves.
- A loop longer than a transfer is exported past its buffer in release builds (2763); the
  `debug_assert` at 2831 and the comment at 56 assume it cannot be. `ExportFits` is
  therefore stated for loops that fit.
- The comment at 315 names the control thread for Callback → Exported; the stores are the
  callback's (2719, 2787, 2840).
- `mutates_loop` (2997) matches a Record with `presslen_ms: 0` only. A held Record
  (`runtime_event_actions.rs:593`) and DeletePulse (2573) change the loop being exported,
  which `tests/native_runtime_contract.rs:388` says is rejected. `LoopEngine` has both (`RecordHeld`); no
  run enables it, nor DeletePulse together with exports, and `ReadsInsideAlways` says what
  holds without the two.

Recording and the pulse (`native_dsp_graph.rs`):
- ClearPulse while a stop waits for a downbeat (2558, 2055): the recording goes on until
  storage runs out.
- A second StopRecord during the tail counts one beat more (2058), and one that shortens
  the committed beats leaves a long cycle that does not cover the loop (2049, 3165); hence
  `RecordsWholeBeats` speaks of recordings asked to stop once.
- With beats of more than two blocks (40 000 frames) a recording whose second block is refused (2170)
  begins with fewer frames than have passed since the downbeat (2173, 1966), and ends short by as
  many: TLC shows it with a block of 2 frames, one block ready and a beat of 8.
- The same can be left by a StopRecord in the first half of a beat after a Trigger of the slot being
  recorded: the loop has two beats and the cycle one. `CycleCoversLoopsAlways` leaves both out
  (`AskedSimply`).
- SetPulseFromLoop with a subdivision of 2 leaves a long cycle of 1 (2453, 3164).
- A recording ended at its target length starts to play one frame late (3437; the comment
  at 3448 says it does not): the `AFrameLate` of `InSync`.
- CalibrateLatency is accepted during a recording (2405), a Record during a calibration is
  not (2074).
- Trigger, Mute and ImportLoop of the slot being recorded leave `recording` naming it
  (2225).
- An external transport may set a beat of zero frames (3050).
- A Record that is refused for want of storage has already given the old blocks back and
  leaves the slot Playing with its old length (2098); `Playable` fails in `LoopEngine` as soon
  as the worker may fall behind (`WorkerKeepsUp = FALSE`, one ready block).

MIDI clock (`native_dsp_graph.rs`, `midiio.rs`):
- DeletePulse sends no STOP, on purpose (2603): an instrument that follows the clock runs on. So
  does one whose pulse is cleared while the callback's gate is shut, and then a later pulse may
  send clocks without a START. The two gates are shut at different times, and a START between them is
  lost. `FollowersAreTold` names these.
- A START or STOP that meets a full status ring is lost; nothing sends it again.
- The tap that refreshes a pulse arms the START for the next wrap of the beat. If the tap has
  itself set a downbeat, the START comes a beat later; the comment at 2486 says "the next downbeat".

Touch (`sdlio.rs`, `native_runtime.rs`):
- A held overdub whose finger slides to another cell sends the release there, although
  `coreinterface.xml:502` says that the hold starts it and the release stops it.
- The comment at `sdlio.rs:231` says of a double tap "first tap suppressed"; the first tap has
  been sent by then, and has triggered.
- What is left of a drag below one step is dropped when the finger goes up; a finger that goes
  up after the deadline, before it is looked at, counts as a tap.
- A hold or a double tap outside the session list reaches the cell below it, although the comment
  at `native_runtime.rs:4241` says that the list "never leaks a tap to a cell".

Event loop (`native_runtime.rs`):
- Any error of a drain ends the session (4105, 4128-4137, and `poll_event()?` in
  `core.rs`), while the comment at 3089 says an error "must not stop a scene/autosave batch
  behind it". Saving a scene while a loop records, erasing a loop during a scene save,
  erasing a loop whose export is queued, a full disk: each ends it.
- A scene save accepts any snapshot, also an earlier display refresh; the comment at 2892
  says "its corresponding snapshot". A loop whose export was already under way is not
  asked for again (2743), so the scene names the older take: `SceneIsWhole` exempts it.
- Save a scene, then load another before the exports have finished: the save overwrites
  the file of the scene just loaded (2967, 3195).
- A scene loaded between the publication of an import and the drain of its status
  releases the transfer twice, and the session ends.
- A rejected or unanswered import stays in `pending_imports` and stalls the queue behind
  it; so does a first file that does not decode.
- Only the last TransferError of a drain is handled, and it never removes an import.
- MoveLoop moves hash, file, name, selection and mode before the callback has accepted it
  (2253); a refused one leaves them under the wrong slot. The callback refuses a loop that has
  just begun to record (`native_dsp_graph.rs:2292`), although `config-help.txt:499` says a move
  "can be done at any time - when recording". The selected pulse diverges in the same way when SetPulseFromLoop is rejected (1811).
- A scene load or a snapshot restore that meets a full command ring is left half applied.
- Loading a scene sends 512 erases into a ring of 512 (3117).

The panel (`native_runtime.rs`, `runtime_event_actions.rs`):
- A key pressed twice within 33 ms sends Record twice, and the first take is lost (590); a
  snapshot taken before a MoveLoop and read after it shows the target empty, and a press
  records over the loop that was moved there.
- EraseLoop and scene loads never call `update_after_erase`, whose comment
  (`native_loop_selection.rs:110`) says an erased loop is removed from every set: a new
  recording in the slot is selected, and a MoveLoop onto the slot puts it in a set twice.
- `EraseSelectedLoops` takes the slots out of every selection set before it sends the first Erase
  (`native_loop_selection.rs:139`, `native_runtime.rs:2056`): when the command ring fills, the loops
  behind are neither erased nor selected, in the other sets too. `moves.refused` excepts this.
- A MoveLoop during a rename gives the name to the old slot, and an export under way registers
  its file under the old slot (3076). Erasing loops keeps their names (2044, 2056), and
  swapping snapshots does not swap theirs.

MIDI echo (`native_runtime.rs`, `midiio.rs`):
- `held_midi_routes` is keyed by the note alone (1614): the same note on two channels shares an
  entry. A note sent to the echo port is not remembered, although the comment at 5020 says
  "patch and default port". Transposing between NoteOn and NoteOff leaves the note sounding. A
  zone that cannot be sent to ends the NoteOff for the zones behind it (1592).

Bindings (`config.rs`, `native_runtime.rs`):
- A literal range on the indexed parameter goes to bucket 0 (1665), where the other values of
  the range never look.
- A batch that meets a full command ring is sent in part (1501), and the rest and the echo are
  lost; a chain that fails keeps the variables it has set.

Audio, startup, session:
- JACK never runs: `start_interfaces` requires `r.midi` (`native_runtime.rs:3888`), which the
  JACK startup does not fill, while `README.md:71` documents JACK.
- CPAL: a recovery that opens and then fails to activate has cleared the request; CoreAudio
  is left without a route; either session runs on in silence. CoreAudio drops the graph when
  its open or activation fails, so `OneProcessor` allows that.
- The commands sent after a recovery are dropped silently when the ring is full (1380). A
  disk stream that outlives a recovery keeps the old rate in its header.
- A `start_session` that fails leaves the flags false, so the ordered closing closes nothing;
  a setup that fails leaves the input and the processor; an error of the window during the
  activation leaves the "coreaudio-setup" thread owning AudioIO. `CallbackIsServed`
  and `EndedSessionIsClosed` name these exceptions.
- The memory manager and the memory lock are not released by the ordered closing.

Events:
- An event the inbox refuses is not counted (868), and the loop handles one event a pass. A
  key the event queue refuses ends the session (4340).
- What waits in the port of the MIDI back end when the session ends is thrown away, and no
  counter moves: `close` sets `receiver` to None (midiio_platform.rs:229-234), and only
  `enqueue_packet` (125) counts. `LossesAreCounted` has a term of its own for it
  (`uncounted["port"]`) and says that nothing but the end adds to it. What the end leaves in the
  channel, the event queue or the inbox stays there in the model, counted as waiting, although
  nobody will read it.
- The bridge worker may end on its timeout with a message still in the channel.
- `MidiIo::fatal_error` is never read; `process_pending` is never called, though `event.rs`
  says it is.

Memory manager (`mem.rs`):
- An update accepted between the worker's empty pop and its test of the stop flag is never
  processed: `AcceptedIsProcessed` in `MemoryPool` fails in eight steps, against the comment at
  147. Nothing but the memory of the instance is concerned.
- The last reference may be dropped by a callback thread, which then joins the worker.

Files (`native_runtime.rs`):
- A file torn by the end of the process is refused as a collision for ever; torn metadata
  next to matching audio is taken as written.
- A plain Erase and a new Record leave the file name and hash of the old take, so that a
  later rename of the loop renames the old take's files (comment at `native_rename.rs:84`).
  `import_selected_loop` does not set them at all; a rename names a slot whose loop may have
  moved meanwhile.
- A renamed loop that is saved again gets a second, unnamed pair with the same hash, and from
  then on every rename of that hash is refused. Scenes behave in the same way.
- Renaming a scene that has a name renames its backups to names that are no backups.
- Queued imports keep the old path across a rename; loading takes the first file of a hash.

Disk stream (`file_streamer.rs`):
- `request_stop` says it "will drain remaining blocks" (232); a block accepted while the
  stop is requested may be queued after the last drain. `LosesAtMostOne` states what holds.

## 6. What is not modelled

- *Recovery under JACK*, which never asks for one; *option parsing and path discovery* of
  the startup: pure input.
- *Timeouts of joins*: no thread that is joined blocks on one that is not fair, and the models
  join without a timeout.
- *The processor queue* (`processor_queue.rs`), *the block managers* and `PersistenceRuntime`:
  run by their own tests only.
- *The external transport* a pulse may follow: only JACK has one, and JACK never runs (5.2). *The
  sound of the metronome*; its accents are in `MidiClock`.
- *Latency calibration* beyond the flag that refuses a Record: signal processing.
- *Parsing, expressions and types of the configuration, codecs, the contents of files*:
  deterministic sequential conversions; the models take their results as inputs and their
  failures as outcomes. Of the some hundred actions a binding can name, those about loops are in
  `LoopPanel` and `LoopLibrary`; the others set a gain, a flag or a device and have no answer.
- *Audio back ends, synthesizer, MIDI encodings, OSC, mixer, drawing*: calls into external
  systems. Of the back ends, `AudioRecovery` has the life of streams and the owner of the graph,
  `DuplexRing` the frames under CPAL; of the user interface, `TouchInput` has the input, the
  settings overlay and the session list as surfaces. The other displays only show state.
- *The ring buffers* are sequences or counts; their implementation is an external crate.
- *Samples and floating point*: out of reach of both tools.
- *Memory ordering weaker than sequential consistency*: the atomics of the transfer
  protocol are acquire/release on one location each, and each buffer is guarded by its
  own; nothing in the models relies on an order between two of them, except the request
  counter and the rings, whose order does not matter for what is claimed.

## 7. Plan

Done, in this order: ReadyPool and LoopStorage (with proofs); TransferOwnership and
PcmTransfer (with proofs); Pulse and LoopEngine (with proofs); DiskStream (with proofs); LoopLibrary
(with proofs); AudioRecovery and Session (with proofs); EventDelivery (with proofs); MemoryPool (with proofs); LibraryFiles (with proofs)
and SceneFiles; LoopPanel, MidiEcho, Bindings (with proofs); MidiClock, DuplexRing and
TouchInput (with proofs).

Next:

1. Proofs: `InSync` for a cycle that stays below the largest number.
2. `LoopLibrary`: what MoveLoop does to exports under way, snapshots to restore; properties of
   the import queue and of the file a save is for.
3. The CoreAudio back end beyond what `AudioRecovery` needs of it: the rollback of an open that
   fails half way.
4. The order of the components' frames inside a callback: scalar chains, mixer, recorder.

## 8. Running the checks

```
tlc -workers 2 -config LoopEngineStops.cfg LoopEngine.tla
tlapm PcmTransfer_proof.tla
```

The slowest configurations (EventLoop, Engine, Workers, Control, LoopEngineSlots) take one to
four minutes on two cores. Deadlock is checked except for LoopLibrary, whose session may end,
SceneFiles, which stops at its bound, and TouchInput.cfg, whose user has done all the bounds
allow; a session or an event path that has ended, and a device at its bound, stutters explicitly.
