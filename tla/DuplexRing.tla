---------------------------- MODULE DuplexRing ----------------------------
(***************************************************************************)
(* The ring between the capture and the playback stream of a CPAL device   *)
(* (src/audio_native_cpal.rs, capture_callback and playback_callback): two *)
(* threads on clocks of their own.  Frames are numbered as the device      *)
(* captures them.  Each push, pop and reading of the ring is a step, as    *)
(* the other thread may come between any two of them.  This is the desktop *)
(* build: on Android the backlog is kept.  Samples, channels and the times *)
(* spent in a callback are left out.                                       *)
(***************************************************************************)
EXTENDS Integers, SequencesExt

CONSTANTS
  RingFrames,           \* buffer_size * ring_periods
  ExpectedFrames,       \* the negotiated buffer_size
  MAX_CALLBACK_FRAMES,  \* the processor is called for at most that many
  Bursts,               \* bound: sizes of a capture callback
  Requests,             \* bound: sizes of a playback callback
  MaxCaptured, MaxCallbacks   \* bounds

ASSUME DuplexAssumption ==
  /\ {RingFrames, ExpectedFrames, MAX_CALLBACK_FRAMES} \subseteq Nat \ {0}
  /\ Bursts \subseteq Nat /\ Requests \subseteq Nat /\ {MaxCaptured, MaxCallbacks} \subseteq Nat

VARIABLES
  queue,     \* the ring: numbers of frames
  burst,     \* frames the capture callback has yet to push, and ...
  dropped,   \* ... those it could not
  playback,  \* the playback callback: where it is and its locals
  metrics,   \* SharedMetrics, the counters of frames
  heard,     \* ghost: frames of the ring that reached the processor
  newest     \* ghost: the newest frame queued when the last callback looked

duplexVars == <<queue, burst, dropped, playback, metrics, heard, newest>>

Resting == [at |-> "rest", frame_count |-> 0, trimmed |-> 0, trim |-> 0, left |-> 0, chunk |-> 0, missing |-> 0]

DuplexInit ==
  /\ queue = <<>> /\ burst = 0 /\ dropped = 0 /\ playback = Resting
  /\ metrics = [capture_frames |-> 0, capture_overruns |-> 0, trimmed_frames |-> 0, missing_frames |-> 0,
                playback_frames |-> 0, callbacks |-> 0, frame_size_mismatches |-> 0]
  /\ heard = 0 /\ newest = 0

--------------------------------------------------------------------------
(* Capture                                                                 *)

CaptureBegins ==
  /\ burst = 0 /\ dropped = 0
  /\ \E n \in Bursts \ {0} :
       /\ metrics.capture_frames + n <= MaxCaptured
       /\ burst' = n /\ metrics' = [metrics EXCEPT !.capture_frames = @ + n]
  /\ UNCHANGED <<queue, dropped, playback, heard, newest>>

\* A full ring refuses the frame.
Push ==
  /\ burst > 0 /\ burst' = burst - 1
  /\ LET frame == metrics.capture_frames - burst + 1
     IN IF Len(queue) < RingFrames THEN queue' = Append(queue, frame) /\ UNCHANGED dropped
        ELSE dropped' = dropped + 1 /\ UNCHANGED queue
  /\ UNCHANGED <<playback, metrics, heard, newest>>

CaptureEnds ==
  /\ burst = 0 /\ dropped > 0 /\ dropped' = 0
  /\ metrics' = [metrics EXCEPT !.capture_overruns = @ + dropped]
  /\ UNCHANGED <<queue, burst, playback, heard, newest>>

--------------------------------------------------------------------------
(* Playback                                                                *)

\* Mutant: the period kept is the negotiated one.
BadExcess(queued, frames) == IF queued > ExpectedFrames THEN queued - ExpectedFrames ELSE 0

\* What is queued beyond this callback's own period would stay queued for ever.
Excess(queued, frames) == IF queued > frames THEN queued - frames ELSE 0

Looks ==
  /\ playback.at = "rest" /\ metrics.callbacks < MaxCallbacks
  /\ \E n \in Requests :
       LET excess == Excess(Len(queue), n)
       IN /\ playback' = [Resting EXCEPT !.at = "trim", !.frame_count = n, !.left = n,
                                         !.trimmed = excess, !.trim = excess]
          /\ metrics' = [metrics EXCEPT !.frame_size_mismatches = IF n # ExpectedFrames THEN @ + 1 ELSE @]
  /\ newest' = IF queue = <<>> THEN newest ELSE Last(queue)
  /\ UNCHANGED <<queue, burst, dropped, heard>>

Trims ==
  /\ playback.at = "trim" /\ playback.trim > 0
  /\ playback' = [playback EXCEPT !.trim = @ - 1]
  /\ queue' = Tail(queue)
  /\ UNCHANGED <<burst, dropped, metrics, heard, newest>>

Chunk(left) == IF left < MAX_CALLBACK_FRAMES THEN left ELSE MAX_CALLBACK_FRAMES

CountsTrimmed ==
  /\ playback.at = "trim" /\ playback.trim = 0
  /\ playback' = [playback EXCEPT !.at = "fill", !.chunk = Chunk(playback.left)]
  /\ metrics' = [metrics EXCEPT !.trimmed_frames = @ + playback.trimmed,
                                !.capture_overruns = @ + playback.trimmed]
  /\ UNCHANGED <<queue, burst, dropped, heard, newest>>

\* A frame of the ring, or silence that is counted.
Fills ==
  /\ playback.at = "fill" /\ playback.chunk > 0
  /\ \/ /\ queue # <<>> /\ queue' = Tail(queue) /\ heard' = heard + 1
        /\ playback' = [playback EXCEPT !.chunk = @ - 1, !.left = @ - 1]
     \/ /\ queue = <<>>
        /\ playback' = [playback EXCEPT !.chunk = @ - 1, !.left = @ - 1, !.missing = @ + 1]
        /\ UNCHANGED <<queue, heard>>
  /\ UNCHANGED <<burst, dropped, metrics, newest>>

NextChunk    == [playback EXCEPT !.chunk = Chunk(playback.left), !.missing = 0]

\* The processor has rendered a chunk.
Processes ==
  /\ playback.at = "fill" /\ playback.chunk = 0 /\ playback.left > 0
  /\ playback' = NextChunk
  /\ metrics' = [metrics EXCEPT !.missing_frames = @ + playback.missing]
  /\ UNCHANGED <<queue, burst, dropped, heard, newest>>

PlaybackEnds ==
  /\ playback.at = "fill" /\ playback.left = 0
  /\ playback' = Resting
  /\ metrics' = [metrics EXCEPT !.missing_frames = @ + playback.missing, !.callbacks = @ + 1,
                                !.playback_frames = @ + playback.frame_count]
  /\ UNCHANGED <<queue, burst, dropped, heard, newest>>

DuplexNext ==
  \/ CaptureBegins \/ Push \/ CaptureEnds
  \/ Looks \/ Trims \/ CountsTrimmed \/ Fills \/ Processes \/ PlaybackEnds

DuplexSpec == DuplexInit /\ [][DuplexNext]_duplexVars

--------------------------------------------------------------------------
(* Properties                                                              *)

\* The startup backlog never becomes monitor latency: after a callback nothing is queued
\* that was queued when it looked, whatever the two clocks and the sizes of their
\* callbacks do, so that a frame waits for at most one callback.
NothingWaitsTwice == playback.at = "rest" => \A frame \in Range(queue) : frame > newest

\* Drift is observable: of the frames captured each is queued, was heard, or is counted
\* as an overrun (by the callback that drops or trims it), and the frames played are
\* those heard and those counted as missing.
FramesAreAccounted ==
  /\ metrics.capture_frames = burst + Len(queue) + heard + metrics.capture_overruns + dropped
                              + IF playback.at = "trim" THEN playback.trimmed - playback.trim ELSE 0
  /\ playback.at = "rest" => metrics.playback_frames = heard + metrics.missing_frames

\* What is captured reaches the processor within one callback, or is counted: neither the
\* backlog of the start nor the drift of two clocks turns into latency or into loss that
\* nobody sees (comments at 964 and 987).
CaptureFlows == NothingWaitsTwice /\ FramesAreAccounted
==========================================================================
