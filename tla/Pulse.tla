------------------------------ MODULE Pulse ------------------------------
(***************************************************************************)
(* The musical clock of the audio callback (src/native_dsp_graph.rs, the   *)
(* `pulse_*` fields of RuntimeAudioProcessor) as operators on a record:    *)
(*   frames      pulse_frames, the length of a beat                        *)
(*   position    pulse_position, frames since the last downbeat            *)
(*   longCount   pulse_long_count, beats since the start of the long cycle *)
(*   longLength  pulse_long_length, beats of the long cycle                *)
(*   active      pulse_sync_active                                         *)
(*   armed       pulse_tap_armed                                           *)
(*   suppressed  pulse_downbeat_suppressed                                 *)
(* The time of the last tap is left out: a tap brings the measured gap.    *)
(***************************************************************************)
EXTENDS Naturals

CONSTANTS U32Max,   \* the largest u32 (model bound: small)
          ShortTap  \* 64: a shorter beat takes any measured gap

ASSUME PulseAssumption == U32Max \in Nat \ {0} /\ ShortTap \in Nat

Larger(m, n)  == IF m < n THEN n ELSE m
Smaller(m, n) == IF m < n THEN m ELSE n

\* The clock before any pulse exists; `frames` is the idle tempo.
IdlePulse(frames) ==
  [frames |-> frames, position |-> 0, longCount |-> 0, longLength |-> 1,
   active |-> FALSE, armed |-> FALSE, suppressed |-> FALSE]

Gcd(m, n) == CHOOSE d \in 1..m : /\ m % d = 0 /\ n % d = 0
                                 /\ \A c \in 1..m : m % c = 0 /\ n % c = 0 => c <= d

\* Mutant: the longer cycle starts over, under the loops that play.
BadExtend(p, beats, endJustify) ==
  LET grown == Smaller((p.longLength \div Gcd(p.longLength, beats)) * beats, U32Max)
  IN IF beats = 0 \/ ~p.active THEN p
     ELSE [p EXCEPT !.longLength = grown,
                    !.longCount  = IF endJustify /\ grown > p.longLength THEN 0 ELSE @]

\* A loop of `beats` beats joins: the long cycle becomes the least common multiple;
\* with endJustify the count keeps its distance to the end of the cycle.
Extend(p, beats, endJustify) ==
  LET old   == p.longLength
      grown == Smaller((old \div Gcd(old, beats)) * beats, U32Max)
      toEnd == Smaller(old - (p.longCount % old), grown)
  IN IF beats = 0 \/ ~p.active THEN p
     ELSE [p EXCEPT !.longLength = grown,
                    !.longCount  = IF endJustify /\ grown > old THEN grown - toEnd ELSE @]

\* Where a synchronised loop of len frames and `beats` beats plays now.
SyncedPosition(p, len, beats, alignment) ==
  IF len = 0 \/ beats = 0 THEN 0
  ELSE ((p.longCount % beats) * Larger(p.frames, 1) + p.position + alignment) % len

--------------------------------------------------------------------------
(* Time                                                                    *)

Wrap(p) == [p EXCEPT !.position = 0, !.longCount = (@ + 1) % p.longLength]

\* Mutant: the beat has one frame more.
BadTick(p) == IF p.position + 1 > p.frames THEN Wrap(p) ELSE [p EXCEPT !.position = @ + 1]

\* The frame has been rendered.
Tick(p) == IF p.position + 1 >= p.frames THEN Wrap(p) ELSE [p EXCEPT !.position = @ + 1]

\* The frame about to be rendered is at position zero of a running pulse ...
AtZero(p) == p.active /\ p.position = 0

\* ... and the loops are told, unless a tap only moved the position there.
Downbeat(p) == AtZero(p) /\ ~p.suppressed

\* The suppression holds for one frame at position zero.
Heard(p) == IF AtZero(p) THEN [p EXCEPT !.suppressed = FALSE] ELSE p

--------------------------------------------------------------------------
(* Commands                                                                *)

SetPulse(p, frames) ==
  [p EXCEPT !.frames = Larger(frames, 1), !.position = @ % Larger(frames, 1),
            !.longCount = 0, !.longLength = 1, !.active = TRUE]

\* SetPulseFromLoop for a loop of len frames at `position`, divided into `beats`.
PulseOfLoop(p, len, position, beats) ==
  LET n == Smaller(Larger(len \div beats, 1), U32Max)
  IN [p EXCEPT !.frames = n, !.position = position % n,
               !.longCount = 0, !.longLength = 1, !.active = TRUE]

\* The first tap that may set a length creates a pulse that does not run.
ArmPulse(p) == [p EXCEPT !.armed = TRUE, !.longCount = 0, !.longLength = 1]

Measured(gap) == Smaller(Larger(gap, 1), U32Max)

\* A later tap on the armed pulse; only one that may set a length starts it.
TapArmed(p, newLen, gap) ==
  [p EXCEPT !.frames = IF newLen THEN Measured(gap) ELSE @,
            !.armed = ~newLen, !.active = newLen,
            !.position = 0, !.suppressed = TRUE]

\* A running pulse may take the gap as its length; the second half wraps, the
\* first half only moves back.
TapRunning(p, newLen, gap) ==
  LET accepted == newLen /\ (p.frames < ShortTap \/ (0 < gap /\ gap < 5 * p.frames))
      retuned  == [p EXCEPT !.frames = IF accepted THEN Measured(gap) ELSE @]
  IN IF 2 * p.position >= p.frames THEN Wrap(retuned)
     ELSE [retuned EXCEPT !.position = 0, !.suppressed = TRUE]

TapPulse(p, newLen, gap) ==
  CASE p.active                            -> TapRunning(p, newLen, gap)
    [] ~p.active /\ p.armed                -> TapArmed(p, newLen, gap)
    [] ~p.active /\ ~p.armed /\ newLen     -> ArmPulse(p)
    [] OTHER                               -> p

\* ClearPulse and DeletePulse leave the same clock.
NoPulse(p) == [p EXCEPT !.active = FALSE, !.armed = FALSE, !.longCount = 0, !.longLength = 1]

\* A new sample rate brings its idle tempo, whatever the pulse is.
SetSampleRate(p, idleFrames) == [p EXCEPT !.frames = idleFrames]

\* An external transport rolls: its tempo sets the length, its bar or beat wraps.
FollowTransport(p, frames, wraps) ==
  LET tuned == [p EXCEPT !.frames = frames]
  IN IF ~(p.active \/ p.armed) THEN p ELSE IF wraps THEN Wrap(tuned) ELSE tuned
==========================================================================
