--------------------------- MODULE Callback_proof ---------------------------
(***************************************************************************)
(* What the callbacks tell and play (modules DuplexRing and MidiClock).    *)
(*                                                                         *)
(* Two callbacks share a ring of frames.  That every frame captured is in  *)
(* the ring, has been heard or is counted, and that no frame waits for two *)
(* callbacks of the playback, rests on what a playback callback under way  *)
(* still owes: the frames it has decided to trim and to play, the frames   *)
(* it has trimmed and not counted yet, and the frames it has played before *)
(* the counter says so.                                                    *)
(*                                                                         *)
(* The MIDI clock follows a pulse.  What an instrument has been told rests *)
(* on what the statuses still on their way will make of it, the time the   *)
(* clock keeps on how many marks a frame of the beat can pass.             *)
(***************************************************************************)
EXTENDS DuplexRing, MidiClock, SequenceTheorems, TLAPS

--------------------------------------------------------------------------
(* DuplexRing                                                              *)

Playbacks == [at : {"rest", "trim", "fill"}, frame_count : Nat, trimmed : Nat, trim : Nat,
              left : Nat, chunk : Nat, missing : Nat]
Counters == [capture_frames : Nat, capture_overruns : Nat, trimmed_frames : Nat,
             missing_frames : Nat, playback_frames : Nat, callbacks : Nat,
             frame_size_mismatches : Nat]

DuplexTypes ==
  /\ queue \in Seq(Nat)
  /\ burst \in Nat /\ dropped \in Nat /\ heard \in Nat /\ newest \in Nat
  /\ playback \in Playbacks
  /\ metrics \in Counters

\* Frames are numbered in the order of their capture: none in the ring, nor the newest
\* seen there, is past the last one the capture callback has pushed.
PushedFrames == metrics.capture_frames - burst
NumbersGrow ==
  /\ burst <= metrics.capture_frames /\ newest <= PushedFrames
  /\ \A i \in 1..Len(queue) : queue[i] <= PushedFrames

\* What a playback callback saw when it looked is among the frames it still has to trim
\* and to play.
OldAreAhead ==
  \A i \in 1..Len(queue) : i > playback.trim + playback.left => queue[i] > newest

\* How far the callback has come.
PlaybackShape ==
  /\ playback.at = "rest" => playback = Resting
  /\ playback.at = "trim" =>
       /\ playback.trim <= playback.trimmed /\ playback.trim <= Len(queue)
       /\ playback.left = playback.frame_count /\ playback.missing = 0
  /\ playback.at = "fill" =>
       /\ playback.trim = 0
       /\ playback.chunk <= playback.left /\ playback.left <= playback.frame_count

\* Taken out of the ring by the callback under way, and not counted yet.
Trimmed == IF playback.at = "trim" THEN playback.trimmed - playback.trim ELSE 0
\* Frames that have left the ring, or have never been in it.
Past == heard + metrics.capture_overruns + dropped + Trimmed
CapturedAreAccounted == metrics.capture_frames = burst + Len(queue) + Past

\* What the callback under way has played counts as soon as it is played.
Played == playback.frame_count - playback.left
PlayedAreAccounted ==
  metrics.playback_frames + Played = heard + metrics.missing_frames + playback.missing

DuplexInv ==
  /\ DuplexTypes /\ NumbersGrow /\ OldAreAhead /\ PlaybackShape
  /\ CapturedAreAccounted /\ PlayedAreAccounted

LEMMA DuplexBounds ==
  /\ RingFrames \in Nat /\ ExpectedFrames \in Nat /\ MAX_CALLBACK_FRAMES \in Nat \ {0}
  /\ Bursts \subseteq Nat /\ Requests \subseteq Nat /\ MaxCaptured \in Nat /\ MaxCallbacks \in Nat
  BY DuplexAssumption

\* What the arithmetic of the steps needs of the types.
Numbers ==
  /\ Len(queue) \in Nat
  /\ metrics.capture_frames \in Nat /\ metrics.capture_overruns \in Nat
  /\ metrics.missing_frames \in Nat /\ metrics.playback_frames \in Nat
  /\ playback.trimmed \in Nat /\ playback.trim \in Nat /\ playback.missing \in Nat
  /\ playback.frame_count \in Nat /\ playback.left \in Nat /\ playback.chunk \in Nat
  /\ burst \in Nat /\ dropped \in Nat /\ heard \in Nat /\ newest \in Nat

LEMMA DuplexFields ==
  ASSUME DuplexInv
  PROVE  /\ Numbers /\ Trimmed \in Int /\ Past \in Int /\ Played \in Int /\ PushedFrames \in Nat
         /\ metrics \in Counters /\ playback \in Playbacks /\ queue \in Seq(Nat)
         /\ \A i \in 1..Len(queue) : queue[i] \in Nat
  <1>1. Len(queue) \in Nat /\ \A i \in 1..Len(queue) : queue[i] \in Nat
    BY LenProperties, ElementOfSeq DEF DuplexInv, DuplexTypes
  <1>2. /\ metrics.capture_frames \in Nat /\ metrics.capture_overruns \in Nat
        /\ metrics.missing_frames \in Nat /\ metrics.playback_frames \in Nat
    BY DEF DuplexInv, DuplexTypes, Counters
  <1>3. /\ playback.trimmed \in Nat /\ playback.trim \in Nat /\ playback.missing \in Nat
        /\ playback.frame_count \in Nat /\ playback.left \in Nat /\ playback.chunk \in Nat
    BY DEF DuplexInv, DuplexTypes, Playbacks
  <1>4. Trimmed \in Int /\ Played \in Int
    BY <1>3 DEF Trimmed, Played
  <1>5. Past \in Int
    BY <1>2, <1>4 DEF DuplexInv, DuplexTypes, Past
  <1>6. PushedFrames \in Nat
    BY <1>2 DEF DuplexInv, DuplexTypes, NumbersGrow, PushedFrames
  <1>7. QED
    BY <1>1, <1>2, <1>3, <1>4, <1>5, <1>6 DEF DuplexInv, DuplexTypes, Numbers

LEMMA DuplexStarts == DuplexInit => DuplexInv
  <1> SUFFICES ASSUME DuplexInit PROVE DuplexInv
    OBVIOUS
  <1>1. playback \in Playbacks
    BY DEF DuplexInit, Resting, Playbacks
  <1>2. metrics \in Counters
    BY DEF DuplexInit, Counters
  <1>3. queue = <<>> /\ queue \in Seq(Nat) /\ Len(queue) = 0
    BY EmptySeq DEF DuplexInit
  <1>4. DuplexTypes
    BY <1>1, <1>2, <1>3 DEF DuplexInit, DuplexTypes
  <1>5. NumbersGrow /\ OldAreAhead
    BY <1>3 DEF DuplexInit, NumbersGrow, PushedFrames, OldAreAhead
  <1>6. PlaybackShape /\ CapturedAreAccounted /\ PlayedAreAccounted
    <2>1. PlaybackShape /\ Trimmed = 0 /\ Played = 0 /\ playback.missing = 0
      BY DEF DuplexInit, Resting, PlaybackShape, Trimmed, Played
    <2>2. QED
      BY <1>3, <2>1 DEF DuplexInit, CapturedAreAccounted, Past, PlayedAreAccounted
  <1>7. QED
    BY <1>4, <1>5, <1>6 DEF DuplexInv

LEMMA CaptureBeginsKeeps == DuplexInv /\ CaptureBegins => DuplexInv'
  <1> SUFFICES ASSUME DuplexInv, CaptureBegins PROVE DuplexInv'
    OBVIOUS
  <1>0. /\ Numbers /\ Trimmed \in Int /\ Past \in Int /\ Played \in Int /\ PushedFrames \in Nat
        /\ metrics \in Counters /\ playback \in Playbacks
    BY DuplexFields
  <1>1. PICK n \in Bursts \ {0} :
          burst' = n /\ metrics' = [metrics EXCEPT !.capture_frames = @ + n]
    BY DEF CaptureBegins
  <1>2. n \in Nat /\ burst = 0 /\ UNCHANGED <<queue, dropped, playback, heard, newest>>
    BY DuplexBounds DEF CaptureBegins
  <1>3. metrics' \in Counters /\ metrics'.capture_frames = metrics.capture_frames + n
        /\ UNCHANGED <<metrics.capture_overruns, metrics.missing_frames, metrics.playback_frames>>
    BY <1>0, <1>1, <1>2 DEF Counters
  <1>4. DuplexTypes'
    BY <1>1, <1>2, <1>3 DEF DuplexInv, DuplexTypes
  <1>5. PushedFrames' = PushedFrames
    BY <1>0, <1>1, <1>2, <1>3 DEF DuplexInv, Numbers, PushedFrames
  <1>6. NumbersGrow'
    BY <1>0, <1>1, <1>2, <1>3, <1>5 DEF DuplexInv, Numbers, NumbersGrow
  <1>7. OldAreAhead' /\ PlaybackShape'
    BY <1>0, <1>2 DEF DuplexInv, Numbers, OldAreAhead, PlaybackShape
  <1>8. Trimmed' = Trimmed /\ Played' = Played
    BY <1>2 DEF Trimmed, Played
  <1>9. CapturedAreAccounted' /\ PlayedAreAccounted'
    <2>1. CapturedAreAccounted'
      <3>1. Past' = Past
        BY <1>0, <1>1, <1>2, <1>3, <1>8 DEF Numbers, Past
      <3>2. QED
        BY <1>0, <1>1, <1>2, <1>3, <1>8, <3>1 DEF DuplexInv, Numbers, CapturedAreAccounted
    <2>2. PlayedAreAccounted'
      BY <1>0, <1>1, <1>2, <1>3, <1>8 DEF DuplexInv, Numbers, PlayedAreAccounted
    <2>3. QED
      BY <2>1, <2>2
  <1>10. QED
    BY <1>4, <1>6, <1>7, <1>8, <1>9 DEF DuplexInv

LEMMA PushKeeps == DuplexInv /\ Push => DuplexInv'
  <1> SUFFICES ASSUME DuplexInv, Push PROVE DuplexInv'
    OBVIOUS
  <1>0. /\ Numbers /\ Trimmed \in Int /\ Past \in Int /\ Played \in Int /\ PushedFrames \in Nat
        /\ metrics \in Counters /\ playback \in Playbacks
    BY DuplexFields
  <1> DEFINE number == metrics.capture_frames - burst + 1
  <1>1. /\ burst > 0 /\ burst' = burst - 1 /\ UNCHANGED <<playback, metrics, heard, newest>>
    BY DEF Push
  <1>2. /\ burst' \in Nat /\ burst' <= metrics'.capture_frames
        /\ number = PushedFrames + 1 /\ PushedFrames' = number
    <2>1. burst <= metrics.capture_frames
      BY DEF DuplexInv, NumbersGrow
    <2>2. QED
      BY <1>0, <1>1, <2>1 DEF Numbers, PushedFrames
  <1>3. Trimmed' = Trimmed /\ PlayedAreAccounted'
    BY <1>0, <1>1 DEF DuplexInv, PlayedAreAccounted, Played, Trimmed
  <1>4. /\ newest <= PushedFrames /\ number \in Nat
        /\ \A i \in 1..Len(queue) : queue[i] \in Nat /\ queue[i] <= PushedFrames
    BY <1>0, <1>2, DuplexFields DEF DuplexInv, NumbersGrow
  <1>5. CASE Len(queue) < RingFrames
    <2>1. queue' = Append(queue, number) /\ dropped' = dropped
      BY <1>5 DEF Push
    <2>2. /\ queue' \in Seq(Nat) /\ Len(queue') = Len(queue) + 1
          /\ \A i \in 1..Len(queue) : queue'[i] = queue[i]
          /\ queue'[Len(queue) + 1] = number
      BY <1>4, <2>1, AppendProperties DEF DuplexInv, DuplexTypes
    <2> HIDE DEF number
    <2>3. DuplexTypes'
      BY <1>1, <1>2, <2>1, <2>2 DEF DuplexInv, DuplexTypes
    <2>4. ASSUME NEW i \in 1..Len(queue'), i # Len(queue) + 1
          PROVE  i \in 1..Len(queue) /\ queue'[i] = queue[i]
      <3>1. Len(queue) \in Nat
        BY <1>0 DEF Numbers
      <3>2. i \in 1..Len(queue)
        BY <2>2, <2>4, <3>1
      <3>3. QED
        BY <2>2, <3>2
    <2>5. NumbersGrow'
      <3>1. ASSUME NEW i \in 1..Len(queue') PROVE queue'[i] <= PushedFrames'
        <4>1. CASE i = Len(queue) + 1
          BY <1>2, <1>4, <2>2, <4>1
        <4>2. CASE i # Len(queue) + 1
          BY <1>0, <1>2, <1>4, <2>4, <4>2
        <4>3. QED
          BY <4>1, <4>2
      <3>2. newest' <= PushedFrames'
        BY <1>0, <1>1, <1>2, <1>4 DEF Numbers
      <3>3. QED
        BY <1>2, <3>1, <3>2 DEF NumbersGrow
    <2>6. OldAreAhead'
      <3>1. ASSUME NEW i \in 1..Len(queue'), i > playback.trim + playback.left
            PROVE  queue'[i] > newest
        <4>1. CASE i = Len(queue) + 1
          BY <1>0, <1>2, <1>4, <2>2, <4>1 DEF Numbers
        <4>2. CASE i # Len(queue) + 1
          BY <2>4, <3>1, <4>2 DEF DuplexInv, OldAreAhead
        <4>3. QED
          BY <4>1, <4>2
      <3>2. QED
        BY <1>1, <3>1 DEF OldAreAhead
    <2>7. PlaybackShape'
      BY <1>0, <1>1, <2>2 DEF DuplexInv, Numbers, PlaybackShape
    <2>8. CapturedAreAccounted'
      <3>1. Past' = Past
        BY <1>0, <1>1, <1>3, <2>1, <2>2 DEF Numbers, Past
      <3>2. QED
        BY <1>0, <1>1, <1>3, <2>1, <2>2, <3>1 DEF DuplexInv, Numbers, CapturedAreAccounted
    <2>9. QED
      BY <1>3, <2>3, <2>5, <2>6, <2>7, <2>8 DEF DuplexInv
  <1>6. CASE ~(Len(queue) < RingFrames)
    <2>1. queue' = queue /\ dropped' = dropped + 1
      BY <1>6 DEF Push
    <2> HIDE DEF number
    <2>2. DuplexTypes'
      BY <1>1, <1>2, <2>1 DEF DuplexInv, DuplexTypes
    <2>3. NumbersGrow'
      <3>1. \A i \in 1..Len(queue) : queue[i] <= PushedFrames + 1
        BY <1>0, <1>4
      <3>2. newest <= PushedFrames + 1
        BY <1>0, <1>4 DEF Numbers
      <3>3. QED
        BY <1>1, <1>2, <2>1, <3>1, <3>2 DEF NumbersGrow
    <2>4. OldAreAhead' /\ PlaybackShape'
      BY <1>1, <2>1 DEF DuplexInv, OldAreAhead, PlaybackShape
    <2>5. CapturedAreAccounted'
      <3>1. Past' = Past + 1
        <4>1. /\ heard \in Nat /\ metrics.capture_overruns \in Nat /\ dropped \in Nat /\ Trimmed \in Int
              /\ heard' = heard /\ metrics'.capture_overruns = metrics.capture_overruns
              /\ dropped' = dropped + 1 /\ Trimmed' = Trimmed
          BY <1>0, <1>1, <1>3, <2>1 DEF Numbers
        <4>2. QED
          BY <4>1 DEF Past
      <3>2. QED
        BY <1>0, <1>1, <1>3, <2>1, <3>1 DEF DuplexInv, Numbers, CapturedAreAccounted
    <2>6. QED
      BY <1>3, <2>2, <2>3, <2>4, <2>5 DEF DuplexInv
  <1>7. QED
    BY <1>5, <1>6 DEF DuplexInv

LEMMA CaptureEndsKeeps == DuplexInv /\ CaptureEnds => DuplexInv'
  <1> SUFFICES ASSUME DuplexInv, CaptureEnds PROVE DuplexInv'
    OBVIOUS
  <1>0. /\ Numbers /\ Trimmed \in Int /\ Past \in Int /\ Played \in Int /\ PushedFrames \in Nat
        /\ metrics \in Counters /\ playback \in Playbacks
    BY DuplexFields
  <1>1. dropped' = 0 /\ UNCHANGED <<queue, burst, playback, heard, newest>>
    BY DEF CaptureEnds
  <1>2. /\ metrics' \in Counters /\ metrics'.capture_overruns = metrics.capture_overruns + dropped
        /\ UNCHANGED <<metrics.capture_frames, metrics.missing_frames, metrics.playback_frames>>
    <2>1. dropped \in Nat
      BY <1>0 DEF Numbers
    <2>2. metrics' = [metrics EXCEPT !.capture_overruns = @ + dropped]
      BY DEF CaptureEnds
    <2>3. QED
      BY <1>0, <2>1, <2>2 DEF Counters
  <1>3. DuplexTypes'
    BY <1>1, <1>2 DEF DuplexInv, DuplexTypes
  <1>4. NumbersGrow' /\ OldAreAhead' /\ PlaybackShape'
    BY <1>0, <1>1, <1>2 DEF DuplexInv, Numbers, NumbersGrow, PushedFrames, OldAreAhead, PlaybackShape
  <1>5. Trimmed' = Trimmed /\ Played' = Played
    BY <1>1 DEF Trimmed, Played
  <1>6. CapturedAreAccounted' /\ PlayedAreAccounted'
    <2>1. CapturedAreAccounted'
      <3>1. Past' = Past
        BY <1>0, <1>1, <1>2, <1>5 DEF Numbers, Past
      <3>2. QED
        BY <1>0, <1>1, <1>2, <1>5, <3>1 DEF DuplexInv, Numbers, CapturedAreAccounted
    <2>2. PlayedAreAccounted'
      BY <1>0, <1>1, <1>2, <1>5 DEF DuplexInv, Numbers, PlayedAreAccounted
    <2>3. QED
      BY <2>1, <2>2
  <1>7. QED
    BY <1>3, <1>4, <1>6 DEF DuplexInv

\* The oldest frame leaves the ring.
LEMMA FrameLeaves ==
  ASSUME queue \in Seq(Nat), queue # <<>>, queue' = Tail(queue)
  PROVE  /\ queue' \in Seq(Nat) /\ Len(queue') = Len(queue) - 1 /\ Len(queue) \in Nat \ {0}
         /\ \A i \in 1..Len(queue') : i + 1 \in 1..Len(queue) /\ queue'[i] = queue[i + 1]
  <1>1. Len(queue) \in Nat /\ Len(queue) # 0
    BY LenProperties, EmptySeq
  <1>2. QED
    BY <1>1, HeadTailProperties

LEMMA LooksKeeps == DuplexInv /\ Looks => DuplexInv'
  <1> SUFFICES ASSUME DuplexInv, Looks PROVE DuplexInv'
    OBVIOUS
  <1>0. /\ Numbers /\ Trimmed \in Int /\ Past \in Int /\ Played \in Int /\ PushedFrames \in Nat
        /\ metrics \in Counters /\ playback \in Playbacks
    BY DuplexFields
  <1> DEFINE excess(n) == Excess(Len(queue), n)
  <1>1. PICK n \in Requests :
        /\ playback' = [Resting EXCEPT !.at = "trim", !.frame_count = n, !.left = n,
                                       !.trimmed = excess(n), !.trim = excess(n)]
        /\ metrics' = [metrics EXCEPT !.frame_size_mismatches =
                                        IF n # ExpectedFrames THEN @ + 1 ELSE @]
    BY DEF Looks
  <1>2. n \in Nat /\ UNCHANGED <<queue, burst, dropped, heard>>
    BY DuplexBounds DEF Looks
  <1>3. excess(n) \in Nat /\ excess(n) <= Len(queue) /\ excess(n) + n >= Len(queue)
    BY <1>2 DEF Excess
  <1> HIDE DEF excess
  <1>4. playback' = [at |-> "trim", frame_count |-> n, trimmed |-> excess(n), trim |-> excess(n),
                     left |-> n, chunk |-> 0, missing |-> 0]
    BY <1>1 DEF Resting
  <1>5. playback' \in Playbacks
    BY <1>0, <1>2, <1>3, <1>4 DEF Playbacks
  <1>6. /\ metrics' \in Counters
        /\ UNCHANGED <<metrics.capture_frames, metrics.capture_overruns, metrics.missing_frames,
                       metrics.playback_frames>>
    BY <1>0, <1>1 DEF Counters
  <1>7. newest' \in Nat /\ newest' <= PushedFrames
    <2>1. CASE queue = <<>>
      BY <1>0, <2>1 DEF DuplexInv, Numbers, Looks, NumbersGrow
    <2>2. CASE queue # <<>>
      <3>1. Len(queue) \in 1..Len(queue) /\ newest' = queue[Len(queue)]
        BY <2>2, EmptySeq DEF DuplexInv, Looks, Last, DuplexTypes
      <3>2. QED
        BY <3>1, DuplexFields DEF DuplexInv, NumbersGrow
    <2>3. QED
      BY <2>1, <2>2 DEF DuplexInv
  <1>8. DuplexTypes'
    BY <1>2, <1>5, <1>6, <1>7 DEF DuplexInv, DuplexTypes
  <1>9. NumbersGrow'
    BY <1>0, <1>2, <1>6, <1>7 DEF DuplexInv, Numbers, NumbersGrow, PushedFrames
  <1>10. OldAreAhead' /\ PlaybackShape'
    BY <1>0, <1>2, <1>3, <1>4 DEF DuplexInv, Numbers, OldAreAhead, PlaybackShape
  <1>11. playback = Resting
    BY <1>0 DEF DuplexInv, Numbers, Looks, PlaybackShape
  <1>12. Trimmed' = 0 /\ Trimmed = 0 /\ Played' = 0 /\ Played = 0 /\ playback'.missing = playback.missing
    BY <1>2, <1>3, <1>4, <1>11 DEF Trimmed, Played, Resting
  <1>14. CapturedAreAccounted' /\ PlayedAreAccounted'
    <2>1. CapturedAreAccounted'
      <3>1. Past' = Past
        BY <1>0, <1>2, <1>6, <1>12 DEF Numbers, Past
      <3>2. QED
        BY <1>0, <1>2, <1>6, <1>12, <3>1 DEF DuplexInv, Numbers, CapturedAreAccounted
    <2>2. PlayedAreAccounted'
      BY <1>0, <1>2, <1>6, <1>12 DEF DuplexInv, Numbers, PlayedAreAccounted
    <2>3. QED
      BY <2>1, <2>2
  <1>13. QED
    BY <1>8, <1>9, <1>10, <1>14 DEF DuplexInv

LEMMA TrimsKeeps == DuplexInv /\ Trims => DuplexInv'
  <1> SUFFICES ASSUME DuplexInv, Trims PROVE DuplexInv'
    OBVIOUS
  <1>0. /\ Numbers /\ Trimmed \in Int /\ Past \in Int /\ Played \in Int /\ PushedFrames \in Nat
        /\ metrics \in Counters /\ playback \in Playbacks
    BY DuplexFields
  <1>1. /\ playback.at = "trim" /\ playback.trim > 0 /\ playback.trim <= Len(queue)
        /\ queue # <<>> /\ queue' = Tail(queue)
        /\ UNCHANGED <<burst, dropped, metrics, heard, newest>>
    BY <1>0, EmptySeq DEF DuplexInv, Numbers, Trims, PlaybackShape
  <1>2. /\ playback' \in Playbacks /\ playback'.trim = playback.trim - 1 /\ playback'.at = "trim"
        /\ UNCHANGED <<playback.trimmed, playback.frame_count, playback.left, playback.missing>>
    <2>1. playback.trim - 1 \in Nat
      BY <1>0, <1>1 DEF Numbers
    <2>2. playback' = [playback EXCEPT !.trim = @ - 1]
      BY DEF Trims
    <2>3. QED
      BY <1>0, <1>1, <2>1, <2>2 DEF Playbacks
  <1>3. /\ queue' \in Seq(Nat) /\ Len(queue') = Len(queue) - 1
        /\ \A i \in 1..Len(queue') : i + 1 \in 1..Len(queue) /\ queue'[i] = queue[i + 1]
    BY <1>1, FrameLeaves DEF DuplexInv, DuplexTypes
  <1>4. DuplexTypes'
    BY <1>1, <1>2, <1>3 DEF DuplexInv, DuplexTypes
  <1>5. NumbersGrow'
    BY <1>0, <1>1, <1>3 DEF DuplexInv, Numbers, NumbersGrow, PushedFrames
  <1>6. OldAreAhead'
    <2> SUFFICES ASSUME NEW i \in 1..Len(queue'), i > playback'.trim + playback'.left
                 PROVE  queue'[i] > newest
      BY <1>1 DEF OldAreAhead
    <2>1. i + 1 \in 1..Len(queue) /\ queue'[i] = queue[i + 1]
      BY <1>3
    <2>2. i + 1 > playback.trim + playback.left
      <3>1. i \in Nat /\ playback.trim \in Nat /\ playback.left \in Nat
        BY <1>0, <1>3 DEF Numbers
      <3>2. QED
        BY <1>2, <3>1
    <2>3. QED
      BY <2>1, <2>2 DEF DuplexInv, OldAreAhead
  <1>7. PlaybackShape'
    BY <1>0, <1>1, <1>2, <1>3 DEF DuplexInv, Numbers, PlaybackShape
  <1>8. Trimmed' = Trimmed + 1 /\ Played' = Played
    BY <1>0, <1>1, <1>2 DEF Numbers, Trimmed, Played
  <1>9. CapturedAreAccounted' /\ PlayedAreAccounted'
    <2>1. CapturedAreAccounted'
      <3>1. Past' = Past + 1
        <4>1. /\ heard \in Nat /\ metrics.capture_overruns \in Nat /\ dropped \in Nat /\ Trimmed \in Int
              /\ heard' = heard /\ metrics'.capture_overruns = metrics.capture_overruns
              /\ dropped' = dropped /\ Trimmed' = Trimmed + 1
          BY <1>0, <1>1, <1>8 DEF Numbers
        <4>2. QED
          BY <4>1 DEF Past
      <3>2. QED
        BY <1>0, <1>1, <1>2, <1>3, <1>8, <3>1 DEF DuplexInv, Numbers, CapturedAreAccounted
    <2>2. PlayedAreAccounted'
      BY <1>0, <1>1, <1>2, <1>3, <1>8 DEF DuplexInv, Numbers, PlayedAreAccounted
    <2>3. QED
      BY <2>1, <2>2
  <1>10. QED
    BY <1>4, <1>5, <1>6, <1>7, <1>9 DEF DuplexInv

LEMMA ChunkFits ==
  ASSUME NEW left \in Nat
  PROVE  Chunk(left) \in Nat /\ Chunk(left) <= left
  BY DuplexBounds DEF Chunk

LEMMA CountsTrimmedKeeps == DuplexInv /\ CountsTrimmed => DuplexInv'
  <1> SUFFICES ASSUME DuplexInv, CountsTrimmed PROVE DuplexInv'
    OBVIOUS
  <1>0. /\ Numbers /\ Trimmed \in Int /\ Past \in Int /\ Played \in Int /\ PushedFrames \in Nat
        /\ metrics \in Counters /\ playback \in Playbacks
    BY DuplexFields
  <1>1. Chunk(playback.left) \in Nat /\ Chunk(playback.left) <= playback.left
    BY <1>0, ChunkFits DEF Numbers
  <1>2. /\ playback.at = "trim" /\ playback.trim = 0
        /\ UNCHANGED <<queue, burst, dropped, heard, newest>>
    BY DEF CountsTrimmed
  <1>3. /\ playback' \in Playbacks /\ playback'.at = "fill"
        /\ playback'.chunk = Chunk(playback.left)
        /\ UNCHANGED <<playback.trim, playback.frame_count, playback.left, playback.missing>>
    BY <1>0, <1>1 DEF CountsTrimmed, Playbacks
  <1>4. /\ metrics' \in Counters
        /\ metrics'.capture_overruns = metrics.capture_overruns + playback.trimmed
        /\ UNCHANGED <<metrics.capture_frames, metrics.missing_frames, metrics.playback_frames>>
    <2>1. playback.trimmed \in Nat
      BY <1>0 DEF Numbers
    <2>2. metrics' = [metrics EXCEPT !.trimmed_frames = @ + playback.trimmed,
                                     !.capture_overruns = @ + playback.trimmed]
      BY DEF CountsTrimmed
    <2> DEFINE m == [metrics EXCEPT !.trimmed_frames = @ + playback.trimmed]
    <2>3. /\ m \in Counters /\ m.capture_overruns = metrics.capture_overruns
          /\ m.capture_frames = metrics.capture_frames /\ m.missing_frames = metrics.missing_frames
          /\ m.playback_frames = metrics.playback_frames
      BY <1>0, <2>1 DEF Counters
    <2>4. metrics' = [m EXCEPT !.capture_overruns = @ + playback.trimmed]
      BY <1>0, <2>2 DEF Counters
    <2> HIDE DEF m
    <2>5. QED
      BY <2>1, <2>3, <2>4 DEF Counters
  <1>5. DuplexTypes'
    BY <1>2, <1>3, <1>4 DEF DuplexInv, DuplexTypes
  <1>6. NumbersGrow' /\ OldAreAhead'
    BY <1>0, <1>2, <1>3, <1>4 DEF DuplexInv, Numbers, NumbersGrow, PushedFrames, OldAreAhead
  <1>7. PlaybackShape'
    BY <1>0, <1>1, <1>2, <1>3 DEF DuplexInv, Numbers, PlaybackShape
  <1>8. Trimmed = playback.trimmed /\ Trimmed' = 0 /\ Played' = Played
    BY <1>0, <1>2, <1>3 DEF Numbers, Trimmed, Played
  <1>9. CapturedAreAccounted' /\ PlayedAreAccounted'
    <2>1. CapturedAreAccounted'
      <3>1. Past' = Past
        BY <1>0, <1>2, <1>3, <1>4, <1>8 DEF Numbers, Past
      <3>2. QED
        BY <1>0, <1>2, <1>3, <1>4, <1>8, <3>1 DEF DuplexInv, Numbers, CapturedAreAccounted
    <2>2. PlayedAreAccounted'
      <3>1. /\ metrics.playback_frames \in Nat /\ heard \in Nat /\ metrics.missing_frames \in Nat
            /\ playback.missing \in Nat
        BY <1>0 DEF Numbers
      <3>2. metrics.playback_frames + Played = heard + metrics.missing_frames + playback.missing
        BY DEF DuplexInv, PlayedAreAccounted
      <3>3. QED
        BY <1>0, <1>2, <1>3, <1>4, <1>8, <3>1, <3>2 DEF PlayedAreAccounted
    <2>3. QED
      BY <2>1, <2>2
  <1>10. QED
    BY <1>5, <1>6, <1>7, <1>9 DEF DuplexInv

LEMMA FillsKeeps == DuplexInv /\ Fills => DuplexInv'
  <1> SUFFICES ASSUME DuplexInv, Fills PROVE DuplexInv'
    OBVIOUS
  <1>0. /\ Numbers /\ Trimmed \in Int /\ Past \in Int /\ Played \in Int /\ PushedFrames \in Nat
        /\ metrics \in Counters /\ playback \in Playbacks
    BY DuplexFields
  <1>1. /\ playback.at = "fill" /\ playback.trim = 0 /\ playback.chunk > 0
        /\ playback.chunk <= playback.left /\ playback.left <= playback.frame_count
        /\ UNCHANGED <<burst, dropped, metrics, newest>>
    BY <1>0 DEF DuplexInv, Numbers, Fills, PlaybackShape
  <1>2. playback.chunk - 1 \in Nat /\ playback.left - 1 \in Nat /\ playback.missing + 1 \in Nat
    <2>1. playback.chunk \in Nat /\ playback.left \in Nat /\ playback.missing \in Nat
      BY <1>0 DEF Numbers
    <2>2. playback.left > 0
      BY <1>1, <2>1
    <2>3. QED
      BY <1>1, <2>1, <2>2
  \* What both cases do to the callback.
  <1> DEFINE OneMorePlayed == /\ playback' \in Playbacks /\ playback'.at = "fill"
                       /\ playback'.chunk = playback.chunk - 1 /\ playback'.left = playback.left - 1
                       /\ playback'.trim = 0 /\ playback'.frame_count = playback.frame_count
  <1>3. ASSUME OneMorePlayed
        PROVE  PlaybackShape' /\ Trimmed' = Trimmed /\ Trimmed = 0 /\ Played' = Played + 1
    <2>1. PlaybackShape'
      BY <1>0, <1>1, <1>3 DEF Numbers, PlaybackShape
    <2>2. QED
      BY <1>0, <1>1, <1>3, <2>1 DEF Numbers, Trimmed, Played
  <1>4. CASE queue # <<>> /\ queue' = Tail(queue) /\ heard' = heard + 1
             /\ playback' = [playback EXCEPT !.chunk = @ - 1, !.left = @ - 1]
    <2>1. /\ queue' \in Seq(Nat) /\ Len(queue') = Len(queue) - 1
          /\ \A i \in 1..Len(queue') : i + 1 \in 1..Len(queue) /\ queue'[i] = queue[i + 1]
      BY <1>4, FrameLeaves DEF DuplexInv, DuplexTypes
    <2>2. OneMorePlayed /\ playback'.missing = playback.missing
      <3>1. playback' = [playback EXCEPT !.chunk = @ - 1, !.left = @ - 1]
        BY <1>4
      <3>2. QED
        BY <1>0, <1>1, <1>2, <3>1 DEF Playbacks
    <2>3. PlaybackShape' /\ Trimmed' = Trimmed /\ Trimmed = 0 /\ Played' = Played + 1
      BY <1>3, <2>2
    <2>4. DuplexTypes'
      BY <1>1, <1>4, <2>1, <2>2 DEF DuplexInv, DuplexTypes
    <2>5. NumbersGrow'
      BY <1>0, <1>1, <2>1 DEF DuplexInv, Numbers, NumbersGrow, PushedFrames
    <2>6. OldAreAhead'
      <3> SUFFICES ASSUME NEW i \in 1..Len(queue'), i > playback'.trim + playback'.left
                   PROVE  queue'[i] > newest
        BY <1>1 DEF OldAreAhead
      <3>1. i + 1 \in 1..Len(queue) /\ queue'[i] = queue[i + 1]
        BY <2>1
      <3>2. i + 1 > playback.trim + playback.left
        BY <1>0, <1>1, <2>2 DEF Numbers
      <3>3. QED
        BY <3>1, <3>2 DEF DuplexInv, OldAreAhead
    <2>7. CapturedAreAccounted'
      <3>1. Past' = Past + 1
        <4>1. /\ heard \in Nat /\ metrics.capture_overruns \in Nat /\ dropped \in Nat /\ Trimmed = 0
              /\ heard' = heard + 1 /\ metrics'.capture_overruns = metrics.capture_overruns
              /\ dropped' = dropped /\ Trimmed' = 0
          BY <1>0, <1>1, <1>4, <2>3 DEF Numbers
        <4>2. QED
          BY <4>1 DEF Past
      <3>2. QED
        BY <1>0, <1>1, <2>1, <3>1 DEF DuplexInv, Numbers, CapturedAreAccounted
    <2>8. PlayedAreAccounted'
      <3>1. /\ metrics.playback_frames \in Nat /\ metrics.missing_frames \in Nat
            /\ heard \in Nat /\ playback.missing \in Nat /\ heard' = heard + 1
        BY <1>0, <1>4 DEF Numbers
      <3>2. QED
        BY <1>0, <1>1, <2>2, <2>3, <3>1 DEF DuplexInv, PlayedAreAccounted
    <2>9. QED
      BY <2>3, <2>4, <2>5, <2>6, <2>7, <2>8 DEF DuplexInv
  <1>5. CASE queue = <<>> /\ UNCHANGED <<queue, heard>>
             /\ playback' = [playback EXCEPT !.chunk = @ - 1, !.left = @ - 1, !.missing = @ + 1]
    <2>1. OneMorePlayed /\ playback'.missing = playback.missing + 1
      <3>1. playback' = [playback EXCEPT !.chunk = @ - 1, !.left = @ - 1, !.missing = @ + 1]
        BY <1>5
      <3>2. QED
        BY <1>0, <1>1, <1>2, <3>1 DEF Playbacks
    <2>2. PlaybackShape' /\ Trimmed' = Trimmed /\ Trimmed = 0 /\ Played' = Played + 1
      BY <1>3, <2>1
    <2>3. DuplexTypes'
      BY <1>1, <1>5, <2>1 DEF DuplexInv, DuplexTypes
    <2>4. NumbersGrow' /\ OldAreAhead'
      BY <1>0, <1>1, <1>5, EmptySeq DEF DuplexInv, Numbers, NumbersGrow, PushedFrames, OldAreAhead
    <2>5. CapturedAreAccounted'
      BY <1>1, <1>5, <2>2 DEF DuplexInv, CapturedAreAccounted, Past
    <2>6. PlayedAreAccounted'
      <3>1. /\ metrics.playback_frames \in Nat /\ metrics.missing_frames \in Nat
            /\ heard \in Nat /\ playback.missing \in Nat /\ heard' = heard
        BY <1>0, <1>5 DEF Numbers
      <3>2. QED
        BY <1>0, <1>1, <2>1, <2>2, <3>1 DEF DuplexInv, PlayedAreAccounted
    <2>7. QED
      BY <2>2, <2>3, <2>4, <2>5, <2>6 DEF DuplexInv
  <1>6. QED
    BY <1>4, <1>5 DEF Fills

LEMMA ProcessesKeeps == DuplexInv /\ Processes => DuplexInv'
  <1> SUFFICES ASSUME DuplexInv, Processes PROVE DuplexInv'
    OBVIOUS
  <1>0. /\ Numbers /\ Trimmed \in Int /\ Past \in Int /\ Played \in Int /\ PushedFrames \in Nat
        /\ metrics \in Counters /\ playback \in Playbacks
    BY DuplexFields
  <1>1. Chunk(playback.left) \in Nat /\ Chunk(playback.left) <= playback.left
    BY <1>0, ChunkFits DEF Numbers
  <1>2. playback.at = "fill" /\ UNCHANGED <<queue, burst, dropped, heard, newest>>
    BY DEF Processes
  <1>3. /\ playback' \in Playbacks /\ playback'.missing = 0
        /\ playback'.chunk = Chunk(playback.left)
        /\ UNCHANGED <<playback.at, playback.trim, playback.frame_count, playback.left>>
    BY <1>0, <1>1 DEF Processes, NextChunk, Playbacks
  <1>4. /\ metrics' \in Counters
        /\ metrics'.missing_frames = metrics.missing_frames + playback.missing
        /\ UNCHANGED <<metrics.capture_frames, metrics.capture_overruns, metrics.playback_frames>>
    <2>1. playback.missing \in Nat
      BY <1>0 DEF Numbers
    <2>2. metrics' = [metrics EXCEPT !.missing_frames = @ + playback.missing]
      BY DEF Processes
    <2>3. QED
      BY <1>0, <2>1, <2>2 DEF Counters
  <1>5. DuplexTypes'
    BY <1>2, <1>3, <1>4 DEF DuplexInv, DuplexTypes
  <1>6. NumbersGrow' /\ OldAreAhead'
    BY <1>0, <1>2, <1>3, <1>4 DEF DuplexInv, Numbers, NumbersGrow, PushedFrames, OldAreAhead
  <1>7. PlaybackShape'
    BY <1>0, <1>1, <1>2, <1>3 DEF DuplexInv, Numbers, PlaybackShape
  <1>8. Trimmed' = Trimmed /\ Trimmed = 0 /\ Played' = Played
    BY <1>0, <1>2, <1>3 DEF Trimmed, Played
  <1>9. CapturedAreAccounted' /\ PlayedAreAccounted'
    <2>1. CapturedAreAccounted'
      <3>1. Past' = Past
        BY <1>0, <1>2, <1>3, <1>4, <1>8 DEF Numbers, Past
      <3>2. QED
        BY <1>0, <1>2, <1>3, <1>4, <1>8, <3>1 DEF DuplexInv, Numbers, CapturedAreAccounted
    <2>2. PlayedAreAccounted'
      <3>1. /\ metrics.playback_frames \in Nat /\ heard \in Nat /\ metrics.missing_frames \in Nat
            /\ playback.missing \in Nat
        BY <1>0 DEF Numbers
      <3>2. metrics.playback_frames + Played = heard + metrics.missing_frames + playback.missing
        BY DEF DuplexInv, PlayedAreAccounted
      <3>3. QED
        BY <1>0, <1>2, <1>3, <1>4, <1>8, <3>1, <3>2 DEF PlayedAreAccounted
    <2>3. QED
      BY <2>1, <2>2
  <1>10. QED
    BY <1>5, <1>6, <1>7, <1>9 DEF DuplexInv

LEMMA PlaybackEndsKeeps == DuplexInv /\ PlaybackEnds => DuplexInv'
  <1> SUFFICES ASSUME DuplexInv, PlaybackEnds PROVE DuplexInv'
    OBVIOUS
  <1>0. /\ Numbers /\ Trimmed \in Int /\ Past \in Int /\ Played \in Int /\ PushedFrames \in Nat
        /\ metrics \in Counters /\ playback \in Playbacks
    BY DuplexFields
  <1>1. /\ playback.at = "fill" /\ playback.left = 0 /\ playback.trim = 0
        /\ playback' = Resting
        /\ UNCHANGED <<queue, burst, dropped, heard, newest>>
    BY <1>0 DEF DuplexInv, Numbers, PlaybackEnds, PlaybackShape
  <1>2. /\ playback' \in Playbacks /\ playback'.trim = 0 /\ playback'.left = 0 /\ playback'.missing = 0
        /\ playback'.at = "rest" /\ playback'.frame_count = 0
    BY <1>0, <1>1 DEF Resting, Playbacks
  <1>3. /\ metrics' \in Counters
        /\ metrics'.missing_frames = metrics.missing_frames + playback.missing
        /\ metrics'.playback_frames = metrics.playback_frames + playback.frame_count
        /\ UNCHANGED <<metrics.capture_frames, metrics.capture_overruns>>
    <2>1. playback.missing \in Nat /\ playback.frame_count \in Nat
      BY <1>0 DEF Numbers
    <2>2. metrics' = [metrics EXCEPT !.missing_frames = @ + playback.missing, !.callbacks = @ + 1,
                                     !.playback_frames = @ + playback.frame_count]
      BY DEF PlaybackEnds
    <2> DEFINE m == [metrics EXCEPT !.missing_frames = @ + playback.missing]
    <2> DEFINE n == [m EXCEPT !.callbacks = @ + 1]
    <2>3. /\ m \in Counters /\ m.missing_frames = metrics.missing_frames + playback.missing
          /\ m.capture_frames = metrics.capture_frames /\ m.capture_overruns = metrics.capture_overruns
          /\ m.playback_frames = metrics.playback_frames
      BY <1>0, <2>1 DEF Counters
    <2>4. metrics' = [n EXCEPT !.playback_frames = @ + playback.frame_count]
      BY <1>0, <2>2 DEF Counters
    <2> HIDE DEF m
    <2>5. /\ n \in Counters /\ n.missing_frames = metrics.missing_frames + playback.missing
          /\ n.capture_frames = metrics.capture_frames /\ n.capture_overruns = metrics.capture_overruns
          /\ n.playback_frames = metrics.playback_frames
      BY <2>3 DEF Counters
    <2> HIDE DEF n
    <2>6. QED
      BY <2>1, <2>4, <2>5 DEF Counters
  <1>4. DuplexTypes'
    BY <1>1, <1>2, <1>3 DEF DuplexInv, DuplexTypes
  <1>5. NumbersGrow' /\ OldAreAhead'
    BY <1>0, <1>1, <1>2, <1>3 DEF DuplexInv, Numbers, NumbersGrow, PushedFrames, OldAreAhead
  <1>6. PlaybackShape'
    BY <1>0, <1>1, <1>2 DEF DuplexInv, Numbers, PlaybackShape, Resting
  <1>7. Trimmed' = Trimmed /\ Trimmed = 0 /\ Played = playback.frame_count /\ Played' = 0
    BY <1>0, <1>1, <1>2 DEF Numbers, Trimmed, Played
  <1>8. CapturedAreAccounted' /\ PlayedAreAccounted'
    <2>1. CapturedAreAccounted'
      <3>1. Past' = Past
        BY <1>0, <1>1, <1>2, <1>3, <1>7 DEF Numbers, Past
      <3>2. QED
        BY <1>0, <1>1, <1>2, <1>3, <1>7, <3>1 DEF DuplexInv, Numbers, CapturedAreAccounted
    <2>2. PlayedAreAccounted'
      BY <1>0, <1>1, <1>2, <1>3, <1>7 DEF DuplexInv, Numbers, PlayedAreAccounted
    <2>3. QED
      BY <2>1, <2>2
  <1>9. QED
    BY <1>4, <1>5, <1>6, <1>8 DEF DuplexInv

LEMMA DuplexStep == DuplexInv /\ [DuplexNext]_duplexVars => DuplexInv'
  <1> SUFFICES ASSUME DuplexInv, [DuplexNext]_duplexVars PROVE DuplexInv'
    OBVIOUS
  <1>1. CASE UNCHANGED duplexVars
    BY <1>1 DEF duplexVars, DuplexInv, DuplexTypes, NumbersGrow, PushedFrames, OldAreAhead,
       PlaybackShape, CapturedAreAccounted, PlayedAreAccounted, Past, Trimmed, Played
  <1>2. QED
    BY <1>1, CaptureBeginsKeeps, PushKeeps, CaptureEndsKeeps, LooksKeeps, TrimsKeeps,
       CountsTrimmedKeeps, FillsKeeps, ProcessesKeeps, PlaybackEndsKeeps DEF DuplexNext

\* What the device captures is heard within one callback or counted, whatever the sizes of
\* the callbacks, the ring and the drift of the two clocks.
THEOREM CaptureIsAccounted == DuplexSpec => []CaptureFlows
  <1>1. DuplexInv => CaptureFlows
    <2> SUFFICES ASSUME DuplexInv PROVE CaptureFlows
      OBVIOUS
    <2>1. playback.at = "rest" => \A i \in 1..Len(queue) : queue[i] > newest
      BY DEF DuplexInv, DuplexTypes, OldAreAhead, PlaybackShape, Resting
    <2>2. NothingWaitsTwice
      BY <2>1 DEF NothingWaitsTwice, Range, DuplexInv, DuplexTypes
    <2>3. FramesAreAccounted
      <3>1. playback.at = "rest" => Played = 0 /\ playback.missing = 0
        BY DEF DuplexInv, PlaybackShape, Resting, Played
      <3>2. playback.at = "rest" => metrics.playback_frames = heard + metrics.missing_frames
        <4>1. metrics.playback_frames \in Nat /\ heard \in Nat /\ metrics.missing_frames \in Nat
          BY DuplexFields DEF Numbers
        <4>2. metrics.playback_frames + Played = heard + metrics.missing_frames + playback.missing
          BY DEF DuplexInv, PlayedAreAccounted
        <4>3. QED
          BY <3>1, <4>1, <4>2
      <3>3. QED
        <4>1. metrics.capture_frames = burst + Len(queue) + heard + metrics.capture_overruns + dropped + Trimmed
          <5>1. /\ heard \in Nat /\ metrics.capture_overruns \in Nat /\ dropped \in Nat
                /\ Trimmed \in Int /\ burst \in Nat /\ Len(queue) \in Nat
            BY DuplexFields DEF Numbers
          <5>2. metrics.capture_frames = burst + Len(queue) + (heard + metrics.capture_overruns + dropped + Trimmed)
            BY DEF DuplexInv, CapturedAreAccounted, Past
          <5>3. QED
            BY <5>1, <5>2
        <4>2. QED
          BY <3>2, <4>1 DEF FramesAreAccounted, Trimmed
    <2>4. QED
      BY <2>2, <2>3 DEF CaptureFlows
  <1>2. QED
    BY <1>1, DuplexStarts, DuplexStep, PTL DEF DuplexSpec

--------------------------------------------------------------------------
(* MidiClock: arithmetic                                                   *)

LEMMA TimesGrows ==
  ASSUME NEW x \in Nat, NEW y \in Nat, NEW f \in Nat, x <= y
  PROVE  x * f <= y * f
  <1>1. PICK z \in Nat : y = x + z
    <2>1. y - x \in Nat /\ y = x + (y - x)
      OBVIOUS
    <2>2. QED
      BY <2>1
  <1>2. y * f = x * f + z * f /\ z * f \in Nat /\ x * f \in Nat
    BY <1>1
  <1>3. QED
    BY <1>2

LEMMA DividedFits ==
  ASSUME NEW a \in Nat, NEW f \in Nat \ {0}
  PROVE  /\ a \div f \in Nat
         /\ (a \div f) * f <= a /\ a < (a \div f) * f + f
  <1>1. a \div f \in Nat
    OBVIOUS
  <1>2. a = f * (a \div f) + (a % f) /\ a % f \in 0..(f - 1)
    OBVIOUS
  <1>3. f * (a \div f) = (a \div f) * f /\ (a \div f) * f \in Nat
    BY <1>1
  <1>4. QED
    BY <1>1, <1>2, <1>3

LEMMA DividedIs ==
  ASSUME NEW a \in Nat, NEW f \in Nat \ {0}, NEW q \in Nat, q * f <= a, a < q * f + f
  PROVE  a \div f = q
  <1>1. /\ a \div f \in Nat
        /\ (a \div f) * f <= a /\ a < (a \div f) * f + f
    BY DividedFits
  <1> DEFINE d == a \div f
  <1>2. ASSUME NEW x \in Nat, NEW y \in Nat, x < y PROVE x * f + f <= y * f
    <2>1. (x + 1) * f <= y * f
      BY <1>2, TimesGrows
    <2>2. (x + 1) * f = x * f + f
      OBVIOUS
    <2>3. QED
      BY <2>1, <2>2
  <1> HIDE DEF d
  <1>3. d \in Nat /\ d * f \in Nat /\ q * f \in Nat /\ d * f <= a /\ a < d * f + f
    BY <1>1 DEF d
  <1>4. ~(d < q) /\ ~(q < d)
    BY <1>2, <1>3
  <1>5. QED
    BY <1>3, <1>4 DEF d

\* Marks(p, c, f): how many of c marks, spread over f frames, have been passed at frame p.
Marks(p, c, f) == (p * c) \div f

LEMMA MarksFit ==
  ASSUME NEW p \in Nat, NEW c \in Nat, NEW f \in Nat \ {0}
  PROVE  /\ Marks(p, c, f) \in Nat /\ p * c \in Nat /\ Marks(p, c, f) * f \in Nat
         /\ Marks(p, c, f) * f <= p * c /\ p * c < Marks(p, c, f) * f + f
  <1>1. p * c \in Nat
    OBVIOUS
  <1>2. Marks(p, c, f) \in Nat
    BY <1>1, DividedFits DEF Marks
  <1>3. QED
    BY <1>1, <1>2, DividedFits DEF Marks

LEMMA MarksStart ==
  ASSUME NEW c \in Nat, NEW f \in Nat \ {0}
  PROVE  Marks(0, c, f) = 0
  <1>1. 0 * c = 0 /\ 0 * f = 0
    OBVIOUS
  <1>2. QED
    BY <1>1, DividedIs DEF Marks

\* With fewer marks than frames a frame passes one at most ...
LEMMA FewMarks ==
  ASSUME NEW p \in Nat, NEW c \in Nat, NEW f \in Nat \ {0}, c <= f
  PROVE  /\ Marks(p, c, f) <= p
         /\ \/ Marks(p + 1, c, f) = Marks(p, c, f)
            \/ Marks(p + 1, c, f) = Marks(p, c, f) + 1
  <1> DEFINE d == Marks(p, c, f)
  <1>1. /\ d \in Nat /\ p * c \in Nat /\ d * f \in Nat
        /\ d * f <= p * c /\ p * c < d * f + f
    BY MarksFit
  <1> HIDE DEF d
  <1>2. (p + 1) * c = p * c + c /\ (p + 1) * c \in Nat
    OBVIOUS
  <1>3. (d + 1) * f = d * f + f /\ d + 1 \in Nat
    BY <1>1
  <1>4. p * c + c < d * f + f => Marks(p + 1, c, f) = d
    BY <1>1, <1>2, DividedIs DEF Marks
  <1>5. p * c + c >= d * f + f => Marks(p + 1, c, f) = d + 1
    BY <1>1, <1>2, <1>3, DividedIs DEF Marks
  <1>6. d <= p
    <2> SUFFICES ASSUME d > p PROVE FALSE
      BY <1>1
    <2>1. (p + 1) * f <= d * f
      BY <1>1, TimesGrows
    <2>2. p * c <= p * f
      <3>1. c * p <= f * p
        BY TimesGrows
      <3>2. QED
        BY <3>1
    <2>3. (p + 1) * f = p * f + f /\ p * f \in Nat
      OBVIOUS
    <2>4. QED
      BY <1>1, <2>1, <2>2, <2>3
  <1>7. QED
    BY <1>1, <1>2, <1>4, <1>5, <1>6 DEF d

\* ... and with as many or more, one at least.
LEMMA ManyMarks ==
  ASSUME NEW p \in Nat, NEW c \in Nat, NEW f \in Nat \ {0}, c >= f
  PROVE  Marks(p, c, f) >= p /\ Marks(p + 1, c, f) # Marks(p, c, f)
  <1> DEFINE d == Marks(p, c, f)
             e == Marks(p + 1, c, f)
  <1>1. /\ d \in Nat /\ p * c \in Nat /\ d * f \in Nat
        /\ d * f <= p * c /\ p * c < d * f + f
    BY MarksFit
  <1>2. (p + 1) * c = p * c + c
    OBVIOUS
  <1>3. e \in Nat /\ e * f \in Nat /\ (p + 1) * c < e * f + f
    BY MarksFit
  <1> HIDE DEF d, e
  <1>4. e # d
    BY <1>1, <1>2, <1>3
  <1>5. d >= p
    <2> SUFFICES ASSUME d < p PROVE FALSE
      BY <1>1
    <2>1. (d + 1) * f <= p * f
      BY <1>1, TimesGrows
    <2>2. p * f <= p * c
      <3>1. f * p <= c * p
        BY TimesGrows
      <3>2. QED
        BY <3>1
    <2>3. (d + 1) * f = d * f + f /\ p * f \in Nat
      BY <1>1
    <2>4. QED
      BY <1>1, <2>1, <2>2, <2>3
  <1>6. QED
    BY <1>4, <1>5 DEF d, e

\* Before the last frame is over the last mark has not been passed; with fewer marks than
\* frames it is the only one left there.
LEMMA LastMark ==
  ASSUME NEW c \in Nat \ {0}, NEW f \in Nat \ {0}
  PROVE  /\ \A p \in 0..(f - 1) : Marks(p, c, f) < c
         /\ c <= f => Marks(f - 1, c, f) = c - 1
  <1>1. (f - 1) * c = f * c - c /\ f * c \in Nat /\ c * f = f * c /\ f - 1 \in Nat
    OBVIOUS
  <1>2. ASSUME NEW p \in 0..(f - 1) PROVE Marks(p, c, f) < c
    <2> DEFINE d == Marks(p, c, f)
    <2>1. d \in Nat /\ d * f <= p * c /\ d * f \in Nat /\ p * c \in Nat
      BY MarksFit
    <2> HIDE DEF d
    <2>2. p * c <= (f - 1) * c
      BY <1>1, TimesGrows
    <2>3. d * f < c * f
      BY <1>1, <2>1, <2>2
    <2>4. d < c
      <3> SUFFICES ASSUME d >= c PROVE FALSE
        BY <2>1
      <3>1. c * f <= d * f
        BY <2>1, TimesGrows
      <3>2. QED
        BY <1>1, <2>1, <2>3, <3>1
    <2>5. QED
      BY <2>4 DEF d
  <1>3. ASSUME c <= f PROVE Marks(f - 1, c, f) = c - 1
    <2>1. (c - 1) * f = c * f - f /\ c - 1 \in Nat
      OBVIOUS
    <2>2. (c - 1) * f <= (f - 1) * c /\ (f - 1) * c < (c - 1) * f + f /\ (f - 1) * c \in Nat
      BY <1>1, <1>3, <2>1
    <2>3. QED
      BY <1>1, <2>1, <2>2, DividedIs DEF Marks
  <1>4. QED
    BY <1>2, <1>3

--------------------------------------------------------------------------
Positive == Nat \ {0}
Pulses == [frames : Positive, position : Nat, longCount : Nat, longLength : Positive,
           active : BOOLEAN, armed : BOOLEAN, suppressed : BOOLEAN]

\* A pulse is always inside its beat.
Beating(p) == p \in Pulses /\ p.position < p.frames

GateOrders   == [op : {"SetMidiSyncTransmit"}, value : BOOLEAN]
SpeedOrders  == [op : {"SetSyncSpeed"}, value : SyncSpeeds]
TypeOrders   == [op : {"SetSyncType"}, value : BOOLEAN]
LoopOrders   == [op : {"SetPulseFromLoop"}, value : ClockLoops]
TapOrders    == [op : {"TapPulse"}, value : BOOLEAN \X ClockGaps]
EndingOrders == [op : {"ClearPulse", "DeletePulse"}, value : {0}]
Orders == GateOrders \cup SpeedOrders \cup TypeOrders \cup LoopOrders \cup TapOrders \cup EndingOrders

Statuses == {"Start", "Stop", "Clock"}

ClockTypes ==
  /\ Beating(clock)
  /\ sync_speed \in Nat /\ sync_type \in BOOLEAN
  /\ midi_sync_transmit \in BOOLEAN /\ sync_transmit \in BOOLEAN
  /\ clock_run \in {"None", "Start", "Beat"}
  /\ clocks \in Nat /\ beats \in Nat /\ due \in Int
  /\ metro \in {"hi", "lo", "none"}
  /\ commanded \in Seq(Orders) /\ clock_statuses \in Seq(Statuses)
  /\ follower \in BOOLEAN /\ steady \in BOOLEAN /\ untold \in BOOLEAN

\* A clock that beats without a pulse has not been stopped, and whoever follows it has
\* not been told.
Followed == FollowersAreTold /\ (~untold /\ clock_run = "Beat" => clock.active)

\* The ticks of a beat are counted twice: by the metronome, and since the START.
Counted ==
  clocks_per_pulse \in 1..clock.frames =>
    /\ clocks < ClocksPerBeat /\ clocks + ClocksPerBeat * beats = due
    /\ metro = "hi" <=> clock.position = 0

OnTime ==
  steady /\ clock_run = "Beat" =>
    /\ clock.active /\ midi_sync_transmit
    /\ due = Smaller(ClockAt(clock.position), clock.position)
    /\ Counted

ClockInv == ClockTypes /\ Followed /\ OnTime

LEMMA ClockBounds ==
  /\ U32Max \in Nat \ {0} /\ ShortTap \in Nat
  /\ ClocksPerBeat \in Nat \ {0} /\ ClockRoom \in Nat \ {0} /\ MaxOrders \in Nat
  /\ SyncSpeeds \subseteq Nat /\ ClockLoops \subseteq Nat \ {0} /\ ClockGaps \subseteq Nat
  BY PulseAssumption, ClockAssumption

--------------------------------------------------------------------------
(* The pulse                                                               *)

LEMMA OneIsPositive == 1 \in Positive /\ \A n \in Positive : n \in Nat /\ n > 0
  BY DEF Positive

LEMMA MeasuredCounts ==
  ASSUME NEW gap \in Nat
  PROVE  Measured(gap) \in Positive
  BY ClockBounds DEF Measured, Smaller, Larger, Positive

LEMMA WrapBeats ==
  ASSUME NEW p \in Pulses
  PROVE  /\ Beating(Wrap(p)) /\ Wrap(p).active = p.active
         /\ Wrap(p).frames = p.frames /\ Wrap(p).position = 0
  <1> DEFINE n == (p.longCount + 1) % p.longLength
  <1>1. n \in Nat
    BY OneIsPositive DEF Pulses
  <1>2. Wrap(p) = [p EXCEPT !.position = 0, !.longCount = n]
    BY DEF Wrap, Pulses
  <1> HIDE DEF n
  <1> DEFINE w == [p EXCEPT !.position = 0, !.longCount = n]
  <1>3. w \in Pulses /\ w.active = p.active /\ w.frames = p.frames /\ w.position = 0
    BY <1>1 DEF Pulses
  <1> HIDE DEF w
  <1>4. p.frames > 0
    BY OneIsPositive DEF Pulses
  <1>5. QED
    BY <1>2, <1>3, <1>4 DEF Beating, w

LEMMA TickBeats ==
  ASSUME NEW p, Beating(p)
  PROVE  LET t == Tick(Heard(p))
         IN /\ Beating(t) /\ t.active = p.active /\ t.frames = p.frames
            /\ t.position = IF p.position + 1 >= p.frames THEN 0 ELSE p.position + 1
  <1> DEFINE h == Heard(p)
  <1>1. /\ h \in Pulses /\ h.active = p.active /\ h.frames = p.frames /\ h.position = p.position
        /\ h.position < h.frames
    BY DEF Heard, Beating, Pulses
  <1> HIDE DEF h
  <1>2. CASE h.position + 1 >= h.frames
    <2>1. Tick(h) = Wrap(h)
      BY <1>2 DEF Tick
    <2>2. QED
      BY <1>1, <1>2, <2>1, WrapBeats DEF h
  <1>3. CASE ~(h.position + 1 >= h.frames)
    <2>1. Tick(h) = [h EXCEPT !.position = @ + 1]
      BY <1>3 DEF Tick
    <2>2. /\ Tick(h) \in Pulses /\ Tick(h).active = h.active /\ Tick(h).frames = h.frames
          /\ Tick(h).position = h.position + 1
      BY <1>1, <2>1 DEF Pulses
    <2>3. h.position \in Nat /\ h.frames \in Nat
      BY <1>1, OneIsPositive DEF Pulses
    <2>4. Beating(Tick(h))
      BY <1>3, <2>2, <2>3 DEF Beating
    <2>5. QED
      BY <1>1, <1>3, <2>2, <2>4 DEF h
  <1>4. QED
    BY <1>2, <1>3

LEMMA TapBeats ==
  ASSUME NEW p, Beating(p), NEW newLen \in BOOLEAN, NEW gap \in Nat
  PROVE  /\ Beating(TapPulse(p, newLen, gap))
         /\ p.active => TapPulse(p, newLen, gap).active
         /\ ~p.active /\ ~p.armed => ~TapPulse(p, newLen, gap).active
  <1>1. p \in Pulses /\ p.position < p.frames /\ Measured(gap) \in Positive /\ p.frames \in Positive
    BY MeasuredCounts DEF Beating, Pulses
  <1>2. CASE p.active
    <2> DEFINE accepted == newLen /\ (p.frames < ShortTap \/ (0 < gap /\ gap < 5 * p.frames))
               n == IF accepted THEN Measured(gap) ELSE p.frames
               r == [p EXCEPT !.frames = n]
               back == [r EXCEPT !.position = 0, !.suppressed = TRUE]
    <2>1. n \in Positive
      BY <1>1
    <2>2. /\ TapPulse(p, newLen, gap) = TapRunning(p, newLen, gap)
          /\ TapRunning(p, newLen, gap) = IF 2 * p.position >= p.frames THEN Wrap(r) ELSE back
      BY <1>1, <1>2 DEF TapPulse, TapRunning, Pulses
    <2> HIDE DEF n
    <2>3. r \in Pulses /\ r.active = p.active
      BY <1>1, <2>1 DEF Pulses
    <2> HIDE DEF r
    <2>4. back \in Pulses /\ back.active = r.active /\ back.position = 0 /\ back.frames \in Positive
      BY <2>3 DEF Pulses
    <2> HIDE DEF back
    <2>5. Beating(back)
      BY <2>4, OneIsPositive DEF Beating
    <2>6. QED
      BY <1>2, <2>2, <2>3, <2>4, <2>5, WrapBeats
  <1>3. CASE ~p.active /\ p.armed
    <2> DEFINE n == IF newLen THEN Measured(gap) ELSE p.frames
               t == [p EXCEPT !.frames = n, !.armed = ~newLen, !.active = newLen,
                              !.position = 0, !.suppressed = TRUE]
    <2>1. TapPulse(p, newLen, gap) = TapArmed(p, newLen, gap)
      BY <1>3 DEF TapPulse
    <2>2. TapArmed(p, newLen, gap) = t
      BY <1>1 DEF TapArmed, Pulses
    <2>3. n \in Positive
      BY <1>1
    <2> HIDE DEF n
    <2>4. t \in Pulses /\ t.position = 0 /\ t.frames = n
      BY <1>1, <2>3 DEF Pulses
    <2> HIDE DEF t
    <2>5. Beating(t)
      BY <2>3, <2>4, OneIsPositive DEF Beating
    <2>6. QED
      BY <1>3, <2>1, <2>2, <2>5
  <1>4. CASE ~p.active /\ ~p.armed
    <2>1. TapPulse(p, newLen, gap) = IF newLen THEN ArmPulse(p) ELSE p
      BY <1>4 DEF TapPulse
    <2>2. /\ ArmPulse(p) \in Pulses /\ ArmPulse(p).active = p.active
          /\ ArmPulse(p).position = p.position /\ ArmPulse(p).frames = p.frames
      BY <1>1, OneIsPositive DEF ArmPulse, Pulses
    <2>3. Beating(ArmPulse(p))
      BY <1>1, <2>2 DEF Beating
    <2>4. QED
      BY <1>4, <2>1, <2>2, <2>3
  <1>5. QED
    BY <1>2, <1>3, <1>4

LEMMA LoopBeats ==
  ASSUME NEW p, Beating(p), NEW len \in Positive, NEW position \in 0..(len - 1)
  PROVE  Beating(PulseOfLoop(p, len, position, 1)) /\ PulseOfLoop(p, len, position, 1).active
  <1> DEFINE n == Smaller(Larger(len \div 1, 1), U32Max)
             q == position % n
  <1>1. n \in Positive
    BY ClockBounds DEF Smaller, Larger, Positive
  <1>2. PulseOfLoop(p, len, position, 1) =
          [p EXCEPT !.frames = n, !.position = q,
                    !.longCount = 0, !.longLength = 1, !.active = TRUE]
    BY DEF PulseOfLoop
  <1> HIDE DEF n
  <1>3. q \in Nat /\ q < n
    <2>1. position \in Nat /\ n \in Nat /\ n > 0
      BY <1>1 DEF Positive
    <2>2. QED
      BY <2>1
  <1> HIDE DEF q
  <1> DEFINE t == [p EXCEPT !.frames = n, !.position = q,
                            !.longCount = 0, !.longLength = 1, !.active = TRUE]
  <1>4. t \in Pulses /\ t.position = q /\ t.frames = n /\ t.active
    BY <1>1, <1>3, OneIsPositive DEF Beating, Pulses
  <1> HIDE DEF t
  <1>5. QED
    BY <1>2, <1>3, <1>4 DEF Beating, t

LEMMA NoPulseBeats ==
  ASSUME NEW p, Beating(p)
  PROVE  Beating(NoPulse(p)) /\ ~NoPulse(p).active
  <1>1. /\ NoPulse(p) \in Pulses /\ ~NoPulse(p).active
        /\ NoPulse(p).position = p.position /\ NoPulse(p).frames = p.frames
    BY OneIsPositive DEF NoPulse, Beating, Pulses
  <1>2. QED
    BY <1>1 DEF Beating

--------------------------------------------------------------------------
(* What the instruments are told                                           *)

\* Told, of any statuses on their way to an instrument that runs or not.
ToldBy(s, runs, n) ==
  \/ \E k \in 1..n : s[k] = "Start" /\ \A j \in (k + 1)..n : s[j] = "Clock"
  \/ runs /\ \A j \in 1..n : s[j] = "Clock"

ClocksAreHeard(s, runs) == \A n \in 1..Len(s) : s[n] = "Clock" => ToldBy(s, runs, n)

LEMMA ToldOfNothing ==
  ASSUME NEW runs \in BOOLEAN
  PROVE  (ToldBy(<<>>, runs, 0) <=> runs) /\ ClocksAreHeard(<<>>, runs)
  BY DEF ToldBy, ClocksAreHeard

LEMMA ToldMore ==
  ASSUME NEW s \in Seq(Statuses), NEW runs \in BOOLEAN, NEW status \in Statuses
  PROVE  LET t == Append(s, status)
         IN /\ t \in Seq(Statuses)
            /\ status = "Start" => ToldBy(t, runs, Len(t))
            /\ status = "Stop" => ~ToldBy(t, runs, Len(t))
            /\ status = "Clock" => (ToldBy(t, runs, Len(t)) <=> ToldBy(s, runs, Len(s)))
            /\ ClocksAreHeard(s, runs) /\ (status = "Clock" => ToldBy(s, runs, Len(s)))
                 => ClocksAreHeard(t, runs)
  <1> DEFINE t == Append(s, status)
  <1>1. /\ Len(s) \in Nat /\ t \in Seq(Statuses) /\ Len(t) = Len(s) + 1
        /\ \A i \in 1..Len(s) : t[i] = s[i]
        /\ t[Len(s) + 1] = status
    BY AppendProperties, LenProperties
  <1> HIDE DEF t
  <1>2. ASSUME NEW n \in 1..Len(s) PROVE ToldBy(t, runs, n) <=> ToldBy(s, runs, n)
    <2>1. \A j \in 1..n : t[j] = s[j]
      BY <1>1
    <2>2. ToldBy(t, runs, n) => ToldBy(s, runs, n)
      BY <2>1 DEF ToldBy
    <2>3. ToldBy(s, runs, n) => ToldBy(t, runs, n)
      BY <2>1 DEF ToldBy
    <2>4. QED
      BY <2>2, <2>3
  <1>3. status = "Start" => ToldBy(t, runs, Len(t))
    BY <1>1 DEF ToldBy
  <1>4. status = "Stop" => ~ToldBy(t, runs, Len(t))
    BY <1>1 DEF ToldBy
  <1>5. status = "Clock" => (ToldBy(t, runs, Len(t)) <=> ToldBy(s, runs, Len(s)))
    BY <1>1 DEF ToldBy
  <1>6. ASSUME ClocksAreHeard(s, runs), status = "Clock" => ToldBy(s, runs, Len(s))
        PROVE  ClocksAreHeard(t, runs)
    <2> SUFFICES ASSUME NEW n \in 1..Len(t), t[n] = "Clock" PROVE ToldBy(t, runs, n)
      BY DEF ClocksAreHeard
    <2>1. CASE n = Len(t)
      BY <1>1, <1>5, <1>6, <2>1
    <2>2. CASE n # Len(t)
      <3>1. n \in 1..Len(s)
        BY <1>1, <2>2
      <3>2. QED
        BY <1>1, <1>2, <1>6, <3>1 DEF ClocksAreHeard
    <2>3. QED
      BY <2>1, <2>2
  <1>7. QED
    BY <1>1, <1>3, <1>4, <1>5, <1>6 DEF t

\* What a status that arrives makes of the instrument.
Turns(status, runs, now) ==
  \/ status = "Start" /\ now = TRUE
  \/ status = "Stop" /\ now = FALSE
  \/ status = "Clock" /\ now = runs

LEMMA ToldLess ==
  ASSUME NEW s \in Seq(Statuses), s # <<>>, NEW runs \in BOOLEAN, NEW now \in BOOLEAN,
         Turns(Head(s), runs, now)
  PROVE  /\ Tail(s) \in Seq(Statuses)
         /\ ToldBy(Tail(s), now, Len(Tail(s))) <=> ToldBy(s, runs, Len(s))
         /\ ClocksAreHeard(s, runs) => ClocksAreHeard(Tail(s), now)
  <1> DEFINE t == Tail(s)
  <1>1. /\ Len(s) \in Nat /\ Len(s) > 0 /\ t \in Seq(Statuses) /\ Len(t) = Len(s) - 1
        /\ \A i \in 1..Len(t) : t[i] = s[i + 1]
        /\ Head(s) = s[1]
        /\ \/ Head(s) = "Start" /\ now = TRUE
           \/ Head(s) = "Stop" /\ now = FALSE
           \/ Head(s) = "Clock" /\ now = runs
    BY HeadTailProperties, EmptySeq, LenProperties DEF Turns
  <1> HIDE DEF t
  <1>2. ASSUME NEW n \in 0..Len(t) PROVE ToldBy(t, now, n) <=> ToldBy(s, runs, n + 1)
    <2>1. ASSUME ToldBy(t, now, n) PROVE ToldBy(s, runs, n + 1)
      <3>1. ASSUME NEW k \in 1..n, t[k] = "Start", \A j \in (k + 1)..n : t[j] = "Clock"
            PROVE  ToldBy(s, runs, n + 1)
        <4>1. k + 1 \in 1..(n + 1) /\ s[k + 1] = "Start"
          BY <1>1, <3>1
        <4>2. ASSUME NEW j \in (k + 2)..(n + 1) PROVE s[j] = "Clock"
          <5>1. j - 1 \in (k + 1)..n /\ j - 1 \in 1..Len(t) /\ (j - 1) + 1 = j
            BY <1>1
          <5>2. QED
            BY <1>1, <3>1, <5>1
        <4>3. QED
          BY <4>1, <4>2 DEF ToldBy
      <3>2. ASSUME now, \A j \in 1..n : t[j] = "Clock" PROVE ToldBy(s, runs, n + 1)
        <4>1. ASSUME NEW j \in 2..(n + 1) PROVE s[j] = "Clock"
          <5>1. j - 1 \in 1..n /\ j - 1 \in 1..Len(t) /\ (j - 1) + 1 = j
            BY <1>1
          <5>2. QED
            BY <1>1, <3>2, <5>1
        <4>2. CASE s[1] = "Start"
          BY <4>1, <4>2 DEF ToldBy
        <4>3. CASE s[1] = "Clock" /\ runs
          BY <4>1, <4>3 DEF ToldBy
        <4>4. QED
          BY <1>1, <3>2, <4>2, <4>3
      <3>3. QED
        BY <2>1, <3>1, <3>2 DEF ToldBy
    <2>2. ASSUME ToldBy(s, runs, n + 1) PROVE ToldBy(t, now, n)
      <3>1. ASSUME NEW k \in 1..(n + 1), s[k] = "Start", \A j \in (k + 1)..(n + 1) : s[j] = "Clock"
            PROVE  ToldBy(t, now, n)
        <4>1. ASSUME NEW j \in k..n PROVE t[j] = "Clock"
          <5>1. j + 1 \in (k + 1)..(n + 1) /\ j \in 1..Len(t)
            BY <1>1
          <5>2. QED
            BY <1>1, <3>1, <5>1
        <4>2. CASE k = 1
          BY <1>1, <3>1, <4>1, <4>2 DEF ToldBy
        <4>3. CASE k # 1
          <5>1. k - 1 \in 1..n /\ k - 1 \in 1..Len(t) /\ (k - 1) + 1 = k
            BY <1>1, <4>3
          <5>2. t[k - 1] = "Start"
            BY <1>1, <3>1, <5>1
          <5>3. QED
            BY <4>1, <5>1, <5>2 DEF ToldBy
        <4>4. QED
          BY <4>2, <4>3
      <3>2. ASSUME runs, \A j \in 1..(n + 1) : s[j] = "Clock" PROVE ToldBy(t, now, n)
        <4>1. ASSUME NEW j \in 1..n PROVE t[j] = "Clock"
          <5>1. j + 1 \in 1..(n + 1) /\ j \in 1..Len(t)
            BY <1>1
          <5>2. QED
            BY <1>1, <3>2, <5>1
        <4>2. now
          <5>1. 1 \in 1..(n + 1)
            OBVIOUS
          <5>2. Head(s) = "Clock"
            BY <1>1, <3>2, <5>1
          <5>3. QED
            BY <1>1, <3>2, <5>2
        <4>3. QED
          BY <4>1, <4>2 DEF ToldBy
      <3>3. QED
        BY <2>2, <3>1, <3>2 DEF ToldBy
    <2>3. QED
      BY <2>1, <2>2
  <1>3. ToldBy(t, now, Len(t)) <=> ToldBy(s, runs, Len(s))
    <2>1. Len(t) \in 0..Len(t) /\ Len(t) + 1 = Len(s)
      BY <1>1
    <2>2. QED
      BY <1>2, <2>1
  <1>4. ASSUME ClocksAreHeard(s, runs) PROVE ClocksAreHeard(t, now)
    <2> SUFFICES ASSUME NEW n \in 1..Len(t), t[n] = "Clock" PROVE ToldBy(t, now, n)
      BY DEF ClocksAreHeard
    <2>1. n + 1 \in 1..Len(s) /\ s[n + 1] = "Clock" /\ n \in 0..Len(t)
      BY <1>1
    <2>2. ToldBy(s, runs, n + 1)
      BY <1>4, <2>1 DEF ClocksAreHeard
    <2>3. QED
      BY <1>2, <2>1, <2>2
  <1>5. QED
    BY <1>1, <1>3, <1>4 DEF t

--------------------------------------------------------------------------
(* The clock                                                               *)

\* The statuses, what an instrument makes of them, and whether it was told all.
ToldTypes ==
  /\ clock_statuses \in Seq(Statuses) /\ follower \in BOOLEAN /\ untold \in BOOLEAN
Running == ToldBy(clock_statuses, follower, Len(clock_statuses))
AllHeard == ClocksAreHeard(clock_statuses, follower)

LEMMA FollowedMeans ==
  Followed <=> (~untold => /\ Running <=> clock_run = "Beat"
                           /\ AllHeard
                           /\ clock_run = "Beat" => clock.active)
  BY DEF Followed, FollowersAreTold, Told, ToldBy, Running, AllHeard, ClocksAreHeard

LEMMA FollowedNext ==
  Followed' <=> (~untold' => /\ Running' <=> clock_run' = "Beat"
                             /\ AllHeard'
                             /\ clock_run' = "Beat" => clock'.active)
  BY DEF Followed, FollowersAreTold, Told, ToldBy, Running, AllHeard, ClocksAreHeard

LEMMA TellsKeep ==
  ASSUME ToldTypes, NEW status \in Statuses, Tells(status), follower' = follower
  PROVE  /\ ToldTypes'
         /\ ~untold' =>
              /\ ~untold
              /\ status = "Start" => Running'
              /\ status = "Stop" => ~Running'
              /\ status = "Clock" => (Running' <=> Running)
              /\ AllHeard /\ (status = "Clock" => Running) => AllHeard'
  <1>1. CASE Len(clock_statuses) < ClockRoom
    <2>1. clock_statuses' = Append(clock_statuses, status) /\ untold' = untold
      BY <1>1 DEF Tells
    <2>2. QED
      BY <2>1, ToldMore DEF ToldTypes, Running, AllHeard
  <1>2. CASE ~(Len(clock_statuses) < ClockRoom)
    <2>1. clock_statuses' = clock_statuses /\ untold' = (untold \/ status # "Clock")
      BY <1>2 DEF Tells
    <2>2. Running' = Running /\ AllHeard' = AllHeard
      BY <2>1 DEF Running, AllHeard
    <2>3. QED
      BY <2>1, <2>2 DEF ToldTypes
  <1>3. QED
    BY <1>1, <1>2

LEMMA QuietlyKeeps ==
  ASSUME ToldTypes, Quietly, follower' = follower
  PROVE  ToldTypes' /\ Running' = Running /\ AllHeard' = AllHeard /\ untold' = untold
  BY DEF ToldTypes, Quietly, Running, AllHeard

LEMMA ClockInvMeans ==
  ASSUME ClockInv
  PROVE  /\ ToldTypes /\ Beating(clock) /\ clock \in Pulses
         /\ clock.active \in BOOLEAN /\ clock.armed \in BOOLEAN
         /\ clock_run \in {"None", "Start", "Beat"}
         /\ ~untold => /\ Running <=> clock_run = "Beat"
                       /\ AllHeard
                       /\ clock_run = "Beat" => clock.active
  BY FollowedMeans DEF ClockInv, ClockTypes, ToldTypes, Beating, Pulses

\* What a command leaves to show, whatever it does: no command starts the beat.
Obeyed ==
  /\ Beating(clock') /\ ToldTypes' /\ Followed'
  /\ clock_run' \in {"None", "Start", "Beat"}
  /\ clock_run' = "Beat" => clock_run = "Beat"

LEMMA TakesPulseKeeps ==
  ASSUME ClockInv, NEW len \in Positive, TakesPulse(len), follower' = follower
  PROVE  Obeyed
  <1>1. Quietly
    BY DEF TakesPulse
  <1>2. ToldTypes' /\ Running' = Running /\ AllHeard' = AllHeard /\ untold' = untold
    BY <1>1, ClockInvMeans, QuietlyKeeps
  <1>3. CASE clock.active
    <2>1. clock' = clock /\ clock_run' = clock_run
      BY <1>3 DEF TakesPulse
    <2>2. Followed'
      BY <1>2, <2>1, ClockInvMeans, FollowedNext
    <2>3. QED
      BY <1>2, <2>1, <2>2, ClockInvMeans DEF Obeyed
  <1>4. CASE ~clock.active
    <2>1. PICK position \in 0..(len - 1) : clock' = PulseOfLoop(clock, len, position, 1)
      BY <1>4 DEF TakesPulse
    <2>2. Beating(clock') /\ clock'.active
      BY <2>1, ClockInvMeans, LoopBeats
    <2>3. clock_run' = IF midi_sync_transmit THEN "Start" ELSE clock_run
      BY <1>4 DEF TakesPulse
    <2>4. Followed'
      BY <1>2, <1>4, <2>2, <2>3, ClockInvMeans, FollowedNext
    <2>5. QED
      BY <1>2, <2>2, <2>3, <2>4, ClockInvMeans DEF Obeyed
  <1>5. QED
    BY <1>3, <1>4, ClockInvMeans

LEMMA TapsPulseKeeps ==
  ASSUME ClockInv, NEW newLen \in BOOLEAN, NEW gap \in Nat, TapsPulse(newLen, gap),
         follower' = follower
  PROVE  Obeyed
  <1>1. /\ Beating(clock')
        /\ clock.active => clock'.active
        /\ ~clock.active /\ ~clock.armed => ~clock'.active
    BY ClockInvMeans, TapBeats DEF TapsPulse
  <1>2. CASE (clock.active \/ clock.armed) /\ midi_sync_transmit
    <2>1. Tells("Stop") /\ clock_run' = "Start"
      BY <1>2 DEF TapsPulse, Refreshes
    <2>2. /\ ToldTypes'
          /\ ~untold' => ~untold /\ ~Running' /\ (AllHeard => AllHeard')
      BY <2>1, ClockInvMeans, TellsKeep DEF Statuses
    <2>3. Followed'
      BY <2>1, <2>2, ClockInvMeans, FollowedNext
    <2>4. QED
      BY <1>1, <2>1, <2>2, <2>3 DEF Obeyed
  <1>3. CASE ~((clock.active \/ clock.armed) /\ midi_sync_transmit)
    <2>1. Quietly /\ clock_run' = clock_run
      BY <1>3 DEF TapsPulse, Refreshes, Quietly
    <2>2. ToldTypes' /\ Running' = Running /\ AllHeard' = AllHeard /\ untold' = untold
      BY <2>1, ClockInvMeans, QuietlyKeeps
    <2>3. Followed'
      BY <1>1, <2>1, <2>2, ClockInvMeans, FollowedNext
    <2>4. QED
      BY <1>1, <2>1, <2>2, <2>3, ClockInvMeans DEF Obeyed
  <1>4. QED
    BY <1>2, <1>3

LEMMA ClearsPulseKeeps ==
  ASSUME ClockInv, ClearsPulse, follower' = follower
  PROVE  Obeyed
  <1>1. Beating(clock') /\ ~clock'.active
    BY ClockInvMeans, NoPulseBeats DEF ClearsPulse
  <1>2. CASE (clock.active \/ clock.armed) /\ midi_sync_transmit
    <2>1. Tells("Stop") /\ clock_run' = "None"
      BY <1>2 DEF ClearsPulse
    <2>2. /\ ToldTypes'
          /\ ~untold' => ~untold /\ ~Running' /\ (AllHeard => AllHeard')
      BY <2>1, ClockInvMeans, TellsKeep DEF Statuses
    <2>3. Followed'
      BY <2>1, <2>2, ClockInvMeans, FollowedNext
    <2>4. QED
      BY <1>1, <2>1, <2>2, <2>3 DEF Obeyed
  <1>3. CASE ~((clock.active \/ clock.armed) /\ midi_sync_transmit)
    <2>1. /\ clock_statuses' = clock_statuses /\ clock_run' = clock_run
          /\ untold' = (untold \/ clock_run # "None")
      BY <1>3 DEF ClearsPulse
    <2>2. ToldTypes' /\ Running' = Running /\ AllHeard' = AllHeard
      BY <2>1, ClockInvMeans DEF ToldTypes, Running, AllHeard
    <2>3. Followed'
      BY <2>1, <2>2, ClockInvMeans, FollowedNext
    <2>4. QED
      BY <1>1, <2>1, <2>2, <2>3, ClockInvMeans DEF Obeyed
  <1>4. QED
    BY <1>2, <1>3

LEMMA DeletesPulseKeeps ==
  ASSUME ClockInv, DeletesPulse, follower' = follower
  PROVE  Obeyed
  <1>1. Beating(clock') /\ ~clock'.active
    BY ClockInvMeans, NoPulseBeats DEF DeletesPulse
  <1>2. /\ clock_statuses' = clock_statuses /\ clock_run' = "None"
        /\ untold' = (untold \/ clock_run = "Beat")
    BY DEF DeletesPulse
  <1>3. ToldTypes' /\ Running' = Running /\ AllHeard' = AllHeard
    BY <1>2, ClockInvMeans DEF ToldTypes, Running, AllHeard
  <1>4. Followed'
    BY <1>2, <1>3, ClockInvMeans, FollowedNext
  <1>5. QED
    BY <1>1, <1>2, <1>3, <1>4, ClockInvMeans DEF Obeyed

--------------------------------------------------------------------------
(* Commands                                                                *)

LEMMA OrderHolds ==
  ASSUME NEW o \in Orders
  PROVE  /\ o.op = "SetMidiSyncTransmit" => o.value \in BOOLEAN
         /\ o.op = "SetSyncSpeed" => o.value \in Nat
         /\ o.op = "SetSyncType" => o.value \in BOOLEAN
         /\ o.op = "SetPulseFromLoop" => o.value \in Positive
         /\ o.op = "TapPulse" => o.value[1] \in BOOLEAN /\ o.value[2] \in Nat
  <1>1. CASE o \in GateOrders
    BY <1>1 DEF GateOrders
  <1>2. CASE o \in SpeedOrders
    BY <1>2, ClockBounds DEF SpeedOrders
  <1>3. CASE o \in TypeOrders
    BY <1>3 DEF TypeOrders
  <1>4. CASE o \in LoopOrders
    BY <1>4, ClockBounds DEF LoopOrders, Positive
  <1>5. CASE o \in TapOrders
    BY <1>5, ClockBounds DEF TapOrders
  <1>6. CASE o \in EndingOrders
    BY <1>6 DEF EndingOrders
  <1>7. QED
    BY <1>1, <1>2, <1>3, <1>4, <1>5, <1>6 DEF Orders

LEMMA SetMidiSyncKeeps == ClockInv /\ (\E on \in BOOLEAN : SetMidiSync(on)) => ClockInv'
  <1> SUFFICES ASSUME ClockInv, NEW on \in BOOLEAN, SetMidiSync(on) PROVE ClockInv'
    OBVIOUS
  <1>1. commanded' \in Seq(Orders) /\ sync_transmit' \in BOOLEAN
    <2>1. [op |-> "SetMidiSyncTransmit", value |-> on] \in Orders
      BY DEF Orders, GateOrders
    <2>2. commanded \in Seq(Orders)
      BY DEF ClockInv, ClockTypes
    <2>3. QED
      BY <2>1, <2>2, AppendProperties DEF SetMidiSync, Order
  <1>2. UNCHANGED <<pulseClockVars, clock_statuses, follower, metro, steady, due, untold>>
    BY DEF SetMidiSync
  <1>3. ClockTypes'
    BY <1>1, <1>2 DEF ClockInv, ClockTypes, pulseClockVars
  <1>4. Followed' /\ OnTime'
    BY <1>2, FollowedNext, FollowedMeans DEF ClockInv, pulseClockVars, Running, AllHeard, OnTime, Counted, ClockAt, clocks_per_pulse
  <1>5. QED
    BY <1>3, <1>4 DEF ClockInv

LEMMA OtherOrdersKeep == ClockInv /\ OtherOrders => ClockInv'
  <1> SUFFICES ASSUME ClockInv, OtherOrders PROVE ClockInv'
    OBVIOUS
  <1> DEFINE Ordered == \E o \in Orders : commanded' = Append(commanded, o)
  <1>1. Ordered
    <2>1. ASSUME NEW op, NEW x, Order(op, x), [op |-> op, value |-> x] \in Orders PROVE Ordered
      BY <2>1 DEF Order
    <2> HIDE DEF Ordered
    <2>2. ASSUME NEW s \in SyncSpeeds, Order("SetSyncSpeed", s) PROVE Ordered
      <3>1. [op |-> "SetSyncSpeed", value |-> s] \in Orders
        BY DEF Orders, SpeedOrders
      <3>2. QED
        BY <2>1, <2>2, <3>1
    <2>3. ASSUME NEW beat \in BOOLEAN, Order("SetSyncType", beat) PROVE Ordered
      <3>1. [op |-> "SetSyncType", value |-> beat] \in Orders
        BY DEF Orders, TypeOrders
      <3>2. QED
        BY <2>1, <2>3, <3>1
    <2>4. ASSUME NEW len \in ClockLoops, Order("SetPulseFromLoop", len) PROVE Ordered
      <3>1. [op |-> "SetPulseFromLoop", value |-> len] \in Orders
        BY DEF Orders, LoopOrders
      <3>2. QED
        BY <2>1, <2>4, <3>1
    <2>5. ASSUME NEW newLen \in BOOLEAN, NEW gap \in ClockGaps, Order("TapPulse", <<newLen, gap>>)
          PROVE  Ordered
      <3>1. [op |-> "TapPulse", value |-> <<newLen, gap>>] \in Orders
        BY DEF Orders, TapOrders
      <3>2. QED
        BY <2>1, <2>5, <3>1
    <2>6. ASSUME NEW op \in {"ClearPulse", "DeletePulse"}, Order(op, 0) PROVE Ordered
      <3>1. [op |-> op, value |-> 0] \in Orders
        BY DEF Orders, EndingOrders
      <3>2. QED
        BY <2>1, <2>6, <3>1
    <2>7. QED
      BY <2>2, <2>3, <2>4, <2>5, <2>6 DEF OtherOrders
  <1>2. commanded' \in Seq(Orders)
    BY <1>1, AppendProperties DEF ClockInv, ClockTypes
  <1>3. UNCHANGED <<pulseClockVars, sync_transmit, clock_statuses, follower, metro, steady, due, untold>>
    BY DEF OtherOrders
  <1>4. ClockTypes'
    BY <1>2, <1>3 DEF ClockInv, ClockTypes, pulseClockVars
  <1>5. Followed' /\ OnTime'
    BY <1>3, FollowedNext, FollowedMeans DEF ClockInv, pulseClockVars, Running, AllHeard, OnTime, Counted, ClockAt, clocks_per_pulse
  <1>6. QED
    BY <1>4, <1>5 DEF ClockInv

LEMMA ForwardsKeeps == ClockInv /\ Forwards => ClockInv'
  <1> SUFFICES ASSUME ClockInv, Forwards PROVE ClockInv'
    OBVIOUS
  <1>1. /\ clock_statuses # <<>> /\ clock_statuses' = Tail(clock_statuses)
        /\ UNCHANGED <<pulseClockVars, sync_transmit, commanded, metro, steady, due>>
    BY DEF Forwards
  <1>2. ToldTypes /\ Head(clock_statuses) \in Statuses
    BY <1>1, ClockInvMeans, HeadTailProperties DEF ToldTypes
  <1>3. /\ follower' \in BOOLEAN /\ untold' \in BOOLEAN
        /\ ~untold' =>
             /\ ~untold
             /\ Turns(Head(clock_statuses), follower, follower')
    BY <1>2 DEF Forwards, ToldTypes, Statuses, Turns
  <1>4. clock_statuses' \in Seq(Statuses)
    BY <1>1, <1>2, HeadTailProperties DEF ToldTypes
  <1>5. ~untold' => (Running' <=> Running) /\ (AllHeard => AllHeard')
    <2> SUFFICES ASSUME ~untold' PROVE (Running' <=> Running) /\ (AllHeard => AllHeard')
      OBVIOUS
    <2>1. /\ clock_statuses \in Seq(Statuses) /\ follower \in BOOLEAN
          /\ follower' \in BOOLEAN /\ Turns(Head(clock_statuses), follower, follower')
      BY <1>2, <1>3 DEF ToldTypes
    <2>2. /\ ToldBy(Tail(clock_statuses), follower', Len(Tail(clock_statuses)))
               <=> ToldBy(clock_statuses, follower, Len(clock_statuses))
          /\ ClocksAreHeard(clock_statuses, follower)
               => ClocksAreHeard(Tail(clock_statuses), follower')
      BY <1>1, <2>1, ToldLess
    <2>3. QED
      BY <1>1, <2>2 DEF Running, AllHeard
  <1>6. ClockTypes'
    BY <1>1, <1>3, <1>4 DEF ClockInv, ClockTypes, pulseClockVars
  <1>7. Followed'
    BY <1>1, <1>3, <1>5, ClockInvMeans, FollowedNext DEF pulseClockVars
  <1>8. OnTime'
    BY <1>1 DEF ClockInv, pulseClockVars, OnTime, Counted, ClockAt, clocks_per_pulse
  <1>9. QED
    BY <1>6, <1>7, <1>8 DEF ClockInv

LEMMA AppliesKeeps == ClockInv /\ Applies => ClockInv'
  <1> SUFFICES ASSUME ClockInv, Applies PROVE ClockInv'
    OBVIOUS
  <1> DEFINE o == Head(commanded)
  <1>1. /\ commanded # <<>> /\ commanded' = Tail(commanded)
        /\ UNCHANGED <<sync_transmit, follower, metro, clocks, beats>>
        /\ steady' = (steady /\ UNCHANGED <<clock, sync_speed, sync_type, midi_sync_transmit>>)
        /\ due' = IF steady' THEN due ELSE 0
    BY DEF Applies
  <1>2. commanded \in Seq(Orders)
    BY DEF ClockInv, ClockTypes
  <1>3. o \in Orders /\ commanded' \in Seq(Orders)
    BY <1>1, <1>2, HeadTailProperties
  <1>4. /\ Obeyed
        /\ sync_speed' \in Nat /\ sync_type' \in BOOLEAN /\ midi_sync_transmit' \in BOOLEAN
    <2>1. sync_speed \in Nat /\ sync_type \in BOOLEAN /\ midi_sync_transmit \in BOOLEAN
      BY DEF ClockInv, ClockTypes
    <2>2. CASE o.op \in {"SetMidiSyncTransmit", "SetSyncSpeed", "SetSyncType"}
      <3>1. /\ Quietly /\ UNCHANGED <<clock, clock_run>>
            /\ sync_speed' \in Nat /\ sync_type' \in BOOLEAN /\ midi_sync_transmit' \in BOOLEAN
        BY <1>3, <2>1, <2>2, OrderHolds DEF Applies
      <3>2. ToldTypes' /\ Running' = Running /\ AllHeard' = AllHeard /\ untold' = untold
        BY <1>1, <3>1, ClockInvMeans, QuietlyKeeps
      <3>3. Followed'
        BY <3>1, <3>2, ClockInvMeans, FollowedNext
      <3>4. QED
        BY <3>1, <3>2, <3>3, ClockInvMeans DEF Obeyed
    <2>3. CASE o.op \notin {"SetMidiSyncTransmit", "SetSyncSpeed", "SetSyncType"}
      <3>1. /\ UNCHANGED <<sync_speed, sync_type, midi_sync_transmit>>
            /\ \/ o.op = "SetPulseFromLoop" /\ TakesPulse(o.value)
               \/ o.op = "TapPulse" /\ TapsPulse(o.value[1], o.value[2])
               \/ o.op = "ClearPulse" /\ ClearsPulse
               \/ o.op = "DeletePulse" /\ DeletesPulse
        BY <2>3 DEF Applies
      <3>2. Obeyed
        BY <1>1, <1>3, <3>1, OrderHolds, TakesPulseKeeps, TapsPulseKeeps, ClearsPulseKeeps, DeletesPulseKeeps
      <3>3. QED
        BY <2>1, <3>1, <3>2
    <2>4. QED
      BY <2>2, <2>3
  <1>5. ClockTypes'
    BY <1>1, <1>3, <1>4 DEF ClockInv, ClockTypes, Obeyed, ToldTypes
  <1>6. OnTime'
    <2> SUFFICES ASSUME steady', clock_run' = "Beat" PROVE OnTime'
      BY DEF OnTime
    <2>1. /\ steady /\ clock_run = "Beat"
          /\ UNCHANGED <<clock, sync_speed, sync_type, midi_sync_transmit, clocks, beats, metro, due>>
      BY <1>1, <1>4 DEF Obeyed
    <2>2. QED
      BY <2>1 DEF ClockInv, OnTime, Counted, ClockAt, clocks_per_pulse
  <1>7. QED
    BY <1>4, <1>5, <1>6 DEF ClockInv, Obeyed

--------------------------------------------------------------------------
(* Frames                                                                  *)

\* The beats of a bar, with clocks_per_pulse clocks.
BeatsOfBar == sync_speed * (IF sync_type THEN 1 ELSE 4)

LEMMA ClocksOfBar ==
  ASSUME ClockTypes
  PROVE  /\ BeatsOfBar \in Nat /\ clocks_per_pulse \in Nat
         /\ clocks_per_pulse = ClocksPerBeat * BeatsOfBar
         /\ clocks_per_pulse \div ClocksPerBeat = BeatsOfBar
  <1>1. sync_speed \in Nat /\ sync_type \in BOOLEAN /\ ClocksPerBeat \in Nat \ {0}
    BY ClockBounds DEF ClockTypes
  <1>2. BeatsOfBar \in Nat
    BY <1>1 DEF BeatsOfBar
  <1>3. clocks_per_pulse = ClocksPerBeat * BeatsOfBar
    BY <1>1 DEF clocks_per_pulse, BeatsOfBar
  <1> DEFINE k == BeatsOfBar
  <1> HIDE DEF k
  <1>4. k \in Nat /\ ClocksPerBeat * k = k * ClocksPerBeat /\ k * ClocksPerBeat \in Nat
    BY <1>1, <1>2 DEF k
  <1>5. (ClocksPerBeat * k) \div ClocksPerBeat = k
    BY <1>1, <1>4, DividedIs
  <1>6. QED
    BY <1>2, <1>3, <1>4, <1>5 DEF k

\* A tick completes a bar of k beats just when it is the last of its ticks.
LEMMA BarsComplete ==
  ASSUME NEW K \in Nat \ {0}, NEW k \in Nat, NEW n \in Nat, NEW b \in Nat, n < K, n + K * b < K * k
  PROVE  /\ n + 1 >= K /\ b + 1 >= k <=> n + K * b + 1 = K * k
         /\ n + 1 >= K => K * (b + 1) = n + 1 + K * b
  <1>1. K * (b + 1) = K * b + K /\ K * b \in Nat /\ K * k \in Nat
    OBVIOUS
  <1>2. k * K = K * k /\ b * K = K * b /\ (b + 1) * K = K * (b + 1)
    OBVIOUS
  <1>3. b < k
    <2> SUFFICES ASSUME k <= b PROVE FALSE
      OBVIOUS
    <2>1. k * K <= b * K
      BY TimesGrows
    <2>2. QED
      BY <1>1, <1>2, <2>1
  <1>4. ASSUME b + 1 # k PROVE K * (b + 1) + K <= K * k
    <2>1. b + 1 + 1 <= k
      BY <1>3, <1>4
    <2>2. (b + 1 + 1) * K <= k * K
      BY <2>1, TimesGrows
    <2>3. (b + 1 + 1) * K = (b + 1) * K + K
      OBVIOUS
    <2>4. QED
      BY <1>2, <2>2, <2>3
  <1>5. n + 1 >= K /\ b + 1 >= k <=> n + K * b + 1 = K * k
    <2>1. CASE b + 1 = k
      BY <1>1, <2>1
    <2>2. CASE b + 1 # k
      <3>1. K * b + K + K <= K * k /\ ~(b + 1 >= k)
        BY <1>1, <1>3, <1>4, <2>2
      <3>2. QED
        BY <1>1, <3>1
    <2>3. QED
      BY <2>1, <2>2
  <1>6. QED
    BY <1>1, <1>5

LEMMA ClockAtMarks ==
  ASSUME ClockTypes, NEW p
  PROVE  ClockAt(p) = Marks(p, clocks_per_pulse, clock.frames)
  <1>1. clock.frames \in Nat \ {0}
    BY DEF ClockTypes, Beating, Pulses, Positive
  <1>2. Larger(clock.frames, 1) = clock.frames
    BY <1>1 DEF Larger
  <1>3. QED
    BY <1>2 DEF ClockAt, Marks

\* What a frame does to the clocks that are due.
InTime(d, p, c, f) ==
  /\ d \in Nat
  /\ c \in 1..f => d < c
  /\ p + 1 >= f => d + 1 = Larger(1, Smaller(c, f))
  /\ p + 1 < f =>
       /\ IF Marks(p + 1, c, f) # Marks(p, c, f)
          THEN d + 1 = Smaller(Marks(p + 1, c, f), p + 1)
          ELSE d = Smaller(Marks(p + 1, c, f), p + 1)
       /\ c \in 1..f /\ Marks(p + 1, c, f) # Marks(p, c, f) => d + 1 # c

LEMMA FrameOfTime ==
  ASSUME NEW p \in Nat, NEW c \in Nat, NEW f \in Nat \ {0}, p < f, NEW d,
         d = Smaller(Marks(p, c, f), p)
  PROVE  InTime(d, p, c, f)
  <1> USE DEF InTime
  <1>1. Marks(p, c, f) \in Nat /\ Marks(p + 1, c, f) \in Nat
    <2>1. p + 1 \in Nat
      OBVIOUS
    <2>2. QED
      BY <2>1, MarksFit
  <1>2. d \in Nat
    BY <1>1 DEF Smaller
  <1>3. CASE c <= f
    <2>1. /\ d = Marks(p, c, f) /\ Marks(p + 1, c, f) <= p + 1
          /\ \/ Marks(p + 1, c, f) = d
             \/ Marks(p + 1, c, f) = d + 1
      BY <1>1, <1>3, FewMarks DEF Smaller
    <2>2. CASE c = 0
      <3>1. p * c = 0 /\ 0 * f = 0
        BY <2>2
      <3>2. d = 0
        BY <2>1, <3>1, DividedIs DEF Marks
      <3>3. (p + 1) * c = 0
        BY <2>2
      <3>4. Marks(p + 1, c, f) = 0
        BY <3>1, <3>3, DividedIs DEF Marks
      <3>5. QED
        BY <2>1, <2>2, <3>2, <3>4 DEF Smaller, Larger
    <2>3. CASE c # 0
      <3>1. d < c
        <4>1. p \in 0..(f - 1) /\ c \in Nat \ {0}
          BY <2>3
        <4>2. QED
          BY <2>1, <4>1, LastMark
      <3>2. ASSUME p + 1 >= f PROVE d + 1 = c
        <4>1. p = f - 1
          BY <3>2
        <4>2. QED
          BY <1>3, <2>1, <2>3, <4>1, LastMark
      <3>3. ASSUME p + 1 < f PROVE Marks(p + 1, c, f) < c
        <4>1. p + 1 \in 0..(f - 1) /\ c \in Nat \ {0}
          BY <2>3, <3>3
        <4>2. QED
          BY <4>1, LastMark
      <3>4. c >= 1 /\ Larger(1, Smaller(c, f)) = c
        BY <1>3, <2>3 DEF Smaller, Larger
      <3>5. QED
        BY <1>1, <1>2, <2>1, <3>1, <3>2, <3>3, <3>4 DEF Smaller
    <2>4. QED
      BY <2>2, <2>3
  <1>4. CASE c > f
    <2>1. Marks(p, c, f) >= p /\ Marks(p + 1, c, f) >= p + 1 /\ Marks(p + 1, c, f) # Marks(p, c, f)
      BY <1>4, ManyMarks
    <2>2. d = p /\ Smaller(Marks(p + 1, c, f), p + 1) = p + 1
      BY <1>1, <2>1 DEF Smaller
    <2>3. Larger(1, Smaller(c, f)) = f
      BY <1>4 DEF Smaller, Larger
    <2>4. QED
      BY <1>4, <2>1, <2>2, <2>3
  <1>5. QED
    BY <1>3, <1>4

LEMMA ClockFrameKeeps == ClockInv /\ ClockFrame => ClockInv'
  <1> SUFFICES ASSUME ClockInv, ClockFrame PROVE ClockInv'
    OBVIOUS
  <1> DEFINE p == clock.position
             f == clock.frames
             c == clocks_per_pulse
  <1>1. /\ Beating(clock') /\ clock'.active = clock.active /\ clock'.frames = f
        /\ clock'.position = IF p + 1 >= f THEN 0 ELSE p + 1
    BY ClockInvMeans, TickBeats DEF ClockFrame
  <1>2. /\ UNCHANGED <<sync_speed, sync_type, midi_sync_transmit, sync_transmit, commanded, follower>>
        /\ clocks_per_pulse' = c
    BY DEF ClockFrame, clocks_per_pulse
  <1>3. /\ ClockTypes /\ p \in Nat /\ f \in Nat \ {0} /\ c \in Nat /\ p < f /\ p + 1 \in Nat
        /\ clocks \in Nat /\ beats \in Nat /\ due \in Int /\ ClocksPerBeat \in Nat \ {0}
    BY ClocksOfBar, ClockBounds DEF ClockInv, ClockTypes, Beating, Pulses, Positive
  <1>4. /\ ClockAt(p) = Marks(p, c, f) /\ ClockAt(p + 1) = Marks(p + 1, c, f)
        /\ crossed_clock <=> clock_run = "Beat" /\ Marks(p + 1, c, f) # Marks(p, c, f)
        /\ wrapping <=> p + 1 >= f
    BY <1>3, ClockAtMarks DEF crossed_clock, wrapping
  <1>5. ASSUME ClockTypes' PROVE ClockAt(clock.position)' = Marks(clock'.position, c, f)
    <2>1. clock'.frames \in Nat \ {0}
      BY <1>1, <1>3
    <2>2. Larger(clock'.frames, 1) = clock'.frames
      BY <2>1 DEF Larger
    <2>3. QED
      BY <1>1, <1>2, <2>2 DEF ClockAt, Marks
  <1>6. ASSUME due = Smaller(Marks(p, c, f), p) PROVE InTime(due, p, c, f)
    BY <1>3, <1>6, FrameOfTime
  <1>7. CASE Transmits /\ (crossed_clock \/ wrapping) /\ StartsClock
    <2>1. /\ clock_run = "Start" /\ clock_run' = "Beat" /\ clocks' = 0 /\ beats' = 0 /\ metro' = "hi"
          /\ Tells("Start") /\ steady' = TRUE /\ due' = 0
      BY <1>7 DEF StartsClock
    <2>2. clock.active /\ midi_sync_transmit /\ p + 1 >= f
      BY <1>4, <1>7, <2>1 DEF Transmits
    <2>3. /\ ToldTypes'
          /\ ~untold' => ~untold /\ Running' /\ (AllHeard => AllHeard')
      BY <1>2, <2>1, ClockInvMeans, TellsKeep DEF Statuses
    <2>4. Followed'
      BY <1>1, <2>1, <2>2, <2>3, ClockInvMeans, FollowedNext
    <2>5. ClockTypes'
      BY <1>1, <1>2, <2>1, <2>3 DEF ClockInv, ClockTypes, ToldTypes, Beating
    <2>6. clock'.position = 0 /\ ClockAt(clock.position)' = 0
      BY <1>1, <1>3, <1>5, <2>2, <2>5, MarksStart
    <2>7. Counted'
      BY <1>3, <2>1, <2>6 DEF Counted
    <2>8. OnTime'
      BY <1>1, <1>2, <2>1, <2>2, <2>6, <2>7 DEF OnTime, Smaller
    <2>9. QED
      BY <2>4, <2>5, <2>8 DEF ClockInv
  <1>8. CASE Transmits /\ (crossed_clock \/ wrapping) /\ TicksClock
    <2> DEFINE full == clocks + 1 >= ClocksPerBeat
               bar  == full /\ beats + 1 >= BeatsOfBar
    <2>1. /\ clock_run = "Beat" /\ clock_run' = "Beat" /\ Tells("Clock") /\ steady' = steady
          /\ clocks' = IF full THEN 0 ELSE clocks + 1
          /\ beats' = IF bar THEN 0 ELSE IF full THEN beats + 1 ELSE beats
          /\ metro' = IF bar THEN "hi" ELSE IF full THEN "lo" ELSE "none"
          /\ due' = IF steady THEN due + 1 - (IF wrapping THEN OfABeat ELSE 0) ELSE 0
      BY <1>3, <1>8, ClocksOfBar DEF TicksClock
    <2>2. clock.active /\ midi_sync_transmit
      BY <1>8 DEF Transmits
    <2>3. /\ ToldTypes'
          /\ ~untold' => /\ ~untold
                         /\ Running' <=> Running
                         /\ AllHeard /\ Running => AllHeard'
      BY <1>2, <2>1, ClockInvMeans, TellsKeep DEF Statuses
    <2>4. Followed'
      BY <1>1, <2>1, <2>2, <2>3, ClockInvMeans, FollowedNext
    <2>5. OfABeat = Larger(1, Smaller(c, f)) /\ OfABeat \in Nat
      BY <1>3 DEF OfABeat, Larger, Smaller
    <2>6. due' \in Int /\ clocks' \in Nat /\ beats' \in Nat /\ metro' \in {"hi", "lo", "none"}
      BY <1>3, <2>1, <2>5
    <2>7. ClockTypes'
      BY <1>1, <1>2, <2>1, <2>3, <2>6 DEF ClockInv, ClockTypes, ToldTypes, Beating
    <2>8. ASSUME steady PROVE OnTime'
      <3>1. /\ due = Smaller(Marks(p, c, f), p) /\ Counted /\ InTime(due, p, c, f)
        BY <1>4, <1>6, <2>1, <2>8 DEF ClockInv, OnTime
      <3>2. due' = Smaller(Marks(clock'.position, c, f), clock'.position)
        <4>1. CASE p + 1 >= f
          <5>1. due + 1 = OfABeat /\ due' = due + 1 - OfABeat
            BY <1>3, <1>4, <2>1, <2>5, <2>8, <3>1, <4>1 DEF InTime
          <5>2. clock'.position = 0 /\ Marks(0, c, f) = 0
            BY <1>1, <1>3, <4>1, MarksStart
          <5>3. QED
            BY <1>3, <5>1, <5>2 DEF Smaller
        <4>2. CASE p + 1 < f
          <5>1. ~(p + 1 >= f)
            BY <1>3, <4>2
          <5>2. due' = due + 1 /\ clock'.position = p + 1
            BY <1>1, <1>3, <1>4, <2>1, <2>8, <5>1
          <5>3. Marks(p + 1, c, f) # Marks(p, c, f)
            BY <1>4, <1>8, <5>1
          <5>4. QED
            BY <1>3, <3>1, <4>2, <5>2, <5>3 DEF InTime
        <4>3. QED
          BY <1>3, <4>1, <4>2
      <3>3. Counted'
        <4> SUFFICES ASSUME c \in 1..f
                     PROVE  /\ clocks' < ClocksPerBeat /\ clocks' + ClocksPerBeat * beats' = due'
                            /\ metro' = "hi" <=> clock'.position = 0
          BY <1>1, <1>2 DEF Counted
        <4>1. clocks < ClocksPerBeat /\ clocks + ClocksPerBeat * beats = due
          BY <3>1 DEF Counted
        <4>2. due \in Nat /\ due < c
          BY <3>1 DEF InTime
        <4>3. BeatsOfBar \in Nat /\ c = ClocksPerBeat * BeatsOfBar
          BY <1>3, ClocksOfBar
        <4>4. /\ bar <=> due + 1 = c
              /\ full => ClocksPerBeat * (beats + 1) = due + 1
          <5>1. /\ ClocksPerBeat \in Nat \ {0} /\ clocks \in Nat /\ beats \in Nat /\ BeatsOfBar \in Nat
                /\ clocks < ClocksPerBeat
                /\ clocks + ClocksPerBeat * beats < ClocksPerBeat * BeatsOfBar
            BY <1>3, <4>1, <4>2, <4>3
          <5>2. /\ clocks + 1 >= ClocksPerBeat /\ beats + 1 >= BeatsOfBar
                     <=> clocks + ClocksPerBeat * beats + 1 = ClocksPerBeat * BeatsOfBar
                /\ clocks + 1 >= ClocksPerBeat
                     => ClocksPerBeat * (beats + 1) = clocks + 1 + ClocksPerBeat * beats
            BY <5>1, BarsComplete
          <5>3. ClocksPerBeat * beats \in Nat
            BY <1>3
          <5>4. clocks + 1 + ClocksPerBeat * beats = due + 1
            BY <1>3, <4>1, <5>3
          <5>5. QED
            BY <4>1, <4>3, <5>2, <5>4
        <4>5. CASE p + 1 >= f
          <5>1. due + 1 = OfABeat /\ OfABeat = c
            BY <1>3, <2>5, <3>1, <4>5 DEF InTime, Larger, Smaller
          <5>2. due' = 0 /\ bar /\ clock'.position = 0
            BY <1>1, <1>3, <1>4, <2>1, <2>8, <4>2, <4>4, <4>5, <5>1
          <5>3. clocks' = 0 /\ beats' = 0 /\ metro' = "hi"
            BY <2>1, <5>2
          <5>4. QED
            BY <1>3, <5>2, <5>3
        <4>6. CASE p + 1 < f
          <5>1. ~(p + 1 >= f)
            BY <1>3, <4>6
          <5>2. Marks(p + 1, c, f) # Marks(p, c, f)
            BY <1>4, <1>8, <5>1
          <5>3. due + 1 # c /\ due' = due + 1 /\ clock'.position = p + 1
            <6>1. due + 1 # c
              BY <3>1, <4>6, <5>2 DEF InTime
            <6>2. due' = due + 1 /\ clock'.position = p + 1
              BY <1>1, <1>3, <1>4, <2>1, <2>8, <5>1
            <6>3. QED
              BY <6>1, <6>2
          <5>4. ~bar /\ metro' # "hi"
            BY <2>1, <4>4, <5>3
          <5>5. CASE full
            <6>1. clocks' = 0 /\ beats' = beats + 1
              BY <2>1, <5>4, <5>5
            <6>2. QED
              BY <1>3, <4>4, <5>3, <5>4, <5>5, <6>1
          <5>6. CASE ~full
            <6>1. clocks' = clocks + 1 /\ beats' = beats
              BY <2>1, <5>6
            <6>2. QED
              BY <1>3, <4>1, <5>3, <5>4, <5>6, <6>1
          <5>7. QED
            BY <5>5, <5>6
        <4>7. QED
          BY <1>3, <4>5, <4>6
      <3>4. QED
        BY <1>1, <1>2, <1>5, <2>2, <2>7, <3>2, <3>3 DEF OnTime
    <2>9. OnTime'
      BY <2>1, <2>8 DEF OnTime
    <2>10. QED
      BY <2>4, <2>7, <2>9 DEF ClockInv
  <1>9. CASE ~(Transmits /\ (crossed_clock \/ wrapping))
    <2>1. /\ metro' = "none" /\ Quietly
          /\ UNCHANGED <<clock_run, clocks, beats, steady, due>>
      BY <1>9 DEF ClockFrame
    <2>2. ToldTypes' /\ Running' = Running /\ AllHeard' = AllHeard /\ untold' = untold
      BY <1>2, <2>1, ClockInvMeans, QuietlyKeeps
    <2>3. Followed'
      BY <1>1, <2>1, <2>2, ClockInvMeans, FollowedNext
    <2>4. ClockTypes'
      BY <1>1, <1>2, <2>1, <2>2 DEF ClockInv, ClockTypes, ToldTypes, Beating
    <2>5. ASSUME steady, clock_run = "Beat" PROVE OnTime'
      <3>1. /\ clock.active /\ midi_sync_transmit /\ due = Smaller(Marks(p, c, f), p) /\ Counted
            /\ InTime(due, p, c, f)
        BY <1>4, <1>6, <2>5 DEF ClockInv, OnTime
      <3>2. ~(p + 1 >= f) /\ Marks(p + 1, c, f) = Marks(p, c, f)
        BY <1>4, <1>9, <2>5, <3>1 DEF Transmits
      <3>3. clock'.position = p + 1 /\ p + 1 < f
        BY <1>1, <1>3, <3>2
      <3>4. due' = Smaller(Marks(clock'.position, c, f), clock'.position)
        BY <2>1, <3>1, <3>2, <3>3 DEF InTime
      <3>5. Counted'
        BY <1>1, <1>2, <1>3, <2>1, <3>1, <3>3 DEF Counted
      <3>6. QED
        BY <1>1, <1>2, <1>5, <2>4, <3>1, <3>4, <3>5 DEF OnTime
    <2>6. OnTime'
      BY <2>1, <2>5 DEF OnTime
    <2>7. QED
      BY <2>3, <2>4, <2>6 DEF ClockInv
  <1>10. QED
    BY <1>7, <1>8, <1>9 DEF ClockFrame

LEMMA ClockStarts == ClockInit => ClockInv
  <1> SUFFICES ASSUME ClockInit PROVE ClockInv
    OBVIOUS
  <1>1. Beating(clock) /\ ~clock.active
    BY DEF ClockInit, IdlePulse, Beating, Pulses, Positive
  <1>2. clock_run = "None" /\ clock_statuses = <<>> /\ follower = FALSE /\ commanded = <<>>
    BY DEF ClockInit
  <1>3. ClockTypes
    <2>1. commanded \in Seq(Orders) /\ clock_statuses \in Seq(Statuses)
      BY <1>2, EmptySeq
    <2>2. /\ sync_speed \in Nat /\ sync_type \in BOOLEAN
          /\ midi_sync_transmit \in BOOLEAN /\ sync_transmit \in BOOLEAN
          /\ clock_run \in {"None", "Start", "Beat"} /\ metro \in {"hi", "lo", "none"}
      BY DEF ClockInit
    <2>3. follower \in BOOLEAN /\ steady \in BOOLEAN /\ untold \in BOOLEAN
      BY DEF ClockInit
    <2>4. clocks \in Nat /\ beats \in Nat /\ due \in Int
      <3>1. clocks = 0 /\ beats = 0 /\ due = 0
        BY DEF ClockInit
      <3>2. QED
        BY <3>1
    <2>5. QED
      BY <1>1, <2>1, <2>2, <2>3, <2>4 DEF ClockTypes
  <1>4. ~Running /\ AllHeard
    BY <1>2, ToldOfNothing DEF Running, AllHeard
  <1>5. Followed /\ OnTime
    BY <1>2, <1>4, FollowedMeans DEF OnTime
  <1>6. QED
    BY <1>3, <1>5 DEF ClockInv

LEMMA ClockStep == ClockInv /\ [ClockNext]_clockVars => ClockInv'
  <1> SUFFICES ASSUME ClockInv, [ClockNext]_clockVars PROVE ClockInv'
    OBVIOUS
  <1>1. CASE UNCHANGED clockVars
    <2>1. ClockTypes'
      BY <1>1 DEF clockVars, pulseClockVars, ClockInv, ClockTypes
    <2>2. Followed' /\ OnTime'
      BY <1>1, FollowedNext, FollowedMeans DEF clockVars, pulseClockVars, ClockInv, Running, AllHeard,
         OnTime, Counted, ClockAt, clocks_per_pulse
    <2>3. QED
      BY <2>1, <2>2 DEF ClockInv
  <1>2. QED
    BY <1>1, SetMidiSyncKeeps, OtherOrdersKeep, ForwardsKeeps, AppliesKeeps, ClockFrameKeeps DEF ClockNext

LEMMA ClockHolds == ClockSpec => []ClockInv
  BY ClockStarts, ClockStep, PTL DEF ClockSpec

\* An instrument is between START and STOP just while the clock beats, and hears clocks
\* only then, wherever a START or STOP could be told: for any ring, any commands and any
\* pulse.
THEOREM InstrumentsAreTold == ClockSpec => []FollowersAreTold
  <1>1. ClockInv => FollowersAreTold
    BY DEF ClockInv, Followed
  <1>2. QED
    BY <1>1, ClockHolds, PTL

\* While nothing changes the pulse, the clocks sent are those its position asks for, without
\* drift, and the accent falls on the downbeats, whatever the length of the pulse and the
\* number of clocks divide.
THEOREM ClockDoesNotDrift == ClockSpec => []ClockKeepsTime
  <1>1. ClockInv => ClockKeepsTime
    BY DEF ClockInv, OnTime, Counted, ClockKeepsTime
  <1>2. QED
    BY <1>1, ClockHolds, PTL
=============================================================================
