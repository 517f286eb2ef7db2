-------------------------- MODULE Session_proof --------------------------
(***************************************************************************)
(* What AudioRecovery and Session promise for any routes, any number of    *)
(* changes of the devices and any limit of attempts: the DSP graph is in   *)
(* one place, files get the rate of the route that is live, and a callback *)
(* that runs is served and can be stopped.                                 *)
(*                                                                         *)
(* OneProcessor is not inductive: that a step finds the graph where it     *)
(* looks for it depends on how far the recovery is (InHandWhere), on the   *)
(* channel a closure will answer on being there (ClosureAnswers), and on   *)
(* what only CPAL does (OnlyCpal).  RecoveryInv says so.  It holds of a    *)
(* session from the moment its activation is joined (LiveAudio); before    *)
(* that SessionInv follows the startup (NotYet, Activation, Strays), and   *)
(* after it what a callback that still runs has ahead of it (Served).      *)
(*                                                                         *)
(* That rollback and closing leave nothing needs to know who will take     *)
(* each resource away: a phase on the rollback stack (Stacked), with the   *)
(* controls of SynthAndBuffers left to the phase Audio (AudioStacked), or  *)
(* a step of the closing still to come (Taken).  ResourceInv says so.      *)
(***************************************************************************)
EXTENDS Session, TLAPS

USE RecoveryAssumption DEF NoRoute, Cpal, outside, processor, controller

--------------------------------------------------------------------------
(* The invariant of a recovery                                             *)

InHandWhere    == inHand <=> polling \in {"open", "activate"}
ClosureAnswers == Cpal /\ closure # "none" => returning = "empty"
OnlyCpal       == ~Cpal => ~retained /\ returning = "none" /\ closure # "dropping"
AttemptsLeft   == polling # "over" => failures < RECOVERY_MAX_ATTEMPTS

\* AudioIO is active while its back end is at work, and not when an attempt is counted.
ActiveWhere ==
  /\ polling = "count" => ~active
  /\ polling \in {"open", "activate", "adopt"} => active
  /\ closure = "running" => active

RecoveryInv ==
  /\ AudioTypeOK /\ OneProcessor /\ RateFollowsRoute
  /\ InHandWhere /\ ClosureAnswers /\ OnlyCpal /\ AttemptsLeft /\ ActiveWhere

\* OneProcessor, said of the variables; and AudioTypeOK in parts the provers can take.
InOnePlace ==
  /\ ~(retained /\ (closure # "none" \/ returning = "full" \/ inHand))
  /\ ~(closure # "none" /\ (returning = "full" \/ inHand))
  /\ ~(returning = "full" /\ inHand)
  /\ Cpal => retained \/ closure # "none" \/ returning = "full" \/ inHand

FlagTypes ==
  requested \in BOOLEAN /\ retained \in BOOLEAN /\ inHand \in BOOLEAN /\ active \in BOOLEAN

PlaceTypes ==
  /\ closure \in {"none", "running", "dropping"} /\ returning \in {"none", "empty", "full"}
  /\ polling \in {"idle", "recover", "open", "activate", "adopt", "failed", "count", "over"}
  /\ retry \in {"none", "waiting", "due"}

ValueTypes ==
  /\ backend \in Backends /\ system \in Routes /\ changes \in 0..MaxChanges
  /\ route \in Routes \cup {NoRoute} /\ rate \in {0, 44100, 48000}
  /\ failures \in 0..RECOVERY_MAX_ATTEMPTS

Safe ==
  /\ FlagTypes /\ PlaceTypes /\ ValueTypes /\ InOnePlace /\ RateFollowsRoute
  /\ InHandWhere /\ ClosureAnswers /\ OnlyCpal /\ AttemptsLeft /\ ActiveWhere

LEMMA Types == AudioTypeOK <=> FlagTypes /\ PlaceTypes /\ ValueTypes
  BY DEF AudioTypeOK, FlagTypes, PlaceTypes, ValueTypes

LEMMA OnePlace == OneProcessor <=> InOnePlace
  BY DEF OneProcessor, InOnePlace, Holders

LEMMA SafeIsInv == RecoveryInv <=> Safe
  BY Types, OnePlace DEF RecoveryInv, Safe

LEMMA SafeIsInvNext == RecoveryInv' <=> Safe'
  BY SafeIsInv, PTL

LEMMA Rates == \A r : Rate(r) \in {44100, 48000}
  BY DEF Rate

LEMMA StartedInv == Started => RecoveryInv
<1> SUFFICES ASSUME Started PROVE Safe
  BY SafeIsInv
<1>1. FlagTypes
  BY DEF FlagTypes, Started, Idle
<1>2. PlaceTypes
  BY DEF PlaceTypes, Started, Idle
<1>3. ValueTypes
  BY Rates DEF ValueTypes, Started, Idle
<1>4. InOnePlace
  BY DEF InOnePlace, Started, Idle
<1>5. RateFollowsRoute
  BY DEF RateFollowsRoute, Started
<1>6. InHandWhere /\ AttemptsLeft
  BY DEF InHandWhere, AttemptsLeft, Started, Idle
<1>7. ClosureAnswers /\ OnlyCpal /\ ActiveWhere
  BY DEF ClosureAnswers, OnlyCpal, ActiveWhere, Started, Idle
<1> QED
  BY <1>1, <1>2, <1>3, <1>4, <1>5, <1>6, <1>7 DEF Safe

--------------------------------------------------------------------------
(* Its steps                                                               *)

LEMMA WorldInv == ASSUME RecoveryInv, World PROVE RecoveryInv'
<1> SUFFICES ASSUME Safe PROVE Safe'
  BY SafeIsInv, SafeIsInvNext
<1>1. FlagTypes'
  BY DEF Safe, FlagTypes, World, ChangeDevices, StreamError, ReturnLate, BackoffEnds
<1>2. PlaceTypes'
  BY DEF Safe, PlaceTypes, World, ChangeDevices, StreamError, ReturnLate, BackoffEnds
<1>3. ValueTypes'
  BY Rates DEF Safe, ValueTypes, World, ChangeDevices, StreamError, ReturnLate, BackoffEnds
<1>4. InOnePlace'
  BY DEF Safe, FlagTypes, PlaceTypes, InOnePlace, InHandWhere, OnlyCpal, ClosureAnswers,
    World, ChangeDevices, StreamError, ReturnLate, BackoffEnds
<1>5. RateFollowsRoute'
  BY DEF Safe, RateFollowsRoute, ActiveWhere, World, ChangeDevices, StreamError, ReturnLate,
    BackoffEnds
<1>6. InHandWhere'
  BY DEF Safe, FlagTypes, InHandWhere, World, ChangeDevices, StreamError, ReturnLate,
    BackoffEnds
<1>7. ClosureAnswers'
  BY DEF Safe, FlagTypes, ClosureAnswers, InHandWhere, InOnePlace, World, ChangeDevices,
    StreamError, ReturnLate, BackoffEnds
<1>8. OnlyCpal'
  BY DEF Safe, FlagTypes, OnlyCpal, InHandWhere, InOnePlace, World, ChangeDevices,
    StreamError, ReturnLate, BackoffEnds
<1>9. AttemptsLeft'
  BY DEF Safe, ValueTypes, AttemptsLeft, World, ChangeDevices, StreamError, ReturnLate,
    BackoffEnds
<1>10. ActiveWhere'
  BY DEF Safe, FlagTypes, ActiveWhere, World, ChangeDevices, StreamError, ReturnLate,
    BackoffEnds
<1> QED
  BY <1>1, <1>2, <1>3, <1>4, <1>5, <1>6, <1>7, <1>8, <1>9, <1>10 DEF Safe

LEMMA PollInv ==
  ASSUME RecoveryInv, NEW due \in BOOLEAN, NEW broken \in BOOLEAN,
         Poll(due, broken)
  PROVE  RecoveryInv'
<1> SUFFICES ASSUME Safe PROVE Safe'
  BY SafeIsInv, SafeIsInvNext
<1>1. FlagTypes'
  BY DEF Safe, FlagTypes, Poll, PollQuiet, PollWaits, PollAttempts
<1>2. PlaceTypes'
  BY DEF Safe, PlaceTypes, Poll, PollQuiet, PollWaits, PollAttempts
<1>3. ValueTypes'
  BY Rates DEF Safe, ValueTypes, Poll, PollQuiet, PollWaits, PollAttempts
<1>4. InOnePlace'
  BY DEF Safe, FlagTypes, PlaceTypes, InOnePlace, InHandWhere, OnlyCpal, ClosureAnswers, Poll,
    PollQuiet, PollWaits, PollAttempts
<1>5. RateFollowsRoute'
  BY DEF Safe, RateFollowsRoute, ActiveWhere, Poll, PollQuiet, PollWaits, PollAttempts
<1>6. InHandWhere'
  BY DEF Safe, FlagTypes, InHandWhere, Poll, PollQuiet, PollWaits, PollAttempts
<1>7. ClosureAnswers'
  BY DEF Safe, FlagTypes, ClosureAnswers, InHandWhere, InOnePlace, Poll, PollQuiet, PollWaits,
    PollAttempts
<1>8. OnlyCpal'
  BY DEF Safe, FlagTypes, OnlyCpal, InHandWhere, InOnePlace, Poll, PollQuiet, PollWaits,
    PollAttempts
<1>9. AttemptsLeft'
  BY DEF Safe, ValueTypes, AttemptsLeft, Poll, PollQuiet, PollWaits, PollAttempts
<1>10. ActiveWhere'
  BY DEF Safe, FlagTypes, ActiveWhere, Poll, PollQuiet, PollWaits, PollAttempts
<1> QED
  BY <1>1, <1>2, <1>3, <1>4, <1>5, <1>6, <1>7, <1>8, <1>9, <1>10 DEF Safe

LEMMA RefusedInv == ASSUME RecoveryInv, RecoverCannotStop \/ RecoverInactive PROVE RecoveryInv'
<1> SUFFICES ASSUME Safe PROVE Safe'
  BY SafeIsInv, SafeIsInvNext
<1>1. FlagTypes'
  BY DEF Safe, FlagTypes, RecoverCannotStop, RecoverInactive
<1>2. PlaceTypes'
  BY DEF Safe, PlaceTypes, RecoverCannotStop, RecoverInactive
<1>3. ValueTypes'
  BY Rates DEF Safe, ValueTypes, RecoverCannotStop, RecoverInactive
<1>4. InOnePlace'
  BY DEF Safe, FlagTypes, PlaceTypes, InOnePlace, InHandWhere, OnlyCpal, ClosureAnswers,
    RecoverCannotStop, RecoverInactive
<1>5. RateFollowsRoute'
  BY DEF Safe, RateFollowsRoute, ActiveWhere, RecoverCannotStop, RecoverInactive
<1>6. InHandWhere'
  BY DEF Safe, FlagTypes, InHandWhere, RecoverCannotStop, RecoverInactive
<1>7. ClosureAnswers'
  BY DEF Safe, FlagTypes, ClosureAnswers, InHandWhere, InOnePlace, RecoverCannotStop,
    RecoverInactive
<1>8. OnlyCpal'
  BY DEF Safe, FlagTypes, OnlyCpal, InHandWhere, InOnePlace, RecoverCannotStop,
    RecoverInactive
<1>9. AttemptsLeft'
  BY DEF Safe, ValueTypes, AttemptsLeft, RecoverCannotStop, RecoverInactive
<1>10. ActiveWhere'
  BY DEF Safe, FlagTypes, ActiveWhere, RecoverCannotStop, RecoverInactive
<1> QED
  BY <1>1, <1>2, <1>3, <1>4, <1>5, <1>6, <1>7, <1>8, <1>9, <1>10 DEF Safe

\* The streams are dropped, the processor comes out of them at once or late.
LEMMA RecoverInv == ASSUME RecoveryInv, NEW late \in BOOLEAN, Recover(late) PROVE RecoveryInv'
<1> SUFFICES ASSUME Safe PROVE Safe'
  BY SafeIsInv, SafeIsInvNext
<1>1. FlagTypes'
  BY DEF Safe, FlagTypes, Recover, Returned, Dropped
<1>2. PlaceTypes'
  BY DEF Safe, PlaceTypes, Recover, Returned, Dropped
<1>3. ValueTypes'
  BY Rates DEF Safe, ValueTypes, Recover, Returned, Dropped
<1>4. InOnePlace'
  BY DEF Safe, FlagTypes, PlaceTypes, InOnePlace, InHandWhere, OnlyCpal, ClosureAnswers,
    Recover, Returned, Dropped
<1>5. RateFollowsRoute'
  BY DEF Safe, RateFollowsRoute, ActiveWhere, Recover, Returned, Dropped
<1>6. InHandWhere'
  BY DEF Safe, FlagTypes, InHandWhere, Recover, Returned, Dropped
<1>7. ClosureAnswers'
  BY DEF Safe, FlagTypes, ClosureAnswers, InHandWhere, InOnePlace, Recover, Returned, Dropped
<1>8. OnlyCpal'
  BY DEF Safe, FlagTypes, OnlyCpal, InHandWhere, InOnePlace, Recover, Returned, Dropped
<1>9. AttemptsLeft'
  BY DEF Safe, ValueTypes, AttemptsLeft, Recover, Returned, Dropped
<1>10. ActiveWhere'
  BY DEF Safe, FlagTypes, ActiveWhere, Recover, Returned, Dropped
<1> QED
  BY <1>1, <1>2, <1>3, <1>4, <1>5, <1>6, <1>7, <1>8, <1>9, <1>10 DEF Safe

LEMMA OpenInv == ASSUME RecoveryInv, OpenRoute \/ OpenFails PROVE RecoveryInv'
<1> SUFFICES ASSUME Safe PROVE Safe'
  BY SafeIsInv, SafeIsInvNext
<1>1. FlagTypes'
  BY DEF Safe, FlagTypes, OpenRoute, OpenFails, OpenDevices
<1>2. PlaceTypes'
  BY DEF Safe, PlaceTypes, OpenRoute, OpenFails, OpenDevices
<1>3. ValueTypes'
  BY Rates DEF Safe, ValueTypes, OpenRoute, OpenFails, OpenDevices
<1>4. InOnePlace'
  BY DEF Safe, FlagTypes, PlaceTypes, InOnePlace, InHandWhere, OnlyCpal, ClosureAnswers,
    OpenRoute, OpenFails, OpenDevices
<1>5. RateFollowsRoute'
  BY DEF Safe, RateFollowsRoute, ActiveWhere, OpenRoute, OpenFails, OpenDevices
<1>6. InHandWhere'
  BY DEF Safe, FlagTypes, InHandWhere, OpenRoute, OpenFails, OpenDevices
<1>7. ClosureAnswers'
  BY DEF Safe, FlagTypes, ClosureAnswers, InHandWhere, InOnePlace, OpenRoute, OpenFails,
    OpenDevices
<1>8. OnlyCpal'
  BY DEF Safe, FlagTypes, OnlyCpal, InHandWhere, InOnePlace, OpenRoute, OpenFails, OpenDevices
<1>9. AttemptsLeft'
  BY DEF Safe, ValueTypes, AttemptsLeft, OpenRoute, OpenFails, OpenDevices
<1>10. ActiveWhere'
  BY DEF Safe, FlagTypes, ActiveWhere, OpenRoute, OpenFails, OpenDevices
<1> QED
  BY <1>1, <1>2, <1>3, <1>4, <1>5, <1>6, <1>7, <1>8, <1>9, <1>10 DEF Safe

LEMMA ActivateInv == ASSUME RecoveryInv, ActivateRoute PROVE RecoveryInv'
<1> SUFFICES ASSUME Safe PROVE Safe'
  BY SafeIsInv, SafeIsInvNext
<1>1. FlagTypes'
  BY DEF Safe, FlagTypes, ActivateRoute, RunStreams
<1>2. PlaceTypes'
  BY DEF Safe, PlaceTypes, ActivateRoute, RunStreams
<1>3. ValueTypes'
  BY Rates DEF Safe, ValueTypes, ActivateRoute, RunStreams
<1>4. InOnePlace'
  BY DEF Safe, FlagTypes, PlaceTypes, InOnePlace, InHandWhere, OnlyCpal, ClosureAnswers,
    ActivateRoute, RunStreams
<1>5. RateFollowsRoute'
  BY DEF Safe, RateFollowsRoute, ActiveWhere, ActivateRoute, RunStreams
<1>6. InHandWhere'
  BY DEF Safe, FlagTypes, InHandWhere, ActivateRoute, RunStreams
<1>7. ClosureAnswers'
  BY DEF Safe, FlagTypes, ClosureAnswers, InHandWhere, InOnePlace, ActivateRoute, RunStreams
<1>8. OnlyCpal'
  BY DEF Safe, FlagTypes, OnlyCpal, InHandWhere, InOnePlace, ActivateRoute, RunStreams
<1>9. AttemptsLeft'
  BY DEF Safe, ValueTypes, AttemptsLeft, ActivateRoute, RunStreams
<1>10. ActiveWhere'
  BY DEF Safe, FlagTypes, ActiveWhere, ActivateRoute, RunStreams
<1> QED
  BY <1>1, <1>2, <1>3, <1>4, <1>5, <1>6, <1>7, <1>8, <1>9, <1>10 DEF Safe

LEMMA ActivateFailsInv ==
  ASSUME RecoveryInv, NEW late \in BOOLEAN, ActivateFails(late)
  PROVE  RecoveryInv'
<1> SUFFICES ASSUME Safe PROVE Safe'
  BY SafeIsInv, SafeIsInvNext
<1>1. FlagTypes'
  BY DEF Safe, FlagTypes, ActivateFails, KeepProcessor
<1>2. PlaceTypes'
  BY DEF Safe, PlaceTypes, ActivateFails, KeepProcessor
<1>3. ValueTypes'
  BY Rates DEF Safe, ValueTypes, ActivateFails, KeepProcessor
<1>4. InOnePlace'
  BY DEF Safe, FlagTypes, PlaceTypes, InOnePlace, InHandWhere, OnlyCpal, ClosureAnswers,
    ActivateFails, KeepProcessor
<1>5. RateFollowsRoute'
  BY DEF Safe, RateFollowsRoute, ActiveWhere, ActivateFails, KeepProcessor
<1>6. InHandWhere'
  BY DEF Safe, FlagTypes, InHandWhere, ActivateFails, KeepProcessor
<1>7. ClosureAnswers'
  BY DEF Safe, FlagTypes, ClosureAnswers, InHandWhere, InOnePlace, ActivateFails,
    KeepProcessor
<1>8. OnlyCpal'
  BY DEF Safe, FlagTypes, OnlyCpal, InHandWhere, InOnePlace, ActivateFails, KeepProcessor
<1>9. AttemptsLeft'
  BY DEF Safe, ValueTypes, AttemptsLeft, ActivateFails, KeepProcessor
<1>10. ActiveWhere'
  BY DEF Safe, FlagTypes, ActiveWhere, ActivateFails, KeepProcessor
<1> QED
  BY <1>1, <1>2, <1>3, <1>4, <1>5, <1>6, <1>7, <1>8, <1>9, <1>10 DEF Safe

LEMMA AdoptInv == ASSUME RecoveryInv, Adopt PROVE RecoveryInv'
<1> SUFFICES ASSUME Safe PROVE Safe'
  BY SafeIsInv, SafeIsInvNext
<1>1. FlagTypes'
  BY DEF Safe, FlagTypes, Adopt
<1>2. PlaceTypes'
  BY DEF Safe, PlaceTypes, Adopt
<1>3. ValueTypes'
  BY Rates DEF Safe, ValueTypes, Adopt
<1>4. InOnePlace'
  BY DEF Safe, FlagTypes, PlaceTypes, InOnePlace, InHandWhere, OnlyCpal, ClosureAnswers, Adopt
<1>5. RateFollowsRoute'
  BY DEF Safe, RateFollowsRoute, ActiveWhere, Adopt
<1>6. InHandWhere'
  BY DEF Safe, FlagTypes, InHandWhere, Adopt
<1>7. ClosureAnswers'
  BY DEF Safe, FlagTypes, ClosureAnswers, InHandWhere, InOnePlace, Adopt
<1>8. OnlyCpal'
  BY DEF Safe, FlagTypes, OnlyCpal, InHandWhere, InOnePlace, Adopt
<1>9. AttemptsLeft'
  BY DEF Safe, ValueTypes, AttemptsLeft, Adopt
<1>10. ActiveWhere'
  BY DEF Safe, FlagTypes, ActiveWhere, Adopt
<1> QED
  BY <1>1, <1>2, <1>3, <1>4, <1>5, <1>6, <1>7, <1>8, <1>9, <1>10 DEF Safe

LEMMA TearDownInv == ASSUME RecoveryInv, NEW late \in BOOLEAN, TearDown(late) PROVE RecoveryInv'
<1> SUFFICES ASSUME Safe PROVE Safe'
  BY SafeIsInv, SafeIsInvNext
<1>1. FlagTypes'
  BY DEF Safe, FlagTypes, TearDown, CloseDevices, Returned, Dropped
<1>2. PlaceTypes'
  BY DEF Safe, PlaceTypes, TearDown, CloseDevices, Returned, Dropped
<1>3. ValueTypes'
  BY Rates DEF Safe, ValueTypes, TearDown, CloseDevices, Returned, Dropped
<1>4. InOnePlace'
  BY DEF Safe, FlagTypes, PlaceTypes, InOnePlace, InHandWhere, OnlyCpal, ClosureAnswers,
    TearDown, CloseDevices, Returned, Dropped
<1>5. RateFollowsRoute'
  BY DEF Safe, RateFollowsRoute, ActiveWhere, TearDown, CloseDevices, Returned, Dropped
<1>6. InHandWhere'
  BY DEF Safe, FlagTypes, InHandWhere, TearDown, CloseDevices, Returned, Dropped
<1>7. ClosureAnswers'
  BY DEF Safe, FlagTypes, ClosureAnswers, InHandWhere, InOnePlace, TearDown, CloseDevices,
    Returned, Dropped
<1>8. OnlyCpal'
  BY DEF Safe, FlagTypes, OnlyCpal, InHandWhere, InOnePlace, TearDown, CloseDevices, Returned,
    Dropped
<1>9. AttemptsLeft'
  BY DEF Safe, ValueTypes, AttemptsLeft, TearDown, CloseDevices, Returned, Dropped
<1>10. ActiveWhere'
  BY DEF Safe, FlagTypes, ActiveWhere, TearDown, CloseDevices, Returned, Dropped
<1> QED
  BY <1>1, <1>2, <1>3, <1>4, <1>5, <1>6, <1>7, <1>8, <1>9, <1>10 DEF Safe

LEMMA CountFailureInv == ASSUME RecoveryInv, CountFailure PROVE RecoveryInv'
<1> SUFFICES ASSUME Safe PROVE Safe'
  BY SafeIsInv, SafeIsInvNext
<1>1. FlagTypes'
  BY DEF Safe, FlagTypes, CountFailure
<1>2. PlaceTypes'
  BY DEF Safe, PlaceTypes, CountFailure
<1>3. ValueTypes'
  BY Rates DEF Safe, ValueTypes, AttemptsLeft, CountFailure
<1>4. InOnePlace'
  BY DEF Safe, FlagTypes, PlaceTypes, InOnePlace, InHandWhere, OnlyCpal, ClosureAnswers,
    CountFailure
<1>5. RateFollowsRoute'
  BY DEF Safe, RateFollowsRoute, ActiveWhere, CountFailure
<1>6. InHandWhere'
  BY DEF Safe, FlagTypes, InHandWhere, CountFailure
<1>7. ClosureAnswers'
  BY DEF Safe, FlagTypes, ClosureAnswers, InHandWhere, InOnePlace, CountFailure
<1>8. OnlyCpal'
  BY DEF Safe, FlagTypes, OnlyCpal, InHandWhere, InOnePlace, CountFailure
<1>9. AttemptsLeft'
  BY DEF Safe, ValueTypes, AttemptsLeft, CountFailure
<1>10. ActiveWhere'
  BY DEF Safe, FlagTypes, ActiveWhere, CountFailure
<1> QED
  BY <1>1, <1>2, <1>3, <1>4, <1>5, <1>6, <1>7, <1>8, <1>9, <1>10 DEF Safe

LEMMA AudioRestsInv == ASSUME RecoveryInv, UNCHANGED audioVars PROVE RecoveryInv'
<1> SUFFICES ASSUME Safe PROVE Safe'
  BY SafeIsInv, SafeIsInvNext
<1>1. FlagTypes'
  BY DEF Safe, FlagTypes, audioVars
<1>2. PlaceTypes'
  BY DEF Safe, PlaceTypes, audioVars
<1>3. ValueTypes'
  BY Rates DEF Safe, ValueTypes, audioVars
<1>4. InOnePlace'
  BY DEF Safe, FlagTypes, PlaceTypes, InOnePlace, InHandWhere, OnlyCpal, ClosureAnswers,
    audioVars
<1>5. RateFollowsRoute'
  BY DEF Safe, RateFollowsRoute, ActiveWhere, audioVars
<1>6. InHandWhere'
  BY DEF Safe, FlagTypes, InHandWhere, audioVars
<1>7. ClosureAnswers'
  BY DEF Safe, FlagTypes, ClosureAnswers, InHandWhere, InOnePlace, audioVars
<1>8. OnlyCpal'
  BY DEF Safe, FlagTypes, OnlyCpal, InHandWhere, InOnePlace, audioVars
<1>9. AttemptsLeft'
  BY DEF Safe, ValueTypes, AttemptsLeft, audioVars
<1>10. ActiveWhere'
  BY DEF Safe, FlagTypes, ActiveWhere, audioVars
<1> QED
  BY <1>1, <1>2, <1>3, <1>4, <1>5, <1>6, <1>7, <1>8, <1>9, <1>10 DEF Safe

LEMMA RecoverStepInv == ASSUME RecoveryInv, RecoverStep PROVE RecoveryInv'
<1>1. CASE RecoverCannotStop \/ RecoverInactive \/ OpenRoute \/ OpenFails
  BY <1>1, RefusedInv, OpenInv
<1>2. CASE ActivateRoute \/ Adopt \/ CountFailure
  BY <1>2, ActivateInv, AdoptInv, CountFailureInv
<1>3. CASE \E late \in BOOLEAN : Recover(late) \/ ActivateFails(late) \/ TearDown(late)
  BY <1>3, RecoverInv, ActivateFailsInv, TearDownInv
<1> QED
  BY <1>1, <1>2, <1>3 DEF RecoverStep

LEMMA AudioNextInv == RecoveryInv /\ [AudioNext]_audioVars => RecoveryInv'
  BY WorldInv, PollInv, RecoverStepInv, AudioRestsInv DEF AudioNext

\* The graph, with every loop in it, survives every outage under CPAL, whichever steps of a
\* recovery fail and however late closures are dropped; under no back end is it in two places.
THEOREM ProcessorIsKept == AudioSpec => []OneProcessor
<1>1. RecoveryInv => OneProcessor
  BY DEF RecoveryInv
<1> QED
  BY StartedInv, AudioNextInv, <1>1, PTL DEF AudioSpec

\* The event loop never goes on with a live route and the rate of another one, whatever
\* routes come and go between and during the attempts.
THEOREM RateIsOfTheRoute == AudioSpec => []RateFollowsRoute
<1>1. RecoveryInv => RateFollowsRoute
  BY DEF RecoveryInv
<1> QED
  BY StartedInv, AudioNextInv, <1>1, PTL DEF AudioSpec

--------------------------------------------------------------------------
(* The session around it                                                   *)

Audio            == 11      \* the places of the phases in setup()
SynthAndBuffers  == 13
SignalProcessing == 21

USE DEF life, flags, stream, activation

LEMMA PhaseNames ==
  /\ Len(Phases) = 23 /\ Phases[Audio] = "Audio" /\ Phases[SynthAndBuffers] = "SynthAndBuffers"
  /\ Phases[SignalProcessing] = "SignalProcessing" /\ Phases[22] = "StreamersAndRings"
  /\ Phases[23] = "ProcessingElements"
  /\ \A i \in 1..23 : i # Audio => Phases[i] # "Audio"
  /\ \A i \in 1..23 : i # SignalProcessing => Phases[i] # "SignalProcessing"
  BY DEF Phases, Audio, SynthAndBuffers, SignalProcessing

\* The controls are the synthesizer's phase's, which comes after the audio and before the
\* signal processing.
LEMMA PhaseOrder ==
  \A i \in 1..23 : Phases[i] = "SynthAndBuffers" => i > Audio /\ ~(i > SignalProcessing)
  BY DEF Phases, Audio, SignalProcessing

Named == {Phases[i] : i \in 1..23}

LifeTypes ==
  /\ main \in {"setup", "activating", "probing", "rollback", "aborted", "session", "interfaces",
               "loop", "closing", "ended", "exited"}
  /\ step \in 1..23 /\ completed \in Seq(Named)
  /\ thread \in {"none", "activating", "ok", "failed"} /\ joined \in BOOLEAN

Quiet   == polling = "idle" /\ failures = 0 /\ retry = "none"
NoGraph == closure = "none" /\ ~retained /\ ~inHand /\ returning = "none" /\ ~active

\* Until SignalProcessing nothing holds the graph but `open`.
NotYet ==
  main = "setup" /\ step <= SignalProcessing =>
    /\ NoGraph /\ Quiet /\ thread = "none"
    /\ step > Audio => rate = Rate(route) /\ "audio" \in open
    /\ step > SynthAndBuffers => "controls" \in open

Activation ==
  main = "activating" =>
    /\ step = SignalProcessing /\ thread # "none" /\ ~joined
    /\ Quiet /\ "controls" \in open
    /\ thread # "failed" => rate = Rate(route)
    /\ thread = "activating" =>
         closure = "none" /\ ~retained /\ returning = "none" /\ inHand /\ ~active
    /\ thread = "ok" =>
         closure = "running" /\ ~retained /\ ~inHand /\ active
         /\ returning = (IF Cpal THEN "empty" ELSE "none")

\* From the join on, the invariant of a recovery holds; nothing polls before the loop.
Live == main \in {"probing", "session", "interfaces", "loop"}
        \/ (main = "setup" /\ step > SignalProcessing)

LiveAudio ==
  Live =>
    /\ RecoveryInv /\ thread = "none" /\ {"audio", "controls"} \subseteq open
    /\ main # "loop" => polling = "idle"
    /\ main = "probing" => step = SignalProcessing
    /\ main = "setup" /\ step = 22 =>
         completed # <<>> /\ completed[Len(completed)] = "SignalProcessing"

\* A thread that activates is waited for, or startup has been given up.
Strays ==
  /\ thread # "none" =>
       /\ "audio" \notin open
       /\ main = "activating" \/ (joined /\ main \in {"rollback", "aborted"})
  /\ thread \in {"activating", "failed"} => closure # "running"

\* A callback that runs can be stopped by the phase or the step that is still to come.
Served ==
  closure = "running" /\ thread = "none" =>
    /\ active /\ {"audio", "controls"} \subseteq open
    /\ main \notin {"activating", "aborted", "exited"}
    /\ main = "rollback" => completed # <<>> /\ completed[Len(completed)] = "SignalProcessing"
    /\ main = "closing" => step <= 4 \/ ~interfaces

SessionInv ==
  /\ AudioTypeOK /\ LifeTypes
  /\ NotYet /\ Activation /\ LiveAudio /\ Strays /\ Served

LEMMA PhaseAt ==
  ASSUME step \in 1..23
  PROVE  /\ Phase = "SignalProcessing" <=> step = SignalProcessing
         /\ Phase = "Audio" <=> step = Audio
         /\ step = SynthAndBuffers => Phase = "SynthAndBuffers"
         /\ step = 22 => Phase = "StreamersAndRings"
         /\ step = 23 => Phase = "ProcessingElements"
         /\ Phase \in Named
<1>1. Phase \in Named
  BY DEF Phase, Named
<1>2. \A i \in 1..23 : i # Audio => Phases[i] # "Audio"
  BY PhaseNames
<1>3. \A i \in 1..23 : i # SignalProcessing => Phases[i] # "SignalProcessing"
  BY PhaseNames
<1>4. Phase = Phases[step]
  BY DEF Phase
<1> QED
  BY <1>1, <1>2, <1>3, <1>4, PhaseNames

\* The next phase, or the session once the last one has started.
LEMMA Advanced ==
  ASSUME step \in 1..23, completed \in Seq(Named), Advance
  PROVE  /\ main' \in {"setup", "session"} /\ step' \in 1..23 /\ completed' \in Seq(Named)
         /\ step < 23 => main' = "setup" /\ step' = step + 1
         /\ step = SignalProcessing =>
              completed' # <<>> /\ completed'[Len(completed')] = "SignalProcessing"
         /\ step = 23 => main' = "session"
<1>1. Phase \in Named /\ (step = SignalProcessing => Phase = "SignalProcessing")
  BY PhaseAt
<1>2. CASE step = 23
  BY <1>2, PhaseNames DEF Advance, SignalProcessing
<1>3. CASE step # 23
  <2>1. /\ main' = "setup" /\ step' = step + 1
        /\ completed' = completed \/ completed' = Append(completed, Phase)
        /\ Phase \notin Config => completed' = Append(completed, Phase)
    BY <1>3, PhaseNames DEF Advance
  <2>2. Append(completed, Phase) \in Seq(Named)
    BY <1>1
  <2>3. Len(Append(completed, Phase)) = Len(completed) + 1
        /\ Append(completed, Phase)[Len(completed) + 1] = Phase
    BY <1>1
  <2>4. step = SignalProcessing => Phase \notin Config
    BY <1>1 DEF Config
  <2>5. completed' \in Seq(Named)
    BY <2>1, <2>2
  <2>6. step = SignalProcessing =>
          completed' # <<>> /\ completed'[Len(completed')] = "SignalProcessing"
    BY <1>1, <2>1, <2>3, <2>4
  <2> QED
    BY <1>3, <2>1, <2>5, <2>6
<1> QED
  BY <1>2, <1>3

\* An activation that has come to its end has left the graph where a recovery finds it.
LEMMA Activated == SessionInv /\ main = "activating" /\ thread = "ok" => RecoveryInv
<1> SUFFICES ASSUME SessionInv, main = "activating", thread = "ok" PROVE Safe
  BY SafeIsInv
<1> USE DEF SessionInv, Activation, Quiet
<1>1. FlagTypes /\ PlaceTypes /\ ValueTypes
  BY Types
<1>2. InOnePlace
  BY <1>1 DEF FlagTypes, InOnePlace
<1>3. RateFollowsRoute
  BY DEF RateFollowsRoute
<1>4. InHandWhere /\ AttemptsLeft
  BY DEF InHandWhere, AttemptsLeft
<1>5. ClosureAnswers /\ OnlyCpal /\ ActiveWhere
  BY DEF ClosureAnswers, OnlyCpal, ActiveWhere
<1> QED
  BY <1>1, <1>2, <1>3, <1>4, <1>5 DEF Safe

LEMMA AudioRests ==
  ASSUME AudioTypeOK, UNCHANGED audioVars
  PROVE  AudioTypeOK' /\ (RecoveryInv => RecoveryInv')
<1>1. FlagTypes'
  BY Types DEF audioVars, FlagTypes
<1>2. PlaceTypes'
  BY Types DEF audioVars, PlaceTypes
<1>3. ValueTypes'
  BY Types DEF audioVars, ValueTypes
<1>4. AudioTypeOK'
  BY <1>1, <1>2, <1>3, Types, PTL
<1> QED
  BY <1>4, AudioRestsInv

LEMMA TypesNext == FlagTypes' /\ PlaceTypes' /\ ValueTypes' => AudioTypeOK'
  BY Types, PTL

\* What rollback_resource does to the audio: nothing, unless it is asked for one of the audio
\* phases, and then no callback runs any more.
LEMMA RolledBack ==
  ASSUME AudioTypeOK, NEW p, NEW late \in BOOLEAN, RollbackResource(p, late)
  PROVE  /\ AudioTypeOK'
         /\ UNCHANGED <<inHand, polling, failures, retry, rate>>
         /\ closure' \in {closure, "none", "dropping"}
         /\ p \in {"Audio", "SignalProcessing"} /\ active /\ "audio" \in open =>
              closure' # "running"
         /\ p \notin {"Audio", "SignalProcessing"} =>
              UNCHANGED <<route, retained, closure, returning, active>>
<1> USE DEF RollbackResource, RemoveAudio, CloseDevices, Returned, Dropped
<1>1. FlagTypes'
  BY Types DEF FlagTypes
<1>2. PlaceTypes'
  BY Types DEF PlaceTypes
<1>3. ValueTypes'
  BY Types DEF ValueTypes
<1>4. closure' \in {closure, "none", "dropping"}
  BY Types DEF PlaceTypes
<1>5. p \in {"Audio", "SignalProcessing"} /\ active /\ "audio" \in open => closure' # "running"
  BY Types DEF PlaceTypes
<1>6. p \notin {"Audio", "SignalProcessing"} =>
        UNCHANGED <<route, retained, closure, returning, active>>
  OBVIOUS
<1> QED
  BY <1>1, <1>2, <1>3, <1>4, <1>5, <1>6, TypesNext

LEMMA JoinInv == ASSUME SessionInv, JoinActivation PROVE SessionInv'
<1>1. AudioTypeOK'
  BY AudioRests DEF SessionInv, JoinActivation
<1>2. LifeTypes'
  BY DEF SessionInv, LifeTypes, JoinActivation
<1>3. NotYet'
  BY DEF SessionInv, LifeTypes, NotYet, NoGraph, Quiet, JoinActivation, audioVars
<1>4. Activation'
  BY DEF SessionInv, LifeTypes, Activation, Quiet, JoinActivation, audioVars
<1>5. LiveAudio'
  BY AudioRests, Activated DEF SessionInv, LifeTypes, LiveAudio, Live, JoinActivation,
    audioVars, Activation, Quiet
<1>6. Strays'
  BY DEF SessionInv, LifeTypes, Strays, JoinActivation, audioVars
<1>7. Served'
  BY DEF SessionInv, LifeTypes, Served, Strays, JoinActivation, audioVars, Activation
<1> QED
  BY <1>1, <1>2, <1>3, <1>4, <1>5, <1>6, <1>7 DEF SessionInv

LEMMA ProbeEndsInv == ASSUME SessionInv, ProbeEnds PROVE SessionInv'
<1>1. AudioTypeOK'
  BY AudioRests, Advanced DEF SessionInv, ProbeEnds, LifeTypes, LiveAudio, Live,
    SignalProcessing
<1>2. LifeTypes'
  BY Advanced DEF SessionInv, LifeTypes, ProbeEnds, LiveAudio, Live, SignalProcessing
<1>3. NotYet'
  BY Advanced DEF SessionInv, LifeTypes, NotYet, NoGraph, Quiet, ProbeEnds, LiveAudio, Live,
    SignalProcessing, audioVars
<1>4. Activation'
  BY Advanced DEF SessionInv, LifeTypes, Activation, Quiet, ProbeEnds, LiveAudio, Live,
    SignalProcessing, audioVars
<1>5. LiveAudio'
  BY AudioRests, Advanced DEF SessionInv, LifeTypes, LiveAudio, Live, ProbeEnds,
    SignalProcessing, audioVars
<1>6. Strays'
  BY Advanced DEF SessionInv, LifeTypes, Strays, ProbeEnds, LiveAudio, Live, SignalProcessing,
    audioVars
<1>7. Served'
  BY Advanced DEF SessionInv, LifeTypes, Served, Strays, ProbeEnds, LiveAudio, Live,
    SignalProcessing, audioVars
<1> QED
  BY <1>1, <1>2, <1>3, <1>4, <1>5, <1>6, <1>7 DEF SessionInv

LEMMA RollbackEndsInv == ASSUME SessionInv, RollbackEnds PROVE SessionInv'
<1>1. AudioTypeOK'
  BY AudioRests DEF SessionInv, RollbackEnds
<1>2. LifeTypes'
  BY DEF SessionInv, LifeTypes, RollbackEnds
<1>3. NotYet'
  BY DEF SessionInv, LifeTypes, NotYet, NoGraph, Quiet, RollbackEnds, audioVars
<1>4. Activation'
  BY DEF SessionInv, LifeTypes, Activation, Quiet, RollbackEnds, audioVars
<1>5. LiveAudio'
  BY AudioRests DEF SessionInv, LifeTypes, LiveAudio, Live, RollbackEnds, audioVars
<1>6. Strays'
  BY DEF SessionInv, LifeTypes, Strays, RollbackEnds, audioVars
<1>7. Served'
  BY DEF SessionInv, LifeTypes, Served, Strays, RollbackEnds, audioVars
<1> QED
  BY <1>1, <1>2, <1>3, <1>4, <1>5, <1>6, <1>7 DEF SessionInv

LEMMA StartSessionInv == ASSUME SessionInv, StartSession PROVE SessionInv'
<1>1. AudioTypeOK'
  BY AudioRests DEF SessionInv, StartSession, Closing
<1>2. LifeTypes'
  <2>1. step' = step \/ step' = 1
    BY DEF StartSession, Closing
  <2>2. step \in 1..23
    BY DEF SessionInv, LifeTypes
  <2>3. main' \in {"interfaces", "closing"} /\ UNCHANGED <<completed, thread, joined>>
    BY DEF StartSession, Closing, activation
  <2>4. step' \in 1..23
    BY <2>1, <2>2
  <2> QED
    BY <2>3, <2>4 DEF SessionInv, LifeTypes
<1>3. NotYet'
  BY DEF SessionInv, LifeTypes, NotYet, NoGraph, Quiet, StartSession, Closing, audioVars
<1>4. Activation'
  BY DEF SessionInv, LifeTypes, Activation, Quiet, StartSession, Closing, audioVars
<1>5. LiveAudio'
  BY AudioRests DEF SessionInv, LifeTypes, LiveAudio, Live, StartSession, Closing, audioVars
<1>6. Strays'
  BY DEF SessionInv, LifeTypes, Strays, StartSession, Closing, audioVars
<1>7. Served'
  BY DEF SessionInv, LifeTypes, Served, Strays, StartSession, Closing, audioVars
<1> QED
  BY <1>1, <1>2, <1>3, <1>4, <1>5, <1>6, <1>7 DEF SessionInv

LEMMA StartInterfacesInv == ASSUME SessionInv, StartInterfaces PROVE SessionInv'
<1>1. AudioTypeOK'
  BY AudioRests DEF SessionInv, StartInterfaces, Closing
<1>2. LifeTypes'
  <2>1. step' = step \/ step' = 1
    BY DEF StartInterfaces, Closing
  <2>2. step \in 1..23
    BY DEF SessionInv, LifeTypes
  <2>3. main' \in {"loop", "closing"} /\ UNCHANGED <<completed, thread, joined>>
    BY DEF StartInterfaces, Closing, activation
  <2>4. step' \in 1..23
    BY <2>1, <2>2
  <2> QED
    BY <2>3, <2>4 DEF SessionInv, LifeTypes
<1>3. NotYet'
  BY DEF SessionInv, LifeTypes, NotYet, NoGraph, Quiet, StartInterfaces, Closing, audioVars
<1>4. Activation'
  BY DEF SessionInv, LifeTypes, Activation, Quiet, StartInterfaces, Closing, audioVars
<1>5. LiveAudio'
  BY AudioRests DEF SessionInv, LifeTypes, LiveAudio, Live, StartInterfaces, Closing,
    audioVars
<1>6. Strays'
  BY DEF SessionInv, LifeTypes, Strays, StartInterfaces, Closing, audioVars
<1>7. Served'
  BY DEF SessionInv, LifeTypes, Served, Strays, StartInterfaces, Closing, audioVars
<1> QED
  BY <1>1, <1>2, <1>3, <1>4, <1>5, <1>6, <1>7 DEF SessionInv

LEMMA AbandonInv == ASSUME SessionInv, AbandonActivation PROVE SessionInv'
<1>1. AudioTypeOK'
  BY AudioRests DEF SessionInv, AbandonActivation
<1>2. LifeTypes'
  BY DEF SessionInv, LifeTypes, AbandonActivation
<1>3. NotYet'
  BY DEF SessionInv, LifeTypes, NotYet, NoGraph, Quiet, AbandonActivation, audioVars
<1>4. Activation'
  BY DEF SessionInv, LifeTypes, Activation, Quiet, AbandonActivation, audioVars
<1>5. LiveAudio'
  BY AudioRests DEF SessionInv, LifeTypes, LiveAudio, Live, AbandonActivation, audioVars
<1>6. Strays'
  BY DEF SessionInv, LifeTypes, Strays, AbandonActivation, audioVars
<1>7. Served'
  BY DEF SessionInv, LifeTypes, Served, Strays, AbandonActivation, audioVars
<1> QED
  BY <1>1, <1>2, <1>3, <1>4, <1>5, <1>6, <1>7 DEF SessionInv

LEMMA LoopOnInv ==
  ASSUME SessionInv, LeaveLoop \/ StartStream \/ StopStream \/ StreamDied \/ GiveUp
  PROVE  SessionInv'
<1>1. AudioTypeOK'
  BY AudioRests DEF SessionInv, LeaveLoop, StartStream, StopStream, StreamDied, GiveUp,
    InLoop, Closing
<1>2. LifeTypes'
  <2>1. step' = step \/ step' = 1
    BY DEF LeaveLoop, StartStream, StopStream, StreamDied, GiveUp, InLoop, Closing
  <2>2. step \in 1..23
    BY DEF SessionInv, LifeTypes
  <2>3. main' \in {main, "closing"} /\ UNCHANGED <<completed, thread, joined>>
    BY DEF LeaveLoop, StartStream, StopStream, StreamDied, GiveUp, InLoop, Closing, activation
  <2>4. step' \in 1..23
    BY <2>1, <2>2
  <2> QED
    BY <2>3, <2>4 DEF SessionInv, LifeTypes
<1>3. NotYet'
  BY DEF SessionInv, LifeTypes, NotYet, NoGraph, Quiet, LeaveLoop, StartStream, StopStream,
    StreamDied, GiveUp, InLoop, Closing, audioVars
<1>4. Activation'
  BY DEF SessionInv, LifeTypes, Activation, Quiet, LeaveLoop, StartStream, StopStream,
    StreamDied, GiveUp, InLoop, Closing, audioVars
<1>5. LiveAudio'
  BY AudioRests DEF SessionInv, LifeTypes, LiveAudio, Live, LeaveLoop, StartStream,
    StopStream, StreamDied, GiveUp, InLoop, Closing, audioVars
<1>6. Strays'
  BY DEF SessionInv, LifeTypes, Strays, LeaveLoop, StartStream, StopStream, StreamDied,
    GiveUp, InLoop, Closing, audioVars
<1>7. Served'
  BY DEF SessionInv, LifeTypes, Served, Strays, LeaveLoop, StartStream, StopStream,
    StreamDied, GiveUp, InLoop, Closing, audioVars
<1> QED
  BY <1>1, <1>2, <1>3, <1>4, <1>5, <1>6, <1>7 DEF SessionInv

LEMMA CloseEndsInv == ASSUME SessionInv, CloseEnds PROVE SessionInv'
<1>1. AudioTypeOK'
  BY AudioRests DEF SessionInv, CloseEnds, Removes
<1>2. LifeTypes'
  BY DEF SessionInv, LifeTypes, CloseEnds, Removes
<1>3. NotYet'
  BY DEF SessionInv, LifeTypes, NotYet, NoGraph, Quiet, CloseEnds, Removes, audioVars
<1>4. Activation'
  BY DEF SessionInv, LifeTypes, Activation, Quiet, CloseEnds, Removes, audioVars
<1>5. LiveAudio'
  BY AudioRests DEF SessionInv, LifeTypes, LiveAudio, Live, CloseEnds, Removes, audioVars
<1>6. Strays'
  BY DEF SessionInv, LifeTypes, Strays, CloseEnds, Removes, audioVars
<1>7. Served'
  BY DEF SessionInv, LifeTypes, Served, Strays, CloseEnds, Removes, audioVars
<1> QED
  BY <1>1, <1>2, <1>3, <1>4, <1>5, <1>6, <1>7 DEF SessionInv

LEMMA SessionRestsInv == ASSUME SessionInv, UNCHANGED sessionVars PROVE SessionInv'
<1>1. AudioTypeOK'
  BY AudioRests DEF SessionInv, sessionVars
<1>2. LifeTypes'
  BY DEF SessionInv, LifeTypes, sessionVars
<1>3. NotYet'
  BY DEF SessionInv, LifeTypes, NotYet, NoGraph, Quiet, sessionVars, audioVars
<1>4. Activation'
  BY DEF SessionInv, LifeTypes, Activation, Quiet, sessionVars, audioVars
<1>5. LiveAudio'
  BY AudioRests DEF SessionInv, LifeTypes, LiveAudio, Live, sessionVars, audioVars
<1>6. Strays'
  BY DEF SessionInv, LifeTypes, Strays, sessionVars, audioVars
<1>7. Served'
  BY DEF SessionInv, LifeTypes, Served, Strays, sessionVars, audioVars
<1> QED
  BY <1>1, <1>2, <1>3, <1>4, <1>5, <1>6, <1>7 DEF SessionInv

LEMMA ThreadActivatesInv == ASSUME SessionInv, ThreadActivates PROVE SessionInv'
<1>1. AudioTypeOK'
  <2>1. FlagTypes'
    BY Types DEF SessionInv, FlagTypes, ThreadActivates, RunStreams
  <2>2. PlaceTypes'
    BY Types DEF SessionInv, PlaceTypes, ThreadActivates, RunStreams
  <2>3. ValueTypes'
    BY Types, Rates DEF SessionInv, ValueTypes, ThreadActivates, RunStreams
  <2> QED
    BY <2>1, <2>2, <2>3, TypesNext
<1>2. LifeTypes'
  BY DEF SessionInv, LifeTypes, ThreadActivates, RunStreams
<1>3. NotYet'
  BY DEF SessionInv, LifeTypes, NotYet, NoGraph, Quiet, ThreadActivates, RunStreams
<1>4. Activation'
  BY DEF SessionInv, LifeTypes, Activation, Quiet, ThreadActivates, RunStreams
<1>5. LiveAudio'
  BY DEF SessionInv, LifeTypes, LiveAudio, Live, ThreadActivates, RunStreams
<1>6. Strays'
  BY DEF SessionInv, LifeTypes, Strays, ThreadActivates, RunStreams
<1>7. Served'
  BY DEF SessionInv, LifeTypes, Served, Strays, ThreadActivates, RunStreams
<1> QED
  BY <1>1, <1>2, <1>3, <1>4, <1>5, <1>6, <1>7 DEF SessionInv

LEMMA ThreadFailsInv == ASSUME SessionInv, NEW late \in BOOLEAN, ThreadFails(late) PROVE SessionInv'
<1>1. AudioTypeOK'
  <2>1. FlagTypes'
    BY Types DEF SessionInv, FlagTypes, ThreadFails, KeepProcessor
  <2>2. PlaceTypes'
    BY Types DEF SessionInv, PlaceTypes, ThreadFails, KeepProcessor
  <2>3. ValueTypes'
    BY Types, Rates DEF SessionInv, ValueTypes, ThreadFails, KeepProcessor
  <2> QED
    BY <2>1, <2>2, <2>3, TypesNext
<1>2. LifeTypes'
  BY DEF SessionInv, LifeTypes, ThreadFails, KeepProcessor
<1>3. NotYet'
  BY DEF SessionInv, LifeTypes, NotYet, NoGraph, Quiet, ThreadFails, KeepProcessor
<1>4. Activation'
  BY DEF SessionInv, LifeTypes, Activation, Quiet, ThreadFails, KeepProcessor
<1>5. LiveAudio'
  BY DEF SessionInv, LifeTypes, LiveAudio, Live, ThreadFails, KeepProcessor
<1>6. Strays'
  BY DEF SessionInv, LifeTypes, Strays, ThreadFails, KeepProcessor
<1>7. Served'
  BY DEF SessionInv, LifeTypes, Served, Strays, ThreadFails, KeepProcessor
<1> QED
  BY <1>1, <1>2, <1>3, <1>4, <1>5, <1>6, <1>7 DEF SessionInv

LEMMA StrayEndsInv == ASSUME SessionInv, NEW late \in BOOLEAN, StrayEnds(late) PROVE SessionInv'
<1>1. AudioTypeOK'
  <2>1. FlagTypes'
    BY Types DEF SessionInv, FlagTypes, StrayEnds, Dropped
  <2>2. PlaceTypes'
    BY Types DEF SessionInv, PlaceTypes, StrayEnds, Dropped
  <2>3. ValueTypes'
    BY Types, Rates DEF SessionInv, ValueTypes, StrayEnds, Dropped
  <2> QED
    BY <2>1, <2>2, <2>3, TypesNext
<1>2. LifeTypes'
  BY DEF SessionInv, LifeTypes, StrayEnds, Dropped
<1>3. NotYet'
  BY DEF SessionInv, LifeTypes, NotYet, NoGraph, Quiet, StrayEnds, Dropped
<1>4. Activation'
  BY DEF SessionInv, LifeTypes, Activation, Quiet, StrayEnds, Dropped
<1>5. LiveAudio'
  BY DEF SessionInv, LifeTypes, LiveAudio, Live, StrayEnds, Dropped
<1>6. Strays'
  BY DEF SessionInv, LifeTypes, Strays, StrayEnds, Dropped
<1>7. Served'
  BY DEF SessionInv, LifeTypes, Served, Strays, StrayEnds, Dropped
<1> QED
  BY <1>1, <1>2, <1>3, <1>4, <1>5, <1>6, <1>7 DEF SessionInv

LEMMA StartActivationInv == ASSUME SessionInv, StartActivation PROVE SessionInv'
<1>1. AudioTypeOK'
  <2>1. FlagTypes'
    BY PhaseAt, Types DEF SessionInv, FlagTypes, StartActivation, SignalProcessing, Audio,
      SynthAndBuffers
  <2>2. PlaceTypes'
    BY PhaseAt, Types DEF SessionInv, PlaceTypes, StartActivation, SignalProcessing, Audio,
      SynthAndBuffers
  <2>3. ValueTypes'
    BY PhaseAt, Types, Rates DEF SessionInv, ValueTypes, StartActivation, SignalProcessing,
      Audio, SynthAndBuffers
  <2> QED
    BY <2>1, <2>2, <2>3, TypesNext
<1>2. LifeTypes'
  BY PhaseAt DEF SessionInv, LifeTypes, StartActivation, SignalProcessing, Audio,
    SynthAndBuffers
<1>3. NotYet'
  BY PhaseAt DEF SessionInv, LifeTypes, NotYet, NoGraph, Quiet, StartActivation,
    SignalProcessing, Audio, SynthAndBuffers
<1>4. Activation'
  BY PhaseAt DEF SessionInv, LifeTypes, Activation, Quiet, StartActivation, SignalProcessing,
    Audio, SynthAndBuffers, NotYet, NoGraph
<1>5. LiveAudio'
  BY PhaseAt DEF SessionInv, LifeTypes, LiveAudio, Live, StartActivation, SignalProcessing,
    Audio, SynthAndBuffers
<1>6. Strays'
  BY PhaseAt DEF SessionInv, LifeTypes, Strays, StartActivation, SignalProcessing, Audio,
    SynthAndBuffers, NotYet, NoGraph
<1>7. Served'
  BY PhaseAt DEF SessionInv, LifeTypes, Served, Strays, StartActivation, SignalProcessing,
    Audio, SynthAndBuffers
<1> QED
  BY <1>1, <1>2, <1>3, <1>4, <1>5, <1>6, <1>7 DEF SessionInv

LEMMA SpawnFailsInv == ASSUME SessionInv, SpawnFails PROVE SessionInv'
<1>1. AudioTypeOK'
  <2>1. FlagTypes'
    BY PhaseAt, Types DEF SessionInv, FlagTypes, SpawnFails, SignalProcessing
  <2>2. PlaceTypes'
    BY PhaseAt, Types DEF SessionInv, PlaceTypes, SpawnFails, SignalProcessing
  <2>3. ValueTypes'
    BY PhaseAt, Types, Rates DEF SessionInv, ValueTypes, SpawnFails, SignalProcessing
  <2> QED
    BY <2>1, <2>2, <2>3, TypesNext
<1>2. LifeTypes'
  BY PhaseAt DEF SessionInv, LifeTypes, SpawnFails, SignalProcessing
<1>3. NotYet'
  BY PhaseAt DEF SessionInv, LifeTypes, NotYet, NoGraph, Quiet, SpawnFails, SignalProcessing
<1>4. Activation'
  BY PhaseAt DEF SessionInv, LifeTypes, Activation, Quiet, SpawnFails, SignalProcessing
<1>5. LiveAudio'
  BY PhaseAt DEF SessionInv, LifeTypes, LiveAudio, Live, SpawnFails, SignalProcessing
<1>6. Strays'
  BY PhaseAt DEF SessionInv, LifeTypes, Strays, SpawnFails, SignalProcessing, NotYet
<1>7. Served'
  BY PhaseAt DEF SessionInv, LifeTypes, Served, Strays, SpawnFails, SignalProcessing, NotYet,
    NoGraph
<1> QED
  BY <1>1, <1>2, <1>3, <1>4, <1>5, <1>6, <1>7 DEF SessionInv

LEMMA ExitInv == ASSUME SessionInv, Exit PROVE SessionInv'
<1>1. AudioTypeOK'
  <2>1. FlagTypes'
    BY Types DEF SessionInv, FlagTypes, Exit
  <2>2. PlaceTypes'
    BY Types DEF SessionInv, PlaceTypes, Exit
  <2>3. ValueTypes'
    BY Types, Rates DEF SessionInv, ValueTypes, Exit
  <2> QED
    BY <2>1, <2>2, <2>3, TypesNext
<1>2. LifeTypes'
  BY DEF SessionInv, LifeTypes, Exit
<1>3. NotYet'
  BY DEF SessionInv, LifeTypes, NotYet, NoGraph, Quiet, Exit
<1>4. Activation'
  BY DEF SessionInv, LifeTypes, Activation, Quiet, Exit
<1>5. LiveAudio'
  BY DEF SessionInv, LifeTypes, LiveAudio, Live, Exit
<1>6. Strays'
  BY DEF SessionInv, LifeTypes, Strays, Exit
<1>7. Served'
  BY DEF SessionInv, LifeTypes, Served, Strays, Exit
<1> QED
  BY <1>1, <1>2, <1>3, <1>4, <1>5, <1>6, <1>7 DEF SessionInv

LEMMA AroundInv == ASSUME SessionInv, Around PROVE SessionInv'
<1>1. AudioTypeOK'
  <2>1. FlagTypes'
    BY Types DEF SessionInv, FlagTypes, Around, World, ChangeDevices, StreamError, ReturnLate,
      BackoffEnds
  <2>2. PlaceTypes'
    BY Types DEF SessionInv, PlaceTypes, Around, World, ChangeDevices, StreamError, ReturnLate,
      BackoffEnds
  <2>3. ValueTypes'
    BY Types, Rates DEF SessionInv, ValueTypes, Around, World, ChangeDevices, StreamError,
      ReturnLate, BackoffEnds
  <2> QED
    BY <2>1, <2>2, <2>3, TypesNext
<1>2. LifeTypes'
  BY DEF SessionInv, LifeTypes, Around, World, ChangeDevices, StreamError, ReturnLate,
    BackoffEnds
<1>3. NotYet'
  BY DEF SessionInv, LifeTypes, NotYet, NoGraph, Quiet, Around, World, ChangeDevices,
    StreamError, ReturnLate, BackoffEnds
<1>4. Activation'
  BY DEF SessionInv, LifeTypes, Activation, Quiet, Around, World, ChangeDevices, StreamError,
    ReturnLate, BackoffEnds
<1>5. LiveAudio'
  BY WorldInv DEF SessionInv, LifeTypes, LiveAudio, Live, Around, World, ChangeDevices,
    StreamError, ReturnLate, BackoffEnds
<1>6. Strays'
  BY DEF SessionInv, LifeTypes, Strays, Around, World, ChangeDevices, StreamError, ReturnLate,
    BackoffEnds
<1>7. Served'
  BY DEF SessionInv, LifeTypes, Served, Strays, Around, World, ChangeDevices, StreamError,
    ReturnLate, BackoffEnds
<1> QED
  BY <1>1, <1>2, <1>3, <1>4, <1>5, <1>6, <1>7 DEF SessionInv

\* A poll or a step of a recovery, in the loop.
LEMMA LoopInv ==
  ASSUME SessionInv, main = "loop", RecoveryInv',
         UNCHANGED <<life, open, flags, stream, activation>>
  PROVE  SessionInv'
<1>1. AudioTypeOK'
  BY DEF RecoveryInv
<1>2. LifeTypes'
  BY DEF SessionInv, LifeTypes
<1>3. NotYet' /\ Activation'
  BY DEF NotYet, Activation
<1>4. LiveAudio'
  BY DEF SessionInv, LiveAudio, Live
<1>5. Strays'
  BY DEF SessionInv, LiveAudio, Live, Strays
<1>6. Served'
  BY DEF SessionInv, LiveAudio, Live, Served, RecoveryInv, ActiveWhere
<1> QED
  BY <1>1, <1>2, <1>3, <1>4, <1>5, <1>6 DEF SessionInv

LEMMA LoopPollInv == ASSUME SessionInv, LoopPoll PROVE SessionInv'
<1>1. RecoveryInv
  BY DEF SessionInv, LiveAudio, Live, LoopPoll
<1>2. RecoveryInv'
  BY <1>1, PollInv DEF LoopPoll
<1> QED
  BY <1>2, LoopInv DEF LoopPoll

LEMMA LoopRecoversInv == ASSUME SessionInv, LoopRecovers PROVE SessionInv'
<1>1. RecoveryInv
  BY DEF SessionInv, LiveAudio, Live, LoopRecovers
<1>2. RecoveryInv'
  BY <1>1, RecoverStepInv DEF LoopRecovers
<1> QED
  BY <1>2, LoopInv DEF LoopRecovers

LEMMA RemovesLittle ==
  ASSUME NEW p
  PROVE  /\ p # "Audio" => "audio" \notin Removes(p)
         /\ p \notin {"Audio", "CoreGraph"} => "controls" \notin Removes(p)
  BY DEF Removes

LEMMA ProbeFailsInv == ASSUME SessionInv, NEW late \in BOOLEAN, ProbeFails(late) PROVE SessionInv'
<1>1. AudioTypeOK'
  BY RolledBack DEF SessionInv, ProbeFails
<1>2. LifeTypes'
  BY RolledBack DEF SessionInv, LifeTypes, ProbeFails
<1>3. NotYet'
  BY RolledBack DEF SessionInv, LifeTypes, NotYet, NoGraph, Quiet, ProbeFails
<1>4. Activation'
  BY RolledBack DEF SessionInv, LifeTypes, Activation, Quiet, ProbeFails
<1>5. LiveAudio'
  BY RolledBack DEF SessionInv, LifeTypes, LiveAudio, Live, ProbeFails
<1>6. Strays'
  BY RolledBack DEF SessionInv, LifeTypes, Strays, ProbeFails, LiveAudio, Live
<1>7. Served'
  BY RolledBack DEF SessionInv, LifeTypes, Served, Strays, ProbeFails, LiveAudio, Live
<1> QED
  BY <1>1, <1>2, <1>3, <1>4, <1>5, <1>6, <1>7 DEF SessionInv

LEMMA RollbackStepInv ==
  ASSUME SessionInv, NEW late \in BOOLEAN, RollbackStep(late)
  PROVE  SessionInv'
<1>1. AudioTypeOK'
  BY RolledBack DEF SessionInv, RollbackStep
<1>2. LifeTypes'
  BY DEF SessionInv, LifeTypes, RollbackStep
<1>3. NotYet'
  BY DEF SessionInv, LifeTypes, NotYet, NoGraph, Quiet, RollbackStep, RollbackResource
<1>4. Activation'
  BY DEF SessionInv, LifeTypes, Activation, Quiet, RollbackStep, RollbackResource
<1>5. LiveAudio'
  BY DEF SessionInv, LifeTypes, LiveAudio, Live, RollbackStep, RollbackResource
<1>6. Strays'
  BY RolledBack DEF SessionInv, LifeTypes, Strays, RollbackStep, RollbackResource
<1>7. Served'
  BY RolledBack DEF SessionInv, LifeTypes, Served, Strays, RollbackStep, RollbackResource
<1> QED
  BY <1>1, <1>2, <1>3, <1>4, <1>5, <1>6, <1>7 DEF SessionInv

LEMMA StartFailsInv == ASSUME SessionInv, NEW late \in BOOLEAN, StartFails(late) PROVE SessionInv'
<1>1. AudioTypeOK'
  BY RolledBack DEF SessionInv, StartFails
<1>2. LifeTypes'
  BY DEF SessionInv, LifeTypes, StartFails
<1>3. NotYet'
  BY DEF SessionInv, LifeTypes, NotYet, NoGraph, Quiet, StartFails
<1>4. Activation'
  BY DEF SessionInv, LifeTypes, Activation, Quiet, StartFails
<1>5. LiveAudio'
  BY DEF SessionInv, LifeTypes, LiveAudio, Live, StartFails
<1>6. Strays'
  BY DEF SessionInv, LifeTypes, Strays, StartFails
<1>7. Served'
  <2>1. step \in 1..23 /\ step # SignalProcessing /\ step # 23
    BY PhaseAt DEF SessionInv, LifeTypes, StartFails, Fallible, Config
  <2>2. CASE step < SignalProcessing
    <3>1. closure = "none"
      BY <2>1, <2>2 DEF SessionInv, NotYet, NoGraph, StartFails, SignalProcessing
    <3>2. closure' # "running"
      BY <3>1, RolledBack DEF SessionInv, StartFails
    <3> QED
      BY <3>2 DEF Served
  <2>3. CASE step = 22
    <3>1. Phase = "StreamersAndRings"
      BY <2>1, <2>3, PhaseAt
    <3>2. /\ {"audio", "controls"} \subseteq open /\ RecoveryInv
          /\ completed # <<>> /\ completed[Len(completed)] = "SignalProcessing"
      BY <2>3 DEF SessionInv, LiveAudio, Live, StartFails, SignalProcessing
    <3>3. {"audio", "controls"} \subseteq open' /\ active' = active /\ closure' = closure
      BY <3>1, <3>2, RolledBack, RemovesLittle DEF SessionInv, StartFails, RollbackResource
    <3> QED
      BY <3>2, <3>3 DEF StartFails, Served, RecoveryInv, ActiveWhere
  <2> QED
    BY <2>1, <2>2, <2>3 DEF SignalProcessing
<1> QED
  BY <1>1, <1>2, <1>3, <1>4, <1>5, <1>6, <1>7 DEF SessionInv

LEMMA CloseStepInv == ASSUME SessionInv, NEW late \in BOOLEAN, CloseStep(late) PROVE SessionInv'
<1>1. AudioTypeOK'
  BY RolledBack, AudioRests DEF SessionInv, CloseStep
<1>2. LifeTypes'
  <2>1. step' \in 1..23
    BY DEF SessionInv, LifeTypes, CloseStep, Order
  <2> QED
    BY <2>1 DEF SessionInv, LifeTypes, CloseStep
<1>3. NotYet'
  BY DEF SessionInv, LifeTypes, NotYet, NoGraph, Quiet, CloseStep, RollbackResource
<1>4. Activation'
  BY DEF SessionInv, LifeTypes, Activation, Quiet, CloseStep, RollbackResource
<1>5. LiveAudio'
  BY DEF SessionInv, LifeTypes, LiveAudio, Live, CloseStep, RollbackResource
<1>6. Strays'
  BY DEF SessionInv, LifeTypes, Strays, CloseStep, RollbackResource
<1>7. Served'
  <2>1. CASE ~interfaces
    BY <2>1 DEF SessionInv, Served, CloseStep, audioVars
  <2>2. CASE interfaces /\ step = 4
    <3>1. RollbackResource("Audio", late)
      BY <2>2 DEF CloseStep, Order
    <3>2. closure' # "running" \/ thread # "none"
      BY <3>1, RolledBack DEF SessionInv, Served
    <3> QED
      BY <3>2 DEF Served, CloseStep
  <2>3. CASE interfaces /\ step # 4
    <3>1. /\ step' \in 1..4 /\ Order[step] \in {"Video", "InputAndMidi"}
          /\ RollbackResource(Order[step], late)
      BY <2>3 DEF SessionInv, LifeTypes, CloseStep, Order
    <3>2. UNCHANGED <<closure, active>> /\ open' = open \ Removes(Order[step])
      BY <3>1, RolledBack DEF SessionInv, RollbackResource
    <3>3. "audio" \notin Removes(Order[step]) /\ "controls" \notin Removes(Order[step])
      BY <3>1, RemovesLittle
    <3> QED
      BY <3>1, <3>2, <3>3 DEF SessionInv, Served, CloseStep
  <2> QED
    BY <2>1, <2>2, <2>3
<1> QED
  BY <1>1, <1>2, <1>3, <1>4, <1>5, <1>6, <1>7 DEF SessionInv

LEMMA PhaseStarts ==
  ASSUME SessionInv, StartPhase
  PROVE  /\ step \in 1..23 /\ step # SignalProcessing /\ open \subseteq open'
         /\ step = Audio => route' = system /\ rate' = Rate(system) /\ "audio" \in open'
         /\ step = SynthAndBuffers => "controls" \in open'
         /\ step # Audio => UNCHANGED audioVars
         /\ step = 23 => main' = "session"
         /\ step < 23 => main' = "setup" /\ step' = step + 1
<1>1. step \in 1..23 /\ completed \in Seq(Named)
  BY DEF SessionInv, LifeTypes
<1>2. step = 23 => main' = "session"
  BY <1>1, Advanced DEF StartPhase
<1>3. step < 23 => main' = "setup" /\ step' = step + 1
  BY <1>1, Advanced DEF StartPhase
<1>4. step # SignalProcessing
  BY <1>1, PhaseAt DEF StartPhase
<1>5. step # Audio => UNCHANGED audioVars
  BY <1>1, PhaseAt DEF StartPhase, audioVars
<1>6. step = Audio => route' = system /\ rate' = Rate(system) /\ open' = open \cup Creates("Audio")
  BY <1>1, PhaseAt DEF StartPhase, OpenDevices
<1>7. step = SynthAndBuffers => open' = open \cup Creates("SynthAndBuffers")
  BY <1>1, PhaseAt DEF StartPhase
<1>8. /\ open \subseteq open'
      /\ "audio" \in Creates("Audio") /\ "controls" \in Creates("SynthAndBuffers")
  BY DEF StartPhase, Creates
<1> QED
  BY <1>1, <1>2, <1>3, <1>4, <1>5, <1>6, <1>7, <1>8

LEMMA StartPhaseInv == ASSUME SessionInv, StartPhase PROVE SessionInv'
<1>1. AudioTypeOK'
  <2>1. CASE step = Audio
    <3>1. FlagTypes'
      BY Types DEF SessionInv, FlagTypes, StartPhase, OpenDevices
    <3>2. PlaceTypes'
      BY Types DEF SessionInv, PlaceTypes, StartPhase
    <3>3. ValueTypes'
      BY <2>1, Types, Rates, PhaseStarts DEF SessionInv, ValueTypes, StartPhase
    <3> QED
      BY <3>1, <3>2, <3>3, TypesNext
  <2>2. CASE step # Audio
    BY <2>2, PhaseStarts, AudioRests DEF SessionInv
  <2> QED
    BY <2>1, <2>2
<1>2. LifeTypes'
  BY Advanced DEF SessionInv, LifeTypes, StartPhase
<1>3. NotYet'
  <2> SUFFICES ASSUME main' = "setup", step' <= SignalProcessing PROVE NotYet'
    BY DEF NotYet
  <2>1. step \in 1..20 /\ step' = step + 1 /\ main = "setup"
    BY PhaseStarts DEF SessionInv, LifeTypes, StartPhase, SignalProcessing
  <2>2. NoGraph' /\ Quiet' /\ thread' = "none"
    BY <2>1 DEF SessionInv, NotYet, NoGraph, Quiet, StartPhase, SignalProcessing
  <2>3. step' > Audio => rate' = Rate(route') /\ "audio" \in open'
    <3>1. CASE step = Audio
      BY <3>1, PhaseStarts
    <3>2. CASE step # Audio
      BY <2>1, <3>2, PhaseStarts DEF SessionInv, NotYet, audioVars, SignalProcessing, Audio
    <3> QED
      BY <3>1, <3>2
  <2>4. step' > SynthAndBuffers => "controls" \in open'
    BY <2>1, PhaseStarts DEF SessionInv, NotYet, SignalProcessing, SynthAndBuffers
  <2> QED
    BY <2>2, <2>3, <2>4 DEF NotYet, Rate
<1>4. Activation'
  <2>1. main' # "activating"
    BY PhaseStarts DEF SessionInv, LifeTypes, StartPhase
  <2> QED
    BY <2>1 DEF Activation
<1>5. LiveAudio'
  <2> SUFFICES ASSUME Live' PROVE LiveAudio'
    BY DEF LiveAudio
  <2>1. step \in {22, 23} /\ main = "setup" /\ main' \in {"setup", "session"}
    BY PhaseStarts DEF SessionInv, LifeTypes, StartPhase, Live, SignalProcessing
  <2>2. UNCHANGED audioVars /\ (main' = "setup" => step' = 23) /\ open \subseteq open'
    BY <2>1, PhaseStarts DEF Audio
  <2>3. /\ RecoveryInv /\ thread = "none" /\ {"audio", "controls"} \subseteq open
        /\ polling = "idle"
    BY <2>1 DEF SessionInv, LiveAudio, Live, SignalProcessing
  <2>4. RecoveryInv'
    BY <2>2, <2>3, AudioRests DEF SessionInv
  <2> QED
    BY <2>1, <2>2, <2>3, <2>4 DEF LiveAudio, StartPhase, audioVars
<1>6. Strays'
  BY DEF SessionInv, LifeTypes, Strays, StartPhase
<1>7. Served'
  BY PhaseStarts DEF SessionInv, Served, StartPhase
<1> QED
  BY <1>1, <1>2, <1>3, <1>4, <1>5, <1>6, <1>7 DEF SessionInv

--------------------------------------------------------------------------
LEMMA SessionInitInv == SessionInit => SessionInv
<1> SUFFICES ASSUME SessionInit PROVE SessionInv
  OBVIOUS
<1>1. FlagTypes
  BY DEF FlagTypes, SessionInit, Idle
<1>2. PlaceTypes
  BY DEF PlaceTypes, SessionInit, Idle
<1>3. ValueTypes
  BY DEF ValueTypes, SessionInit, Idle
<1>4. LifeTypes
  BY DEF LifeTypes, SessionInit
<1>5. NotYet
  BY DEF NotYet, NoGraph, Quiet, SessionInit, Idle, Audio, SynthAndBuffers
<1>6. Activation /\ LiveAudio /\ Strays /\ Served
  BY DEF Activation, LiveAudio, Live, Strays, Served, SessionInit, SignalProcessing
<1> QED
  BY <1>1, <1>2, <1>3, <1>4, <1>5, <1>6, Types DEF SessionInv

LEMMA SessionNextInv == SessionInv /\ [SessionNext]_sessionVars => SessionInv'
<1> SUFFICES ASSUME SessionInv, [SessionNext]_sessionVars PROVE SessionInv'
  OBVIOUS
<1>1. CASE Setup
  BY <1>1, StartPhaseInv, StartActivationInv, SpawnFailsInv, JoinInv, ProbeEndsInv, RollbackEndsInv,
    StartFailsInv, ProbeFailsInv, RollbackStepInv DEF Setup
<1>2. CASE StartSession \/ StartInterfaces \/ LoopRecovers \/ AbandonActivation
  BY <1>2, StartSessionInv, StartInterfacesInv, LoopRecoversInv, AbandonInv
<1>3. CASE Loop \/ GiveUp
  BY <1>3, LoopPollInv, LoopOnInv DEF Loop
<1>4. CASE Shutdown
  BY <1>4, CloseEndsInv, ExitInv, CloseStepInv DEF Shutdown
<1>5. CASE Thread
  BY <1>5, ThreadActivatesInv, ThreadFailsInv, StrayEndsInv DEF Thread
<1>6. CASE Around \/ UNCHANGED sessionVars
  BY <1>6, AroundInv, SessionRestsInv
<1> QED
  BY <1>1, <1>2, <1>3, <1>4, <1>5, <1>6 DEF SessionNext, MainStep

\* A session in its loop has its graph in one place and the rate of the live route: the
\* startup, with its thread that may fail or be abandoned, hands both to the recovery.
THEOREM LoopKeepsItsAudio == SessionSpec => []LoopHasItsAudio
<1>1. SessionInv => LoopHasItsAudio
  BY DEF SessionInv, LiveAudio, Live, RecoveryInv, LoopHasItsAudio
<1> QED
  BY SessionInitInv, SessionNextInv, <1>1, PTL DEF SessionSpec

\* Through every failing startup, rollback, recovery and ending, a callback that runs has the
\* control side of its rings and somebody who can stop it.
THEOREM CallbacksAreServed == SessionSpec => []CallbackIsServed
<1>1. SessionInv => CallbackIsServed
  BY DEF SessionInv, LifeTypes, Activation, Strays, Served, CallbackIsServed
<1> QED
  BY SessionInitInv, SessionNextInv, <1>1, PTL DEF SessionSpec

--------------------------------------------------------------------------
(* What is left of the resources                                           *)

AllResources == {"lock", "input", "memory", "events", "video", "audio", "controls", "processor",
                 "browsers", "bridge", "midi", "osc", "streamer"}

Known     == open \subseteq AllResources
FlagOrder == interfaces \/ main = "interfaces" => graph

\* The graph has been given to the audio.
Handed ==
  Live \/ main \in {"activating", "closing"} => "processor" \notin open

\* Whatever a startup has opened is on its rollback stack, but for what no phase takes away;
\* what SynthAndBuffers makes goes with the phase Audio, which is there by then.
InStack(r) == \E i \in 1..Len(completed) : r \in Removes(completed[i])

Stacked ==
  main \in {"setup", "activating", "probing", "rollback"} =>
    \A r \in open \ {"input", "processor"} : InStack(r)

AudioStacked ==
  \/ main \in {"activating", "probing"}
  \/ main = "setup" /\ step > Audio
  => \E i \in 1..Len(completed) : completed[i] = "Audio"

\* What the closing has taken away by each of its steps.
Taken ==
  main = "closing" /\ interfaces =>
    /\ step > 1 => "video" \notin open
    /\ step > 2 => {"input", "midi", "bridge"} \cap open = {}
    /\ step > 4 => {"streamer", "audio", "controls"} \cap open = {}

Left ==
  /\ main = "aborted" => open \subseteq {"input", "processor"}
  /\ main = "ended" => ~interfaces

ResourceInv == Known /\ FlagOrder /\ Handed /\ Stacked /\ AudioStacked /\ Taken /\ Left

\* What is on the rollback stack stays there while the startup goes on.
LEMMA Pushed ==
  ASSUME step \in 1..23, completed \in Seq(Named), Advance, main' = "setup"
  PROVE  /\ \A i \in 1..Len(completed) : i \in 1..Len(completed') /\ completed'[i] = completed[i]
         /\ Phase \notin Config => \E i \in 1..Len(completed') : completed'[i] = Phase
<1>1. /\ completed' = completed \/ completed' = Append(completed, Phase)
      /\ Phase \notin Config => completed' = Append(completed, Phase)
  BY DEF Advance
<1>2. Phase \in Named
  BY PhaseAt
<1>3. /\ Len(Append(completed, Phase)) = Len(completed) + 1 /\ Len(completed) \in Nat
      /\ Append(completed, Phase)[Len(completed) + 1] = Phase
      /\ \A i \in 1..Len(completed) : Append(completed, Phase)[i] = completed[i]
  BY <1>2
<1>4. ASSUME NEW i \in 1..Len(completed)
      PROVE  i \in 1..Len(completed') /\ completed'[i] = completed[i]
  BY <1>1, <1>3
<1>5. ASSUME Phase \notin Config PROVE \E i \in 1..Len(completed') : completed'[i] = Phase
  <2>1. Len(completed') \in 1..Len(completed') /\ completed'[Len(completed')] = Phase
    BY <1>1, <1>3, <1>5
  <2> QED
    BY <2>1
<1> QED
  BY <1>4, <1>5

LEMMA StaysStacked ==
  ASSUME NEW r, InStack(r), step \in 1..23, completed \in Seq(Named), Advance, main' = "setup"
  PROVE  InStack(r)'
  BY Pushed DEF InStack

LEMMA EmptyStack == ASSUME NEW r, completed = <<>> PROVE ~InStack(r)
  BY DEF InStack

LEMMA ActivationResources ==
  ASSUME SessionInv, ResourceInv, StartActivation \/ AbandonActivation \/ SpawnFails
  PROVE  ResourceInv'
<1>1. Known'
  BY PhaseAt DEF ResourceInv, Known, StartActivation, AbandonActivation, SpawnFails,
    SessionInv, LifeTypes
<1>2. FlagOrder'
  BY PhaseAt DEF ResourceInv, FlagOrder, StartActivation, AbandonActivation, SpawnFails,
    SessionInv, LifeTypes
<1>3. Handed'
  BY PhaseAt DEF ResourceInv, Handed, Live, StartActivation, AbandonActivation, SpawnFails,
    SessionInv, LifeTypes
<1>4. Stacked'
  BY PhaseAt DEF ResourceInv, Stacked, InStack, StartActivation, AbandonActivation,
    SpawnFails, SessionInv, LifeTypes
<1>5. AudioStacked'
  BY PhaseAt DEF ResourceInv, AudioStacked, StartActivation, AbandonActivation, SpawnFails,
    SessionInv, LifeTypes, SignalProcessing, Audio
<1>6. Taken'
  BY PhaseAt DEF ResourceInv, Taken, StartActivation, AbandonActivation, SpawnFails,
    SessionInv, LifeTypes
<1>7. Left'
  BY PhaseAt DEF ResourceInv, Left, StartActivation, AbandonActivation, SpawnFails,
    SessionInv, LifeTypes
<1> QED
  BY <1>1, <1>2, <1>3, <1>4, <1>5, <1>6, <1>7 DEF ResourceInv

LEMMA JoinResources ==
  ASSUME SessionInv, ResourceInv, JoinActivation
  PROVE  ResourceInv'
<1>1. Known'
  BY DEF ResourceInv, Known, JoinActivation, AllResources
<1>2. FlagOrder'
  BY DEF ResourceInv, FlagOrder, JoinActivation, AllResources
<1>3. Handed'
  BY DEF ResourceInv, Handed, Live, JoinActivation, AllResources
<1>4. Stacked'
  <2>1. PICK i \in 1..Len(completed) : completed[i] = "Audio"
    BY DEF ResourceInv, AudioStacked, JoinActivation
  <2>2. InStack("audio")
    BY <2>1 DEF InStack, Removes
  <2>3. \A r \in open \ {"input", "processor"} : InStack(r)
    BY DEF ResourceInv, Stacked, JoinActivation
  <2>4. \A r \in open' \ {"input", "processor"} : InStack(r)
    BY <2>2, <2>3 DEF JoinActivation
  <2> QED
    BY <2>4 DEF Stacked, InStack, JoinActivation
<1>5. AudioStacked'
  BY DEF ResourceInv, AudioStacked, JoinActivation, AllResources
<1>6. Taken'
  BY DEF ResourceInv, Taken, JoinActivation, AllResources
<1>7. Left'
  BY DEF ResourceInv, Left, JoinActivation, AllResources
<1> QED
  BY <1>1, <1>2, <1>3, <1>4, <1>5, <1>6, <1>7 DEF ResourceInv

LEMMA ProbeEndsResources ==
  ASSUME SessionInv, ResourceInv, ProbeEnds
  PROVE  ResourceInv'
<1>0. step \in 1..23 /\ completed \in Seq(Named) /\ Advance /\ main' = "setup"
  BY Advanced DEF SessionInv, LifeTypes, LiveAudio, Live, ProbeEnds, SignalProcessing
<1>1. Known'
  BY DEF ResourceInv, Known, ProbeEnds
<1>2. FlagOrder'
  BY <1>0 DEF ResourceInv, FlagOrder, ProbeEnds
<1>3. Handed'
  BY DEF ResourceInv, Handed, Live, ProbeEnds
<1>4. Stacked'
  <2>1. \A r \in open \ {"input", "processor"} : InStack(r)
    BY DEF ResourceInv, Stacked, ProbeEnds
  <2>2. \A r \in open \ {"input", "processor"} : InStack(r)'
    BY <1>0, <2>1, StaysStacked
  <2> QED
    BY <2>2 DEF Stacked, InStack, ProbeEnds
<1>5. AudioStacked'
  <2>1. PICK i \in 1..Len(completed) : completed[i] = "Audio"
    BY DEF ResourceInv, AudioStacked, ProbeEnds
  <2>2. i \in 1..Len(completed') /\ completed'[i] = "Audio"
    BY <1>0, <2>1, Pushed
  <2> QED
    BY <2>2 DEF AudioStacked
<1>6. Taken'
  BY <1>0 DEF Taken
<1>7. Left'
  BY <1>0 DEF Left
<1> QED
  BY <1>1, <1>2, <1>3, <1>4, <1>5, <1>6, <1>7 DEF ResourceInv

LEMMA RollbackResources ==
  ASSUME SessionInv, ResourceInv, NEW late \in BOOLEAN, RollbackStep(late)
  PROVE  ResourceInv'
<1>1. Known'
  BY DEF ResourceInv, Known, RollbackStep, RollbackResource, SessionInv, LifeTypes
<1>2. FlagOrder'
  BY DEF ResourceInv, FlagOrder, RollbackStep, RollbackResource, SessionInv, LifeTypes
<1>3. Handed'
  BY DEF ResourceInv, Handed, Live, RollbackStep, RollbackResource, SessionInv, LifeTypes
<1>4. Stacked'
  BY DEF ResourceInv, Stacked, InStack, RollbackStep, RollbackResource, SessionInv, LifeTypes
<1>5. AudioStacked'
  BY DEF ResourceInv, AudioStacked, RollbackStep, RollbackResource, SessionInv, LifeTypes
<1>6. Taken'
  BY DEF ResourceInv, Taken, RollbackStep, RollbackResource, SessionInv, LifeTypes
<1>7. Left'
  BY DEF ResourceInv, Left, RollbackStep, RollbackResource, SessionInv, LifeTypes
<1> QED
  BY <1>1, <1>2, <1>3, <1>4, <1>5, <1>6, <1>7 DEF ResourceInv

LEMMA FailResources ==
  ASSUME SessionInv, ResourceInv, NEW late \in BOOLEAN, StartFails(late) \/ ProbeFails(late)
  PROVE  ResourceInv'
<1>1. Known'
  BY DEF ResourceInv, Known, StartFails, ProbeFails, RollbackResource
<1>2. FlagOrder'
  BY DEF ResourceInv, FlagOrder, StartFails, ProbeFails, RollbackResource
<1>3. Handed'
  BY DEF ResourceInv, Handed, Live, StartFails, ProbeFails, RollbackResource
<1>4. Stacked'
  BY DEF ResourceInv, Stacked, InStack, StartFails, ProbeFails, RollbackResource
<1>5. AudioStacked'
  BY DEF ResourceInv, AudioStacked, StartFails, ProbeFails, RollbackResource
<1>6. Taken'
  BY DEF ResourceInv, Taken, StartFails, ProbeFails, RollbackResource
<1>7. Left'
  BY DEF ResourceInv, Left, StartFails, ProbeFails, RollbackResource
<1> QED
  BY <1>1, <1>2, <1>3, <1>4, <1>5, <1>6, <1>7 DEF ResourceInv

LEMMA LoopResources ==
  ASSUME SessionInv, ResourceInv, Loop \/ GiveUp \/ LoopRecovers
  PROVE  ResourceInv'
<1>1. Known'
  BY DEF ResourceInv, Known, Loop, LoopPoll, LeaveLoop, StartStream, StopStream, StreamDied,
    GiveUp, LoopRecovers, InLoop, Closing, AllResources
<1>2. FlagOrder'
  BY DEF ResourceInv, FlagOrder, Loop, LoopPoll, LeaveLoop, StartStream, StopStream,
    StreamDied, GiveUp, LoopRecovers, InLoop, Closing, AllResources
<1>3. Handed'
  BY DEF ResourceInv, Handed, Live, Loop, LoopPoll, LeaveLoop, StartStream, StopStream,
    StreamDied, GiveUp, LoopRecovers, InLoop, Closing, AllResources
<1>4. Stacked'
  BY DEF ResourceInv, Stacked, InStack, Loop, LoopPoll, LeaveLoop, StartStream, StopStream,
    StreamDied, GiveUp, LoopRecovers, InLoop, Closing, AllResources
<1>5. AudioStacked'
  BY DEF ResourceInv, AudioStacked, Loop, LoopPoll, LeaveLoop, StartStream, StopStream,
    StreamDied, GiveUp, LoopRecovers, InLoop, Closing, AllResources
<1>6. Taken'
  <2>1. CASE LoopPoll \/ LoopRecovers
    BY <2>1 DEF ResourceInv, Taken, LoopPoll, LoopRecovers
  <2>2. CASE LeaveLoop \/ GiveUp \/ StreamDied \/ StopStream
    <3>1. main' = "closing" => step' = 1
      BY <2>2 DEF LeaveLoop, GiveUp, StreamDied, StopStream, InLoop, Closing
    <3> QED
      BY <3>1 DEF Taken
  <2>3. CASE StartStream
    <3>1. main' = "loop"
      BY <2>3 DEF StartStream, InLoop
    <3> QED
      BY <3>1 DEF Taken
  <2> QED
    BY <2>1, <2>2, <2>3 DEF Loop
<1>7. Left'
  BY DEF ResourceInv, Left, Loop, LoopPoll, LeaveLoop, StartStream, StopStream, StreamDied,
    GiveUp, LoopRecovers, InLoop, Closing, AllResources
<1> QED
  BY <1>1, <1>2, <1>3, <1>4, <1>5, <1>6, <1>7 DEF ResourceInv

LEMMA SessionResources ==
  ASSUME SessionInv, ResourceInv, StartSession \/ StartInterfaces
  PROVE  ResourceInv'
<1>1. Known'
  BY DEF ResourceInv, Known, StartSession, StartInterfaces, Closing
<1>2. FlagOrder'
  BY DEF ResourceInv, FlagOrder, StartSession, StartInterfaces, Closing
<1>3. Handed'
  BY DEF ResourceInv, Handed, Live, StartSession, StartInterfaces, Closing
<1>4. Stacked'
  BY DEF ResourceInv, Stacked, InStack, StartSession, StartInterfaces, Closing
<1>5. AudioStacked'
  BY DEF ResourceInv, AudioStacked, StartSession, StartInterfaces, Closing
<1>6. Taken'
  <2>1. main' = "closing" => step' = 1
    BY DEF StartSession, StartInterfaces, Closing
  <2> QED
    BY <2>1 DEF Taken
<1>7. Left'
  BY DEF ResourceInv, Left, StartSession, StartInterfaces, Closing
<1> QED
  BY <1>1, <1>2, <1>3, <1>4, <1>5, <1>6, <1>7 DEF ResourceInv

LEMMA CloseResources ==
  ASSUME SessionInv, ResourceInv, NEW late \in BOOLEAN, CloseStep(late)
  PROVE  ResourceInv'
<1>1. Known'
  BY DEF ResourceInv, Known, CloseStep, RollbackResource
<1>2. FlagOrder'
  BY DEF ResourceInv, FlagOrder, CloseStep, RollbackResource
<1>3. Handed'
  BY DEF ResourceInv, Handed, Live, CloseStep, RollbackResource
<1>4. Stacked'
  BY DEF ResourceInv, Stacked, InStack, CloseStep, RollbackResource
<1>5. AudioStacked'
  BY DEF ResourceInv, AudioStacked, CloseStep, RollbackResource
<1>6. Taken'
  <2> SUFFICES ASSUME interfaces PROVE Taken'
    BY DEF Taken, CloseStep
  <2>1. step \in 1..4 /\ step' = step + 1 /\ open' = open \ Removes(Order[step])
    BY DEF SessionInv, LifeTypes, CloseStep, Order, RollbackResource
  <2>2. /\ Order[1] = "Video" /\ Order[2] = "InputAndMidi" /\ Order[3] = "InputAndMidi"
        /\ Order[4] = "Audio"
    BY DEF Order
  <2>3. /\ Removes("Video") = {"video"} /\ Removes("InputAndMidi") = {"input", "midi", "bridge"}
        /\ Removes("Audio") = {"streamer", "audio", "controls"}
    BY DEF Removes
  <2>4. CASE step = 1
    BY <2>1, <2>2, <2>3, <2>4 DEF Taken
  <2>5. CASE step = 2
    BY <2>1, <2>2, <2>3, <2>5 DEF ResourceInv, Taken, CloseStep
  <2>6. CASE step = 3
    BY <2>1, <2>2, <2>3, <2>6 DEF ResourceInv, Taken, CloseStep
  <2>7. CASE step = 4
    BY <2>1, <2>2, <2>3, <2>7 DEF ResourceInv, Taken, CloseStep
  <2> QED
    BY <2>1, <2>4, <2>5, <2>6, <2>7
<1>7. Left'
  BY DEF ResourceInv, Left, CloseStep, RollbackResource
<1> QED
  BY <1>1, <1>2, <1>3, <1>4, <1>5, <1>6, <1>7 DEF ResourceInv

LEMMA EndResources ==
  ASSUME SessionInv, ResourceInv, CloseEnds \/ Exit \/ RollbackEnds
  PROVE  ResourceInv'
<1>1. Known'
  BY DEF ResourceInv, Known, CloseEnds, Exit, RollbackEnds
<1>2. FlagOrder'
  BY DEF ResourceInv, FlagOrder, CloseEnds, Exit, RollbackEnds
<1>3. Handed'
  BY DEF ResourceInv, Handed, Live, CloseEnds, Exit, RollbackEnds
<1>4. Stacked'
  BY DEF ResourceInv, Stacked, InStack, CloseEnds, Exit, RollbackEnds
<1>5. AudioStacked'
  BY DEF ResourceInv, AudioStacked, CloseEnds, Exit, RollbackEnds
<1>6. Taken'
  BY DEF ResourceInv, Taken, CloseEnds, Exit, RollbackEnds
<1>7. Left'
  BY EmptyStack DEF ResourceInv, Left, CloseEnds, Exit, RollbackEnds, Stacked, InStack
<1> QED
  BY <1>1, <1>2, <1>3, <1>4, <1>5, <1>6, <1>7 DEF ResourceInv

LEMMA OtherResources ==
  ASSUME SessionInv, ResourceInv, Thread \/ Around \/ UNCHANGED sessionVars
  PROVE  ResourceInv'
<1>1. Known'
  BY DEF ResourceInv, Known, Thread, ThreadActivates, ThreadFails, StrayEnds, Around,
    sessionVars
<1>2. FlagOrder'
  BY DEF ResourceInv, FlagOrder, Thread, ThreadActivates, ThreadFails, StrayEnds, Around,
    sessionVars
<1>3. Handed'
  BY DEF ResourceInv, Handed, Live, Thread, ThreadActivates, ThreadFails, StrayEnds, Around,
    sessionVars
<1>4. Stacked'
  BY DEF ResourceInv, Stacked, InStack, Thread, ThreadActivates, ThreadFails, StrayEnds,
    Around, sessionVars
<1>5. AudioStacked'
  BY DEF ResourceInv, AudioStacked, Thread, ThreadActivates, ThreadFails, StrayEnds, Around,
    sessionVars
<1>6. Taken'
  BY DEF ResourceInv, Taken, Thread, ThreadActivates, ThreadFails, StrayEnds, Around,
    sessionVars
<1>7. Left'
  BY DEF ResourceInv, Left, Thread, ThreadActivates, ThreadFails, StrayEnds, Around,
    sessionVars
<1> QED
  BY <1>1, <1>2, <1>3, <1>4, <1>5, <1>6, <1>7 DEF ResourceInv

LEMMA CreatedIsRemoved ==
  ASSUME NEW p \in Named
  PROVE  /\ Creates(p) \subseteq AllResources
         /\ Creates(p) \ {"input", "processor", "controls"} \subseteq Removes(p)
         /\ "controls" \in Creates(p) => p = "SynthAndBuffers"
         /\ "processor" \in Creates(p) => p = "SynthAndBuffers"
         /\ p \in Config => Creates(p) = {}
<1>1. p \in {"LockMemory", "RtThreads", "MainThread", "PlatformThreads", "Sdl", "MemoryManager",
            "parse", "EventManager", "Video", "VideoReady", "Audio", "CoreGraph",
            "SynthAndBuffers", "Browsers", "InputAndMidi", "OscAndMixer", "SystemVariables",
            "refresh", "refreshConfig", "startConfig",
            "SignalProcessing", "StreamersAndRings", "ProcessingElements"}
  BY DEF Named, Phases
<1>2. Creates(p) \subseteq AllResources /\ (p \in Config => Creates(p) = {})
  BY <1>1 DEF Creates, AllResources, Config
<1>3. Creates(p) \ {"input", "processor", "controls"} \subseteq Removes(p)
  BY <1>1 DEF Creates, Removes
<1>4. "controls" \in Creates(p) \/ "processor" \in Creates(p) => p = "SynthAndBuffers"
  BY <1>1 DEF Creates
<1> QED
  BY <1>2, <1>3, <1>4

LEMMA StartResources ==
  ASSUME SessionInv, ResourceInv, StartPhase
  PROVE  ResourceInv'
<1>1. /\ step \in 1..23 /\ completed \in Seq(Named) /\ Advance /\ main = "setup"
      /\ Phase \in Named /\ open' = open \cup Creates(Phase)
      /\ main' \in {"setup", "session"} /\ interfaces' = interfaces /\ graph' = graph
  BY PhaseAt, Advanced DEF SessionInv, LifeTypes, StartPhase
<1>2. Known'
  BY <1>1, CreatedIsRemoved DEF ResourceInv, Known
<1>3. FlagOrder'
  BY <1>1 DEF ResourceInv, FlagOrder
<1>4. Handed'
  <2> SUFFICES ASSUME Live' PROVE "processor" \notin open'
    BY <1>1 DEF Handed
  <2>1. step > SignalProcessing
    BY PhaseStarts, <1>1 DEF Live, SignalProcessing
  <2>2. "processor" \notin open
    BY <1>1, <2>1 DEF ResourceInv, Handed, Live
  <2>3. Phase # "SynthAndBuffers"
    BY <1>1, <2>1, PhaseOrder DEF Phase
  <2> QED
    BY <1>1, <2>2, <2>3, CreatedIsRemoved
<1>5. Stacked'
  <2> SUFFICES ASSUME main' = "setup", NEW r \in open' \ {"input", "processor"} PROVE InStack(r)'
    BY <1>1 DEF Stacked, InStack
  <2>1. CASE r \in open
    <3>1. InStack(r)
      BY <1>1, <2>1 DEF ResourceInv, Stacked
    <3> QED
      BY <1>1, <3>1, StaysStacked
  <2>2. CASE r \in Creates(Phase) /\ r # "controls"
    <3>1. r \in Removes(Phase) /\ Phase \notin Config
      BY <1>1, <2>2, CreatedIsRemoved
    <3>2. PICK i \in 1..Len(completed') : completed'[i] = Phase
      BY <1>1, <3>1, Pushed
    <3> QED
      BY <3>1, <3>2 DEF InStack
  <2>3. CASE r = "controls" /\ r \in Creates(Phase)
    <3>1. Phase = "SynthAndBuffers"
      BY <1>1, <2>3, CreatedIsRemoved
    <3>2. step > Audio
      BY <1>1, <3>1, PhaseOrder DEF Phase
    <3>3. PICK i \in 1..Len(completed) : completed[i] = "Audio"
      BY <1>1, <3>2 DEF ResourceInv, AudioStacked
    <3>4. i \in 1..Len(completed') /\ completed'[i] = "Audio"
      BY <1>1, <3>3, Pushed
    <3>5. "controls" \in Removes("Audio")
      BY DEF Removes
    <3> QED
      BY <2>3, <3>4, <3>5 DEF InStack
  <2> QED
    BY <1>1, <2>1, <2>2, <2>3
<1>6. AudioStacked'
  <2> SUFFICES ASSUME main' = "setup", step' > Audio
               PROVE  \E i \in 1..Len(completed') : completed'[i] = "Audio"
    BY <1>1 DEF AudioStacked
  <2>1. step >= Audio
    BY <1>1, PhaseStarts DEF Audio
  <2>2. CASE step = Audio
    <3>1. Phase = "Audio" /\ Phase \notin Config
      BY <1>1, <2>2, PhaseAt DEF Config
    <3> QED
      BY <1>1, <3>1, Pushed
  <2>3. CASE step > Audio
    <3>1. PICK i \in 1..Len(completed) : completed[i] = "Audio"
      BY <1>1, <2>3 DEF ResourceInv, AudioStacked
    <3> QED
      BY <1>1, <3>1, Pushed
  <2> QED
    BY <2>1, <2>2, <2>3, <1>1 DEF Audio
<1>7. Taken' /\ Left'
  BY <1>1 DEF Taken, Left
<1> QED
  BY <1>2, <1>3, <1>4, <1>5, <1>6, <1>7 DEF ResourceInv

LEMMA ResourceInit == SessionInit => ResourceInv
  BY DEF SessionInit, ResourceInv, Known, FlagOrder, Handed, Live, SignalProcessing, Stacked,
    AudioStacked, Audio, Taken, Left

LEMMA ResourceNext == SessionInv /\ ResourceInv /\ [SessionNext]_sessionVars => ResourceInv'
<1> SUFFICES ASSUME SessionInv, ResourceInv, [SessionNext]_sessionVars PROVE ResourceInv'
  OBVIOUS
<1>1. CASE Setup
  BY <1>1, StartResources, ActivationResources, JoinResources, ProbeEndsResources, EndResources,
    FailResources, RollbackResources DEF Setup
<1>2. CASE StartSession \/ StartInterfaces \/ AbandonActivation
  BY <1>2, SessionResources, ActivationResources
<1>3. CASE Loop \/ GiveUp \/ LoopRecovers
  BY <1>3, LoopResources
<1>4. CASE Shutdown
  BY <1>4, EndResources, CloseResources DEF Shutdown
<1>5. CASE Thread \/ Around \/ UNCHANGED sessionVars
  BY <1>5, OtherResources
<1> QED
  BY <1>1, <1>2, <1>3, <1>4, <1>5 DEF SessionNext, MainStep

LEMMA Endings ==
  ASSUME SessionInv, SessionNext, main' = "ended", main # "ended"
  PROVE  CloseEnds
<1>1. ~Setup
  BY PhaseStarts, Advanced DEF Setup, StartPhase, StartActivation, SpawnFails, JoinActivation,
    ProbeEnds, RollbackEnds, StartFails, ProbeFails, RollbackStep, SessionInv, LifeTypes
<1>2. ~(StartSession \/ StartInterfaces \/ AbandonActivation \/ LoopRecovers \/ GiveUp)
  BY DEF StartSession, StartInterfaces, AbandonActivation, LoopRecovers, GiveUp, Closing
<1>3. ~Loop
  BY DEF Loop, LoopPoll, LeaveLoop, StartStream, StopStream, StreamDied, InLoop, Closing
<1>4. ~Thread /\ ~Around /\ ~Exit
  BY DEF Thread, ThreadActivates, ThreadFails, StrayEnds, Around, Exit
<1>5. \A late \in BOOLEAN : ~CloseStep(late)
  BY DEF CloseStep
<1> QED
  BY <1>1, <1>2, <1>3, <1>4, <1>5 DEF SessionNext, MainStep, Shutdown

\* A session whose interfaces were started closes everything in its order, whatever ended it,
\* and a startup that fails leaves at most the input of SDL and a graph never given away.
THEOREM EndsAreClean == SessionSpec => EndedSessionIsClosed
<1>1. SessionInv /\ ResourceInv /\ [SessionNext]_sessionVars =>
        [/\ main' = "ended" /\ interfaces =>
              open' \subseteq {"lock", "memory", "browsers"} /\ closure' # "running"
         /\ main' = "aborted" => open' \subseteq {"input", "processor"}]_sessionVars
  <2> SUFFICES ASSUME SessionInv, ResourceInv, SessionNext
               PROVE  /\ main' = "ended" /\ interfaces =>
                           open' \subseteq {"lock", "memory", "browsers"} /\ closure' # "running"
                      /\ main' = "aborted" => open' \subseteq {"input", "processor"}
    OBVIOUS
  <2>1. main' = "aborted" => open' \subseteq {"input", "processor"}
    BY ResourceNext DEF ResourceInv, Left
  <2>2. ASSUME main' = "ended", interfaces
        PROVE  open' \subseteq {"lock", "memory", "browsers"} /\ closure' # "running"
    <3>1. CloseEnds
      BY <2>2, Endings DEF ResourceInv, Left
    <3>2. /\ main = "closing" /\ step > 4 /\ graph
          /\ open' = open \ (Removes("OscAndMixer") \cup Removes("EventManager"))
          /\ closure' = closure
      BY <2>2, <3>1 DEF CloseEnds, Order, ResourceInv, FlagOrder, audioVars
    <3>3. closure # "running"
      BY <2>2, <3>2 DEF SessionInv, LifeTypes, Served, Strays
    <3>4. /\ "video" \notin open /\ {"input", "midi", "bridge"} \cap open = {}
          /\ {"streamer", "audio", "controls"} \cap open = {} /\ "processor" \notin open
      BY <2>2, <3>2 DEF SessionInv, LifeTypes, ResourceInv, Taken, Handed
    <3>5. Removes("OscAndMixer") = {"osc"} /\ Removes("EventManager") = {"events"}
      BY DEF Removes
    <3> QED
      BY <3>2, <3>3, <3>4, <3>5 DEF ResourceInv, Known, AllResources
  <2> QED
    BY <2>1, <2>2
<1> QED
  BY SessionInitInv, SessionNextInv, ResourceInit, ResourceNext, <1>1, PTL
    DEF SessionSpec, EndedSessionIsClosed
==========================================================================
