-------------------------- MODULE AudioRecovery --------------------------
(***************************************************************************)
(* Losing and recreating the audio route while a session runs:             *)
(* AudioRecoveryController and poll_audio_recovery of native_runtime.rs,   *)
(* AudioIO of audioio.rs, and the two back ends that support a recovery,   *)
(* CPAL and the CoreAudio unit.  The event loop polls; streams report      *)
(* errors from threads of their own; the user plugs and unplugs devices.   *)
(*                                                                         *)
(* A route is the pair of default devices, which negotiates one of two     *)
(* rates.  The DSP graph (the processor) is owned by the realtime closure  *)
(* while streams run, and has to come back out of it.                      *)
(***************************************************************************)
EXTENDS Naturals

CONSTANTS
  Backends,               \* subset of {"cpal", "coreaudio"}: one is chosen at startup
  Routes,                 \* the routes the devices of the system can form
  SlowRoutes,             \* those of them that negotiate 44.1 kHz
  MaxChanges,             \* bound: changes of the default devices
  RECOVERY_MAX_ATTEMPTS

ASSUME RecoveryAssumption == MaxChanges \in Nat /\ RECOVERY_MAX_ATTEMPTS \in Nat \ {0}

NoRoute    == 0
Rate(r) == IF r \in SlowRoutes THEN 44100 ELSE 48000

VARIABLES
  backend,     \* the back end in use
  system,      \* the route the default devices form now (external)
  changes,     \* how often it has changed (bounded)
  route,       \* the route the back end has open, or NoRoute
  requested,   \* SharedMetrics::recovery_requested (CPAL)
  retained,    \* CpalAudioBackend::retained_callback holds the processor
  closure,     \* the realtime closure holds it: "none", "running", "dropping"
  returning,   \* callback_return: "none", "empty", "full"
  inHand,      \* a local of recover() or activate() holds it
  active,      \* AudioIO::active
  polling,     \* where poll_audio_recovery is
  failures,    \* AudioRecoveryController::consecutive_failures
  retry,       \* AudioRecoveryController::next_retry: "none", "waiting", "due"
  rate         \* RuntimeResources::sample_rate, which every file header gets

outside    == <<backend, system, changes>>
processor  == <<retained, closure, returning, inHand>>
controller == <<failures, retry>>
audioVars  == <<outside, route, requested, processor, active, polling, controller, rate>>

Cpal == backend = "cpal"

Idle ==
  /\ backend \in Backends /\ system \in Routes /\ changes = 0
  /\ requested = FALSE /\ retained = FALSE /\ inHand = FALSE
  /\ polling = "idle" /\ failures = 0 /\ retry = "none"

\* A session whose startup has come to its end.
Started ==
  /\ Idle
  /\ route = system /\ active = TRUE /\ closure = "running"
  /\ returning = (IF Cpal THEN "empty" ELSE "none")
  /\ rate = Rate(system)

--------------------------------------------------------------------------
(* The world                                                               *)

\* Headphones are plugged in, a device is unplugged.
ChangeDevices ==
  /\ changes < MaxChanges
  /\ changes' = changes + 1
  /\ system' \in Routes \ {system}
  /\ UNCHANGED <<backend, route, requested, processor, active, polling, controller, rate>>

\* The error callback of a CPAL stream; an xrun is one, too.
StreamError ==
  /\ Cpal /\ ~requested
  /\ closure = "running" \/ polling = "activate"
  /\ requested' = TRUE
  /\ UNCHANGED <<outside, route, processor, active, polling, controller, rate>>

\* A host may drop the closure of a stream later than the stream: the processor then
\* arrives in callback_return when nobody waits for it any more.
ReturnLate ==
  /\ closure = "dropping"
  /\ closure' = "none"
  /\ returning' = IF returning = "empty" THEN "full" ELSE returning
  /\ UNCHANGED <<outside, route, requested, retained, inHand, active, polling, controller, rate>>

\* The deadline of next_retry passes.
BackoffEnds ==
  /\ retry = "waiting"
  /\ retry' = "due"
  /\ UNCHANGED <<outside, route, requested, processor, active, polling, failures, rate>>

--------------------------------------------------------------------------
(* The back ends                                                           *)

\* The streams are dropped, and with them the closure, at once or late; what it
\* returned is reclaimed.
Returned(late) == Cpal /\ (retained \/ returning = "full" \/ (closure = "running" /\ ~late))
Dropped(late)  == IF closure = "running" THEN IF late THEN "dropping" ELSE "none" ELSE closure

\* close() of either back end.  The CoreAudio unit drops its state, processor included.
CloseDevices(late) ==
  /\ late => Cpal
  /\ route' = NoRoute
  /\ retained' = Returned(late)
  /\ closure' = Dropped(late)
  /\ returning' = IF Returned(late) THEN "none" ELSE returning

\* backend.open: the route of the moment; a request for recovery that is still there
\* is taken to be answered.
OpenDevices ==
  /\ route' = system
  /\ requested' = FALSE

\* backend.activate: the processor goes into the closure of the streams.
RunStreams ==
  /\ inHand' = FALSE
  /\ closure' = "running"
  /\ returning' = IF Cpal THEN "empty" ELSE "none"
  /\ UNCHANGED retained

\* Mutant: the processor is not kept outside until the streams are built.
BadKeepProcessor(late) ==
  /\ inHand' = FALSE
  /\ UNCHANGED <<retained, closure, returning>>

\* activate fails.  CPAL: before the closure is built the processor is retained;
\* afterwards it comes back as the closure is dropped.  CoreAudio drops it.
KeepProcessor(late) ==
  /\ inHand' = FALSE
  /\ IF Cpal /\ late
       THEN closure' = "dropping" /\ returning' = "empty" /\ UNCHANGED retained
       ELSE late = FALSE /\ retained' = Cpal /\ UNCHANGED <<closure, returning>>

--------------------------------------------------------------------------
(* poll_audio_recovery, once per pass of the event loop                    *)

\* recovery_requested: a stream asked for it, or the poll of the route is due (every
\* 250 ms) and finds another one or none.
RouteChanged(due, broken) == due /\ route # NoRoute /\ (broken \/ route # system)
Asked(due, broken)        == (Cpal /\ requested) \/ RouteChanged(due, broken)

PollQuiet(due, broken) ==
  /\ polling = "idle" /\ ~Asked(due, broken)
  /\ retry' = "none" /\ failures' = 0
  /\ UNCHANGED <<outside, route, requested, processor, active, polling, rate>>

PollWaits(due, broken) ==
  /\ polling = "idle" /\ Asked(due, broken) /\ retry = "waiting"
  /\ requested' = Cpal
  /\ UNCHANGED <<outside, route, processor, active, polling, controller, rate>>

PollAttempts(due, broken) ==
  /\ polling = "idle" /\ Asked(due, broken) /\ retry # "waiting"
  /\ requested' = Cpal
  /\ polling' = "recover"
  /\ UNCHANGED <<outside, route, processor, active, controller, rate>>

Poll(due, broken) == PollQuiet(due, broken) \/ PollWaits(due, broken) \/ PollAttempts(due, broken)

\* recover() of the back end: quiesce, take the processor.
Recover(late) ==
  /\ polling = "recover" /\ active /\ (late => Cpal)
  /\ route' = NoRoute
  /\ inHand' = IF Cpal THEN Returned(late) ELSE closure = "running"
  /\ retained' = FALSE
  /\ closure' = Dropped(late)
  /\ returning' = IF Returned(late) THEN "none" ELSE returning
  /\ polling' = IF inHand' THEN "open" ELSE "failed"
  /\ UNCHANGED <<outside, requested, active, controller, rate>>

\* AudioOutputUnitStop fails: the unit is left as it is.
RecoverCannotStop ==
  /\ polling = "recover" /\ active /\ ~Cpal
  /\ polling' = "failed"
  /\ UNCHANGED <<outside, route, requested, processor, active, controller, rate>>

\* AudioIO::recover refuses: an earlier attempt has failed.
RecoverInactive ==
  /\ polling = "recover" /\ ~active
  /\ polling' = "count"
  /\ UNCHANGED <<outside, route, requested, processor, active, controller, rate>>

OpenRoute ==
  /\ polling = "open"
  /\ OpenDevices
  /\ polling' = "activate"
  /\ UNCHANGED <<outside, processor, active, controller, rate>>

\* CPAL keeps the processor, the CoreAudio unit drops it with the stack frame.
OpenFails ==
  /\ polling = "open"
  /\ inHand' = FALSE /\ retained' = Cpal
  /\ polling' = "failed"
  /\ UNCHANGED <<outside, route, requested, closure, returning, active, controller, rate>>

ActivateRoute ==
  /\ polling = "activate"
  /\ RunStreams
  /\ polling' = "adopt"
  /\ UNCHANGED <<outside, route, requested, active, controller, rate>>

ActivateFails(late) ==
  /\ polling = "activate"
  /\ KeepProcessor(late)
  /\ polling' = "failed"
  /\ UNCHANGED <<outside, route, requested, active, controller, rate>>

\* The controller forgets the outage; the session takes over the rate of the route.
Adopt ==
  /\ polling = "adopt"
  /\ polling' = "idle" /\ failures' = 0 /\ retry' = "none"
  /\ rate' = Rate(route)
  /\ UNCHANGED <<outside, route, requested, processor, active>>

\* AudioIO::recover after an error of the back end.
TearDown(late) ==
  /\ polling = "failed"
  /\ CloseDevices(late)
  /\ active' = FALSE
  /\ polling' = "count"
  /\ UNCHANGED <<outside, requested, inHand, controller, rate>>

\* Mutant: the last attempt is followed by another wait.
BadCountFailure ==
  /\ polling = "count"
  /\ failures' = IF failures < RECOVERY_MAX_ATTEMPTS THEN failures + 1 ELSE failures
  /\ polling' = "idle" /\ retry' = "waiting"
  /\ UNCHANGED <<outside, route, requested, processor, active, rate>>

\* The controller counts the failure, and waits or gives up: the session ends.
CountFailure ==
  /\ polling = "count"
  /\ failures' = failures + 1
  /\ IF failures + 1 >= RECOVERY_MAX_ATTEMPTS
       THEN polling' = "over" /\ UNCHANGED retry
       ELSE polling' = "idle" /\ retry' = "waiting"
  /\ UNCHANGED <<outside, route, requested, processor, active, rate>>

--------------------------------------------------------------------------
RecoverStep == \/ RecoverCannotStop \/ RecoverInactive \/ OpenRoute \/ OpenFails
               \/ ActivateRoute \/ Adopt \/ CountFailure
               \/ \E late \in BOOLEAN : Recover(late) \/ ActivateFails(late) \/ TearDown(late)

World == ChangeDevices \/ StreamError \/ ReturnLate \/ BackoffEnds

AudioNext ==
  \/ World \/ RecoverStep
  \/ \E due, broken \in BOOLEAN : Poll(due, broken)
  \/ polling = "over" /\ UNCHANGED audioVars   \* the session has ended

AudioSpec == Started /\ [][AudioNext]_audioVars

\* The event loop polls, the route at least every 250 ms; a deadline passes.
AudioFairSpec ==
  /\ AudioSpec
  /\ WF_audioVars(RecoverStep) /\ WF_audioVars(BackoffEnds)
  /\ SF_audioVars(Poll(TRUE, FALSE))

--------------------------------------------------------------------------
(* Properties                                                              *)

AudioTypeOK ==
  /\ backend \in Backends /\ system \in Routes /\ changes \in 0..MaxChanges
  /\ route \in Routes \cup {NoRoute} /\ requested \in BOOLEAN /\ retained \in BOOLEAN
  /\ closure \in {"none", "running", "dropping"} /\ returning \in {"none", "empty", "full"}
  /\ inHand \in BOOLEAN /\ active \in BOOLEAN
  /\ polling \in {"idle", "recover", "open", "activate", "adopt", "failed", "count", "over"}
  /\ failures \in 0..RECOVERY_MAX_ATTEMPTS /\ retry \in {"none", "waiting", "due"}
  /\ rate \in {0, 44100, 48000}

Holders == {h \in {"retained", "closure", "returning", "hand"} :
              \/ h = "retained" /\ retained
              \/ h = "closure" /\ closure # "none"
              \/ h = "returning" /\ returning = "full"
              \/ h = "hand" /\ inHand}

\* The DSP graph, with every loop in it, survives any outage under CPAL: it is in
\* exactly one place, whichever step of a recovery fails and however late a closure
\* is dropped.  Never is it in two.
OneProcessor == \E h \in {"retained", "closure", "returning", "hand"} :
                  Holders = {h} \/ (Holders = {} /\ ~Cpal)

\* No file is written with the rate of a route that is gone: whenever the event loop
\* goes on to its other work with a live route, its rate is that of the route.
RateFollowsRoute == (polling = "idle" /\ active) => rate = Rate(route)

\* A recovery a stream asked for is not forgotten: streams are opened again or the
\* session ends.
RequestIsAnswered == requested ~> (~requested \/ polling = "over")

\* "makes capture-build failures retryable during recovery": each attempt the
\* controller counts is made on a device that lets itself be recovered.
RetriesReachTheDevice == polling = "recover" => active
==========================================================================
