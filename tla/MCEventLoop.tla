--------------------------- MODULE MCEventLoop ---------------------------
(***************************************************************************)
(* One run for what the event loop hears, decides and sends: gestures of   *)
(* fingers, keys and the window; the outputs an event is bound to; PCM     *)
(* transfers and commands to the audio callback, and the loops these keep  *)
(* in step with a pulse; notes to MIDI instruments.  The models share no   *)
(* variable, so that their product would only multiply their states: a     *)
(* behaviour is one of one of them, chosen at the start, and the others    *)
(* stay where they began.                                                  *)
(***************************************************************************)
EXTENDS PcmTransfer, LoopPanel, MidiEcho, TouchInput, Bindings

VARIABLES part,
  playing, rec, pulse, readyBlocks, exporting, calibrating, frame, askedToStop  \* of LoopEngine

engineVars    == <<playing, rec, pulse, readyBlocks, exporting, calibrating, frame, askedToStop>>
eventLoopVars == <<part, vars, loopPanelVars, echoVars, touchVars, bindingVars, engineVars>>

\* Two loops under a pulse of three frames, recorded in any beat.
Synced == INSTANCE LoopEngine WITH
  loops <- playing, ready <- readyBlocks, job <- exporting, asked <- askedToStop,
  NSlots <- 2, BlockFrames <- 10, MaxBlocks <- 1, ReadyBlocks <- 1, WorkerKeepsUp <- TRUE,
  BufferFrames <- 8, TailFrames <- 1, SmoothFrames <- 1, Alignment <- 0, CallbackFrames <- 1,
  CopyFrames <- 2, StartPulse <- 3, PulseLengths <- {}, TapGaps <- {}, ImportLengths <- {},
  Subdivision <- 1, MaxElapsed <- 12, U32Max <- 12, ShortTap <- 2,
  Commands <- {"Record", "StopRecord", "Trigger"}

--------------------------------------------------------------------------
(* Patches and configurations of these instances                           *)

Zone(port, channel, keys) == [port |-> port, channel |-> channel, keys |-> keys]

\* One zone, a split keyboard, and a zone of a port that is not there before one that is.
EchoPatches ==
  {<<Zone(1, 1, Keys)>>, <<Zone(1, 1, {1}), Zone(2, 2, Keys)>>, <<Zone(3, 1, {2}), Zone(2, 1, Keys)>>}

Set(exp)   == [op |-> "set", value |-> exp]
Do(exp)    == [op |-> "send", value |-> exp]
GoSub(exp) == [op |-> "gosub", value |-> exp]
Missing    == [op |-> "bad", value |-> 0]

Element(input, index, when, echo, outputs) ==
  [input |-> input, index |-> index, when |-> when, echo |-> echo, outputs |-> outputs]

\* Literals within and past MaxIndex and below zero, expressions, no condition; chains that
\* set, send, fail, and dispatch events that do.
Elements == {
  Element("key", 1, Anything, FALSE, <<Set(2), Do(Var)>>),
  Element("key", 3, Anything, TRUE, <<Do(Arg), Set(Arg), Do(Var)>>),
  Element("key", 2, 1, TRUE, <<Do(Var)>>),
  Element("key", -1, Anything, FALSE, <<Do(0)>>),
  Element("key", Var, Anything, FALSE, <<Do(Var), Set(0)>>),
  Element("key", Anything, 2, TRUE, <<GoSub(1), Do(Var)>>),
  Element("key", Anything, Anything, FALSE, <<GoSub(Arg), Do(Var), Missing>>),
  Element("sub", 1, Anything, FALSE, <<Set(1), Do(Var)>>),
  Element("sub", Anything, 0, FALSE, <<GoSub(2), Set(1)>>),
  Element("sub", Var, Anything, FALSE, <<GoSub(Var)>>),
  Element("note", Anything, 1, TRUE, <<Set(2), GoSub(1), Do(Var)>>),
  Element("note", Anything, Anything, FALSE, <<Do(0), Do(Var), Do(1)>>) }

Carried == -1..3

--------------------------------------------------------------------------
EventLoopInit ==
  /\ part \in {"transfers", "panel", "echo", "touch", "bindings", "loops"}
  /\ Init /\ PanelInit /\ EchoInit /\ TouchInit /\ BindingsInit /\ Synced!Init
  /\ part # "bindings" => file = <<>> /\ variable = 0

Transferring == part = "transfers" /\ UNCHANGED <<part, loopPanelVars, echoVars, touchVars, bindingVars, engineVars>>
Playing      == part = "panel" /\ UNCHANGED <<part, vars, echoVars, touchVars, bindingVars, engineVars>>
Echoing      == part = "echo" /\ UNCHANGED <<part, vars, loopPanelVars, touchVars, bindingVars, engineVars>>
Touching     == part = "touch" /\ UNCHANGED <<part, vars, loopPanelVars, echoVars, bindingVars, engineVars>>
Bound        == part = "bindings" /\ UNCHANGED <<part, vars, loopPanelVars, echoVars, touchVars, engineVars>>
InStep       == part = "loops" /\ UNCHANGED <<part, vars, loopPanelVars, echoVars, touchVars, bindingVars>>

EventLoopNext ==
  \/ Transferring /\ Next
  \/ Playing /\ PanelNext
  \/ Echoing /\ EchoNext
  \/ Touching /\ TouchNext
  \/ Bound /\ BindingsNext
  \/ InStep /\ Synced!Next
  \/ part = "bindings" /\ events = MaxEvents /\ UNCHANGED eventLoopVars   \* no more input
  \/ part = "touch" /\ ~Polls /\ UNCHANGED eventLoopVars                 \* the last input

EventLoopSpec == EventLoopInit /\ [][EventLoopNext]_eventLoopVars

\* Where two loops keep a pulse, the long cycle covers every loop that sounds and nothing
\* another loop does to it shifts one (both in module LoopEngine).
LoopsInSync == part = "loops" => Synced!CycleCoversLoops /\ Synced!InSync
==========================================================================
