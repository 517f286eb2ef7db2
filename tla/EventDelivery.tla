-------------------------- MODULE EventDelivery --------------------------
(***************************************************************************)
(* From a MIDI device or the keyboard to the event loop: the callback of   *)
(* midir (midiio_platform.rs), the worker of MidiIo (midiio.rs), the       *)
(* NativeEventBridge (native_event_bridge.rs), the EventManager and its    *)
(* dispatch thread (event.rs), the inbox of the loop (native_runtime.rs).  *)
(* Four bounded queues in a row, four threads, and the order in which the  *)
(* session takes them down.                                                *)
(*                                                                         *)
(* An event is its source and its number.  Joins have no timeout here: no  *)
(* thread that is joined ever blocks on one that is not fair.              *)
(***************************************************************************)
EXTENDS Naturals, Sequences

CONSTANTS
  PortCapacity,    \* DEFAULT_MIDI_QUEUE_CAPACITY
  BridgeCapacity,  \* of NativeEventBridge::new
  QueueCapacity,   \* EventManager::capacity
  InboxCapacity,   \* of RuntimeResources::event_inbox
  MaxMidi,         \* bound: messages the device sends
  MaxKeys          \* bound: keys the user presses

ASSUME EventAssumption ==
  {PortCapacity, BridgeCapacity, QueueCapacity, InboxCapacity, MaxMidi, MaxKeys} \subseteq Nat

VARIABLES
  midiSent,     \* messages the device has sent
  keysPressed,
  port,         \* midir callback -> MidiIo worker
  midiWorker,   \* "run", "told" to stop, "stop" (it knows), "closing", "done"
  midiHand,     \* what it has taken from the port
  channel,      \* MidiIo worker -> bridge worker
  connected,    \* NativeEventBridge::sender is there
  serving,      \* NativeEventBridge::running
  bridge,       \* "receive", "timedOut", "post", "done"
  posting,      \* what each thread is posting: a sequence of at most one
  stage,        \* and how far it is: "idle", "push", "signal"
  queue,        \* EventManager::queue
  running,      \* EventManager::running
  ready,        \* the flag of its condition variable
  dispatcher,   \* "check", "locked", "sleeping", "asleep", "drain", "deliver", "done"
  dispatching,
  inbox,
  handled,      \* per source: how many events the loop has handled, and the last one
  dropped,      \* what the two MIDI queues and the event queue have refused
  uncounted,    \* what is lost and nothing counts: of each source at the inbox, and in the port
  mainThread    \* "loop", then the steps of the end

deviceVars  == <<midiSent, port, midiWorker, midiHand>>
bridgeVars  == <<channel, connected, serving, bridge>>
posterVars  == <<posting, stage>>
managerVars == <<queue, running, ready, dispatcher, dispatching>>
loopVars    == <<inbox, handled, keysPressed, mainThread>>
losses      == <<dropped, uncounted>>
eventVars   == <<deviceVars, bridgeVars, posterVars, managerVars, loopVars, losses>>

Sources == {"midi", "key"}
Posters == {"main", "bridge"}

EventInit ==
  /\ midiSent = 0 /\ keysPressed = 0
  /\ port = <<>> /\ midiWorker = "run" /\ midiHand = <<>>
  /\ channel = <<>> /\ connected = TRUE /\ serving = TRUE /\ bridge = "receive"
  /\ posting = [p \in Posters |-> <<>>] /\ stage = [p \in Posters |-> "idle"]
  /\ queue = <<>> /\ running = TRUE /\ ready = FALSE /\ dispatcher = "check" /\ dispatching = <<>>
  /\ inbox = <<>> /\ handled = [s \in Sources |-> [count |-> 0, last |-> 0]]
  /\ dropped = 0 /\ uncounted = [s \in Sources \cup {"port"} |-> 0] /\ mainThread = "loop"

--------------------------------------------------------------------------
(* MIDI input                                                              *)

\* enqueue_packet, on a thread of the MIDI system: the newest message is dropped.  A port
\* that is closed refuses as a full one does, until the inputs are gone as well.
DeviceSends ==
  /\ midiSent < MaxMidi /\ midiWorker # "done"
  /\ midiSent' = midiSent + 1
  /\ IF midiWorker # "closing" /\ Len(port) < PortCapacity
       THEN port' = Append(port, <<"midi", midiSent'>>) /\ UNCHANGED losses
       ELSE dropped' = dropped + 1 /\ UNCHANGED <<port, uncounted>>
  /\ UNCHANGED <<midiWorker, midiHand, bridgeVars, posterVars, managerVars, loopVars>>

\* The stop message is looked for before each receive: at most one passes it.
WorkerReceives ==
  /\ midiWorker \in {"run", "told"} /\ midiHand = <<>> /\ port # <<>>
  /\ midiWorker' = IF midiWorker = "told" THEN "stop" ELSE "run"
  /\ midiHand' = <<Head(port)>> /\ port' = Tail(port)
  /\ UNCHANGED <<midiSent, bridgeVars, posterVars, managerVars, loopVars, losses>>

\* midi_event of the bridge: try_send.
WorkerSends ==
  /\ midiHand # <<>>
  /\ midiHand' = <<>>
  /\ IF connected /\ Len(channel) < BridgeCapacity
       THEN channel' = channel \o midiHand /\ UNCHANGED losses
       ELSE dropped' = dropped + 1 /\ UNCHANGED <<channel, uncounted>>
  /\ UNCHANGED <<midiSent, port, midiWorker, connected, serving, bridge, posterVars,
                 managerVars, loopVars>>

\* close: the receiver goes first, and what waits in the port with it.
WorkerCloses ==
  /\ midiWorker \in {"told", "stop"} /\ midiHand = <<>>
  /\ midiWorker' = "closing"
  /\ port' = <<>> /\ uncounted' = [uncounted EXCEPT !["port"] = @ + Len(port)]
  /\ UNCHANGED <<midiSent, midiHand, dropped, bridgeVars, posterVars, managerVars, loopVars>>

\* Then the inputs.
InputsGo ==
  /\ midiWorker = "closing"
  /\ midiWorker' = "done"
  /\ UNCHANGED <<midiSent, port, midiHand, bridgeVars, posterVars, managerVars, loopVars, losses>>

\* All callbacks are gone, which receive learns of when the port is empty.  Nobody asks
\* fatal_error.
DevicesLost ==
  /\ midiWorker \in {"run", "told"} /\ midiHand = <<>> /\ port = <<>>
  /\ midiWorker' = "done"
  /\ UNCHANGED <<midiSent, port, midiHand, bridgeVars, posterVars, managerVars, loopVars, losses>>

--------------------------------------------------------------------------
(* try_post_event                                                          *)

Flag == dispatcher \notin {"locked", "sleeping"}    \* the mutex of the flag is free

\* running is read first.
StartPost(p, e) ==
  /\ posting' = [posting EXCEPT ![p] = <<e>>]
  /\ stage' = [stage EXCEPT ![p] = "push"]

BadPushUncounted(p) ==             \* a refused event is not counted
  /\ stage[p] = "push"
  /\ IF Len(queue) < QueueCapacity
       THEN /\ queue' = queue \o posting[p]
            /\ stage' = [stage EXCEPT ![p] = "signal"]
            /\ UNCHANGED <<posting, dropped, mainThread>>
       ELSE /\ posting' = [posting EXCEPT ![p] = <<>>]
            /\ stage' = [stage EXCEPT ![p] = "idle"]
            /\ UNCHANGED <<queue, dropped, mainThread>>
  /\ UNCHANGED <<running, ready, dispatcher, dispatching>>

\* Under the lock of the queue.  A refused event of the loop ends the session.
Push(p) ==
  /\ stage[p] = "push"
  /\ IF Len(queue) < QueueCapacity
       THEN /\ queue' = queue \o posting[p]
            /\ stage' = [stage EXCEPT ![p] = "signal"]
            /\ UNCHANGED <<posting, dropped, mainThread>>
       ELSE /\ dropped' = dropped + 1
            /\ posting' = [posting EXCEPT ![p] = <<>>]
            /\ stage' = [stage EXCEPT ![p] = "idle"]
            /\ mainThread' = IF p = "main" THEN "stopMidi" ELSE mainThread
            /\ UNCHANGED queue
  /\ UNCHANGED <<running, ready, dispatcher, dispatching>>

\* The flag is set under its mutex, then the dispatcher is notified.
Signal(p) ==
  /\ stage[p] = "signal" /\ Flag
  /\ ready' = TRUE
  /\ dispatcher' = IF dispatcher = "asleep" THEN "locked" ELSE dispatcher
  /\ posting' = [posting EXCEPT ![p] = <<>>]
  /\ stage' = [stage EXCEPT ![p] = "idle"]
  /\ UNCHANGED <<queue, running, dispatching, dropped, mainThread>>

Post(p) ==
  /\ Push(p) \/ Signal(p)
  /\ UNCHANGED <<deviceVars, bridgeVars, inbox, handled, keysPressed, uncounted>>

--------------------------------------------------------------------------
(* The bridge worker: recv_timeout in a loop                               *)

BridgeIdle == stage["bridge"] = "idle"

BridgeReceives ==
  /\ bridge = "receive" /\ BridgeIdle /\ channel # <<>>
  /\ channel' = Tail(channel)
  /\ IF running
       THEN StartPost("bridge", Head(channel)) /\ UNCHANGED dropped
       ELSE dropped' = dropped + 1 /\ UNCHANGED posterVars
  /\ UNCHANGED <<deviceVars, connected, serving, bridge, managerVars, loopVars, uncounted>>

BridgeTimesOut ==
  /\ bridge = "receive" /\ BridgeIdle /\ channel = <<>> /\ connected
  /\ bridge' = "timedOut"
  /\ UNCHANGED <<deviceVars, channel, connected, serving, posterVars, managerVars, loopVars, losses>>

\* running is read some time after the timeout.
BridgeReadsFlag ==
  /\ bridge = "timedOut"
  /\ bridge' = IF serving THEN "receive" ELSE "done"
  /\ UNCHANGED <<deviceVars, channel, connected, serving, posterVars, managerVars, loopVars, losses>>

BridgeDisconnected ==
  /\ bridge = "receive" /\ BridgeIdle /\ channel = <<>> /\ ~connected
  /\ bridge' = "done"
  /\ UNCHANGED <<deviceVars, channel, connected, serving, posterVars, managerVars, loopVars, losses>>

--------------------------------------------------------------------------
(* The dispatch thread                                                     *)

Rest == UNCHANGED <<deviceVars, bridgeVars, posterVars, keysPressed, handled, mainThread, dropped>>

CheckRunning ==
  /\ dispatcher = "check"
  /\ dispatcher' = IF running THEN "locked" ELSE "done"
  /\ UNCHANGED <<queue, running, ready, dispatching, inbox, uncounted>> /\ Rest

BadTestFlag ==                     \* the flag is cleared before the wait, not after it
  /\ dispatcher = "locked"
  /\ ready' = FALSE
  /\ dispatcher' = IF running THEN "sleeping" ELSE "done"
  /\ UNCHANGED <<queue, running, dispatching, inbox, uncounted>> /\ Rest

\* while !ready && running, with the mutex; the second test of running comes after it.
TestFlag ==
  /\ dispatcher = "locked"
  /\ IF ready \/ ~running
       THEN ready' = FALSE /\ dispatcher' = (IF running THEN "drain" ELSE "done")
       ELSE dispatcher' = "sleeping" /\ UNCHANGED ready
  /\ UNCHANGED <<queue, running, dispatching, inbox, uncounted>> /\ Rest

\* wait gives the mutex back and sleeps in one step; it may return for no reason.
FallAsleep ==
  /\ dispatcher = "sleeping"
  /\ dispatcher' = "asleep"
  /\ UNCHANGED <<queue, running, ready, dispatching, inbox, uncounted>> /\ Rest

SpuriousWakeup ==
  /\ dispatcher = "asleep"
  /\ dispatcher' = "locked"
  /\ UNCHANGED <<queue, running, ready, dispatching, inbox, uncounted>> /\ Rest

\* drain_and_dispatch takes the whole queue; no lock is held while it is dispatched.
TakeBatch ==
  /\ dispatcher = "drain"
  /\ dispatching' = queue /\ queue' = <<>>
  /\ dispatcher' = "deliver"
  /\ UNCHANGED <<running, ready, inbox, uncounted>> /\ Rest

\* RuntimeInboxListener: a full inbox refuses the event, and nobody learns of it.
Deliver ==
  /\ dispatcher = "deliver" /\ dispatching # <<>>
  /\ dispatching' = Tail(dispatching)
  /\ IF Len(inbox) < InboxCapacity
       THEN inbox' = Append(inbox, Head(dispatching)) /\ UNCHANGED uncounted
       ELSE uncounted' = [uncounted EXCEPT ![Head(dispatching)[1]] = @ + 1] /\ UNCHANGED inbox
  /\ UNCHANGED <<queue, running, ready, dispatcher>> /\ Rest

BatchEnds ==
  /\ dispatcher = "deliver" /\ dispatching = <<>>
  /\ dispatcher' = "check"
  /\ UNCHANGED <<queue, running, ready, dispatching, inbox, uncounted>> /\ Rest

--------------------------------------------------------------------------
(* The event loop, and the end of the session                              *)

MainIdle == stage["main"] = "idle"

\* input.poll() returns a key: it is posted to the manager.
KeyPressed ==
  /\ mainThread = "loop" /\ MainIdle /\ keysPressed < MaxKeys
  /\ keysPressed' = keysPressed + 1
  /\ StartPost("main", <<"key", keysPressed'>>)
  /\ UNCHANGED <<deviceVars, bridgeVars, managerVars, inbox, handled, mainThread, losses>>

Handled(e) == handled' = [handled EXCEPT ![e[1]] = [count |-> @.count + 1, last |-> e[2]]]

BadHandle ==                       \* the loop calls process_pending as well
  /\ mainThread = "loop" /\ MainIdle
  /\ IF inbox # <<>>
       THEN Handled(Head(inbox)) /\ inbox' = Tail(inbox) /\ UNCHANGED queue
       ELSE queue # <<>> /\ Handled(Head(queue)) /\ queue' = Tail(queue) /\ UNCHANGED inbox
  /\ UNCHANGED <<deviceVars, bridgeVars, posterVars, running, ready, dispatcher, dispatching,
                 keysPressed, mainThread, losses>>

\* One event of the inbox per pass.
Handle ==
  /\ mainThread = "loop" /\ MainIdle /\ inbox # <<>>
  /\ Handled(Head(inbox)) /\ inbox' = Tail(inbox)
  /\ UNCHANGED <<deviceVars, bridgeVars, posterVars, managerVars, keysPressed, mainThread, losses>>

MainGoes(from, to) == mainThread = from /\ mainThread' = to
LoopRest == UNCHANGED <<posterVars, queue, ready, dispatching, inbox, handled, keysPressed, losses>>

EndSession ==
  /\ MainGoes("loop", "stopMidi") /\ MainIdle
  /\ LoopRest /\ UNCHANGED <<deviceVars, bridgeVars, running, dispatcher>>

\* MidiIo::shutdown: the stop message, then the join.  A worker with a message in its hand
\* finds the other one next.
StopMidi ==
  /\ MainGoes("stopMidi", "joinMidi")
  /\ midiWorker' = CASE midiWorker = "done" -> "done"
                     [] midiWorker # "done" /\ midiHand = <<>> -> "told"
                     [] OTHER -> "stop"
  /\ LoopRest /\ UNCHANGED <<midiSent, port, midiHand, bridgeVars, running, dispatcher>>

JoinMidi ==
  /\ MainGoes("joinMidi", "disconnect") /\ midiWorker = "done"
  /\ LoopRest /\ UNCHANGED <<deviceVars, bridgeVars, running, dispatcher>>

\* NativeEventBridge::shutdown, when its last owner drops it.
Disconnect ==
  /\ MainGoes("disconnect", "stopBridge")
  /\ connected' = FALSE
  /\ LoopRest /\ UNCHANGED <<deviceVars, channel, serving, bridge, running, dispatcher>>

StopBridge ==
  /\ MainGoes("stopBridge", "joinBridge")
  /\ serving' = FALSE
  /\ LoopRest /\ UNCHANGED <<deviceVars, channel, connected, bridge, running, dispatcher>>

JoinBridge ==
  /\ MainGoes("joinBridge", "stopManager") /\ bridge = "done"
  /\ LoopRest /\ UNCHANGED <<deviceVars, bridgeVars, running, dispatcher>>

\* EventManager::drop: running is cleared, the mutex taken and given back, the thread
\* notified and joined.
StopManager ==
  /\ MainGoes("stopManager", "wakeManager")
  /\ running' = FALSE
  /\ LoopRest /\ UNCHANGED <<deviceVars, bridgeVars, dispatcher>>

WakeManager ==
  /\ MainGoes("wakeManager", "joinManager") /\ Flag
  /\ dispatcher' = IF dispatcher = "asleep" THEN "locked" ELSE dispatcher
  /\ LoopRest /\ UNCHANGED <<deviceVars, bridgeVars, running>>

JoinManager ==
  /\ MainGoes("joinManager", "over") /\ dispatcher = "done"
  /\ LoopRest /\ UNCHANGED <<deviceVars, bridgeVars, running, dispatcher>>

--------------------------------------------------------------------------
MidiStep   == WorkerReceives \/ WorkerSends \/ WorkerCloses \/ InputsGo
BridgeStep == BridgeReceives \/ Post("bridge") \/ BridgeReadsFlag \/ BridgeDisconnected
Dispatch   == CheckRunning \/ TestFlag \/ FallAsleep \/ TakeBatch \/ Deliver \/ BatchEnds
LoopStep   == \/ Handle \/ Post("main")
              \/ StopMidi \/ JoinMidi \/ Disconnect \/ StopBridge \/ JoinBridge
              \/ StopManager \/ WakeManager \/ JoinManager

Outside == DeviceSends \/ KeyPressed \/ EndSession \/ SpuriousWakeup \/ BridgeTimesOut
           \/ DevicesLost

EventNext == MidiStep \/ BridgeStep \/ Dispatch \/ LoopStep \/ Outside

EventSpec == EventInit /\ [][EventNext]_eventVars

\* Every thread goes on, and obtains a mutex that is free again and again.
EventFairSpec ==
  /\ EventSpec
  /\ WF_eventVars(MidiStep) /\ WF_eventVars(Dispatch)
  /\ SF_eventVars(BridgeStep) /\ SF_eventVars(LoopStep)

--------------------------------------------------------------------------
(* Properties                                                              *)

\* Types, and every queue is within its capacity however the threads interleave.
EventTypeOK ==
  /\ midiSent \in 0..MaxMidi /\ keysPressed \in 0..MaxKeys
  /\ Len(port) <= PortCapacity /\ Len(channel) <= BridgeCapacity
  /\ Len(queue) <= QueueCapacity /\ Len(inbox) <= InboxCapacity
  /\ midiWorker \in {"run", "told", "stop", "closing", "done"} /\ Len(midiHand) <= 1
  /\ connected \in BOOLEAN /\ serving \in BOOLEAN /\ running \in BOOLEAN /\ ready \in BOOLEAN
  /\ bridge \in {"receive", "timedOut", "done"}
  /\ \A p \in Posters : stage[p] \in {"idle", "push", "signal"} /\ Len(posting[p]) <= 1
  /\ dispatcher \in {"check", "locked", "sleeping", "asleep", "drain", "deliver", "done"}

Unpushed(p)  == IF stage[p] = "push" THEN posting[p] ELSE <<>>

\* What is under way, in the order in which it will arrive.
UnderWay ==
  inbox \o dispatching \o queue \o Unpushed("main") \o Unpushed("bridge")
        \o channel \o midiHand \o port

\* The events of one source are handled in the order in which they came: there is one
\* drainer of the queue, and it takes no batch before it has delivered the last.
InOrder ==
  LET way == UnderWay IN
  \A i \in 1..Len(way) :
    /\ handled[way[i][1]].last < way[i][2]
    /\ \A j \in 1..(i - 1) : way[j][1] = way[i][1] => way[j][2] < way[i][2]

Waiting == Len(port) + Len(midiHand) + Len(channel) + Len(Unpushed("bridge"))
           + Len(Unpushed("main")) + Len(queue) + Len(dispatching) + Len(inbox)

\* What came is handled, waits in a queue (after the end: one nobody reads), is in the
\* hands of a thread, was counted as refused, or was lost where nothing counts it.
Accounted ==
  midiSent + keysPressed =
    Waiting + dropped + uncounted["midi"] + uncounted["key"] + uncounted["port"]
    + handled["midi"].count + handled["key"].count

\* Only the end of a session throws away what waits in the port.
OnlyTheEndDiscards == uncounted["port"] # 0 => mainThread \notin {"loop", "stopMidi"}

\* While the session goes on, no event disappears without being counted, except at the
\* inbox; the end adds what it finds in the port of the MIDI back end.  A key the manager
\* refuses ends the session.
LossesAreCounted == Accounted /\ OnlyTheEndDiscards

\* No wakeup is lost: what is queued is dispatched while the manager runs.
QueueIsDispatched == (queue # <<>>) ~> (queue = <<>> \/ ~running)

\* The end of the session waits for three threads and does come to its end.
EndComes == (mainThread = "stopMidi") ~> (mainThread = "over")

\* Neither a poster between the dispatcher's test and its sleep, nor a thread the end
\* joins that sleeps or waits itself, holds up what is queued or the end.
DeliveryMovesOn == QueueIsDispatched /\ EndComes
==========================================================================
