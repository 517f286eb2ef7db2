----------------------- MODULE EventDelivery_proof -----------------------
(***************************************************************************)
(* What EventDelivery promises for any capacities and any number of        *)
(* events: the queues stay within their capacities, no event is lost       *)
(* without being counted but at the inbox and, by the end, in the port, no *)
(* wakeup of the dispatch thread is lost, and the events of one source are *)
(* handled in order.                                                       *)
(*                                                                         *)
(* Conservation (EventInv) needs to know that nothing is forgotten where   *)
(* it is overwritten: a batch is taken when the last is gone, an event     *)
(* posted when the last is.  Order (OrderInv) is stated of the pieces of   *)
(* the way: each is in order, behind what was handled and before what is   *)
(* to come, and what the sources share is ahead of what is on the way of   *)
(* one.  A step joins pieces, moves their border or leaves something out.  *)
(***************************************************************************)
EXTENDS EventDelivery, SequenceTheorems, TLAPS

USE DEF Sources, Posters

LEMMA Bounds ==
  /\ PortCapacity \in Nat /\ BridgeCapacity \in Nat /\ QueueCapacity \in Nat
  /\ InboxCapacity \in Nat /\ MaxMidi \in Nat /\ MaxKeys \in Nat
  BY EventAssumption

Events == Sources \X Nat
AtMost(seq, n) == seq \in Seq(Events) /\ Len(seq) <= n

WorkerStates == {"run", "told", "stop", "closing", "done"}

DeviceTypes ==
  /\ midiSent \in 0..MaxMidi /\ AtMost(port, PortCapacity)
  /\ midiWorker \in WorkerStates /\ AtMost(midiHand, 1)

BridgeTypes ==
  /\ AtMost(channel, BridgeCapacity) /\ connected \in BOOLEAN /\ serving \in BOOLEAN
  /\ bridge \in {"receive", "timedOut", "done"}

PosterTypes ==
  /\ posting \in [Posters -> Seq(Events)] /\ stage \in [Posters -> {"idle", "push", "signal"}]
  /\ \A p \in Posters : Len(posting[p]) = IF stage[p] = "idle" THEN 0 ELSE 1

ManagerTypes ==
  /\ AtMost(queue, QueueCapacity) /\ running \in BOOLEAN /\ ready \in BOOLEAN
  /\ dispatcher \in {"check", "locked", "sleeping", "asleep", "drain", "deliver", "done"}
  /\ dispatching \in Seq(Events) /\ (dispatcher # "deliver" => dispatching = <<>>)

LoopTypes ==
  /\ AtMost(inbox, InboxCapacity) /\ keysPressed \in 0..MaxKeys
  /\ \A s \in Sources : handled[s].count \in Nat
  /\ handled = [s \in Sources |-> handled[s]]

LossTypes == dropped \in Nat /\ uncounted \in [Sources \cup {"port"} -> Nat]

EventTypes ==
  DeviceTypes /\ BridgeTypes /\ PosterTypes /\ ManagerTypes /\ LoopTypes /\ LossTypes

\* What is queued will be drained: the flag is up, or about to be, or the dispatch thread
\* is on its way to the queue.
NoLostWakeup ==
  queue # <<>> => \/ ready \/ dispatcher \in {"drain", "done"} \/ ~running
                  \/ \E p \in Posters : stage[p] = "signal"

\* And a dispatch thread that sleeps through the end of the manager is about to be woken.
EndIsNoticed ==
  ~running => mainThread = "wakeManager" \/ dispatcher \notin {"sleeping", "asleep"}

\* The loop does not end the session in the middle of a post.
LoopPosts == stage["main"] # "idle" => mainThread = "loop"

EventInv == EventTypes /\ Accounted /\ NoLostWakeup /\ EndIsNoticed /\ LoopPosts

--------------------------------------------------------------------------
LEMMA Pushing ==
  ASSUME NEW S, NEW s \in Seq(S), NEW e \in S
  PROVE  /\ Append(s, e) \in Seq(S) /\ Len(Append(s, e)) = Len(s) + 1
         /\ <<e>> \in Seq(S) /\ Len(<<e>>) = 1
  OBVIOUS

LEMMA Pulling ==
  ASSUME NEW S, NEW s \in Seq(S), s # <<>>
  PROVE  /\ Tail(s) \in Seq(S) /\ Len(Tail(s)) = Len(s) - 1 /\ Len(s) >= 1 /\ Head(s) \in S
  OBVIOUS

LEMMA Single ==
  ASSUME NEW S, NEW s \in Seq(S), s # <<>>, Len(s) <= 1 PROVE Len(s) = 1
<1> DEFINE n == Len(s)
<1>1. n >= 1 /\ n \in Nat /\ n <= 1
  BY Pulling, LenProperties
<1> HIDE DEF n
<1>2. n = 1
  BY <1>1
<1> QED
  BY <1>2 DEF n

LEMMA Joining ==
  ASSUME NEW S, NEW s \in Seq(S), NEW t \in Seq(S)
  PROVE  s \o t \in Seq(S) /\ Len(s \o t) = Len(s) + Len(t)
  OBVIOUS

\* What the posters still have to push, as a number.
PushCount(p) == IF stage[p] = "push" THEN 1 ELSE 0

LEMMA UnpushedCount ==
  ASSUME PosterTypes, NEW p \in Posters
  PROVE  Len(Unpushed(p)) = PushCount(p) /\ PushCount(p) \in Nat
  BY DEF PosterTypes, Unpushed, PushCount

\* The books, by place: before the bridge, around the queue, behind it, refused, handled.
Upstream   == Len(port) + Len(midiHand) + Len(channel)
Posted     == PushCount("bridge") + PushCount("main") + Len(queue)
Downstream == Len(dispatching) + Len(inbox)
RefusedMidi == uncounted["midi"]
RefusedKeys == uncounted["key"]
Discarded  == uncounted["port"]
Lost       == dropped + RefusedMidi + RefusedKeys + Discarded
HandledMidi == handled["midi"].count
HandledKeys == handled["key"].count
Finished   == HandledMidi + HandledKeys

Books == midiSent + keysPressed = Upstream + Posted + Downstream + Lost + Finished

\* Every summand is a number.
Counts ==
  /\ midiSent \in Nat /\ keysPressed \in Nat
  /\ Len(port) \in Nat /\ Len(midiHand) \in Nat /\ Len(channel) \in Nat
  /\ PushCount("bridge") \in Nat /\ PushCount("main") \in Nat
  /\ Len(queue) \in Nat /\ Len(dispatching) \in Nat /\ Len(inbox) \in Nat
  /\ dropped \in Nat /\ RefusedMidi \in Nat /\ RefusedKeys \in Nat /\ Discarded \in Nat
  /\ HandledMidi \in Nat /\ HandledKeys \in Nat

Sums ==
  /\ midiSent \in Nat /\ keysPressed \in Nat /\ Upstream \in Nat /\ Posted \in Nat
  /\ Downstream \in Nat /\ Lost \in Nat /\ Finished \in Nat

LEMMA Numbers == ASSUME EventTypes PROVE Counts /\ Sums
<1>1. midiSent \in Nat /\ Len(port) \in Nat /\ Len(midiHand) \in Nat
  BY DEF EventTypes, DeviceTypes, AtMost
<1>2. Len(channel) \in Nat
  BY DEF EventTypes, BridgeTypes, AtMost
<1>3. PushCount("bridge") \in Nat /\ PushCount("main") \in Nat
  BY DEF PushCount
<1>4. Len(queue) \in Nat /\ Len(dispatching) \in Nat
  BY DEF EventTypes, ManagerTypes, AtMost
<1>5. /\ Len(inbox) \in Nat /\ keysPressed \in Nat
      /\ HandledMidi \in Nat /\ HandledKeys \in Nat
  BY DEF EventTypes, LoopTypes, AtMost, HandledMidi, HandledKeys
<1>6. dropped \in Nat /\ RefusedMidi \in Nat /\ RefusedKeys \in Nat /\ Discarded \in Nat
  BY DEF EventTypes, LossTypes, RefusedMidi, RefusedKeys, Discarded
<1>7. Counts
  BY <1>1, <1>2, <1>3, <1>4, <1>5, <1>6 DEF Counts
<1>8. Upstream \in Nat /\ Posted \in Nat
  BY <1>7 DEF Counts, Upstream, Posted
<1>9. Downstream \in Nat /\ Lost \in Nat /\ Finished \in Nat
  <2>1. Downstream \in Nat
    BY <1>7 DEF Counts, Downstream
  <2>2. Lost \in Nat
    BY <1>7 DEF Counts, Lost
  <2>3. Finished \in Nat
    BY <1>7 DEF Counts, Finished
  <2> QED
    BY <2>1, <2>2, <2>3
<1> QED
  BY <1>7, <1>8, <1>9 DEF Sums, Counts

LEMMA BooksKept == EventTypes => (Accounted <=> Books)
<1> SUFFICES ASSUME EventTypes PROVE Accounted <=> Books
  OBVIOUS
<1> DEFINE u == Len(Unpushed("bridge"))
           v == Len(Unpushed("main"))
<1>1. u = PushCount("bridge") /\ v = PushCount("main")
  BY UnpushedCount DEF EventTypes
<1>2. Counts /\ Sums
  BY Numbers
<1>3. Waiting = Upstream + Posted + Downstream
  <2>1. Waiting = Len(port) + Len(midiHand) + Len(channel) + u + v + Len(queue)
                  + Len(dispatching) + Len(inbox)
    BY DEF Waiting
  <2>2. Len(port) + Len(midiHand) + Len(channel) = Upstream
    BY DEF Upstream
  <2>3. Upstream + u + v + Len(queue) = Upstream + Posted
    <3>1. u + v + Len(queue) = Posted /\ u \in Nat /\ v \in Nat
      BY <1>1, <1>2 DEF Posted, Counts
    <3> HIDE DEF u, v
    <3> QED
      BY <1>2, <3>1 DEF Counts, Sums
  <2>4. Upstream + Posted + Len(dispatching) + Len(inbox) = Upstream + Posted + Downstream
    BY <1>2 DEF Downstream, Counts, Sums
  <2> QED
    BY <2>1, <2>2, <2>3, <2>4
<1>4. Waiting + dropped + uncounted["midi"] + uncounted["key"] + uncounted["port"]
      = Upstream + Posted + Downstream + Lost
  <2>1. Waiting \in Nat
    BY <1>2, <1>3 DEF Sums
  <2>2. Waiting + dropped + RefusedMidi + RefusedKeys + Discarded = Waiting + Lost
    BY <1>2, <2>1 DEF Lost, Counts
  <2> QED
    BY <1>2, <1>3, <2>2 DEF RefusedMidi, RefusedKeys, Discarded
<1>5. Upstream + Posted + Downstream + Lost + handled["midi"].count + handled["key"].count
      = Upstream + Posted + Downstream + Lost + Finished
  <2>1. HandledMidi + HandledKeys = Finished /\ HandledMidi \in Nat /\ HandledKeys \in Nat
    BY <1>2 DEF Finished, Counts
  <2>2. Upstream + Posted + Downstream + Lost \in Nat
    BY <1>2 DEF Sums
  <2> QED
    BY <2>1, <2>2 DEF HandledMidi, HandledKeys
<1> QED
  BY <1>4, <1>5 DEF Accounted, Books

LEMMA InitInv == EventInit => EventInv
<1> SUFFICES ASSUME EventInit PROVE EventInv
  OBVIOUS
<1>1. DeviceTypes
  BY Bounds DEF EventInit, DeviceTypes, AtMost, WorkerStates
<1>2. BridgeTypes
  BY Bounds DEF EventInit, BridgeTypes, AtMost
<1>3. PosterTypes
  BY DEF EventInit, PosterTypes
<1>4. ManagerTypes
  <2>1. AtMost(queue, QueueCapacity) /\ dispatching \in Seq(Events) /\ dispatching = <<>>
    BY Bounds DEF EventInit, AtMost
  <2>2. running \in BOOLEAN /\ ready \in BOOLEAN
    BY Zenon DEF EventInit
  <2> QED
    BY <2>1, <2>2 DEF EventInit, ManagerTypes
<1>5. LoopTypes
  BY Bounds DEF EventInit, LoopTypes, AtMost
<1>6. LossTypes
  BY DEF EventInit, LossTypes
<1>7. Books
  BY DEF EventInit, Books, PushCount, Upstream, Posted, Downstream, Lost, Finished,
     RefusedMidi, RefusedKeys, Discarded, HandledMidi, HandledKeys
<1> QED
  BY <1>1, <1>2, <1>3, <1>4, <1>5, <1>6, <1>7, BooksKept
     DEF EventInit, EventInv, EventTypes, NoLostWakeup, EndIsNoticed, LoopPosts

--------------------------------------------------------------------------
(* What a step leaves alone keeps its types, and what it leaves whole its counts. *)

LEMMA DeviceKept == ASSUME DeviceTypes, UNCHANGED deviceVars PROVE DeviceTypes'
  BY DEF deviceVars, DeviceTypes, AtMost

LEMMA BridgeKept == ASSUME BridgeTypes, UNCHANGED bridgeVars PROVE BridgeTypes'
  BY DEF bridgeVars, BridgeTypes, AtMost

LEMMA PostersKept == ASSUME PosterTypes, UNCHANGED posterVars PROVE PosterTypes'
  BY DEF posterVars, PosterTypes

\* A place nothing enters or leaves.
LEMMA UpstreamKept == ASSUME UNCHANGED <<port, midiHand, channel>> PROVE Upstream' = Upstream
  BY DEF Upstream

LEMMA PostedKept == ASSUME UNCHANGED <<stage, queue>> PROVE Posted' = Posted
  BY DEF Posted, PushCount

LEMMA DownstreamKept == ASSUME UNCHANGED <<dispatching, inbox>> PROVE Downstream' = Downstream
  BY DEF Downstream

LEMMA LostKept == ASSUME UNCHANGED <<dropped, uncounted>> PROVE Lost' = Lost
  BY DEF Lost, RefusedMidi, RefusedKeys, Discarded

LEMMA Refused ==
  ASSUME Counts, dropped' = dropped + 1, UNCHANGED uncounted PROVE Lost' = Lost + 1
<1>1. RefusedMidi' = RefusedMidi /\ RefusedKeys' = RefusedKeys /\ Discarded' = Discarded
  BY DEF RefusedMidi, RefusedKeys, Discarded
<1> QED
  BY <1>1 DEF Counts, Lost

LEMMA FinishedKept == ASSUME UNCHANGED handled PROVE Finished' = Finished
  BY DEF Finished, HandledMidi, HandledKeys

LEMMA ManagerKept == ASSUME ManagerTypes, UNCHANGED managerVars PROVE ManagerTypes'
  BY DEF managerVars, ManagerTypes, AtMost

LEMMA InboxKept == ASSUME LoopTypes, UNCHANGED <<inbox, handled, keysPressed>> PROVE LoopTypes'
  BY DEF LoopTypes, AtMost

LEMMA LossesKept == ASSUME LossTypes, UNCHANGED losses PROVE LossTypes'
  BY DEF losses, LossTypes

LEMMA WakeupKept ==
  ASSUME NoLostWakeup, UNCHANGED <<managerVars, posterVars>> PROVE NoLostWakeup'
  BY DEF managerVars, posterVars, NoLostWakeup

LEMMA EndKept ==
  ASSUME EndIsNoticed, UNCHANGED <<running, dispatcher, mainThread>> PROVE EndIsNoticed'
  BY DEF EndIsNoticed

LEMMA PostsKept ==
  ASSUME LoopPosts, UNCHANGED <<posterVars, mainThread>> PROVE LoopPosts'
  BY DEF posterVars, LoopPosts

LEMMA Assembled ==
  ASSUME EventTypes', Books', NoLostWakeup', EndIsNoticed', LoopPosts' PROVE EventInv'
<1>1. (EventTypes => (Accounted <=> Books))'
  BY BooksKept, PTL
<1> QED
  BY <1>1 DEF EventInv

LEMMA Opened ==
  ASSUME EventInv
  PROVE  /\ DeviceTypes /\ BridgeTypes /\ PosterTypes /\ ManagerTypes /\ LoopTypes /\ LossTypes
         /\ Counts /\ Sums /\ Books /\ NoLostWakeup /\ EndIsNoticed /\ LoopPosts
  BY BooksKept, Numbers DEF EventInv, EventTypes

--------------------------------------------------------------------------
(* MIDI input *)

LEMMA DeviceSendsInv == EventInv /\ DeviceSends => EventInv'
<1> SUFFICES ASSUME EventInv, DeviceSends PROVE EventInv'
  OBVIOUS
<1>0. /\ DeviceTypes /\ BridgeTypes /\ PosterTypes /\ ManagerTypes /\ LoopTypes /\ LossTypes
      /\ Counts /\ Sums /\ Books /\ NoLostWakeup /\ EndIsNoticed /\ LoopPosts
  BY Opened
<1>1. /\ UNCHANGED <<midiWorker, midiHand>> /\ UNCHANGED bridgeVars /\ UNCHANGED posterVars
      /\ UNCHANGED managerVars /\ UNCHANGED loopVars
      /\ midiSent' = midiSent + 1 /\ midiSent < MaxMidi
  BY DEF DeviceSends
<1>2. /\ UNCHANGED <<running, dispatcher, queue, stage, channel, dispatching>>
      /\ UNCHANGED <<inbox, handled, keysPressed, mainThread>>
  BY <1>1 DEF managerVars, loopVars, posterVars, bridgeVars
<1>3. /\ BridgeTypes' /\ PosterTypes' /\ ManagerTypes' /\ LoopTypes'
      /\ NoLostWakeup' /\ EndIsNoticed' /\ LoopPosts'
  BY <1>0, <1>1, <1>2, BridgeKept, PostersKept, ManagerKept, InboxKept, WakeupKept, EndKept,
     PostsKept
<1>4. Posted' = Posted /\ Downstream' = Downstream /\ Finished' = Finished
  BY <1>2, PostedKept, DownstreamKept, FinishedKept
<1>5. midiSent' \in 0..MaxMidi
  BY <1>0, <1>1, Bounds DEF Counts
<1>6. CASE midiWorker # "closing" /\ Len(port) < PortCapacity
  <2>1. port' = Append(port, <<"midi", midiSent'>>) /\ UNCHANGED losses
    BY <1>6 DEF DeviceSends
  <2>2. <<"midi", midiSent'>> \in Events
    BY <1>5 DEF Events
  <2>3. port \in Seq(Events)
    BY <1>0 DEF DeviceTypes, AtMost
  <2>4. port' \in Seq(Events) /\ Len(port') = Len(port) + 1
    BY <2>1, <2>2, <2>3, Pushing
  <2>5. Len(port') <= PortCapacity
    BY <1>0, <1>6, <2>4, Bounds DEF Counts
  <2>6. DeviceTypes'
    BY <1>0, <1>1, <1>5, <2>4, <2>5 DEF DeviceTypes, AtMost
  <2>7. LossTypes' /\ Lost' = Lost
    BY <1>0, <2>1, LossesKept, LostKept DEF losses
  <2>8. Upstream' = Upstream + 1
    BY <1>0, <1>1, <1>2, <2>4 DEF Counts, Upstream
  <2>9. Books'
    BY <1>0, <1>1, <1>2, <1>4, <2>7, <2>8 DEF Books, Sums
  <2> QED
    BY <1>3, <2>6, <2>7, <2>9, Assembled DEF EventTypes
<1>7. CASE ~(midiWorker # "closing" /\ Len(port) < PortCapacity)
  <2>1. dropped' = dropped + 1 /\ UNCHANGED <<port, uncounted>>
    BY <1>7 DEF DeviceSends
  <2>2. DeviceTypes'
    BY <1>0, <1>1, <1>5, <2>1 DEF DeviceTypes, AtMost
  <2>3. LossTypes'
    BY <1>0, <2>1 DEF LossTypes
  <2>4. Lost' = Lost + 1
    BY <1>0, <2>1, Refused
  <2>5. Upstream' = Upstream
    BY <1>1, <1>2, <2>1, UpstreamKept
  <2>6. Books'
    BY <1>0, <1>1, <1>2, <1>4, <2>4, <2>5 DEF Books, Sums
  <2> QED
    BY <1>3, <2>2, <2>3, <2>6, Assembled DEF EventTypes
<1> QED
  BY <1>6, <1>7

LEMMA WorkerReceivesInv == EventInv /\ WorkerReceives => EventInv'
<1> SUFFICES ASSUME EventInv, WorkerReceives PROVE EventInv'
  OBVIOUS
<1>0. /\ DeviceTypes /\ BridgeTypes /\ PosterTypes /\ ManagerTypes /\ LoopTypes /\ LossTypes
      /\ Counts /\ Sums /\ Books /\ NoLostWakeup /\ EndIsNoticed /\ LoopPosts
  BY Opened
<1>1. /\ UNCHANGED midiSent /\ UNCHANGED bridgeVars /\ UNCHANGED posterVars
      /\ UNCHANGED managerVars /\ UNCHANGED loopVars /\ UNCHANGED losses
      /\ midiWorker' \in WorkerStates
      /\ midiHand = <<>> /\ port # <<>> /\ midiHand' = <<Head(port)>> /\ port' = Tail(port)
  BY DEF WorkerReceives, WorkerStates
<1>2. /\ UNCHANGED <<running, dispatcher, queue, stage, channel, dispatching, dropped, uncounted>>
      /\ UNCHANGED <<inbox, handled, keysPressed, mainThread>>
  BY <1>1 DEF managerVars, loopVars, posterVars, bridgeVars, losses
<1>3. /\ BridgeTypes' /\ PosterTypes' /\ ManagerTypes' /\ LoopTypes' /\ LossTypes'
      /\ NoLostWakeup' /\ EndIsNoticed' /\ LoopPosts'
  BY <1>0, <1>1, <1>2, BridgeKept, PostersKept, ManagerKept, InboxKept, LossesKept, WakeupKept,
     EndKept, PostsKept
<1>4. Posted' = Posted /\ Downstream' = Downstream /\ Lost' = Lost /\ Finished' = Finished
  BY <1>2, PostedKept, DownstreamKept, LostKept, FinishedKept
<1>5. port \in Seq(Events) /\ Len(port) <= PortCapacity
  BY <1>0 DEF DeviceTypes, AtMost
<1>6. /\ port' \in Seq(Events) /\ Len(port') = Len(port) - 1 /\ Head(port) \in Events
  BY <1>1, <1>5, Pulling
<1>7. midiHand' \in Seq(Events) /\ Len(midiHand') = 1 /\ Len(midiHand) = 0
  BY <1>1, <1>6
<1>8. Len(port') <= PortCapacity
  BY <1>0, <1>5, <1>6, Bounds DEF Counts
<1>9. DeviceTypes'
  BY <1>0, <1>1, <1>6, <1>7, <1>8 DEF DeviceTypes, AtMost
<1>10. Upstream' = Upstream
  BY <1>0, <1>2, <1>6, <1>7 DEF Counts, Upstream
<1>11. Books'
  BY <1>0, <1>1, <1>2, <1>4, <1>10 DEF Books, Sums
<1> QED
  BY <1>3, <1>9, <1>11, Assembled DEF EventTypes

LEMMA WorkerSendsInv == EventInv /\ WorkerSends => EventInv'
<1> SUFFICES ASSUME EventInv, WorkerSends PROVE EventInv'
  OBVIOUS
<1>0. /\ DeviceTypes /\ BridgeTypes /\ PosterTypes /\ ManagerTypes /\ LoopTypes /\ LossTypes
      /\ Counts /\ Sums /\ Books /\ NoLostWakeup /\ EndIsNoticed /\ LoopPosts
  BY Opened
<1>1. /\ UNCHANGED <<midiSent, port, midiWorker>> /\ UNCHANGED <<connected, serving, bridge>>
      /\ UNCHANGED posterVars /\ UNCHANGED managerVars /\ UNCHANGED loopVars
      /\ midiHand # <<>> /\ midiHand' = <<>>
  BY DEF WorkerSends
<1>2. /\ UNCHANGED <<running, dispatcher, queue, stage, dispatching>>
      /\ UNCHANGED <<inbox, handled, keysPressed, mainThread>>
  BY <1>1 DEF managerVars, loopVars, posterVars
<1>3. PosterTypes' /\ ManagerTypes' /\ LoopTypes' /\ NoLostWakeup' /\ EndIsNoticed' /\ LoopPosts'
  BY <1>0, <1>1, <1>2, PostersKept, ManagerKept, InboxKept, WakeupKept, EndKept, PostsKept
<1>4. Posted' = Posted /\ Downstream' = Downstream /\ Finished' = Finished
  BY <1>2, PostedKept, DownstreamKept, FinishedKept
<1>5. midiHand \in Seq(Events) /\ Len(midiHand) = 1
  <2>1. midiHand \in Seq(Events)
    BY <1>0 DEF DeviceTypes, AtMost
  <2>2. Len(midiHand) <= 1
    BY <1>0 DEF DeviceTypes, AtMost
  <2> QED
    BY <1>1, <2>1, <2>2, Single
<1>6. midiHand' \in Seq(Events) /\ Len(midiHand') = 0
  BY <1>1
<1>7. DeviceTypes'
  BY <1>0, <1>1, <1>6 DEF DeviceTypes, AtMost
<1>8. CASE connected /\ Len(channel) < BridgeCapacity
  <2>1. channel' = channel \o midiHand /\ UNCHANGED losses
    BY <1>8 DEF WorkerSends
  <2>2. channel \in Seq(Events)
    BY <1>0 DEF BridgeTypes, AtMost
  <2>3. channel' \in Seq(Events) /\ Len(channel') = Len(channel) + 1
    BY <1>5, <2>1, <2>2, Joining
  <2>4. Len(channel') <= BridgeCapacity
    BY <1>0, <1>8, <2>3, Bounds DEF Counts
  <2>5. BridgeTypes'
    BY <1>0, <1>1, <2>3, <2>4 DEF BridgeTypes, AtMost
  <2>6. LossTypes' /\ Lost' = Lost
    BY <1>0, <2>1, LossesKept, LostKept DEF losses
  <2>7. Upstream' = Upstream
    BY <1>0, <1>1, <1>5, <1>6, <2>3 DEF Counts, Upstream
  <2>8. Books'
    BY <1>0, <1>1, <1>2, <1>4, <2>6, <2>7 DEF Books, Sums
  <2> QED
    BY <1>3, <1>7, <2>5, <2>6, <2>8, Assembled DEF EventTypes
<1>9. CASE ~(connected /\ Len(channel) < BridgeCapacity)
  <2>1. dropped' = dropped + 1 /\ UNCHANGED <<channel, uncounted>>
    BY <1>9 DEF WorkerSends
  <2>2. BridgeTypes'
    BY <1>0, <1>1, <2>1, BridgeKept DEF bridgeVars
  <2>3. LossTypes'
    BY <1>0, <2>1 DEF LossTypes
  <2>4. Lost' = Lost + 1
    BY <1>0, <2>1, Refused
  <2>5. Upstream' = Upstream - 1
    BY <1>0, <1>1, <1>5, <1>6, <2>1 DEF Counts, Upstream
  <2>6. Books'
    BY <1>0, <1>1, <1>2, <1>4, <2>4, <2>5 DEF Books, Sums
  <2> QED
    BY <1>3, <1>7, <2>2, <2>3, <2>6, Assembled DEF EventTypes
<1> QED
  BY <1>8, <1>9

LEMMA WorkerClosesInv == EventInv /\ WorkerCloses => EventInv'
<1> SUFFICES ASSUME EventInv, WorkerCloses PROVE EventInv'
  OBVIOUS
<1>0. /\ DeviceTypes /\ BridgeTypes /\ PosterTypes /\ ManagerTypes /\ LoopTypes /\ LossTypes
      /\ Counts /\ Sums /\ Books /\ NoLostWakeup /\ EndIsNoticed /\ LoopPosts
  BY Opened
<1>1. /\ UNCHANGED <<midiSent, midiHand, dropped>> /\ UNCHANGED bridgeVars
      /\ UNCHANGED posterVars /\ UNCHANGED managerVars /\ UNCHANGED loopVars
      /\ midiWorker' \in WorkerStates /\ port' = <<>>
      /\ uncounted' = [uncounted EXCEPT !["port"] = uncounted["port"] + Len(port)]
  BY DEF WorkerCloses, WorkerStates
<1>2. /\ UNCHANGED <<running, dispatcher, queue, stage, channel, dispatching>>
      /\ UNCHANGED <<inbox, handled, keysPressed, mainThread>>
  BY <1>1 DEF managerVars, loopVars, posterVars, bridgeVars
<1>3. /\ BridgeTypes' /\ PosterTypes' /\ ManagerTypes' /\ LoopTypes'
      /\ NoLostWakeup' /\ EndIsNoticed' /\ LoopPosts'
  BY <1>0, <1>1, <1>2, BridgeKept, PostersKept, ManagerKept, InboxKept, WakeupKept, EndKept,
     PostsKept
<1>4. Posted' = Posted /\ Downstream' = Downstream /\ Finished' = Finished
  BY <1>2, PostedKept, DownstreamKept, FinishedKept
<1>5. port' \in Seq(Events) /\ Len(port') = 0
  BY <1>1
<1>6. DeviceTypes'
  BY <1>0, <1>1, <1>5, Bounds DEF DeviceTypes, AtMost
<1>7. uncounted \in [Sources \cup {"port"} -> Nat] /\ Len(port) \in Nat
  BY <1>0 DEF Counts, LossTypes
<1>8. LossTypes'
  BY <1>0, <1>1, <1>7 DEF LossTypes
<1>9. Upstream' = Upstream - Len(port)
  BY <1>0, <1>1, <1>2, <1>5 DEF Counts, Upstream
<1>10. Lost' = Lost + Len(port)
  <2>1. /\ RefusedMidi' = RefusedMidi /\ RefusedKeys' = RefusedKeys
        /\ Discarded' = Discarded + Len(port)
    BY <1>1, <1>7 DEF RefusedMidi, RefusedKeys, Discarded
  <2> QED
    BY <1>0, <1>1, <2>1 DEF Counts, Lost
<1>11. Len(port) \in Nat
  BY <1>0 DEF Counts
<1>12. Books'
  BY <1>0, <1>1, <1>2, <1>4, <1>9, <1>10, <1>11 DEF Books, Sums
<1> QED
  BY <1>3, <1>6, <1>8, <1>12, Assembled DEF EventTypes

\* The worker ends: it has closed its port, or found it empty.
WorkerEnds == InputsGo \/ DevicesLost

LEMMA WorkerEndsInv == EventInv /\ WorkerEnds => EventInv'
<1> SUFFICES ASSUME EventInv, WorkerEnds PROVE EventInv'
  OBVIOUS
<1>0. /\ DeviceTypes /\ BridgeTypes /\ PosterTypes /\ ManagerTypes /\ LoopTypes /\ LossTypes
      /\ Counts /\ Sums /\ Books /\ NoLostWakeup /\ EndIsNoticed /\ LoopPosts
  BY Opened
<1>1. /\ UNCHANGED <<midiSent, port, midiHand>> /\ UNCHANGED bridgeVars /\ UNCHANGED losses
      /\ UNCHANGED posterVars /\ UNCHANGED managerVars /\ UNCHANGED loopVars
      /\ midiWorker' \in WorkerStates
  BY DEF WorkerEnds, InputsGo, DevicesLost, WorkerStates
<1>2. /\ UNCHANGED <<running, dispatcher, queue, stage, channel, dispatching, dropped, uncounted>>
      /\ UNCHANGED <<inbox, handled, keysPressed, mainThread>>
  BY <1>1 DEF managerVars, loopVars, posterVars, bridgeVars, losses
<1>3. /\ BridgeTypes' /\ PosterTypes' /\ ManagerTypes' /\ LoopTypes' /\ LossTypes'
      /\ NoLostWakeup' /\ EndIsNoticed' /\ LoopPosts'
  BY <1>0, <1>1, <1>2, BridgeKept, PostersKept, ManagerKept, InboxKept, LossesKept, WakeupKept,
     EndKept, PostsKept
<1>4. /\ Upstream' = Upstream /\ Posted' = Posted /\ Downstream' = Downstream /\ Lost' = Lost
      /\ Finished' = Finished
  BY <1>1, <1>2, UpstreamKept, PostedKept, DownstreamKept, LostKept, FinishedKept
<1>5. DeviceTypes'
  BY <1>0, <1>1 DEF DeviceTypes, AtMost
<1>6. Books'
  BY <1>0, <1>1, <1>2, <1>4 DEF Books
<1> QED
  BY <1>3, <1>5, <1>6, Assembled DEF EventTypes

--------------------------------------------------------------------------
(* Posting *)

\* A thread that is idle starts to post.
LEMMA Starting ==
  ASSUME PosterTypes, NEW p \in Posters, stage[p] = "idle", NEW e \in Events, StartPost(p, e)
  PROVE  /\ PosterTypes' /\ stage' = [stage EXCEPT ![p] = "push"]
         /\ (Counts /\ queue' = queue => Posted' = Posted + 1)
<1>1. posting' = [posting EXCEPT ![p] = <<e>>] /\ stage' = [stage EXCEPT ![p] = "push"]
  BY DEF StartPost
<1>2. <<e>> \in Seq(Events) /\ Len(<<e>>) = 1
  OBVIOUS
<1>3. PosterTypes'
  BY <1>1, <1>2 DEF PosterTypes
<1>4. ASSUME Counts, queue' = queue PROVE Posted' = Posted + 1
  <2>1. PushCount(p) = 0 /\ stage \in [Posters -> {"idle", "push", "signal"}]
    BY DEF PushCount, PosterTypes
  <2>2. CASE p = "main"
    <3>1. /\ PushCount("main")' = 1 /\ PushCount("bridge")' = PushCount("bridge")
          /\ PushCount("main") = 0
      BY <1>1, <2>1, <2>2 DEF PushCount
    <3> QED
      BY <1>4, <3>1 DEF Counts, Posted
  <2>3. CASE p = "bridge"
    <3>1. /\ PushCount("bridge")' = 1 /\ PushCount("main")' = PushCount("main")
          /\ PushCount("bridge") = 0
      BY <1>1, <2>1, <2>3 DEF PushCount
    <3> QED
      BY <1>4, <3>1 DEF Counts, Posted
  <2> QED
    BY <2>2, <2>3
<1> QED
  BY <1>1, <1>3, <1>4

\* The thread has pushed, or been refused: one less to push.
LEMMA Pushed ==
  ASSUME PosterTypes, NEW p \in Posters, stage[p] = "push", NEW t \in {"idle", "signal"},
         stage' = [stage EXCEPT ![p] = t], Counts, NEW n \in Nat, Len(queue') = Len(queue) + n
  PROVE  Posted' = Posted - 1 + n
<1>1. PushCount(p) = 1 /\ stage \in [Posters -> {"idle", "push", "signal"}]
  BY DEF PushCount, PosterTypes
<1>2. CASE p = "main"
  <2>1. /\ PushCount("main")' = 0 /\ PushCount("bridge")' = PushCount("bridge")
        /\ PushCount("main") = 1
    BY <1>1, <1>2 DEF PushCount
  <2> QED
    BY <2>1 DEF Counts, Posted
<1>3. CASE p = "bridge"
  <2>1. /\ PushCount("bridge")' = 0 /\ PushCount("main")' = PushCount("main")
        /\ PushCount("bridge") = 1
    BY <1>1, <1>3 DEF PushCount
  <2> QED
    BY <2>1 DEF Counts, Posted
<1> QED
  BY <1>2, <1>3

\* The thread has done, and holds nothing.
LEMMA Emptied ==
  ASSUME PosterTypes, NEW p \in Posters, posting' = [posting EXCEPT ![p] = <<>>],
         stage' = [stage EXCEPT ![p] = "idle"]
  PROVE  PosterTypes'
<1>1. <<>> \in Seq(Events) /\ Len(<<>>) = 0
  OBVIOUS
<1>2. posting' \in [Posters -> Seq(Events)] /\ stage' \in [Posters -> {"idle", "push", "signal"}]
  BY <1>1 DEF PosterTypes
<1>3. ASSUME NEW q \in Posters PROVE Len(posting'[q]) = IF stage'[q] = "idle" THEN 0 ELSE 1
  <2>1. CASE q = p
    <3>1. posting'[q] = <<>> /\ stage'[q] = "idle"
      BY <2>1 DEF PosterTypes
    <3> QED
      BY <1>1, <3>1
  <2>2. CASE q # p
    <3>1. posting'[q] = posting[q] /\ stage'[q] = stage[q]
      BY <2>2 DEF PosterTypes
    <3> QED
      BY <3>1 DEF PosterTypes
  <2> QED
    BY <2>1, <2>2
<1> QED
  BY <1>2, <1>3 DEF PosterTypes

LEMMA PushInv ==
  ASSUME EventInv, NEW p \in Posters, Push(p),
         UNCHANGED <<deviceVars, bridgeVars, inbox, handled, keysPressed, uncounted>>
  PROVE  EventInv'
<1>0. /\ DeviceTypes /\ BridgeTypes /\ PosterTypes /\ ManagerTypes /\ LoopTypes /\ LossTypes
      /\ Counts /\ Sums /\ Books /\ NoLostWakeup /\ EndIsNoticed /\ LoopPosts
  BY Opened
<1>1. /\ stage[p] = "push" /\ UNCHANGED <<running, ready, dispatcher, dispatching>>
      /\ UNCHANGED deviceVars /\ UNCHANGED bridgeVars
      /\ UNCHANGED <<inbox, handled, keysPressed, uncounted>>
  BY DEF Push
<1>2. UNCHANGED <<midiSent, port, midiHand, channel>>
  BY <1>1 DEF deviceVars, bridgeVars
<1>3. DeviceTypes' /\ BridgeTypes' /\ LoopTypes'
  BY <1>0, <1>1, DeviceKept, BridgeKept, InboxKept
<1>4. Upstream' = Upstream /\ Downstream' = Downstream /\ Finished' = Finished
  BY <1>1, <1>2, UpstreamKept, DownstreamKept, FinishedKept
<1>5. /\ posting \in [Posters -> Seq(Events)] /\ stage \in [Posters -> {"idle", "push", "signal"}]
      /\ posting[p] \in Seq(Events) /\ Len(posting[p]) = 1
  BY <1>0, <1>1 DEF PosterTypes
<1>6. CASE Len(queue) < QueueCapacity
  <2>1. /\ queue' = queue \o posting[p] /\ stage' = [stage EXCEPT ![p] = "signal"]
        /\ UNCHANGED <<posting, dropped, mainThread>>
    BY <1>6 DEF Push
  <2>2. queue \in Seq(Events)
    BY <1>0 DEF ManagerTypes, AtMost
  <2>3. queue' \in Seq(Events) /\ Len(queue') = Len(queue) + 1
    <3>1. posting[p] \in Seq(Events) /\ Len(posting[p]) = 1
      BY <1>5
    <3>2. queue' = queue \o posting[p]
      BY <2>1
    <3> QED
      BY <2>2, <3>1, <3>2, Joining
  <2>4. Len(queue') <= QueueCapacity
    BY <1>0, <1>6, <2>3, Bounds DEF Counts
  <2>5. ManagerTypes'
    BY <1>0, <1>1, <2>3, <2>4 DEF ManagerTypes, AtMost
  <2>6. PosterTypes'
    BY <1>0, <1>1, <1>5, <2>1 DEF PosterTypes
  <2>7. LossTypes' /\ Lost' = Lost
    BY <1>0, <1>1, <2>1, LossesKept, LostKept DEF losses
  <2>8. Posted' = Posted
    <3>1. Posted' = Posted - 1 + 1
      BY <1>0, <1>1, <2>1, <2>3, Pushed
    <3> QED
      BY <1>0, <3>1 DEF Sums
  <2>9. Books'
    BY <1>0, <1>1, <1>2, <1>4, <2>7, <2>8 DEF Books, Sums
  <2>10. NoLostWakeup' /\ EndIsNoticed'
    BY <1>0, <1>1, <1>5, <2>1 DEF NoLostWakeup, EndIsNoticed
  <2>11. LoopPosts'
    BY <1>0, <1>1, <1>5, <2>1 DEF LoopPosts
  <2> QED
    BY <1>3, <2>5, <2>6, <2>7, <2>9, <2>10, <2>11, Assembled DEF EventTypes
<1>7. CASE ~(Len(queue) < QueueCapacity)
  <2>1. /\ dropped' = dropped + 1 /\ posting' = [posting EXCEPT ![p] = <<>>]
        /\ stage' = [stage EXCEPT ![p] = "idle"] /\ UNCHANGED queue
        /\ mainThread' = IF p = "main" THEN "stopMidi" ELSE mainThread
    BY <1>7 DEF Push
  <2>2. ManagerTypes'
    BY <1>0, <1>1, <2>1, ManagerKept DEF managerVars
  <2>3. PosterTypes'
    BY <1>0, <2>1, Emptied
  <2>4. LossTypes'
    BY <1>0, <1>1, <2>1 DEF LossTypes
  <2>5. Lost' = Lost + 1
    BY <1>0, <1>1, <2>1, Refused
  <2>6. Posted' = Posted - 1
    <3>1. Len(queue) \in Nat
      BY <1>0 DEF Counts
    <3>2. Len(queue') = Len(queue) + 0
      BY <2>1, <3>1
    <3>3. PosterTypes /\ Counts /\ stage[p] = "push" /\ stage' = [stage EXCEPT ![p] = "idle"]
      BY <1>0, <1>1, <2>1
    <3>4. Posted' = Posted - 1 + 0
      BY <3>2, <3>3, Pushed
    <3> QED
      BY <1>0, <3>4 DEF Sums
  <2>7. Books'
    BY <1>0, <1>1, <1>2, <1>4, <2>5, <2>6 DEF Books, Sums
  <2>8. NoLostWakeup'
    BY <1>0, <1>1, <1>5, <2>1 DEF NoLostWakeup
  <2>9. EndIsNoticed'
    <3>1. p = "main" => mainThread = "loop"
      BY <1>0, <1>1 DEF LoopPosts
    <3> QED
      BY <1>0, <1>1, <2>1, <3>1 DEF EndIsNoticed
  <2>10. LoopPosts'
    BY <1>0, <1>5, <2>1 DEF LoopPosts
  <2> QED
    BY <1>3, <2>2, <2>3, <2>4, <2>7, <2>8, <2>9, <2>10, Assembled DEF EventTypes
<1> QED
  BY <1>6, <1>7

LEMMA SignalInv ==
  ASSUME EventInv, NEW p \in Posters, Signal(p),
         UNCHANGED <<deviceVars, bridgeVars, inbox, handled, keysPressed, uncounted>>
  PROVE  EventInv'
<1>0. /\ DeviceTypes /\ BridgeTypes /\ PosterTypes /\ ManagerTypes /\ LoopTypes /\ LossTypes
      /\ Counts /\ Sums /\ Books /\ NoLostWakeup /\ EndIsNoticed /\ LoopPosts
  BY Opened
<1>1. /\ stage[p] = "signal" /\ ready' = TRUE
      /\ dispatcher \notin {"locked", "sleeping"}
      /\ dispatcher' = IF dispatcher = "asleep" THEN "locked" ELSE dispatcher
      /\ posting' = [posting EXCEPT ![p] = <<>>] /\ stage' = [stage EXCEPT ![p] = "idle"]
      /\ UNCHANGED <<queue, running, dispatching, dropped, mainThread>>
      /\ UNCHANGED deviceVars /\ UNCHANGED bridgeVars
      /\ UNCHANGED <<inbox, handled, keysPressed, uncounted>>
  BY DEF Signal, Flag
<1>2. UNCHANGED <<midiSent, port, midiHand, channel>>
  BY <1>1 DEF deviceVars, bridgeVars
<1>3. DeviceTypes' /\ BridgeTypes' /\ LoopTypes' /\ LossTypes'
  BY <1>0, <1>1, DeviceKept, BridgeKept, InboxKept, LossesKept DEF losses
<1>4. Upstream' = Upstream /\ Downstream' = Downstream /\ Finished' = Finished /\ Lost' = Lost
  BY <1>1, <1>2, UpstreamKept, DownstreamKept, FinishedKept, LostKept
<1>5. /\ posting \in [Posters -> Seq(Events)] /\ stage \in [Posters -> {"idle", "push", "signal"}]
  BY <1>0 DEF PosterTypes
<1>6. PosterTypes'
  BY <1>0, <1>1, Emptied
<1>7. ManagerTypes'
  <2>1. AtMost(queue, QueueCapacity)' /\ dispatching' \in Seq(Events)
    BY <1>0, <1>1 DEF ManagerTypes, AtMost
  <2>2. running' \in BOOLEAN /\ ready' \in BOOLEAN
    BY <1>0, <1>1, Zenon DEF ManagerTypes
  <2>3. /\ dispatcher' \in {"check", "locked", "sleeping", "asleep", "drain", "deliver", "done"}
        /\ (dispatcher' # "deliver" => dispatching' = <<>>)
    BY <1>0, <1>1 DEF ManagerTypes
  <2> QED
    BY <2>1, <2>2, <2>3 DEF ManagerTypes
<1>8. Posted' = Posted
  <2>1. /\ PushCount("main")' = PushCount("main") /\ PushCount("bridge")' = PushCount("bridge")
    BY <1>1, <1>5 DEF PushCount
  <2> QED
    BY <1>1, <2>1 DEF Posted
<1>9. Books'
  BY <1>0, <1>1, <1>2, <1>4, <1>8 DEF Books, Sums
<1>10. NoLostWakeup'
  BY <1>1, Zenon DEF NoLostWakeup
<1>11. EndIsNoticed'
  BY <1>0, <1>1 DEF EndIsNoticed
<1>12. LoopPosts'
  BY <1>0, <1>1, <1>5 DEF LoopPosts
<1> QED
  BY <1>3, <1>6, <1>7, <1>9, <1>10, <1>11, <1>12, Assembled DEF EventTypes

LEMMA PostInv == ASSUME EventInv, NEW p \in Posters, Post(p) PROVE EventInv'
<1>1. UNCHANGED <<deviceVars, bridgeVars, inbox, handled, keysPressed, uncounted>>
  BY DEF Post
<1>2. CASE Push(p)
  BY <1>1, <1>2, PushInv
<1>3. CASE Signal(p)
  BY <1>1, <1>3, SignalInv
<1> QED
  BY <1>2, <1>3 DEF Post

--------------------------------------------------------------------------
(* The bridge worker *)

LEMMA BridgeReceivesInv == EventInv /\ BridgeReceives => EventInv'
<1> SUFFICES ASSUME EventInv, BridgeReceives PROVE EventInv'
  OBVIOUS
<1>0. /\ DeviceTypes /\ BridgeTypes /\ PosterTypes /\ ManagerTypes /\ LoopTypes /\ LossTypes
      /\ Counts /\ Sums /\ Books /\ NoLostWakeup /\ EndIsNoticed /\ LoopPosts
  BY Opened
<1>1. /\ stage["bridge"] = "idle" /\ channel # <<>> /\ channel' = Tail(channel)
      /\ UNCHANGED <<connected, serving, bridge, uncounted>>
      /\ UNCHANGED deviceVars /\ UNCHANGED managerVars /\ UNCHANGED loopVars
  BY DEF BridgeReceives, BridgeIdle
<1>2. /\ UNCHANGED <<midiSent, port, midiHand, queue, running, ready, dispatcher, dispatching>>
      /\ UNCHANGED <<inbox, handled, keysPressed, mainThread>>
  BY <1>1 DEF managerVars, loopVars, deviceVars
<1>3. DeviceTypes' /\ ManagerTypes' /\ LoopTypes' /\ EndIsNoticed'
  BY <1>0, <1>1, <1>2, DeviceKept, ManagerKept, InboxKept, EndKept
<1>4. Downstream' = Downstream /\ Finished' = Finished
  BY <1>2, DownstreamKept, FinishedKept
<1>5. channel \in Seq(Events) /\ Len(channel) <= BridgeCapacity
  BY <1>0 DEF BridgeTypes, AtMost
<1>6. channel' \in Seq(Events) /\ Len(channel') = Len(channel) - 1 /\ Head(channel) \in Events
  BY <1>1, <1>5, Pulling
<1>7. Len(channel') <= BridgeCapacity
  BY <1>0, <1>5, <1>6, Bounds DEF Counts
<1>8. BridgeTypes'
  BY <1>0, <1>1, <1>6, <1>7 DEF BridgeTypes, AtMost
<1>9. Upstream' = Upstream - 1
  BY <1>0, <1>2, <1>6 DEF Counts, Upstream
<1>10. CASE running
  <2>1. StartPost("bridge", Head(channel)) /\ UNCHANGED dropped
    BY <1>10 DEF BridgeReceives
  <2>2. /\ PosterTypes' /\ stage' = [stage EXCEPT !["bridge"] = "push"] /\ Posted' = Posted + 1
    BY <1>0, <1>1, <1>2, <1>6, <2>1, Starting
  <2>3. LossTypes' /\ Lost' = Lost
    BY <1>0, <1>1, <2>1, LossesKept, LostKept DEF losses
  <2>4. Books'
    BY <1>0, <1>2, <1>4, <1>9, <2>2, <2>3 DEF Books, Sums
  <2>5. stage \in [Posters -> {"idle", "push", "signal"}]
    BY <1>0 DEF PosterTypes
  <2>6. NoLostWakeup'
    BY <1>0, <1>1, <1>2, <2>2, <2>5 DEF NoLostWakeup
  <2>7. LoopPosts'
    BY <1>0, <1>2, <2>2, <2>5 DEF LoopPosts
  <2> QED
    BY <1>3, <1>8, <2>2, <2>3, <2>4, <2>6, <2>7, Assembled DEF EventTypes
<1>11. CASE ~running
  <2>1. dropped' = dropped + 1 /\ UNCHANGED posterVars
    BY <1>11 DEF BridgeReceives
  <2>2. UNCHANGED stage
    BY <2>1 DEF posterVars
  <2>3. PosterTypes' /\ Posted' = Posted /\ NoLostWakeup' /\ LoopPosts'
    BY <1>0, <1>1, <1>2, <2>1, <2>2, PostersKept, PostedKept, WakeupKept, PostsKept
  <2>4. LossTypes'
    BY <1>0, <1>1, <2>1 DEF LossTypes
  <2>5. Lost' = Lost + 1
    BY <1>0, <1>1, <2>1, Refused
  <2>6. Books'
    BY <1>0, <1>2, <1>4, <1>9, <2>3, <2>5 DEF Books, Sums
  <2> QED
    BY <1>3, <1>8, <2>3, <2>4, <2>6, Assembled DEF EventTypes
<1> QED
  BY <1>10, <1>11

LEMMA BridgeControlInv ==
  ASSUME EventInv, bridge' \in {"receive", "timedOut", "done"},
         UNCHANGED <<deviceVars, channel, connected, serving, posterVars, managerVars, loopVars,
                     losses>>
  PROVE  EventInv'
<1>0. /\ DeviceTypes /\ BridgeTypes /\ PosterTypes /\ ManagerTypes /\ LoopTypes /\ LossTypes
      /\ Counts /\ Sums /\ Books /\ NoLostWakeup /\ EndIsNoticed /\ LoopPosts
  BY Opened
<1>1. /\ UNCHANGED deviceVars /\ UNCHANGED posterVars /\ UNCHANGED managerVars
      /\ UNCHANGED losses /\ UNCHANGED <<channel, connected, serving>>
  OBVIOUS
<1>2. /\ UNCHANGED <<midiSent, port, midiHand, queue, running, dispatcher, dispatching, stage>>
      /\ UNCHANGED <<inbox, handled, keysPressed, mainThread, dropped, uncounted>>
  BY DEF managerVars, loopVars, deviceVars, posterVars, losses
<1>3. /\ DeviceTypes' /\ PosterTypes' /\ ManagerTypes' /\ LoopTypes' /\ LossTypes'
      /\ NoLostWakeup' /\ EndIsNoticed' /\ LoopPosts'
  BY <1>0, <1>1, <1>2, DeviceKept, PostersKept, ManagerKept, InboxKept, LossesKept, WakeupKept,
     EndKept, PostsKept
<1>4. BridgeTypes'
  BY <1>0, <1>1 DEF BridgeTypes, AtMost
<1>5. /\ Upstream' = Upstream /\ Posted' = Posted /\ Downstream' = Downstream /\ Lost' = Lost
      /\ Finished' = Finished
  BY <1>1, <1>2, UpstreamKept, PostedKept, DownstreamKept, LostKept, FinishedKept
<1>6. Books'
  BY <1>0, <1>2, <1>5 DEF Books
<1> QED
  BY <1>3, <1>4, <1>6, Assembled DEF EventTypes

--------------------------------------------------------------------------
(* The dispatch thread *)

\* A step between two places of the thread: it ends the manager, or its sleep, only as it may.
LEMMA DispatcherMoves ==
  ASSUME EventInv, Rest, UNCHANGED <<queue, running, dispatching, inbox, uncounted>>,
         ready' \in BOOLEAN,
         dispatcher' \in {"check", "locked", "sleeping", "asleep", "drain", "deliver", "done"},
         dispatcher' # "deliver" => dispatching = <<>>,
         NoLostWakeup', EndIsNoticed'
  PROVE  EventInv'
<1>0. /\ DeviceTypes /\ BridgeTypes /\ PosterTypes /\ ManagerTypes /\ LoopTypes /\ LossTypes
      /\ Counts /\ Sums /\ Books /\ NoLostWakeup /\ EndIsNoticed /\ LoopPosts
  BY Opened
<1>1. /\ UNCHANGED deviceVars /\ UNCHANGED bridgeVars /\ UNCHANGED posterVars
      /\ UNCHANGED <<keysPressed, handled, mainThread, dropped, uncounted, inbox>>
      /\ UNCHANGED <<queue, dispatching, running>>
  BY DEF Rest
<1>2. UNCHANGED <<midiSent, port, midiHand, channel, stage>>
  BY <1>1 DEF deviceVars, bridgeVars, posterVars
<1>3. DeviceTypes' /\ BridgeTypes' /\ PosterTypes' /\ LoopTypes' /\ LossTypes' /\ LoopPosts'
  BY <1>0, <1>1, DeviceKept, BridgeKept, PostersKept, InboxKept, LossesKept, PostsKept DEF losses
<1>4. ManagerTypes'
  <2>1. AtMost(queue, QueueCapacity)' /\ dispatching' \in Seq(Events)
    BY <1>0, <1>1 DEF ManagerTypes, AtMost
  <2>2. running' \in BOOLEAN /\ ready' \in BOOLEAN
    BY <1>0, <1>1, Zenon DEF ManagerTypes
  <2>3. dispatcher' # "deliver" => dispatching' = <<>>
    BY <1>1
  <2> QED
    BY <2>1, <2>2, <2>3 DEF ManagerTypes
<1>5. /\ Upstream' = Upstream /\ Posted' = Posted /\ Downstream' = Downstream /\ Lost' = Lost
      /\ Finished' = Finished
  BY <1>1, <1>2, UpstreamKept, PostedKept, DownstreamKept, LostKept, FinishedKept
<1>6. Books'
  BY <1>0, <1>1, <1>2, <1>5 DEF Books
<1> QED
  BY <1>3, <1>4, <1>6, Assembled DEF EventTypes

LEMMA DispatcherInv ==
  ASSUME EventInv, CheckRunning \/ TestFlag \/ FallAsleep \/ SpuriousWakeup \/ BatchEnds
  PROVE  EventInv'
<1>0. /\ DeviceTypes /\ BridgeTypes /\ PosterTypes /\ ManagerTypes /\ LoopTypes /\ LossTypes
      /\ Counts /\ Sums /\ Books /\ NoLostWakeup /\ EndIsNoticed /\ LoopPosts
  BY Opened
<1>1. /\ Rest /\ UNCHANGED <<queue, running, dispatching, inbox, uncounted>>
  BY DEF CheckRunning, TestFlag, FallAsleep, SpuriousWakeup, BatchEnds
<1>2. UNCHANGED <<stage, mainThread>>
  BY <1>1 DEF Rest, posterVars
<1>3. running \in BOOLEAN /\ ready \in BOOLEAN /\ (dispatcher # "deliver" => dispatching = <<>>)
  BY <1>0 DEF ManagerTypes
<1>4. CASE CheckRunning
  <2>1. /\ dispatcher = "check" /\ dispatcher' = (IF running THEN "locked" ELSE "done")
        /\ UNCHANGED ready
    BY <1>4 DEF CheckRunning
  <2>2. NoLostWakeup' /\ EndIsNoticed'
    BY <1>0, <1>1, <1>2, <2>1 DEF NoLostWakeup, EndIsNoticed
  <2> QED
    BY <1>1, <1>3, <2>1, <2>2, DispatcherMoves
<1>5. CASE TestFlag
  <2>1. CASE ready \/ ~running
    <3>1. /\ dispatcher = "locked" /\ ready' = FALSE
          /\ dispatcher' = (IF running THEN "drain" ELSE "done")
      BY <1>5, <2>1 DEF TestFlag
    <3>2. NoLostWakeup' /\ EndIsNoticed'
      BY <1>0, <1>1, <1>2, <3>1 DEF NoLostWakeup, EndIsNoticed
    <3> QED
      BY <1>1, <1>3, <3>1, <3>2, DispatcherMoves
  <2>2. CASE ~(ready \/ ~running)
    <3>1. dispatcher = "locked" /\ dispatcher' = "sleeping" /\ UNCHANGED ready
      BY <1>5, <2>2 DEF TestFlag
    <3>2. NoLostWakeup' /\ EndIsNoticed'
      BY <1>0, <1>1, <1>2, <2>2, <3>1 DEF NoLostWakeup, EndIsNoticed
    <3> QED
      BY <1>1, <1>3, <3>1, <3>2, DispatcherMoves
  <2> QED
    BY <2>1, <2>2
<1>6. CASE FallAsleep
  <2>1. dispatcher = "sleeping" /\ dispatcher' = "asleep" /\ UNCHANGED ready
    BY <1>6 DEF FallAsleep
  <2>2. NoLostWakeup' /\ EndIsNoticed'
    BY <1>0, <1>1, <1>2, <2>1 DEF NoLostWakeup, EndIsNoticed
  <2> QED
    BY <1>1, <1>3, <2>1, <2>2, DispatcherMoves
<1>7. CASE SpuriousWakeup
  <2>1. dispatcher = "asleep" /\ dispatcher' = "locked" /\ UNCHANGED ready
    BY <1>7 DEF SpuriousWakeup
  <2>2. NoLostWakeup' /\ EndIsNoticed'
    BY <1>0, <1>1, <1>2, <2>1 DEF NoLostWakeup, EndIsNoticed
  <2> QED
    BY <1>1, <1>3, <2>1, <2>2, DispatcherMoves
<1>8. CASE BatchEnds
  <2>1. /\ dispatcher = "deliver" /\ dispatching = <<>> /\ dispatcher' = "check"
        /\ UNCHANGED ready
    BY <1>8 DEF BatchEnds
  <2>2. NoLostWakeup' /\ EndIsNoticed'
    BY <1>0, <1>1, <1>2, <2>1 DEF NoLostWakeup, EndIsNoticed
  <2> QED
    BY <1>1, <1>3, <2>1, <2>2, DispatcherMoves
<1> QED
  BY <1>4, <1>5, <1>6, <1>7, <1>8

LEMMA TakeBatchInv == EventInv /\ TakeBatch => EventInv'
<1> SUFFICES ASSUME EventInv, TakeBatch PROVE EventInv'
  OBVIOUS
<1>0. /\ DeviceTypes /\ BridgeTypes /\ PosterTypes /\ ManagerTypes /\ LoopTypes /\ LossTypes
      /\ Counts /\ Sums /\ Books /\ NoLostWakeup /\ EndIsNoticed /\ LoopPosts
  BY Opened
<1>1. /\ dispatcher = "drain" /\ dispatching' = queue /\ queue' = <<>> /\ dispatcher' = "deliver"
      /\ UNCHANGED <<running, ready, inbox, uncounted, keysPressed, handled, mainThread, dropped>>
      /\ UNCHANGED deviceVars /\ UNCHANGED bridgeVars /\ UNCHANGED posterVars
  BY DEF TakeBatch, Rest
<1>2. UNCHANGED <<midiSent, port, midiHand, channel, stage>>
  BY <1>1 DEF deviceVars, bridgeVars, posterVars
<1>3. DeviceTypes' /\ BridgeTypes' /\ PosterTypes' /\ LoopTypes' /\ LossTypes' /\ LoopPosts'
  BY <1>0, <1>1, DeviceKept, BridgeKept, PostersKept, InboxKept, LossesKept, PostsKept DEF losses
<1>4. dispatching = <<>> /\ queue \in Seq(Events)
  BY <1>0, <1>1 DEF ManagerTypes, AtMost
<1>5. queue' \in Seq(Events) /\ Len(queue') = 0 /\ Len(dispatching) = 0
  BY <1>1, <1>4
<1>6. Len(queue') <= QueueCapacity
  BY <1>5, Bounds
<1>7. ManagerTypes'
  BY <1>0, <1>1, <1>4, <1>5, <1>6 DEF ManagerTypes, AtMost
<1>8. Upstream' = Upstream /\ Lost' = Lost /\ Finished' = Finished
  BY <1>1, <1>2, UpstreamKept, LostKept, FinishedKept
<1>9. Posted' = Posted - Len(queue)
  <2>1. /\ PushCount("main")' = PushCount("main") /\ PushCount("bridge")' = PushCount("bridge")
    BY <1>2 DEF PushCount
  <2> QED
    BY <1>0, <1>5, <2>1 DEF Counts, Posted
<1>10. Downstream' = Downstream + Len(queue)
  <2>1. Len(dispatching') = Len(queue)
    BY <1>1
  <2> QED
    BY <1>0, <1>1, <1>5, <2>1 DEF Counts, Downstream
<1>11. Len(queue) \in Nat
  BY <1>0 DEF Counts
<1>12. Books'
  BY <1>0, <1>1, <1>2, <1>8, <1>9, <1>10, <1>11 DEF Books, Sums
<1>13. NoLostWakeup' /\ EndIsNoticed'
  BY <1>0, <1>1 DEF NoLostWakeup, EndIsNoticed
<1> QED
  BY <1>3, <1>7, <1>12, <1>13, Assembled DEF EventTypes

LEMMA DeliverInv == EventInv /\ Deliver => EventInv'
<1> SUFFICES ASSUME EventInv, Deliver PROVE EventInv'
  OBVIOUS
<1>0. /\ DeviceTypes /\ BridgeTypes /\ PosterTypes /\ ManagerTypes /\ LoopTypes /\ LossTypes
      /\ Counts /\ Sums /\ Books /\ NoLostWakeup /\ EndIsNoticed /\ LoopPosts
  BY Opened
<1>1. /\ dispatcher = "deliver" /\ dispatching # <<>> /\ dispatching' = Tail(dispatching)
      /\ UNCHANGED <<queue, running, ready, dispatcher, keysPressed, handled, mainThread, dropped>>
      /\ UNCHANGED deviceVars /\ UNCHANGED bridgeVars /\ UNCHANGED posterVars
  BY DEF Deliver, Rest
<1>2. UNCHANGED <<midiSent, port, midiHand, channel, stage>>
  BY <1>1 DEF deviceVars, bridgeVars, posterVars
<1>3. DeviceTypes' /\ BridgeTypes' /\ PosterTypes' /\ LoopPosts'
  BY <1>0, <1>1, DeviceKept, BridgeKept, PostersKept, PostsKept
<1>4. dispatching \in Seq(Events)
  BY <1>0 DEF ManagerTypes
<1>5. /\ dispatching' \in Seq(Events) /\ Len(dispatching') = Len(dispatching) - 1
      /\ Head(dispatching) \in Events
  BY <1>1, <1>4, Pulling
<1>6. ManagerTypes'
  BY <1>0, <1>1, <1>5 DEF ManagerTypes, AtMost
<1>7. NoLostWakeup' /\ EndIsNoticed'
  BY <1>0, <1>1, <1>2 DEF NoLostWakeup, EndIsNoticed
<1>8. Upstream' = Upstream /\ Posted' = Posted /\ Finished' = Finished
  BY <1>1, <1>2, UpstreamKept, PostedKept, FinishedKept
<1>9. CASE Len(inbox) < InboxCapacity
  <2>1. inbox' = Append(inbox, Head(dispatching)) /\ UNCHANGED uncounted
    BY <1>9 DEF Deliver
  <2>2. inbox \in Seq(Events)
    BY <1>0 DEF LoopTypes, AtMost
  <2>3. inbox' \in Seq(Events) /\ Len(inbox') = Len(inbox) + 1
    BY <1>5, <2>1, <2>2, Pushing
  <2>4. Len(inbox') <= InboxCapacity
    BY <1>0, <1>9, <2>3, Bounds DEF Counts
  <2>5. LoopTypes'
    BY <1>0, <1>1, <2>3, <2>4 DEF LoopTypes, AtMost
  <2>6. LossTypes' /\ Lost' = Lost
    BY <1>0, <1>1, <2>1, LossesKept, LostKept DEF losses
  <2>7. Downstream' = Downstream
    BY <1>0, <1>5, <2>3 DEF Counts, Downstream
  <2>8. Books'
    BY <1>0, <1>1, <1>2, <1>8, <2>6, <2>7 DEF Books
  <2> QED
    BY <1>3, <1>6, <1>7, <2>5, <2>6, <2>8, Assembled DEF EventTypes
<1>10. CASE ~(Len(inbox) < InboxCapacity)
  <2>1. uncounted' = [uncounted EXCEPT ![Head(dispatching)[1]] = @ + 1] /\ UNCHANGED inbox
    BY <1>10 DEF Deliver
  <2>2. PICK s \in Sources : Head(dispatching)[1] = s
    BY <1>5 DEF Events
  <2>3. uncounted' = [uncounted EXCEPT ![s] = uncounted[s] + 1]
    BY <2>1, <2>2
  <2>4. uncounted \in [Sources \cup {"port"} -> Nat]
    BY <1>0 DEF LossTypes
  <2>5. LossTypes'
    BY <1>0, <1>1, <2>3, <2>4 DEF LossTypes
  <2>6. LoopTypes'
    BY <1>0, <1>1, <2>1, InboxKept
  <2>7. Lost' = Lost + 1
    <3>1. CASE s = "midi"
      <4>1. /\ RefusedMidi' = RefusedMidi + 1 /\ RefusedKeys' = RefusedKeys
            /\ Discarded' = Discarded
        BY <2>3, <2>4, <3>1 DEF RefusedMidi, RefusedKeys, Discarded
      <4> QED
        BY <1>0, <1>1, <4>1 DEF Counts, Lost
    <3>2. CASE s = "key"
      <4>1. /\ RefusedKeys' = RefusedKeys + 1 /\ RefusedMidi' = RefusedMidi
            /\ Discarded' = Discarded
        BY <2>3, <2>4, <3>2 DEF RefusedMidi, RefusedKeys, Discarded
      <4> QED
        BY <1>0, <1>1, <4>1 DEF Counts, Lost
    <3> QED
      BY <3>1, <3>2
  <2>8. Downstream' = Downstream - 1
    BY <1>0, <1>5, <2>1 DEF Counts, Downstream
  <2>9. Books'
    BY <1>0, <1>1, <1>2, <1>8, <2>7, <2>8 DEF Books, Sums
  <2> QED
    BY <1>3, <1>6, <1>7, <2>5, <2>6, <2>9, Assembled DEF EventTypes
<1> QED
  BY <1>9, <1>10

--------------------------------------------------------------------------
(* The event loop, and the end of the session *)

LEMMA KeyPressedInv == EventInv /\ KeyPressed => EventInv'
<1> SUFFICES ASSUME EventInv, KeyPressed PROVE EventInv'
  OBVIOUS
<1>0. /\ DeviceTypes /\ BridgeTypes /\ PosterTypes /\ ManagerTypes /\ LoopTypes /\ LossTypes
      /\ Counts /\ Sums /\ Books /\ NoLostWakeup /\ EndIsNoticed /\ LoopPosts
  BY Opened
<1>1. /\ mainThread = "loop" /\ stage["main"] = "idle" /\ keysPressed < MaxKeys
      /\ keysPressed' = keysPressed + 1 /\ StartPost("main", <<"key", keysPressed'>>)
      /\ UNCHANGED <<inbox, handled, mainThread>>
      /\ UNCHANGED deviceVars /\ UNCHANGED bridgeVars /\ UNCHANGED managerVars /\ UNCHANGED losses
  BY DEF KeyPressed, MainIdle
<1>2. /\ UNCHANGED <<midiSent, port, midiHand, channel, queue, running, ready, dispatcher>>
      /\ UNCHANGED <<dispatching, dropped, uncounted>>
  BY <1>1 DEF managerVars, deviceVars, bridgeVars, losses
<1>3. DeviceTypes' /\ BridgeTypes' /\ ManagerTypes' /\ LossTypes' /\ EndIsNoticed'
  BY <1>0, <1>1, <1>2, DeviceKept, BridgeKept, ManagerKept, LossesKept, EndKept
<1>4. keysPressed' \in 0..MaxKeys
  BY <1>0, <1>1, Bounds DEF Counts
<1>5. <<"key", keysPressed'>> \in Events
  BY <1>4 DEF Events
<1>6. LoopTypes'
  BY <1>0, <1>1, <1>4 DEF LoopTypes, AtMost
<1>7. PosterTypes' /\ stage' = [stage EXCEPT !["main"] = "push"] /\ Posted' = Posted + 1
  <2> DEFINE e == <<"key", keysPressed'>>
  <2>1. e \in Events /\ StartPost("main", e)
    BY <1>1, <1>5
  <2> HIDE DEF e
  <2> QED
    BY <1>0, <1>1, <1>2, <2>1, Starting
<1>8. stage \in [Posters -> {"idle", "push", "signal"}]
  BY <1>0 DEF PosterTypes
<1>9. NoLostWakeup'
  BY <1>0, <1>1, <1>2, <1>7, <1>8 DEF NoLostWakeup
<1>10. LoopPosts'
  BY <1>1 DEF LoopPosts
<1>11. Upstream' = Upstream /\ Downstream' = Downstream /\ Lost' = Lost /\ Finished' = Finished
  BY <1>1, <1>2, UpstreamKept, DownstreamKept, LostKept, FinishedKept
<1>12. Books'
  BY <1>0, <1>1, <1>2, <1>7, <1>11 DEF Books, Sums
<1> QED
  BY <1>3, <1>6, <1>7, <1>9, <1>10, <1>12, Assembled DEF EventTypes

LEMMA HandleInv == EventInv /\ Handle => EventInv'
<1> SUFFICES ASSUME EventInv, Handle PROVE EventInv'
  OBVIOUS
<1>0. /\ DeviceTypes /\ BridgeTypes /\ PosterTypes /\ ManagerTypes /\ LoopTypes /\ LossTypes
      /\ Counts /\ Sums /\ Books /\ NoLostWakeup /\ EndIsNoticed /\ LoopPosts
  BY Opened
<1>1. /\ inbox # <<>> /\ Handled(Head(inbox)) /\ inbox' = Tail(inbox)
      /\ UNCHANGED <<keysPressed, mainThread>>
      /\ UNCHANGED deviceVars /\ UNCHANGED bridgeVars /\ UNCHANGED posterVars
      /\ UNCHANGED managerVars /\ UNCHANGED losses
  BY DEF Handle
<1>2. /\ UNCHANGED <<midiSent, port, midiHand, channel, stage, queue, running, dispatcher>>
      /\ UNCHANGED <<dispatching, dropped, uncounted>>
  BY <1>1 DEF managerVars, deviceVars, bridgeVars, posterVars, losses
<1>3. /\ DeviceTypes' /\ BridgeTypes' /\ PosterTypes' /\ ManagerTypes' /\ LossTypes'
      /\ NoLostWakeup' /\ EndIsNoticed' /\ LoopPosts'
  BY <1>0, <1>1, <1>2, DeviceKept, BridgeKept, PostersKept, ManagerKept, LossesKept, WakeupKept,
     EndKept, PostsKept
<1>4. inbox \in Seq(Events) /\ Len(inbox) <= InboxCapacity
  BY <1>0 DEF LoopTypes, AtMost
<1>5. inbox' \in Seq(Events) /\ Len(inbox') = Len(inbox) - 1 /\ Head(inbox) \in Events
  BY <1>1, <1>4, Pulling
<1>6. Len(inbox') <= InboxCapacity
  BY <1>0, <1>4, <1>5, Bounds DEF Counts
<1>7. PICK s \in Sources, n \in Nat : Head(inbox) = <<s, n>>
  BY <1>5 DEF Events
<1>8. handled' = [handled EXCEPT ![s] = [count |-> handled[s].count + 1, last |-> n]]
  <2>1. Head(inbox)[1] = s /\ Head(inbox)[2] = n
    BY <1>7
  <2>2. handled' = [handled EXCEPT ![Head(inbox)[1]] = [count |-> @.count + 1,
                                                       last |-> Head(inbox)[2]]]
    BY <1>1 DEF Handled
  <2> QED
    BY <2>1, <2>2
<1>9. /\ handled = [t \in Sources |-> handled[t]]
      /\ \A t \in Sources : handled[t].count \in Nat
  BY <1>0 DEF LoopTypes
<1>10. /\ handled' = [t \in Sources |-> handled'[t]]
       /\ handled'[s].count = handled[s].count + 1
       /\ \A t \in Sources \ {s} : handled'[t] = handled[t]
  BY <1>8, <1>9
<1>11. \A t \in Sources : handled'[t].count \in Nat
  BY <1>9, <1>10
<1>12. LoopTypes'
  BY <1>0, <1>1, <1>5, <1>6, <1>10, <1>11 DEF LoopTypes, AtMost
<1>13. Finished' = Finished + 1
  <2>1. CASE s = "midi"
    <3>1. HandledMidi' = HandledMidi + 1 /\ HandledKeys' = HandledKeys
      BY <1>10, <2>1 DEF HandledMidi, HandledKeys
    <3> QED
      BY <1>0, <3>1 DEF Counts, Finished
  <2>2. CASE s = "key"
    <3>1. HandledKeys' = HandledKeys + 1 /\ HandledMidi' = HandledMidi
      BY <1>10, <2>2 DEF HandledMidi, HandledKeys
    <3> QED
      BY <1>0, <3>1 DEF Counts, Finished
  <2> QED
    BY <2>1, <2>2
<1>14. Downstream' = Downstream - 1
  BY <1>0, <1>2, <1>5 DEF Counts, Downstream
<1>15. Upstream' = Upstream /\ Posted' = Posted /\ Lost' = Lost
  BY <1>2, UpstreamKept, PostedKept, LostKept
<1>16. Books'
  BY <1>0, <1>1, <1>2, <1>13, <1>14, <1>15 DEF Books, Sums
<1> QED
  BY <1>3, <1>12, <1>16, Assembled DEF EventTypes

\* A step of the end: it moves no event, and leaves the loop between two posts.
LEMMA EndMoves ==
  ASSUME EventInv, LoopRest, UNCHANGED <<midiSent, port, midiHand, channel, bridge>>,
         midiWorker' \in WorkerStates, connected' \in BOOLEAN, serving' \in BOOLEAN,
         running' \in BOOLEAN,
         dispatcher' \in {"check", "locked", "sleeping", "asleep", "drain", "deliver", "done"},
         dispatcher' # "deliver" => dispatching = <<>>,
         stage["main"] = "idle", NoLostWakeup', EndIsNoticed'
  PROVE  EventInv'
<1>0. /\ DeviceTypes /\ BridgeTypes /\ PosterTypes /\ ManagerTypes /\ LoopTypes /\ LossTypes
      /\ Counts /\ Sums /\ Books /\ NoLostWakeup /\ EndIsNoticed /\ LoopPosts
  BY Opened
<1>1. /\ UNCHANGED posterVars /\ UNCHANGED losses
      /\ UNCHANGED <<queue, ready, dispatching, inbox, handled, keysPressed>>
      /\ UNCHANGED <<midiSent, port, midiHand, channel, bridge>>
  BY DEF LoopRest
<1>2. UNCHANGED <<stage, dropped, uncounted>>
  BY <1>1 DEF posterVars, losses
<1>3. PosterTypes' /\ LoopTypes' /\ LossTypes'
  BY <1>0, <1>1, PostersKept, InboxKept, LossesKept
<1>4. DeviceTypes'
  BY <1>0, <1>1 DEF DeviceTypes, AtMost
<1>5. BridgeTypes'
  <2>1. AtMost(channel, BridgeCapacity)' /\ bridge' \in {"receive", "timedOut", "done"}
    BY <1>0, <1>1 DEF BridgeTypes, AtMost
  <2> QED
    BY <2>1 DEF BridgeTypes
<1>6. ManagerTypes'
  <2>1. AtMost(queue, QueueCapacity)' /\ dispatching' \in Seq(Events)
    BY <1>0, <1>1 DEF ManagerTypes, AtMost
  <2>2. running' \in BOOLEAN /\ ready' \in BOOLEAN
    BY <1>0, <1>1, Zenon DEF ManagerTypes
  <2>3. dispatcher' # "deliver" => dispatching' = <<>>
    BY <1>1
  <2> QED
    BY <2>1, <2>2, <2>3 DEF ManagerTypes
<1>7. LoopPosts'
  BY <1>2 DEF LoopPosts
<1>8. /\ Upstream' = Upstream /\ Posted' = Posted /\ Downstream' = Downstream /\ Lost' = Lost
      /\ Finished' = Finished
  BY <1>1, <1>2, UpstreamKept, PostedKept, DownstreamKept, LostKept, FinishedKept
<1>9. Books'
  BY <1>0, <1>1, <1>8 DEF Books
<1> QED
  BY <1>3, <1>4, <1>5, <1>6, <1>7, <1>9, Assembled DEF EventTypes

EndStep == \/ EndSession \/ StopMidi \/ JoinMidi \/ Disconnect \/ StopBridge \/ JoinBridge
           \/ StopManager \/ WakeManager \/ JoinManager

LEMMA EndInv == EventInv /\ EndStep => EventInv'
<1> SUFFICES ASSUME EventInv, EndStep PROVE EventInv'
  OBVIOUS
<1>0. /\ DeviceTypes /\ BridgeTypes /\ PosterTypes /\ ManagerTypes /\ LoopTypes /\ LossTypes
      /\ Counts /\ Sums /\ Books /\ NoLostWakeup /\ EndIsNoticed /\ LoopPosts
  BY Opened
<1>1. /\ LoopRest /\ UNCHANGED <<midiSent, port, midiHand, channel, bridge>>
      /\ UNCHANGED <<queue, ready, stage>>
  BY DEF EndStep, EndSession, StopMidi, JoinMidi, Disconnect, StopBridge, JoinBridge,
         StopManager, WakeManager, JoinManager, LoopRest, deviceVars, bridgeVars, posterVars
<1>2. stage["main"] = "idle"
  <2>1. CASE EndSession
    BY <2>1 DEF EndSession, MainIdle
  <2>2. CASE ~EndSession
    <3>1. mainThread # "loop"
      BY <2>2 DEF EndStep, StopMidi, JoinMidi, Disconnect, StopBridge, JoinBridge,
                  StopManager, WakeManager, JoinManager, MainGoes
    <3> QED
      BY <1>0, <3>1 DEF LoopPosts
  <2> QED
    BY <2>1, <2>2
<1>3. /\ midiWorker \in WorkerStates /\ connected \in BOOLEAN /\ serving \in BOOLEAN
      /\ running \in BOOLEAN
      /\ dispatcher \in {"check", "locked", "sleeping", "asleep", "drain", "deliver", "done"}
      /\ (dispatcher # "deliver" => dispatching = <<>>)
  BY <1>0 DEF DeviceTypes, BridgeTypes, ManagerTypes
<1>4. CASE EndSession \/ StopMidi \/ JoinMidi \/ Disconnect \/ StopBridge \/ JoinBridge \/ JoinManager
  <2>1. UNCHANGED <<running, dispatcher>> /\ mainThread # "wakeManager"
    BY <1>4 DEF EndSession, StopMidi, JoinMidi, Disconnect, StopBridge, JoinBridge, JoinManager,
                MainGoes
  <2>2. midiWorker' \in WorkerStates
    BY <1>3, <1>4 DEF EndSession, StopMidi, JoinMidi, Disconnect, StopBridge, JoinBridge,
                      JoinManager, deviceVars, WorkerStates
  <2>3. connected' \in BOOLEAN
    BY <1>3, <1>4 DEF EndSession, StopMidi, JoinMidi, Disconnect, StopBridge, JoinBridge,
                      JoinManager, bridgeVars
  <2>4. serving' \in BOOLEAN
    BY <1>3, <1>4 DEF EndSession, StopMidi, JoinMidi, Disconnect, StopBridge, JoinBridge,
                      JoinManager, bridgeVars
  <2>5. NoLostWakeup' /\ EndIsNoticed'
    BY <1>0, <1>1, <2>1 DEF NoLostWakeup, EndIsNoticed
  <2> QED
    BY <1>1, <1>2, <1>3, <2>1, <2>2, <2>3, <2>4, <2>5, EndMoves
<1>5. CASE StopManager
  <2>1. /\ mainThread' = "wakeManager" /\ running' = FALSE /\ UNCHANGED dispatcher
        /\ UNCHANGED <<midiWorker, connected, serving>>
    BY <1>5 DEF StopManager, MainGoes, deviceVars, bridgeVars
  <2>2. NoLostWakeup' /\ EndIsNoticed'
    BY <2>1 DEF NoLostWakeup, EndIsNoticed
  <2> QED
    BY <1>1, <1>2, <1>3, <2>1, <2>2, EndMoves
<1>6. CASE WakeManager
  <2>1. /\ dispatcher \notin {"locked", "sleeping"} /\ UNCHANGED running
        /\ dispatcher' = (IF dispatcher = "asleep" THEN "locked" ELSE dispatcher)
        /\ UNCHANGED <<midiWorker, connected, serving>>
    BY <1>6 DEF WakeManager, Flag, deviceVars, bridgeVars
  <2>2. NoLostWakeup' /\ EndIsNoticed'
    BY <1>0, <1>1, <2>1 DEF NoLostWakeup, EndIsNoticed
  <2> QED
    BY <1>1, <1>2, <1>3, <2>1, <2>2, EndMoves
<1> QED
  BY <1>4, <1>5, <1>6 DEF EndStep

--------------------------------------------------------------------------
LEMMA NextInv == EventInv /\ [EventNext]_eventVars => EventInv'
<1> SUFFICES ASSUME EventInv, [EventNext]_eventVars PROVE EventInv'
  OBVIOUS
<1>1. CASE MidiStep
  BY <1>1, WorkerReceivesInv, WorkerSendsInv, WorkerClosesInv, WorkerEndsInv DEF MidiStep, WorkerEnds
<1>2. CASE BridgeStep
  <2>1. CASE BridgeReceives
    BY <2>1, BridgeReceivesInv
  <2>2. CASE Post("bridge")
    BY <2>2, PostInv
  <2>3. CASE BridgeReadsFlag
    <3>1. bridge' \in {"receive", "timedOut", "done"}
      BY <2>3 DEF BridgeReadsFlag
    <3> QED
      BY <2>3, <3>1, BridgeControlInv DEF BridgeReadsFlag
  <2>4. CASE BridgeDisconnected
    BY <2>4, BridgeControlInv DEF BridgeDisconnected
  <2> QED
    BY <1>2, <2>1, <2>2, <2>3, <2>4 DEF BridgeStep
<1>3. CASE Dispatch
  BY <1>3, DispatcherInv, TakeBatchInv, DeliverInv DEF Dispatch
<1>4. CASE LoopStep
  <2>1. CASE Handle
    BY <2>1, HandleInv
  <2>2. CASE Post("main")
    BY <2>2, PostInv
  <2>3. CASE EndStep
    BY <2>3, EndInv
  <2> QED
    BY <1>4, <2>1, <2>2, <2>3 DEF LoopStep, EndStep
<1>5. CASE Outside
  <2>1. CASE DeviceSends
    BY <2>1, DeviceSendsInv
  <2>2. CASE KeyPressed
    BY <2>2, KeyPressedInv
  <2>3. CASE EndSession
    BY <2>3, EndInv DEF EndStep
  <2>4. CASE SpuriousWakeup
    BY <2>4, DispatcherInv
  <2>5. CASE BridgeTimesOut
    BY <2>5, BridgeControlInv DEF BridgeTimesOut
  <2>6. CASE DevicesLost
    BY <2>6, WorkerEndsInv DEF WorkerEnds
  <2> QED
    BY <1>5, <2>1, <2>2, <2>3, <2>4, <2>5, <2>6 DEF Outside
<1>6. CASE UNCHANGED eventVars
  <2>1. /\ UNCHANGED <<deviceVars, channel, connected, serving, posterVars, managerVars, loopVars,
                       losses>>
        /\ UNCHANGED bridge
    BY <1>6 DEF eventVars, bridgeVars
  <2>2. bridge' \in {"receive", "timedOut", "done"}
    BY <2>1, Opened DEF BridgeTypes
  <2> QED
    BY <2>1, <2>2, BridgeControlInv
<1> QED
  BY <1>1, <1>2, <1>3, <1>4, <1>5, <1>6 DEF EventNext

LEMMA InvariantHolds == EventSpec => []EventInv
  BY InitInv, NextInv, PTL DEF EventSpec

\* However the four threads interleave, every queue between the device, the keyboard and the
\* loop stays within its capacity, and every thread in a state it knows.
THEOREM QueuesAreBounded == EventSpec => []EventTypeOK
<1>1. EventInv => EventTypeOK
  <2> SUFFICES ASSUME EventInv PROVE EventTypeOK
    OBVIOUS
  <2>1. /\ DeviceTypes /\ BridgeTypes /\ PosterTypes /\ ManagerTypes /\ LoopTypes
    BY Opened
  <2>2. /\ midiSent \in 0..MaxMidi /\ Len(port) <= PortCapacity
        /\ midiWorker \in WorkerStates /\ Len(midiHand) <= 1
    BY <2>1 DEF DeviceTypes, AtMost
  <2>3. /\ Len(channel) <= BridgeCapacity /\ connected \in BOOLEAN /\ serving \in BOOLEAN
        /\ bridge \in {"receive", "timedOut", "done"}
    BY <2>1 DEF BridgeTypes, AtMost
  <2>4. \A p \in Posters : stage[p] \in {"idle", "push", "signal"} /\ Len(posting[p]) <= 1
    <3> SUFFICES ASSUME NEW p \in Posters
                 PROVE  stage[p] \in {"idle", "push", "signal"} /\ Len(posting[p]) <= 1
      OBVIOUS
    <3>1. stage[p] \in {"idle", "push", "signal"}
      BY <2>1 DEF PosterTypes
    <3>2. Len(posting[p]) = IF stage[p] = "idle" THEN 0 ELSE 1
      BY <2>1 DEF PosterTypes
    <3> QED
      BY <3>1, <3>2
  <2>5. /\ Len(queue) <= QueueCapacity /\ running \in BOOLEAN /\ ready \in BOOLEAN
        /\ dispatcher \in {"check", "locked", "sleeping", "asleep", "drain", "deliver", "done"}
    BY <2>1 DEF ManagerTypes, AtMost
  <2>6. Len(inbox) <= InboxCapacity /\ keysPressed \in 0..MaxKeys
    BY <2>1 DEF LoopTypes, AtMost
  <2> QED
    BY <2>2, <2>3, <2>4, <2>5, <2>6 DEF EventTypeOK, WorkerStates
<1> QED
  BY <1>1, InvariantHolds, PTL

\* The worker of the MIDI input is told to stop by the end, and closes its port no earlier.
DiscardInv ==
  midiWorker \in {"told", "stop", "closing"} \/ uncounted["port"] # 0
    => mainThread \notin {"loop", "stopMidi"}

LEMMA DiscardNext == EventInv /\ DiscardInv /\ [EventNext]_eventVars => DiscardInv'
<1> SUFFICES ASSUME EventInv, DiscardInv, [EventNext]_eventVars PROVE DiscardInv'
  OBVIOUS
<1> DEFINE Over == mainThread \notin {"loop", "stopMidi"}
<1>1. uncounted \in [Sources \cup {"port"} -> Nat] /\ LoopPosts
  BY Opened DEF LossTypes
<1>2. ASSUME UNCHANGED mainThread, midiWorker' = midiWorker \/ midiWorker' = "done" \/ Over,
             uncounted'["port"] = uncounted["port"] \/ Over
      PROVE  DiscardInv'
  BY <1>2 DEF DiscardInv
<1>3. CASE MidiStep
  <2>1. UNCHANGED mainThread
    BY <1>3 DEF MidiStep, WorkerReceives, WorkerSends, WorkerCloses, InputsGo, loopVars
  <2>2. midiWorker' = midiWorker \/ midiWorker' = "done" \/ Over
    BY <1>3 DEF MidiStep, WorkerReceives, WorkerSends, WorkerCloses, InputsGo, DiscardInv
  <2>3. uncounted' = uncounted \/ Over
    BY <1>3 DEF MidiStep, WorkerReceives, WorkerSends, WorkerCloses, InputsGo, losses, DiscardInv
  <2> QED
    BY <1>2, <2>1, <2>2, <2>3
<1>4. CASE BridgeStep \/ BridgeTimesOut
  <2>1. UNCHANGED <<midiWorker, uncounted>>
    BY <1>4 DEF BridgeStep, BridgeReceives, Post, BridgeReadsFlag, BridgeDisconnected,
                BridgeTimesOut, losses, deviceVars
  <2>2. UNCHANGED mainThread
    BY <1>4 DEF BridgeStep, BridgeReceives, Post, Push, Signal, BridgeReadsFlag, BridgeDisconnected,
                BridgeTimesOut, loopVars
  <2> QED
    BY <1>2, <2>1, <2>2
<1>5. CASE Dispatch \/ SpuriousWakeup
  <2>1. UNCHANGED <<midiWorker, mainThread>>
    BY <1>5 DEF Dispatch, CheckRunning, TestFlag, FallAsleep, TakeBatch, Deliver, BatchEnds,
                SpuriousWakeup, Rest, deviceVars
  <2>2. uncounted'["port"] = uncounted["port"]
    <3>1. CASE Deliver
      <4>1. dispatching # <<>> /\ dispatching \in Seq(Events)
        BY <3>1, Opened DEF Deliver, ManagerTypes
      <4>2. Head(dispatching) \in Events
        BY <4>1, Pulling
      <4>3. PICK s \in Sources : Head(dispatching)[1] = s
        BY <4>2 DEF Events
      <4>4. uncounted' = uncounted \/ uncounted' = [uncounted EXCEPT ![s] = uncounted[s] + 1]
        BY <3>1, <4>3 DEF Deliver
      <4>5. s # "port"
        OBVIOUS
      <4> QED
        BY <1>1, <4>4, <4>5
    <3>2. CASE ~Deliver
      BY <1>5, <3>2 DEF Dispatch, CheckRunning, TestFlag, FallAsleep, TakeBatch, BatchEnds,
                        SpuriousWakeup
    <3> QED
      BY <3>1, <3>2
  <2> QED
    BY <1>2, <2>1, <2>2
<1>6. CASE Handle \/ KeyPressed \/ DeviceSends \/ DevicesLost
  <2>1. /\ UNCHANGED <<mainThread, uncounted>> /\ (midiWorker' = midiWorker \/ midiWorker' = "done")
    BY <1>6 DEF Handle, KeyPressed, DeviceSends, DevicesLost, losses, deviceVars, loopVars
  <2> QED
    BY <1>2, <2>1
<1>7. CASE Post("main")
  <2>1. UNCHANGED <<midiWorker, uncounted>>
    BY <1>7 DEF Post, deviceVars
  <2>2. mainThread' = mainThread \/ ~Over
    BY <1>1, <1>7 DEF Post, Push, Signal, LoopPosts
  <2> QED
    BY <2>1, <2>2 DEF DiscardInv
<1>8. CASE EndStep
  <2>1. UNCHANGED uncounted
    BY <1>8 DEF EndStep, EndSession, StopMidi, JoinMidi, Disconnect, StopBridge, JoinBridge,
                StopManager, WakeManager, JoinManager, LoopRest, losses
  <2>2. CASE EndSession
    BY <2>1, <2>2 DEF EndSession, MainGoes, DiscardInv, deviceVars
  <2>3. CASE ~EndSession
    <3>1. mainThread' \notin {"loop", "stopMidi"}
      BY <1>8, <2>3 DEF EndStep, StopMidi, JoinMidi, Disconnect, StopBridge, JoinBridge,
                        StopManager, WakeManager, JoinManager, MainGoes
    <3> QED
      BY <3>1 DEF DiscardInv
  <2> QED
    BY <2>2, <2>3
<1>9. CASE UNCHANGED eventVars
  BY <1>9 DEF eventVars, deviceVars, loopVars, losses, DiscardInv
<1> QED
  BY <1>3, <1>4, <1>5, <1>6, <1>7, <1>8, <1>9 DEF EventNext, LoopStep, Outside, EndStep

\* Every message and every key is handled, waits in one place, was counted as refused, or was
\* lost at the inbox, as long as the session goes on: nothing disappears between two threads.
\* Its end throws away what it finds in the port, uncounted, and nothing else.
THEOREM EveryEventIsAccounted == EventSpec => []LossesAreCounted
<1>1. EventInit => DiscardInv
  BY DEF EventInit, DiscardInv
<1>2. EventInv /\ DiscardInv => LossesAreCounted
  BY DEF EventInv, DiscardInv, LossesAreCounted, OnlyTheEndDiscards
<1> QED
  BY <1>1, <1>2, InvariantHolds, DiscardNext, PTL DEF EventSpec

\* The flag and the condition variable of the manager lose no wakeup: what is queued has the
\* dispatch thread on its way, and one that sleeps through the end of the manager is woken.
THEOREM NoWakeupIsLost == EventSpec => [](NoLostWakeup /\ EndIsNoticed)
<1>1. EventInv => NoLostWakeup /\ EndIsNoticed
  BY DEF EventInv
<1> QED
  BY <1>1, InvariantHolds, PTL

--------------------------------------------------------------------------
(* The order of events.  The way from a source to the loop is cut into     *)
(* pieces; of two events of one source the one in front is the older.      *)

Rising(s)   == \A i, j \in 1..Len(s) : i < j /\ s[i][1] = s[j][1] => s[i][2] < s[j][2]
Below(s, t) == \A i \in 1..Len(s), j \in 1..Len(t) : s[i][1] = t[j][1] => s[i][2] < t[j][2]

\* The provers know much about \o, and lose their way in it when many sequences are joined.
s ++ t == s \o t

LEMMA JoinedAt ==
  ASSUME NEW s \in Seq(Events), NEW t \in Seq(Events)
  PROVE  /\ s \o t \in Seq(Events) /\ Len(s \o t) = Len(s) + Len(t)
         /\ Len(s) \in Nat /\ Len(t) \in Nat
         /\ \A i \in 1..Len(s) : (s \o t)[i] = s[i]
         /\ \A i \in 1..Len(t) : (s \o t)[Len(s) + i] = t[i]
<1>1. Len(s) \in Nat /\ Len(t) \in Nat
  BY LenProperties
<1>2. s \o t \in Seq(Events) /\ Len(s \o t) = Len(s) + Len(t)
  BY ConcatProperties
<1>3. \A i \in 1..Len(s \o t) : (s \o t)[i] = IF i <= Len(s) THEN s[i] ELSE t[i - Len(s)]
  BY ConcatProperties
<1>4. ASSUME NEW i \in 1..Len(s) PROVE (s \o t)[i] = s[i]
  BY <1>1, <1>2, <1>3
<1>5. ASSUME NEW i \in 1..Len(t) PROVE (s \o t)[Len(s) + i] = t[i]
  <2>1. Len(s) + i \in 1..Len(s \o t) /\ ~(Len(s) + i <= Len(s)) /\ (Len(s) + i) - Len(s) = i
    BY <1>1, <1>2
  <2> QED
    BY <1>3, <2>1
<1> QED
  BY <1>1, <1>2, <1>4, <1>5

\* Where an event of a joined sequence comes from.
LEMMA JoinedFrom ==
  ASSUME NEW s \in Seq(Events), NEW t \in Seq(Events), NEW i \in 1..Len(s \o t)
  PROVE  \/ i \in 1..Len(s) /\ (s \o t)[i] = s[i]
         \/ ~(i \in 1..Len(s)) /\ i - Len(s) \in 1..Len(t) /\ (s \o t)[i] = t[i - Len(s)]
<1>1. Len(s) \in Nat /\ Len(t) \in Nat /\ Len(s \o t) = Len(s) + Len(t)
  BY JoinedAt
<1>2. CASE i \in 1..Len(s)
  BY <1>2, JoinedAt
<1>3. CASE i \notin 1..Len(s)
  <2>1. i - Len(s) \in 1..Len(t) /\ Len(s) + (i - Len(s)) = i
    BY <1>1, <1>3
  <2>2. (s \o t)[Len(s) + (i - Len(s))] = t[i - Len(s)]
    BY <2>1, JoinedAt
  <2> QED
    BY <1>3, <2>1, <2>2
<1> QED
  BY <1>2, <1>3

LEMMA RisingJoin ==
  ASSUME NEW s \in Seq(Events), NEW t \in Seq(Events)
  PROVE  Rising(s ++ t) <=> Rising(s) /\ Rising(t) /\ Below(s, t)
<1> DEFINE w == s \o t
<1>1. /\ Len(s) \in Nat /\ Len(t) \in Nat /\ Len(w) = Len(s) + Len(t)
      /\ \A i \in 1..Len(s) : w[i] = s[i]
      /\ \A i \in 1..Len(t) : w[Len(s) + i] = t[i]
  BY JoinedAt
<1>2. \A i \in 1..Len(w) : \/ i \in 1..Len(s) /\ w[i] = s[i]
                           \/ i - Len(s) \in 1..Len(t) /\ ~(i \in 1..Len(s)) /\ w[i] = t[i - Len(s)]
  BY JoinedFrom
<1> HIDE DEF w
<1>3. ASSUME Rising(w) PROVE Rising(s) /\ Rising(t) /\ Below(s, t)
  <2>1. Rising(s)
    <3> SUFFICES ASSUME NEW i \in 1..Len(s), NEW j \in 1..Len(s), i < j, s[i][1] = s[j][1]
                 PROVE  s[i][2] < s[j][2]
      BY DEF Rising
    <3>1. i \in 1..Len(w) /\ j \in 1..Len(w) /\ w[i] = s[i] /\ w[j] = s[j]
      BY <1>1
    <3> QED
      BY <1>3, <3>1 DEF Rising
  <2>2. Rising(t)
    <3> SUFFICES ASSUME NEW i \in 1..Len(t), NEW j \in 1..Len(t), i < j, t[i][1] = t[j][1]
                 PROVE  t[i][2] < t[j][2]
      BY DEF Rising
    <3>1. /\ Len(s) + i \in 1..Len(w) /\ Len(s) + j \in 1..Len(w) /\ Len(s) + i < Len(s) + j
          /\ w[Len(s) + i] = t[i] /\ w[Len(s) + j] = t[j]
      BY <1>1
    <3> QED
      BY <1>3, <3>1 DEF Rising
  <2>3. Below(s, t)
    <3> SUFFICES ASSUME NEW i \in 1..Len(s), NEW j \in 1..Len(t), s[i][1] = t[j][1]
                 PROVE  s[i][2] < t[j][2]
      BY DEF Below
    <3>1. /\ i \in 1..Len(w) /\ Len(s) + j \in 1..Len(w) /\ i < Len(s) + j
          /\ w[i] = s[i] /\ w[Len(s) + j] = t[j]
      BY <1>1
    <3> QED
      BY <1>3, <3>1 DEF Rising
  <2> QED
    BY <2>1, <2>2, <2>3
<1>4. ASSUME Rising(s), Rising(t), Below(s, t) PROVE Rising(w)
  <2> SUFFICES ASSUME NEW i \in 1..Len(w), NEW j \in 1..Len(w), i < j, w[i][1] = w[j][1]
               PROVE  w[i][2] < w[j][2]
    BY DEF Rising
  <2>1. CASE i \in 1..Len(s) /\ w[i] = s[i]
    <3>1. CASE j \in 1..Len(s) /\ w[j] = s[j]
      BY <1>4, <2>1, <3>1 DEF Rising
    <3>2. CASE j - Len(s) \in 1..Len(t) /\ w[j] = t[j - Len(s)]
      BY <1>4, <2>1, <3>2 DEF Below
    <3> QED
      BY <1>2, <3>1, <3>2
  <2>2. CASE i - Len(s) \in 1..Len(t) /\ ~(i \in 1..Len(s)) /\ w[i] = t[i - Len(s)]
    <3>1. ~(j \in 1..Len(s))
      BY <1>1, <2>2
    <3>2. j - Len(s) \in 1..Len(t) /\ w[j] = t[j - Len(s)]
      BY <1>2, <3>1
    <3>3. i - Len(s) < j - Len(s)
      BY <1>1
    <3> QED
      BY <1>4, <2>2, <3>2, <3>3 DEF Rising
  <2> QED
    BY <1>2, <2>1, <2>2
<1> QED
  BY <1>3, <1>4 DEF w, ++

LEMMA BelowJoin ==
  ASSUME NEW s \in Seq(Events), NEW t \in Seq(Events), NEW u \in Seq(Events)
  PROVE  /\ Below(s ++ t, u) <=> Below(s, u) /\ Below(t, u)
         /\ Below(u, s ++ t) <=> Below(u, s) /\ Below(u, t)
<1> DEFINE w == s \o t
<1>1. /\ Len(s) \in Nat /\ Len(t) \in Nat /\ Len(w) = Len(s) + Len(t)
      /\ \A i \in 1..Len(s) : w[i] = s[i]
      /\ \A i \in 1..Len(t) : w[Len(s) + i] = t[i]
  BY JoinedAt
<1>2. \A i \in 1..Len(w) : \/ i \in 1..Len(s) /\ w[i] = s[i]
                           \/ i - Len(s) \in 1..Len(t) /\ w[i] = t[i - Len(s)]
  BY JoinedFrom
<1>3. /\ \A i \in 1..Len(s) : i \in 1..Len(w)
      /\ \A i \in 1..Len(t) : Len(s) + i \in 1..Len(w)
  BY <1>1
<1> HIDE DEF w
<1>4. Below(w, u) <=> Below(s, u) /\ Below(t, u)
  <2>1. ASSUME Below(w, u) PROVE Below(s, u) /\ Below(t, u)
    <3>1. Below(s, u)
      BY <1>1, <1>3, <2>1 DEF Below
    <3>2. SUFFICES ASSUME NEW i \in 1..Len(t), NEW j \in 1..Len(u), t[i][1] = u[j][1]
                   PROVE  t[i][2] < u[j][2]
      BY <3>1 DEF Below
    <3>3. Len(s) + i \in 1..Len(w) /\ w[Len(s) + i] = t[i]
      BY <1>1, <1>3
    <3> QED
      BY <2>1, <3>2, <3>3 DEF Below
  <2>2. ASSUME Below(s, u), Below(t, u) PROVE Below(w, u)
    BY <1>2, <2>2 DEF Below
  <2> QED
    BY <2>1, <2>2
<1>5. Below(u, w) <=> Below(u, s) /\ Below(u, t)
  <2>1. ASSUME Below(u, w) PROVE Below(u, s) /\ Below(u, t)
    <3>1. Below(u, s)
      BY <1>1, <1>3, <2>1 DEF Below
    <3>2. SUFFICES ASSUME NEW i \in 1..Len(u), NEW j \in 1..Len(t), u[i][1] = t[j][1]
                   PROVE  u[i][2] < t[j][2]
      BY <3>1 DEF Below
    <3>3. Len(s) + j \in 1..Len(w) /\ w[Len(s) + j] = t[j]
      BY <1>1, <1>3
    <3> QED
      BY <2>1, <3>2, <3>3 DEF Below
  <2>2. ASSUME Below(u, s), Below(u, t) PROVE Below(u, w)
    BY <1>2, <2>2 DEF Below
  <2> QED
    BY <2>1, <2>2
<1> QED
  BY <1>4, <1>5 DEF w, ++

LEMMA Joins == ASSUME NEW S, NEW s \in Seq(S), NEW t \in Seq(S) PROVE s ++ t \in Seq(S)
  BY Joining DEF ++

LEMMA NothingInOrder ==
  ASSUME NEW u \in Seq(Events)
  PROVE  Rising(<<>>) /\ Below(<<>>, u) /\ Below(u, <<>>)
  BY EmptySeq DEF Rising, Below

LEMMA OneInOrder ==
  ASSUME NEW u \in Seq(Events), Len(u) <= 1
  PROVE  Rising(u)
<1>1. Len(u) \in Nat
  BY LenProperties
<1> QED
  BY <1>1 DEF Rising

\* Leaving something out of a sequence disturbs no order.
LEMMA LeftOut ==
  ASSUME NEW s \in Seq(Events), NEW e \in Seq(Events), NEW t \in Seq(Events), NEW w, w = s ++ (e ++ t)
  PROVE  /\ Rising(w) => Rising(s ++ t)
         /\ \A u \in Seq(Events) : /\ Below(w, u) => Below(s ++ t, u)
                                   /\ Below(u, w) => Below(u, s ++ t)
<1> DEFINE f == e ++ t
<1>1. f \in Seq(Events) /\ w = s ++ f
  BY Joins
<1>2. Rising(f) <=> Rising(e) /\ Rising(t) /\ Below(e, t)
  BY RisingJoin
<1>3. ASSUME NEW u \in Seq(Events)
      PROVE  (Below(f, u) <=> Below(e, u) /\ Below(t, u)) /\ (Below(u, f) <=> Below(u, e) /\ Below(u, t))
  BY BelowJoin
<1> HIDE DEF f
<1>4. Rising(w) <=> Rising(s) /\ Rising(f) /\ Below(s, f)
  BY <1>1, RisingJoin
<1>5. ASSUME NEW u \in Seq(Events)
      PROVE  (Below(w, u) <=> Below(s, u) /\ Below(f, u)) /\ (Below(u, w) <=> Below(u, s) /\ Below(u, f))
  BY <1>1, BelowJoin
<1>6. Rising(w) => Rising(s ++ t)
  BY <1>2, <1>3, <1>4, RisingJoin
<1>7. ASSUME NEW u \in Seq(Events)
      PROVE  (Below(w, u) => Below(s ++ t, u)) /\ (Below(u, w) => Below(u, s ++ t))
  BY <1>3, <1>5, BelowJoin
<1> QED
  BY <1>6, <1>7

\* s may stand wherever w stood.
Thins(w, s) ==
  /\ s \in Seq(Events) /\ (Rising(w) => Rising(s))
  /\ \A u \in Seq(Events) : (Below(w, u) => Below(s, u)) /\ (Below(u, w) => Below(u, s))

LEMMA Whole == ASSUME NEW s \in Seq(Events) PROVE Thins(s, s)
  BY DEF Thins

LEMMA Thinned ==
  ASSUME NEW s \in Seq(Events), NEW e \in Seq(Events), NEW t \in Seq(Events)
  PROVE  Thins(s ++ (e ++ t), s ++ t) /\ Thins(e ++ t, t)
<1>1. Thins(s ++ (e ++ t), s ++ t)
  BY LeftOut, Joins DEF Thins
<1>2. Thins(e ++ t, t)
  BY RisingJoin, BelowJoin DEF Thins
<1> QED
  BY <1>1, <1>2

\* What l, the last events handled, s, what is on the way the sources share, k and m, what is
\* on the way of each, and c, the events to come, have to be to each other.
Between(l, s, c) == Rising(s) /\ Below(l, s) /\ Below(s, c)

Ordered(l, s, k, m, c) ==
  /\ Below(l, c) /\ Between(l, s, c) /\ Between(l, k, c) /\ Between(l, m, c)
  /\ Below(s, k) /\ Below(s, m)

LEMMA OrderedThinned ==
  ASSUME NEW l \in Seq(Events), NEW s \in Seq(Events), NEW k \in Seq(Events),
         NEW m \in Seq(Events), NEW c \in Seq(Events), Ordered(l, s, k, m, c),
         NEW s1, NEW k1, NEW m1, Thins(s, s1), Thins(k, k1), Thins(m, m1)
  PROVE  Ordered(l, s1, k1, m1, c)
<1>1. s1 \in Seq(Events) /\ k1 \in Seq(Events) /\ m1 \in Seq(Events)
  BY DEF Thins
<1>2. Between(l, s1, c) /\ Between(l, k1, c) /\ Between(l, m1, c)
  BY DEF Ordered, Between, Thins
<1>3. Below(s1, k) /\ Below(s1, m)
  BY DEF Ordered, Thins
<1>4. Below(s1, k1) /\ Below(s1, m1)
  BY <1>1, <1>3 DEF Thins
<1> QED
  BY <1>2, <1>4 DEF Ordered

\* Two sequences of different sources are in order whatever their numbers.
Of(k) == {k} \X Nat

LEMMA Apart ==
  ASSUME NEW s \in Seq(Of("key")), NEW t \in Seq(Of("midi"))
  PROVE  /\ s \in Seq(Events) /\ t \in Seq(Events) /\ Below(s, t) /\ Below(t, s)
<1>1. \A i \in 1..Len(s) : s[i] \in Of("key")
  BY LenProperties, ElementOfSeq
<1>2. \A i \in 1..Len(t) : t[i] \in Of("midi")
  BY LenProperties, ElementOfSeq
<1>3. (\A i \in 1..Len(s) : s[i][1] = "key") /\ (\A i \in 1..Len(t) : t[i][1] = "midi")
  BY <1>1, <1>2 DEF Of
<1>4. Below(s, t) /\ Below(t, s)
  BY <1>3 DEF Below
<1>5. Of("key") \subseteq Events /\ Of("midi") \subseteq Events
  BY DEF Of, Events
<1> QED
  BY <1>4, <1>5

\* The key the loop posts joins the way they share.
LEMMA OrderedShared ==
  ASSUME NEW l \in Seq(Events), NEW s \in Seq(Events), NEW k \in Seq(Events),
         NEW m \in Seq(Events), NEW c \in Seq(Events), Ordered(l, s, k, m, c),
         Below(k, m)
  PROVE  Ordered(l, s ++ k, <<>>, m, c)
<1>1. Between(l, s ++ k, c)
  BY RisingJoin, BelowJoin DEF Ordered, Between
<1>2. Between(l, <<>>, c) /\ Below(s ++ k, <<>>)
  BY NothingInOrder, Joins DEF Between
<1>3. Below(s ++ k, m)
  BY BelowJoin DEF Ordered
<1> QED
  BY <1>1, <1>2, <1>3 DEF Ordered

\* And what the bridge posts: the head of its own way.
LEMMA OrderedJoins ==
  ASSUME NEW l \in Seq(Events), NEW s \in Seq(Events), NEW k \in Seq(Events),
         NEW e \in Seq(Events), NEW m \in Seq(Events), NEW c \in Seq(Events),
         Ordered(l, s, k, e ++ m, c), Below(e, k)
  PROVE  Ordered(l, s ++ e, k, m, c)
<1>1. /\ Rising(e) /\ Rising(m) /\ Below(e, m)
      /\ Below(l, e) /\ Below(l, m) /\ Below(e, c) /\ Below(m, c) /\ Below(s, e) /\ Below(s, m)
  BY RisingJoin, BelowJoin DEF Ordered, Between
<1>2. Between(l, s ++ e, c) /\ Between(l, m, c)
  BY <1>1, RisingJoin, BelowJoin DEF Ordered, Between
<1>3. Below(s ++ e, k) /\ Below(s ++ e, m)
  BY <1>1, BelowJoin DEF Ordered
<1> QED
  BY <1>2, <1>3 DEF Ordered

--------------------------------------------------------------------------
At(s, n) == <<<<s, n>>>>

LEMMA AtType ==
  ASSUME NEW s \in Sources, NEW n \in Nat
  PROVE  At(s, n) \in Seq(Events) /\ At(s, n) \in Seq(Of(s)) /\ Len(At(s, n)) = 1 /\ At(s, n)[1] = <<s, n>>
  BY DEF At, Events, Of

LEMMA Later ==
  ASSUME NEW s \in Sources, NEW n \in Nat, NEW u \in Seq(Events), Below(u, At(s, n))
  PROVE  Below(u, At(s, n + 1)) /\ Below(At(s, n), At(s, n + 1))
<1>1. \A i \in 1..Len(u) : u[i] \in Events
  BY LenProperties, ElementOfSeq
<1>2. \A i \in 1..Len(u) : u[i][1] = s => u[i][2] < n
  <2>1. 1 \in 1..Len(At(s, n)) /\ At(s, n)[1] = <<s, n>>
    BY AtType
  <2>2. At(s, n)[1][1] = s /\ At(s, n)[1][2] = n
    BY <2>1
  <2> QED
    BY <2>1, <2>2 DEF Below
<1>3. \A i \in 1..Len(u) : u[i][1] = s => u[i][2] < n + 1
  <2> SUFFICES ASSUME NEW i \in 1..Len(u), u[i][1] = s PROVE u[i][2] < n + 1
    OBVIOUS
  <2>1. u[i][2] < n /\ u[i][2] \in Nat
    BY <1>1, <1>2 DEF Events
  <2> QED
    BY <2>1
<1>4. Below(u, At(s, n + 1))
  BY <1>3, AtType DEF Below
<1>5. Below(At(s, n), At(s, n + 1))
  <2>1. n + 1 \in Nat /\ n < n + 1
    OBVIOUS
  <2>2. /\ Len(At(s, n)) = 1 /\ At(s, n)[1] = <<s, n>>
        /\ Len(At(s, n + 1)) = 1 /\ At(s, n + 1)[1] = <<s, n + 1>>
    BY <2>1, AtType
  <2> QED
    BY <2>1, <2>2 DEF Below
<1> QED
  BY <1>4, <1>5

\* The pieces of the way: what the sources share, and what each has to itself.
Shared == inbox ++ (dispatching ++ queue)
Keys   == Unpushed("main")
Midi   == Unpushed("bridge") ++ (channel ++ (midiHand ++ port))
Last   == At("midi", handled["midi"].last) ++ At("key", handled["key"].last)
Coming == At("midi", midiSent + 1) ++ At("key", keysPressed + 1)

Kinds ==
  /\ port \in Seq(Of("midi")) /\ midiHand \in Seq(Of("midi")) /\ channel \in Seq(Of("midi"))
  /\ posting["bridge"] \in Seq(Of("midi")) /\ posting["main"] \in Seq(Of("key"))

LastTypes == \A s \in Sources : handled[s].last \in Nat

InLine == Ordered(Last, Shared, Keys, Midi, Coming)

OrderInv == Kinds /\ LastTypes /\ InLine

LEMMA Pieces ==
  ASSUME EventInv, Kinds, LastTypes
  PROVE  /\ Shared \in Seq(Events) /\ Keys \in Seq(Of("key")) /\ Midi \in Seq(Of("midi"))
         /\ Keys \in Seq(Events) /\ Midi \in Seq(Events)
         /\ Last \in Seq(Events) /\ Coming \in Seq(Events)
         /\ Unpushed("bridge") \in Seq(Of("midi"))
<1>1. Shared \in Seq(Events)
  <2>1. inbox \in Seq(Events) /\ dispatching \in Seq(Events) /\ queue \in Seq(Events)
    BY Opened DEF LoopTypes, ManagerTypes, AtMost
  <2> QED
    BY <2>1, Joins DEF Shared
<1>2. /\ \A s \in Sources : <<>> \in Seq(Of(s))
      /\ Unpushed("bridge") \in Seq(Of("midi")) /\ Keys \in Seq(Of("key"))
  BY EmptySeq DEF Kinds, Unpushed, Keys
<1>3. Midi \in Seq(Of("midi"))
  BY <1>2, Joins DEF Kinds, Midi
<1>4. Keys \in Seq(Events) /\ Midi \in Seq(Events)
  BY <1>2, <1>3, Apart
<1>5. midiSent \in Nat /\ keysPressed \in Nat
  BY Opened DEF Counts
<1>6. Last \in Seq(Events)
  <2>1. handled["midi"].last \in Nat /\ handled["key"].last \in Nat
    BY DEF LastTypes
  <2> QED
    BY <2>1, AtType, Joins DEF Last
<1>7. Coming \in Seq(Events)
  <2>1. midiSent + 1 \in Nat /\ keysPressed + 1 \in Nat
    BY <1>5
  <2> QED
    BY <2>1, AtType, Joins DEF Coming
<1> QED
  BY <1>1, <1>2, <1>3, <1>4, <1>6, <1>7

\* A step that moves events along the way or takes them off it.
LEMMA Moving ==
  ASSUME EventInv, OrderInv, Kinds', UNCHANGED <<handled, midiSent, keysPressed>>,
         Thins(Shared, Shared'), Thins(Keys, Keys'), Thins(Midi, Midi')
  PROVE  OrderInv'
<1>1. Last' = Last /\ Coming' = Coming /\ LastTypes'
  BY DEF Last, Coming, OrderInv, LastTypes
<1>2. Ordered(Last, Shared', Keys', Midi', Coming)
  BY Pieces, OrderedThinned DEF OrderInv, InLine
<1> QED
  BY <1>1, <1>2 DEF OrderInv, InLine

LEMMA SharedKept == ASSUME EventInv, OrderInv, UNCHANGED <<inbox, dispatching, queue>>
                    PROVE  Shared' = Shared /\ Thins(Shared, Shared')
  BY Pieces, Whole DEF Shared, OrderInv

LEMMA KeysKept == ASSUME EventInv, OrderInv, UNCHANGED posterVars
                  PROVE  Keys' = Keys /\ Thins(Keys, Keys')
  BY Pieces, Whole DEF Keys, Unpushed, posterVars, OrderInv

LEMMA MidiKept ==
  ASSUME EventInv, OrderInv, UNCHANGED posterVars, UNCHANGED <<channel, midiHand, port>>
  PROVE  Midi' = Midi /\ Thins(Midi, Midi') /\ Kinds'
  BY Pieces, Whole DEF Midi, Unpushed, posterVars, OrderInv, Kinds

\* Threads and the end of the session come and go, and no event moves.
LEMMA Standing ==
  ASSUME EventInv, OrderInv, UNCHANGED <<handled, midiSent, keysPressed>>,
         UNCHANGED <<inbox, dispatching, queue>>, UNCHANGED posterVars,
         UNCHANGED <<channel, midiHand, port>>
  PROVE  OrderInv'
  BY SharedKept, KeysKept, MidiKept, Moving

LEMMA OpenedSeqs ==
  ASSUME EventInv
  PROVE  /\ inbox \in Seq(Events) /\ dispatching \in Seq(Events) /\ queue \in Seq(Events)
         /\ channel \in Seq(Events) /\ midiHand \in Seq(Events) /\ port \in Seq(Events)
         /\ posting["main"] \in Seq(Events) /\ posting["bridge"] \in Seq(Events)
  BY Opened DEF DeviceTypes, BridgeTypes, PosterTypes, ManagerTypes, LoopTypes, AtMost

LEMMA Regrouped ==
  ASSUME NEW s \in Seq(Events), NEW t \in Seq(Events), NEW u \in Seq(Events)
  PROVE  (s ++ t) ++ u = s ++ (t ++ u)
  BY ConcatAssociative DEF ++

LEMMA Appended ==
  ASSUME NEW s \in Seq(Events), NEW e \in Events
  PROVE  Append(s, e) = s ++ <<e>>
  BY AppendIsConcat DEF ++

LEMMA HeadAndTail ==
  ASSUME NEW S, NEW s \in Seq(S), s # <<>>
  PROVE  /\ Head(s) \in S /\ <<Head(s)>> \in Seq(S) /\ Tail(s) \in Seq(S)
         /\ s = <<Head(s)>> ++ Tail(s)
  BY DEF ++

LEMMA Empties ==
  ASSUME NEW S, NEW s \in Seq(S)
  PROVE  <<>> \in Seq(S) /\ s ++ <<>> = s /\ <<>> ++ s = s
  BY EmptySeq, ConcatEmptySeq DEF ++

LEMMA DeviceSendsOrder == EventInv /\ OrderInv /\ DeviceSends => OrderInv'
<1> SUFFICES ASSUME EventInv, OrderInv, DeviceSends PROVE OrderInv'
  OBVIOUS
<1>0. channel \in Seq(Events) /\ midiHand \in Seq(Events) /\ port \in Seq(Events)
  BY OpenedSeqs
<1>1. /\ midiSent' = midiSent + 1 /\ UNCHANGED <<midiHand, channel, inbox, dispatching, queue>>
      /\ UNCHANGED <<handled, keysPressed>> /\ UNCHANGED posterVars
  BY DEF DeviceSends, bridgeVars, managerVars, loopVars
<1>2. Shared' = Shared /\ Keys' = Keys /\ Last' = Last
  BY <1>1, SharedKept, KeysKept DEF Last
<1> DEFINE n == midiSent + 1
           e == At("midi", n)
           k == At("key", keysPressed + 1)
<1>3. n \in Nat /\ keysPressed + 1 \in Nat
  <2>1. midiSent \in Nat /\ keysPressed \in Nat
    BY Opened DEF Counts
  <2> QED
    BY <2>1
<1>4. e \in Seq(Events) /\ e \in Seq(Of("midi")) /\ k \in Seq(Events)
  BY <1>3, AtType
<1>5. Coming = e ++ k /\ Coming' = At("midi", n + 1) ++ k
  BY <1>1 DEF Coming
<1>6. /\ Shared \in Seq(Events) /\ Keys \in Seq(Events) /\ Midi \in Seq(Events) /\ Last \in Seq(Events)
      /\ Midi \in Seq(Of("midi")) /\ Ordered(Last, Shared, Keys, Midi, Coming)
  BY Pieces DEF OrderInv, InLine
<1>7. ASSUME NEW u \in Seq(Events), Below(u, Coming)
      PROVE  Below(u, e) /\ Below(u, k) /\ Below(u, Coming')
  <2>1. Below(u, e) /\ Below(u, k)
    BY <1>4, <1>5, <1>7, BelowJoin
  <2>2. Below(u, At("midi", n + 1))
    BY <1>3, <2>1, Later
  <2>3. At("midi", n + 1) \in Seq(Events)
    BY <1>3, AtType
  <2> QED
    BY <1>4, <1>5, <2>1, <2>2, <2>3, BelowJoin
<1>8. LastTypes'
  BY <1>1 DEF OrderInv, LastTypes
<1>9. CASE midiWorker # "closing" /\ Len(port) < PortCapacity
  <2>1. port' = port ++ e
    <3>1. port' = Append(port, <<"midi", n>>)
      BY <1>1, <1>9 DEF DeviceSends
    <3> QED
      BY <1>0, <1>3, <3>1, Appended DEF At, Events
  <2>2. Midi' = Midi ++ e
    <3> DEFINE u == Unpushed("bridge")
    <3>1. Midi' = u ++ (channel ++ (midiHand ++ (port ++ e)))
      BY <1>1, <2>1 DEF Midi, Unpushed, posterVars
    <3>2. u \in Seq(Events)
      BY Pieces, Apart, EmptySeq DEF OrderInv
    <3> HIDE DEF u, e
    <3>3. midiHand ++ port \in Seq(Events) /\ midiHand ++ (port ++ e) = (midiHand ++ port) ++ e
      BY <1>0, <1>4, Joins, Regrouped
    <3> DEFINE w == midiHand ++ port
    <3> HIDE DEF w
    <3>4. u ++ (channel ++ (w ++ e)) = (u ++ (channel ++ w)) ++ e
      <4>1. channel ++ (w ++ e) = (channel ++ w) ++ e
        BY <1>0, <1>4, <3>3, Regrouped DEF w
      <4>2. channel ++ w \in Seq(Events)
        BY <1>0, <3>3, Joins DEF w
      <4> QED
        BY <1>4, <3>2, <4>1, <4>2, Regrouped
    <3> QED
      BY <3>1, <3>3, <3>4 DEF Midi, u, w
  <2>3. Kinds'
    BY <1>1, <1>4, <2>1, Joins DEF OrderInv, Kinds, posterVars
  <2>4. Below(e, k) /\ Below(k, e) /\ Rising(e)
    <3>1. k \in Seq(Of("key")) /\ Len(e) = 1 /\ Len(e) <= 1
      BY <1>3, AtType
    <3>2. Below(e, k) /\ Below(k, e)
      BY <1>4, <3>1, Apart
    <3>3. Rising(e)
      <4> HIDE DEF e
      <4> QED
        BY <1>4, <3>1, OneInOrder
    <3> QED
      BY <3>2, <3>3
  <2>5. Below(e, Coming')
    <3>1. Below(e, At("midi", n + 1))
      BY <1>3, <2>4, <1>4, AtType DEF Below
    <3>2. At("midi", n + 1) \in Seq(Events)
      BY <1>3, AtType
    <3> QED
      BY <1>4, <1>5, <2>4, <3>1, <3>2, BelowJoin
  <2>6. Ordered(Last, Shared, Keys, Midi ++ e, Coming')
    <3>1. Between(Last, Midi ++ e, Coming')
      <4>1. Rising(Midi) /\ Below(Midi, Coming) /\ Below(Last, Midi) /\ Below(Last, Coming)
        BY <1>6 DEF Ordered, Between
      <4>2. Below(Midi, e) /\ Below(Midi, Coming') /\ Below(Last, e)
        BY <1>6, <1>7, <4>1
      <4>3. Rising(Midi ++ e)
        BY <1>4, <1>6, <2>4, <4>1, <4>2, RisingJoin
      <4>4. Below(Last, Midi ++ e)
        BY <1>4, <1>6, <4>1, <4>2, BelowJoin
      <4>5. Coming' \in Seq(Events)
        <5>1. At("midi", n + 1) \in Seq(Events)
          BY <1>3, AtType
        <5> QED
          BY <1>4, <1>5, <5>1, Joins
      <4>6. Below(Midi ++ e, Coming')
        BY <1>4, <1>6, <2>5, <4>2, <4>5, BelowJoin
      <4> QED
        BY <4>3, <4>4, <4>6 DEF Between
    <3>2. Below(Shared, Midi ++ e)
      BY <1>4, <1>6, <1>7, BelowJoin DEF Ordered, Between
    <3> QED
      BY <1>6, <1>7, <3>1, <3>2 DEF Ordered, Between
  <2> QED
    BY <1>2, <1>8, <2>2, <2>3, <2>6 DEF OrderInv, InLine
<1>10. CASE ~(midiWorker # "closing" /\ Len(port) < PortCapacity)
  <2>1. UNCHANGED port
    BY <1>10 DEF DeviceSends
  <2>2. Midi' = Midi /\ Kinds'
    BY <1>1, <2>1, MidiKept
  <2>3. Ordered(Last, Shared, Keys, Midi, Coming')
    BY <1>6, <1>7 DEF Ordered, Between
  <2> QED
    BY <1>2, <1>8, <2>2, <2>3 DEF OrderInv, InLine
<1> QED
  BY <1>9, <1>10

LEMMA WorkerReceivesOrder == EventInv /\ OrderInv /\ WorkerReceives => OrderInv'
<1> SUFFICES ASSUME EventInv, OrderInv, WorkerReceives PROVE OrderInv'
  OBVIOUS
<1>0. channel \in Seq(Events) /\ midiHand \in Seq(Events) /\ port \in Seq(Events)
  BY OpenedSeqs
<1>1. /\ UNCHANGED <<handled, midiSent, keysPressed>> /\ UNCHANGED <<inbox, dispatching, queue>>
      /\ UNCHANGED posterVars /\ UNCHANGED channel
      /\ midiHand = <<>> /\ port # <<>> /\ midiHand' = <<Head(port)>> /\ port' = Tail(port)
  BY DEF WorkerReceives, bridgeVars, managerVars, loopVars
<1>2. midiHand' ++ port' = midiHand ++ port
  BY <1>0, <1>1, HeadAndTail, Empties
<1>3. Midi' = Midi
  BY <1>1, <1>2 DEF Midi, Unpushed, posterVars
<1>4. Kinds'
  BY <1>1, HeadAndTail DEF OrderInv, Kinds, posterVars
<1>5. Thins(Midi, Midi')
  BY <1>3, Pieces, Whole DEF OrderInv
<1> QED
  BY <1>1, <1>4, <1>5, SharedKept, KeysKept, Moving

LEMMA WorkerSendsOrder == EventInv /\ OrderInv /\ WorkerSends => OrderInv'
<1> SUFFICES ASSUME EventInv, OrderInv, WorkerSends PROVE OrderInv'
  OBVIOUS
<1>0. channel \in Seq(Events) /\ midiHand \in Seq(Events) /\ port \in Seq(Events)
  BY OpenedSeqs
<1>1. /\ UNCHANGED <<handled, midiSent, keysPressed>> /\ UNCHANGED <<inbox, dispatching, queue>>
      /\ UNCHANGED posterVars /\ UNCHANGED port /\ midiHand' = <<>>
      /\ (channel' = channel ++ midiHand \/ UNCHANGED channel)
  BY DEF WorkerSends, bridgeVars, managerVars, loopVars, ++
<1> DEFINE u == Unpushed("bridge")
<1>2. /\ u \in Seq(Events) /\ Unpushed("bridge")' = u
      /\ Midi = u ++ (channel ++ (midiHand ++ port))
  BY <1>1, Pieces, Apart, EmptySeq DEF OrderInv, Unpushed, posterVars, Midi
<1>3. Midi' = u ++ (channel' ++ port)
  BY <1>0, <1>1, <1>2, Empties DEF Midi
<1>4. Kinds'
  BY <1>1, Joins, EmptySeq DEF OrderInv, Kinds, posterVars
<1> HIDE DEF u
<1>5. Thins(Midi, Midi')
  <2>1. CASE channel' = channel ++ midiHand
    <3>1. (channel ++ midiHand) ++ port = channel ++ (midiHand ++ port)
      BY <1>0, Regrouped
    <3>2. Midi' = Midi
      BY <1>2, <1>3, <2>1, <3>1
    <3> QED
      BY <3>2, Pieces, Whole DEF OrderInv
  <2>2. CASE channel' = channel
    <3>1. /\ u ++ channel \in Seq(Events) /\ Midi = (u ++ channel) ++ (midiHand ++ port)
          /\ Midi' = (u ++ channel) ++ port
      <4> DEFINE r == midiHand ++ port
      <4>1. u ++ channel \in Seq(Events) /\ r \in Seq(Events)
        BY <1>0, <1>2, Joins
      <4>2. Midi = u ++ (channel ++ r) /\ Midi' = u ++ (channel ++ port)
        BY <1>2, <1>3, <2>2
      <4> HIDE DEF r
      <4>3. (u ++ channel) ++ r = u ++ (channel ++ r) /\ (u ++ channel) ++ port = u ++ (channel ++ port)
        BY <1>0, <1>2, <4>1, Regrouped
      <4> QED
        BY <4>1, <4>2, <4>3 DEF r
    <3>2. Thins((u ++ channel) ++ (midiHand ++ port), (u ++ channel) ++ port)
      BY <1>0, <3>1, Thinned
    <3> QED
      BY <3>1, <3>2
  <2> QED
    BY <1>1, <2>1, <2>2
<1> QED
  BY <1>1, <1>4, <1>5, SharedKept, KeysKept, Moving

LEMMA WorkerClosesOrder == EventInv /\ OrderInv /\ WorkerCloses => OrderInv'
<1> SUFFICES ASSUME EventInv, OrderInv, WorkerCloses PROVE OrderInv'
  OBVIOUS
<1>0. channel \in Seq(Events) /\ midiHand \in Seq(Events) /\ port \in Seq(Events)
  BY OpenedSeqs
<1>1. /\ UNCHANGED <<handled, midiSent, keysPressed>> /\ UNCHANGED <<inbox, dispatching, queue>>
      /\ UNCHANGED posterVars /\ UNCHANGED <<channel, midiHand>> /\ port' = <<>>
  BY DEF WorkerCloses, bridgeVars, managerVars, loopVars
<1> DEFINE u == Unpushed("bridge")
           v == u ++ (channel ++ midiHand)
<1>2. /\ u \in Seq(Events) /\ Unpushed("bridge")' = u
      /\ Midi = u ++ (channel ++ (midiHand ++ port)) /\ Midi' = u ++ (channel ++ (midiHand ++ <<>>))
  BY <1>1, Pieces, Apart, EmptySeq DEF OrderInv, Unpushed, posterVars, Midi
<1> HIDE DEF u
<1>3. v \in Seq(Events) /\ <<>> \in Seq(Events)
  BY <1>0, <1>2, Joins, EmptySeq
<1>4. \A t \in Seq(Events) : u ++ (channel ++ (midiHand ++ t)) = v ++ t
  <2> SUFFICES ASSUME NEW t \in Seq(Events) PROVE u ++ (channel ++ (midiHand ++ t)) = v ++ t
    OBVIOUS
  <2>1. channel ++ (midiHand ++ t) = (channel ++ midiHand) ++ t /\ channel ++ midiHand \in Seq(Events)
    BY <1>0, Regrouped, Joins
  <2>2. u ++ ((channel ++ midiHand) ++ t) = v ++ t
    BY <1>2, <2>1, Regrouped
  <2> QED
    BY <2>1, <2>2
<1>5. Kinds'
  BY <1>1, EmptySeq DEF OrderInv, Kinds, posterVars
<1>6. Midi = v ++ (port ++ <<>>) /\ Midi' = v ++ <<>>
  BY <1>0, <1>2, <1>3, <1>4, Empties
<1>7. Thins(Midi, Midi')
  BY <1>0, <1>3, <1>6, Thinned
<1> QED
  BY <1>1, <1>5, <1>7, SharedKept, KeysKept, Moving

\* What is on the bridge's own way, behind what it is posting.
Behind == channel ++ (midiHand ++ port)

LEMMA BehindType == ASSUME EventInv PROVE Behind \in Seq(Events)
<1>1. channel \in Seq(Events) /\ midiHand \in Seq(Events) /\ port \in Seq(Events)
  BY OpenedSeqs
<1> QED
  BY <1>1, Joins DEF Behind

LEMMA PushOrder ==
  ASSUME EventInv, OrderInv, NEW p \in Posters, Push(p),
         UNCHANGED <<deviceVars, bridgeVars, inbox, handled, keysPressed, uncounted>>
  PROVE  OrderInv'
<1>1. /\ stage[p] = "push" /\ UNCHANGED dispatching
      /\ UNCHANGED <<inbox, handled, keysPressed, midiSent, port, midiHand, channel>>
  BY DEF Push, deviceVars, bridgeVars
<1>2. /\ stage \in [Posters -> {"idle", "push", "signal"}]
      /\ posting \in [Posters -> Seq(Events)]
  BY Opened DEF PosterTypes
<1>3. /\ Shared \in Seq(Events) /\ Keys \in Seq(Events) /\ Midi \in Seq(Events) /\ Last \in Seq(Events)
      /\ Coming \in Seq(Events) /\ Keys \in Seq(Of("key")) /\ Midi \in Seq(Of("midi"))
      /\ Unpushed("bridge") \in Seq(Of("midi"))
      /\ Kinds /\ LastTypes /\ Ordered(Last, Shared, Keys, Midi, Coming)
  BY Pieces DEF OrderInv, InLine
<1>4. Last' = Last /\ Coming' = Coming /\ LastTypes'
  BY <1>1, <1>3 DEF Last, Coming, LastTypes
<1>5. Behind' = Behind /\ Midi = Unpushed("bridge") ++ Behind /\ Midi' = Unpushed("bridge")' ++ Behind'
  BY <1>1 DEF Behind, Midi
<1>6. Behind \in Seq(Events) /\ <<>> \in Seq(Events) /\ <<>> ++ Behind = Behind
  BY BehindType, Empties
<1>7. \A q \in Posters \ {p} : Unpushed(q)' = Unpushed(q)
  BY <1>2 DEF Push, Unpushed
<1>8. Unpushed(p) = posting[p] /\ Unpushed(p)' = <<>>
  BY <1>1, <1>2 DEF Push, Unpushed
<1>9. CASE Len(queue) < QueueCapacity
  <2>1. queue' = queue ++ posting[p] /\ UNCHANGED posting
    BY <1>9 DEF Push, ++
  <2>2. Kinds'
    BY <1>1, <1>3, <2>1 DEF Kinds
  <2>3. Shared' = Shared ++ posting[p]
    <3> DEFINE e == posting[p]
    <3>1. Shared' = inbox ++ (dispatching ++ (queue ++ e))
      BY <1>1, <2>1 DEF Shared
    <3>2. inbox \in Seq(Events) /\ dispatching \in Seq(Events) /\ queue \in Seq(Events) /\ e \in Seq(Events)
      BY <1>2, OpenedSeqs
    <3> HIDE DEF e
    <3>3. dispatching ++ (queue ++ e) = (dispatching ++ queue) ++ e
      BY <3>2, Regrouped
    <3>4. dispatching ++ queue \in Seq(Events)
      BY <3>2, Joins
    <3>5. inbox ++ ((dispatching ++ queue) ++ e) = (inbox ++ (dispatching ++ queue)) ++ e
      BY <3>2, <3>4, Regrouped
    <3> QED
      BY <3>1, <3>3, <3>5 DEF Shared, e
  <2>4. CASE p = "main"
    <3>1. Shared' = Shared ++ Keys /\ Keys' = <<>> /\ Midi' = Midi
      BY <1>5, <1>7, <1>8, <2>3, <2>4 DEF Keys
    <3>2. Below(Keys, Midi)
      BY <1>3, Apart
    <3>3. Ordered(Last, Shared ++ Keys, <<>>, Midi, Coming)
      BY <1>3, <3>2, OrderedShared
    <3> QED
      BY <1>4, <2>2, <3>1, <3>3 DEF OrderInv, InLine
  <2>5. CASE p = "bridge"
    <3> DEFINE e == Unpushed("bridge")
    <3>1. Shared' = Shared ++ e /\ Keys' = Keys /\ Midi' = Behind /\ Midi = e ++ Behind
      BY <1>5, <1>6, <1>7, <1>8, <2>3, <2>5 DEF Keys
    <3>2. e \in Seq(Events) /\ Below(e, Keys)
      BY <1>3, Apart
    <3>3. Ordered(Last, Shared, Keys, e ++ Behind, Coming)
      BY <1>3, <3>1
    <3> HIDE DEF e
    <3>4. Ordered(Last, Shared ++ e, Keys, Behind, Coming)
      BY <1>3, <1>6, <3>2, <3>3, OrderedJoins
    <3> QED
      BY <1>4, <2>2, <3>1, <3>4 DEF OrderInv, InLine
  <2> QED
    BY <2>4, <2>5
<1>10. CASE ~(Len(queue) < QueueCapacity)
  <2>1. posting' = [posting EXCEPT ![p] = <<>>] /\ UNCHANGED queue
    BY <1>10 DEF Push
  <2>2. Kinds'
    BY <1>1, <1>2, <1>3, <2>1, EmptySeq DEF Kinds
  <2>3. Thins(Shared, Shared')
    BY <1>1, <2>1, SharedKept
  <2>4. CASE p = "main"
    <3>1. Keys' = <<>> /\ Midi' = Midi /\ Keys ++ <<>> = Keys
      BY <1>3, <1>5, <1>7, <1>8, <2>4, Empties DEF Keys
    <3>2. Thins(Keys ++ <<>>, <<>>)
      BY <1>3, <1>6, Thinned
    <3> QED
      BY <1>1, <1>3, <2>2, <2>3, <3>1, <3>2, Whole, Moving
  <2>5. CASE p = "bridge"
    <3> DEFINE e == Unpushed("bridge")
    <3>1. Keys' = Keys /\ Midi' = Behind /\ Midi = e ++ Behind
      BY <1>5, <1>6, <1>7, <1>8, <2>5 DEF Keys
    <3>2. e \in Seq(Events)
      BY <1>3, Apart
    <3> HIDE DEF e
    <3>3. Thins(e ++ Behind, Behind)
      BY <1>6, <3>2, Thinned
    <3> QED
      BY <1>1, <1>3, <2>2, <2>3, <3>1, <3>3, Whole, Moving
  <2> QED
    BY <2>4, <2>5
<1> QED
  BY <1>9, <1>10

LEMMA PostOrder == ASSUME EventInv, OrderInv, NEW p \in Posters, Post(p) PROVE OrderInv'
<1>1. UNCHANGED <<deviceVars, bridgeVars, inbox, handled, keysPressed, uncounted>>
  BY DEF Post
<1>2. CASE Push(p)
  BY <1>1, <1>2, PushOrder
<1>3. CASE Signal(p)
  <2>1. /\ stage[p] = "signal" /\ posting' = [posting EXCEPT ![p] = <<>>]
        /\ stage' = [stage EXCEPT ![p] = "idle"] /\ UNCHANGED <<queue, dispatching>>
        /\ UNCHANGED <<inbox, handled, keysPressed, midiSent, port, midiHand, channel>>
    BY <1>1, <1>3 DEF Signal, deviceVars, bridgeVars
  <2>2. /\ stage \in [Posters -> {"idle", "push", "signal"}]
        /\ posting \in [Posters -> Seq(Events)]
    BY Opened DEF PosterTypes
  <2>3. \A q \in Posters : Unpushed(q)' = Unpushed(q)
    BY <2>1, <2>2 DEF Unpushed
  <2>4. Keys' = Keys /\ Midi' = Midi
    BY <2>1, <2>3 DEF Keys, Midi
  <2>5. Kinds'
    BY <2>1, <2>2, EmptySeq DEF OrderInv, Kinds
  <2>6. Thins(Shared, Shared')
    BY <2>1, SharedKept
  <2>7. Thins(Keys, Keys') /\ Thins(Midi, Midi')
    BY <2>4, Pieces, Whole DEF OrderInv
  <2> QED
    BY <2>1, <2>5, <2>6, <2>7, Moving
<1> QED
  BY <1>2, <1>3 DEF Post

LEMMA BridgeReceivesOrder == EventInv /\ OrderInv /\ BridgeReceives => OrderInv'
<1> SUFFICES ASSUME EventInv, OrderInv, BridgeReceives PROVE OrderInv'
  OBVIOUS
<1>1. /\ stage["bridge"] = "idle" /\ channel # <<>> /\ channel' = Tail(channel)
      /\ UNCHANGED <<handled, midiSent, keysPressed>> /\ UNCHANGED <<inbox, dispatching, queue>>
      /\ UNCHANGED <<port, midiHand>>
  BY DEF BridgeReceives, BridgeIdle, deviceVars, managerVars, loopVars
<1>2. /\ stage \in [Posters -> {"idle", "push", "signal"}]
      /\ posting \in [Posters -> Seq(Events)]
  BY Opened DEF PosterTypes
<1>3. Kinds /\ Unpushed("bridge") = <<>> /\ Keys \in Seq(Events) /\ Midi \in Seq(Events)
  BY <1>1, Pieces DEF OrderInv, Unpushed
<1> DEFINE h == <<Head(channel)>>
           t == Tail(channel)
           r == midiHand ++ port
<1>4. /\ h \in Seq(Of("midi")) /\ t \in Seq(Of("midi")) /\ channel = h ++ t
      /\ h \in Seq(Events) /\ t \in Seq(Events)
  <2>1. channel \in Seq(Of("midi"))
    BY <1>3 DEF Kinds
  <2>2. h \in Seq(Of("midi")) /\ t \in Seq(Of("midi")) /\ channel = h ++ t
    BY <1>1, <2>1, HeadAndTail
  <2> QED
    BY <2>2, Apart, EmptySeq
<1>5. r \in Seq(Events)
  <2>1. midiHand \in Seq(Events) /\ port \in Seq(Events)
    BY OpenedSeqs
  <2> QED
    BY <2>1, Joins
<1>6. /\ channel' = t /\ r' = r
      /\ \/ stage' = [stage EXCEPT !["bridge"] = "push"] /\ posting' = [posting EXCEPT !["bridge"] = h]
         \/ UNCHANGED posterVars
  BY <1>1 DEF BridgeReceives, StartPost
<1>7. Unpushed("main")' = Unpushed("main")
  BY <1>2, <1>6 DEF Unpushed, posterVars
<1>8. (Unpushed("bridge")' = h \/ Unpushed("bridge")' = <<>>) /\ Kinds'
  BY <1>1, <1>2, <1>3, <1>4, <1>6 DEF Unpushed, posterVars, Kinds
<1> HIDE DEF h, t, r
<1>9. Midi = (h ++ t) ++ r
  <2>1. Midi = <<>> ++ (channel ++ r)
    BY <1>3 DEF Midi, r
  <2>2. h ++ t \in Seq(Events)
    BY <1>4, Joins
  <2>3. (h ++ t) ++ r \in Seq(Events)
    BY <1>5, <2>2, Joins
  <2> QED
    BY <1>4, <2>1, <2>3, Empties
<1>10. (h ++ t) ++ r = h ++ (t ++ r) /\ t ++ r \in Seq(Events) /\ <<>> ++ (t ++ r) = t ++ r
  <2>1. (h ++ t) ++ r = h ++ (t ++ r)
    BY <1>4, <1>5, Regrouped
  <2>2. t ++ r \in Seq(Events)
    BY <1>4, <1>5, Joins
  <2> QED
    BY <2>1, <2>2, Empties
<1>11. Midi' = Unpushed("bridge")' ++ (t ++ r)
  BY <1>6 DEF Midi, r
<1>12. Thins(Midi, Midi')
  <2>1. CASE Unpushed("bridge")' = h
    BY <1>3, <1>9, <1>10, <1>11, <2>1, Whole
  <2>2. CASE Unpushed("bridge")' = <<>>
    <3>1. Midi = h ++ (t ++ r) /\ Midi' = t ++ r
      BY <1>9, <1>10, <1>11, <2>2
    <3> QED
      BY <1>4, <1>10, <3>1, Thinned
  <2> QED
    BY <1>8, <2>1, <2>2
<1>13. Thins(Keys, Keys')
  BY <1>3, <1>7, Whole DEF Keys
<1> QED
  BY <1>1, <1>8, <1>12, <1>13, SharedKept, Moving

LEMMA TakeBatchOrder == EventInv /\ OrderInv /\ TakeBatch => OrderInv'
<1> SUFFICES ASSUME EventInv, OrderInv, TakeBatch PROVE OrderInv'
  OBVIOUS
<1>1. /\ dispatcher = "drain" /\ dispatching' = queue /\ queue' = <<>> /\ UNCHANGED inbox
      /\ UNCHANGED <<handled, midiSent, keysPressed>> /\ UNCHANGED <<channel, midiHand, port>>
      /\ UNCHANGED posterVars
  BY DEF TakeBatch, Rest, deviceVars, bridgeVars
<1>2. dispatching = <<>>
  BY <1>1, Opened DEF ManagerTypes
<1>3. queue \in Seq(Events)
  BY OpenedSeqs
<1>4. dispatching' ++ queue' = dispatching ++ queue
  BY <1>1, <1>2, <1>3, Empties
<1>5. Shared' = Shared
  BY <1>1, <1>4 DEF Shared
<1>6. Thins(Shared, Shared')
  BY <1>5, Pieces, Whole DEF OrderInv
<1> QED
  BY <1>1, <1>6, KeysKept, MidiKept, Moving

LEMMA DeliverOrder == EventInv /\ OrderInv /\ Deliver => OrderInv'
<1> SUFFICES ASSUME EventInv, OrderInv, Deliver PROVE OrderInv'
  OBVIOUS
<1>1. /\ dispatching # <<>> /\ dispatching' = Tail(dispatching) /\ UNCHANGED queue
      /\ (inbox' = Append(inbox, Head(dispatching)) \/ UNCHANGED inbox)
      /\ UNCHANGED <<handled, midiSent, keysPressed>> /\ UNCHANGED <<channel, midiHand, port>>
      /\ UNCHANGED posterVars
  BY DEF Deliver, Rest, deviceVars, bridgeVars
<1> DEFINE h == <<Head(dispatching)>>
           t == Tail(dispatching)
<1>2. inbox \in Seq(Events) /\ dispatching \in Seq(Events) /\ queue \in Seq(Events)
  BY OpenedSeqs
<1>3. h \in Seq(Events) /\ t \in Seq(Events) /\ dispatching = h ++ t /\ Head(dispatching) \in Events
  BY <1>1, <1>2, HeadAndTail
<1>4. inbox' = inbox ++ h \/ inbox' = inbox
  BY <1>1, <1>2, <1>3, Appended
<1>5. Shared = inbox ++ ((h ++ t) ++ queue) /\ Shared' = inbox' ++ (t ++ queue)
  BY <1>1, <1>3 DEF Shared
<1> HIDE DEF h, t
<1>6. (h ++ t) ++ queue = h ++ (t ++ queue) /\ t ++ queue \in Seq(Events)
  BY <1>2, <1>3, Regrouped, Joins
<1>7. Thins(Shared, Shared')
  <2>1. CASE inbox' = inbox ++ h
    <3>1. (inbox ++ h) ++ (t ++ queue) = inbox ++ (h ++ (t ++ queue))
      BY <1>2, <1>3, <1>6, Regrouped
    <3>2. Shared' = Shared
      BY <1>5, <1>6, <2>1, <3>1
    <3> QED
      BY <3>2, Pieces, Whole DEF OrderInv
  <2>2. CASE inbox' = inbox
    <3>1. Shared = inbox ++ (h ++ (t ++ queue)) /\ Shared' = inbox ++ (t ++ queue)
      BY <1>5, <1>6, <2>2
    <3> QED
      BY <1>2, <1>3, <1>6, <3>1, Thinned
  <2> QED
    BY <1>4, <2>1, <2>2
<1> QED
  BY <1>1, <1>7, KeysKept, MidiKept, Moving

LEMMA KeyPressedOrder == EventInv /\ OrderInv /\ KeyPressed => OrderInv'
<1> SUFFICES ASSUME EventInv, OrderInv, KeyPressed PROVE OrderInv'
  OBVIOUS
<1> DEFINE n == keysPressed + 1
           e == At("key", n)
           m == At("midi", midiSent + 1)
<1>1. /\ stage["main"] = "idle" /\ keysPressed' = n
      /\ posting' = [posting EXCEPT !["main"] = e] /\ stage' = [stage EXCEPT !["main"] = "push"]
      /\ UNCHANGED <<handled, midiSent>> /\ UNCHANGED <<inbox, dispatching, queue>>
      /\ UNCHANGED <<port, midiHand, channel>>
  BY DEF KeyPressed, MainIdle, StartPost, At, deviceVars, bridgeVars, managerVars
<1>2. /\ stage \in [Posters -> {"idle", "push", "signal"}]
      /\ posting \in [Posters -> Seq(Events)]
  BY Opened DEF PosterTypes
<1>3. n \in Nat /\ midiSent + 1 \in Nat /\ n + 1 \in Nat
  <2>1. midiSent \in Nat /\ keysPressed \in Nat
    BY Opened DEF Counts
  <2> QED
    BY <2>1
<1>4. /\ e \in Seq(Events) /\ m \in Seq(Events) /\ e \in Seq(Of("key")) /\ m \in Seq(Of("midi"))
      /\ At("key", n + 1) \in Seq(Events) /\ Len(e) <= 1
  BY <1>3, AtType
<1>5. /\ Shared \in Seq(Events) /\ Midi \in Seq(Events) /\ Last \in Seq(Events)
      /\ Kinds /\ LastTypes /\ Ordered(Last, Shared, Keys, Midi, Coming)
  BY Pieces DEF OrderInv, InLine
<1>6. Coming = m ++ e /\ Coming' = m ++ At("key", n + 1)
  BY <1>1 DEF Coming
<1>7. Shared' = Shared /\ Last' = Last /\ LastTypes'
  BY <1>1, <1>5, SharedKept DEF Last, LastTypes
<1>8. Unpushed("main")' = e /\ Unpushed("bridge")' = Unpushed("bridge")
  BY <1>1, <1>2 DEF Unpushed
<1>9. Keys' = e /\ Midi' = Midi
  BY <1>1, <1>8 DEF Keys, Midi
<1>10. Kinds'
  BY <1>1, <1>2, <1>4, <1>5 DEF Kinds
<1> HIDE DEF e, m
<1>11. ASSUME NEW u \in Seq(Events), Below(u, Coming)
       PROVE  Below(u, e) /\ Below(u, Coming')
  <2>1. Below(u, m) /\ Below(u, e)
    BY <1>4, <1>6, <1>11, BelowJoin
  <2>2. Below(u, At("key", n + 1))
    BY <1>3, <2>1, Later DEF e
  <2> QED
    BY <1>4, <1>6, <2>1, <2>2, BelowJoin
<1>12. Rising(e)
  BY <1>4, OneInOrder
<1>13. Below(e, Coming')
  <2>1. Below(e, m)
    BY <1>4, Apart
  <2>2. Below(e, At("key", n + 1))
    <3>1. Below(<<>>, e) /\ <<>> \in Seq(Events)
      BY <1>4, NothingInOrder, EmptySeq
    <3> QED
      BY <1>3, <3>1, Later DEF e
  <2> QED
    BY <1>4, <1>6, <2>1, <2>2, BelowJoin
<1>14. Between(Last, e, Coming')
  <2>1. Below(Last, e)
    BY <1>5, <1>11 DEF Ordered
  <2> QED
    BY <1>12, <1>13, <2>1 DEF Between
<1>15. Between(Last, Shared, Coming') /\ Between(Last, Midi, Coming') /\ Below(Last, Coming')
  BY <1>5, <1>11 DEF Ordered, Between
<1>16. Below(Shared, e) /\ Below(Shared, Midi)
  BY <1>5, <1>11 DEF Ordered, Between
<1>17. Ordered(Last, Shared, e, Midi, Coming')
  BY <1>14, <1>15, <1>16 DEF Ordered
<1> QED
  BY <1>7, <1>9, <1>10, <1>17 DEF OrderInv, InLine

LEMMA HandleOrder == EventInv /\ OrderInv /\ Handle => OrderInv'
<1> SUFFICES ASSUME EventInv, OrderInv, Handle PROVE OrderInv'
  OBVIOUS
<1>1. /\ inbox # <<>> /\ Handled(Head(inbox)) /\ inbox' = Tail(inbox)
      /\ UNCHANGED <<midiSent, keysPressed>> /\ UNCHANGED <<dispatching, queue>>
      /\ UNCHANGED <<port, midiHand, channel>> /\ UNCHANGED posterVars
  BY DEF Handle, deviceVars, bridgeVars, managerVars
<1>2. inbox \in Seq(Events) /\ dispatching \in Seq(Events) /\ queue \in Seq(Events)
  BY OpenedSeqs
<1> DEFINE a == Tail(inbox)
           b == dispatching ++ queue
           t == a ++ b
<1>3. Head(inbox) \in Events /\ a \in Seq(Events) /\ inbox = <<Head(inbox)>> ++ a
  BY <1>1, <1>2, HeadAndTail
<1>4. PICK s \in Sources, n \in Nat : Head(inbox) = <<s, n>>
  BY <1>3 DEF Events
<1>5. b \in Seq(Events) /\ t \in Seq(Events)
  BY <1>2, <1>3, Joins
<1> DEFINE e == At(s, n)
<1>6. e \in Seq(Events) /\ inbox = e ++ a
  BY <1>3, <1>4, AtType DEF At
<1>7. Shared = (e ++ a) ++ b /\ Shared' = a ++ b
  BY <1>1, <1>6 DEF Shared
<1> DEFINE lm == At("midi", handled["midi"].last)
           lk == At("key", handled["key"].last)
<1>8. Last = lm ++ lk
  BY DEF Last
<1>9. lm \in Seq(Events) /\ lk \in Seq(Events)
  BY AtType DEF OrderInv, LastTypes
<1>10. /\ handled = [x \in Sources |-> handled[x]]
  BY Opened DEF LoopTypes
<1>11. handled' = [handled EXCEPT ![s] = [count |-> handled[s].count + 1, last |-> n]]
  <2>1. Head(inbox)[1] = s /\ Head(inbox)[2] = n
    BY <1>4
  <2> QED
    BY <1>1, <2>1 DEF Handled
<1>12. handled'[s].last = n /\ \A x \in Sources \ {s} : handled'[x] = handled[x]
  BY <1>10, <1>11
<1>13. LastTypes'
  BY <1>12 DEF OrderInv, LastTypes
<1>14. Last' = e ++ lk \/ Last' = lm ++ e
  <2>1. CASE s = "midi"
    BY <1>12, <2>1 DEF Last
  <2>2. CASE s = "key"
    BY <1>12, <2>2 DEF Last
  <2> QED
    BY <2>1, <2>2
<1>15. /\ Keys' = Keys /\ Midi' = Midi /\ Kinds' /\ Coming' = Coming
  BY <1>1, KeysKept, MidiKept DEF Coming
<1>16. /\ Keys \in Seq(Events) /\ Midi \in Seq(Events) /\ Coming \in Seq(Events)
       /\ Ordered(Last, Shared, Keys, Midi, Coming)
  BY Pieces DEF OrderInv, InLine
<1> HIDE DEF e, lm, lk, a, b
<1>17. Shared = e ++ t
  BY <1>3, <1>5, <1>6, <1>7, Regrouped
<1>18. Shared' = t
  BY <1>7
<1> HIDE DEF t
<1>19. /\ Rising(t) /\ Below(e, t) /\ Below(t, Coming) /\ Below(t, Keys) /\ Below(t, Midi)
       /\ Below(e, Keys) /\ Below(e, Midi) /\ Below(e, Coming)
  BY <1>5, <1>6, <1>16, <1>17, RisingJoin, BelowJoin DEF Ordered, Between
<1>20. ASSUME NEW u \in Seq(Events), Below(Last, u), Below(e, u) PROVE Below(Last', u)
  BY <1>6, <1>8, <1>9, <1>14, <1>20, BelowJoin
<1>21. Below(Last, t)
  BY <1>5, <1>6, <1>8, <1>9, <1>16, <1>17, BelowJoin, Joins DEF Ordered, Between
<1>22. Below(Last', t) /\ Below(Last', Keys) /\ Below(Last', Midi) /\ Below(Last', Coming)
  BY <1>5, <1>16, <1>19, <1>20, <1>21 DEF Ordered, Between
<1>23. Ordered(Last', t, Keys, Midi, Coming)
  BY <1>16, <1>19, <1>22 DEF Ordered, Between
<1> QED
  BY <1>13, <1>15, <1>18, <1>23 DEF OrderInv, InLine

LEMMA OrderInit == EventInit => OrderInv
<1> SUFFICES ASSUME EventInit PROVE OrderInv
  OBVIOUS
<1>1. /\ <<>> ++ <<>> = <<>> /\ \A s \in Sources : <<>> \in Seq(Of(s))
      /\ <<>> \in Seq(Events)
  BY Empties, EmptySeq
<1>2. /\ inbox = <<>> /\ dispatching = <<>> /\ queue = <<>> /\ channel = <<>> /\ midiHand = <<>>
      /\ port = <<>> /\ Unpushed("main") = <<>> /\ Unpushed("bridge") = <<>>
  BY DEF EventInit, Unpushed
<1>3. Shared = <<>> /\ Keys = <<>> /\ Midi = <<>>
  BY <1>1, <1>2 DEF Shared, Keys, Midi
<1>4. Kinds
  BY <1>1 DEF EventInit, Kinds
<1>5. LastTypes
  BY DEF EventInit, LastTypes
<1> DEFINE lm == At("midi", 0)
           lk == At("key", 0)
           cm == At("midi", 1)
           ck == At("key", 1)
<1>6. Last = lm ++ lk /\ Coming = cm ++ ck
  <2>1. midiSent + 1 = 1 /\ keysPressed + 1 = 1
    BY DEF EventInit
  <2>2. handled["midi"].last = 0 /\ handled["key"].last = 0
    BY DEF EventInit
  <2> QED
    BY <2>1, <2>2 DEF Last, Coming
<1>7. /\ lm \in Seq(Events) /\ lk \in Seq(Events) /\ cm \in Seq(Events) /\ ck \in Seq(Events)
      /\ lm \in Seq(Of("midi")) /\ lk \in Seq(Of("key")) /\ cm \in Seq(Of("midi"))
      /\ ck \in Seq(Of("key"))
  BY AtType
<1>8. Below(lm, cm) /\ Below(lk, ck)
  <2>1. 0 + 1 = 1
    OBVIOUS
  <2>2. \A s \in Sources : Below(At(s, 0), At(s, 0 + 1))
    BY <1>1, NothingInOrder, AtType, Later
  <2> QED
    BY <2>1, <2>2
<1>9. Below(lm, ck) /\ Below(lk, cm)
  BY <1>7, Apart
<1> HIDE DEF lm, lk, cm, ck
<1>10. Below(Last, Coming)
  <2>1. lm ++ lk \in Seq(Events)
    BY <1>7, Joins
  <2>2. Below(lm ++ lk, cm) /\ Below(lm ++ lk, ck)
    BY <1>7, <1>8, <1>9, BelowJoin
  <2> QED
    BY <1>6, <1>7, <2>1, <2>2, BelowJoin
<1>11. Last \in Seq(Events) /\ Coming \in Seq(Events)
  BY <1>6, <1>7, Joins
<1> QED
  BY <1>1, <1>3, <1>4, <1>5, <1>10, <1>11, NothingInOrder DEF OrderInv, InLine, Ordered, Between

LEMMA OrderNext == EventInv /\ OrderInv /\ [EventNext]_eventVars => OrderInv'
<1> SUFFICES ASSUME EventInv, OrderInv, [EventNext]_eventVars PROVE OrderInv'
  OBVIOUS
<1>1. CASE MidiStep
  <2>1. CASE InputsGo
    BY <2>1, Standing DEF InputsGo, bridgeVars, managerVars, loopVars
  <2> QED
    BY <1>1, <2>1, WorkerReceivesOrder, WorkerSendsOrder, WorkerClosesOrder DEF MidiStep
<1>2. CASE BridgeStep
  <2>1. CASE BridgeReadsFlag \/ BridgeDisconnected
    BY <2>1, Standing DEF BridgeReadsFlag, BridgeDisconnected, deviceVars, managerVars, loopVars
  <2> QED
    BY <1>2, <2>1, BridgeReceivesOrder, PostOrder DEF BridgeStep
<1>3. CASE Dispatch
  <2>1. CASE CheckRunning \/ TestFlag \/ FallAsleep \/ BatchEnds
    BY <2>1, Standing DEF CheckRunning, TestFlag, FallAsleep, BatchEnds, Rest, deviceVars, bridgeVars
  <2> QED
    BY <1>3, <2>1, TakeBatchOrder, DeliverOrder DEF Dispatch
<1>4. ASSUME EndStep PROVE OrderInv'
  <2>1. LoopRest /\ UNCHANGED <<midiSent, port, midiHand, channel>>
    BY <1>4 DEF EndStep, EndSession, StopMidi, JoinMidi, Disconnect, StopBridge, JoinBridge,
                StopManager, WakeManager, JoinManager, deviceVars, bridgeVars
  <2> QED
    BY <2>1, Standing DEF LoopRest
<1>5. CASE LoopStep
  BY <1>4, <1>5, HandleOrder, PostOrder DEF LoopStep, EndStep
<1>6. CASE Outside
  <2>1. CASE SpuriousWakeup
    BY <2>1, Standing DEF SpuriousWakeup, Rest, deviceVars, bridgeVars
  <2>2. CASE BridgeTimesOut
    BY <2>2, Standing DEF BridgeTimesOut, deviceVars, managerVars, loopVars
  <2>3. CASE DevicesLost
    BY <2>3, Standing DEF DevicesLost, bridgeVars, managerVars, loopVars
  <2> QED
    BY <1>4, <1>6, <2>1, <2>2, <2>3, DeviceSendsOrder, KeyPressedOrder DEF Outside, EndStep
<1>7. CASE UNCHANGED eventVars
  BY <1>7, Standing DEF eventVars, deviceVars, bridgeVars, managerVars, loopVars
<1> QED
  BY <1>1, <1>2, <1>3, <1>5, <1>6, <1>7 DEF EventNext

LEMMA OrderHolds == EventSpec => []OrderInv
  BY InvariantHolds, OrderInit, OrderNext, PTL DEF EventSpec

\* However the four threads interleave, and whatever the queues refuse, the loop handles the
\* events of one source in the order in which they came.
THEOREM EventsStayInOrder == EventSpec => []InOrder
<1>1. EventInv /\ OrderInv => InOrder
  <2> SUFFICES ASSUME EventInv, OrderInv PROVE InOrder
    OBVIOUS
  <2> DEFINE u == Unpushed("bridge")
  <2>1. /\ Shared \in Seq(Events) /\ Keys \in Seq(Events) /\ Midi \in Seq(Events)
        /\ Last \in Seq(Events) /\ Coming \in Seq(Events)
        /\ Keys \in Seq(Of("key")) /\ Midi \in Seq(Of("midi")) /\ u \in Seq(Events)
        /\ Ordered(Last, Shared, Keys, Midi, Coming) /\ LastTypes
    BY Pieces, Apart, EmptySeq DEF OrderInv, InLine
  <2>2. UnderWay = Shared ++ (Keys ++ Midi)
    <3>1. UnderWay = ((((((inbox ++ dispatching) ++ queue) ++ Keys) ++ u) ++ channel) ++ midiHand) ++ port
      BY DEF UnderWay, Keys, ++
    <3>2. (inbox ++ dispatching) ++ queue = Shared
      <4>1. inbox \in Seq(Events) /\ dispatching \in Seq(Events) /\ queue \in Seq(Events)
        BY OpenedSeqs
      <4> QED
        BY <4>1, Regrouped DEF Shared
    <3> DEFINE a == Shared ++ Keys
    <3> HIDE DEF u
    <3>3. a \in Seq(Events)
      BY <2>1, Joins
    <3>4. channel \in Seq(Events) /\ midiHand \in Seq(Events) /\ port \in Seq(Events)
      BY OpenedSeqs
    <3>5. UnderWay = (((a ++ u) ++ channel) ++ midiHand) ++ port
      BY <3>1, <3>2
    <3> HIDE DEF a
    <3>6. (((a ++ u) ++ channel) ++ midiHand) ++ port = a ++ (u ++ (channel ++ (midiHand ++ port)))
      <4> DEFINE hp == midiHand ++ port
                 au == a ++ u
                 chp == channel ++ hp
                 auc == au ++ channel
      <4>1. hp \in Seq(Events) /\ au \in Seq(Events)
        BY <2>1, <3>3, <3>4, Joins
      <4> HIDE DEF hp, au
      <4>2. chp \in Seq(Events) /\ auc \in Seq(Events)
        BY <3>4, <4>1, Joins
      <4>3. au ++ chp = auc ++ hp
        BY <3>4, <4>1, Regrouped
      <4> HIDE DEF chp, auc
      <4>4. (auc ++ midiHand) ++ port = auc ++ hp
        BY <3>4, <4>2, Regrouped DEF hp
      <4>5. (a ++ u) ++ chp = a ++ (u ++ chp)
        BY <2>1, <3>3, <4>2, Regrouped
      <4> QED
        BY <4>3, <4>4, <4>5 DEF hp, au, chp, auc
    <3>7. UnderWay = a ++ Midi
      BY <3>5, <3>6 DEF Midi, u
    <3>8. (Shared ++ Keys) ++ Midi = Shared ++ (Keys ++ Midi)
      BY <2>1, Regrouped
    <3> QED
      BY <3>7, <3>8 DEF a
  <2> DEFINE km == Keys ++ Midi
             way == Shared ++ km
  <2>3. km \in Seq(Events) /\ Rising(km) /\ Below(Shared, km) /\ Below(Last, km)
    <3>1. Below(Keys, Midi)
      BY <2>1, Apart
    <3>2. km \in Seq(Events)
      BY <2>1, Joins
    <3> QED
      BY <2>1, <3>1, <3>2, RisingJoin, BelowJoin DEF Ordered, Between
  <2> HIDE DEF km
  <2>4. way \in Seq(Events) /\ Rising(way) /\ Below(Last, way)
    <3>1. way \in Seq(Events)
      BY <2>1, <2>3, Joins
    <3> QED
      BY <2>1, <2>3, <3>1, RisingJoin, BelowJoin DEF Ordered, Between
  <2>5. way = UnderWay
    BY <2>2 DEF km
  <2> HIDE DEF way
  <2>6. \A s \in Sources : Below(At(s, handled[s].last), way) /\ handled[s].last \in Nat
    <3>1. handled["midi"].last \in Nat /\ handled["key"].last \in Nat
      BY <2>1 DEF LastTypes
    <3>2. At("midi", handled["midi"].last) \in Seq(Events) /\ At("key", handled["key"].last) \in Seq(Events)
      BY <3>1, AtType
    <3>3. Below(At("midi", handled["midi"].last), way) /\ Below(At("key", handled["key"].last), way)
      BY <2>4, <3>2, BelowJoin DEF Last
    <3> QED
      BY <3>1, <3>3
  <2>7. ASSUME NEW i \in 1..Len(way) PROVE handled[way[i][1]].last < way[i][2]
    <3>1. way[i] \in Events
      BY <2>4, ElementOfSeq
    <3>2. PICK s \in Sources, n \in Nat : way[i] = <<s, n>>
      BY <3>1 DEF Events
    <3>3. way[i][1] = s /\ way[i][2] = n
      BY <3>2
    <3>4. /\ 1 \in 1..Len(At(s, handled[s].last)) /\ At(s, handled[s].last)[1][1] = s
          /\ At(s, handled[s].last)[1][2] = handled[s].last
      <4>1. Len(At(s, handled[s].last)) = 1 /\ At(s, handled[s].last)[1] = <<s, handled[s].last>>
        BY <2>6, AtType
      <4> QED
        BY <4>1
    <3>5. Below(At(s, handled[s].last), way)
      BY <2>6
    <3> QED
      BY <3>3, <3>4, <3>5 DEF Below
  <2>8. ASSUME NEW i \in 1..Len(way), NEW j \in 1..(i - 1), way[j][1] = way[i][1]
        PROVE  way[j][2] < way[i][2]
    <3>1. Len(way) \in Nat
      BY <2>4, LenProperties
    <3>2. j \in 1..Len(way) /\ j < i
      BY <3>1
    <3> QED
      BY <2>4, <2>8, <3>2 DEF Rising
  <2> QED
    BY <2>5, <2>7, <2>8 DEF InOrder
<1> QED
  BY <1>1, InvariantHolds, OrderHolds, PTL
==========================================================================
