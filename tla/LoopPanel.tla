---------------------------- MODULE LoopPanel ----------------------------
(***************************************************************************)
(* The loops as the event loop sees them.  The audio callback has the      *)
(* loops; the event loop has cached_modes, refreshed by a snapshot it asks *)
(* for every 33 ms, and decides by them what a key press means, while the  *)
(* names and the selection of the loops are its own (native_runtime.rs,    *)
(* native_loop_selection.rs, runtime_event_actions.rs).  Two rings lie     *)
(* between, and what a command finds is not what its sender saw.           *)
(*                                                                         *)
(* A take is the identity of what a slot holds: a recording makes a new    *)
(* one.  Files, hashes and metadata move like the names; LoopLibrary is     *)
(* about how they come and go.  Gains, positions and audio are left out.   *)
(***************************************************************************)
EXTENDS Naturals, SequencesExt

CONSTANTS
  PanelSlots,       \* 1..MAX_RUNTIME_LOOPS
  Loaded,           \* the slots that hold a loop, and show it, at the start
  CommandCapacity,  \* of the command ring
  StatusCapacity,   \* of the status ring
  MaxGestures,      \* bound: what the player does in a behaviour
  Sets              \* of the ten selection sets

ASSUME PanelAssumption ==
  /\ PanelSlots = 1..Cardinality(PanelSlots) /\ IsFiniteSet(PanelSlots)
  /\ Loaded \subseteq PanelSlots
  /\ {CommandCapacity, StatusCapacity} \subseteq Nat

VARIABLES
  slots,       \* the callback's loops: mode, whether len > 0, and the take
  recorder,    \* `recording`, or Nowhere
  orders, reports,
  takes,       \* recordings begun
  cached,      \* cached_modes, and the take each showed
  chosen,      \* NativeLoopSelection::sets, vectors
  names,       \* loop_names: the take that was named, or NoTake
  meant,       \* ghost: the takes the player selected, per set
  moves,       \* ghost: MoveLoop sent, seen by the callback, seen in a snapshot; whether
               \*   it has refused one, or the ring the erasure of a selected loop
  gestures

callbackVars == <<slots, recorder, takes>>
panelVars == <<cached, chosen, names, meant>>
loopPanelVars == <<callbackVars, panelVars, orders, reports, moves, gestures>>

\* What of a list is in a set, as it comes: SelectSeq, of which nothing can be proved.
Keep(list, these) ==
  LET kept[n \in 0..Len(list)] ==
        IF n = 0 THEN <<>>
        ELSE IF list[n] \in these THEN Append(kept[n - 1], list[n]) ELSE kept[n - 1]
  IN  kept[Len(list)]

Nowhere == 0
NoTake == 0
Active == {"Recording", "Overdubbing"}
Vacant == [mode |-> "Empty", long |-> FALSE, take |-> NoTake]

\* What a snapshot shows of the loops.
Shown == [s \in PanelSlots |-> [mode |-> slots[s].mode, take |-> slots[s].take]]

PanelInit ==
  /\ slots = [s \in PanelSlots |-> IF s \in Loaded THEN [mode |-> "Playing", long |-> TRUE, take |-> s] ELSE Vacant]
  /\ recorder = Nowhere /\ takes = Cardinality(PanelSlots)
  /\ orders = <<>> /\ reports = <<>>
  /\ cached = Shown
  /\ chosen = [k \in Sets |-> <<>>] /\ meant = [k \in Sets |-> {}]
  /\ names = [s \in PanelSlots |-> NoTake]
  /\ moves = [sent |-> 0, done |-> 0, shown |-> 0, refused |-> FALSE]
  /\ gestures = 0

--------------------------------------------------------------------------
(* The callback                                                            *)

Swap(f, a, b) == [f EXCEPT ![a] = f[b], ![b] = f[a]]

\* stop_recording: a recording without a frame leaves the slot empty.
Stopped ==
  IF recorder = Nowhere THEN slots
  ELSE [slots EXCEPT ![recorder] = IF @.long THEN [@ EXCEPT !.mode = "Playing"] ELSE Vacant]

\* apply_command.
Apply(c) ==
  CASE c.op = "Record" ->
         /\ slots' = [Stopped EXCEPT ![c.slot] = [mode |-> "Recording", long |-> FALSE, take |-> takes + 1]]
         /\ recorder' = c.slot /\ takes' = takes + 1
         /\ UNCHANGED moves
    [] c.op = "Overdub" ->
         /\ slots' = IF Stopped[c.slot].long THEN [Stopped EXCEPT ![c.slot].mode = "Overdubbing"] ELSE Stopped
         /\ recorder' = IF Stopped[c.slot].long THEN c.slot ELSE Nowhere
         /\ UNCHANGED <<takes, moves>>
    [] c.op = "StopRecord" ->       \* request_stop_recording: now, or later by EndRecording
         /\ \/ slots' = Stopped /\ recorder' = Nowhere
            \/ recorder # Nowhere /\ UNCHANGED <<slots, recorder>>
         /\ UNCHANGED <<takes, moves>>
    [] c.op \in {"Trigger", "Mute"} ->
         /\ slots' = [slots EXCEPT ![c.slot].mode =
                        IF ~slots[c.slot].long THEN @ ELSE IF c.op = "Mute" THEN "Muted" ELSE "Playing"]
         /\ UNCHANGED <<recorder, takes, moves>>
    [] c.op = "Erase" ->
         /\ slots' = [slots EXCEPT ![c.slot] = Vacant]
         /\ recorder' = IF recorder = c.slot THEN Nowhere ELSE recorder
         /\ UNCHANGED <<takes, moves>>
    [] c.op = "MoveLoop" ->
         LET refused == c.slot = c.to \/ ~slots[c.slot].long \/ slots[c.to].long IN
         /\ slots' = IF refused THEN slots ELSE Swap(slots, c.slot, c.to)
         /\ recorder' = IF refused \/ recorder \notin {c.slot, c.to} THEN recorder
                        ELSE IF recorder = c.slot THEN c.to ELSE c.slot
         /\ moves' = [moves EXCEPT !.done = @ + 1, !.refused = @ \/ refused]
         /\ UNCHANGED takes
    [] OTHER -> UNCHANGED <<callbackVars, moves>>     \* RequestSnapshot

\* A status that finds the ring full is lost; rejections and completions are not kept apart.
Snapshot == [modes |-> Shown, moved |-> moves.done]

Callback ==
  /\ orders # <<>>
  /\ Apply(Head(orders))
  /\ orders' = Tail(orders)
  /\ reports' = IF Head(orders).op = "RequestSnapshot" /\ Len(reports) < StatusCapacity
                 THEN Append(reports, Snapshot) ELSE reports
  /\ UNCHANGED <<panelVars, gestures>>

\* The first frame of a recording.
Capture ==
  /\ recorder # Nowhere /\ slots[recorder].mode = "Recording" /\ ~slots[recorder].long
  /\ slots' = [slots EXCEPT ![recorder].long = TRUE]
  /\ UNCHANGED <<recorder, takes, orders, reports, panelVars, moves, gestures>>

\* A stop that waited for its downbeat, or no storage left.
EndRecording ==
  /\ recorder # Nowhere /\ slots[recorder].long
  /\ slots' = Stopped /\ recorder' = Nowhere
  /\ UNCHANGED <<takes, orders, reports, panelVars, moves, gestures>>

--------------------------------------------------------------------------
(* The panel: the rings                                                    *)

CommandOf(op, s) == [op |-> op, slot |-> s, to |-> s]
Room == CommandCapacity - Len(orders)

\* try_command, one after the other: a full ring refuses the rest, and the error ends the
\* handler.
Accepted(batch) == SubSeq(batch, 1, IF Len(batch) < Room THEN Len(batch) ELSE Room)
Enqueue(batch)  == orders' = orders \o Accepted(batch)

\* Mutant: asked for only behind a command that waits.
BadRequestSnapshot ==
  /\ Room > 0
  /\ Enqueue(IF orders = <<>> THEN <<>> ELSE <<CommandOf("RequestSnapshot", Nowhere)>>)
  /\ UNCHANGED <<callbackVars, panelVars, reports, moves, gestures>>

\* Every UI_SNAPSHOT_INTERVAL, whatever else is going on; a full ring is ignored.
RequestSnapshot ==
  /\ Room > 0
  /\ Enqueue(<<CommandOf("RequestSnapshot", Nowhere)>>)
  /\ UNCHANGED <<callbackVars, panelVars, reports, moves, gestures>>

\* poll: all that is there is read, the last snapshot counts.
Drain ==
  /\ reports # <<>>
  /\ cached' = Last(reports).modes
  /\ moves' = [moves EXCEPT !.shown = Last(reports).moved]
  /\ reports' = <<>>
  /\ UNCHANGED <<callbackVars, orders, chosen, names, meant, gestures>>

--------------------------------------------------------------------------
(* The panel: the gestures                                                 *)

Gesture ==
  /\ gestures < MaxGestures /\ gestures' = gestures + 1
  /\ UNCHANGED <<callbackVars, reports>>

\* What a press means depends on what the panel believes.
PressMeans(s) ==
  CASE cached[s].mode = "Empty"   -> "Record"
    [] cached[s].mode \in Active  -> "StopRecord"
    [] cached[s].mode = "Playing" -> "Mute"
    [] cached[s].mode = "Muted"   -> "Trigger"

TriggerLoop(s, overdub) ==
  /\ Gesture /\ Room > 0
  /\ Enqueue(<<CommandOf(IF overdub THEN "Overdub" ELSE PressMeans(s), s)>>)
  /\ UNCHANGED <<panelVars, moves>>

\* EraseLoop goes to the callback and nowhere else.
EraseLoop(s) ==
  /\ Gesture /\ Room > 0
  /\ Enqueue(<<CommandOf("Erase", s)>>)
  /\ UNCHANGED <<panelVars, moves>>

\* update_after_erase.
Without(list, gone) == Keep(list, PanelSlots \ gone)

EraseAllLoops ==
  LET batch == [s \in PanelSlots |-> CommandOf("Erase", s)] IN
  /\ Gesture
  /\ Enqueue(batch)
  /\ chosen' = [k \in Sets |-> Without(chosen[k], {a.slot : a \in ToSet(Accepted(batch))})]
  /\ UNCHANGED <<cached, names, meant, moves>>

\* erase_selected takes the slots out of every set before the first is sent.
EraseSelectedLoops(set) ==
  /\ Gesture /\ chosen[set] # <<>>
  /\ Enqueue([i \in DOMAIN chosen[set] |-> CommandOf("Erase", chosen[set][i])])
  /\ moves' = [moves EXCEPT !.refused = @ \/ Len(chosen[set]) > Room]
  /\ chosen' = [k \in Sets |-> Without(chosen[k], ToSet(chosen[set]))]
  /\ meant' = [k \in Sets |-> meant[k] \ meant[set]]
  /\ UNCHANGED <<cached, names>>

\* With toggle, a selected loop that sounds is stopped; a muted one is started.
TriggerSelectedLoops(set, toggle) ==
  LET sounds  == {s \in PanelSlots : cached[s].mode # "Empty" /\ (toggle \/ cached[s].mode = "Muted")}
      pressed == Keep(chosen[set], sounds) IN
  /\ Gesture /\ chosen[set] # <<>>
  /\ Enqueue([i \in DOMAIN pressed |-> CommandOf(PressMeans(pressed[i]), pressed[i])])
  /\ UNCHANGED <<panelVars, moves>>

\* The player names and selects what is shown, and waits until it shows a move.
Settled == moves.shown = moves.sent

Seen(list) == {cached[s].take : s \in ToSet(list)}
Available  == Keep([s \in PanelSlots |-> s], {s \in PanelSlots : cached[s].mode # "Empty"})

Select(set, list) ==
  /\ Gesture /\ Settled
  /\ chosen' = [chosen EXCEPT ![set] = list]
  /\ meant' = [meant EXCEPT ![set] = Seen(list)]
  /\ UNCHANGED <<cached, names, orders, moves>>

\* A slot is taken out by swap_remove, of its first place.
ToggleLoopSelection(set, s) ==
  LET list == chosen[set]
      at   == SelectInSeq(list, LAMBDA x : x = s)
      out  == SubSeq([list EXCEPT ![at] = Last(list)], 1, Len(list) - 1) IN
  /\ Gesture /\ Settled /\ cached[s].mode # "Empty"
  /\ chosen' = [chosen EXCEPT ![set] = IF at = 0 THEN Append(list, s) ELSE out]
  /\ meant' = [meant EXCEPT ![set] = IF at = 0 THEN @ \union {cached[s].take} ELSE @ \ {cached[s].take}]
  /\ UNCHANGED <<cached, names, orders, moves>>

SelectAllLoops(set, selected) == Select(set, IF selected THEN Available ELSE <<>>)
InvertLoopSelection(set) == Select(set, Without(Available, ToSet(chosen[set])))
SelectPlayingLoops(set, playing) ==
  Select(set, Keep(Available, {s \in PanelSlots : (cached[s].mode \in {"Playing", "Overdubbing"}) = playing}))

RenameLoop(s) ==
  /\ Gesture /\ Settled /\ cached[s].mode # "Empty"
  /\ names' = [names EXCEPT ![s] = cached[s].take]
  /\ UNCHANGED <<cached, chosen, meant, orders, moves>>

\* Mutant: the selection stays behind.
BadAfterMove(list, from, to) == list

\* update_after_move: the first place of the slot.
AfterMove(list, from, to) ==
  LET at == SelectInSeq(list, LAMBDA x : x = from) IN
  IF at = 0 THEN list ELSE [list EXCEPT ![at] = to]

\* move_loop_map_entry.
MoveEntry(map, from, to) ==
  IF map[from] = NoTake THEN map ELSE [map EXCEPT ![from] = NoTake, ![to] = map[from]]

\* MoveLoop: the panel does not wait for the callback.
PanelMove(from, to) ==
  /\ Gesture /\ Room > 0
  /\ cached[from].mode # "Empty" /\ cached[to].mode = "Empty"
  /\ Enqueue(<<[op |-> "MoveLoop", slot |-> from, to |-> to]>>)
  /\ cached' = Swap(cached, from, to)
  /\ chosen' = [k \in Sets |-> AfterMove(chosen[k], from, to)]
  /\ names' = MoveEntry(names, from, to)
  /\ moves' = [moves EXCEPT !.sent = @ + 1]
  /\ UNCHANGED meant

--------------------------------------------------------------------------
Player ==
  \/ EraseAllLoops
  \/ \E s \in PanelSlots : \/ EraseLoop(s) \/ RenameLoop(s)
                           \/ \E overdub \in BOOLEAN : TriggerLoop(s, overdub)
                           \/ \E to \in PanelSlots : PanelMove(s, to)
                           \/ \E k \in Sets : ToggleLoopSelection(k, s)
  \/ \E k \in Sets : \/ EraseSelectedLoops(k) \/ InvertLoopSelection(k)
                     \/ \E b \in BOOLEAN : \/ TriggerSelectedLoops(k, b)
                                          \/ SelectAllLoops(k, b) \/ SelectPlayingLoops(k, b)

PanelNext == Player \/ RequestSnapshot \/ Drain \/ Callback \/ Capture \/ EndRecording

\* The callback runs while the device does, the loop asks every 33 ms and reads what it gets.
PanelSpec ==
  /\ PanelInit /\ [][PanelNext]_loopPanelVars
  /\ WF_loopPanelVars(Callback) /\ WF_loopPanelVars(RequestSnapshot) /\ WF_loopPanelVars(Drain)

--------------------------------------------------------------------------
(* Properties                                                              *)

\* Types.
PanelTypeOK ==
  /\ \A s \in PanelSlots : slots[s].mode = "Empty" <=> slots[s].take = NoTake
  /\ recorder \in PanelSlots \union {Nowhere}
  /\ Len(orders) <= CommandCapacity /\ Len(reports) <= StatusCapacity
  /\ \A k \in Sets : ToSet(chosen[k]) \subseteq PanelSlots
  /\ moves.shown <= moves.done /\ moves.done <= moves.sent

\* What the player named or selected stays with its loop wherever MoveLoop takes it: "move
\* a loop to a new trigger ... can be done at any time" (config-help.txt:499), although the
\* panel moves names and selection before the callback has moved the loop.  Looked at when
\* no move or erasure is on its way, and as long as the callback has refused no move and the
\* ring no erasure of a selected loop.
PanelFollowsLoops ==
  (~moves.refused /\ \A i \in DOMAIN orders : orders[i].op \notin {"MoveLoop", "Erase"}) =>
    \A s \in PanelSlots :
      /\ names[s] = slots[s].take \/ \A t \in PanelSlots : slots[t].take = NoTake \/ names[s] # slots[t].take
      /\ \A k \in Sets : slots[s].take \in meant[k] => s \in ToSet(chosen[k])

\* Once the player rests, the panel comes to show what is there, whatever was lost on the
\* way, and keeps showing it: no later press of a key is misread.
PanelCatchesUp == <>[](\A s \in PanelSlots : cached[s].mode = slots[s].mode)
==========================================================================
