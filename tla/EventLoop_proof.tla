------------------------ MODULE EventLoop_proof -------------------------
(***************************************************************************)
(* What the event loop hears, sends and believes of the loops, for any     *)
(* fingers, keys and screen, any keyboard, ports, channels and patches,    *)
(* any slots, selection sets and rings, any configuration of bindings.     *)
(*                                                                         *)
(* MidiEcho: a note that sounds will be ended by the release of a key.     *)
(* NotesEnd is not inductive: that the release of a key ends the notes its *)
(* NoteOn started depends on the two computing the same notes, however the *)
(* patch, the echo port and the echo channel have changed in between       *)
(* (HeldAsStarted).  They do as long as the zones are remembered: nothing  *)
(* of them but the pitch is looked up again (RememberedNotes).             *)
(*                                                                         *)
(* TouchInput: gestures are whole because a contact that may still be a    *)
(* tap has said nothing, and one that goes on was no tap (Whole).  No      *)
(* input is lost because what an event says of a key is carried from the   *)
(* end of SDL's queue (SaidMore) over its head (SaidLess) and the event    *)
(* that waits to what SdlIo keeps (SettledKeys, ReturnedKeys).             *)
(*                                                                         *)
(* LoopPanel: names and selections are where the orders on their way will  *)
(* take their loops (NamesLead, SetsLead), unless one erases the loop or   *)
(* is refused.  A loop is followed along the command ring place by place   *)
(* (Led), and a loop the player may name is where it is shown, since no    *)
(* answer that has seen all moves shows it anywhere else (ViewsPlace,      *)
(* ViewsStay, ViewsSee).  A move also takes whatever is in its way: never  *)
(* a recording the player has named, because one without a frame stays     *)
(* shown until the panel moves it away itself (ShortStay).                 *)
(*                                                                         *)
(* Bindings: a bucket answers for its elements, with the chain of the      *)
(* first that holds, because no event enters a chain in its middle         *)
(* (Answers); it does after each element that is loaded.  A dispatch has   *)
(* what it set last in sight wherever it is (Current), and so have those   *)
(* its chains start, level by level (Deeper).                              *)
(***************************************************************************)
EXTENDS MidiEcho, TouchInput, LoopPanel, Bindings, FiniteSetTheorems, WellFoundedInduction, SequenceTheorems, TLAPS

Types ==
  /\ down \subseteq Keys /\ DOMAIN started = Keys /\ DOMAIN held = Keys
  /\ started = [k \in Keys |-> started[k]] /\ held = [k \in Keys |-> held[k]]
  /\ excused = [keys |-> excused.keys, notes |-> excused.notes] /\ excused.keys \subseteq Keys

\* A key that is down, and not excused, would be released where it sounds.
HeldAsStarted ==
  \A k \in down \ excused.keys : \E zones : held[k] = <<zones>> /\ started[k] = Notes(k, zones)

EchoInv == Types /\ HeldAsStarted /\ NotesEnd

--------------------------------------------------------------------------
LEMMA InitInv == EchoInit => EchoInv
  BY DEF EchoInit, EchoInv, Types, HeldAsStarted, NotesEnd

\* Where a remembered note goes does not depend on the port and channel of the echo.
LEMMA RememberedNotes ==
  ASSUME NEW k, NEW zones, zones # <<>>, transpose' = transpose
  PROVE  Notes(k, zones)' = Notes(k, zones)
  BY DEF Notes, Routed, Reached, Pitch

LEMMA SameNotes ==
  ASSUME NEW k, NEW zones, UNCHANGED <<transpose, echoPort, echoChannel>>
  PROVE  Notes(k, zones)' = Notes(k, zones)
  BY DEF Notes, Routed, Reached, Pitch, Echoed

--------------------------------------------------------------------------
(* The keyboard                                                            *)

LEMMA NoteOnInv == ASSUME EchoInv, NEW k \in Keys, NoteOn(k) PROVE EchoInv'
<1>1. Types'
  BY DEF EchoInv, Types, NoteOn
<1>2. /\ held'[k] = <<InRange(k)>> /\ started'[k] = Notes(k, InRange(k))
      /\ \A j \in Keys \ {k} : held'[j] = held[j] /\ started'[j] = started[j]
  BY DEF EchoInv, Types, NoteOn
<1>3. /\ UNCHANGED <<transpose, echoPort, echoChannel>>
      /\ down' = down \union {k} /\ excused'.keys = excused.keys \ {k}
      /\ sounding' = sounding \union Notes(k, InRange(k))
      /\ excused.notes \subseteq excused'.notes
      /\ k \in down \union excused.keys => started[k] \subseteq excused'.notes
  BY DEF NoteOn
<1>4. HeldAsStarted'
  <2> SUFFICES ASSUME NEW j \in down' \ excused'.keys
               PROVE  \E zones : held'[j] = <<zones>> /\ started'[j] = Notes(j, zones)'
    BY DEF HeldAsStarted
  <2>1. CASE j = k
    <3>1. PICK z : z = InRange(k)
      OBVIOUS
    <3>2. Notes(k, z)' = Notes(k, z)
      BY <1>3, SameNotes
    <3> QED
      BY <1>2, <3>1, <3>2, <2>1
  <2>2. CASE j # k
    <3>1. j \in down \ excused.keys /\ j \in Keys
      BY <1>3, <2>2 DEF EchoInv, Types
    <3>2. PICK zones : held[j] = <<zones>> /\ started[j] = Notes(j, zones)
      BY <3>1 DEF EchoInv, HeldAsStarted
    <3>3. held'[j] = <<zones>> /\ started'[j] = Notes(j, zones)
      BY <1>2, <2>2, <3>1, <3>2
    <3> QED
      BY <1>3, <3>3, SameNotes
  <2> QED
    BY <2>1, <2>2
<1>5. NotesEnd'
  <2> SUFFICES ASSUME NEW n \in sounding' \ excused'.notes
               PROVE  \E j \in down' \union excused'.keys : n \in started'[j]
    BY DEF NotesEnd
  <2>1. CASE n \in Notes(k, InRange(k))
    BY <1>2, <1>3, <2>1
  <2>2. CASE n \in sounding \ excused.notes
    <3>1. PICK j \in down \union excused.keys : n \in started[j]
      BY <2>2 DEF EchoInv, NotesEnd
    <3>2. j # k
      BY <1>3, <3>1
    <3> QED
      BY <1>1, <1>2, <1>3, <3>1, <3>2 DEF EchoInv, Types
  <2> QED
    BY <1>3, <2>1, <2>2
<1> QED
  BY <1>1, <1>4, <1>5 DEF EchoInv

LEMMA NoteOffInv == ASSUME EchoInv, NEW k \in Keys, NoteOff(k) PROVE EchoInv'
<1>1. Types'
  BY DEF EchoInv, Types, NoteOff
<1>2. /\ \A j \in Keys \ {k} : held'[j] = held[j]
      /\ down' = down \ {k} /\ UNCHANGED <<started, excused, transpose, echoPort, echoChannel>>
      /\ sounding' = sounding \ Notes(k, ReleasedRoutes(k)) /\ k \in down
  BY DEF EchoInv, Types, NoteOff
<1>3. HeldAsStarted'
  <2> SUFFICES ASSUME NEW j \in down' \ excused'.keys
               PROVE  \E zones : held'[j] = <<zones>> /\ started'[j] = Notes(j, zones)'
    BY DEF HeldAsStarted
  <2>1. j \in down \ excused.keys /\ j \in Keys /\ j # k
    BY <1>2 DEF EchoInv, Types
  <2>2. PICK zones : held[j] = <<zones>> /\ started[j] = Notes(j, zones)
    BY <2>1 DEF EchoInv, HeldAsStarted
  <2> QED
    BY <1>2, <2>1, <2>2, SameNotes
<1>4. NotesEnd'
  <2> SUFFICES ASSUME NEW n \in sounding' \ excused'.notes
               PROVE  \E j \in down' \union excused'.keys : n \in started'[j]
    BY DEF NotesEnd
  <2>1. PICK j \in down \union excused.keys : n \in started[j]
    BY <1>2 DEF EchoInv, NotesEnd
  <2>2. CASE j = k /\ k \notin excused.keys
    <3>1. PICK zones : held[k] = <<zones>> /\ started[k] = Notes(k, zones)
      BY <1>2, <2>2 DEF EchoInv, HeldAsStarted
    <3>2. ReleasedRoutes(k) = zones
      BY <3>1 DEF ReleasedRoutes, NoRoutes
    <3>3. n \in Notes(k, ReleasedRoutes(k))
      BY <2>1, <2>2, <3>1, <3>2
    <3> QED
      BY <1>2, <3>3
  <2>3. CASE j # k \/ k \in excused.keys
    BY <1>2, <2>1, <2>3
  <2> QED
    BY <2>2, <2>3
<1> QED
  BY <1>1, <1>3, <1>4 DEF EchoInv

--------------------------------------------------------------------------
(* The settings                                                            *)

\* Nothing the user sets changes what is down, held or sounding; it may excuse keys.
LEMMA SettingInv ==
  ASSUME EchoInv, NEW keys \in SUBSET down, Excuse(keys),
         UNCHANGED <<held, down, sounding, started>>,
         \A k \in down \ (excused.keys \union keys) :
           transpose' = transpose /\ (held[k] = <<<<>>>> => UNCHANGED <<echoPort, echoChannel>>)
  PROVE  EchoInv'
<1>1. excused'.keys = excused.keys \union keys /\ excused'.notes = excused.notes
  BY DEF EchoInv, Types, Excuse
<1>2. Types'
  BY DEF EchoInv, Types, Excuse
<1>3. HeldAsStarted'
  <2> SUFFICES ASSUME NEW j \in down' \ excused'.keys
               PROVE  \E zones : held'[j] = <<zones>> /\ started'[j] = Notes(j, zones)'
    BY DEF HeldAsStarted
  <2>1. j \in down \ excused.keys
    BY <1>1
  <2>2. PICK zones : held[j] = <<zones>> /\ started[j] = Notes(j, zones)
    BY <2>1 DEF EchoInv, HeldAsStarted
  <2>3. transpose' = transpose /\ (zones = <<>> => UNCHANGED <<echoPort, echoChannel>>)
    BY <1>1, <2>2
  <2>4. Notes(j, zones)' = Notes(j, zones)
    BY <2>3, SameNotes, RememberedNotes
  <2> QED
    BY <2>2, <2>4
<1>4. NotesEnd'
  BY <1>1 DEF EchoInv, NotesEnd
<1> QED
  BY <1>2, <1>3, <1>4 DEF EchoInv

LEMMA PanelEchoInv == ASSUME EchoInv, Panel PROVE EchoInv'
<1>1. ASSUME NEW port, SetEchoPort(port) PROVE EchoInv'
  BY <1>1, SettingInv DEF SetEchoPort, Unremembered
<1>2. ASSUME NEW channel, SetEchoChannel(channel) PROVE EchoInv'
  BY <1>2, SettingInv DEF SetEchoChannel, Unremembered
<1>3. ASSUME NEW to, Transpose(to) PROVE EchoInv'
  BY <1>3, SettingInv DEF Transpose
<1>4. ASSUME NEW patch, SelectPatch(patch) PROVE EchoInv'
  BY <1>4, SettingInv DEF SelectPatch, Unremembered
<1> QED
  BY <1>1, <1>2, <1>3, <1>4 DEF Panel

--------------------------------------------------------------------------
LEMMA NextInv == EchoInv /\ [EchoNext]_echoVars => EchoInv'
<1> SUFFICES ASSUME EchoInv, [EchoNext]_echoVars PROVE EchoInv'
  OBVIOUS
<1>1. CASE Keyboard
  BY <1>1, NoteOnInv, NoteOffInv DEF Keyboard
<1>2. CASE Panel
  BY <1>2, PanelEchoInv
<1>3. CASE UNCHANGED echoVars
  <2>1. Types' /\ NotesEnd'
    BY <1>3 DEF echoVars, EchoInv, Types, NotesEnd
  <2>2. HeldAsStarted'
    BY <1>3, SameNotes DEF echoVars, EchoInv, HeldAsStarted
  <2> QED
    BY <2>1, <2>2 DEF EchoInv
<1> QED
  BY <1>1, <1>2, <1>3 DEF EchoNext

\* Every note that sounds is ended by a release that is still to come, however often patches,
\* ports and channels change while keys are down (held_midi_routes), but for the keys
\* whose pitch or echo port changed under them or that were struck twice.
THEOREM NotesAreEnded == EchoSpec => []NotesEnd
<1>1. EchoInv => NotesEnd
  BY DEF EchoInv
<1> QED
  BY InitInv, NextInv, <1>1, PTL DEF EchoSpec

--------------------------------------------------------------------------
(* What poll_event takes and what it makes of it                           *)

Whos   == Fingers \union ScreenKeys \union {0}
Kinds  == {"none", "FingerDown", "FingerMotion", "FingerUp", "KeyDown", "KeyUp", "Quit",
           "Motion", "Press", "Release"}
Inputs == [kind : Kinds, who : Whos, row : Int]

TouchRecords ==
  [finger_id : Whos, start : Int, last : Int, accum : Int, dragging : BOOLEAN,
   down_button : {0, HoldButton, DoubleTapButton}, pending_tap : BOOLEAN]

\* What poll_event has still to read, and what of it may wait for a hold to be told first.
Inputted ==
  /\ contact \in [Fingers -> Int]
  /\ pump \in Seq(Inputs)
  /\ pending_touch_event \in Inputs /\ ~IsButton(pending_touch_event)

LEMMA NoInputIs ==
  /\ NoInput.kind = "none" /\ NoInput.who = 0 /\ NoInput.row = 0
  /\ NoInput \in Inputs /\ ~IsKey(NoInput) /\ ~IsButton(NoInput)
  BY DEF NoInput, Input, Inputs, Kinds, Whos, IsKey, IsButton

LEMMA InputIs ==
  ASSUME NEW kind \in Kinds, NEW who, NEW row
  PROVE  /\ Input(kind, who, row).kind = kind /\ Input(kind, who, row).who = who
         /\ Input(kind, who, row).row = row
         /\ who \in Whos /\ row \in Int => Input(kind, who, row) \in Inputs
  BY DEF Input, Inputs

LEMMA TakesOne ==
  ASSUME Inputted, NEW kind, Takes(kind)
  PROVE  /\ Head(pump) \in Inputs /\ Head(pump).kind = kind /\ pump # <<>>
         /\ pump' = Tail(pump) /\ pump' \in Seq(Inputs)
         /\ pending_touch_event = NoInput /\ input_active /\ ~left
  BY DEF Takes, Inputted, Polls

LEMMA QueueTypes ==
  ASSUME pump \in Seq(Inputs), NEW e \in Inputs, Queue(e)
  PROVE  pump' = Append(pump, e) /\ pump' \in Seq(Inputs)
  BY DEF Queue

LEMMA KeysAreWhos ==
  /\ \A k \in ScreenKeys : k \in Whos
  /\ \A f \in Fingers : f \in Whos
  /\ 0 \in Whos
  BY DEF Whos

LEMMA UserInputs ==
  ASSUME Inputted, UserActs
  PROVE  Inputted' /\ \E e \in Inputs : pump' = Append(pump, e)
<1> USE TouchAssumption, KeysAreWhos
<1>1. pending_touch_event' = pending_touch_event
  BY DEF UserActs, backendVars
<1> SUFFICES contact' \in [Fingers -> Int] /\ \E e \in Inputs : Queue(e)
  BY <1>1, QueueTypes DEF Inputted, IsButton
<1>2. ASSUME NEW f \in Fingers, Lifts(f)
      PROVE  contact' \in [Fingers -> Int] /\ \E e \in Inputs : Queue(e)
  BY <1>2, InputIs DEF Lifts, Inputted, Kinds
<1>3. ASSUME NEW f \in Fingers, NEW row \in Rows, Touches(f, row) \/ Slides(f, row)
      PROVE  contact' \in [Fingers -> Int] /\ \E e \in Inputs : Queue(e)
  <2>1. row \in Int
    BY DEF Rows
  <2> QED
    BY <1>3, <2>1, InputIs DEF Touches, Slides, Inputted, Kinds
<1>4. ASSUME NEW k \in ScreenKeys, Strokes(k)
      PROVE  contact' \in [Fingers -> Int] /\ \E e \in Inputs : Queue(e)
  BY <1>4, InputIs DEF Strokes, Inputted, Kinds
<1>5. CASE ClosesWindow
  BY <1>5, InputIs DEF ClosesWindow, Inputted, Kinds
<1> QED
  BY <1>2, <1>3, <1>4, <1>5 DEF UserActs

--------------------------------------------------------------------------
(* Gestures                                                                *)

\* GesturesAreWhole of any touch and of what was said of it; and what it takes to go on: a
\* contact that may still be a tap has said nothing, one that goes on was not a tap.
Whole(t, said, ms, w, s) ==
  /\ said = {t.down_button} \ {0}
  /\ TapButton \in ms => ms = {TapButton} /\ s = 0
  /\ t # NoTouch => /\ DRAG_WHEEL_STEP * w + t.accum = s
                    /\ TapButton \notin ms
                    /\ t.pending_tap => t.down_button = 0 /\ ~t.dragging /\ s = 0 /\ ms = {}

GestureInv ==
  /\ Inputted
  /\ touch \in TouchRecords /\ wheel \in Int /\ slid \in Int
  /\ Whole(touch, told, meanings, wheel, slid)

LEMMA NoTouchIs ==
  /\ NoTouch \in TouchRecords
  /\ NoTouch.down_button = 0
  BY DEF NoTouch, TouchRecords, Whos

LEMMA InitGesture == TouchInit => GestureInv
<1> SUFFICES ASSUME TouchInit PROVE GestureInv
  OBVIOUS
<1>1. Inputted
  BY NoInputIs DEF TouchInit, Inputted
<1>2. touch \in TouchRecords /\ wheel \in Int /\ slid \in Int
  BY NoTouchIs DEF TouchInit
<1>3. Whole(touch, told, meanings, wheel, slid)
  BY NoTouchIs DEF TouchInit, Whole
<1> QED
  BY <1>1, <1>2, <1>3 DEF GestureInv

\* What is not a button says nothing of a gesture.
LEMMA QuietlyReturned ==
  ASSUME NEW e, ~IsButton(e), Returned(e)
  PROVE  UNCHANGED <<told, meanings, wheel>>
  BY DEF Returned, IsButton

LEMMA PressReturned ==
  ASSUME NEW b, NEW row, Returned(Input("Press", b, row))
  PROVE  /\ told' = IF b \in {HoldButton, DoubleTapButton} THEN told \union {b} ELSE told
         /\ meanings' = meanings \union {b}
         /\ wheel' = CASE b = WheelDown -> wheel + 1
                       [] b = WheelUp   -> wheel - 1
                       [] OTHER         -> wheel
<1>1. Input("Press", b, row) # NoInput
  BY InputIs, NoInputIs DEF Kinds
<1> QED
  BY <1>1, InputIs DEF Returned, Kinds

LEMMA ReleaseReturned ==
  ASSUME NEW b, NEW row, Returned(Input("Release", b, row))
  PROVE  told' = told \ {b} /\ UNCHANGED <<meanings, wheel>>
<1>1. Input("Release", b, row) # NoInput
  BY InputIs, NoInputIs DEF Kinds
<1> QED
  BY <1>1, InputIs DEF Returned, Kinds

LEMMA PromotedIs ==
  ASSUME NEW t \in TouchRecords
  PROVE  /\ Promoted(t) \in TouchRecords
         /\ Promoted(t).down_button = HoldButton /\ ~Promoted(t).pending_tap
         /\ Promoted(t).accum = t.accum /\ Promoted(t).dragging = t.dragging
  BY DEF Promoted, TouchRecords

\* Settle, of an event that is no button: a hold that is due is told, and nothing else.
LEMMA SettlesQuietly ==
  ASSUME Inputted, NEW t \in TouchRecords, NEW e \in Inputs, NEW s, ~IsButton(e),
         Settle(t, e), Whole(t, told, meanings, wheel, s), wheel \in Int
  PROVE  /\ touch' \in TouchRecords /\ wheel' \in Int
         /\ Whole(touch', told', meanings', wheel', s)
         /\ pending_touch_event' \in Inputs /\ ~IsButton(pending_touch_event)'
<1>1. CASE HoldIsDue(t)
  <2>1. /\ touch' = Promoted(t) /\ pending_touch_event' = e
        /\ Returned(Input("Press", HoldButton, t.last))
    BY <1>1 DEF Settle
  <2>2. told' = told \union {HoldButton} /\ meanings' = meanings \union {HoldButton} /\ wheel' = wheel
    BY <2>1, PressReturned DEF HoldButton, WheelUp, WheelDown
  <2>3. t # NoTouch /\ t.down_button = 0
    BY <1>1 DEF HoldIsDue
  <2>4. Whole(touch', told', meanings', wheel', s)
    BY <2>1, <2>2, <2>3, PromotedIs DEF Whole, TapButton, HoldButton
  <2>5. ~IsButton(pending_touch_event)'
    BY <2>1 DEF IsButton
  <2> QED
    BY <2>1, <2>2, <2>4, <2>5, PromotedIs
<1>2. CASE ~HoldIsDue(t)
  <2>1. touch' = t /\ UNCHANGED pending_touch_event /\ Returned(e)
    BY <1>2 DEF Settle
  <2>2. UNCHANGED <<told, meanings, wheel>>
    BY <2>1, QuietlyReturned
  <2> QED
    BY <2>1, <2>2 DEF Inputted, IsButton
<1> QED
  BY <1>1, <1>2

LEMMA LandedIs ==
  ASSUME NEW e \in Inputs
  PROVE  /\ Landed(e) \in TouchRecords
         /\ Landed(e).down_button = 0 /\ Landed(e).accum = 0 /\ ~Landed(e).dragging
         /\ [Landed(e) EXCEPT !.down_button = DoubleTapButton, !.pending_tap = FALSE] \in TouchRecords
         /\ [Landed(e) EXCEPT !.down_button = DoubleTapButton, !.pending_tap = FALSE].down_button = DoubleTapButton
         /\ [Landed(e) EXCEPT !.down_button = DoubleTapButton, !.pending_tap = FALSE].accum = 0
         /\ ~[Landed(e) EXCEPT !.down_button = DoubleTapButton, !.pending_tap = FALSE].pending_tap
<1> DEFINE none   == NoTouch
           landed == [none EXCEPT !.finger_id = e.who, !.start = e.row, !.last = e.row, !.pending_tap = TRUE]
           double == [landed EXCEPT !.down_button = DoubleTapButton, !.pending_tap = FALSE]
<1>1. e.who \in Whos /\ e.row \in Int
  BY DEF Inputs
<1>2. none \in TouchRecords /\ none.down_button = 0 /\ none.accum = 0 /\ ~none.dragging
  BY NoTouchIs DEF NoTouch
<1>3. Landed(e) = landed
  BY DEF Landed
<1> HIDE DEF none
<1>4. landed \in TouchRecords /\ landed.down_button = 0 /\ landed.accum = 0 /\ ~landed.dragging
  BY <1>1, <1>2 DEF TouchRecords
<1> HIDE DEF landed
<1>5. /\ double \in TouchRecords
      /\ double.down_button = DoubleTapButton /\ double.accum = 0 /\ ~double.pending_tap
  BY <1>4 DEF TouchRecords
<1> QED
  BY <1>3, <1>4, <1>5

LEMMA FingerDownGesture == ASSUME GestureInv, PollFingerDown PROVE GestureInv'
<1> USE TouchAssumption
<1> DEFINE e == Head(pump)
           double == [Landed(e) EXCEPT !.down_button = DoubleTapButton, !.pending_tap = FALSE]
<1>1. e \in Inputs /\ pump' \in Seq(Inputs) /\ contact' = contact
  BY TakesOne DEF GestureInv, PollFingerDown, userVars
<1>2. DRAG_WHEEL_STEP * 0 + 0 = 0
  OBVIOUS
<1>6. /\ Landed(e) \in TouchRecords /\ double \in TouchRecords
      /\ Landed(e).down_button = 0 /\ Landed(e).accum = 0 /\ ~Landed(e).dragging
      /\ double.down_button = DoubleTapButton /\ double.accum = 0 /\ ~double.pending_tap
  BY <1>1, LandedIs
<1>3. CASE touch # NoTouch /\ Ignored(e)
  BY <1>1, <1>3 DEF Ignored, backendVars, ghostVars, GestureInv, Inputted, Whole, IsButton
<1>4. CASE touch = NoTouch /\ DoubleTaps(e.row)
  <2>1. /\ touch' = double /\ pending_touch_event' = pending_touch_event
        /\ told' = told \union {DoubleTapButton} /\ meanings' = {DoubleTapButton}
        /\ wheel' = 0 /\ slid' = 0
    BY <1>4 DEF PollFingerDown
  <2>2. told = {}
    BY <1>4, NoTouchIs DEF GestureInv, Whole
  <2>3. Whole(touch', told', meanings', wheel', slid')
    BY <1>1, <1>2, <2>1, <2>2, <1>6 DEF Whole, TapButton, DoubleTapButton
  <2> QED
    BY <1>1, <2>1, <2>3, <1>6 DEF GestureInv, Inputted, IsButton
<1>5. CASE touch = NoTouch /\ ~DoubleTaps(e.row)
  <2>1. /\ touch' = Landed(e) /\ pending_touch_event' = pending_touch_event
        /\ told' = told /\ meanings' = {} /\ wheel' = 0 /\ slid' = 0
    BY <1>5 DEF PollFingerDown
  <2>2. told = {}
    BY <1>5, NoTouchIs DEF GestureInv, Whole
  <2>3. Whole(touch', told', meanings', wheel', slid')
    BY <1>1, <1>2, <2>1, <2>2, <1>6 DEF Whole
  <2> QED
    BY <1>1, <2>1, <2>3, <1>6 DEF GestureInv, Inputted, IsButton
<1> QED
  BY <1>3, <1>4, <1>5 DEF PollFingerDown

LEMMA MovedIs ==
  ASSUME NEW t \in TouchRecords, NEW row \in Int
  PROVE  /\ Moved(t, row) \in TouchRecords
         /\ Moved(t, row).down_button = t.down_button
         /\ Moved(t, row).dragging <=> t.dragging \/ Apart(row, t.start) > DRAG_THRESHOLD
         /\ Moved(t, row).accum = IF Moved(t, row).dragging THEN t.accum + (row - t.last) ELSE t.accum
         /\ Moved(t, row).pending_tap <=> t.pending_tap /\ ~(Moved(t, row).dragging /\ t.down_button = 0)
<1> DEFINE drags == t.dragging \/ Apart(row, t.start) > DRAG_THRESHOLD
           far   == IF drags THEN t.accum + (row - t.last) ELSE t.accum
           taps  == t.pending_tap /\ ~(drags /\ t.down_button = 0)
<1>1. Moved(t, row) =
        [t EXCEPT !.last = row, !.dragging = drags, !.accum = far, !.pending_tap = taps]
  BY DEF Moved
<1>2. drags \in BOOLEAN /\ far \in Int /\ taps \in BOOLEAN
  BY DEF TouchRecords
<1> HIDE DEF drags, far, taps
<1>3. /\ Moved(t, row) \in TouchRecords
      /\ Moved(t, row).down_button = t.down_button /\ Moved(t, row).dragging = drags
      /\ Moved(t, row).accum = far /\ Moved(t, row).pending_tap = taps
  BY <1>1, <1>2 DEF TouchRecords
<1> QED
  BY <1>3 DEF drags, far, taps

LEMMA SteppedIs ==
  ASSUME NEW t \in TouchRecords
  PROVE  /\ Stepped(t) \in TouchRecords
         /\ Stepped(t).down_button = t.down_button /\ Stepped(t).dragging = t.dragging
         /\ Stepped(t).pending_tap = t.pending_tap
         /\ Stepped(t).accum = CASE t.accum >= DRAG_WHEEL_STEP  -> t.accum - DRAG_WHEEL_STEP
                                 [] -t.accum >= DRAG_WHEEL_STEP -> t.accum + DRAG_WHEEL_STEP
                                 [] OTHER                       -> t.accum
<1> USE TouchAssumption
<1>1. CASE t.accum >= DRAG_WHEEL_STEP
  <2>1. ~(-t.accum >= DRAG_WHEEL_STEP)
    BY <1>1 DEF TouchRecords
  <2> QED
    BY <1>1, <2>1 DEF Stepped, TouchRecords
<1>2. CASE -t.accum >= DRAG_WHEEL_STEP
  <2>1. ~(t.accum >= DRAG_WHEEL_STEP)
    BY <1>2 DEF TouchRecords
  <2> QED
    BY <1>2, <2>1 DEF Stepped, TouchRecords
<1>3. CASE ~(t.accum >= DRAG_WHEEL_STEP) /\ ~(-t.accum >= DRAG_WHEEL_STEP)
  BY <1>3 DEF Stepped
<1> QED
  BY <1>1, <1>2, <1>3

LEMMA WheelTurns ==
  ASSUME NEW step \in Nat, NEW w \in Int
  PROVE  /\ step * (w + 1) = step * w + step
         /\ step * (w - 1) = step * w - step
         /\ step * w \in Int
  OBVIOUS

\* A drag: one step of the wheel at most, and the rest is carried.
LEMMA DragGesture ==
  ASSUME GestureInv, NEW t \in TouchRecords, NEW s \in Int, t.dragging, Settle(Stepped(t), WheelOf(t)),
         told = {t.down_button} \ {0}, TapButton \notin meanings, ~t.pending_tap,
         DRAG_WHEEL_STEP * wheel + t.accum = s
  PROVE  /\ touch' \in TouchRecords /\ wheel' \in Int
         /\ Whole(touch', told', meanings', wheel', s)
         /\ pending_touch_event' = pending_touch_event
<1> USE TouchAssumption
<1>1. /\ touch' = Stepped(t) /\ UNCHANGED pending_touch_event /\ Returned(WheelOf(t))
  BY SteppedIs DEF Settle, HoldIsDue
<1>2. /\ touch' \in TouchRecords
      /\ touch'.down_button = t.down_button /\ ~touch'.pending_tap
  BY <1>1, SteppedIs
<1>3. wheel \in Int /\ t.accum \in Int
  BY DEF GestureInv, TouchRecords
<1>4. CASE t.accum >= DRAG_WHEEL_STEP
  <2>1. WheelOf(t) = Input("Press", WheelDown, t.last)
    BY <1>3, <1>4 DEF WheelOf
  <2>2. told' = told /\ meanings' = meanings \union {WheelDown} /\ wheel' = wheel + 1
    BY <1>1, <2>1, PressReturned DEF HoldButton, DoubleTapButton, WheelUp, WheelDown
  <2>3. touch'.accum = t.accum - DRAG_WHEEL_STEP
    BY <1>1, <1>3, <1>4, SteppedIs
  <2>4. DRAG_WHEEL_STEP * wheel' + touch'.accum = s
    BY <1>3, <2>2, <2>3, WheelTurns
  <2> QED
    BY <1>1, <1>2, <1>3, <2>2, <2>4 DEF Whole, TapButton, WheelDown
<1>5. CASE -t.accum >= DRAG_WHEEL_STEP
  <2>1. ~(t.accum >= DRAG_WHEEL_STEP)
    BY <1>3, <1>5
  <2>2. WheelOf(t) = Input("Press", WheelUp, t.last)
    BY <1>5, <2>1 DEF WheelOf
  <2>3. told' = told /\ meanings' = meanings \union {WheelUp} /\ wheel' = wheel - 1
    BY <1>1, <2>2, PressReturned DEF HoldButton, DoubleTapButton, WheelUp, WheelDown
  <2>4. touch'.accum = t.accum + DRAG_WHEEL_STEP
    BY <1>1, <1>5, <2>1, SteppedIs
  <2>5. DRAG_WHEEL_STEP * wheel' + touch'.accum = s
    BY <1>3, <2>3, <2>4, WheelTurns
  <2> QED
    BY <1>1, <1>2, <1>3, <2>3, <2>5 DEF Whole, TapButton, WheelUp
<1>6. CASE ~(t.accum >= DRAG_WHEEL_STEP) /\ ~(-t.accum >= DRAG_WHEEL_STEP)
  <2>1. WheelOf(t) = NoInput /\ touch'.accum = t.accum
    BY <1>1, <1>6, SteppedIs DEF WheelOf
  <2>2. UNCHANGED <<told, meanings, wheel>>
    BY <1>1, <2>1 DEF Returned
  <2> QED
    BY <1>1, <1>2, <1>3, <2>1, <2>2 DEF Whole
<1> QED
  BY <1>4, <1>5, <1>6

LEMMA FingerMotionGesture == ASSUME GestureInv, PollFingerMotion PROVE GestureInv'
<1> DEFINE e == Head(pump)
           t == Moved(touch, e.row)
<1>1. e \in Inputs /\ pump' \in Seq(Inputs) /\ contact' = contact /\ e.row \in Int
  BY TakesOne DEF GestureInv, PollFingerMotion, userVars, Inputs
<1>2. CASE ~Follows(e) /\ Ignored(e)
  BY <1>1, <1>2 DEF Ignored, backendVars, ghostVars, GestureInv, Inputted, Whole, IsButton
<1>3. ASSUME Follows(e)
      PROVE  /\ t \in TouchRecords /\ t.down_button = touch.down_button
             /\ told = {t.down_button} \ {0} /\ TapButton \notin meanings
             /\ DRAG_WHEEL_STEP * wheel + touch.accum = slid
             /\ t.dragging => ~t.pending_tap /\ t.accum = touch.accum + (e.row - touch.last)
             /\ ~t.dragging => /\ t.accum = touch.accum
                               /\ t.pending_tap <=> touch.pending_tap
                               /\ ~touch.dragging
  BY <1>1, <1>3, MovedIs DEF GestureInv, Whole, Follows
<1>4. CASE Follows(e) /\ t.dragging /\ Settle(Stepped(t), WheelOf(t)) /\ slid' = slid + (e.row - touch.last)
  <2>1. slid' \in Int /\ slid \in Int /\ touch.last \in Int /\ touch.accum \in Int /\ wheel \in Int
    BY <1>1, <1>4 DEF GestureInv, TouchRecords
  <2>2. DRAG_WHEEL_STEP * wheel \in Int
    BY <2>1, WheelTurns, TouchAssumption
  <2>3. DRAG_WHEEL_STEP * wheel + t.accum = slid'
    BY <1>1, <1>3, <1>4, <2>1, <2>2
  <2>4. /\ touch' \in TouchRecords /\ wheel' \in Int
        /\ Whole(touch', told', meanings', wheel', slid')
        /\ pending_touch_event' = pending_touch_event
    BY <1>3, <1>4, <2>1, <2>3, DragGesture
  <2> QED
    BY <1>1, <2>1, <2>4 DEF GestureInv, Inputted, IsButton
<1>5. CASE Follows(e) /\ ~t.dragging /\ Settle(t, Input("Motion", 0, e.row)) /\ slid' = slid
  <2>1. Input("Motion", 0, e.row) \in Inputs /\ ~IsButton(Input("Motion", 0, e.row))
    BY <1>1, InputIs DEF IsButton, Whos, Kinds
  <2>2. Whole(t, told, meanings, wheel, slid)
    BY <1>3, <1>5 DEF GestureInv, Whole, Follows
  <2>3. /\ touch' \in TouchRecords /\ wheel' \in Int
        /\ Whole(touch', told', meanings', wheel', slid)
        /\ pending_touch_event' \in Inputs /\ ~IsButton(pending_touch_event)'
    BY <1>3, <1>5, <2>1, <2>2, SettlesQuietly DEF GestureInv
  <2> QED
    BY <1>1, <1>5, <2>3 DEF GestureInv, Inputted
<1> QED
  BY <1>2, <1>4, <1>5 DEF PollFingerMotion

LEMMA FingerUpGesture == ASSUME GestureInv, PollFingerUp PROVE GestureInv'
<1> DEFINE e == Head(pump)
<1>1. e \in Inputs /\ pump' \in Seq(Inputs) /\ contact' = contact
  BY TakesOne DEF GestureInv, PollFingerUp, userVars
<1>2. CASE ~Follows(e) /\ Ignored(e)
  BY <1>1, <1>2 DEF Ignored, backendVars, ghostVars, GestureInv, Inputted, Whole, IsButton
<1>3. CASE Follows(e) /\ touch' = NoTouch /\ Returned(Ending(touch, e.row))
           /\ UNCHANGED <<pending_touch_event, slid>>
  <2>1. Whole(touch, told, meanings, wheel, slid) /\ touch # NoTouch /\ touch \in TouchRecords
    BY <1>3 DEF GestureInv, Follows
  <2>2. CASE touch.down_button # 0
    <3>1. Returned(Input("Release", touch.down_button, e.row))
      BY <1>3, <2>1, <2>2 DEF Ending, Whole
    <3>2. told' = {} /\ UNCHANGED <<meanings, wheel>>
      BY <2>1, <3>1, ReleaseReturned DEF Whole
    <3> QED
      BY <1>1, <1>3, <2>1, <3>2, NoTouchIs DEF GestureInv, Inputted, Whole, IsButton
  <2>3. CASE touch.down_button = 0 /\ touch.pending_tap
    <3>1. Returned(Input("Press", TapButton, e.row))
      BY <1>3, <2>3 DEF Ending
    <3>2. told' = {} /\ meanings' = {TapButton} /\ wheel' = wheel
      BY <2>1, <2>3, <3>1, PressReturned
         DEF Whole, TapButton, HoldButton, DoubleTapButton, WheelDown, WheelUp
    <3>3. slid = 0
      BY <2>1, <2>3 DEF Whole
    <3> QED
      BY <1>1, <1>3, <2>1, <3>2, <3>3, NoTouchIs DEF GestureInv, Inputted, Whole, IsButton
  <2>4. CASE touch.down_button = 0 /\ ~touch.pending_tap
    <3>1. Returned(NoInput)
      BY <1>3, <2>4 DEF Ending
    <3>2. UNCHANGED <<told, meanings, wheel>>
      BY <3>1 DEF Returned
    <3> QED
      BY <1>1, <1>3, <2>1, <2>4, <3>2, NoTouchIs DEF GestureInv, Inputted, Whole, IsButton
  <2> QED
    BY <2>2, <2>3, <2>4
<1> QED
  BY <1>2, <1>3 DEF PollFingerUp

LEMMA PollOtherGesture == ASSUME GestureInv, PollOther PROVE GestureInv'
<1> DEFINE e == Head(pump)
<1>1. PICK kind \in {"KeyDown", "KeyUp", "Quit"} : Takes(kind)
  BY DEF PollOther
<1>2. e \in Inputs /\ pump' \in Seq(Inputs) /\ e.kind = kind
  BY <1>1, TakesOne DEF GestureInv
<1>3. ~IsButton(e)
  BY <1>2 DEF IsButton
<1>4. Settle(touch, e) /\ contact' = contact /\ slid' = slid
  BY DEF PollOther, userVars
<1>5. /\ touch' \in TouchRecords /\ wheel' \in Int
      /\ Whole(touch', told', meanings', wheel', slid)
      /\ pending_touch_event' \in Inputs /\ ~IsButton(pending_touch_event)'
  BY <1>2, <1>3, <1>4, SettlesQuietly DEF GestureInv
<1> QED
  BY <1>2, <1>4, <1>5 DEF GestureInv, Inputted

LEMMA PollTimesOutGesture == ASSUME GestureInv, PollTimesOut PROVE GestureInv'
<1>1. Settle(touch, NoInput) /\ UNCHANGED <<contact, pump, slid>>
  BY DEF PollTimesOut, userVars
<1>2. /\ touch' \in TouchRecords /\ wheel' \in Int
      /\ Whole(touch', told', meanings', wheel', slid)
      /\ pending_touch_event' \in Inputs /\ ~IsButton(pending_touch_event)'
  BY <1>1, NoInputIs, SettlesQuietly DEF GestureInv
<1> QED
  BY <1>1, <1>2 DEF GestureInv, Inputted

LEMMA PollBufferedGesture == ASSUME GestureInv, PollBuffered PROVE GestureInv'
<1>1. UNCHANGED <<told, meanings, wheel>>
  BY QuietlyReturned DEF GestureInv, Inputted, PollBuffered
<1>2. pending_touch_event' = NoInput /\ UNCHANGED <<contact, pump, touch, slid>>
  BY DEF PollBuffered, userVars
<1>3. Inputted'
  BY <1>2, NoInputIs DEF GestureInv, Inputted, IsButton
<1> QED
  BY <1>1, <1>2, <1>3 DEF GestureInv, Whole

LEMMA QuietGesture ==
  ASSUME GestureInv, Inputted', UNCHANGED <<touch, ghostVars>>
  PROVE  GestureInv'
  BY DEF GestureInv, ghostVars, Whole

LEMMA NextGesture == GestureInv /\ [TouchNext]_touchVars => GestureInv'
<1> SUFFICES ASSUME GestureInv, [TouchNext]_touchVars PROVE GestureInv'
  OBVIOUS
<1>1. CASE UserActs
  BY <1>1, UserInputs, QuietGesture DEF GestureInv, UserActs, backendVars
<1>2. CASE TimePasses \/ ListOpens \/ UNCHANGED touchVars
  <2>1. UNCHANGED <<contact, pump, pending_touch_event, touch, ghostVars>>
    BY <1>2 DEF TimePasses, ListOpens, touchVars, userVars, backendVars
  <2> QED
    BY <2>1, QuietGesture DEF GestureInv, Inputted, IsButton
<1>3. CASE Poll_event
  BY <1>3, PollBufferedGesture, PollTimesOutGesture, FingerDownGesture, FingerMotionGesture,
     FingerUpGesture, PollOtherGesture DEF Poll_event
<1> QED
  BY <1>1, <1>2, <1>3 DEF TouchNext

\* A gesture is whole for any fingers, screen, thresholds and deadlines: the event loop
\* believes down just the button the touch has pressed, a tap was nothing else, and a
\* drag turns the wheel by what it moved (Sdl2InputBackend::poll_event).
THEOREM GesturesStayWhole == TouchSpec => []GesturesAreWhole
<1>1. GestureInv => GesturesAreWhole
  BY DEF GestureInv, Whole, GesturesAreWhole
<1> QED
  BY InitGesture, NextGesture, <1>1, PTL DEF TouchSpec

--------------------------------------------------------------------------
(* Keys and the close request                                              *)

\* SaidDown, of any events on their way to what SdlIo makes of them.
SaidBy(s, before, k, n) ==
  \/ \E i \in 1..n : KeyDown(s[i], k) /\ \A j \in (i + 1)..n : ~About(s[j], k)
  \/ before /\ \A j \in 1..n : ~About(s[j], k)

\* What is said of a key once the event that waits is read, and by the event e before that.
Waits(k)          == KeyDown(pending_touch_event, k) \/ (~About(pending_touch_event, k) /\ k \in held_keys)
After(e, k, before) == KeyDown(e, k) \/ (~About(e, k) /\ before)

Asks(s) == \E i \in 1..Len(s) : s[i].kind = "Quit"

LEMMA SaidDownIs == \A k : SaidDown(k, Len(pump)) <=> SaidBy(pump, Waits(k), k, Len(pump))
  BY DEF SaidDown, SaidBy, Waits

LEMMA SaidDownNext ==
  \A k : SaidDown(k, Len(pump))' <=> SaidBy(pump', Waits(k)', k, Len(pump'))
  BY DEF SaidDown, SaidBy, Waits

LEMMA AppendIs ==
  ASSUME NEW S, NEW s \in Seq(S), NEW e \in S
  PROVE  /\ Len(Append(s, e)) = Len(s) + 1 /\ Len(s) \in Nat
         /\ Append(s, e)[Len(s) + 1] = e
         /\ \A i \in 1..Len(s) : Append(s, e)[i] = s[i]
  OBVIOUS

LEMMA SaidMore ==
  ASSUME NEW s \in Seq(Inputs), NEW e \in Inputs, NEW k, NEW before \in BOOLEAN
  PROVE  SaidBy(Append(s, e), before, k, Len(s) + 1) <=> After(e, k, SaidBy(s, before, k, Len(s)))
<1> DEFINE t == Append(s, e)
           n == Len(s)
<1>1. n \in Nat /\ t[n + 1] = e /\ \A i \in 1..n : t[i] = s[i]
  BY AppendIs
<1> HIDE DEF t, n
<1>2. ASSUME SaidBy(t, before, k, n + 1) PROVE After(e, k, SaidBy(s, before, k, n))
  <2>1. CASE \E i \in 1..(n + 1) : KeyDown(t[i], k) /\ \A j \in (i + 1)..(n + 1) : ~About(t[j], k)
    <3>1. PICK i \in 1..(n + 1) : KeyDown(t[i], k) /\ \A j \in (i + 1)..(n + 1) : ~About(t[j], k)
      BY <2>1
    <3>2. CASE i = n + 1
      BY <1>1, <3>1, <3>2 DEF After
    <3>3. CASE i # n + 1
      <4>1. i \in 1..n /\ n + 1 \in (i + 1)..(n + 1)
        BY <1>1, <3>3
      <4>2. ~About(e, k)
        BY <1>1, <3>1, <4>1
      <4>3. KeyDown(s[i], k)
        BY <1>1, <3>1, <4>1
      <4>4. ASSUME NEW j \in (i + 1)..n PROVE ~About(s[j], k)
        <5>1. j \in (i + 1)..(n + 1) /\ j \in 1..n
          BY <1>1, <4>1
        <5> QED
          BY <1>1, <3>1, <5>1
      <4> QED
        BY <4>1, <4>2, <4>3, <4>4 DEF After, SaidBy
    <3> QED
      BY <3>2, <3>3
  <2>2. CASE before /\ \A j \in 1..(n + 1) : ~About(t[j], k)
    <3>1. ~About(e, k)
      BY <1>1, <2>2
    <3>2. ASSUME NEW j \in 1..n PROVE ~About(s[j], k)
      <4>1. j \in 1..(n + 1)
        BY <1>1
      <4> QED
        BY <1>1, <2>2, <4>1
    <3> QED
      BY <2>2, <3>1, <3>2 DEF After, SaidBy
  <2> QED
    BY <1>2, <2>1, <2>2 DEF SaidBy
<1>3. ASSUME After(e, k, SaidBy(s, before, k, n)) PROVE SaidBy(t, before, k, n + 1)
  <2>1. CASE KeyDown(e, k)
    <3>1. KeyDown(t[n + 1], k) /\ n + 1 \in 1..(n + 1) /\ \A j \in (n + 1 + 1)..(n + 1) : ~About(t[j], k)
      BY <1>1, <2>1
    <3> QED
      BY <3>1 DEF SaidBy
  <2>2. CASE ~About(e, k) /\ \E i \in 1..n : KeyDown(s[i], k) /\ \A j \in (i + 1)..n : ~About(s[j], k)
    <3>1. PICK i \in 1..n : KeyDown(s[i], k) /\ \A j \in (i + 1)..n : ~About(s[j], k)
      BY <2>2
    <3>2. i \in 1..(n + 1) /\ KeyDown(t[i], k)
      BY <1>1, <3>1
    <3>3. ASSUME NEW j \in (i + 1)..(n + 1) PROVE ~About(t[j], k)
      <4>1. j = n + 1 \/ (j \in (i + 1)..n /\ j \in 1..n)
        BY <1>1
      <4> QED
        BY <1>1, <2>2, <3>1, <4>1
    <3> QED
      BY <3>2, <3>3 DEF SaidBy
  <2>3. CASE ~About(e, k) /\ before /\ \A j \in 1..n : ~About(s[j], k)
    <3>1. ASSUME NEW j \in 1..(n + 1) PROVE ~About(t[j], k)
      <4>1. j = n + 1 \/ j \in 1..n
        BY <1>1
      <4> QED
        BY <1>1, <2>3, <4>1
    <3> QED
      BY <2>3, <3>1 DEF SaidBy
  <2> QED
    BY <1>3, <2>1, <2>2, <2>3 DEF After, SaidBy
<1> QED
  BY <1>2, <1>3 DEF t, n

LEMMA TailIs ==
  ASSUME NEW S, NEW s \in Seq(S), s # <<>>
  PROVE  /\ Len(s) \in Nat \ {0} /\ Len(Tail(s)) = Len(s) - 1
         /\ Head(s) = s[1] /\ Tail(s) \in Seq(S)
         /\ \A i \in 1..Len(Tail(s)) : Tail(s)[i] = s[i + 1]
  BY EmptySeq, HeadTailProperties

LEMMA SaidLess ==
  ASSUME NEW s \in Seq(Inputs), s # <<>>, NEW k, NEW before \in BOOLEAN
  PROVE  SaidBy(Tail(s), After(Head(s), k, before), k, Len(Tail(s))) <=> SaidBy(s, before, k, Len(s))
<1> DEFINE t == Tail(s)
           n == Len(t)
<1>1. /\ n \in Nat /\ Len(s) = n + 1 /\ Head(s) = s[1]
      /\ \A i \in 1..n : t[i] = s[i + 1]
  BY TailIs
<1> HIDE DEF t, n
<1>2. ASSUME SaidBy(t, After(s[1], k, before), k, n) PROVE SaidBy(s, before, k, n + 1)
  <2>1. CASE \E i \in 1..n : KeyDown(t[i], k) /\ \A j \in (i + 1)..n : ~About(t[j], k)
    <3>1. PICK i \in 1..n : KeyDown(t[i], k) /\ \A j \in (i + 1)..n : ~About(t[j], k)
      BY <2>1
    <3>2. i + 1 \in 1..(n + 1) /\ KeyDown(s[i + 1], k)
      BY <1>1, <3>1
    <3>3. ASSUME NEW j \in (i + 1 + 1)..(n + 1) PROVE ~About(s[j], k)
      <4>1. j - 1 \in (i + 1)..n /\ j - 1 \in 1..n /\ j - 1 + 1 = j
        BY <1>1
      <4> QED
        BY <1>1, <3>1, <4>1
    <3> QED
      BY <3>2, <3>3 DEF SaidBy
  <2>2. CASE After(s[1], k, before) /\ \A j \in 1..n : ~About(t[j], k)
    <3>1. ASSUME NEW j \in 2..(n + 1) PROVE ~About(s[j], k)
      <4>1. j - 1 \in 1..n /\ j - 1 + 1 = j
        BY <1>1
      <4> QED
        BY <1>1, <2>2, <4>1
    <3>2. CASE KeyDown(s[1], k)
      <4>1. 1 \in 1..(n + 1) /\ \A j \in (1 + 1)..(n + 1) : ~About(s[j], k)
        BY <1>1, <3>1
      <4> QED
        BY <3>2, <4>1 DEF SaidBy
    <3>3. CASE ~About(s[1], k) /\ before
      <4>1. ASSUME NEW j \in 1..(n + 1) PROVE ~About(s[j], k)
        <5>1. j = 1 \/ j \in 2..(n + 1)
          BY <1>1
        <5> QED
          BY <3>1, <3>3, <5>1
      <4> QED
        BY <3>3, <4>1 DEF SaidBy
    <3> QED
      BY <2>2, <3>2, <3>3 DEF After
  <2> QED
    BY <1>2, <2>1, <2>2 DEF SaidBy
<1>3. ASSUME SaidBy(s, before, k, n + 1) PROVE SaidBy(t, After(s[1], k, before), k, n)
  <2>1. CASE \E i \in 1..(n + 1) : KeyDown(s[i], k) /\ \A j \in (i + 1)..(n + 1) : ~About(s[j], k)
    <3>1. PICK i \in 1..(n + 1) : KeyDown(s[i], k) /\ \A j \in (i + 1)..(n + 1) : ~About(s[j], k)
      BY <2>1
    <3>2. CASE i = 1
      <4>1. After(s[1], k, before)
        BY <3>1, <3>2 DEF After
      <4>2. ASSUME NEW j \in 1..n PROVE ~About(t[j], k)
        <5>1. j + 1 \in (i + 1)..(n + 1)
          BY <1>1, <3>2
        <5> QED
          BY <1>1, <3>1, <5>1
      <4> QED
        BY <4>1, <4>2 DEF SaidBy
    <3>3. CASE i # 1
      <4>1. i - 1 \in 1..n /\ i - 1 + 1 = i
        BY <1>1, <3>3
      <4>2. KeyDown(t[i - 1], k)
        BY <1>1, <3>1, <4>1
      <4>3. ASSUME NEW j \in (i - 1 + 1)..n PROVE ~About(t[j], k)
        <5>1. j \in 1..n /\ j + 1 \in (i + 1)..(n + 1)
          BY <1>1, <4>1
        <5> QED
          BY <1>1, <3>1, <5>1
      <4> QED
        BY <4>1, <4>2, <4>3 DEF SaidBy
    <3> QED
      BY <3>2, <3>3
  <2>2. CASE before /\ \A j \in 1..(n + 1) : ~About(s[j], k)
    <3>1. After(s[1], k, before)
      BY <1>1, <2>2 DEF After
    <3>2. ASSUME NEW j \in 1..n PROVE ~About(t[j], k)
      <4>1. j + 1 \in 1..(n + 1)
        BY <1>1
      <4> QED
        BY <1>1, <2>2, <4>1
    <3> QED
      BY <3>1, <3>2 DEF SaidBy
  <2> QED
    BY <1>3, <2>1, <2>2 DEF SaidBy
<1> QED
  BY <1>1, <1>2, <1>3 DEF t, n

LEMMA AskedMore ==
  ASSUME NEW s \in Seq(Inputs), NEW e \in Inputs
  PROVE  /\ Asks(s) => Asks(Append(s, e))
         /\ e.kind = "Quit" => Asks(Append(s, e))
  BY AppendIs DEF Asks

LEMMA AskedLess ==
  ASSUME NEW s \in Seq(Inputs), s # <<>>, Asks(s), Head(s).kind # "Quit"
  PROVE  Asks(Tail(s))
<1>1. PICK i \in 1..Len(s) : s[i].kind = "Quit"
  BY DEF Asks
<1>2. i # 1 /\ Len(s) \in Nat
  BY <1>1, TailIs
<1>3. i - 1 \in 1..Len(Tail(s)) /\ i - 1 + 1 = i
  BY <1>1, <1>2, TailIs
<1>4. Tail(s)[i - 1].kind = "Quit"
  BY <1>1, <1>3, TailIs
<1> QED
  BY <1>3, <1>4 DEF Asks

LEMMA KeptMeans ==
  InputIsKept <=> /\ \A k \in ScreenKeys : k \in pressed <=> SaidBy(pump, Waits(k), k, Len(pump))
                  /\ asked => ~input_active \/ pending_touch_event.kind = "Quit" \/ Asks(pump)
  BY SaidDownIs DEF InputIsKept, Asks

LEMMA KeptNext ==
  InputIsKept' <=> /\ \A k \in ScreenKeys : k \in pressed' <=> SaidBy(pump', Waits(k)', k, Len(pump'))
                   /\ asked' => ~input_active' \/ pending_touch_event'.kind = "Quit" \/ Asks(pump')
  BY SaidDownNext DEF InputIsKept, Asks

\* The user does something, and SDL queues it.
LEMMA QueueKept ==
  ASSUME Inputted, InputIsKept, NEW e \in Inputs, pump' = Append(pump, e),
         UNCHANGED <<pending_touch_event, held_keys, input_active>>,
         \A k \in ScreenKeys : k \in pressed' <=> After(e, k, k \in pressed),
         asked' => asked \/ e.kind = "Quit"
  PROVE  InputIsKept'
<1>1. pump \in Seq(Inputs) /\ Len(pump') = Len(pump) + 1
  BY AppendIs DEF Inputted
<1>2. ASSUME NEW k \in ScreenKeys PROVE k \in pressed' <=> SaidBy(pump', Waits(k)', k, Len(pump'))
  <2>1. Waits(k)' = Waits(k) /\ Waits(k) \in BOOLEAN
    BY DEF Waits, KeyDown, About
  <2>2. SaidBy(pump', Waits(k), k, Len(pump) + 1) <=> After(e, k, SaidBy(pump, Waits(k), k, Len(pump)))
    BY <1>1, <2>1, SaidMore
  <2>3. k \in pressed <=> SaidBy(pump, Waits(k), k, Len(pump))
    BY KeptMeans
  <2> QED
    BY <1>1, <2>1, <2>2, <2>3 DEF After
<1>3. asked' => ~input_active' \/ pending_touch_event'.kind = "Quit" \/ Asks(pump')
  BY <1>1, AskedMore, KeptMeans
<1> QED
  BY <1>2, <1>3, KeptNext

\* The event loop takes the next event: it may wait, or SdlIo has made of it what it says.
LEMMA TakeKept ==
  ASSUME Inputted, InputIsKept, NEW kind, Takes(kind), UNCHANGED <<pressed, asked>>,
         \A k \in ScreenKeys : Waits(k)' <=> After(Head(pump), k, Waits(k)),
         Head(pump).kind = "Quit" => ~input_active' \/ pending_touch_event'.kind = "Quit"
  PROVE  InputIsKept'
<1>1. pump \in Seq(Inputs) /\ pump # <<>> /\ pump' = Tail(pump) /\ input_active
  BY TakesOne DEF Inputted
<1>2. ASSUME NEW k \in ScreenKeys PROVE k \in pressed' <=> SaidBy(pump', Waits(k)', k, Len(pump'))
  <2>1. Waits(k) \in BOOLEAN /\ After(Head(pump), k, Waits(k)) \in BOOLEAN /\ Waits(k)' \in BOOLEAN
    BY DEF Waits, KeyDown, About, After
  <2>2. Waits(k)' = After(Head(pump), k, Waits(k))
    BY <2>1
  <2>3. SaidBy(pump', Waits(k)', k, Len(pump')) <=> SaidBy(pump, Waits(k), k, Len(pump))
    BY <1>1, <2>1, <2>2, SaidLess
  <2> QED
    BY <2>3, KeptMeans
<1>3. asked' => ~input_active' \/ pending_touch_event'.kind = "Quit" \/ Asks(pump')
  <2>1. pending_touch_event.kind # "Quit"
    BY TakesOne, NoInputIs
  <2> QED
    BY <1>1, <2>1, AskedLess, KeptMeans
<1> QED
  BY <1>2, <1>3, KeptNext

LEMMA Unsaid ==
  ASSUME NEW e, ~IsKey(e), NEW k
  PROVE  ~About(e, k) /\ ~KeyDown(e, k) /\ \A before \in BOOLEAN : After(e, k, before) = before
  BY DEF About, KeyDown, IsKey, After

\* What is returned to SdlIo is what it keeps.
LEMMA ReturnedKeys ==
  ASSUME NEW e, Returned(e)
  PROVE  /\ \A k : k \in held_keys' <=> After(e, k, k \in held_keys)
         /\ e.kind = "Quit" => ~input_active'
<1>1. CASE e = NoInput
  <2>1. held_keys' = held_keys /\ e.kind = "none"
    BY <1>1, NoInputIs DEF Returned, loopVars
  <2>2. \A k : ~KeyDown(e, k) /\ ~About(e, k)
    BY <1>1, NoInputIs, Unsaid
  <2> QED
    BY <2>1, <2>2 DEF After
<1>2. CASE e # NoInput
  <2>1. Adapted(e)
    BY <1>2 DEF Returned
  <2> QED
    BY <2>1 DEF Adapted, After, KeyDown, About, IsKey
<1> QED
  BY <1>1, <1>2

LEMMA NothingWaits ==
  ASSUME pending_touch_event = NoInput, NEW k
  PROVE  Waits(k) <=> k \in held_keys
  BY NoInputIs, Unsaid DEF Waits

LEMMA NothingWaitsNext ==
  ASSUME pending_touch_event' = NoInput, NEW k
  PROVE  Waits(k)' <=> k \in held_keys'
  BY NoInputIs, Unsaid DEF Waits

LEMMA SettledKeys ==
  ASSUME pending_touch_event = NoInput, NEW t, NEW e, Settle(t, e)
  PROVE  /\ \A k : Waits(k)' <=> After(e, k, Waits(k))
         /\ e.kind = "Quit" => ~input_active' \/ pending_touch_event'.kind = "Quit"
<1>1. CASE HoldIsDue(t)
  <2>1. pending_touch_event' = e /\ Returned(Input("Press", HoldButton, t.last))
    BY <1>1 DEF Settle
  <2>2. ~IsKey(Input("Press", HoldButton, t.last))
    BY InputIs DEF IsKey, Kinds
  <2>3. \A k : k \in held_keys' <=> k \in held_keys
    BY <2>1, <2>2, ReturnedKeys, Unsaid DEF After
  <2>4. \A k : Waits(k)' <=> After(e, k, k \in held_keys)
    BY <2>1, <2>3 DEF Waits, After
  <2> QED
    BY <2>1, <2>4, NothingWaits DEF After
<1>2. CASE ~HoldIsDue(t)
  <2>1. pending_touch_event' = NoInput /\ Returned(e)
    BY <1>2 DEF Settle
  <2> QED
    BY <2>1, ReturnedKeys, NothingWaits, NothingWaitsNext DEF After
<1> QED
  BY <1>1, <1>2

\* An event of a finger says nothing of a key, nor does what becomes of it.
LEMMA FingerKept ==
  ASSUME Inputted, InputIsKept, UNCHANGED userVars,
         NEW kind \in {"FingerDown", "FingerMotion", "FingerUp"}, Takes(kind),
         \A k \in ScreenKeys : Waits(k)' <=> Waits(k)
  PROVE  InputIsKept'
<1>1. ~IsKey(Head(pump)) /\ Head(pump).kind # "Quit"
  BY TakesOne DEF IsKey
<1>2. \A k \in ScreenKeys : Waits(k)' <=> After(Head(pump), k, Waits(k))
  BY <1>1, Unsaid DEF After
<1> QED
  BY <1>1, <1>2, TakeKept DEF userVars

LEMMA IgnoredKeys == ASSUME NEW e, Ignored(e) PROVE \A k : Waits(k)' <=> Waits(k)
  BY DEF Ignored, backendVars, loopVars, Waits, KeyDown, About

LEMMA PollFingerDownKept == ASSUME Inputted, InputIsKept, PollFingerDown PROVE InputIsKept'
<1> DEFINE e == Head(pump)
           d == Input("Press", DoubleTapButton, e.row)
<1>1. Takes("FingerDown") /\ UNCHANGED userVars
  BY DEF PollFingerDown
<1>2. pending_touch_event = NoInput
  BY <1>1 DEF Takes
<1>3. CASE Ignored(e)
  BY <1>1, <1>3, IgnoredKeys, FingerKept
<1>4. CASE pending_touch_event' = pending_touch_event /\ Adapted(d)
  <2>1. held_keys' = held_keys
    BY <1>4, InputIs DEF Adapted, Kinds
  <2> QED
    BY <1>1, <1>2, <1>4, <2>1, NothingWaits, NothingWaitsNext, FingerKept
<1>5. CASE UNCHANGED <<pending_touch_event, loopVars>>
  <2>1. held_keys' = held_keys
    BY <1>5 DEF loopVars
  <2> QED
    BY <1>1, <1>2, <1>5, <2>1, NothingWaits, NothingWaitsNext, FingerKept
<1> QED
  BY <1>3, <1>4, <1>5 DEF PollFingerDown

LEMMA WheelIsNoKey == ASSUME NEW t PROVE ~IsKey(WheelOf(t))
<1>1. \A b, row : ~IsKey(Input("Press", b, row))
  BY InputIs DEF IsKey, Kinds
<1> QED
  BY <1>1, NoInputIs DEF WheelOf

LEMMA PollFingerMotionKept == ASSUME Inputted, InputIsKept, PollFingerMotion PROVE InputIsKept'
<1> DEFINE e == Head(pump)
           t == Moved(touch, e.row)
<1>1. Takes("FingerMotion") /\ UNCHANGED userVars
  BY DEF PollFingerMotion
<1>2. pending_touch_event = NoInput
  BY <1>1 DEF Takes
<1>3. CASE Ignored(e)
  BY <1>1, <1>3, IgnoredKeys, FingerKept
<1>4. CASE Settle(Stepped(t), WheelOf(t))
  <2>1. \A k : Waits(k)' <=> Waits(k)
    BY <1>2, <1>4, WheelIsNoKey, SettledKeys, Unsaid DEF After
  <2> QED
    BY <1>1, <2>1, FingerKept
<1>5. CASE Settle(t, Input("Motion", 0, e.row))
  <2>1. ~IsKey(Input("Motion", 0, e.row))
    BY InputIs DEF IsKey, Kinds
  <2>2. \A k : Waits(k)' <=> Waits(k)
    BY <1>2, <1>5, <2>1, SettledKeys, Unsaid DEF After
  <2> QED
    BY <1>1, <2>2, FingerKept
<1> QED
  BY <1>3, <1>4, <1>5 DEF PollFingerMotion

LEMMA PollFingerUpKept == ASSUME Inputted, InputIsKept, PollFingerUp PROVE InputIsKept'
<1> DEFINE e == Head(pump)
<1>1. Takes("FingerUp") /\ UNCHANGED userVars
  BY DEF PollFingerUp
<1>2. pending_touch_event = NoInput
  BY <1>1 DEF Takes
<1>3. CASE Ignored(e)
  BY <1>1, <1>3, IgnoredKeys, FingerKept
<1>4. CASE Returned(Ending(touch, e.row)) /\ UNCHANGED pending_touch_event
  <2>1. \A b, row : ~IsKey(Input("Press", b, row)) /\ ~IsKey(Input("Release", b, row))
    BY InputIs DEF IsKey, Kinds
  <2>2. ~IsKey(Ending(touch, e.row))
    BY <2>1, NoInputIs DEF Ending
  <2>3. \A k : k \in held_keys' <=> k \in held_keys
    BY <1>4, <2>2, ReturnedKeys, Unsaid DEF After
  <2>4. \A k : Waits(k)' <=> Waits(k)
    BY <1>2, <1>4, <2>3, NothingWaits, NothingWaitsNext
  <2> QED
    BY <1>1, <2>4, FingerKept
<1> QED
  BY <1>3, <1>4 DEF PollFingerUp

LEMMA PollOtherKept == ASSUME Inputted, InputIsKept, PollOther PROVE InputIsKept'
<1>1. PICK kind \in {"KeyDown", "KeyUp", "Quit"} : Takes(kind)
  BY DEF PollOther
<1>2. Settle(touch, Head(pump)) /\ pending_touch_event = NoInput /\ UNCHANGED <<pressed, asked>>
  BY <1>1 DEF PollOther, Takes, userVars
<1> QED
  BY <1>1, <1>2, SettledKeys, TakeKept

LEMMA QuietKept ==
  ASSUME InputIsKept, UNCHANGED <<pump, pressed, asked>>,
         \A k \in ScreenKeys : Waits(k)' <=> Waits(k),
         pending_touch_event.kind = "Quit" \/ ~input_active
           => pending_touch_event'.kind = "Quit" \/ ~input_active'
  PROVE  InputIsKept'
<1>1. ASSUME NEW k \in ScreenKeys PROVE k \in pressed' <=> SaidBy(pump', Waits(k)', k, Len(pump'))
  <2>1. Waits(k)' = Waits(k)
    BY DEF Waits, KeyDown, About
  <2> QED
    BY <2>1, KeptMeans
<1> QED
  BY <1>1, KeptMeans, KeptNext

LEMMA PollTimesOutKept == ASSUME InputIsKept, PollTimesOut PROVE InputIsKept'
<1>1. /\ Settle(touch, NoInput) /\ pending_touch_event = NoInput /\ input_active
      /\ UNCHANGED <<pump, pressed, asked>>
  BY DEF PollTimesOut, Polls, userVars
<1>2. \A k : Waits(k)' <=> Waits(k)
  BY <1>1, SettledKeys, Unsaid, NoInputIs DEF After
<1> QED
  BY <1>1, <1>2, NoInputIs, QuietKept

LEMMA PollBufferedKept == ASSUME InputIsKept, PollBuffered PROVE InputIsKept'
<1>1. /\ Returned(pending_touch_event) /\ pending_touch_event' = NoInput /\ input_active
      /\ UNCHANGED <<pump, pressed, asked>>
  BY DEF PollBuffered, Polls, userVars
<1>2. \A k : Waits(k)' <=> Waits(k)
  BY <1>1, ReturnedKeys, NothingWaitsNext DEF Waits, After
<1>3. pending_touch_event.kind = "Quit" => ~input_active'
  BY <1>1, ReturnedKeys
<1> QED
  BY <1>1, <1>2, <1>3, QuietKept

LEMMA UserKept == ASSUME Inputted, InputIsKept, UserActs PROVE InputIsKept'
<1> USE TouchAssumption, KeysAreWhos
<1>1. UNCHANGED <<pending_touch_event, held_keys, input_active>>
  BY DEF UserActs, backendVars, loopVars
<1>2. pump \in Seq(Inputs)
  BY DEF Inputted
<1>3. ASSUME NEW kind \in {"FingerDown", "FingerMotion", "FingerUp"}, NEW f \in Whos, NEW row \in Int,
             Queue(Input(kind, f, row)), UNCHANGED <<pressed, asked>>
      PROVE  InputIsKept'
  <2> DEFINE e == Input(kind, f, row)
  <2>1. e \in Inputs /\ ~IsKey(e) /\ pump' = Append(pump, e)
    BY <1>3, InputIs DEF IsKey, Kinds, Queue
  <2>2. \A k \in ScreenKeys : k \in pressed' <=> After(e, k, k \in pressed)
    BY <1>3, <2>1, Unsaid DEF After
  <2> QED
    BY <1>1, <1>3, <2>1, <2>2, QueueKept
<1>4. ASSUME NEW f \in Fingers, Lifts(f) \/ \E row \in Rows : Touches(f, row) \/ Slides(f, row)
      PROVE  InputIsKept'
  <2>1. contact[f] \in Int /\ Rows \subseteq Int /\ f \in Whos
    BY DEF Inputted, Rows
  <2>2. CASE Lifts(f)
    BY <1>3, <2>1, <2>2 DEF Lifts
  <2>3. ASSUME NEW row \in Rows, Touches(f, row) PROVE InputIsKept'
    BY <1>3, <2>1, <2>3 DEF Touches
  <2>4. ASSUME NEW row \in Rows, Slides(f, row) PROVE InputIsKept'
    BY <1>3, <2>1, <2>4 DEF Slides
  <2> QED
    BY <1>4, <2>2, <2>3, <2>4
<1>5. ASSUME NEW k \in ScreenKeys, Strokes(k) PROVE InputIsKept'
  <2>1. PICK kind \in {"KeyDown", "KeyUp"} :
          /\ Queue(Input(kind, k, 0)) /\ asked' = asked
          /\ IF k \in pressed THEN kind = "KeyUp" /\ pressed' = pressed \ {k}
                              ELSE kind = "KeyDown" /\ pressed' = pressed \union {k}
    BY <1>5 DEF Strokes
  <2> DEFINE e == Input(kind, k, 0)
  <2>2. e \in Inputs /\ e.kind = kind /\ e.who = k /\ pump' = Append(pump, e)
    BY <2>1, InputIs DEF Kinds, Queue
  <2>3. \A j \in ScreenKeys : j \in pressed' <=> After(e, j, j \in pressed)
    BY <2>1, <2>2 DEF After, KeyDown, About, IsKey
  <2> QED
    BY <1>1, <2>1, <2>2, <2>3, QueueKept
<1>6. CASE ClosesWindow
  <2> DEFINE e == Input("Quit", 0, 0)
  <2>1. e \in Inputs /\ ~IsKey(e) /\ e.kind = "Quit" /\ pump' = Append(pump, e) /\ pressed' = pressed
    BY <1>6, InputIs DEF ClosesWindow, IsKey, Kinds, Queue
  <2>2. \A k \in ScreenKeys : k \in pressed' <=> After(e, k, k \in pressed)
    BY <2>1, Unsaid DEF After
  <2> QED
    BY <1>1, <2>1, <2>2, QueueKept
<1> QED
  BY <1>4, <1>5, <1>6 DEF UserActs

LEMMA InitKept == TouchInit => InputIsKept
<1> SUFFICES ASSUME TouchInit PROVE InputIsKept
  OBVIOUS
<1>1. Len(pump) = 0 /\ ~asked /\ pressed = {} /\ held_keys = {} /\ pending_touch_event = NoInput
  BY DEF TouchInit
<1> QED
  BY <1>1, NoInputIs DEF InputIsKept, SaidDown, KeyDown

LEMMA NextKept == Inputted /\ InputIsKept /\ [TouchNext]_touchVars => InputIsKept'
<1> SUFFICES ASSUME Inputted, InputIsKept, [TouchNext]_touchVars PROVE InputIsKept'
  OBVIOUS
<1>1. CASE UserActs
  BY <1>1, UserKept
<1>2. CASE TimePasses \/ ListOpens \/ UNCHANGED touchVars
  <2>1. UNCHANGED <<pump, pressed, asked, pending_touch_event, held_keys, input_active>>
    BY <1>2 DEF TimePasses, ListOpens, touchVars, userVars, backendVars, loopVars
  <2>2. \A k \in ScreenKeys : Waits(k)' <=> Waits(k)
    BY <2>1 DEF Waits, KeyDown, About
  <2> QED
    BY <2>1, <2>2, QuietKept
<1>3. CASE Poll_event
  BY <1>3, PollBufferedKept, PollTimesOutKept, PollFingerDownKept, PollFingerMotionKept,
     PollFingerUpKept, PollOtherKept DEF Poll_event
<1> QED
  BY <1>1, <1>2, <1>3 DEF TouchNext

\* No key and no close request is lost or overtaken for any screen and keys, also when a
\* gesture's deadline comes first: what is still unread says of a key what it is, or else
\* SdlIo has it right (pending_touch_event of Sdl2InputBackend::poll_event).
THEOREM InputStaysKept == TouchSpec => []InputIsKept
<1>1. GestureInv => Inputted
  BY DEF GestureInv
<1> QED
  BY InitGesture, NextGesture, InitKept, NextKept, <1>1, PTL DEF TouchSpec

--------------------------------------------------------------------------
(* The panel of loops: induction                                           *)

\* The least-number principle, for a set given as such: it stands in for induction.
LEMMA Least ==
  ASSUME NEW n \in Nat, NEW T \in SUBSET (0..n), T # {}
  PROVE  \E m \in T : \A x \in T : m <= x
<1> DEFINE Upto(m) == {x \in T : x <= m}
           F == {Upto(m) : m \in T}
<1>1. IsFiniteSet(0..n) /\ IsFiniteSet(T)
  <2>1. 0 \in Int /\ n \in Int
    OBVIOUS
  <2>2. IsFiniteSet(0..n)
    BY <2>1, FS_Interval
  <2> QED BY <2>2, FS_Subset
<1>2. F \subseteq FiniteSubsetsOf(T)
  BY <1>1, FS_Subset DEF FiniteSubsetsOf
<1>3. F # {}
  OBVIOUS
<1>4. IsWellFoundedOn(StrictSubsetOrdering(T), FiniteSubsetsOf(T))
  BY FS_StrictSubsetOrderingWellFounded
<1>5. PICK U \in F : \A V \in F : ~(<<V, U>> \in StrictSubsetOrdering(T))
  BY <1>2, <1>3, <1>4, WFMin
<1>6. PICK m \in T : U = Upto(m)
  OBVIOUS
<1>7. ASSUME NEW x \in T, x < m PROVE FALSE
  <2> x \in Int /\ m \in Int /\ \A y \in T : y \in Int
    OBVIOUS
  <2>a. Upto(x) \in F
    OBVIOUS
  <2>b. Upto(x) \subseteq Upto(m)
    <3>1. ASSUME NEW y \in T, y <= x PROVE y <= m
      <4>1. y \in Int
        OBVIOUS
      <4> QED BY <1>7, <3>1, <4>1
    <3> QED BY <3>1
  <2>c. m \in Upto(m) /\ m \notin Upto(x)
    <3>1. m <= m /\ ~(m <= x)
      BY <1>7
    <3> QED BY <3>1
  <2>1. Upto(x) \in F /\ Upto(x) \subseteq Upto(m) /\ m \in Upto(m) /\ m \notin Upto(x)
    BY <2>a, <2>b, <2>c
  <2>2. <<Upto(x), U>> \in StrictSubsetOrdering(T)
    BY <1>6, <2>1 DEF StrictSubsetOrdering
  <2> QED
    BY <1>5, <2>1, <2>2
<1>8. m \in Int /\ \A x \in T : x \in Int
  OBVIOUS
<1>9. \A x \in T : m <= x
  BY <1>7, <1>8
<1> QED
  BY <1>9
LEMMA Inductively ==
  ASSUME NEW n \in Nat, NEW T \in SUBSET (0..n), 0 \in T,
         \A m \in 1..n : m - 1 \in T => m \in T
  PROVE  \A m \in 0..n : m \in T
<1> DEFINE U == (0..n) \ T
<1>1. CASE U = {}
  BY <1>1
<1>2. CASE U # {}
  <2>1. PICK m \in U : \A x \in U : m <= x
    <3> U \in SUBSET (0..n)
      OBVIOUS
    <3> HIDE DEF U
    <3> QED BY <1>2, Least
  <2>2. m \in 1..n /\ m - 1 \in 0..n
    BY <2>1
  <2>3. m - 1 \notin U
    BY <2>1, <2>2
  <2> QED BY <2>1, <2>2, <2>3
<1> QED BY <1>1, <1>2

--------------------------------------------------------------------------
(* Lists                                                                   *)

\* What Keep has kept of the first n elements.
KeptOf(list, these, n, f) ==
  /\ DOMAIN f = 0..n /\ f[0] = <<>>
  /\ \A m \in 1..n : f[m] = IF list[m] \in these THEN Append(f[m - 1], list[m]) ELSE f[m - 1]

LEMMA KeptAre ==
  ASSUME NEW list, NEW these, NEW n \in Nat
  PROVE  \E f : KeptOf(list, these, n, f)
<1> DEFINE T == {m \in 0..n : \E f : KeptOf(list, these, m, f)}
           Next1(u, m) == IF list[m] \in these THEN Append(u, list[m]) ELSE u
<1>1. T \in SUBSET (0..n)
  OBVIOUS
<1>2. 0 \in T
  <2>1. KeptOf(list, these, 0, [m \in 0..0 |-> <<>>])
    BY DEF KeptOf
  <2> QED BY <2>1
<1>3. ASSUME NEW m \in 1..n, m - 1 \in T PROVE m \in T
  <2>1. PICK f : KeptOf(list, these, m - 1, f)
    BY <1>3
  <2> DEFINE g == [x \in 0..m |-> IF x = m THEN Next1(f[m - 1], m) ELSE f[x]]
  <2>2. g[0] = <<>>
    BY <2>1 DEF KeptOf
  <2>3. ASSUME NEW x \in 1..m PROVE g[x] = Next1(g[x - 1], x)
    <3>1. x - 1 \in 0..m /\ x \in 0..m /\ x - 1 # m
      OBVIOUS
    <3>2. g[x - 1] = f[x - 1]
      BY <3>1
    <3>3. CASE x = m
      BY <3>1, <3>2, <3>3
    <3>4. CASE x # m
      <4>1. x \in 1..(m - 1)
        BY <3>4
      <4>2. f[x] = Next1(f[x - 1], x)
        BY <2>1, <4>1 DEF KeptOf
      <4> QED BY <3>1, <3>2, <3>4, <4>2
    <3> QED BY <3>3, <3>4
  <2>4. KeptOf(list, these, m, g)
    BY <2>2, <2>3 DEF KeptOf
  <2> QED BY <2>4
<1> HIDE DEF T
<1>4. \A m \in 0..n : m \in T
  BY <1>1, <1>2, <1>3, Inductively
<1> QED BY <1>4 DEF T

LEMMA KeepRuns ==
  ASSUME NEW S, NEW list \in Seq(S), NEW these
  PROVE  \E f : KeptOf(list, these, Len(list), f) /\ Keep(list, these) = f[Len(list)]
<1> DEFINE N == Len(list)
           Def(f) == [n \in 0..Len(list) |->
                        IF n = 0 THEN <<>>
                        ELSE IF list[n] \in these THEN Append(f[n - 1], list[n]) ELSE f[n - 1]]
           F == CHOOSE f : f = Def(f)
<1>0. N \in Nat
  OBVIOUS
<1>1. \A f : \A n \in 0..N :
        Def(f)[n] = IF n = 0 THEN <<>>
                    ELSE IF list[n] \in these THEN Append(f[n - 1], list[n]) ELSE f[n - 1]
  OBVIOUS
<1>2. PICK g : KeptOf(list, these, N, g)
  BY <1>0, KeptAre
<1> DEFINE h == [n \in 0..N |-> g[n]]
<1>3. h = Def(h)
  <2>1. ASSUME NEW n \in 0..N PROVE h[n] = Def(h)[n]
    <3>1. CASE n = 0
      BY <1>1, <1>2, <3>1 DEF KeptOf
    <3>2. CASE n # 0
      <4>1. n \in 1..N /\ n - 1 \in 0..N
        BY <1>0, <3>2
      <4>2. g[n] = IF list[n] \in these THEN Append(g[n - 1], list[n]) ELSE g[n - 1]
        BY <1>2, <4>1 DEF KeptOf
      <4> QED BY <1>1, <3>2, <4>1, <4>2
    <3> QED BY <3>1, <3>2
  <2> QED BY <2>1
<1>4. F = Def(F)
  BY <1>3
<1>5. Keep(list, these) = F[Len(list)]
  BY DEF Keep
<1> HIDE DEF F
<1>6. KeptOf(list, these, N, F)
  <2>1. DOMAIN F = 0..N
    BY <1>4
  <2>2. \A n \in 0..N :
          F[n] = IF n = 0 THEN <<>>
                 ELSE IF list[n] \in these THEN Append(F[n - 1], list[n]) ELSE F[n - 1]
    BY <1>1, <1>4
  <2>3. F[0] = <<>>
    BY <1>0, <2>2
  <2>4. ASSUME NEW m \in 1..N
        PROVE  F[m] = IF list[m] \in these THEN Append(F[m - 1], list[m]) ELSE F[m - 1]
    <3>1. m \in 0..N /\ m # 0
      BY <1>0
    <3> QED BY <2>2, <3>1
  <2> QED BY <2>1, <2>3, <2>4 DEF KeptOf
<1> QED BY <1>5, <1>6

LEMMA KeepIs ==
  ASSUME NEW S, NEW list \in Seq(S), NEW these
  PROVE  Keep(list, these) \in Seq(S) /\ ToSet(Keep(list, these)) = ToSet(list) \cap these
<1> DEFINE N == Len(list)
<1>0. N \in Nat /\ DOMAIN list = 1..N /\ \A m \in 1..N : list[m] \in S
  OBVIOUS
<1>1. PICK f : KeptOf(list, these, N, f) /\ Keep(list, these) = f[N]
  BY KeepRuns
<1> HIDE DEF N
<1> DEFINE Had(m) == {list[x] : x \in 1..m} \cap these
           T == {m \in 0..N : f[m] \in Seq(S) /\ ToSet(f[m]) = Had(m)}
<1>2. T \in SUBSET (0..N)
  OBVIOUS
<1>3. 0 \in T
  <2>1. f[0] = <<>>
    BY <1>1 DEF KeptOf
  <2>2. f[0] \in Seq(S) /\ ToSet(f[0]) = {}
    BY <2>1 DEF ToSet
  <2>3. Had(0) = {} /\ 0 \in 0..N
    BY <1>0
  <2> QED BY <2>2, <2>3
<1>4. ASSUME NEW m \in 1..N, m - 1 \in T PROVE m \in T
  <2>1. f[m - 1] \in Seq(S) /\ ToSet(f[m - 1]) = Had(m - 1) /\ m - 1 \in Nat
    BY <1>4
  <2>2. Had(m) = Had(m - 1) \union ({list[m]} \cap these)
    <3>1. {list[x] : x \in 1..m} = {list[x] : x \in 1..(m - 1)} \union {list[m]}
      <4>1. \A x \in 1..m : x = m \/ x \in 1..(m - 1)
        OBVIOUS
      <4>2. \A x \in 1..(m - 1) : x \in 1..m
        OBVIOUS
      <4>3. m \in 1..m
        OBVIOUS
      <4> QED BY <4>1, <4>2, <4>3
    <3> QED BY <3>1
  <2>3. CASE list[m] \in these
    <3>1. f[m] = Append(f[m - 1], list[m])
      BY <1>1, <2>3 DEF KeptOf
    <3> DEFINE q == f[m - 1]
    <3>2. q \in Seq(S) /\ list[m] \in S
      BY <1>0, <2>1
    <3> HIDE DEF q
    <3>3. Append(q, list[m]) \in Seq(S) /\ ToSet(Append(q, list[m])) = ToSet(q) \union {list[m]}
      <4>1. /\ Append(q, list[m]) \in Seq(S) /\ DOMAIN Append(q, list[m]) = 1..(Len(q) + 1)
            /\ DOMAIN q = 1..Len(q) /\ Len(q) \in Nat
            /\ \A i \in 1..Len(q) : Append(q, list[m])[i] = q[i]
            /\ Append(q, list[m])[Len(q) + 1] = list[m]
        BY <3>2, AppendProperties
      <4>2. \A i \in 1..(Len(q) + 1) : i = Len(q) + 1 \/ i \in 1..Len(q)
        BY <4>1
      <4>3. Len(q) + 1 \in 1..(Len(q) + 1) /\ \A i \in 1..Len(q) : i \in 1..(Len(q) + 1)
        BY <4>1
      <4> QED BY <4>1, <4>2, <4>3 DEF ToSet
    <3>4. f[m] \in Seq(S) /\ ToSet(f[m]) = ToSet(f[m - 1]) \union {list[m]}
      BY <3>1, <3>3 DEF q
    <3> QED BY <2>1, <2>2, <2>3, <3>4
  <2>4. CASE list[m] \notin these
    <3>1. f[m] = f[m - 1]
      BY <1>1, <2>4 DEF KeptOf
    <3> QED BY <2>1, <2>2, <2>4, <3>1
  <2> QED BY <2>3, <2>4
<1> HIDE DEF T
<1>5. \A m \in 0..N : m \in T
  BY <1>0, <1>2, <1>3, <1>4, Inductively
<1>6. N \in T
  BY <1>0, <1>5
<1>7. Had(N) = ToSet(list) \cap these
  BY <1>0 DEF ToSet
<1> QED BY <1>1, <1>6, <1>7 DEF T
--------------------------------------------------------------------------
(* The panel of loops: the invariant                                       *)

Modes == {"Empty", "Recording", "Overdubbing", "Playing", "Muted"}
LoopOps == {"Record", "Overdub", "StopRecord", "Trigger", "Mute", "Erase", "MoveLoop"}
OrderSet ==
  [op : LoopOps, slot : PanelSlots, to : PanelSlots]
  \union {CommandOf("RequestSnapshot", Nowhere)}
ReportSet == [modes : [PanelSlots -> [mode : Modes, take : Nat]], moved : Nat]

Moving(o) == o.op = "MoveLoop"

\* What an order makes of a loop at a, unless it erases it or is refused.
Carries(o, a, b) ==
  /\ Moving(o) => a # o.to /\ b = IF a = o.slot THEN o.to ELSE a
  /\ ~Moving(o) => b = a /\ ~(o.op = "Erase" /\ o.slot = a)

\* Through the places p the orders take the loop of slot x.
Led(os, p, x) ==
  /\ p \in [0..Len(os) -> PanelSlots] /\ p[0] = x
  /\ \A i \in 1..Len(os) : Carries(os[i], p[i - 1], p[i])

\* Wherever the orders take the loop of slot x, unless one erases it or is refused, is in P.
Reaches(os, x, P) == \A p : Led(os, p, x) => p[Len(os)] \in P

\* Moves are counted from "done" to "sent".
Counts(os, f, done, sent) ==
  /\ f \in [0..Len(os) -> Nat] /\ f[0] = done /\ f[Len(os)] = sent
  /\ \A i, j \in 0..Len(os) : i <= j => f[i] <= f[j]
  /\ \A i \in 1..Len(os) : f[i] = IF Moving(os[i]) THEN f[i - 1] + 1 ELSE f[i - 1]
Between(os, done, sent) == \E f : Counts(os, f, done, sent)

\* A move out of slot x is on its way; a move into it only behind one.
Leaves(os, x) == \E i \in DOMAIN os : Moving(os[i]) /\ os[i].slot = x
OutFirst(os, x) ==
  \A i \in DOMAIN os : Moving(os[i]) /\ os[i].to = x =>
    \E j \in 1..(i - 1) : Moving(os[j]) /\ os[j].slot = x

\* What the panel shows, and what it is to show, with the moves these have seen.
View(i) == IF i = 0 THEN [modes |-> cached, moved |-> moves.shown] ELSE reports[i]
Views == 0..Len(reports)

PanelTypes ==
  /\ slots \in [PanelSlots -> [mode : Modes, long : BOOLEAN, take : Nat]]
  /\ \A s \in PanelSlots : /\ slots[s].mode = "Empty" <=> slots[s].take = NoTake
                           /\ slots[s].long => slots[s].take # NoTake
                           /\ slots[s].take <= takes
  /\ recorder \in PanelSlots \union {Nowhere} /\ takes \in Nat
  /\ orders \in Seq(OrderSet) /\ reports \in Seq(ReportSet)
  /\ cached \in [PanelSlots -> [mode : Modes, take : Nat]]
  /\ \A i \in Views :
       /\ View(i).moved <= moves.done
       /\ \A s \in PanelSlots :
            /\ View(i).modes[s].mode = "Empty" <=> View(i).modes[s].take = NoTake
            /\ View(i).modes[s].take <= takes
  /\ chosen \in [Sets -> Seq(PanelSlots)]
  /\ names \in [PanelSlots -> Nat] /\ \A s \in PanelSlots : names[s] <= takes
  /\ meant \in [Sets -> SUBSET Nat] /\ \A k \in Sets : \A t \in meant[k] : t <= takes
  /\ moves \in [sent : Nat, done : Nat, shown : Nat, refused : BOOLEAN]

\* No take is in two slots.
TakesApart ==
  \A x, y \in PanelSlots : slots[x].take = slots[y].take => x = y \/ slots[x].take = NoTake

\* A view that has seen every move shows no take where it is not ...
ViewsPlace ==
  \A i \in Views : View(i).moved = moves.sent =>
    \A s, x \in PanelSlots :
      View(i).modes[s].take = slots[x].take /\ slots[x].take # NoTake => s = x

\* ... and if the panel does, what it is to show does not take back what it shows.
ViewsStay ==
  moves.shown = moves.sent =>
    \A x \in PanelSlots : cached[x].take = slots[x].take /\ slots[x].take # NoTake =>
      \A i \in Views : View(i).modes[x].take = slots[x].take

\* The takes the player has named or selected, and has so been shown.
Claimed(t, named, selected) ==
  t # NoTake /\ ((\E s \in PanelSlots : named[s] = t) \/ \E k \in Sets : t \in selected[k])

ViewsSee ==
  \A x \in PanelSlots : Claimed(slots[x].take, names, meant) =>
    \A i \in Views : View(i).moved = moves.sent => View(i).modes[x].take = slots[x].take

\* A claimed recording without a frame, which a move could displace, is shown where it is, so
\* that the panel moves nothing there.
ShortStay ==
  \A x \in PanelSlots : Claimed(slots[x].take, names, meant) /\ ~slots[x].long =>
    /\ \A i \in 1..Len(reports) : reports[i].modes[x].take = slots[x].take
    /\ cached[x].take = slots[x].take \/ Leaves(orders, x)
    /\ OutFirst(orders, x)

\* The orders on their way take a loop to where the panel has its name and its selection.
NamesLead ==
  \A x, s \in PanelSlots : names[s] = slots[x].take /\ slots[x].take # NoTake =>
    Reaches(orders, x, {s})
SetsLead ==
  \A x \in PanelSlots, k \in Sets : slots[x].take \in meant[k] /\ slots[x].take # NoTake =>
    Reaches(orders, x, ToSet(chosen[k]))

PanelInv ==
  /\ PanelTypes /\ TakesApart /\ Between(orders, moves.done, moves.sent)
  /\ ViewsPlace /\ ViewsStay /\ ViewsSee
  /\ ~moves.refused => ShortStay /\ NamesLead /\ SetsLead

--------------------------------------------------------------------------
(* Orders on their way                                                     *)

LEMMA PanelBounds ==
  /\ PanelSlots \subseteq Nat \ {0} /\ Nowhere = 0 /\ NoTake = 0 /\ Nowhere \notin PanelSlots
  /\ PanelSlots = 1..Cardinality(PanelSlots) /\ Cardinality(PanelSlots) \in Nat
<1>1. Cardinality(PanelSlots) \in Nat
  BY PanelAssumption, FS_CardinalityType
<1> QED BY <1>1, PanelAssumption DEF Nowhere, NoTake

LEMMA OrderIs ==
  ASSUME NEW o \in OrderSet
  PROVE  /\ o.op \in LoopOps \union {"RequestSnapshot"}
         /\ o.op # "RequestSnapshot" => o.slot \in PanelSlots /\ o.to \in PanelSlots
         /\ Moving(o) => o.op # "RequestSnapshot"
  BY DEF OrderSet, CommandOf, LoopOps, Moving

LEMMA Joined ==
  ASSUME NEW S, NEW os \in Seq(S), NEW batch \in Seq(S)
  PROVE  /\ os \o batch \in Seq(S) /\ Len(os \o batch) = Len(os) + Len(batch)
         /\ Len(os) \in Nat /\ Len(batch) \in Nat
         /\ DOMAIN os = 1..Len(os) /\ DOMAIN batch = 1..Len(batch)
         /\ \A i \in 1..Len(os) : (os \o batch)[i] = os[i]
         /\ \A i \in 1..Len(batch) : (os \o batch)[Len(os) + i] = batch[i]
         /\ \A i \in 1..(Len(os) + Len(batch)) :
              i \in 1..Len(os) \/ (i - Len(os) \in 1..Len(batch) /\ i = Len(os) + (i - Len(os)))
<1>1. os \o batch \in Seq(S) /\ Len(os \o batch) = Len(os) + Len(batch)
  BY ConcatProperties
<1>2. /\ \A i \in 1..Len(os) : (os \o batch)[i] = os[i]
      /\ \A i \in 1..Len(batch) : (os \o batch)[Len(os) + i] = batch[i]
  OBVIOUS
<1> QED BY <1>1, <1>2

LEMMA Rested ==
  ASSUME NEW S, NEW os \in Seq(S), os # <<>>
  PROVE  /\ Head(os) \in S /\ Tail(os) \in Seq(S) /\ Len(os) \in Nat \ {0}
         /\ Head(os) = os[1] /\ Len(Tail(os)) = Len(os) - 1
         /\ \A i \in 1..(Len(os) - 1) : Tail(os)[i] = os[i + 1]
         /\ DOMAIN os = 1..Len(os) /\ DOMAIN Tail(os) = 1..(Len(os) - 1)
  OBVIOUS

\* Where nothing moves, nothing comes anywhere else.
LEMMA Stays ==
  ASSUME NEW n \in Nat, NEW m \in Nat, NEW p, \A j \in 1..m : p[n + j] = p[n + (j - 1)]
  PROVE  \A j \in 0..m : p[n + j] = p[n]
<1> DEFINE T == {j \in 0..m : p[n + j] = p[n]}
<1>1. T \in SUBSET (0..m) /\ 0 \in T
  OBVIOUS
<1>2. ASSUME NEW j \in 1..m, j - 1 \in T PROVE j \in T
  BY <1>2
<1> HIDE DEF T
<1>3. \A j \in 0..m : j \in T
  BY <1>1, <1>2, Inductively
<1> QED BY <1>3 DEF T

LEMMA LedOn ==
  ASSUME NEW os \in Seq(OrderSet), NEW batch \in Seq(OrderSet),
         \A i \in DOMAIN batch : ~Moving(batch[i]), NEW x, NEW p, Led(os \o batch, p, x)
  PROVE  \E q : /\ Led(os, q, x) /\ p[Len(os \o batch)] = q[Len(os)]
                /\ \A i \in DOMAIN batch : ~(batch[i].op = "Erase" /\ batch[i].slot = q[Len(os)])
<1> DEFINE n == Len(os)
           m == Len(batch)
           all == os \o batch
           q == [i \in 0..n |-> p[i]]
<1>1. /\ n \in Nat /\ m \in Nat /\ Len(all) = n + m /\ DOMAIN batch = 1..m
      /\ \A i \in 1..n : all[i] = os[i]
      /\ \A i \in 1..m : all[n + i] = batch[i]
  BY Joined
<1>2. /\ p \in [0..(n + m) -> PanelSlots] /\ p[0] = x
      /\ \A i \in 1..(n + m) : Carries(all[i], p[i - 1], p[i])
  BY <1>1 DEF Led
<1> HIDE DEF n, m, all
<1>3. ASSUME NEW j \in 1..m
      PROVE  p[n + j] = p[n + (j - 1)] /\ ~(batch[j].op = "Erase" /\ batch[j].slot = p[n + (j - 1)])
  <2>1. n + j \in 1..(n + m) /\ (n + j) - 1 = n + (j - 1) /\ all[n + j] = batch[j]
    BY <1>1
  <2>2. Carries(batch[j], p[n + (j - 1)], p[n + j])
    BY <1>2, <2>1
  <2> QED BY <1>1, <2>2 DEF Carries
<1>4. \A j \in 0..m : p[n + j] = p[n]
  BY <1>1, <1>3, Stays
<1>5. p[n + m] = p[n] /\ \A j \in 1..m : p[n + (j - 1)] = p[n]
  <2>1. m \in 0..m /\ \A j \in 1..m : j - 1 \in 0..m
    BY <1>1
  <2> QED BY <1>4, <2>1
<1>6. Led(os, q, x)
  <2>1. \A i \in 0..n : i \in 0..(n + m)
    BY <1>1
  <2>2. q \in [0..n -> PanelSlots] /\ q[0] = x
    BY <1>1, <1>2, <2>1
  <2>3. ASSUME NEW i \in 1..n PROVE Carries(os[i], q[i - 1], q[i])
    <3>1. i \in 1..(n + m) /\ i \in 0..n /\ i - 1 \in 0..n
      BY <1>1
    <3> QED BY <1>1, <1>2, <3>1
  <2> QED BY <2>2, <2>3 DEF Led, n
<1>7. q[n] = p[n]
  BY <1>1
<1>8. \A i \in 1..m : ~(batch[i].op = "Erase" /\ batch[i].slot = q[n])
  BY <1>3, <1>5, <1>7
<1>9. p[Len(all)] = q[n]
  BY <1>1, <1>5, <1>7
<1> HIDE DEF q
<1>10. /\ Led(os, q, x) /\ p[Len(os \o batch)] = q[Len(os)]
       /\ \A i \in DOMAIN batch : ~(batch[i].op = "Erase" /\ batch[i].slot = q[Len(os)])
  BY <1>1, <1>6, <1>8, <1>9 DEF n, all
<1> QED BY <1>10

LEMMA LedRest ==
  ASSUME NEW os \in Seq(OrderSet), os # <<>>, NEW x \in PanelSlots, NEW y,
         Carries(Head(os), x, y), NEW p, Led(Tail(os), p, y)
  PROVE  \E q : Led(os, q, x) /\ q[Len(os)] = p[Len(Tail(os))]
<1> DEFINE n == Len(os)
           rest == Tail(os)
           q == [i \in 0..n |-> IF i = 0 THEN x ELSE p[i - 1]]
<1>1. /\ n \in Nat \ {0} /\ Len(rest) = n - 1 /\ Head(os) = os[1]
      /\ \A i \in 1..(n - 1) : rest[i] = os[i + 1]
  BY Rested
<1>2. /\ p \in [0..(n - 1) -> PanelSlots] /\ p[0] = y
      /\ \A i \in 1..(n - 1) : Carries(rest[i], p[i - 1], p[i])
  BY <1>1 DEF Led
<1> HIDE DEF n, rest
<1>3. q \in [0..n -> PanelSlots] /\ q[0] = x
  <2>1. \A i \in 0..n : i = 0 \/ i - 1 \in 0..(n - 1)
    BY <1>1
  <2> QED BY <1>1, <1>2, <2>1
<1>4. ASSUME NEW i \in 1..n PROVE Carries(os[i], q[i - 1], q[i])
  <2>1. CASE i = 1
    <3>1. q[0] = x /\ q[1] = p[0]
      BY <1>1
    <3> QED BY <1>1, <1>2, <2>1, <3>1
  <2>2. CASE i # 1
    <3>1. i - 1 \in 1..(n - 1) /\ (i - 1) + 1 = i /\ i - 1 \in 0..n /\ i \in 0..n /\ i # 0 /\ i - 1 # 0
      BY <1>1, <2>2
    <3>2. q[i] = p[i - 1] /\ q[i - 1] = p[(i - 1) - 1] /\ os[i] = rest[i - 1]
      BY <1>1, <3>1
    <3>3. Carries(rest[i - 1], p[(i - 1) - 1], p[i - 1])
      BY <1>2, <3>1
    <3> QED BY <3>2, <3>3
  <2> QED BY <2>1, <2>2
<1>5. Led(os, q, x) /\ q[n] = p[n - 1]
  <2>1. n \in 0..n /\ n # 0
    BY <1>1
  <2> QED BY <1>3, <1>4, <2>1 DEF Led, n
<1> QED BY <1>1, <1>5 DEF n, rest
LEMMA ReachMore ==
  ASSUME NEW os \in Seq(OrderSet), NEW batch \in Seq(OrderSet),
         \A i \in DOMAIN batch : ~Moving(batch[i]), NEW x, NEW P, NEW Q, Reaches(os, x, P),
         \A s \in P : s \in Q \/ \E i \in DOMAIN batch : batch[i].op = "Erase" /\ batch[i].slot = s
  PROVE  Reaches(os \o batch, x, Q)
<1> SUFFICES ASSUME NEW p, Led(os \o batch, p, x) PROVE p[Len(os \o batch)] \in Q
  BY DEF Reaches
<1>1. PICK q : /\ Led(os, q, x) /\ p[Len(os \o batch)] = q[Len(os)]
               /\ \A i \in DOMAIN batch : ~(batch[i].op = "Erase" /\ batch[i].slot = q[Len(os)])
  BY LedOn
<1>2. q[Len(os)] \in P
  BY <1>1 DEF Reaches
<1> QED BY <1>1, <1>2

\* A move sends on what is at its slot, and is refused for what is where it goes.
LEMMA ReachMove ==
  ASSUME NEW os \in Seq(OrderSet), NEW o \in OrderSet, Moving(o), NEW x, NEW P, NEW Q,
         Reaches(os, x, P),
         \A s \in P : s # o.to => (IF s = o.slot THEN o.to ELSE s) \in Q
  PROVE  Reaches(os \o <<o>>, x, Q)
<1> DEFINE n == Len(os)
           all == os \o <<o>>
<1> SUFFICES ASSUME NEW p, Led(all, p, x) PROVE p[Len(all)] \in Q
  BY DEF Reaches
<1> DEFINE q == [i \in 0..n |-> p[i]]
<1>1. n \in Nat /\ Len(all) = n + 1 /\ (\A i \in 1..n : all[i] = os[i]) /\ all[n + 1] = o
  <2>1. <<o>> \in Seq(OrderSet) /\ Len(<<o>>) = 1 /\ <<o>>[1] = o
    OBVIOUS
  <2> QED BY <2>1, Joined
<1>2. /\ p \in [0..(n + 1) -> PanelSlots] /\ p[0] = x
      /\ \A i \in 1..(n + 1) : Carries(all[i], p[i - 1], p[i])
  BY <1>1 DEF Led
<1> HIDE DEF n, all
<1>3. Led(os, q, x)
  <2>1. \A i \in 0..n : i \in 0..(n + 1)
    BY <1>1
  <2>2. q \in [0..n -> PanelSlots] /\ q[0] = x
    BY <1>1, <1>2, <2>1
  <2>3. ASSUME NEW i \in 1..n PROVE Carries(os[i], q[i - 1], q[i])
    <3>1. i \in 1..(n + 1) /\ i \in 0..n /\ i - 1 \in 0..n
      BY <1>1
    <3> QED BY <1>1, <1>2, <3>1
  <2> QED BY <2>2, <2>3 DEF Led, n
<1>4. p[n] \in P
  <2>1. q[n] \in P
    BY <1>3 DEF Reaches, n
  <2> QED BY <1>1, <2>1
<1>5. Carries(o, p[n], p[n + 1])
  <2>1. n + 1 \in 1..(n + 1) /\ (n + 1) - 1 = n
    BY <1>1
  <2> QED BY <1>1, <1>2, <2>1
<1>6. p[n] # o.to /\ p[n + 1] = IF p[n] = o.slot THEN o.to ELSE p[n]
  BY <1>5 DEF Carries
<1>7. p[n + 1] \in Q
  BY <1>4, <1>6
<1> QED BY <1>1, <1>7

LEMMA ReachRest ==
  ASSUME NEW os \in Seq(OrderSet), os # <<>>, NEW x \in PanelSlots, NEW y,
         Carries(Head(os), x, y), NEW P, Reaches(os, x, P)
  PROVE  Reaches(Tail(os), y, P)
<1> SUFFICES ASSUME NEW p, Led(Tail(os), p, y) PROVE p[Len(Tail(os))] \in P
  BY DEF Reaches
<1>1. PICK q : Led(os, q, x) /\ q[Len(os)] = p[Len(Tail(os))]
  BY LedRest
<1> QED BY <1>1 DEF Reaches

\* While no move is on its way a loop is where it will be.
LEMMA ReachStill ==
  ASSUME NEW os \in Seq(OrderSet), \A i \in DOMAIN os : ~Moving(os[i]), NEW x, NEW P, NEW Q,
         Reaches(os, x, P), x \in P => x \in Q
  PROVE  Reaches(os, x, Q)
<1> SUFFICES ASSUME NEW p, Led(os, p, x) PROVE p[Len(os)] \in Q
  BY DEF Reaches
<1> DEFINE n == Len(os)
<1>1. n \in Nat /\ DOMAIN os = 1..n
  OBVIOUS
<1>2. p[n] \in P
  BY DEF Reaches
<1>3. p[0] = x /\ \A i \in 1..n : Carries(os[i], p[i - 1], p[i])
  BY DEF Led
<1> HIDE DEF n
<1>4. ASSUME NEW j \in 1..n PROVE p[0 + j] = p[0 + (j - 1)]
  <2>1. p[j] = p[j - 1]
    BY <1>1, <1>3 DEF Carries
  <2>2. 0 + j = j /\ 0 + (j - 1) = j - 1
    BY <1>1
  <2> QED BY <2>1, <2>2
<1>5. \A j \in 0..n : p[0 + j] = p[0]
  BY <1>1, <1>4, Stays
<1>6. p[n] = x
  <2>1. n \in 0..n /\ 0 + n = n
    BY <1>1
  <2> QED BY <1>3, <1>5, <2>1
<1>7. p[n] \in Q
  BY <1>2, <1>6
<1> QED BY <1>7 DEF n

LEMMA ReachHere ==
  ASSUME NEW os \in Seq(OrderSet), NEW x \in PanelSlots, NEW P, Reaches(os, x, P),
         \A i \in DOMAIN os : ~Moving(os[i]) /\ os[i].op # "Erase"
  PROVE  x \in P
<1> DEFINE p == [i \in 0..Len(os) |-> x]
<1>1. Led(os, p, x)
  <2>1. p \in [0..Len(os) -> PanelSlots] /\ p[0] = x
    OBVIOUS
  <2>2. ASSUME NEW i \in 1..Len(os) PROVE Carries(os[i], p[i - 1], p[i])
    <3>1. i \in DOMAIN os /\ p[i - 1] = x /\ p[i] = x
      OBVIOUS
    <3> QED BY <3>1 DEF Carries
  <2> QED BY <2>1, <2>2 DEF Led
<1>2. p[Len(os)] \in P
  BY <1>1 DEF Reaches
<1>3. p[Len(os)] = x
  OBVIOUS
<1> QED BY <1>2, <1>3

LEMMA ReachAny ==
  ASSUME NEW os \in Seq(OrderSet), NEW x PROVE Reaches(os, x, PanelSlots)
<1> SUFFICES ASSUME NEW p, Led(os, p, x) PROVE p[Len(os)] \in PanelSlots
  BY DEF Reaches
<1>1. p \in [0..Len(os) -> PanelSlots]
  BY DEF Led
<1>2. Len(os) \in 0..Len(os)
  OBVIOUS
<1> QED BY <1>1, <1>2

LEMMA BetweenNone ==
  ASSUME NEW os \in Seq(OrderSet), NEW done, NEW sent, Between(os, done, sent)
  PROVE  /\ done <= sent /\ done \in Nat /\ sent \in Nat
         /\ done = sent => \A i \in DOMAIN os : ~Moving(os[i])
<1> DEFINE n == Len(os)
<1>1. n \in Nat /\ DOMAIN os = 1..n
  OBVIOUS
<1>2. PICK f : Counts(os, f, done, sent)
  BY DEF Between
<1>3. /\ f \in [0..n -> Nat] /\ f[0] = done /\ f[n] = sent
      /\ \A i, j \in 0..n : i <= j => f[i] <= f[j]
      /\ \A i \in 1..n : f[i] = IF Moving(os[i]) THEN f[i - 1] + 1 ELSE f[i - 1]
  BY <1>2 DEF Counts
<1> HIDE DEF n
<1>4. 0 \in 0..n /\ n \in 0..n /\ 0 <= n
  BY <1>1
<1>5. done <= sent /\ done \in Nat /\ sent \in Nat
  BY <1>3, <1>4
<1>6. ASSUME done = sent, NEW i \in 1..n, Moving(os[i]) PROVE FALSE
  <2>1. i \in 0..n /\ i - 1 \in 0..n /\ 0 <= i - 1 /\ i <= n
    BY <1>1
  <2>2. f[0] <= f[i - 1] /\ f[i] <= f[n] /\ f[i] = f[i - 1] + 1 /\ f[i] \in Nat /\ f[i - 1] \in Nat
    BY <1>3, <1>4, <1>6, <2>1
  <2> QED BY <1>3, <1>5, <1>6, <2>2
<1> QED BY <1>1, <1>5, <1>6

LEMMA BetweenRest ==
  ASSUME NEW os \in Seq(OrderSet), os # <<>>, NEW done, NEW sent, Between(os, done, sent)
  PROVE  Between(Tail(os), IF Moving(Head(os)) THEN done + 1 ELSE done, sent)
<1> DEFINE n == Len(os)
           rest == Tail(os)
<1>1. /\ n \in Nat \ {0} /\ Len(rest) = n - 1 /\ Head(os) = os[1]
      /\ \A i \in 1..(n - 1) : rest[i] = os[i + 1]
  BY Rested
<1>2. PICK f : Counts(os, f, done, sent)
  BY DEF Between
<1>3. /\ f \in [0..n -> Nat] /\ f[0] = done /\ f[n] = sent
      /\ \A i, j \in 0..n : i <= j => f[i] <= f[j]
      /\ \A i \in 1..n : f[i] = IF Moving(os[i]) THEN f[i - 1] + 1 ELSE f[i - 1]
  BY <1>2 DEF Counts
<1> HIDE DEF n, rest
<1> DEFINE g == [i \in 0..(n - 1) |-> f[i + 1]]
<1>4. \A i \in 0..(n - 1) : i + 1 \in 0..n /\ g[i] = f[i + 1]
  BY <1>1
<1>5. g \in [0..(n - 1) -> Nat]
  BY <1>3, <1>4
<1>6. g[0] = (IF Moving(Head(os)) THEN done + 1 ELSE done) /\ g[n - 1] = sent
  <2>1. 0 \in 0..(n - 1) /\ n - 1 \in 0..(n - 1) /\ (n - 1) + 1 = n /\ 0 + 1 = 1 /\ 1 \in 1..n /\ 1 - 1 = 0
    BY <1>1
  <2>2. g[0] = f[1] /\ g[n - 1] = f[n]
    BY <1>4, <2>1
  <2> QED BY <1>1, <1>3, <2>1, <2>2
<1>7. ASSUME NEW i \in 0..(n - 1), NEW j \in 0..(n - 1), i <= j PROVE g[i] <= g[j]
  <2>1. i + 1 <= j + 1
    BY <1>1, <1>7
  <2> QED BY <1>3, <1>4, <2>1
<1>8. ASSUME NEW i \in 1..(n - 1) PROVE g[i] = IF Moving(rest[i]) THEN g[i - 1] + 1 ELSE g[i - 1]
  <2>1. i \in 0..(n - 1) /\ i - 1 \in 0..(n - 1) /\ (i - 1) + 1 = i /\ i + 1 \in 1..n /\ (i + 1) - 1 = i
    BY <1>1
  <2>2. g[i] = f[i + 1] /\ g[i - 1] = f[i] /\ rest[i] = os[i + 1]
    BY <1>1, <1>4, <2>1
  <2>3. f[i + 1] = IF Moving(os[i + 1]) THEN f[i] + 1 ELSE f[i]
    BY <1>3, <2>1
  <2> QED BY <2>2, <2>3
<1> HIDE DEF g
<1>9. Counts(rest, g, IF Moving(Head(os)) THEN done + 1 ELSE done, sent)
  BY <1>1, <1>5, <1>6, <1>7, <1>8 DEF Counts
<1> QED BY <1>9 DEF Between, rest

\* An order more, counted.
LEMMA BetweenOne ==
  ASSUME NEW os \in Seq(OrderSet), NEW o \in OrderSet, NEW done, NEW sent, Between(os, done, sent)
  PROVE  Between(os \o <<o>>, done, IF Moving(o) THEN sent + 1 ELSE sent)
<1> DEFINE n == Len(os)
           all == os \o <<o>>
           last == IF Moving(o) THEN sent + 1 ELSE sent
<1>1. n \in Nat /\ Len(all) = n + 1 /\ (\A i \in 1..n : all[i] = os[i]) /\ all[n + 1] = o
  <2>1. <<o>> \in Seq(OrderSet) /\ Len(<<o>>) = 1 /\ <<o>>[1] = o
    OBVIOUS
  <2> QED BY <2>1, Joined
<1>2. PICK f : Counts(os, f, done, sent)
  BY DEF Between
<1>3. /\ f \in [0..n -> Nat] /\ f[0] = done /\ f[n] = sent
      /\ \A i, j \in 0..n : i <= j => f[i] <= f[j]
      /\ \A i \in 1..n : f[i] = IF Moving(os[i]) THEN f[i - 1] + 1 ELSE f[i - 1]
  BY <1>2 DEF Counts
<1> HIDE DEF n, all
<1>4. sent \in Nat /\ last \in Nat /\ sent <= last
  <2>1. n \in 0..n
    BY <1>1
  <2>2. sent \in Nat
    BY <1>3, <2>1
  <2> QED BY <2>2
<1> HIDE DEF last
<1> DEFINE g == [i \in 0..(n + 1) |-> IF i = n + 1 THEN last ELSE f[i]]
<1>5. g[n + 1] = last /\ \A i \in 0..n : g[i] = f[i] /\ i # n + 1
  BY <1>1
<1>6. \A i \in 0..(n + 1) : i = n + 1 \/ i \in 0..n
  BY <1>1
<1>7. g \in [0..(n + 1) -> Nat] /\ g[0] = done
  <2>1. \A i \in 0..(n + 1) : g[i] \in Nat
    BY <1>3, <1>4, <1>5, <1>6
  <2>2. 0 \in 0..n
    BY <1>1
  <2> QED BY <1>3, <1>5, <2>1, <2>2
<1> HIDE DEF g
<1>8. ASSUME NEW i \in 0..(n + 1), NEW j \in 0..(n + 1), i <= j PROVE g[i] <= g[j]
  <2>1. CASE j \in 0..n
    <3>1. i \in 0..n
      BY <1>1, <1>8, <2>1
    <3> QED BY <1>3, <1>5, <1>8, <2>1, <3>1
  <2>2. CASE j = n + 1 /\ i = n + 1
    BY <1>4, <1>5, <2>2
  <2>3. CASE j = n + 1 /\ i \in 0..n
    <3>1. n \in 0..n /\ i <= n
      BY <1>1, <2>3
    <3>2. f[i] <= f[n] /\ f[i] \in Nat
      BY <1>3, <2>3, <3>1
    <3> QED BY <1>3, <1>4, <1>5, <2>3, <3>2
  <2> QED BY <1>6, <2>1, <2>2, <2>3
<1>9. ASSUME NEW i \in 1..(n + 1) PROVE g[i] = IF Moving(all[i]) THEN g[i - 1] + 1 ELSE g[i - 1]
  <2>0. i - 1 \in 0..n /\ g[i - 1] = f[i - 1]
    BY <1>1, <1>5
  <2>1. CASE i = n + 1
    <3>1. i - 1 = n
      BY <1>1, <2>1
    <3> QED BY <1>1, <1>3, <1>5, <2>0, <2>1, <3>1 DEF last
  <2>2. CASE i # n + 1
    <3>1. i \in 1..n /\ i \in 0..n
      BY <1>1, <2>2
    <3> QED BY <1>1, <1>3, <1>5, <2>0, <3>1
  <2> QED BY <2>1, <2>2
<1>10. Counts(all, g, done, last)
  BY <1>1, <1>5, <1>7, <1>8, <1>9 DEF Counts
<1> QED BY <1>10 DEF Between, all, last
LEMMA BetweenMore ==
  ASSUME NEW os \in Seq(OrderSet), NEW batch \in Seq(OrderSet),
         \A i \in DOMAIN batch : ~Moving(batch[i]), NEW done, NEW sent, Between(os, done, sent)
  PROVE  Between(os \o batch, done, sent)
<1> DEFINE n == Len(os)
           m == Len(batch)
           all == os \o batch
<1>1. /\ n \in Nat /\ m \in Nat /\ Len(all) = n + m /\ DOMAIN batch = 1..m
      /\ \A i \in 1..n : all[i] = os[i]
      /\ \A i \in 1..m : all[n + i] = batch[i]
  BY Joined
<1>2. PICK f : Counts(os, f, done, sent)
  BY DEF Between
<1>3. /\ f \in [0..n -> Nat] /\ f[0] = done /\ f[n] = sent
      /\ \A i, j \in 0..n : i <= j => f[i] <= f[j]
      /\ \A i \in 1..n : f[i] = IF Moving(os[i]) THEN f[i - 1] + 1 ELSE f[i - 1]
  BY <1>2 DEF Counts
<1> HIDE DEF n, m, all
<1>4. sent \in Nat /\ 0 \in 0..n /\ n \in 0..n
  <2>1. 0 \in 0..n /\ n \in 0..n
    BY <1>1
  <2> QED BY <1>3, <2>1
<1> DEFINE g == [i \in 0..(n + m) |-> IF i <= n THEN f[i] ELSE sent]
<1>5. /\ \A i \in 0..(n + m) : i \in 0..n \/ i > n
      /\ \A i \in 0..n : i \in 0..(n + m) /\ i <= n
      /\ \A i \in 0..(n + m) : i > n => ~(i <= n)
  BY <1>1
<1>6. /\ \A i \in 0..n : g[i] = f[i]
      /\ \A i \in 0..(n + m) : i >= n => g[i] = sent
  <2>1. ASSUME NEW i \in 0..(n + m), i >= n PROVE g[i] = sent
    <3>1. i = n \/ i > n
      BY <1>1, <2>1
    <3> QED BY <1>3, <1>4, <1>5, <3>1
  <2> QED BY <1>5, <2>1
<1>7. g \in [0..(n + m) -> Nat]
  BY <1>3, <1>4, <1>5
<1>8. n + m \in 0..(n + m) /\ n + m >= n
  BY <1>1
<1> HIDE DEF g
<1>9. g[0] = done /\ g[n + m] = sent
  BY <1>3, <1>4, <1>6, <1>8
<1>10. ASSUME NEW i \in 0..(n + m), NEW j \in 0..(n + m), i <= j PROVE g[i] <= g[j]
  <2>1. CASE i \in 0..n /\ j \in 0..n
    BY <1>3, <1>6, <1>10, <2>1
  <2>2. CASE i \in 0..n /\ j > n
    <3>1. i <= n /\ j >= n
      BY <1>1, <2>2
    <3>2. f[i] <= f[n] /\ f[i] \in Nat
      BY <1>3, <1>4, <2>2, <3>1
    <3> QED BY <1>3, <1>6, <2>2, <3>1, <3>2
  <2>3. CASE i > n
    <3>1. j >= n /\ i >= n
      BY <1>1, <1>10, <2>3
    <3> QED BY <1>4, <1>6, <3>1
  <2> QED BY <1>5, <2>1, <2>2, <2>3
<1>11. ASSUME NEW i \in 1..(n + m) PROVE g[i] = IF Moving(all[i]) THEN g[i - 1] + 1 ELSE g[i - 1]
  <2>1. CASE i \in 1..n
    <3>1. i - 1 \in 0..n /\ i \in 0..n
      BY <1>1, <2>1
    <3> QED BY <1>1, <1>3, <1>6, <2>1, <3>1
  <2>2. CASE i \notin 1..n
    <3>1. i - n \in 1..m /\ i = n + (i - n) /\ i - 1 \in 0..(n + m)
          /\ i - 1 >= n /\ i >= n /\ i \in 0..(n + m)
      BY <1>1, <2>2
    <3>2. all[i] = batch[i - n] /\ ~Moving(batch[i - n])
      BY <1>1, <3>1
    <3> QED BY <1>6, <3>1, <3>2
  <2> QED BY <2>1, <2>2
<1>12. Counts(all, g, done, sent)
  BY <1>1, <1>7, <1>9, <1>10, <1>11 DEF Counts
<1> QED BY <1>12 DEF Between, all

LEMMA OutMore ==
  ASSUME NEW os \in Seq(OrderSet), NEW batch \in Seq(OrderSet), NEW x,
         \A i \in DOMAIN batch : Moving(batch[i]) => batch[i].to # x \/ Leaves(os, x)
  PROVE  /\ OutFirst(os, x) => OutFirst(os \o batch, x)
         /\ Leaves(os, x) => Leaves(os \o batch, x)
<1> DEFINE n == Len(os)
           m == Len(batch)
           all == os \o batch
<1>1. /\ n \in Nat /\ m \in Nat /\ DOMAIN all = 1..(n + m) /\ DOMAIN batch = 1..m /\ DOMAIN os = 1..n
      /\ \A i \in 1..n : all[i] = os[i]
      /\ \A i \in 1..m : all[n + i] = batch[i]
      /\ \A i \in 1..(n + m) : i \in 1..n \/ (i - n \in 1..m /\ i = n + (i - n))
  <2>1. all \in Seq(OrderSet) /\ Len(all) = n + m
    BY Joined
  <2>2. DOMAIN all = 1..(n + m)
    BY <2>1
  <2> QED BY <2>2, Joined
<1> HIDE DEF n, m, all
<1>2. \A i \in 1..n : i \in 1..(n + m)
  BY <1>1
<1>3. Leaves(os, x) => Leaves(all, x)
  BY <1>1, <1>2 DEF Leaves
<1>4. ASSUME OutFirst(os, x) PROVE OutFirst(all, x)
  <2> SUFFICES ASSUME NEW i \in 1..(n + m), Moving(all[i]), all[i].to = x
               PROVE  \E j \in 1..(i - 1) : Moving(all[j]) /\ all[j].slot = x
    BY <1>1 DEF OutFirst
  <2>1. CASE i \in 1..n
    <3>1. PICK j \in 1..(i - 1) : Moving(os[j]) /\ os[j].slot = x
      BY <1>1, <1>4, <2>1 DEF OutFirst
    <3>2. j \in 1..n
      BY <1>1, <2>1
    <3> QED BY <1>1, <3>1, <3>2
  <2>2. CASE i - n \in 1..m /\ i = n + (i - n)
    <3>1. all[i] = batch[i - n]
      BY <1>1, <2>2
    <3>2. Leaves(os, x)
      BY <1>1, <2>2, <3>1
    <3>3. PICK j \in 1..n : Moving(os[j]) /\ os[j].slot = x
      BY <1>1, <3>2 DEF Leaves
    <3>4. j \in 1..(i - 1)
      BY <1>1, <2>2
    <3> QED BY <1>1, <3>3, <3>4
  <2> QED BY <1>1, <2>1, <2>2
<1> QED BY <1>3, <1>4 DEF all

LEMMA OutRest ==
  ASSUME NEW os \in Seq(OrderSet), os # <<>>, NEW x, ~(Moving(Head(os)) /\ Head(os).slot = x)
  PROVE  /\ OutFirst(os, x) => OutFirst(Tail(os), x)
         /\ Leaves(os, x) => Leaves(Tail(os), x)
<1> DEFINE n == Len(os)
           rest == Tail(os)
<1>1. /\ n \in Nat \ {0} /\ Head(os) = os[1] /\ DOMAIN rest = 1..(n - 1) /\ DOMAIN os = 1..n
      /\ \A i \in 1..(n - 1) : rest[i] = os[i + 1]
  BY Rested
<1> HIDE DEF n, rest
<1>2. ASSUME NEW j \in 1..n, Moving(os[j]) /\ os[j].slot = x
      PROVE  j - 1 \in 1..(n - 1) /\ Moving(rest[j - 1]) /\ rest[j - 1].slot = x
  <2>1. j # 1
    BY <1>1, <1>2
  <2>2. j - 1 \in 1..(n - 1) /\ (j - 1) + 1 = j
    BY <1>1, <2>1
  <2> QED BY <1>1, <1>2, <2>2
<1>3. Leaves(os, x) => Leaves(rest, x)
  BY <1>1, <1>2 DEF Leaves
<1>4. ASSUME OutFirst(os, x) PROVE OutFirst(rest, x)
  <2> SUFFICES ASSUME NEW i \in 1..(n - 1), Moving(rest[i]), rest[i].to = x
               PROVE  \E j \in 1..(i - 1) : Moving(rest[j]) /\ rest[j].slot = x
    BY <1>1 DEF OutFirst
  <2>1. i + 1 \in 1..n /\ os[i + 1] = rest[i] /\ (i + 1) - 1 = i
    BY <1>1
  <2>2. PICK j \in 1..i : Moving(os[j]) /\ os[j].slot = x
    BY <1>1, <1>4, <2>1 DEF OutFirst
  <2>3. j \in 1..n
    BY <1>1
  <2>4. j - 1 \in 1..(n - 1) /\ Moving(rest[j - 1]) /\ rest[j - 1].slot = x
    BY <1>2, <2>2, <2>3
  <2>5. j - 1 \in 1..(i - 1)
    BY <1>1, <2>4
  <2> QED BY <2>4, <2>5
<1> QED BY <1>3, <1>4 DEF rest

--------------------------------------------------------------------------
(* The panel of loops: the vectors of a selection                          *)

LEMMA FirstPlace ==
  ASSUME NEW list \in Seq(PanelSlots), NEW s, NEW at, at = SelectInSeq(list, LAMBDA x : x = s)
  PROVE  /\ at = 0 => s \notin ToSet(list)
         /\ at # 0 => at \in 1..Len(list) /\ list[at] = s
<1> DEFINE I == {i \in 1..Len(list) : list[i] = s}
<1>1. at = IF I # {} THEN Min(I) ELSE 0
  BY DEF SelectInSeq
<1>2. CASE I # {}
  <2>1. I \in SUBSET (0..Len(list)) /\ Len(list) \in Nat
    OBVIOUS
  <2> HIDE DEF I
  <2>2. \E m \in I : \A x \in I : m <= x
    BY <1>2, <2>1, Least
  <2>3. Min(I) \in I
    BY <2>2 DEF Min
  <2> QED BY <1>1, <1>2, <2>3 DEF I
<1>3. CASE I = {}
  BY <1>1, <1>3 DEF ToSet
<1> QED BY <1>2, <1>3

LEMMA AfterMoveIs ==
  ASSUME NEW list \in Seq(PanelSlots), NEW from \in PanelSlots, NEW to \in PanelSlots
  PROVE  /\ AfterMove(list, from, to) \in Seq(PanelSlots)
         /\ \A s \in ToSet(list) : (IF s = from THEN to ELSE s) \in ToSet(AfterMove(list, from, to))
<1> DEFINE at == SelectInSeq(list, LAMBDA x : x = from)
           moved == [list EXCEPT ![at] = to]
<1>1. AfterMove(list, from, to) = IF at = 0 THEN list ELSE moved
  BY DEF AfterMove
<1>2. /\ at = 0 => from \notin ToSet(list)
      /\ at # 0 => at \in 1..Len(list) /\ list[at] = from
  BY FirstPlace
<1> HIDE DEF at
<1>3. CASE at = 0
  BY <1>1, <1>2, <1>3
<1>4. CASE at # 0
  <2>1. moved \in Seq(PanelSlots) /\ DOMAIN moved = 1..Len(list) /\ moved[at] = to
    BY <1>2, <1>4
  <2>2. \A i \in 1..Len(list) : i # at => moved[i] = list[i]
    BY <1>2, <1>4
  <2>3. ASSUME NEW i \in 1..Len(list)
        PROVE  (IF list[i] = from THEN to ELSE list[i]) \in ToSet(moved)
    <3>1. CASE list[i] = from
      BY <1>2, <1>4, <2>1, <3>1 DEF ToSet
    <3>2. CASE list[i] # from
      BY <1>2, <1>4, <2>1, <2>2, <3>2 DEF ToSet
    <3> QED BY <3>1, <3>2
  <2> QED BY <1>1, <1>4, <2>1, <2>3 DEF ToSet
<1> QED BY <1>3, <1>4

\* swap_remove.
LEMMA SwappedOut ==
  ASSUME NEW list \in Seq(PanelSlots), NEW at \in 1..Len(list), NEW out,
         out = SubSeq([list EXCEPT ![at] = Last(list)], 1, Len(list) - 1)
  PROVE  out \in Seq(PanelSlots) /\ \A s \in ToSet(list) : s # list[at] => s \in ToSet(out)
<1> DEFINE n == Len(list)
           moved == [list EXCEPT ![at] = Last(list)]
<1>1. n \in Nat /\ n >= 1 /\ n \in 1..n /\ DOMAIN list = 1..n /\ Last(list) = list[n]
  BY DEF Last
<1>2. /\ moved \in Seq(PanelSlots) /\ Len(moved) = n /\ moved[at] = list[n]
      /\ \A i \in 1..n : i # at => moved[i] = list[i]
  BY <1>1
<1> HIDE DEF n, moved
<1>3. /\ out \in Seq(PanelSlots) /\ DOMAIN out = 1..(n - 1)
      /\ \A i \in 1..(n - 1) : out[i] = moved[i]
  <2>1. out = SubSeq(moved, 1, n - 1) /\ 1 \in 1..(n + 1) /\ n - 1 \in 0..n
    BY <1>1 DEF n, moved
  <2> QED BY <1>1, <1>2, <2>1
<1>4. ASSUME NEW i \in 1..n, list[i] # list[at] PROVE list[i] \in ToSet(out)
  <2>1. at \in 1..n
    BY DEF n
  <2>2. CASE i = n
    <3>1. at \in 1..(n - 1)
      BY <1>1, <1>4, <2>1, <2>2
    <3> QED BY <1>2, <1>3, <2>2, <3>1 DEF ToSet
  <2>3. CASE i # n
    <3>1. i \in 1..(n - 1) /\ i # at
      BY <1>1, <1>4, <2>3
    <3> QED BY <1>2, <1>3, <3>1 DEF ToSet
  <2> QED BY <2>2, <2>3
<1> QED BY <1>1, <1>3, <1>4 DEF ToSet

\* What the ring accepts of a batch.
LEMMA AcceptedIs ==
  ASSUME NEW os \in Seq(OrderSet), orders = os, NEW batch \in Seq(OrderSet), Room \in Int
  PROVE  /\ Accepted(batch) \in Seq(OrderSet)
         /\ \A i \in DOMAIN Accepted(batch) : i \in DOMAIN batch /\ Accepted(batch)[i] = batch[i]
         /\ Room >= Len(batch) => Accepted(batch) = batch
<1> DEFINE r == Room
           n == Len(batch)
           m == IF n < r THEN n ELSE r
<1>0. n \in Nat /\ DOMAIN batch = 1..n /\ r \in Int /\ m \in Int /\ m <= n
  OBVIOUS
<1>1. Accepted(batch) = SubSeq(batch, 1, m)
  BY DEF Accepted
<1> HIDE DEF r, n, m
<1>2. SubSeq(batch, 1, m) \in Seq(OrderSet)
  <2>1. \A i \in 1..m : batch[i] \in OrderSet
    BY <1>0
  <2> QED BY <1>0, <2>1
<1>3. DOMAIN SubSeq(batch, 1, m) = 1..m /\ \A i \in 1..m : SubSeq(batch, 1, m)[i] = batch[i] /\ i \in 1..n
  BY <1>0
<1>4. ASSUME r >= n PROVE SubSeq(batch, 1, m) = batch
  <2>1. m = n
    BY <1>0, <1>4 DEF m
  <2> QED BY <1>0, <2>1 DEF n
<1> QED BY <1>0, <1>1, <1>2, <1>3, <1>4 DEF r, n
--------------------------------------------------------------------------
(* The panel of loops: the steps                                           *)

\* Orders that move nothing, and what the player does with them to the selections.
LEMMA QueueKeeps ==
  ASSUME PanelInv, NEW batch \in Seq(OrderSet), \A i \in DOMAIN batch : ~Moving(batch[i]),
         orders' = orders \o batch, UNCHANGED <<slots, recorder, takes, reports, cached, names>>,
         chosen' \in [Sets -> Seq(PanelSlots)],
         meant' \in [Sets -> SUBSET Nat], \A k \in Sets : meant'[k] \subseteq meant[k],
         moves' \in [sent : Nat, done : Nat, shown : Nat, refused : BOOLEAN],
         moves'.sent = moves.sent, moves'.done = moves.done, moves'.shown = moves.shown,
         moves.refused => moves'.refused,
         ~moves'.refused => \A k \in Sets : \A s \in ToSet(chosen[k]) :
           s \in ToSet(chosen'[k]) \/ \E i \in DOMAIN batch : batch[i].op = "Erase" /\ batch[i].slot = s
  PROVE  PanelInv'
<1>1. PanelTypes /\ orders \in Seq(OrderSet)
  BY DEF PanelInv, PanelTypes
<1>2. orders' \in Seq(OrderSet)
  BY <1>1, Joined
<1>3. \A i : View(i)' = View(i)
  BY DEF View
<1>4. Views' = Views
  BY DEF Views
<1>5. PanelTypes'
  <2>1. \A k \in Sets : \A t \in meant'[k] : t <= takes
    BY <1>1 DEF PanelTypes
  <2>2. \A i \in Views' :
          /\ View(i)'.moved <= moves'.done
          /\ \A s \in PanelSlots :
               /\ View(i)'.modes[s].mode = "Empty" <=> View(i)'.modes[s].take = NoTake
               /\ View(i)'.modes[s].take <= takes'
    BY <1>1, <1>3, <1>4 DEF PanelTypes
  <2> QED BY <1>1, <1>2, <2>1, <2>2 DEF PanelTypes
<1>6. \A t : Claimed(t, names', meant') => Claimed(t, names, meant)
  BY DEF Claimed
<1>7. TakesApart' /\ ViewsPlace'
  BY <1>3, <1>4 DEF PanelInv, TakesApart, ViewsPlace
<1>8. ViewsStay'
  BY <1>3, <1>4 DEF PanelInv, ViewsStay
<1>9. ViewsSee'
  <2> SUFFICES ASSUME NEW x \in PanelSlots, Claimed(slots'[x].take, names', meant'), 
                      NEW i \in Views', View(i)'.moved = moves'.sent
               PROVE  View(i)'.modes[x].take = slots'[x].take
    BY DEF ViewsSee
  <2>1. Claimed(slots[x].take, names, meant)
    BY <1>6
  <2>2. i \in Views /\ View(i).moved = moves.sent /\ View(i)' = View(i)
    BY <1>3, <1>4
  <2>3. View(i).modes[x].take = slots[x].take
    BY <2>1, <2>2 DEF PanelInv, ViewsSee
  <2> QED BY <2>2, <2>3
<1>10. Between(orders', moves'.done, moves'.sent)
  BY <1>1, BetweenMore DEF PanelInv
<1>11. ASSUME ~moves'.refused PROVE ShortStay' /\ NamesLead' /\ SetsLead'
  <2>1. ShortStay /\ NamesLead /\ SetsLead
    BY <1>11 DEF PanelInv
  <2>2. ShortStay'
    <3> SUFFICES ASSUME NEW x \in PanelSlots, Claimed(slots'[x].take, names', meant'), ~slots'[x].long
                 PROVE  /\ \A i \in 1..Len(reports') : reports'[i].modes[x].take = slots'[x].take
                        /\ cached'[x].take = slots'[x].take \/ Leaves(orders', x)
                        /\ OutFirst(orders', x)
      BY DEF ShortStay
    <3>1. Claimed(slots[x].take, names, meant) /\ ~slots[x].long
      BY <1>6
    <3>2. /\ Leaves(orders, x) => Leaves(orders', x)
          /\ OutFirst(orders, x) => OutFirst(orders', x)
      BY <1>1, OutMore
    <3> QED BY <2>1, <3>1, <3>2 DEF ShortStay
  <2>3. NamesLead'
    <3> SUFFICES ASSUME NEW x \in PanelSlots, NEW s \in PanelSlots,
                        names'[s] = slots'[x].take, slots'[x].take # NoTake
                 PROVE  Reaches(orders', x, {s})
      BY DEF NamesLead
    <3>1. Reaches(orders, x, {s})
      BY <2>1 DEF NamesLead
    <3> QED BY <1>1, <3>1, ReachMore
  <2>4. SetsLead'
    <3> SUFFICES ASSUME NEW x \in PanelSlots, NEW k \in Sets,
                        slots'[x].take \in meant'[k], slots'[x].take # NoTake
                 PROVE  Reaches(orders', x, ToSet(chosen'[k]))
      BY DEF SetsLead
    <3>1. Reaches(orders, x, ToSet(chosen[k]))
      BY <2>1 DEF SetsLead
    <3>2. \A s \in ToSet(chosen[k]) :
            s \in ToSet(chosen'[k]) \/ \E i \in DOMAIN batch : batch[i].op = "Erase" /\ batch[i].slot = s
      BY <1>11
    <3> QED BY <1>1, <3>1, <3>2, ReachMore
  <2> QED BY <2>2, <2>3, <2>4
<1> QED BY <1>5, <1>7, <1>8, <1>9, <1>10, <1>11 DEF PanelInv

\* What the player selects and names, of what is shown, while the panel waits for no move.
LEMMA ClaimKeeps ==
  ASSUME PanelInv, Settled, UNCHANGED <<slots, recorder, takes, orders, reports, cached, moves>>,
         chosen' \in [Sets -> Seq(PanelSlots)],
         names' \in [PanelSlots -> Nat], \A s \in PanelSlots : names'[s] <= takes,
         meant' \in [Sets -> SUBSET Nat], \A k \in Sets : \A t \in meant'[k] : t <= takes,
         \A s \in PanelSlots : names'[s] = names[s] \/ names'[s] = cached[s].take,
         \A k \in Sets : \A t \in meant'[k] :
           \/ /\ t \in meant[k]
              /\ \A x \in ToSet(chosen[k]) : cached[x].take = t => x \in ToSet(chosen'[k])
           \/ \E s \in ToSet(chosen'[k]) \cap PanelSlots : cached[s].take = t
  PROVE  PanelInv'
<1>1. PanelTypes /\ orders \in Seq(OrderSet) /\ TakesApart /\ ViewsPlace /\ ViewsStay /\ ViewsSee
  BY DEF PanelInv, PanelTypes
<1>2. moves.done = moves.sent /\ moves.shown = moves.sent /\ \A i \in DOMAIN orders : ~Moving(orders[i])
  <2>1. /\ moves.done <= moves.sent /\ moves.done \in Nat /\ moves.sent \in Nat
        /\ moves.done = moves.sent => \A i \in DOMAIN orders : ~Moving(orders[i])
    BY <1>1, BetweenNone DEF PanelInv
  <2>2. 0 \in Views /\ View(0).moved = moves.shown
    BY <1>1 DEF Views, View, PanelTypes
  <2>3. moves.shown <= moves.done /\ moves.shown \in Nat
    BY <1>1, <2>2 DEF PanelTypes
  <2> QED BY <2>1, <2>3 DEF Settled
<1>3. \A i : View(i)' = View(i)
  BY DEF View
<1>4. Views' = Views /\ 0 \in Views /\ View(0).moved = moves.sent /\ View(0).modes = cached
  BY <1>1, <1>2 DEF Views, View, PanelTypes
<1>5. PanelTypes'
  <2>2. \A i \in Views' :
          /\ View(i)'.moved <= moves'.done
          /\ \A s \in PanelSlots :
               /\ View(i)'.modes[s].mode = "Empty" <=> View(i)'.modes[s].take = NoTake
               /\ View(i)'.modes[s].take <= takes'
    BY <1>1, <1>3, <1>4 DEF PanelTypes
  <2> QED BY <1>1, <2>2 DEF PanelTypes
<1>6. TakesApart' /\ ViewsPlace'
  <2>1. TakesApart'
    BY <1>1 DEF TakesApart
  <2>2. ViewsPlace'
    BY <1>1, <1>3, <1>4 DEF ViewsPlace
  <2> QED BY <2>1, <2>2
<1>7. ViewsStay'
  BY <1>1, <1>3, <1>4 DEF ViewsStay
\* What is shown of a loop is shown at its slot, and stays.
<1>8. ASSUME NEW x \in PanelSlots, NEW s \in PanelSlots,
             cached[s].take = slots[x].take, slots[x].take # NoTake
      PROVE  s = x /\ \A i \in Views : View(i).modes[x].take = slots[x].take
  <2>1. s = x
    BY <1>1, <1>4, <1>8 DEF ViewsPlace
  <2> QED BY <1>1, <1>2, <1>8, <2>1 DEF ViewsStay
\* So it is with every loop the player has selected or named.
<1>9. ASSUME NEW x \in PanelSlots, Claimed(slots[x].take, names', meant')
      PROVE  \/ Claimed(slots[x].take, names, meant)
             \/ \A i \in Views : View(i).modes[x].take = slots[x].take
  <2>1. slots[x].take # NoTake
    BY <1>9 DEF Claimed
  <2>2. CASE \E s \in PanelSlots : names'[s] = slots[x].take
    BY <1>8, <2>1, <2>2 DEF Claimed
  <2>3. CASE \E k \in Sets : slots[x].take \in meant'[k]
    <3>1. PICK k \in Sets : slots[x].take \in meant'[k]
      BY <2>3
    <3>2. CASE slots[x].take \in meant[k]
      BY <2>1, <3>1, <3>2 DEF Claimed
    <3>3. CASE \E s \in ToSet(chosen'[k]) \cap PanelSlots : cached[s].take = slots[x].take
      BY <1>8, <2>1, <3>3
    <3> QED BY <3>1, <3>2, <3>3
  <2> QED BY <1>9, <2>2, <2>3 DEF Claimed
<1>10. ASSUME NEW x \in PanelSlots,
              Claimed(slots[x].take, names', meant'), NEW i \in Views, View(i).moved = moves.sent
       PROVE  View(i).modes[x].take = slots[x].take
  <2>1. CASE Claimed(slots[x].take, names, meant)
    BY <1>1, <1>10, <2>1 DEF ViewsSee
  <2> QED BY <1>9, <1>10, <2>1
<1>11. ViewsSee'
  <2> SUFFICES ASSUME NEW x \in PanelSlots, Claimed(slots'[x].take, names', meant'),
                      NEW i \in Views', View(i)'.moved = moves'.sent
               PROVE  View(i)'.modes[x].take = slots'[x].take
    BY DEF ViewsSee
  <2>1. Claimed(slots[x].take, names', meant')
    OBVIOUS
  <2>2. i \in Views /\ View(i).moved = moves.sent /\ View(i)' = View(i)
    BY <1>3, <1>4
  <2> QED BY <1>10, <2>1, <2>2
<1>12. Between(orders', moves'.done, moves'.sent)
  BY DEF PanelInv
<1>13. ASSUME ~moves'.refused PROVE ShortStay' /\ NamesLead' /\ SetsLead'
  <2>1. ShortStay /\ NamesLead /\ SetsLead
    BY <1>13 DEF PanelInv
  <2>2. ShortStay'
    <3> SUFFICES ASSUME NEW x \in PanelSlots, Claimed(slots'[x].take, names', meant'), ~slots'[x].long
                 PROVE  /\ \A i \in 1..Len(reports') : reports'[i].modes[x].take = slots'[x].take
                        /\ cached'[x].take = slots'[x].take \/ Leaves(orders', x)
                        /\ OutFirst(orders', x)
      BY DEF ShortStay
    <3>1. Claimed(slots[x].take, names', meant') /\ ~slots[x].long
      OBVIOUS
    <3>2. CASE Claimed(slots[x].take, names, meant)
      BY <2>1, <3>1, <3>2 DEF ShortStay
    <3>3. CASE \A i \in Views : View(i).modes[x].take = slots[x].take
      <4>1. ASSUME NEW i \in 1..Len(reports) PROVE reports[i].modes[x].take = slots[x].take
        <5>1. i \in Views /\ View(i) = reports[i]
          BY <1>1 DEF Views, View, PanelTypes
        <5> QED BY <3>3, <5>1
      <4>2. cached[x].take = slots[x].take
        BY <1>4, <3>3
      <4>3. OutFirst(orders, x)
        BY <1>2 DEF OutFirst
      <4> QED BY <4>1, <4>2, <4>3
    <3> QED BY <1>9, <3>1, <3>2, <3>3
  <2>3. NamesLead'
    <3> SUFFICES ASSUME NEW x \in PanelSlots, NEW s \in PanelSlots,
                        names'[s] = slots[x].take, slots[x].take # NoTake
                 PROVE  Reaches(orders, x, {s})
      BY DEF NamesLead
    <3>1. CASE names'[s] = names[s]
      BY <2>1, <3>1 DEF NamesLead
    <3>2. CASE names'[s] = cached[s].take
      <4>1. s = x
        BY <1>8, <3>2
      <4> QED BY <1>1, <1>2, <4>1, ReachAny, ReachStill
    <3> QED BY <3>1, <3>2
  <2>4. SetsLead'
    <3> SUFFICES ASSUME NEW x \in PanelSlots, NEW k \in Sets,
                        slots[x].take \in meant'[k], slots[x].take # NoTake
                 PROVE  Reaches(orders, x, ToSet(chosen'[k]))
      BY DEF SetsLead
    <3> DEFINE t == slots[x].take
               P == ToSet(chosen[k])
               Q == ToSet(chosen'[k])
    <3>1. CASE /\ t \in meant[k]
               /\ \A y \in P : cached[y].take = t => y \in Q
      <4>1. Reaches(orders, x, P)
        BY <2>1, <3>1 DEF SetsLead
      <4>2. Claimed(t, names, meant)
        BY <3>1 DEF Claimed
      <4>3. cached[x].take = t
        BY <1>1, <1>4, <4>2 DEF ViewsSee
      <4>4. x \in P => x \in Q
        BY <3>1, <4>3
      <4> HIDE DEF P, Q
      <4>5. Reaches(orders, x, Q)
        BY <1>1, <1>2, <4>1, <4>4, ReachStill
      <4> QED BY <4>5 DEF Q
    <3>2. CASE \E s \in Q \cap PanelSlots : cached[s].take = t
      <4>1. x \in Q
        BY <1>8, <3>2
      <4> HIDE DEF Q
      <4>2. Reaches(orders, x, Q)
        BY <1>1, <1>2, <4>1, ReachAny, ReachStill
      <4> QED BY <4>2 DEF Q
    <3> QED BY <3>1, <3>2
  <2> QED BY <2>2, <2>3, <2>4
<1> QED BY <1>5, <1>6, <1>7, <1>11, <1>12, <1>13 DEF PanelInv

LEMMA Sends ==
  ASSUME PanelTypes, NEW o \in OrderSet, Room > 0, Enqueue(<<o>>)
  PROVE  orders' = orders \o <<o>> /\ <<o>> \in Seq(OrderSet) /\ DOMAIN <<o>> = {1} /\ <<o>>[1] = o
<1>1. <<o>> \in Seq(OrderSet) /\ Len(<<o>>) = 1 /\ DOMAIN <<o>> = {1} /\ <<o>>[1] = o
  OBVIOUS
<1>2. Room \in Int
  BY PanelAssumption DEF Room, PanelTypes
<1>3. Accepted(<<o>>) = <<o>>
  <2>1. Room >= Len(<<o>>)
    BY <1>1, <1>2
  <2> QED BY <1>1, <1>2, <2>1, AcceptedIs DEF PanelTypes
<1> QED BY <1>1, <1>3 DEF Enqueue

\* A move, of what the panel believes in there to where it believes nothing.
LEMMA MoveKeeps ==
  ASSUME PanelInv, NEW from \in PanelSlots, NEW to \in PanelSlots, PanelMove(from, to)
  PROVE  PanelInv'
<1> DEFINE o == [op |-> "MoveLoop", slot |-> from, to |-> to]
<1>1. PanelTypes /\ orders \in Seq(OrderSet) /\ cached \in [PanelSlots -> [mode : Modes, take : Nat]]
  BY DEF PanelInv, PanelTypes
<1>2. /\ Room > 0 /\ Enqueue(<<o>>) /\ cached[from].mode # "Empty" /\ cached[to].mode = "Empty"
      /\ cached' = Swap(cached, from, to)
      /\ chosen' = [k \in Sets |-> AfterMove(chosen[k], from, to)]
      /\ names' = MoveEntry(names, from, to)
      /\ moves' = [moves EXCEPT !.sent = @ + 1]
      /\ UNCHANGED <<slots, recorder, takes, reports, meant>>
  BY DEF PanelMove, Gesture, callbackVars
<1>3. o \in OrderSet /\ Moving(o) /\ o.slot = from /\ o.to = to
  BY DEF OrderSet, LoopOps, Moving
<1> HIDE DEF o
<1>4. orders' = orders \o <<o>> /\ orders' \in Seq(OrderSet)
  <2>1. orders' = orders \o <<o>> /\ <<o>> \in Seq(OrderSet)
    BY <1>1, <1>2, <1>3, Sends
  <2> QED BY <1>1, <2>1, Joined
<1>5. moves' \in [sent : Nat, done : Nat, shown : Nat, refused : BOOLEAN]
      /\ moves'.sent = moves.sent + 1 /\ moves'.done = moves.done /\ moves'.shown = moves.shown
      /\ moves'.refused = moves.refused
  <2>1. moves \in [sent : Nat, done : Nat, shown : Nat, refused : BOOLEAN]
    BY <1>1 DEF PanelTypes
  <2>2. moves' = [moves EXCEPT !.sent = moves.sent + 1]
    BY <1>2
  <2>3. moves.sent + 1 \in Nat
    BY <2>1
  <2> QED BY ONLY <2>1, <2>2, <2>3
<1>6. from # to
  BY <1>2
<1>7. /\ cached' \in [PanelSlots -> [mode : Modes, take : Nat]]
      /\ cached'[from] = cached[to] /\ cached'[to] = cached[from]
      /\ \A x \in PanelSlots : x # from /\ x # to => cached'[x] = cached[x]
  <2> DEFINE c == Swap(cached, from, to)
  <2>1. /\ c \in [PanelSlots -> [mode : Modes, take : Nat]] /\ c[from] = cached[to] /\ c[to] = cached[from]
        /\ \A x \in PanelSlots : x # from /\ x # to => c[x] = cached[x]
    BY <1>1, <1>6 DEF Swap
  <2> QED BY <1>2, <2>1
<1>8. /\ names' \in [PanelSlots -> Nat] /\ names \in [PanelSlots -> Nat]
      /\ \A x \in PanelSlots : \/ names'[x] = names[x] /\ (x = from => names[x] = NoTake)
                               \/ names'[x] = NoTake
                               \/ x = to /\ names'[x] = names[from]
  <2>1. names \in [PanelSlots -> Nat] /\ NoTake \in Nat
    BY <1>1 DEF PanelTypes, NoTake
  <2> DEFINE N == MoveEntry(names, from, to)
  <2>2. CASE names[from] = NoTake
    <3>1. N = names
      BY <2>2 DEF MoveEntry
    <3> QED BY <1>2, <2>1, <2>2, <3>1
  <2>3. CASE names[from] # NoTake
    <3>1. N = [names EXCEPT ![from] = NoTake, ![to] = names[from]]
      BY <2>3 DEF MoveEntry
    <3>2. /\ N \in [PanelSlots -> Nat] /\ N[from] = NoTake /\ N[to] = names[from]
          /\ \A x \in PanelSlots : x # from /\ x # to => N[x] = names[x]
      BY <1>6, <2>1, <3>1
    <3> QED BY <1>2, <2>1, <3>2
  <2> QED BY <2>2, <2>3
<1>9. /\ chosen' \in [Sets -> Seq(PanelSlots)]
      /\ \A k \in Sets : \A s \in ToSet(chosen[k]) : (IF s = from THEN to ELSE s) \in ToSet(chosen'[k])
  <2>1. \A k \in Sets : /\ chosen[k] \in Seq(PanelSlots) /\ chosen'[k] = AfterMove(chosen[k], from, to)
    BY <1>1, <1>2 DEF PanelTypes
  <2>2. \A k \in Sets : /\ chosen'[k] \in Seq(PanelSlots)
                        /\ \A s \in ToSet(chosen[k]) : (IF s = from THEN to ELSE s) \in ToSet(chosen'[k])
    BY <2>1, AfterMoveIs
  <2> QED BY <1>2, <2>2
<1>10. moves.done <= moves.sent /\ moves.done \in Nat /\ moves.sent \in Nat
  BY <1>1, BetweenNone DEF PanelInv
<1>11. Views' = Views /\ \A i \in Views : /\ View(i)'.moved = View(i).moved /\ View(i).moved \in Nat
                                          /\ i # 0 => View(i)' = View(i)
  <2>1. Views' = Views
    BY <1>2 DEF Views
  <2>2. \A i \in Views : i # 0 => View(i) = reports[i] /\ reports[i] \in ReportSet /\ View(i)' = reports'[i]
    BY <1>1, <1>2 DEF Views, View, PanelTypes
  <2>3. View(0)'.moved = View(0).moved /\ View(0).moved \in Nat
    BY <1>1, <1>5 DEF View, PanelTypes
  <2>4. \A i \in Views : i # 0 => View(i).moved \in Nat
    BY <2>2 DEF ReportSet
  <2> QED BY <1>2, <2>1, <2>2, <2>3, <2>4
<1>12. PanelTypes'
  <2>1. \A i \in Views' :
          /\ View(i)'.moved <= moves'.done
          /\ \A s \in PanelSlots :
               /\ View(i)'.modes[s].mode = "Empty" <=> View(i)'.modes[s].take = NoTake
               /\ View(i)'.modes[s].take <= takes'
    <3> SUFFICES ASSUME NEW i \in Views, NEW s \in PanelSlots
                 PROVE  /\ View(i)'.moved <= moves'.done
                        /\ View(i)'.modes[s].mode = "Empty" <=> View(i)'.modes[s].take = NoTake
                        /\ View(i)'.modes[s].take <= takes'
      BY <1>1, <1>3, <1>5, <1>11 DEF PanelTypes
    <3>1. \A y \in PanelSlots : /\ View(i).modes[y].mode = "Empty" <=> View(i).modes[y].take = NoTake
                                /\ View(i).modes[y].take <= takes
      BY <1>1 DEF PanelTypes
    <3>2. View(i).moved <= moves.done
      BY <1>1 DEF PanelTypes
    <3>3. CASE i # 0
      BY <1>2, <1>5, <1>11, <3>1, <3>2, <3>3
    <3>4. CASE i = 0
      <4>1. View(i).modes = cached /\ View(i)'.modes = cached'
        BY <3>4 DEF View
      <4>2. \E y \in PanelSlots : cached'[s] = cached[y]
        BY <1>7
      <4> QED BY <1>2, <1>5, <1>11, <3>1, <3>2, <4>1, <4>2
    <3> QED BY <3>3, <3>4
  <2>2. \A s \in PanelSlots : names'[s] <= takes
    <3>1. \A s \in PanelSlots : names[s] <= takes
      BY <1>1 DEF PanelTypes
    <3>2. takes \in Nat /\ NoTake <= takes
      BY <1>1 DEF PanelTypes, NoTake
    <3> QED BY <1>8, <3>1, <3>2
  <2> QED BY <1>1, <1>2, <1>4, <1>5, <1>7, <1>8, <1>9, <2>1, <2>2 DEF PanelTypes
<1>13. TakesApart'
  BY <1>2 DEF PanelInv, TakesApart
<1>14. \A i \in Views' : View(i)'.moved # moves'.sent
  <2> SUFFICES ASSUME NEW i \in Views, View(i)'.moved = moves'.sent PROVE FALSE
    BY <1>11
  <2>1. View(i).moved = moves.sent + 1 /\ View(i).moved <= moves.done /\ View(i).moved \in Nat
    BY <1>1, <1>5, <1>11 DEF PanelTypes
  <2> QED BY <1>10, <2>1
<1>15. ViewsPlace' /\ ViewsSee'
  BY <1>14 DEF ViewsPlace, ViewsSee
<1>16. ViewsStay'
  <2>1. 0 \in Views' /\ View(0)'.moved = moves'.shown
    BY <1>1, <1>11 DEF Views, View, PanelTypes
  <2> QED BY <1>14, <2>1 DEF ViewsStay
<1>17. Between(orders', moves'.done, moves'.sent)
  BY <1>1, <1>3, <1>4, <1>5, BetweenOne DEF PanelInv
<1>18. \A t : Claimed(t, names', meant') => Claimed(t, names, meant)
  BY <1>2, <1>8 DEF Claimed
<1>19. ASSUME ~moves'.refused PROVE ShortStay' /\ NamesLead' /\ SetsLead'
  <2>1. ShortStay /\ NamesLead /\ SetsLead
    BY <1>5, <1>19 DEF PanelInv
  <2>2. ShortStay'
    <3> SUFFICES ASSUME NEW x \in PanelSlots, Claimed(slots'[x].take, names', meant'), ~slots'[x].long
                 PROVE  /\ \A i \in 1..Len(reports') : reports'[i].modes[x].take = slots'[x].take
                        /\ cached'[x].take = slots'[x].take \/ Leaves(orders', x)
                        /\ OutFirst(orders', x)
      BY DEF ShortStay
    <3>1. Claimed(slots[x].take, names, meant) /\ ~slots[x].long /\ slots'[x].take = slots[x].take
      BY <1>2, <1>18
    <3>2. /\ \A i \in 1..Len(reports) : reports[i].modes[x].take = slots[x].take
          /\ cached[x].take = slots[x].take \/ Leaves(orders, x)
          /\ OutFirst(orders, x)
      BY <2>1, <3>1 DEF ShortStay
    <3>3. to = x => Leaves(orders, x)
      <4>1. cached[to].take = NoTake
        <5>1. 0 \in Views /\ View(0).modes = cached
          BY <1>1 DEF Views, View, PanelTypes
        <5> QED BY <1>1, <1>2, <5>1 DEF PanelTypes
      <4>2. slots[x].take # NoTake
        BY <3>1 DEF Claimed
      <4> QED BY <3>2, <4>1, <4>2
    <3>4. <<o>> \in Seq(OrderSet) /\ DOMAIN <<o>> = {1} /\ <<o>>[1] = o
      BY <1>3
    <3>5. /\ Leaves(orders, x) => Leaves(orders', x)
          /\ OutFirst(orders, x) => OutFirst(orders', x)
      BY <1>1, <1>3, <1>4, <3>3, <3>4, OutMore
    <3>6. from = x => Leaves(orders', x)
      <4>1. /\ Len(orders) \in Nat /\ (orders \o <<o>>)[Len(orders) + 1] = o
            /\ Len(orders) + 1 \in DOMAIN (orders \o <<o>>)
        BY <1>1, <1>3, <3>4
      <4> QED BY <1>3, <1>4, <4>1 DEF Leaves
    <3>7. cached'[x].take = slots[x].take \/ Leaves(orders', x)
      BY <1>7, <3>2, <3>3, <3>5, <3>6
    <3> QED BY <1>2, <3>1, <3>2, <3>5, <3>7
  <2>3. NamesLead'
    <3> SUFFICES ASSUME NEW x \in PanelSlots, NEW s \in PanelSlots,
                        names'[s] = slots'[x].take, slots'[x].take # NoTake
                 PROVE  Reaches(orders', x, {s})
      BY DEF NamesLead
    <3>0. slots'[x].take = slots[x].take
      BY <1>2
    <3>1. CASE s # from /\ names'[s] = names[s]
      <4>1. Reaches(orders, x, {s})
        BY <2>1, <3>0, <3>1 DEF NamesLead
      <4>2. \A y \in {s} : y # o.to => (IF y = o.slot THEN o.to ELSE y) \in {s}
        BY <1>3, <3>1
      <4> QED BY <1>1, <1>3, <1>4, <4>1, <4>2, ReachMove
    <3>2. CASE s = to /\ names'[s] = names[from]
      <4>1. Reaches(orders, x, {from})
        BY <2>1, <3>0, <3>2 DEF NamesLead
      <4>2. \A y \in {from} : y # o.to => (IF y = o.slot THEN o.to ELSE y) \in {s}
        BY <1>3, <3>2
      <4> QED BY <1>1, <1>3, <1>4, <4>1, <4>2, ReachMove
    <3> QED BY <1>8, <3>0, <3>1, <3>2
  <2>4. SetsLead'
    <3> SUFFICES ASSUME NEW x \in PanelSlots, NEW k \in Sets,
                        slots'[x].take \in meant'[k], slots'[x].take # NoTake
                 PROVE  Reaches(orders', x, ToSet(chosen'[k]))
      BY DEF SetsLead
    <3>1. Reaches(orders, x, ToSet(chosen[k]))
      BY <1>2, <2>1 DEF SetsLead
    <3>2. \A y \in ToSet(chosen[k]) : y # o.to => (IF y = o.slot THEN o.to ELSE y) \in ToSet(chosen'[k])
      BY <1>3, <1>9
    <3> QED BY <1>1, <1>3, <1>4, <3>1, <3>2, ReachMove
  <2> QED BY <2>2, <2>3, <2>4
<1> QED BY <1>12, <1>13, <1>15, <1>16, <1>17, <1>19 DEF PanelInv

\* The panel reads what there is.
LEMMA DrainKeeps ==
  ASSUME PanelInv, Drain PROVE PanelInv'
<1> DEFINE n == Len(reports)
           last == reports[n]
<1>1. PanelTypes /\ orders \in Seq(OrderSet) /\ reports \in Seq(ReportSet)
      /\ moves \in [sent : Nat, done : Nat, shown : Nat, refused : BOOLEAN]
  BY DEF PanelInv, PanelTypes
<1>2. /\ reports # <<>> /\ cached' = last.modes /\ reports' = <<>>
      /\ moves' = [moves EXCEPT !.shown = last.moved]
      /\ UNCHANGED <<slots, recorder, takes, orders, chosen, names, meant>>
  BY DEF Drain, Last, callbackVars
<1>3. n \in Nat /\ n \in 1..n /\ last \in ReportSet
  BY <1>1, <1>2
<1>4. n \in Views /\ View(n) = last
  BY <1>3 DEF Views, View
<1> HIDE DEF n, last
<1>5. last.moved \in Nat /\ last.modes \in [PanelSlots -> [mode : Modes, take : Nat]]
  BY <1>3 DEF ReportSet
<1>6. /\ moves' \in [sent : Nat, done : Nat, shown : Nat, refused : BOOLEAN]
      /\ moves'.sent = moves.sent /\ moves'.done = moves.done /\ moves'.shown = last.moved
      /\ moves'.refused = moves.refused
  BY <1>1, <1>2, <1>5
<1>7. Views' = {0} /\ View(0)'.modes = last.modes /\ View(0)'.moved = last.moved
  <2>1. Views' = 0..Len(reports') /\ Len(reports') = 0
    BY <1>2 DEF Views
  <2>2. View(0)'.modes = cached' /\ View(0)'.moved = moves'.shown
    BY DEF View
  <2> QED BY <1>2, <1>6, <2>1, <2>2
<1>8. PanelTypes'
  <2>1. reports' \in Seq(ReportSet) /\ cached' \in [PanelSlots -> [mode : Modes, take : Nat]]
    BY <1>2, <1>5
  <2>2. /\ last.moved <= moves.done
        /\ \A s \in PanelSlots : /\ last.modes[s].mode = "Empty" <=> last.modes[s].take = NoTake
                                 /\ last.modes[s].take <= takes
    BY <1>1, <1>4 DEF PanelTypes
  <2>3. \A i \in Views' :
          /\ View(i)'.moved <= moves'.done
          /\ \A s \in PanelSlots :
               /\ View(i)'.modes[s].mode = "Empty" <=> View(i)'.modes[s].take = NoTake
               /\ View(i)'.modes[s].take <= takes'
    BY <1>2, <1>6, <1>7, <2>2
  <2> QED BY <1>1, <1>2, <1>6, <2>1, <2>3 DEF PanelTypes
<1>9. TakesApart'
  BY <1>2 DEF PanelInv, TakesApart
<1>10. ViewsPlace'
  <2> SUFFICES ASSUME last.moved = moves.sent, NEW s \in PanelSlots, NEW x \in PanelSlots,
                      last.modes[s].take = slots[x].take, slots[x].take # NoTake
               PROVE  s = x
    BY <1>2, <1>6, <1>7 DEF ViewsPlace
  <2> QED BY <1>4 DEF PanelInv, ViewsPlace
<1>11. ViewsStay'
  BY <1>2, <1>7 DEF ViewsStay
<1>12. ViewsSee'
  <2> SUFFICES ASSUME NEW x \in PanelSlots, Claimed(slots[x].take, names, meant), last.moved = moves.sent
               PROVE  last.modes[x].take = slots[x].take
    BY <1>2, <1>6, <1>7 DEF ViewsSee
  <2> QED BY <1>4 DEF PanelInv, ViewsSee
<1>13. Between(orders', moves'.done, moves'.sent)
  BY <1>2, <1>6 DEF PanelInv
<1>14. ASSUME ~moves'.refused PROVE ShortStay' /\ NamesLead' /\ SetsLead'
  <2>1. ShortStay /\ NamesLead /\ SetsLead
    BY <1>6, <1>14 DEF PanelInv
  <2>2. ShortStay'
    <3> SUFFICES ASSUME NEW x \in PanelSlots, Claimed(slots'[x].take, names', meant'), ~slots'[x].long
                 PROVE  /\ \A i \in 1..Len(reports') : reports'[i].modes[x].take = slots'[x].take
                        /\ cached'[x].take = slots'[x].take \/ Leaves(orders', x)
                        /\ OutFirst(orders', x)
      BY DEF ShortStay
    <3>1. Claimed(slots[x].take, names, meant) /\ ~slots[x].long /\ slots'[x].take = slots[x].take
      BY <1>2
    <3>2. \A i \in 1..Len(reports) : reports[i].modes[x].take = slots[x].take
      BY <2>1, <3>1 DEF ShortStay
    <3>3. OutFirst(orders, x)
      BY <2>1, <3>1 DEF ShortStay
    <3>4. cached'[x].take = slots[x].take
      BY <1>2, <1>3, <3>2 DEF n, last
    <3>5. Len(reports') = 0
      BY <1>2
    <3> QED BY <1>2, <3>1, <3>3, <3>4, <3>5
  <2>3. NamesLead'
    BY <1>2, <2>1 DEF NamesLead
  <2>4. SetsLead'
    BY <1>2, <2>1 DEF SetsLead
  <2> QED BY <2>2, <2>3, <2>4
<1> QED BY <1>8, <1>9, <1>10, <1>11, <1>12, <1>13, <1>14 DEF PanelInv

\* The callback takes an order that moves nothing, or goes on recording: a take stays where it
\* is, or is gone, or is new.
LEMMA StepKeeps ==
  ASSUME PanelInv, UNCHANGED <<reports, cached, chosen, names, meant, moves>>,
         slots' \in [PanelSlots -> [mode : Modes, long : BOOLEAN, take : Nat]],
         \A s \in PanelSlots : /\ slots'[s].mode = "Empty" <=> slots'[s].take = NoTake
                               /\ slots'[s].long => slots'[s].take # NoTake
                               /\ slots'[s].take <= takes',
         recorder' \in PanelSlots \union {Nowhere}, takes' \in Nat, takes <= takes',
         \A x \in PanelSlots : \/ slots'[x].take = NoTake \/ slots'[x].take > takes
                               \/ slots'[x].take = slots[x].take /\ (slots[x].long => slots'[x].long),
         \A x, y \in PanelSlots : slots'[x].take > takes /\ slots'[x].take = slots'[y].take => x = y,
         \/ orders' = orders
         \/ /\ orders # <<>> /\ orders' = Tail(orders) /\ ~Moving(Head(orders))
            /\ Head(orders).op = "Erase" => slots'[Head(orders).slot].take = NoTake
  PROVE  PanelInv'
<1>1. PanelTypes /\ orders \in Seq(OrderSet) /\ takes \in Nat
  BY DEF PanelInv, PanelTypes
<1>2. orders' \in Seq(OrderSet)
  BY <1>1, Rested
<1>3. \A i : View(i)' = View(i)
  BY DEF View
<1>4. Views' = Views
  BY DEF Views
<1>5. PanelTypes'
  <2>1. \A i \in Views' :
          /\ View(i)'.moved <= moves'.done
          /\ \A s \in PanelSlots :
               /\ View(i)'.modes[s].mode = "Empty" <=> View(i)'.modes[s].take = NoTake
               /\ View(i)'.modes[s].take <= takes'
    <3> SUFFICES ASSUME NEW i \in Views', NEW s \in PanelSlots
                 PROVE  /\ View(i)'.modes[s].mode = "Empty" <=> View(i)'.modes[s].take = NoTake
                        /\ View(i)'.modes[s].take <= takes'
      <4>1. \A i \in Views' : View(i)'.moved <= moves'.done
        BY <1>1, <1>3, <1>4 DEF PanelTypes
      <4> QED BY <4>1
    <3>0. i \in Views /\ View(i)' = View(i)
      BY <1>3, <1>4
    <3>1. View(i).modes[s].take <= takes /\ View(i).modes[s].take \in Nat
      <4>1. View(i).modes \in [PanelSlots -> [mode : Modes, take : Nat]]
        <5>1. CASE i = 0
          BY <1>1, <5>1 DEF View, PanelTypes
        <5>2. CASE i # 0
          <6>1. reports \in Seq(ReportSet) /\ Len(reports) \in Nat /\ i \in 0..Len(reports)
            BY <1>1, <3>0 DEF Views, PanelTypes
          <6>2. i \in 1..Len(reports) /\ View(i) = reports[i]
            BY <5>2, <6>1 DEF View
          <6>3. reports[i] \in ReportSet
            BY <6>1, <6>2
          <6> QED BY <6>2, <6>3 DEF ReportSet
        <5> QED BY <5>1, <5>2
      <4> QED BY <1>1, <3>0, <4>1 DEF PanelTypes
    <3>2. View(i).modes[s].mode = "Empty" <=> View(i).modes[s].take = NoTake
      BY <1>1, <3>0 DEF PanelTypes
    <3> QED BY <1>1, <3>0, <3>1, <3>2
  <2>2. \A s \in PanelSlots : names[s] <= takes'
    BY <1>1 DEF PanelTypes
  <2>3. \A k \in Sets : \A t \in meant[k] : t <= takes'
    BY <1>1 DEF PanelTypes
  <2> QED BY <1>1, <1>2, <2>1, <2>2, <2>3 DEF PanelTypes
\* A take that is old is where it was.
<1>6. ASSUME NEW x \in PanelSlots, slots'[x].take # NoTake, slots'[x].take <= takes
      PROVE  slots'[x].take = slots[x].take /\ (slots[x].long => slots'[x].long)
  <2>1. slots'[x].take \in Nat
    OBVIOUS
  <2> QED BY <1>1, <1>6, <2>1
<1>7. ASSUME NEW x \in PanelSlots, Claimed(slots'[x].take, names, meant)
      PROVE  slots'[x].take # NoTake /\ slots'[x].take <= takes
  BY <1>1, <1>7 DEF Claimed, PanelTypes
<1>8. TakesApart'
  <2> SUFFICES ASSUME NEW x \in PanelSlots, NEW y \in PanelSlots,
                      slots'[x].take = slots'[y].take, slots'[x].take # NoTake
               PROVE  x = y
    BY DEF TakesApart
  <2>1. CASE slots'[x].take > takes
    BY <2>1
  <2>2. CASE ~(slots'[x].take > takes)
    <3>1. slots'[x].take <= takes /\ slots'[y].take <= takes /\ slots'[y].take # NoTake
      BY <1>1, <2>2
    <3>2. slots'[x].take = slots[x].take /\ slots'[y].take = slots[y].take
      BY <1>6, <3>1
    <3>3. slots[x].take = slots[y].take /\ slots[x].take # NoTake
      BY <3>2
    <3> QED BY <3>3 DEF PanelInv, TakesApart
  <2> QED BY <2>1, <2>2
\* And what is shown is old.
<1>9. \A i \in Views : \A s \in PanelSlots : View(i).modes[s].take <= takes
  BY <1>1 DEF PanelTypes
<1>10. ViewsPlace'
  <2> SUFFICES ASSUME NEW i \in Views',
                      View(i)'.moved = moves'.sent, NEW s \in PanelSlots, NEW x \in PanelSlots,
                      View(i)'.modes[s].take = slots'[x].take, slots'[x].take # NoTake
               PROVE  s = x
    BY DEF ViewsPlace
  <2>1. i \in Views /\ View(i).moved = moves.sent /\ View(i).modes[s].take = slots'[x].take
    BY <1>3, <1>4
  <2>2. slots'[x].take = slots[x].take
    BY <1>6, <1>9, <2>1
  <2> QED BY <2>1, <2>2 DEF PanelInv, ViewsPlace
<1>11. ViewsStay'
  <2> SUFFICES ASSUME moves'.shown = moves'.sent, NEW x \in PanelSlots, cached'[x].take = slots'[x].take,
                      slots'[x].take # NoTake, NEW i \in Views'
               PROVE  View(i)'.modes[x].take = slots'[x].take
    BY DEF ViewsStay
  <2>1. i \in Views /\ View(i)' = View(i) /\ cached[x].take = slots'[x].take /\ moves.shown = moves.sent
    BY <1>3, <1>4
  <2>2. 0 \in Views /\ View(0).modes = cached
    BY <1>1 DEF Views, View, PanelTypes
  <2>3. slots'[x].take = slots[x].take
    BY <1>6, <1>9, <2>1, <2>2
  <2>4. View(i).modes[x].take = slots[x].take
    BY <2>1, <2>3 DEF PanelInv, ViewsStay
  <2> QED BY <2>1, <2>3, <2>4
<1>12. ViewsSee'
  <2> SUFFICES ASSUME NEW x \in PanelSlots, Claimed(slots'[x].take, names', meant'),
                      NEW i \in Views', View(i)'.moved = moves'.sent
               PROVE  View(i)'.modes[x].take = slots'[x].take
    BY DEF ViewsSee
  <2>1. /\ i \in Views /\ View(i)' = View(i) /\ View(i).moved = moves.sent
        /\ Claimed(slots'[x].take, names, meant)
    BY <1>3, <1>4
  <2>2. slots'[x].take = slots[x].take
    BY <1>6, <1>7, <2>1
  <2>3. View(i).modes[x].take = slots[x].take
    BY <2>1, <2>2 DEF PanelInv, ViewsSee
  <2> QED BY <2>1, <2>2, <2>3
<1>13. Between(orders', moves'.done, moves'.sent)
  <2>1. CASE orders' = orders
    BY <2>1 DEF PanelInv
  <2>2. CASE orders # <<>> /\ orders' = Tail(orders) /\ ~Moving(Head(orders))
    BY <1>1, <2>2, BetweenRest DEF PanelInv
  <2> QED BY <2>1, <2>2
<1>14. ASSUME NEW x \in PanelSlots, slots'[x].take # NoTake, NEW P, Reaches(orders, x, P)
       PROVE  Reaches(orders', x, P)
  <2>1. CASE orders' = orders
    BY <1>14, <2>1
  <2>2. CASE /\ orders # <<>> /\ orders' = Tail(orders) /\ ~Moving(Head(orders))
             /\ Head(orders).op = "Erase" => slots'[Head(orders).slot].take = NoTake
    <3>1. Carries(Head(orders), x, x)
      BY <1>14, <2>2 DEF Carries
    <3> QED BY <1>1, <1>14, <2>2, <3>1, ReachRest
  <2> QED BY <2>1, <2>2
<1>15. ASSUME NEW x \in PanelSlots
       PROVE  /\ OutFirst(orders, x) => OutFirst(orders', x)
              /\ Leaves(orders, x) => Leaves(orders', x)
  BY <1>1, OutRest
<1>16. ASSUME ~moves'.refused PROVE ShortStay' /\ NamesLead' /\ SetsLead'
  <2>1. ShortStay /\ NamesLead /\ SetsLead
    BY <1>16 DEF PanelInv
  <2>2. ShortStay'
    <3> SUFFICES ASSUME NEW x \in PanelSlots, Claimed(slots'[x].take, names', meant'), ~slots'[x].long
                 PROVE  /\ \A i \in 1..Len(reports') : reports'[i].modes[x].take = slots'[x].take
                        /\ cached'[x].take = slots'[x].take \/ Leaves(orders', x)
                        /\ OutFirst(orders', x)
      BY DEF ShortStay
    <3>1. slots'[x].take = slots[x].take /\ ~slots[x].long /\ Claimed(slots[x].take, names, meant)
      BY <1>6, <1>7
    <3>2. /\ \A i \in 1..Len(reports) : reports[i].modes[x].take = slots[x].take
          /\ cached[x].take = slots[x].take \/ Leaves(orders, x)
          /\ OutFirst(orders, x)
      BY <2>1, <3>1 DEF ShortStay
    <3> QED BY <1>15, <3>1, <3>2
  <2>3. NamesLead'
    <3> SUFFICES ASSUME NEW x \in PanelSlots, NEW s \in PanelSlots,
                        names'[s] = slots'[x].take, slots'[x].take # NoTake
                 PROVE  Reaches(orders', x, {s})
      BY DEF NamesLead
    <3>1. slots'[x].take = slots[x].take
      <4>1. Claimed(slots'[x].take, names, meant)
        BY DEF Claimed
      <4> QED BY <1>6, <1>7, <4>1
    <3>2. Reaches(orders, x, {s})
      BY <2>1, <3>1 DEF NamesLead
    <3> QED BY <1>14, <3>2
  <2>4. SetsLead'
    <3> SUFFICES ASSUME NEW x \in PanelSlots, NEW k \in Sets,
                        slots'[x].take \in meant'[k], slots'[x].take # NoTake
                 PROVE  Reaches(orders', x, ToSet(chosen'[k]))
      BY DEF SetsLead
    <3>1. slots'[x].take = slots[x].take
      <4>1. Claimed(slots'[x].take, names, meant)
        BY DEF Claimed
      <4> QED BY <1>6, <1>7, <4>1
    <3>2. Reaches(orders, x, ToSet(chosen[k]))
      BY <2>1, <3>1 DEF SetsLead
    <3> QED BY <1>14, <3>2
  <2> QED BY <2>2, <2>3, <2>4
<1> QED BY <1>5, <1>8, <1>10, <1>11, <1>12, <1>13, <1>16 DEF PanelInv

\* The callback answers.
LEMMA SnapKeeps ==
  ASSUME PanelInv, orders # <<>>, ~Moving(Head(orders)), Head(orders).op = "RequestSnapshot",
         orders' = Tail(orders), reports' = Append(reports, Snapshot),
         UNCHANGED <<slots, recorder, takes, cached, chosen, names, meant, moves>>
  PROVE  PanelInv'
<1>1. /\ PanelTypes /\ orders \in Seq(OrderSet) /\ reports \in Seq(ReportSet)
      /\ TakesApart /\ ViewsPlace /\ ViewsStay /\ ViewsSee
  BY DEF PanelInv, PanelTypes
<1>0. PICK n \in Nat : n = Len(reports)
  BY <1>1
<1>2. orders' \in Seq(OrderSet)
  BY <1>1, Rested
<1>3. /\ Snapshot \in ReportSet /\ Snapshot.moved = moves.done
      /\ \A s \in PanelSlots : /\ Snapshot.modes[s].mode = slots[s].mode
                               /\ Snapshot.modes[s].take = slots[s].take
  <2>1. moves.done \in Nat /\ slots \in [PanelSlots -> [mode : Modes, long : BOOLEAN, take : Nat]]
    BY <1>1 DEF PanelTypes
  <2>2. Shown \in [PanelSlots -> [mode : Modes, take : Nat]]
    BY <2>1 DEF Shown
  <2>3. \A s \in PanelSlots : Shown[s].mode = slots[s].mode /\ Shown[s].take = slots[s].take
    BY DEF Shown
  <2> QED BY <2>1, <2>2, <2>3 DEF Snapshot, ReportSet
<1>4. /\ n \in Nat /\ reports' \in Seq(ReportSet) /\ Len(reports') = n + 1
      /\ (\A i \in 1..n : reports'[i] = reports[i]) /\ reports'[n + 1] = Snapshot
  <2> DEFINE snap == Snapshot
  <2>1. snap \in ReportSet
    BY <1>3
  <2> HIDE DEF snap
  <2>2. /\ Append(reports, snap) \in Seq(ReportSet) /\ Len(Append(reports, snap)) = Len(reports) + 1
        /\ \A i \in 1..Len(reports) : Append(reports, snap)[i] = reports[i]
        /\ Append(reports, snap)[Len(reports) + 1] = snap
    BY <1>1, <2>1, AppendProperties
  <2> QED BY <1>0, <1>1, <2>2 DEF snap
<1>5. /\ \A i \in Views' : i = n + 1 \/ i \in Views
      /\ \A i \in Views : View(i)' = View(i)
      /\ View(n + 1)' = Snapshot
  <2>1. Views = 0..n /\ Views' = 0..(n + 1)
    BY <1>0, <1>4 DEF Views
  <2>2. \A i \in 0..(n + 1) : i = n + 1 \/ i \in 0..n
    BY <1>4
  <2>3. \A i \in 0..n : i # 0 => i \in 1..n
    BY <1>4
  <2>4. View(0)' = View(0)
    BY DEF View
  <2>5. \A i \in 1..n : View(i)' = reports'[i] /\ View(i) = reports[i]
    BY <1>4 DEF View
  <2>6. n + 1 # 0
    BY <1>4
  <2>7. View(n + 1)' = reports'[n + 1]
    BY <2>6 DEF View
  <2> QED BY <1>4, <2>1, <2>2, <2>3, <2>4, <2>5, <2>7
<1>6. PanelTypes'
  <2>1. moves.done <= moves.done
    BY <1>1 DEF PanelTypes
  <2>2. \A i \in Views' : View(i)'.moved <= moves'.done
    BY <1>1, <1>3, <1>5, <2>1 DEF PanelTypes
  <2>3. \A i \in Views' : \A s \in PanelSlots :
          /\ View(i)'.modes[s].mode = "Empty" <=> View(i)'.modes[s].take = NoTake
          /\ View(i)'.modes[s].take <= takes'
    <3> SUFFICES ASSUME NEW i \in Views', NEW s \in PanelSlots
                 PROVE  /\ View(i)'.modes[s].mode = "Empty" <=> View(i)'.modes[s].take = NoTake
                        /\ View(i)'.modes[s].take <= takes'
      OBVIOUS
    <3>1. CASE i = n + 1
      BY <1>1, <1>3, <1>5, <3>1 DEF PanelTypes
    <3>2. CASE i \in Views
      <4>1. /\ View(i).modes[s].mode = "Empty" <=> View(i).modes[s].take = NoTake
            /\ View(i).modes[s].take <= takes
        BY <1>1, <3>2 DEF PanelTypes
      <4> QED BY <1>5, <3>2, <4>1
    <3> QED BY <1>5, <3>1, <3>2
  <2> QED BY <1>1, <1>2, <1>4, <2>2, <2>3 DEF PanelTypes
<1>7. TakesApart'
  BY <1>1 DEF TakesApart
<1>8. ViewsPlace'
  <2> SUFFICES ASSUME NEW i \in Views',
                      View(i)'.moved = moves'.sent, NEW s \in PanelSlots, NEW x \in PanelSlots,
                      View(i)'.modes[s].take = slots'[x].take, slots'[x].take # NoTake
               PROVE  s = x
    BY DEF ViewsPlace
  <2>1. CASE i = n + 1
    <3>1. slots[s].take = slots[x].take /\ slots[x].take # NoTake
      BY <1>3, <1>5, <2>1
    <3> QED BY <1>1, <3>1 DEF TakesApart
  <2>2. CASE i \in Views
    BY <1>1, <1>5, <2>2 DEF ViewsPlace
  <2> QED BY <1>5, <2>1, <2>2
<1>9. ViewsStay'
  <2> SUFFICES ASSUME moves'.shown = moves'.sent, NEW x \in PanelSlots, cached'[x].take = slots'[x].take,
                      slots'[x].take # NoTake, NEW i \in Views'
               PROVE  View(i)'.modes[x].take = slots'[x].take
    BY DEF ViewsStay
  <2>1. CASE i = n + 1
    BY <1>3, <1>5, <2>1
  <2>2. CASE i \in Views
    BY <1>1, <1>5, <2>2 DEF ViewsStay
  <2> QED BY <1>5, <2>1, <2>2
<1>10. ViewsSee'
  <2> SUFFICES ASSUME NEW x \in PanelSlots, Claimed(slots'[x].take, names', meant'),
                      NEW i \in Views', View(i)'.moved = moves'.sent
               PROVE  View(i)'.modes[x].take = slots'[x].take
    BY DEF ViewsSee
  <2>0. Claimed(slots[x].take, names, meant)
    OBVIOUS
  <2>1. CASE i = n + 1
    BY <1>3, <1>5, <2>1
  <2>2. CASE i \in Views
    BY <1>1, <1>5, <2>0, <2>2 DEF ViewsSee
  <2> QED BY <1>5, <2>1, <2>2
<1>11. Between(orders', moves'.done, moves'.sent)
  BY <1>1, BetweenRest DEF PanelInv
<1>12. ASSUME NEW x \in PanelSlots, NEW P, Reaches(orders, x, P) PROVE Reaches(orders', x, P)
  <2>1. Carries(Head(orders), x, x)
    BY DEF Carries
  <2> QED BY <1>1, <1>12, <2>1, ReachRest
<1>13. ASSUME NEW x \in PanelSlots
       PROVE  /\ OutFirst(orders, x) => OutFirst(orders', x)
              /\ Leaves(orders, x) => Leaves(orders', x)
  BY <1>1, OutRest
<1>14. ASSUME ~moves'.refused PROVE ShortStay' /\ NamesLead' /\ SetsLead'
  <2>1. ShortStay /\ NamesLead /\ SetsLead
    BY <1>14 DEF PanelInv
  <2>2. ShortStay'
    <3> SUFFICES ASSUME NEW x \in PanelSlots, Claimed(slots'[x].take, names', meant'), ~slots'[x].long
                 PROVE  /\ \A i \in 1..Len(reports') : reports'[i].modes[x].take = slots'[x].take
                        /\ cached'[x].take = slots'[x].take \/ Leaves(orders', x)
                        /\ OutFirst(orders', x)
      BY DEF ShortStay
    <3>1. ~slots[x].long /\ Claimed(slots[x].take, names, meant)
      OBVIOUS
    <3>2. /\ \A i \in 1..Len(reports) : reports[i].modes[x].take = slots[x].take
          /\ cached[x].take = slots[x].take \/ Leaves(orders, x)
          /\ OutFirst(orders, x)
      BY <2>1, <3>1 DEF ShortStay
    <3>3. ASSUME NEW i \in 1..Len(reports') PROVE reports'[i].modes[x].take = slots[x].take
      <4>1. i = n + 1 \/ i \in 1..n
        BY <1>4
      <4> QED BY <1>0, <1>3, <1>4, <3>2, <4>1
    <3> QED BY <1>13, <3>2, <3>3
  <2>3. NamesLead'
    <3> SUFFICES ASSUME NEW x \in PanelSlots, NEW s \in PanelSlots,
                        names[s] = slots[x].take, slots[x].take # NoTake
                 PROVE  Reaches(orders', x, {s})
      BY DEF NamesLead
    <3> QED BY <1>12, <2>1 DEF NamesLead
  <2>4. SetsLead'
    <3> SUFFICES ASSUME NEW x \in PanelSlots, NEW k \in Sets,
                        slots[x].take \in meant[k], slots[x].take # NoTake
                 PROVE  Reaches(orders', x, ToSet(chosen[k]))
      BY DEF SetsLead
    <3> QED BY <1>12, <2>1 DEF SetsLead
  <2> QED BY <2>2, <2>3, <2>4
<1> QED BY <1>6, <1>7, <1>8, <1>9, <1>10, <1>11, <1>14 DEF PanelInv

\* The callback takes a move, and refuses it or swaps the loop with what is in its way: a slot
\* with nothing the player named or selected, for that stays out of the way of moves.
LEMMA SwapKeeps ==
  ASSUME PanelInv, orders # <<>>, NEW c, c = Head(orders), Moving(c), orders' = Tail(orders),
         UNCHANGED <<reports, cached, chosen, names, meant, takes>>,
         NEW refused \in BOOLEAN,
         refused = (c.slot = c.to \/ ~slots[c.slot].long \/ slots[c.to].long),
         slots' = IF refused THEN slots ELSE Swap(slots, c.slot, c.to),
         recorder' \in PanelSlots \union {Nowhere},
         moves' = [moves EXCEPT !.done = @ + 1, !.refused = @ \/ refused]
  PROVE  PanelInv'
<1>1. /\ PanelTypes /\ orders \in Seq(OrderSet)
      /\ slots \in [PanelSlots -> [mode : Modes, long : BOOLEAN, take : Nat]]
      /\ moves \in [sent : Nat, done : Nat, shown : Nat, refused : BOOLEAN]
  BY DEF PanelInv, PanelTypes
<1>2. orders' \in Seq(OrderSet) /\ c \in OrderSet /\ c.slot \in PanelSlots /\ c.to \in PanelSlots
  <2>1. orders' \in Seq(OrderSet) /\ c \in OrderSet
    BY <1>1, Rested
  <2> QED BY <2>1, OrderIs
<1>3. /\ moves' \in [sent : Nat, done : Nat, shown : Nat, refused : BOOLEAN]
      /\ moves'.sent = moves.sent /\ moves'.done = moves.done + 1 /\ moves'.shown = moves.shown
      /\ moves'.refused = (moves.refused \/ refused)
  <2>1. moves' = [moves EXCEPT !.done = moves.done + 1, !.refused = moves.refused \/ refused]
    OBVIOUS
  <2>2. moves.done + 1 \in Nat /\ (moves.refused \/ refused) \in BOOLEAN
    BY <1>1
  <2> QED BY ONLY <1>1, <2>1, <2>2
<1>4. ASSUME ~refused
      PROVE  /\ slots' \in [PanelSlots -> [mode : Modes, long : BOOLEAN, take : Nat]]
             /\ c.slot # c.to /\ slots[c.slot].long /\ ~slots[c.to].long
             /\ slots'[c.slot] = slots[c.to] /\ slots'[c.to] = slots[c.slot]
             /\ \A x \in PanelSlots : x # c.slot /\ x # c.to => slots'[x] = slots[x]
  <2> DEFINE w == Swap(slots, c.slot, c.to)
  <2>1. c.slot # c.to /\ slots[c.slot].long /\ ~slots[c.to].long
    BY <1>4
  <2>2. /\ w \in [PanelSlots -> [mode : Modes, long : BOOLEAN, take : Nat]]
        /\ w[c.slot] = slots[c.to] /\ w[c.to] = slots[c.slot]
        /\ \A x \in PanelSlots : x # c.slot /\ x # c.to => w[x] = slots[x]
    BY <1>1, <1>2, <2>1 DEF Swap
  <2> QED BY <1>4, <2>1, <2>2
<1>5. slots' \in [PanelSlots -> [mode : Modes, long : BOOLEAN, take : Nat]]
  BY <1>1, <1>4
\* Where a loop comes from.
<1>6. \A x \in PanelSlots : \E y \in PanelSlots : slots'[x] = slots[y]
  <2>1. CASE refused
    BY <2>1
  <2>2. CASE ~refused
    BY <1>2, <1>4, <2>2
  <2> QED BY <2>1, <2>2
<1>7. Between(orders', moves'.done, moves'.sent)
  BY <1>1, <1>3, BetweenRest DEF PanelInv
<1>8. moves.done + 1 <= moves.sent /\ moves.done \in Nat /\ moves.sent \in Nat
  BY <1>1, <1>2, <1>3, <1>7, BetweenNone
<1>9. Views' = Views /\ (\A i : View(i)'.modes = View(i).modes) /\ \A i : View(i)'.moved = View(i).moved
  BY <1>3 DEF Views, View
<1>10. \A i \in Views : View(i).moved \in Nat /\ View(i).moved <= moves.done
  <2>1. \A i \in Views : i # 0 => View(i) = reports[i] /\ reports[i] \in ReportSet
    BY <1>1 DEF Views, View, PanelTypes
  <2>2. View(0).moved \in Nat
    BY <1>1 DEF View
  <2> QED BY <1>1, <2>1, <2>2 DEF PanelTypes, ReportSet
<1>11. PanelTypes'
  <2>1. \A i \in Views' : View(i)'.moved <= moves'.done
    BY <1>3, <1>8, <1>9, <1>10
  <2>2. \A i \in Views' : \A s \in PanelSlots :
          /\ View(i)'.modes[s].mode = "Empty" <=> View(i)'.modes[s].take = NoTake
          /\ View(i)'.modes[s].take <= takes'
    <3> SUFFICES ASSUME NEW i \in Views', NEW s \in PanelSlots
                 PROVE  /\ View(i)'.modes[s].mode = "Empty" <=> View(i)'.modes[s].take = NoTake
                        /\ View(i)'.modes[s].take <= takes'
      OBVIOUS
    <3>1. i \in Views /\ View(i)'.modes = View(i).modes
      BY <1>9
    <3>2. /\ View(i).modes[s].mode = "Empty" <=> View(i).modes[s].take = NoTake
          /\ View(i).modes[s].take <= takes
      BY <1>1, <3>1 DEF PanelTypes
    <3> QED BY <3>1, <3>2
  <2>3. \A s \in PanelSlots : /\ slots'[s].mode = "Empty" <=> slots'[s].take = NoTake
                              /\ slots'[s].long => slots'[s].take # NoTake
                              /\ slots'[s].take <= takes'
    <3> SUFFICES ASSUME NEW s \in PanelSlots
                 PROVE  /\ slots'[s].mode = "Empty" <=> slots'[s].take = NoTake
                        /\ slots'[s].long => slots'[s].take # NoTake
                        /\ slots'[s].take <= takes
      OBVIOUS
    <3>1. PICK y \in PanelSlots : slots'[s] = slots[y]
      BY <1>6
    <3>2. /\ slots[y].mode = "Empty" <=> slots[y].take = NoTake
          /\ slots[y].long => slots[y].take # NoTake
          /\ slots[y].take <= takes
      BY <1>1 DEF PanelTypes
    <3> QED BY <3>1, <3>2
  <2> QED BY <1>1, <1>2, <1>3, <1>5, <2>1, <2>2, <2>3 DEF PanelTypes
<1>12. TakesApart'
  <2>0. TakesApart
    BY DEF PanelInv
  <2>1. CASE refused
    BY <2>0, <2>1 DEF TakesApart
  <2>2. CASE ~refused
    <3> SUFFICES ASSUME NEW x \in PanelSlots, NEW y \in PanelSlots,
                        slots'[x].take = slots'[y].take, slots'[x].take # NoTake
                 PROVE  x = y
      BY DEF TakesApart
    <3> DEFINE Source(z) == IF z = c.slot THEN c.to ELSE IF z = c.to THEN c.slot ELSE z
    <3>1. \A z \in PanelSlots : slots'[z] = slots[Source(z)] /\ Source(z) \in PanelSlots
      BY <1>2, <1>4, <2>2
    <3>2. \A v, z \in PanelSlots : Source(v) = Source(z) => v = z
      BY <1>2
    <3> HIDE DEF Source
    <3>3. slots[Source(x)].take = slots[Source(y)].take /\ slots[Source(x)].take # NoTake
      BY <3>1
    <3>4. Source(x) = Source(y)
      BY <2>0, <3>1, <3>3 DEF TakesApart
    <3> QED BY <3>2, <3>4
  <2> QED BY <2>1, <2>2
<1>13. \A i \in Views' : View(i)'.moved # moves'.sent
  BY <1>3, <1>8, <1>9, <1>10
<1>14. ViewsPlace' /\ ViewsSee'
  BY <1>13 DEF ViewsPlace, ViewsSee
<1>15. ViewsStay'
  <2>1. 0 \in Views' /\ View(0)'.moved = moves'.shown
    BY <1>1, <1>9 DEF Views, View, PanelTypes
  <2> QED BY <1>13, <2>1 DEF ViewsStay
<1>16. ASSUME ~moves'.refused PROVE ShortStay' /\ NamesLead' /\ SetsLead'
  <2>1. ~refused /\ ShortStay /\ NamesLead /\ SetsLead
    BY <1>3, <1>16 DEF PanelInv
  <2>2. ~Claimed(slots[c.to].take, names, meant)
    <3> SUFFICES ASSUME Claimed(slots[c.to].take, names, meant) PROVE FALSE
      OBVIOUS
    <3>1. OutFirst(orders, c.to)
      BY <1>2, <1>4, <2>1 DEF ShortStay
    <3>2. c = orders[1] /\ 1 \in DOMAIN orders
      BY <1>1, Rested
    <3>3. \E j \in 1..(1 - 1) : Moving(orders[j]) /\ orders[j].slot = c.to
      BY <3>1, <3>2 DEF OutFirst
    <3> QED BY <3>3
  \* What is claimed was where the move takes it from, or stays.
  <2>3. ASSUME NEW x \in PanelSlots, Claimed(slots'[x].take, names, meant)
        PROVE  \/ x = c.to /\ slots'[x] = slots[c.slot] /\ slots[c.slot].long /\ Carries(c, c.slot, x)
               \/ x # c.to /\ x # c.slot /\ slots'[x] = slots[x] /\ Carries(c, x, x)
    <3>1. x # c.slot
      BY <1>4, <2>1, <2>2, <2>3
    <3>2. CASE x = c.to
      BY <1>4, <2>1, <3>2 DEF Carries
    <3>3. CASE x # c.to
      BY <1>4, <2>1, <3>1, <3>3 DEF Carries
    <3> QED BY <3>2, <3>3
  <2>4. ShortStay'
    <3> SUFFICES ASSUME NEW x \in PanelSlots, Claimed(slots'[x].take, names', meant'), ~slots'[x].long
                 PROVE  /\ \A i \in 1..Len(reports') : reports'[i].modes[x].take = slots'[x].take
                        /\ cached'[x].take = slots'[x].take \/ Leaves(orders', x)
                        /\ OutFirst(orders', x)
      BY DEF ShortStay
    <3>1. x # c.to /\ x # c.slot /\ slots'[x] = slots[x] /\ Claimed(slots[x].take, names, meant)
      BY <2>3
    <3>2. /\ \A i \in 1..Len(reports) : reports[i].modes[x].take = slots[x].take
          /\ cached[x].take = slots[x].take \/ Leaves(orders, x)
          /\ OutFirst(orders, x)
      BY <2>1, <3>1 DEF ShortStay
    <3>3. /\ OutFirst(orders, x) => OutFirst(orders', x)
          /\ Leaves(orders, x) => Leaves(orders', x)
      BY <1>1, <3>1, OutRest
    <3> QED BY <3>1, <3>2, <3>3
  <2>5. NamesLead'
    <3> SUFFICES ASSUME NEW x \in PanelSlots, NEW s \in PanelSlots,
                        names[s] = slots'[x].take, slots'[x].take # NoTake
                 PROVE  Reaches(orders', x, {s})
      BY DEF NamesLead
    <3>1. Claimed(slots'[x].take, names, meant)
      BY DEF Claimed
    <3>2. PICK y \in PanelSlots : slots'[x] = slots[y] /\ Carries(c, y, x)
      BY <1>2, <2>3, <3>1
    <3>3. Reaches(orders, y, {s})
      BY <2>1, <3>2 DEF NamesLead
    <3> QED BY <1>1, <3>2, <3>3, ReachRest
  <2>6. SetsLead'
    <3> SUFFICES ASSUME NEW x \in PanelSlots, NEW k \in Sets,
                        slots'[x].take \in meant[k], slots'[x].take # NoTake
                 PROVE  Reaches(orders', x, ToSet(chosen[k]))
      BY DEF SetsLead
    <3>1. Claimed(slots'[x].take, names, meant)
      BY DEF Claimed
    <3>2. PICK y \in PanelSlots : slots'[x] = slots[y] /\ Carries(c, y, x)
      BY <1>2, <2>3, <3>1
    <3>3. Reaches(orders, y, ToSet(chosen[k]))
      BY <2>1, <3>2 DEF SetsLead
    <3> QED BY <1>1, <3>2, <3>3, ReachRest
  <2> QED BY <2>4, <2>5, <2>6
<1> QED BY <1>7, <1>11, <1>12, <1>14, <1>15, <1>16 DEF PanelInv

--------------------------------------------------------------------------
(* The panel of loops: the actions                                         *)

\* What stop_recording leaves.
LEMMA StoppedIs ==
  ASSUME PanelTypes
  PROVE  /\ Stopped \in [PanelSlots -> [mode : Modes, long : BOOLEAN, take : Nat]]
         /\ \A x \in PanelSlots :
              /\ Stopped[x].mode = "Empty" <=> Stopped[x].take = NoTake
              /\ Stopped[x].long => Stopped[x].take # NoTake
              /\ \/ Stopped[x] = Vacant
                 \/ Stopped[x].take = slots[x].take /\ Stopped[x].long = slots[x].long
<1>1. /\ slots \in [PanelSlots -> [mode : Modes, long : BOOLEAN, take : Nat]]
      /\ \A s \in PanelSlots : /\ slots[s].mode = "Empty" <=> slots[s].take = NoTake
                               /\ slots[s].long => slots[s].take # NoTake
      /\ recorder \in PanelSlots \union {Nowhere}
  BY DEF PanelTypes
<1>2. Vacant \in [mode : Modes, long : BOOLEAN, take : Nat] /\ Vacant.mode = "Empty" /\ Vacant.take = NoTake
      /\ ~Vacant.long
  BY DEF Vacant, Modes, NoTake
<1>3. CASE recorder = Nowhere
  BY <1>1, <1>3 DEF Stopped
<1>4. CASE recorder # Nowhere /\ slots[recorder].long
  <2> DEFINE r == [slots[recorder] EXCEPT !.mode = "Playing"]
  <2>1. /\ r \in [mode : Modes, long : BOOLEAN, take : Nat] /\ r.mode = "Playing"
        /\ r.take = slots[recorder].take /\ r.long = slots[recorder].long
    BY <1>1, <1>4 DEF Modes
  <2>2. Stopped = [slots EXCEPT ![recorder] = r]
    BY <1>4 DEF Stopped
  <2> HIDE DEF r
  <2>3. r.take # NoTake
    BY <1>1, <1>4, <2>1
  <2> QED BY <1>1, <1>4, <2>1, <2>2, <2>3
<1>5. CASE recorder # Nowhere /\ ~slots[recorder].long
  <2>1. Stopped = [slots EXCEPT ![recorder] = Vacant]
    BY <1>5 DEF Stopped
  <2> QED BY <1>1, <1>2, <1>5, <2>1
<1> QED BY <1>3, <1>4, <1>5

\* One slot of a map of loops put in order.
LEMMA Placed ==
  ASSUME NEW f \in [PanelSlots -> [mode : Modes, long : BOOLEAN, take : Nat]], NEW s \in PanelSlots,
         NEW r \in [mode : Modes, long : BOOLEAN, take : Nat]
  PROVE  /\ [f EXCEPT ![s] = r] \in [PanelSlots -> [mode : Modes, long : BOOLEAN, take : Nat]]
         /\ [f EXCEPT ![s] = r][s] = r /\ \A x \in PanelSlots : x # s => [f EXCEPT ![s] = r][x] = f[x]
  OBVIOUS

\* What the callback may make of the loops of others.
Steady(f, g) ==
  /\ g \in [PanelSlots -> [mode : Modes, long : BOOLEAN, take : Nat]]
  /\ \A x \in PanelSlots :
       /\ g[x].mode = "Empty" <=> g[x].take = NoTake
       /\ g[x].long => g[x].take # NoTake
       /\ g[x].take = NoTake \/ (g[x].take = f[x].take /\ (f[x].long => g[x].long))

\* Such a step, with an order or without one.
LEMMA SteadyKeeps ==
  ASSUME PanelInv, Steady(slots, slots'), recorder' \in PanelSlots \union {Nowhere}, takes' = takes,
         UNCHANGED <<reports, cached, chosen, names, meant, moves>>,
         \/ orders' = orders
         \/ /\ orders # <<>> /\ orders' = Tail(orders) /\ ~Moving(Head(orders))
            /\ Head(orders).op = "Erase" => slots'[Head(orders).slot].take = NoTake
  PROVE  PanelInv'
<1>1. /\ slots \in [PanelSlots -> [mode : Modes, long : BOOLEAN, take : Nat]] /\ takes \in Nat
      /\ \A s \in PanelSlots : slots[s].take <= takes
  BY DEF PanelInv, PanelTypes
<1>2. /\ slots' \in [PanelSlots -> [mode : Modes, long : BOOLEAN, take : Nat]]
      /\ \A x \in PanelSlots :
           /\ slots'[x].mode = "Empty" <=> slots'[x].take = NoTake
           /\ slots'[x].long => slots'[x].take # NoTake
           /\ slots'[x].take = NoTake \/ (slots'[x].take = slots[x].take /\ (slots[x].long => slots'[x].long))
  BY DEF Steady
<1>3. \A x \in PanelSlots : slots'[x].take <= takes /\ ~(slots'[x].take > takes)
  <2> SUFFICES ASSUME NEW x \in PanelSlots PROVE slots'[x].take <= takes /\ ~(slots'[x].take > takes)
    OBVIOUS
  <2>1. slots'[x].take \in Nat /\ slots[x].take \in Nat /\ slots[x].take <= takes
    BY <1>1, <1>2
  <2>2. slots'[x].take = 0 \/ slots'[x].take = slots[x].take
    BY <1>2 DEF NoTake
  <2> QED BY <1>1, <2>1, <2>2
<1>4. takes' \in Nat /\ takes <= takes'
  BY <1>1
<1> QED BY <1>2, <1>3, <1>4, StepKeeps

LEMMA SteadyStopped ==
  ASSUME PanelTypes PROVE Steady(slots, Stopped) /\ Steady(slots, slots)
<1>1. Steady(slots, Stopped)
  <2>1. Vacant.mode = "Empty" /\ Vacant.take = NoTake /\ ~Vacant.long
    BY DEF Vacant
  <2> QED BY <2>1, StoppedIs DEF Steady
<1>2. Steady(slots, slots)
  BY DEF Steady, PanelTypes
<1> QED BY <1>1, <1>2

\* A recording has a new take.
LEMMA RecordKeeps ==
  ASSUME PanelInv, orders # <<>>, NEW c, c = Head(orders), c.op = "Record", orders' = Tail(orders),
         slots' = [Stopped EXCEPT ![c.slot] = [mode |-> "Recording", long |-> FALSE, take |-> takes + 1]],
         recorder' = c.slot, takes' = takes + 1,
         UNCHANGED <<reports, cached, chosen, names, meant, moves>>
  PROVE  PanelInv'
<1> DEFINE r == [mode |-> "Recording", long |-> FALSE, take |-> takes + 1]
<1>1. /\ PanelTypes /\ orders \in Seq(OrderSet) /\ takes \in Nat
      /\ \A x \in PanelSlots : slots[x].take <= takes /\ slots[x].take \in Nat
  BY DEF PanelInv, PanelTypes
<1>2. c.slot \in PanelSlots /\ ~Moving(c) /\ c.op # "Erase"
  <2>1. c \in OrderSet
    BY <1>1, Rested
  <2> QED BY <2>1, OrderIs DEF Moving
<1>3. /\ r \in [mode : Modes, long : BOOLEAN, take : Nat]
      /\ r.mode = "Recording" /\ ~r.long /\ r.take = takes + 1
  BY <1>1 DEF Modes
<1>4. slots' = [Stopped EXCEPT ![c.slot] = r]
  OBVIOUS
<1> HIDE DEF r
<1> DEFINE f == Stopped
<1>5. /\ f \in [PanelSlots -> [mode : Modes, long : BOOLEAN, take : Nat]]
      /\ \A x \in PanelSlots :
           /\ f[x].mode = "Empty" <=> f[x].take = NoTake
           /\ f[x].long => f[x].take # NoTake
           /\ f[x].take = NoTake \/ (f[x].take = slots[x].take /\ (slots[x].long => f[x].long))
  BY <1>1, SteadyStopped DEF Steady
<1>6. slots' = [f EXCEPT ![c.slot] = r]
  BY <1>4
<1> HIDE DEF f
<1>7. /\ slots' \in [PanelSlots -> [mode : Modes, long : BOOLEAN, take : Nat]]
      /\ slots'[c.slot] = r /\ \A x \in PanelSlots : x # c.slot => slots'[x] = f[x]
  <2>1. /\ [f EXCEPT ![c.slot] = r] \in [PanelSlots -> [mode : Modes, long : BOOLEAN, take : Nat]]
        /\ [f EXCEPT ![c.slot] = r][c.slot] = r
        /\ \A x \in PanelSlots : x # c.slot => [f EXCEPT ![c.slot] = r][x] = f[x]
    BY ONLY <1>2, <1>3, <1>5, Placed
  <2> QED BY ONLY <1>6, <2>1
<1>8. ASSUME NEW x \in PanelSlots
      PROVE  /\ slots'[x].mode = "Empty" <=> slots'[x].take = NoTake
             /\ slots'[x].long => slots'[x].take # NoTake
             /\ slots'[x].take <= takes'
             /\ \/ slots'[x].take = NoTake \/ slots'[x].take > takes
                \/ slots'[x].take = slots[x].take /\ (slots[x].long => slots'[x].long)
             /\ slots'[x].take > takes => x = c.slot
  <2>1. CASE x = c.slot
    <3>1. slots'[x] = r /\ takes + 1 > takes /\ takes + 1 # 0 /\ takes + 1 <= takes'
      BY <1>1, <1>7, <2>1
    <3> QED BY <1>3, <2>1, <3>1 DEF NoTake
  <2>2. CASE x # c.slot
    <3>1. /\ slots'[x] = f[x] /\ f[x].take <= takes /\ f[x].take \in Nat
      <4>1. f[x].take = 0 \/ f[x].take = slots[x].take
        BY <1>5 DEF NoTake
      <4> QED BY <1>1, <1>7, <2>2, <4>1
    <3>2. f[x].take <= takes' /\ ~(f[x].take > takes)
      BY <1>1, <3>1
    <3> QED BY <1>5, <3>1, <3>2
  <2> QED BY <2>1, <2>2
<1>9. takes' \in Nat /\ takes <= takes' /\ recorder' \in PanelSlots \union {Nowhere}
  BY <1>1, <1>2
<1> QED BY <1>2, <1>7, <1>8, <1>9, StepKeeps

LEMMA CallbackKeeps ==
  ASSUME PanelInv, Callback PROVE PanelInv'
<1> DEFINE c == Head(orders)
<1>1. /\ PanelTypes /\ orders \in Seq(OrderSet) /\ recorder \in PanelSlots \union {Nowhere}
      /\ slots \in [PanelSlots -> [mode : Modes, long : BOOLEAN, take : Nat]]
      /\ \A s \in PanelSlots : /\ slots[s].mode = "Empty" <=> slots[s].take = NoTake
                               /\ slots[s].long => slots[s].take # NoTake
  BY DEF PanelInv, PanelTypes
<1>2. /\ orders # <<>> /\ Apply(c) /\ orders' = Tail(orders)
      /\ UNCHANGED <<cached, chosen, names, meant>>
      /\ reports' = IF c.op = "RequestSnapshot" /\ Len(reports) < StatusCapacity
                      THEN Append(reports, Snapshot) ELSE reports
  BY DEF Callback, panelVars
<1>3. c \in OrderSet /\ c.op \in LoopOps \union {"RequestSnapshot"}
      /\ (c.op # "RequestSnapshot" => c.slot \in PanelSlots /\ c.to \in PanelSlots)
  <2>1. c \in OrderSet
    BY <1>1, <1>2, Rested
  <2> QED BY <2>1, OrderIs
<1>4. Steady(slots, Stopped) /\ Steady(slots, slots)
  BY <1>1, SteadyStopped
<1>5. Moving(c) <=> c.op = "MoveLoop"
  BY DEF Moving
<1> HIDE DEF c
<1>6. CASE c.op = "Record"
  <2>1. /\ slots' = [Stopped EXCEPT ![c.slot] = [mode |-> "Recording", long |-> FALSE, take |-> takes + 1]]
        /\ recorder' = c.slot /\ takes' = takes + 1 /\ UNCHANGED <<moves, reports>>
    BY <1>2, <1>6 DEF Apply
  <2> QED BY <1>2, <1>6, <2>1, RecordKeeps DEF c
<1>7. CASE c.op = "Overdub"
  <2>1. /\ slots' = IF Stopped[c.slot].long THEN [Stopped EXCEPT ![c.slot].mode = "Overdubbing"] ELSE Stopped
        /\ recorder' = IF Stopped[c.slot].long THEN c.slot ELSE Nowhere
        /\ UNCHANGED <<takes, moves, reports>>
    BY <1>2, <1>7 DEF Apply
  <2>2. c.slot \in PanelSlots
    BY <1>3, <1>7
  <2>3. Steady(slots, slots')
    <3>1. CASE ~Stopped[c.slot].long
      BY <1>4, <2>1, <3>1
    <3>2. CASE Stopped[c.slot].long
      <4> DEFINE f == Stopped
                 r == [f[c.slot] EXCEPT !.mode = "Overdubbing"]
      <4>1. /\ f \in [PanelSlots -> [mode : Modes, long : BOOLEAN, take : Nat]]
            /\ \A x \in PanelSlots :
                 /\ f[x].mode = "Empty" <=> f[x].take = NoTake
                 /\ f[x].long => f[x].take # NoTake
                 /\ f[x].take = NoTake \/ (f[x].take = slots[x].take /\ (slots[x].long => f[x].long))
        BY <1>4 DEF Steady
      <4>2. slots' = [f EXCEPT ![c.slot] = r] /\ f[c.slot].long
        BY <2>1, <3>2
      <4> HIDE DEF f
      <4>3. /\ r \in [mode : Modes, long : BOOLEAN, take : Nat] /\ r.mode = "Overdubbing"
            /\ r.take = f[c.slot].take /\ r.long = f[c.slot].long
        BY <2>2, <4>1 DEF Modes
      <4> HIDE DEF r
      <4>4. /\ slots' \in [PanelSlots -> [mode : Modes, long : BOOLEAN, take : Nat]]
            /\ slots'[c.slot] = r /\ \A x \in PanelSlots : x # c.slot => slots'[x] = f[x]
        <5>1. /\ [f EXCEPT ![c.slot] = r] \in [PanelSlots -> [mode : Modes, long : BOOLEAN, take : Nat]]
              /\ [f EXCEPT ![c.slot] = r][c.slot] = r
              /\ \A x \in PanelSlots : x # c.slot => [f EXCEPT ![c.slot] = r][x] = f[x]
          BY ONLY <2>2, <4>1, <4>3, Placed
        <5> QED BY ONLY <4>2, <5>1
      <4> QED BY <2>2, <4>1, <4>2, <4>3, <4>4 DEF Steady
    <3> QED BY <3>1, <3>2
  <2>4. recorder' \in PanelSlots \union {Nowhere}
    BY <2>1, <2>2
  <2> QED BY <1>2, <1>5, <1>7, <2>1, <2>3, <2>4, SteadyKeeps DEF c
<1>8. CASE c.op = "StopRecord"
  <2>1. /\ (slots' = Stopped /\ recorder' = Nowhere) \/ (slots' = slots /\ recorder' = recorder)
        /\ UNCHANGED <<takes, moves, reports>>
    BY <1>2, <1>8 DEF Apply
  <2>2. Steady(slots, slots') /\ recorder' \in PanelSlots \union {Nowhere}
    BY <1>1, <1>4, <2>1
  <2> QED BY <1>2, <1>5, <1>8, <2>1, <2>2, SteadyKeeps DEF c
<1>9. CASE c.op \in {"Trigger", "Mute"}
  <2> DEFINE m == IF ~slots[c.slot].long THEN slots[c.slot].mode
                  ELSE IF c.op = "Mute" THEN "Muted" ELSE "Playing"
             r == [slots[c.slot] EXCEPT !.mode = m]
  <2>1. /\ slots' = [slots EXCEPT ![c.slot] = r] /\ UNCHANGED <<recorder, takes, moves, reports>>
    BY <1>2, <1>9 DEF Apply
  <2>2. c.slot \in PanelSlots
    BY <1>3, <1>9
  <2>3. m \in Modes /\ (m = "Empty" <=> slots[c.slot].take = NoTake)
    <3>1. slots[c.slot].mode \in Modes /\ (slots[c.slot].mode = "Empty" <=> slots[c.slot].take = NoTake)
          /\ (slots[c.slot].long => slots[c.slot].take # NoTake)
      BY <1>1, <2>2
    <3> QED BY <3>1 DEF Modes
  <2> HIDE DEF m
  <2>4. /\ r \in [mode : Modes, long : BOOLEAN, take : Nat] /\ r.mode = m
        /\ r.take = slots[c.slot].take /\ r.long = slots[c.slot].long
    BY <1>1, <2>2, <2>3
  <2> HIDE DEF r
  <2>5. Steady(slots, slots')
    <3>1. /\ [slots EXCEPT ![c.slot] = r] \in [PanelSlots -> [mode : Modes, long : BOOLEAN, take : Nat]]
          /\ [slots EXCEPT ![c.slot] = r][c.slot] = r
          /\ \A x \in PanelSlots : x # c.slot => [slots EXCEPT ![c.slot] = r][x] = slots[x]
      BY ONLY <1>1, <2>2, <2>4, Placed
    <3> QED BY <1>1, <2>1, <2>2, <2>3, <2>4, <3>1 DEF Steady
  <2> QED BY <1>1, <1>2, <1>5, <1>9, <2>1, <2>5, SteadyKeeps DEF c
<1>10. CASE c.op = "Erase"
  <2>1. /\ slots' = [slots EXCEPT ![c.slot] = Vacant]
        /\ recorder' = IF recorder = c.slot THEN Nowhere ELSE recorder
        /\ UNCHANGED <<takes, moves, reports>>
    BY <1>2, <1>10 DEF Apply
  <2>2. c.slot \in PanelSlots
    BY <1>3, <1>10
  <2>3. Vacant \in [mode : Modes, long : BOOLEAN, take : Nat] /\ Vacant.mode = "Empty" /\ Vacant.take = NoTake
        /\ ~Vacant.long
    BY DEF Vacant, Modes, NoTake
  <2>4. Steady(slots, slots') /\ slots'[c.slot].take = NoTake
    BY <1>1, <2>1, <2>2, <2>3 DEF Steady
  <2>5. recorder' \in PanelSlots \union {Nowhere}
    BY <1>1, <2>1
  <2> QED BY <1>2, <1>5, <1>10, <2>1, <2>4, <2>5, SteadyKeeps DEF c
<1>11. CASE c.op = "MoveLoop"
  <2> DEFINE refused == c.slot = c.to \/ ~slots[c.slot].long \/ slots[c.to].long
  <2>1. /\ slots' = IF refused THEN slots ELSE Swap(slots, c.slot, c.to)
        /\ recorder' = IF refused \/ recorder \notin {c.slot, c.to} THEN recorder
                       ELSE IF recorder = c.slot THEN c.to ELSE c.slot
        /\ moves' = [moves EXCEPT !.done = @ + 1, !.refused = @ \/ refused]
        /\ UNCHANGED <<takes, reports>>
    BY <1>2, <1>11 DEF Apply
  <2>2. recorder' \in PanelSlots \union {Nowhere}
    BY <1>1, <1>3, <1>11, <2>1
  <2>3. PICK no \in BOOLEAN : no = refused
    OBVIOUS
  <2>4. slots' = IF no THEN slots ELSE Swap(slots, c.slot, c.to)
    BY <2>1, <2>3
  <2>5. moves' = [moves EXCEPT !.done = @ + 1, !.refused = @ \/ no]
    BY <2>1, <2>3
  <2>6. no = (c.slot = c.to \/ ~slots[c.slot].long \/ slots[c.to].long)
    BY <2>3
  <2> QED BY <1>2, <1>5, <1>11, <2>1, <2>2, <2>4, <2>5, <2>6, SwapKeeps DEF c
<1>12. CASE c.op = "RequestSnapshot"
  <2>1. UNCHANGED <<slots, recorder, takes, moves>>
    BY <1>2, <1>12 DEF Apply, callbackVars
  <2>2. CASE reports' = reports
    BY <1>1, <1>2, <1>4, <1>5, <1>12, <2>1, <2>2, SteadyKeeps DEF c
  <2>3. CASE reports' = Append(reports, Snapshot)
    BY <1>2, <1>5, <1>12, <2>1, <2>3, SnapKeeps DEF c
  <2> QED BY <1>2, <1>12, <2>2, <2>3
<1> QED BY <1>3, <1>6, <1>7, <1>8, <1>9, <1>10, <1>11, <1>12 DEF LoopOps

\* The callback between orders.
LEMMA RunKeeps ==
  ASSUME PanelInv, Capture \/ EndRecording PROVE PanelInv'
<1>1. /\ PanelTypes /\ recorder \in PanelSlots \union {Nowhere}
      /\ slots \in [PanelSlots -> [mode : Modes, long : BOOLEAN, take : Nat]]
      /\ \A s \in PanelSlots : /\ slots[s].mode = "Empty" <=> slots[s].take = NoTake
                               /\ slots[s].long => slots[s].take # NoTake
  BY DEF PanelInv, PanelTypes
<1>2. CASE Capture
  <2> DEFINE r == [slots[recorder] EXCEPT !.long = TRUE]
  <2>1. /\ recorder \in PanelSlots /\ slots[recorder].mode = "Recording"
        /\ slots' = [slots EXCEPT ![recorder] = r]
        /\ UNCHANGED <<recorder, takes, orders, reports, cached, chosen, names, meant, moves>>
    BY <1>1, <1>2 DEF Capture, panelVars
  <2>2. /\ r \in [mode : Modes, long : BOOLEAN, take : Nat] /\ r.mode = "Recording"
        /\ r.take = slots[recorder].take /\ r.long
    BY <1>1, <2>1
  <2> HIDE DEF r
  <2>3. Steady(slots, slots')
    <3>1. /\ [slots EXCEPT ![recorder] = r] \in [PanelSlots -> [mode : Modes, long : BOOLEAN, take : Nat]]
          /\ [slots EXCEPT ![recorder] = r][recorder] = r
          /\ \A x \in PanelSlots : x # recorder => [slots EXCEPT ![recorder] = r][x] = slots[x]
      BY ONLY <1>1, <2>1, <2>2, Placed
    <3>2. r.take # NoTake
      BY <1>1, <2>1, <2>2
    <3> QED BY <1>1, <2>1, <2>2, <3>1, <3>2 DEF Steady
  <2> QED BY <1>1, <2>1, <2>3, SteadyKeeps
<1>3. CASE EndRecording
  <2>1. /\ slots' = Stopped /\ recorder' = Nowhere
        /\ UNCHANGED <<takes, orders, reports, cached, chosen, names, meant, moves>>
    BY <1>3 DEF EndRecording, panelVars
  <2> QED BY <1>1, <2>1, SteadyStopped, SteadyKeeps
<1> QED BY <1>2, <1>3

LEMMA Listed ==
  ASSUME NEW S, NEW n \in Nat, NEW f, f = [i \in 1..n |-> f[i]], \A i \in 1..n : f[i] \in S
  PROVE  f \in Seq(S) /\ Len(f) = n /\ DOMAIN f = 1..n
  OBVIOUS

LEMMA Within ==
  ASSUME NEW S, NEW list \in Seq(S), NEW s \in ToSet(list) PROVE s \in S
  BY DEF ToSet

LEMMA PressIs ==
  ASSUME PanelTypes, NEW s \in PanelSlots
  PROVE  CommandOf(PressMeans(s), s) \in OrderSet /\ ~Moving(CommandOf(PressMeans(s), s))
<1>1. cached[s].mode \in Modes
  BY DEF PanelTypes
<1>2. PressMeans(s) \in LoopOps /\ PressMeans(s) # "MoveLoop"
  BY <1>1 DEF PressMeans, Active, Modes, LoopOps
<1> QED BY <1>2 DEF OrderSet, CommandOf, Moving

\* What is sent, and leaves names, selections and moves alone.
LEMMA SendKeeps ==
  ASSUME PanelInv, NEW batch \in Seq(OrderSet), \A i \in DOMAIN batch : ~Moving(batch[i]), Enqueue(batch),
         UNCHANGED <<slots, recorder, takes, reports, cached, chosen, names, meant, moves>>
  PROVE  PanelInv'
<1>1. /\ orders \in Seq(OrderSet) /\ Room \in Int /\ chosen \in [Sets -> Seq(PanelSlots)]
      /\ meant \in [Sets -> SUBSET Nat] /\ moves \in [sent : Nat, done : Nat, shown : Nat, refused : BOOLEAN]
  BY PanelAssumption DEF PanelInv, PanelTypes, Room
<1> DEFINE taken == Accepted(batch)
<1>2. /\ taken \in Seq(OrderSet) /\ \A i \in DOMAIN taken : ~Moving(taken[i])
  BY <1>1, AcceptedIs
<1>3. orders' = orders \o taken
  BY DEF Enqueue
<1> HIDE DEF taken
<1> QED BY <1>1, <1>2, <1>3, QueueKeeps

LEMMA SnapshotKeeps ==
  ASSUME PanelInv, RequestSnapshot PROVE PanelInv'
<1> DEFINE o == CommandOf("RequestSnapshot", Nowhere)
<1>1. o \in OrderSet /\ ~Moving(o)
  BY DEF OrderSet, CommandOf, Moving
<1>2. Enqueue(<<o>>) /\ UNCHANGED <<slots, recorder, takes, reports, cached, chosen, names, meant, moves>>
  BY DEF RequestSnapshot, callbackVars, panelVars
<1> HIDE DEF o
<1>3. <<o>> \in Seq(OrderSet) /\ \A i \in DOMAIN <<o>> : ~Moving(<<o>>[i])
  BY <1>1
<1> QED BY <1>2, <1>3, SendKeeps

LEMMA TriggerKeeps ==
  ASSUME PanelInv, NEW s \in PanelSlots, (\E overdub \in BOOLEAN : TriggerLoop(s, overdub)) \/ EraseLoop(s)
  PROVE  PanelInv'
<1>1. PICK op : /\ op \in {"Overdub", "Erase", PressMeans(s)} /\ Enqueue(<<CommandOf(op, s)>>)
                /\ UNCHANGED <<slots, recorder, takes, reports, cached, chosen, names, meant, moves>>
  <2>1. CASE EraseLoop(s)
    BY <2>1 DEF EraseLoop, Gesture, callbackVars, panelVars
  <2>2. CASE \E overdub \in BOOLEAN : TriggerLoop(s, overdub)
    BY <2>2 DEF TriggerLoop, Gesture, callbackVars, panelVars
  <2> QED BY <2>1, <2>2
<1> DEFINE o == CommandOf(op, s)
<1>2. o \in OrderSet /\ ~Moving(o)
  <2>1. CASE op \in {"Overdub", "Erase"}
    BY <2>1 DEF OrderSet, CommandOf, Moving, LoopOps
  <2>2. CASE op = PressMeans(s)
    BY <2>2, PressIs DEF PanelInv
  <2> QED BY <1>1, <2>1, <2>2
<1>3. Enqueue(<<o>>)
  BY <1>1
<1> HIDE DEF o
<1>4. <<o>> \in Seq(OrderSet) /\ \A i \in DOMAIN <<o>> : ~Moving(<<o>>[i])
  BY <1>2
<1> QED BY <1>1, <1>3, <1>4, SendKeeps

LEMMA TriggerSelectedKeeps ==
  ASSUME PanelInv, NEW set \in Sets, NEW toggle \in BOOLEAN, TriggerSelectedLoops(set, toggle)
  PROVE  PanelInv'
<1> DEFINE sounds  == {s \in PanelSlots : cached[s].mode # "Empty" /\ (toggle \/ cached[s].mode = "Muted")}
           pushed == Keep(chosen[set], sounds)
           batch   == [i \in DOMAIN pushed |-> CommandOf(PressMeans(pushed[i]), pushed[i])]
<1>1. Enqueue(batch) /\ UNCHANGED <<slots, recorder, takes, reports, cached, chosen, names, meant, moves>>
  BY DEF TriggerSelectedLoops, Gesture, callbackVars, panelVars
<1>2. chosen[set] \in Seq(PanelSlots) /\ PanelTypes
  BY DEF PanelInv, PanelTypes
<1>3. pushed \in Seq(PanelSlots)
  BY <1>2, KeepIs
<1> HIDE DEF pushed
<1>4. \A i \in DOMAIN pushed : batch[i] \in OrderSet /\ ~Moving(batch[i])
  BY <1>2, <1>3, PressIs
<1>5. DOMAIN batch = 1..Len(pushed) /\ Len(pushed) \in Nat /\ DOMAIN pushed = 1..Len(pushed)
  BY <1>3
<1>6. batch \in Seq(OrderSet) /\ \A i \in DOMAIN batch : ~Moving(batch[i])
  <2>1. batch = [i \in 1..Len(pushed) |-> batch[i]]
    BY <1>5
  <2> HIDE DEF batch
  <2> QED BY <1>4, <1>5, <2>1
<1> HIDE DEF batch
<1> QED BY <1>1, <1>6, SendKeeps

LEMMA EraseAllKeeps ==
  ASSUME PanelInv, EraseAllLoops PROVE PanelInv'
<1> DEFINE batch == [s \in PanelSlots |-> CommandOf("Erase", s)]
           taken == Accepted(batch)
           gone  == {a.slot : a \in ToSet(taken)}
<1>1. /\ orders \in Seq(OrderSet) /\ Room \in Int /\ chosen \in [Sets -> Seq(PanelSlots)]
      /\ meant \in [Sets -> SUBSET Nat] /\ moves \in [sent : Nat, done : Nat, shown : Nat, refused : BOOLEAN]
  BY PanelAssumption DEF PanelInv, PanelTypes, Room
<1>2. /\ orders' = orders \o taken
      /\ chosen' = [k \in Sets |-> Keep(chosen[k], PanelSlots \ gone)]
      /\ UNCHANGED <<slots, recorder, takes, reports, cached, names, meant, moves>>
  BY DEF EraseAllLoops, Enqueue, Gesture, Without, callbackVars
<1>3. \A s \in PanelSlots : /\ batch[s] \in OrderSet /\ ~Moving(batch[s])
                            /\ batch[s].op = "Erase" /\ batch[s].slot = s
  BY DEF OrderSet, CommandOf, Moving, LoopOps
<1>4. batch \in Seq(OrderSet) /\ DOMAIN batch = PanelSlots
  <2>1. PICK n \in Nat : PanelSlots = 1..n
    BY PanelBounds
  <2>2. DOMAIN batch = 1..n /\ \A i \in 1..n : batch[i] \in OrderSet
    BY <1>3, <2>1
  <2>3. batch = [i \in 1..n |-> batch[i]]
    BY <2>1
  <2> HIDE DEF batch
  <2> QED BY <2>1, <2>2, <2>3
<1> HIDE DEF batch
<1>5. /\ taken \in Seq(OrderSet)
      /\ \A i \in DOMAIN taken : ~Moving(taken[i]) /\ taken[i].op = "Erase"
  BY <1>1, <1>3, <1>4, AcceptedIs
<1> HIDE DEF taken
<1>6. \A k \in Sets : /\ chosen'[k] = Keep(chosen[k], PanelSlots \ gone) /\ chosen[k] \in Seq(PanelSlots)
                      /\ chosen'[k] \in Seq(PanelSlots)
                      /\ ToSet(chosen'[k]) = ToSet(chosen[k]) \cap (PanelSlots \ gone)
  BY <1>1, <1>2, KeepIs
<1>7. \A k \in Sets : \A s \in ToSet(chosen[k]) :
        s \in ToSet(chosen'[k]) \/ \E i \in DOMAIN taken : taken[i].op = "Erase" /\ taken[i].slot = s
  <2> SUFFICES ASSUME NEW k \in Sets, NEW s \in ToSet(chosen[k]), s \notin ToSet(chosen'[k])
               PROVE  \E i \in DOMAIN taken : taken[i].op = "Erase" /\ taken[i].slot = s
    OBVIOUS
  <2>1. s \in PanelSlots
    BY <1>6, Within
  <2>2. s \in gone
    BY <1>6, <2>1
  <2> QED BY <1>5, <2>2 DEF ToSet
<1>8. chosen' \in [Sets -> Seq(PanelSlots)]
  BY <1>2, <1>6
<1> QED BY <1>1, <1>2, <1>5, <1>7, <1>8, QueueKeeps

LEMMA EraseSelectedKeeps ==
  ASSUME PanelInv, NEW set \in Sets, EraseSelectedLoops(set) PROVE PanelInv'
<1> DEFINE list  == chosen[set]
           batch == [i \in DOMAIN list |-> CommandOf("Erase", list[i])]
           taken == Accepted(batch)
           gone  == ToSet(list)
           short == Len(list) > Room
<1>1. /\ orders \in Seq(OrderSet) /\ Room \in Int /\ chosen \in [Sets -> Seq(PanelSlots)]
      /\ meant \in [Sets -> SUBSET Nat] /\ moves \in [sent : Nat, done : Nat, shown : Nat, refused : BOOLEAN]
  BY PanelAssumption DEF PanelInv, PanelTypes, Room
<1>2. /\ orders' = orders \o taken
      /\ chosen' = [k \in Sets |-> Keep(chosen[k], PanelSlots \ gone)]
      /\ meant' = [k \in Sets |-> meant[k] \ meant[set]]
      /\ moves' = [moves EXCEPT !.refused = moves.refused \/ short]
      /\ UNCHANGED <<slots, recorder, takes, reports, cached, names>>
  BY DEF EraseSelectedLoops, Enqueue, Gesture, Without, callbackVars
<1>3. list \in Seq(PanelSlots)
  BY <1>1
<1>4. \A i \in DOMAIN list : /\ batch[i] \in OrderSet /\ ~Moving(batch[i])
                             /\ batch[i].op = "Erase" /\ batch[i].slot = list[i]
  BY <1>3 DEF OrderSet, CommandOf, Moving, LoopOps
<1>5. batch \in Seq(OrderSet) /\ DOMAIN batch = DOMAIN list /\ Len(batch) = Len(list)
  <2>1. DOMAIN list = 1..Len(list) /\ Len(list) \in Nat
    BY <1>3
  <2>2. batch = [i \in 1..Len(list) |-> batch[i]]
    BY <2>1
  <2> HIDE DEF batch, list
  <2>3. \A i \in 1..Len(list) : batch[i] \in OrderSet
    BY <1>4, <2>1
  <2> QED BY <2>1, <2>2, <2>3, Listed
<1> HIDE DEF batch
<1>6. /\ taken \in Seq(OrderSet) /\ \A i \in DOMAIN taken : ~Moving(taken[i])
  BY <1>1, <1>4, <1>5, AcceptedIs
<1>7. ~short => taken = batch
  <2>1. ~short => Room >= Len(batch)
    BY <1>1, <1>3, <1>5
  <2> QED BY <1>1, <1>5, <2>1, AcceptedIs
<1> HIDE DEF taken, short
<1>8. /\ moves' \in [sent : Nat, done : Nat, shown : Nat, refused : BOOLEAN]
      /\ moves'.sent = moves.sent /\ moves'.done = moves.done /\ moves'.shown = moves.shown
      /\ (moves.refused => moves'.refused) /\ (short => moves'.refused)
  <2>1. short \in BOOLEAN
    BY DEF short
  <2>2. (moves.refused \/ short) \in BOOLEAN
    OBVIOUS
  <2>3. moves' = [moves EXCEPT !.refused = moves.refused \/ short]
    BY <1>2
  <2>4. moves \in [sent : Nat, done : Nat, shown : Nat, refused : BOOLEAN]
    BY <1>1
  <2>5. /\ moves' \in [sent : Nat, done : Nat, shown : Nat, refused : BOOLEAN]
        /\ moves'.sent = moves.sent /\ moves'.done = moves.done /\ moves'.shown = moves.shown
        /\ moves'.refused = (moves.refused \/ short)
    BY ONLY <2>2, <2>3, <2>4
  <2> QED BY <2>5
<1>9. \A k \in Sets : /\ chosen'[k] = Keep(chosen[k], PanelSlots \ gone) /\ chosen[k] \in Seq(PanelSlots)
                      /\ chosen'[k] \in Seq(PanelSlots)
                      /\ ToSet(chosen'[k]) = ToSet(chosen[k]) \cap (PanelSlots \ gone)
  BY <1>1, <1>2, KeepIs
<1>10. ASSUME ~moves'.refused
       PROVE  \A k \in Sets : \A s \in ToSet(chosen[k]) :
                s \in ToSet(chosen'[k]) \/ \E i \in DOMAIN taken : taken[i].op = "Erase" /\ taken[i].slot = s
  <2> SUFFICES ASSUME NEW k \in Sets, NEW s \in ToSet(chosen[k]), s \notin ToSet(chosen'[k])
               PROVE  \E i \in DOMAIN taken : taken[i].op = "Erase" /\ taken[i].slot = s
    OBVIOUS
  <2>1. s \in PanelSlots
    BY <1>9, Within
  <2>2. s \in gone /\ taken = batch
    BY <1>7, <1>8, <1>9, <1>10, <2>1
  <2> QED BY <1>4, <1>5, <2>2 DEF ToSet
<1>11. /\ chosen' \in [Sets -> Seq(PanelSlots)]
       /\ meant' \in [Sets -> SUBSET Nat] /\ \A k \in Sets : meant'[k] \subseteq meant[k]
  BY <1>1, <1>2, <1>9
<1> QED BY <1>1, <1>2, <1>6, <1>8, <1>10, <1>11, QueueKeeps

--------------------------------------------------------------------------
(* The panel of loops: selecting and naming                                *)

LEMMA RenameKeeps ==
  ASSUME PanelInv, NEW s \in PanelSlots, RenameLoop(s) PROVE PanelInv'
<1>1. /\ PanelTypes /\ names \in [PanelSlots -> Nat] /\ cached \in [PanelSlots -> [mode : Modes, take : Nat]]
      /\ chosen \in [Sets -> Seq(PanelSlots)] /\ meant \in [Sets -> SUBSET Nat]
      /\ (\A k \in Sets : \A t \in meant[k] : t <= takes) /\ \A x \in PanelSlots : names[x] <= takes
  BY DEF PanelInv, PanelTypes
<1>2. /\ Settled /\ names' = [names EXCEPT ![s] = cached[s].take]
      /\ UNCHANGED <<slots, recorder, takes, reports, orders, cached, chosen, meant, moves>>
  BY DEF RenameLoop, Gesture, callbackVars
<1>3. cached[s].take \in Nat /\ cached[s].take <= takes
  <2>1. 0 \in Views /\ View(0).modes = cached
    BY <1>1 DEF Views, View, PanelTypes
  <2> QED BY <1>1, <2>1 DEF PanelTypes
<1>4. /\ names' \in [PanelSlots -> Nat] /\ \A x \in PanelSlots : names'[x] <= takes
      /\ \A x \in PanelSlots : names'[x] = names[x] \/ names'[x] = cached[x].take
  BY <1>1, <1>2, <1>3
<1> QED BY <1>1, <1>2, <1>4, ClaimKeeps

LEMMA SelectKeeps ==
  ASSUME PanelInv, NEW set \in Sets, NEW list \in Seq(PanelSlots), Select(set, list) PROVE PanelInv'
<1>1. /\ PanelTypes /\ names \in [PanelSlots -> Nat] /\ cached \in [PanelSlots -> [mode : Modes, take : Nat]]
      /\ chosen \in [Sets -> Seq(PanelSlots)] /\ meant \in [Sets -> SUBSET Nat]
      /\ (\A k \in Sets : \A t \in meant[k] : t <= takes) /\ \A x \in PanelSlots : names[x] <= takes
  BY DEF PanelInv, PanelTypes
<1>2. /\ Settled /\ chosen' = [chosen EXCEPT ![set] = list] /\ meant' = [meant EXCEPT ![set] = Seen(list)]
      /\ UNCHANGED <<slots, recorder, takes, reports, orders, cached, names, moves>>
  BY DEF Select, Gesture, callbackVars
<1>3. \A s \in PanelSlots : cached[s].take \in Nat /\ cached[s].take <= takes
  <2>1. 0 \in Views /\ View(0).modes = cached
    BY <1>1 DEF Views, View, PanelTypes
  <2> QED BY <1>1, <2>1 DEF PanelTypes
<1>4. ToSet(list) \subseteq PanelSlots
  BY DEF ToSet
<1>5. /\ Seen(list) \in SUBSET Nat
      /\ \A t \in Seen(list) : t <= takes /\ \E s \in ToSet(list) \cap PanelSlots : cached[s].take = t
  BY <1>3, <1>4 DEF Seen
<1>6. /\ chosen' \in [Sets -> Seq(PanelSlots)] /\ meant' \in [Sets -> SUBSET Nat]
      /\ chosen'[set] = list /\ meant'[set] = Seen(list)
      /\ \A k \in Sets : k # set => chosen'[k] = chosen[k] /\ meant'[k] = meant[k]
  BY <1>1, <1>2, <1>5
<1>7. \A k \in Sets : \A t \in meant'[k] : t <= takes
  BY <1>1, <1>5, <1>6
<1>8. ASSUME NEW k \in Sets, NEW t \in meant'[k]
      PROVE  \/ /\ t \in meant[k]
                /\ \A x \in ToSet(chosen[k]) : cached[x].take = t => x \in ToSet(chosen'[k])
             \/ \E s \in ToSet(chosen'[k]) \cap PanelSlots : cached[s].take = t
  BY <1>5, <1>6, <1>8
<1> QED BY <1>1, <1>2, <1>6, <1>7, <1>8, ClaimKeeps

LEMMA ToggleKeeps ==
  ASSUME PanelInv, NEW set \in Sets, NEW s \in PanelSlots, ToggleLoopSelection(set, s) PROVE PanelInv'
<1> DEFINE list == chosen[set]
           at   == SelectInSeq(list, LAMBDA x : x = s)
           out  == SubSeq([list EXCEPT ![at] = Last(list)], 1, Len(list) - 1)
<1>1. /\ PanelTypes /\ names \in [PanelSlots -> Nat] /\ cached \in [PanelSlots -> [mode : Modes, take : Nat]]
      /\ chosen \in [Sets -> Seq(PanelSlots)] /\ meant \in [Sets -> SUBSET Nat]
      /\ (\A k \in Sets : \A t \in meant[k] : t <= takes) /\ \A x \in PanelSlots : names[x] <= takes
  BY DEF PanelInv, PanelTypes
<1>2. /\ Settled
      /\ chosen' = [chosen EXCEPT ![set] = IF at = 0 THEN Append(list, s) ELSE out]
      /\ meant' = [meant EXCEPT ![set] = IF at = 0 THEN meant[set] \union {cached[s].take}
                                                   ELSE meant[set] \ {cached[s].take}]
      /\ UNCHANGED <<slots, recorder, takes, reports, orders, cached, names, moves>>
  BY DEF ToggleLoopSelection, Gesture, callbackVars
<1>3. cached[s].take \in Nat /\ cached[s].take <= takes
  <2>1. 0 \in Views /\ View(0).modes = cached
    BY <1>1 DEF Views, View, PanelTypes
  <2> QED BY <1>1, <2>1 DEF PanelTypes
<1>4. list \in Seq(PanelSlots)
  BY <1>1
<1>5. at # 0 => at \in 1..Len(list) /\ list[at] = s
  BY <1>4, FirstPlace
<1>6. at # 0 => out \in Seq(PanelSlots) /\ \A x \in ToSet(list) : x # s => x \in ToSet(out)
  <2> DEFINE o == out
  <2>1. o = SubSeq([list EXCEPT ![at] = Last(list)], 1, Len(list) - 1)
    OBVIOUS
  <2> HIDE DEF list, at, o
  <2>2. at # 0 => o \in Seq(PanelSlots) /\ \A x \in ToSet(list) : x # list[at] => x \in ToSet(o)
    BY <1>4, <1>5, <2>1, SwappedOut
  <2>3. o = out
    BY DEF o, list, at
  <2> QED BY <1>5, <2>2, <2>3
<1>7. Append(list, s) \in Seq(PanelSlots) /\ s \in ToSet(Append(list, s))
  <2>1. /\ Append(list, s) \in Seq(PanelSlots) /\ DOMAIN Append(list, s) = 1..(Len(list) + 1)
        /\ Append(list, s)[Len(list) + 1] = s /\ Len(list) \in Nat
        /\ \A i \in 1..Len(list) : Append(list, s)[i] = list[i]
    BY <1>4, AppendProperties
  <2>2. Len(list) + 1 \in 1..(Len(list) + 1)
    BY <2>1
  <2> QED BY <2>1, <2>2 DEF ToSet
<1>8. \A x \in ToSet(list) : x \in ToSet(Append(list, s))
  <2>1. /\ DOMAIN Append(list, s) = 1..(Len(list) + 1) /\ Len(list) \in Nat /\ DOMAIN list = 1..Len(list)
        /\ \A i \in 1..Len(list) : Append(list, s)[i] = list[i]
    BY <1>4, AppendProperties
  <2>2. \A i \in 1..Len(list) : i \in 1..(Len(list) + 1)
    BY <2>1
  <2> QED BY <2>1, <2>2 DEF ToSet
<1> DEFINE more == Append(list, s)
<1>9. more \in Seq(PanelSlots) /\ s \in ToSet(more) /\ \A x \in ToSet(list) : x \in ToSet(more)
  BY <1>7, <1>8
<1>10. list = chosen[set]
  OBVIOUS
<1> HIDE DEF more, out, at, list
<1>11. /\ chosen' \in [Sets -> Seq(PanelSlots)] /\ meant' \in [Sets -> SUBSET Nat]
       /\ chosen'[set] = IF at = 0 THEN more ELSE out
       /\ meant'[set] = IF at = 0 THEN meant[set] \union {cached[s].take} ELSE meant[set] \ {cached[s].take}
       /\ \A k \in Sets : k # set => chosen'[k] = chosen[k] /\ meant'[k] = meant[k]
  <2>1. chosen' = [chosen EXCEPT ![set] = IF at = 0 THEN more ELSE out]
    BY <1>2 DEF more
  <2>2. (IF at = 0 THEN more ELSE out) \in Seq(PanelSlots)
    BY <1>6, <1>9
  <2>3. (IF at = 0 THEN meant[set] \union {cached[s].take} ELSE meant[set] \ {cached[s].take}) \in SUBSET Nat
    BY <1>1, <1>3
  <2> QED BY <1>1, <1>2, <2>1, <2>2, <2>3
<1>12. \A k \in Sets : \A t \in meant'[k] : t <= takes
  BY <1>1, <1>3, <1>11
<1>13. ASSUME NEW k \in Sets, NEW t \in meant'[k]
       PROVE  \/ /\ t \in meant[k]
                 /\ \A x \in ToSet(chosen[k]) : cached[x].take = t => x \in ToSet(chosen'[k])
              \/ \E y \in ToSet(chosen'[k]) \cap PanelSlots : cached[y].take = t
  <2>1. CASE k # set
    BY <1>11, <1>13, <2>1
  <2>2. CASE k = set /\ at = 0
    <3>1. chosen'[k] = more /\ (t \in meant[k] \/ t = cached[s].take)
      BY <1>11, <1>13, <2>2
    <3> QED BY <1>9, <1>10, <2>2, <3>1
  <2>3. CASE k = set /\ at # 0
    <3>1. chosen'[k] = out /\ t \in meant[k] /\ t # cached[s].take
      BY <1>11, <1>13, <2>3
    <3> QED BY <1>6, <1>10, <2>3, <3>1
  <2> QED BY <2>1, <2>2, <2>3
<1> QED BY <1>1, <1>2, <1>11, <1>12, <1>13, ClaimKeeps

\* The lists the other gestures select are vectors of slots.
LEMMA AvailableIs ==
  ASSUME NEW these
  PROVE  Available \in Seq(PanelSlots) /\ Keep(Available, these) \in Seq(PanelSlots)
<1> DEFINE all == [s \in PanelSlots |-> s]
<1>1. all \in Seq(PanelSlots)
  <2>1. PICK n \in Nat : PanelSlots = 1..n
    BY PanelBounds
  <2>2. all = [s \in 1..n |-> s] /\ \A s \in 1..n : s \in PanelSlots
    BY <2>1
  <2>3. [s \in 1..n |-> s] \in Seq(PanelSlots)
    BY <2>1, <2>2
  <2> QED BY <2>2, <2>3
<1> HIDE DEF all
<1>2. Available \in Seq(PanelSlots)
  <2>1. Available = Keep(all, {s \in PanelSlots : cached[s].mode # "Empty"})
    BY DEF Available, all
  <2> QED BY <1>1, <2>1, KeepIs
<1> QED BY <1>2, KeepIs

LEMMA ChooseKeeps ==
  ASSUME PanelInv, NEW set \in Sets,
         \/ InvertLoopSelection(set)
         \/ \E b \in BOOLEAN : SelectAllLoops(set, b) \/ SelectPlayingLoops(set, b)
  PROVE  PanelInv'
<1>1. CASE InvertLoopSelection(set)
  <2>1. PICK list : list = Without(Available, ToSet(chosen[set]))
    OBVIOUS
  <2>2. list \in Seq(PanelSlots)
    BY <2>1, AvailableIs DEF Without
  <2>3. Select(set, list)
    BY <1>1, <2>1 DEF InvertLoopSelection
  <2> QED BY <2>2, <2>3, SelectKeeps
<1>2. ASSUME NEW b \in BOOLEAN, SelectAllLoops(set, b) PROVE PanelInv'
  <2>1. PICK list : list = IF b THEN Available ELSE <<>>
    OBVIOUS
  <2>2. list \in Seq(PanelSlots)
    BY <2>1, AvailableIs
  <2>3. Select(set, list)
    BY <1>2, <2>1 DEF SelectAllLoops
  <2> QED BY <2>2, <2>3, SelectKeeps
<1>3. ASSUME NEW b \in BOOLEAN, SelectPlayingLoops(set, b) PROVE PanelInv'
  <2> DEFINE these == {s \in PanelSlots : (cached[s].mode \in {"Playing", "Overdubbing"}) = b}
  <2>1. PICK list : list = Keep(Available, these)
    OBVIOUS
  <2>2. list \in Seq(PanelSlots)
    BY <2>1, AvailableIs
  <2>3. Select(set, list)
    BY <1>3, <2>1 DEF SelectPlayingLoops
  <2> QED BY <2>2, <2>3, SelectKeeps
<1> QED BY <1>1, <1>2, <1>3

\* The player selects loops, never an empty slot.
NoneMeant == \A k \in Sets : NoTake \notin meant[k]

LEMMA NoneKeeps ==
  ASSUME PanelInv, NoneMeant, PanelNext PROVE NoneMeant'
<1>1. PanelTypes
  BY DEF PanelInv
<1>2. \A s \in PanelSlots : cached[s].mode # "Empty" => cached[s].take # NoTake
  <2>1. 0 \in Views /\ View(0).modes = cached
    BY <1>1 DEF Views, View, PanelTypes
  <2> QED BY <1>1, <2>1 DEF PanelTypes
<1>3. ASSUME UNCHANGED meant PROVE NoneMeant'
  BY <1>3 DEF NoneMeant
<1>4. ASSUME NEW set \in Sets, NEW list \in Seq(PanelSlots), Select(set, list),
             \A s \in ToSet(list) : cached[s].mode # "Empty"
      PROVE  NoneMeant'
  <2>1. meant' = [meant EXCEPT ![set] = Seen(list)] /\ meant \in [Sets -> SUBSET Nat]
    BY <1>1, <1>4 DEF Select, PanelTypes
  <2>2. NoTake \notin Seen(list)
    <3>1. \A s \in ToSet(list) : s \in PanelSlots
      BY Within
    <3> QED BY <1>2, <1>4, <3>1 DEF Seen
  <2> QED BY <2>1, <2>2 DEF NoneMeant
<1>5. /\ Available \in Seq(PanelSlots) /\ \A s \in ToSet(Available) : cached[s].mode # "Empty"
      /\ \A these : /\ Keep(Available, these) \in Seq(PanelSlots)
                    /\ \A s \in ToSet(Keep(Available, these)) : cached[s].mode # "Empty"
  <2> DEFINE all == [s \in PanelSlots |-> s]
             shown == {s \in PanelSlots : cached[s].mode # "Empty"}
  <2>1. all \in Seq(PanelSlots)
    <3>1. PICK n \in Nat : PanelSlots = 1..n
      BY PanelBounds
    <3>2. all = [i \in 1..n |-> all[i]] /\ \A i \in 1..n : all[i] \in PanelSlots
      BY <3>1
    <3> HIDE DEF all
    <3> QED BY <3>1, <3>2, Listed
  <2> HIDE DEF all
  <2>2. Available = Keep(all, shown)
    BY DEF Available, all
  <2>3. Available \in Seq(PanelSlots) /\ ToSet(Available) = ToSet(all) \cap shown
    BY <2>1, <2>2, KeepIs
  <2>4. \A these : Keep(Available, these) \in Seq(PanelSlots)
                   /\ ToSet(Keep(Available, these)) = ToSet(Available) \cap these
    BY <2>3, KeepIs
  <2> QED BY <2>3, <2>4
<1>6. ASSUME NEW set \in Sets, NEW s \in PanelSlots, ToggleLoopSelection(set, s) PROVE NoneMeant'
  <2>1. cached[s].take # NoTake /\ meant \in [Sets -> SUBSET Nat]
    BY <1>1, <1>2, <1>6 DEF ToggleLoopSelection, PanelTypes
  <2>2. PICK m : meant' = [meant EXCEPT ![set] = m] /\ m \subseteq meant[set] \union {cached[s].take}
    BY <1>6 DEF ToggleLoopSelection
  <2>3. NoTake \notin m
    BY <2>1, <2>2 DEF NoneMeant
  <2> QED BY <2>1, <2>2, <2>3 DEF NoneMeant
<1>7. ASSUME NEW set \in Sets, EraseSelectedLoops(set) PROVE NoneMeant'
  BY <1>7 DEF EraseSelectedLoops, NoneMeant
<1>8. ASSUME NEW set \in Sets, InvertLoopSelection(set) PROVE NoneMeant'
  <2>1. PICK list : list = Keep(Available, PanelSlots \ ToSet(chosen[set]))
    OBVIOUS
  <2>2. Select(set, list)
    BY <1>8, <2>1 DEF InvertLoopSelection, Without
  <2> QED BY <1>4, <1>5, <2>1, <2>2
<1>9. ASSUME NEW set \in Sets, NEW b \in BOOLEAN, SelectAllLoops(set, b) PROVE NoneMeant'
  <2>1. PICK list : list = IF b THEN Available ELSE <<>>
    OBVIOUS
  <2>2. Select(set, list)
    BY <1>9, <2>1 DEF SelectAllLoops
  <2>3. list \in Seq(PanelSlots) /\ \A s \in ToSet(list) : cached[s].mode # "Empty"
    BY <1>5, <2>1 DEF ToSet
  <2> QED BY <1>4, <2>2, <2>3
<1>10. ASSUME NEW set \in Sets, NEW b \in BOOLEAN, SelectPlayingLoops(set, b) PROVE NoneMeant'
  <2> DEFINE these == {s \in PanelSlots : (cached[s].mode \in {"Playing", "Overdubbing"}) = b}
  <2>1. PICK list : list = Keep(Available, these)
    OBVIOUS
  <2>2. Select(set, list)
    BY <1>10, <2>1 DEF SelectPlayingLoops
  <2> QED BY <1>4, <1>5, <2>1, <2>2
<1>11. CASE \/ EraseAllLoops
            \/ \E s \in PanelSlots : \/ EraseLoop(s) \/ RenameLoop(s)
                                     \/ \E overdub \in BOOLEAN : TriggerLoop(s, overdub)
                                     \/ \E to \in PanelSlots : PanelMove(s, to)
            \/ \E k \in Sets : \E b \in BOOLEAN : TriggerSelectedLoops(k, b)
  <2>1. UNCHANGED meant
    BY <1>11 DEF EraseAllLoops, EraseLoop, RenameLoop, TriggerLoop, PanelMove, TriggerSelectedLoops, panelVars
  <2> QED BY <1>3, <2>1
<1>12. CASE RequestSnapshot \/ Drain \/ Callback \/ Capture \/ EndRecording
  <2>1. UNCHANGED meant
    BY <1>12 DEF RequestSnapshot, Drain, Callback, Capture, EndRecording, panelVars
  <2> QED BY <1>3, <2>1
<1> QED BY <1>6, <1>7, <1>8, <1>9, <1>10, <1>11, <1>12 DEF PanelNext, Player

LEMMA PanelStarts ==
  ASSUME PanelInit PROVE PanelInv /\ NoneMeant
<1> DEFINE r(s) == IF s \in Loaded THEN [mode |-> "Playing", long |-> TRUE, take |-> s] ELSE Vacant
<1>1. /\ slots = [s \in PanelSlots |-> r(s)] /\ recorder = Nowhere /\ takes = Cardinality(PanelSlots)
      /\ orders = <<>> /\ reports = <<>> /\ cached = Shown
      /\ chosen = [k \in Sets |-> <<>>] /\ meant = [k \in Sets |-> {}]
      /\ names = [s \in PanelSlots |-> NoTake]
      /\ moves = [sent |-> 0, done |-> 0, shown |-> 0, refused |-> FALSE]
  BY DEF PanelInit
<1>2. \A s \in PanelSlots : /\ r(s) \in [mode : Modes, long : BOOLEAN, take : Nat]
                            /\ r(s).mode = "Empty" <=> r(s).take = NoTake
                            /\ r(s).long => r(s).take # NoTake
                            /\ r(s).take = s \/ r(s).take = NoTake
  <2>1. Vacant \in [mode : Modes, long : BOOLEAN, take : Nat] /\ Vacant.mode = "Empty" /\ Vacant.take = NoTake
        /\ ~Vacant.long
    BY DEF Vacant, Modes, NoTake
  <2>2. \A s \in PanelSlots : s \in Nat /\ s # NoTake
    BY PanelBounds
  <2> QED BY <2>1, <2>2 DEF Modes
<1> HIDE DEF r
<1>3. \A s \in PanelSlots : slots[s] = r(s)
  BY <1>1
<1>4. takes \in Nat /\ 0 <= takes /\ \A s \in PanelSlots : s <= takes
  BY <1>1, PanelBounds
<1>5. Views = {0} /\ View(0) = [modes |-> Shown, moved |-> 0]
  BY <1>1 DEF Views, View
<1>6. Shown = [s \in PanelSlots |-> [mode |-> slots[s].mode, take |-> slots[s].take]]
  BY DEF Shown
<1>7. \A s \in PanelSlots : Shown[s].mode = r(s).mode /\ Shown[s].take = r(s).take
  BY <1>3, <1>6
<1>8. \A s \in PanelSlots : slots[s].take <= takes
  BY <1>2, <1>3, <1>4 DEF NoTake
<1>9. PanelTypes
  <2>1. /\ slots \in [PanelSlots -> [mode : Modes, long : BOOLEAN, take : Nat]]
        /\ \A s \in PanelSlots : /\ slots[s].mode = "Empty" <=> slots[s].take = NoTake
                                 /\ slots[s].long => slots[s].take # NoTake
                                 /\ slots[s].take <= takes
    BY <1>1, <1>2, <1>3, <1>8
  <2>2. cached \in [PanelSlots -> [mode : Modes, take : Nat]]
    BY <1>1, <1>6, <2>1
  <2>3. \A i \in Views :
          /\ View(i).moved <= moves.done
          /\ \A s \in PanelSlots :
               /\ View(i).modes[s].mode = "Empty" <=> View(i).modes[s].take = NoTake
               /\ View(i).modes[s].take <= takes
    <3>1. \A s \in PanelSlots : /\ Shown[s].mode = "Empty" <=> Shown[s].take = NoTake
                                /\ Shown[s].take <= takes
      BY <1>3, <1>7, <2>1
    <3> QED BY <1>1, <1>5, <3>1
  <2>4. names \in [PanelSlots -> Nat] /\ \A s \in PanelSlots : names[s] <= takes
    BY <1>1, <1>4 DEF NoTake
  <2>5. orders \in Seq(OrderSet) /\ reports \in Seq(ReportSet)
    BY <1>1
  <2>6. /\ chosen \in [Sets -> Seq(PanelSlots)] /\ meant \in [Sets -> SUBSET Nat]
        /\ \A k \in Sets : \A t \in meant[k] : t <= takes
    BY <1>1
  <2>7. moves \in [sent : Nat, done : Nat, shown : Nat, refused : BOOLEAN]
    BY <1>1
  <2> QED BY <1>1, <1>4, <2>1, <2>2, <2>3, <2>4, <2>5, <2>6, <2>7 DEF PanelTypes
<1>10. TakesApart
  <2> SUFFICES ASSUME NEW x \in PanelSlots, NEW y \in PanelSlots,
                      slots[x].take = slots[y].take, slots[x].take # NoTake
               PROVE  x = y
    BY DEF TakesApart
  <2> QED BY <1>2, <1>3
<1>11. \A x, s \in PanelSlots : Shown[s].take = slots[x].take /\ slots[x].take # NoTake => s = x
  BY <1>2, <1>3, <1>7
<1>12. ViewsPlace /\ ViewsStay
  BY <1>1, <1>5, <1>11 DEF ViewsPlace, ViewsStay
<1>13. \A t : ~Claimed(t, names, meant)
  BY <1>1 DEF Claimed
<1>14. ViewsSee /\ ShortStay
  BY <1>13 DEF ViewsSee, ShortStay
<1>15. NamesLead /\ SetsLead
  BY <1>1 DEF NamesLead, SetsLead
<1>16. Between(orders, moves.done, moves.sent)
  <2> DEFINE f == [i \in 0..0 |-> 0]
  <2>1. /\ f \in [0..0 -> Nat] /\ f[0] = 0 /\ (\A i, j \in 0..0 : i <= j => f[i] <= f[j])
    OBVIOUS
  <2>2. Len(orders) = 0 /\ 1..0 = {}
    BY <1>1
  <2>3. Counts(orders, f, 0, 0)
    BY <2>1, <2>2 DEF Counts
  <2> QED BY <1>1, <2>3 DEF Between
<1> QED BY <1>1, <1>9, <1>10, <1>12, <1>14, <1>15, <1>16 DEF PanelInv, NoneMeant

LEMMA PanelSteps ==
  ASSUME PanelInv, NoneMeant, [PanelNext]_loopPanelVars PROVE PanelInv' /\ NoneMeant'
<1>1. CASE UNCHANGED loopPanelVars
  <2>1. UNCHANGED <<slots, recorder, takes, cached, chosen, names, meant, orders, reports, moves>>
    BY <1>1 DEF loopPanelVars, callbackVars, panelVars
  <2>2. PanelTypes /\ Steady(slots, slots) /\ recorder \in PanelSlots \union {Nowhere}
    BY SteadyStopped DEF PanelInv, PanelTypes
  <2>3. PanelInv'
    BY <2>1, <2>2, SteadyKeeps
  <2> QED BY <2>1, <2>3 DEF NoneMeant
<1>2. CASE PanelNext
  <2>1. NoneMeant'
    BY <1>2, NoneKeeps
  <2>2. CASE EraseAllLoops
    BY <2>1, <2>2, EraseAllKeeps
  <2>3. ASSUME NEW s \in PanelSlots, EraseLoop(s) \/ \E overdub \in BOOLEAN : TriggerLoop(s, overdub)
        PROVE PanelInv'
    BY <2>3, TriggerKeeps
  <2>4. ASSUME NEW s \in PanelSlots, RenameLoop(s) PROVE PanelInv'
    BY <2>4, RenameKeeps
  <2>5. ASSUME NEW s \in PanelSlots, NEW to \in PanelSlots, PanelMove(s, to) PROVE PanelInv'
    BY <2>5, MoveKeeps
  <2>6. ASSUME NEW s \in PanelSlots, NEW k \in Sets, ToggleLoopSelection(k, s) PROVE PanelInv'
    BY <2>6, ToggleKeeps
  <2>7. ASSUME NEW k \in Sets, EraseSelectedLoops(k) PROVE PanelInv'
    BY <2>7, EraseSelectedKeeps
  <2>8. ASSUME NEW k \in Sets, InvertLoopSelection(k) PROVE PanelInv'
    BY <2>8, ChooseKeeps
  <2>9. ASSUME NEW k \in Sets, NEW b \in BOOLEAN, TriggerSelectedLoops(k, b) PROVE PanelInv'
    BY <2>9, TriggerSelectedKeeps
  <2>10. ASSUME NEW k \in Sets, NEW b \in BOOLEAN, SelectAllLoops(k, b) \/ SelectPlayingLoops(k, b)
         PROVE  PanelInv'
    BY <2>10, ChooseKeeps
  <2>11. CASE RequestSnapshot
    BY <2>1, <2>11, SnapshotKeeps
  <2>12. CASE Drain
    BY <2>1, <2>12, DrainKeeps
  <2>13. CASE Callback
    BY <2>1, <2>13, CallbackKeeps
  <2>14. CASE Capture \/ EndRecording
    BY <2>1, <2>14, RunKeeps
  <2> QED BY <1>2, <2>1, <2>2, <2>3, <2>4, <2>5, <2>6, <2>7, <2>8, <2>9, <2>10, <2>11, <2>12, <2>13, <2>14
          DEF PanelNext, Player
<1> QED BY <1>1, <1>2

LEMMA PanelShows ==
  ASSUME PanelInv, NoneMeant PROVE PanelFollowsLoops
<1> SUFFICES ASSUME ~moves.refused,
                    \A i \in DOMAIN orders : orders[i].op \notin {"MoveLoop", "Erase"}, NEW s \in PanelSlots
             PROVE  /\ \/ names[s] = slots[s].take
                       \/ \A t \in PanelSlots : slots[t].take = NoTake \/ names[s] # slots[t].take
                    /\ \A k \in Sets : slots[s].take \in meant[k] => s \in ToSet(chosen[k])
  BY DEF PanelFollowsLoops
<1>1. NamesLead /\ SetsLead /\ orders \in Seq(OrderSet)
  BY DEF PanelInv, PanelTypes
<1>2. \A i \in DOMAIN orders : ~Moving(orders[i]) /\ orders[i].op # "Erase"
  BY DEF Moving
<1>3. ASSUME NEW t \in PanelSlots, slots[t].take # NoTake, names[s] = slots[t].take
      PROVE  names[s] = slots[s].take
  <2>1. Reaches(orders, t, {s})
    BY <1>1, <1>3 DEF NamesLead
  <2>2. t \in {s}
    BY <1>1, <1>2, <2>1, ReachHere
  <2> QED BY <1>3, <2>2
<1>4. ASSUME NEW k \in Sets, slots[s].take \in meant[k] PROVE s \in ToSet(chosen[k])
  <2>1. slots[s].take # NoTake
    BY <1>4 DEF NoneMeant
  <2>2. Reaches(orders, s, ToSet(chosen[k]))
    BY <1>1, <1>4, <2>1 DEF SetsLead
  <2> QED BY <1>1, <1>2, <2>2, ReachHere
<1> QED BY <1>3, <1>4

\* The panel does not lose a loop it moves: what the player named or selected keeps its name and its
\* selection, however many moves, recordings, erasures and snapshots are on their way through the
\* two rings, for any number of slots and of selection sets and any capacity of the rings
\* (move_loop, update_after_move and move_loop_map_entry against apply_command).
THEOREM PanelFollowsLoopsAlways == PanelSpec => []PanelFollowsLoops
<1>1. PanelInit => PanelInv /\ NoneMeant
  BY PanelStarts
<1>2. (PanelInv /\ NoneMeant) /\ [PanelNext]_loopPanelVars => (PanelInv /\ NoneMeant)'
  BY PanelSteps
<1>3. PanelInv /\ NoneMeant => PanelFollowsLoops
  BY PanelShows
<1> QED BY <1>1, <1>2, <1>3, PTL DEF PanelSpec

--------------------------------------------------------------------------
(* Bindings: recursion                                                     *)

\* Steps that stay in S, and f[m] what m of them have made of begin.
StaysIn(S, n, step) == step \in [1..n -> [S -> S]]
Iterated(S, n, step, begin, f) ==
  /\ f \in [0..n -> S] /\ f[0] = begin
  /\ \A m \in 1..n : f[m] = step[m][f[m - 1]]

LEMMA Iterates ==
  ASSUME NEW S, NEW n \in Nat, NEW step, StaysIn(S, n, step), NEW begin \in S
  PROVE  \E f : Iterated(S, n, step, begin, f)
<1>0. step \in [1..n -> [S -> S]]
  BY DEF StaysIn
<1> DEFINE Done(m, f) == f[0] = begin /\ \A i \in 1..m : f[i] = step[i][f[i - 1]]
           T == {m \in 0..n : \E f \in [0..m -> S] : Done(m, f)}
<1>1. T \in SUBSET (0..n)
  OBVIOUS
<1>2. 0 \in T
  <2> DEFINE f == [i \in 0..0 |-> begin]
  <2>1. f \in [0..0 -> S] /\ f[0] = begin
    OBVIOUS
  <2>2. \A i \in 1..0 : FALSE
    OBVIOUS
  <2>3. Done(0, f)
    <3> HIDE DEF f
    <3> QED BY <2>1, <2>2
  <2> HIDE DEF f, Done
  <2> QED BY <2>1, <2>3
<1>3. ASSUME NEW m \in 1..n, m - 1 \in T PROVE m \in T
  <2>1. PICK f \in [0..(m - 1) -> S] : Done(m - 1, f)
    BY <1>3
  <2> DEFINE last == step[m][f[m - 1]]
             g == [i \in 0..m |-> IF i = m THEN last ELSE f[i]]
  <2>2. last \in S
    <3>1. m - 1 \in 0..(m - 1)
      OBVIOUS
    <3>2. f[m - 1] \in S /\ step[m] \in [S -> S]
      BY <1>0, <3>1
    <3> QED BY <3>2
  <2>3. g \in [0..m -> S]
    <3> HIDE DEF last
    <3>1. ASSUME NEW i \in 0..m PROVE (IF i = m THEN last ELSE f[i]) \in S
      <4>1. i = m \/ i \in 0..(m - 1)
        OBVIOUS
      <4> QED BY <2>2, <4>1
    <3> QED BY <3>1
  <2>4. g[0] = begin
    BY <2>1
  <2>5. ASSUME NEW i \in 1..m PROVE g[i] = step[i][g[i - 1]]
    <3>1. i - 1 \in 0..m /\ i - 1 # m /\ i \in 0..m
      OBVIOUS
    <3>2. g[i - 1] = f[i - 1]
      BY <3>1
    <3>3. CASE i = m
      BY <3>1, <3>2, <3>3
    <3>4. CASE i # m
      <4>1. i \in 1..(m - 1)
        BY <3>4
      <4> QED BY <2>1, <3>1, <3>2, <3>4, <4>1
    <3> QED BY <3>3, <3>4
  <2>6. Done(m, g)
    BY <2>4, <2>5
  <2> HIDE DEF g, Done
  <2> QED BY <2>3, <2>6
<1> HIDE DEF T
<1>4. \A m \in 0..n : m \in T
  BY <1>1, <1>2, <1>3, Inductively
<1>5. n \in T
  BY <1>4
<1> QED BY <1>5 DEF T, Iterated

--------------------------------------------------------------------------
(* Bindings: loading                                                       *)

OutputSet == [op : {"set", "send", "gosub", "bad"}, value : Int \union {Var, Arg}]
BindingSet ==
  [index : Int \union {Anything, Var}, when : Int \union {Anything}, echo : BOOLEAN,
   output : OutputSet, continued : BOOLEAN]
Tables == [InputTypes -> [0..MaxIndex -> Seq(BindingSet)]]

LEMMA NodeIs ==
  ASSUME NEW n \in Nodes
  PROVE  /\ n.input \in InputTypes /\ n.index \in Int \union {Anything, Var}
         /\ n.when \in Int \union {Anything} /\ n.echo \in BOOLEAN
         /\ n.outputs \in Seq(OutputSet) /\ n.outputs # <<>>
         /\ MaxIndex \in Nat /\ MaxIndex > 0
<1>1. n \in Elementary /\ MaxIndex \in Nat \ {0}
  BY BindingsAssumption
<1> QED BY <1>1 DEF Elementary, OutputSet

LEMMA ChainIs ==
  ASSUME NEW n \in Nodes
  PROVE  /\ Chain(n) \in Seq(BindingSet) /\ Len(Chain(n)) \in Nat /\ Len(Chain(n)) > 0
         /\ Chain(n)[1].index = n.index /\ Chain(n)[1].when = n.when
         /\ \A i \in 1..Len(Chain(n)) : Chain(n)[i].continued <=> i < Len(Chain(n))
<1> DEFINE N == Len(n.outputs)
           Item(i) == [index |-> IF i = 1 THEN n.index ELSE Anything,
                       when |-> IF i = 1 THEN n.when ELSE Anything,
                       echo |-> i = 1 /\ n.echo, output |-> n.outputs[i], continued |-> i < N]
<1>1. N \in Nat /\ N > 0 /\ DOMAIN n.outputs = 1..N
  <2>1. n.outputs \in Seq(OutputSet) /\ n.outputs # <<>>
    BY NodeIs
  <2> DEFINE s == n.outputs
  <2> HIDE DEF s
  <2>2. s \in Seq(OutputSet) /\ s # <<>>
    BY <2>1 DEF s
  <2>3. Len(s) \in Nat /\ Len(s) > 0 /\ DOMAIN s = 1..Len(s)
    BY <2>2
  <2> QED BY <2>3 DEF s
<1>2. Chain(n) = [i \in 1..N |-> Item(i)]
  BY <1>1 DEF Chain
<1>3. ASSUME NEW i \in 1..N PROVE Item(i) \in BindingSet
  <2>1. n.outputs[i] \in OutputSet
    BY NodeIs, <1>1
  <2>2. (i < N) \in BOOLEAN /\ (i = 1 /\ n.echo) \in BOOLEAN
    OBVIOUS
  <2>3. /\ (IF i = 1 THEN n.index ELSE Anything) \in Int \union {Anything, Var}
        /\ (IF i = 1 THEN n.when ELSE Anything) \in Int \union {Anything}
    BY NodeIs
  <2> QED BY <2>1, <2>2, <2>3 DEF BindingSet
<1> HIDE DEF N
<1>4. Chain(n) \in Seq(BindingSet) /\ Len(Chain(n)) = N
  <2> DEFINE c == [i \in 1..N |-> Item(i)]
  <2>1. c \in [1..N -> BindingSet]
    BY <1>3
  <2> HIDE DEF c, Item
  <2>2. c \in Seq(BindingSet) /\ Len(c) = N
    BY <1>1, <2>1, SeqDef, LenProperties
  <2> QED BY <1>2, <2>2 DEF c
<1>5. \A i \in 1..N : Chain(n)[i] = Item(i)
  BY <1>2
<1>6. 1 \in 1..N
  BY <1>1
<1>7. Item(1).index = n.index /\ Item(1).when = n.when
  OBVIOUS
<1>8. \A i \in 1..N : Item(i).continued <=> i < N
  OBVIOUS
<1> HIDE DEF Item
<1> QED BY <1>1, <1>4, <1>5, <1>6, <1>7, <1>8

\* What is loaded after each element.
LEMMA LoadIs ==
  ASSUME NEW nodes \in Seq(Nodes)
  PROVE  \E f \in [0..Len(nodes) -> Tables] :
           /\ \A t \in InputTypes, b \in 0..MaxIndex : f[0][t][b] = <<>>
           /\ \A m \in 1..Len(nodes) : \A t \in InputTypes, b \in 0..MaxIndex :
                f[m][t][b] = IF nodes[m].input = t /\ LoadBucket(nodes[m]) = b
                             THEN f[m - 1][t][b] \o Chain(nodes[m]) ELSE f[m - 1][t][b]
           /\ Load(nodes) = f[Len(nodes)]
<1> DEFINE N == Len(nodes)
           Empty == [t \in InputTypes |-> [b \in 0..MaxIndex |-> <<>>]]
           Add(table, node) == [table EXCEPT ![node.input][LoadBucket(node)] = @ \o Chain(node)]
           Def(f) == [n \in 0..Len(nodes) |->
                        IF n = 0 THEN [t \in InputTypes |-> [b \in 0..MaxIndex |-> <<>>]]
                        ELSE [f[n - 1] EXCEPT ![nodes[n].input][LoadBucket(nodes[n])] = @ \o Chain(nodes[n])]]
           F == CHOOSE f : f = Def(f)
<1>0. N \in Nat /\ \A m \in 1..N : nodes[m] \in Nodes
  OBVIOUS
<1>1. ASSUME NEW node \in Nodes
      PROVE  node.input \in InputTypes /\ LoadBucket(node) \in 0..MaxIndex
  <2>1. node.input \in InputTypes /\ node.index \in Int \union {Anything, Var}
        /\ MaxIndex \in Nat /\ MaxIndex > 0
    BY NodeIs
  <2>2. ASSUME NEW i \in Int PROVE Bucket(i) \in 0..MaxIndex
    BY <2>1 DEF Bucket
  <2>3. MaxIndex \in 0..MaxIndex /\ 0 \in 0..MaxIndex
    BY <2>1
  <2> QED BY <2>1, <2>2, <2>3 DEF LoadBucket
<1>2. ASSUME NEW table \in Tables, NEW node \in Nodes
      PROVE  /\ Add(table, node) \in Tables
             /\ \A t \in InputTypes, b \in 0..MaxIndex :
                  Add(table, node)[t][b] = IF node.input = t /\ LoadBucket(node) = b
                                           THEN table[t][b] \o Chain(node) ELSE table[t][b]
  <2> DEFINE c == Chain(node)
             k == LoadBucket(node)
             u == node.input
  <2>1. c \in Seq(BindingSet) /\ u \in InputTypes /\ k \in 0..MaxIndex
    BY <1>1, ChainIs
  <2> HIDE DEF c, k, u
  <2>2. table[u][k] \in Seq(BindingSet)
    BY <2>1 DEF Tables
  <2>3. table[u][k] \o c \in Seq(BindingSet)
    BY <2>1, <2>2, ConcatProperties
  <2> DEFINE d == table[u][k] \o c
             new == [table EXCEPT ![u][k] = d]
  <2>4. d \in Seq(BindingSet)
    BY <2>3
  <2> HIDE DEF d
  <2>5. new \in Tables
    BY <2>1, <2>4 DEF Tables
  <2>6. \A t \in InputTypes, b \in 0..MaxIndex : new[t][b] = IF u = t /\ k = b THEN d ELSE table[t][b]
    BY <2>1 DEF Tables
  <2>7. Add(table, node) = new
    BY DEF c, k, u, d
  <2> HIDE DEF new, Add
  <2>8. ASSUME NEW t \in InputTypes, NEW b \in 0..MaxIndex
        PROVE  Add(table, node)[t][b] = IF u = t /\ k = b THEN table[t][b] \o c ELSE table[t][b]
    BY <2>6, <2>7 DEF d
  <2> QED BY <2>5, <2>7, <2>8 DEF u, k, c
<1>3. Empty \in Tables
  <2>1. <<>> \in Seq(BindingSet)
    OBVIOUS
  <2> QED BY <2>1 DEF Tables
<1> DEFINE Steps == [m \in 1..N |-> [table \in Tables |-> Add(table, nodes[m])]]
<1>4. Steps \in [1..N -> [Tables -> Tables]]
  <2> HIDE DEF Add
  <2>1. ASSUME NEW m \in 1..N PROVE [table \in Tables |-> Add(table, nodes[m])] \in [Tables -> Tables]
    BY <1>0, <1>2
  <2> QED BY <2>1
<1>5. PICK g : Iterated(Tables, N, Steps, Empty, g)
  <2>1. StaysIn(Tables, N, Steps)
    BY <1>4 DEF StaysIn
  <2> HIDE DEF N, Empty, Steps
  <2> QED BY <1>0, <1>3, <2>1, Iterates
<1>a. g \in [0..N -> Tables] /\ g[0] = Empty
  BY <1>5 DEF Iterated
<1>6. \A m \in 1..N : m - 1 \in 0..N /\ g[m - 1] \in Tables /\ g[m] = Add(g[m - 1], nodes[m])
  <2> HIDE DEF Add
  <2>1. \A m \in 1..N : m - 1 \in 0..N
    BY <1>0
  <2> HIDE DEF N
  <2>2. \A m \in 1..N : Steps[m] = [table \in Tables |-> Add(table, nodes[m])]
    OBVIOUS
  <2> HIDE DEF Steps
  <2>3. ASSUME NEW m \in 1..N PROVE g[m] = Add(g[m - 1], nodes[m])
    <3>1. g[m - 1] \in Tables
      BY <1>a, <2>1
    <3>2. g[m] = Steps[m][g[m - 1]]
      BY <1>5 DEF Iterated
    <3> QED BY <2>2, <3>1, <3>2
  <2> QED BY <1>a, <2>1, <2>3
<1>7. g = Def(g)
  <2>1. ASSUME NEW n \in 0..N PROVE g[n] = Def(g)[n]
    <3>1. CASE n = 0
      BY <1>a, <3>1
    <3>2. CASE n # 0
      <4>1. n \in 1..N
        BY <1>0, <3>2
      <4> QED BY <1>6, <3>2, <4>1
    <3> QED BY <3>1, <3>2
  <2>2. g = [n \in 0..N |-> g[n]]
    BY <1>a
  <2> QED BY <2>1, <2>2
<1>8. F = Def(F)
  BY <1>7
<1>9. Load(nodes) = F[Len(nodes)]
  BY DEF Load
<1> HIDE DEF F
<1>10. F[0] = Empty /\ \A m \in 1..N : F[m] = Add(F[m - 1], nodes[m])
  <2>1. \A n \in 0..N : F[n] = Def(F)[n]
    BY <1>8
  <2>2. 0 \in 0..N /\ \A m \in 1..N : m \in 0..N /\ m # 0
    BY <1>0
  <2> QED BY <2>1, <2>2
<1> DEFINE T == {m \in 0..N : F[m] = g[m]}
<1> HIDE DEF Def
<1>11. \A m \in 0..N : m \in T
  <2> HIDE DEF Add, N, Empty
  <2>1. T \in SUBSET (0..N)
    OBVIOUS
  <2>2. 0 \in T
    BY <1>0, <1>a, <1>10
  <2>3. ASSUME NEW m \in 1..N, m - 1 \in T PROVE m \in T
    <3>1. F[m - 1] = g[m - 1] /\ m \in 0..N
      BY <1>0, <2>3
    <3>2. F[m] = Add(F[m - 1], nodes[m]) /\ g[m] = Add(g[m - 1], nodes[m])
      BY <1>6, <1>10
    <3> QED BY <3>1, <3>2
  <2> HIDE DEF T
  <2> QED BY <1>0, <2>1, <2>2, <2>3, Inductively
<1>12. Load(nodes) = g[N]
  BY <1>0, <1>9, <1>11
<1>13. \A t \in InputTypes, b \in 0..MaxIndex : g[0][t][b] = <<>>
  BY <1>a
<1>14. ASSUME NEW m \in 1..N, NEW t \in InputTypes, NEW b \in 0..MaxIndex
       PROVE  g[m][t][b] = IF nodes[m].input = t /\ LoadBucket(nodes[m]) = b
                           THEN g[m - 1][t][b] \o Chain(nodes[m]) ELSE g[m - 1][t][b]
  <2> DEFINE old == g[m - 1]
             node == nodes[m]
  <2>1. old \in Tables /\ node \in Nodes
    BY <1>0, <1>6
  <2>2. g[m] = Add(old, node)
    BY <1>6
  <2> HIDE DEF Add, old, node
  <2>3. Add(old, node)[t][b] = IF node.input = t /\ LoadBucket(node) = b
                               THEN old[t][b] \o Chain(node) ELSE old[t][b]
    BY <1>2, <2>1
  <2> QED BY <2>2, <2>3 DEF old, node
<1> QED BY <1>a, <1>12, <1>13, <1>14

--------------------------------------------------------------------------
(* Bindings: finding                                                       *)

First(S) == CHOOSE i \in S : \A j \in S : i <= j

LEMMA FirstIs ==
  ASSUME NEW S \in SUBSET Nat, NEW i \in S, \A j \in S : i <= j
  PROVE  First(S) = i
<1>1. First(S) \in S /\ \A j \in S : First(S) <= j
  BY DEF First
<1>2. First(S) <= i /\ i <= First(S) /\ First(S) \in Nat /\ i \in Nat
  BY <1>1
<1> QED BY <1>2

\* Where the chains of a bucket begin, and which of them an event would run.
Hits(c, ev, x) == {i \in DOMAIN c : (i = 1 \/ ~c[i - 1].continued) /\ Holds(c[i], ev, x)}

FoundAt(c, ev, x, first, last) ==
  /\ first \in Hits(c, ev, x) /\ \A j \in Hits(c, ev, x) : first <= j
  /\ last \in first..Len(c) /\ ~c[last].continued
  /\ \A j \in first..(last - 1) : c[j].continued

LEMMA FoundNone ==
  ASSUME NEW c, NEW ev, NEW x, Hits(c, ev, x) = {}
  PROVE  Found(c, ev, x) = <<>>
  BY DEF Found, Hits

LEMMA FoundIs ==
  ASSUME NEW c \in Seq(BindingSet), NEW ev, NEW x, NEW first \in Nat, NEW last \in Nat,
         FoundAt(c, ev, x, first, last)
  PROVE  Found(c, ev, x) = SubSeq(c, first, last)
<1> DEFINE H == Hits(c, ev, x)
           F == CHOOSE i \in H : \A j \in H : i <= j
           L == CHOOSE i \in F..Len(c) :
                  ~c[i].continued /\ \A j \in F..(i - 1) : c[j].continued
<1>1. Len(c) \in Nat /\ DOMAIN c = 1..Len(c)
  OBVIOUS
<1>2. H \in SUBSET Nat
  BY <1>1 DEF Hits
<1>3. first \in H /\ \A j \in H : first <= j
  BY DEF FoundAt
<1>4. F = first
  <2> HIDE DEF H
  <2> QED BY <1>2, <1>3, FirstIs DEF First
<1>5. H # {}
  BY <1>3
<1>6. Found(c, ev, x) = SubSeq(c, F, L)
  BY <1>5 DEF Found, Hits
<1> HIDE DEF F, H
<1>7. L \in first..Len(c) /\ ~c[L].continued /\ \A j \in first..(L - 1) : c[j].continued
  <2>1. last \in F..Len(c) /\ ~c[last].continued /\ \A j \in F..(last - 1) : c[j].continued
    BY <1>4 DEF FoundAt
  <2>2. L \in F..Len(c) /\ ~c[L].continued /\ \A j \in F..(L - 1) : c[j].continued
    BY <2>1
  <2> QED BY <1>4, <2>2
<1>8. last \in first..Len(c) /\ ~c[last].continued /\ \A j \in first..(last - 1) : c[j].continued
  BY DEF FoundAt
<1> HIDE DEF L
<1>9. L = last
  <2>1. L \in Int /\ last \in Int /\ first <= L /\ first <= last
    BY <1>1, <1>7, <1>8
  <2>2. CASE L < last
    <3>1. L \in first..(last - 1)
      BY <2>1, <2>2
    <3> QED BY <1>7, <1>8, <3>1
  <2>3. CASE last < L
    <3>1. last \in first..(L - 1)
      BY <2>1, <2>3
    <3> QED BY <1>7, <1>8, <3>1
  <2> QED BY <2>1, <2>2, <2>3
<1> QED BY <1>4, <1>6, <1>9

\* A bucket c answers for the elements at S: the chain it finds is that of the first that holds.
Answers(nodes, c, S, ev, x) ==
  /\ c \in Seq(BindingSet) /\ (c # <<>> => ~c[Len(c)].continued)
  /\ \/ (\A i \in S : ~Holds(nodes[i], ev, x)) /\ Hits(c, ev, x) = {}
     \/ \E i \in S, first, last \in Nat :
          /\ Holds(nodes[i], ev, x) /\ \A j \in S : Holds(nodes[j], ev, x) => i <= j
          /\ FoundAt(c, ev, x, first, last) /\ SubSeq(c, first, last) = Chain(nodes[i])

LEMMA AnswersMore ==
  ASSUME NEW nodes, NEW c, NEW m \in Nat, NEW S \in SUBSET (1..(m - 1)), nodes[m] \in Nodes,
         NEW ev, NEW x, Answers(nodes, c, S, ev, x)
  PROVE  Answers(nodes, c \o Chain(nodes[m]), S \union {m}, ev, x)
<1> DEFINE n == nodes[m]
           ch == Chain(n)
           K == Len(ch)
           L == Len(c)
           d == c \o ch
           Hold == Holds(n, ev, x)
<1>1. /\ ch \in Seq(BindingSet) /\ K \in Nat /\ K > 0
      /\ ch[1].index = n.index /\ ch[1].when = n.when
      /\ \A i \in 1..K : ch[i].continued <=> i < K
  <2> HIDE DEF n
  <2>1. n \in Nodes
    BY DEF n
  <2> QED BY <2>1, ChainIs
<1>2. c \in Seq(BindingSet) /\ L \in Nat /\ DOMAIN c = 1..L /\ (L > 0 => ~c[L].continued)
  <2>1. c \in Seq(BindingSet) /\ (c # <<>> => ~c[L].continued)
    BY DEF Answers
  <2>2. L \in Nat /\ DOMAIN c = 1..L /\ (L > 0 => c # <<>>)
    BY <2>1
  <2> QED BY <2>1, <2>2
<1>3. Holds(ch[1], ev, x) <=> Hold
  BY <1>1 DEF Holds
<1> HIDE DEF ch, n, Hold
<1>4. /\ d \in Seq(BindingSet) /\ Len(d) = L + K /\ DOMAIN d = 1..(L + K)
      /\ \A i \in 1..L : d[i] = c[i]
      /\ \A i \in (L + 1)..(L + K) : d[i] = ch[i - L]
  <2>1. /\ d \in Seq(BindingSet) /\ Len(d) = L + K
        /\ \A i \in 1..(L + K) : d[i] = IF i <= L THEN c[i] ELSE ch[i - L]
    BY <1>1, <1>2, ConcatProperties
  <2>2. DOMAIN d = 1..Len(d)
    BY <2>1
  <2>3. \A i \in 1..L : i \in 1..(L + K) /\ i <= L
    BY <1>1, <1>2
  <2>4. \A i \in (L + 1)..(L + K) : i \in 1..(L + K) /\ ~(i <= L)
    BY <1>1, <1>2
  <2> HIDE DEF d, L, K
  <2> QED BY <2>1, <2>2, <2>3, <2>4
<1> HIDE DEF d, L, K
<1>5. d # <<>> => ~d[Len(d)].continued
  <2>1. L + K \in (L + 1)..(L + K) /\ (L + K) - L = K /\ K \in 1..K
    BY <1>1, <1>2
  <2> QED BY <1>1, <1>4, <2>1
<1>6. ASSUME NEW i \in 1..L PROVE i \in Hits(d, ev, x) <=> i \in Hits(c, ev, x)
  <2>1. i \in 1..(L + K) /\ d[i] = c[i]
    BY <1>1, <1>2, <1>4
  <2>2. i = 1 \/ (i - 1 \in 1..L /\ d[i - 1] = c[i - 1])
    BY <1>2, <1>4
  <2> QED BY <1>2, <1>4, <2>1, <2>2 DEF Hits
<1>7. L + 1 \in Hits(d, ev, x) <=> Hold
  <2>1. L + 1 \in (L + 1)..(L + K) /\ L + 1 \in 1..(L + K) /\ (L + 1) - L = 1
    BY <1>1, <1>2
  <2>2. d[L + 1] = ch[1]
    BY <1>4, <2>1
  <2>3. L + 1 = 1 \/ ~d[(L + 1) - 1].continued
    <3>1. CASE L = 0
      BY <3>1
    <3>2. CASE L > 0
      <4>1. L \in 1..L /\ (L + 1) - 1 = L
        BY <1>2, <3>2
      <4> QED BY <1>2, <1>4, <3>2, <4>1
    <3> QED BY <1>2, <3>1, <3>2
  <2> QED BY <1>3, <1>4, <2>1, <2>2, <2>3 DEF Hits
<1>8. ASSUME NEW i \in (L + 2)..(L + K) PROVE i \notin Hits(d, ev, x)
  <2>1. i - 1 \in (L + 1)..(L + K) /\ (i - 1) - L \in 1..K /\ (i - 1) - L < K /\ i # 1
    BY <1>1, <1>2
  <2>2. d[i - 1].continued
    BY <1>1, <1>4, <2>1
  <2> QED BY <2>1, <2>2 DEF Hits
<1>9. \A i \in Hits(d, ev, x) : i \in Hits(c, ev, x) \/ (i = L + 1 /\ Hold)
  <2> TAKE i \in Hits(d, ev, x)
  <2>1. i \in 1..(L + K)
    BY <1>4 DEF Hits
  <2>2. i \in 1..L \/ i = L + 1 \/ i \in (L + 2)..(L + K)
    BY <1>1, <1>2, <2>1
  <2> QED BY <1>6, <1>7, <1>8, <2>2
<1>10. Hits(c, ev, x) \subseteq 1..L
  BY <1>2 DEF Hits
<1>11. ASSUME \A i \in S : ~Holds(nodes[i], ev, x), Hits(c, ev, x) = {}, ~Hold
       PROVE  Answers(nodes, d, S \union {m}, ev, x)
  <2>1. Hits(d, ev, x) = {}
    BY <1>9, <1>11
  <2>2. \A i \in S \union {m} : ~Holds(nodes[i], ev, x)
    BY <1>11 DEF Hold, n
  <2> QED BY <1>4, <1>5, <2>1, <2>2 DEF Answers
<1>12. ASSUME \A i \in S : ~Holds(nodes[i], ev, x), Hits(c, ev, x) = {}, Hold
       PROVE  Answers(nodes, d, S \union {m}, ev, x)
  <2> DEFINE first == L + 1
             last == L + K
  <2>1. FoundAt(d, ev, x, first, last)
    <3>1. first \in Hits(d, ev, x) /\ \A j \in Hits(d, ev, x) : first <= j
      <4>1. \A j \in Hits(d, ev, x) : j = L + 1
        BY <1>9, <1>12
      <4>2. L + 1 <= L + 1
        BY <1>2
      <4> QED BY <1>7, <1>12, <4>1, <4>2
    <3>2. last \in first..Len(d) /\ last \in (L + 1)..(L + K) /\ last - L = K /\ K \in 1..K
      BY <1>1, <1>2, <1>4
    <3>3. ~d[last].continued
      BY <1>1, <1>4, <3>2
    <3>4. ASSUME NEW j \in first..(last - 1) PROVE d[j].continued
      <4>1. j \in (L + 1)..(L + K) /\ j - L \in 1..K /\ j - L < K
        BY <1>1, <1>2
      <4> QED BY <1>1, <1>4, <4>1
    <3> QED BY <3>1, <3>2, <3>3, <3>4 DEF FoundAt
  <2>2. SubSeq(d, first, last) = ch
    <3> DEFINE a == SubSeq(d, first, last)
    <3>1. first \in Int /\ last \in Int /\ 1 <= first /\ last <= Len(d) /\ last - first + 1 = K
      BY <1>1, <1>2, <1>4
    <3>2. /\ a \in Seq(BindingSet) /\ Len(a) = K
          /\ \A i \in 1..(last - first + 1) : a[i] = d[first + i - 1]
      <4>1. \A i \in first..last : d[i] \in BindingSet
        BY <1>1, <1>2, <1>4
      <4>2. first <= last
        BY <1>1, <1>2
      <4> HIDE DEF first, last
      <4> QED BY <3>1, <4>1, <4>2, SubSeqProperties
    <3>3. ASSUME NEW i \in 1..K PROVE a[i] = ch[i]
      <4>1. first + i - 1 \in (L + 1)..(L + K) /\ (first + i - 1) - L = i /\ i \in 1..(last - first + 1)
        BY <1>1, <1>2
      <4> HIDE DEF first, last, a
      <4> QED BY <1>4, <3>2, <4>1
    <3> HIDE DEF a
    <3>4. a = ch
      BY <1>1, <3>2, <3>3, SeqEqual DEF K
    <3> QED BY <3>4 DEF a
  <2>3. m \in S \union {m} /\ first \in Nat /\ last \in Nat
    BY <1>1, <1>2
  <2>4. Holds(nodes[m], ev, x) /\ \A j \in S \union {m} : Holds(nodes[j], ev, x) => m <= j
    <3>1. m <= m
      OBVIOUS
    <3> QED BY <1>12, <3>1 DEF Hold, n
  <2>5. SubSeq(d, first, last) = Chain(nodes[m])
    BY <2>2 DEF ch, n
  <2> HIDE DEF first, last
  <2> QED BY <1>4, <1>5, <2>1, <2>3, <2>4, <2>5 DEF Answers
<1>13. ASSUME NEW i \in S, NEW first \in Nat, NEW last \in Nat,
              Holds(nodes[i], ev, x), \A j \in S : Holds(nodes[j], ev, x) => i <= j,
              FoundAt(c, ev, x, first, last), SubSeq(c, first, last) = Chain(nodes[i])
       PROVE  Answers(nodes, d, S \union {m}, ev, x)
  <2>1. first \in 1..L /\ last \in first..L
    BY <1>2, <1>10, <1>13 DEF FoundAt, L
  <2>2. \A j \in first..last : j \in 1..L /\ d[j] = c[j]
    BY <1>2, <1>4, <2>1
  <2>3. FoundAt(d, ev, x, first, last)
    <3>1. first \in Hits(d, ev, x)
      BY <1>6, <1>13, <2>1 DEF FoundAt
    <3>2. \A j \in Hits(d, ev, x) : first <= j
      BY <1>2, <1>9, <1>13, <2>1 DEF FoundAt
    <3>3. last \in first..Len(d) /\ last \in first..last
      BY <1>1, <1>2, <1>4, <2>1
    <3>4. \A j \in first..(last - 1) : j \in first..last
      BY <1>2, <2>1
    <3> QED BY <1>13, <2>2, <3>1, <3>2, <3>3, <3>4 DEF FoundAt
  <2>4. SubSeq(d, first, last) = SubSeq(c, first, last)
    <3> DEFINE N == last - first + 1
    <3>1. /\ first \in Int /\ last \in Int /\ N \in Nat
          /\ \A k \in 1..N : first + k - 1 \in first..last
      BY <1>2, <2>1
    <3>2. ASSUME NEW e \in Seq(BindingSet), Len(e) >= last
          PROVE  /\ SubSeq(e, first, last) \in Seq(BindingSet)
                 /\ Len(SubSeq(e, first, last)) = N
                 /\ \A k \in 1..N : SubSeq(e, first, last)[k] = e[first + k - 1]
      <4>1. 1 <= first /\ first <= last + 1 /\ last <= Len(e) /\ Len(e) \in Nat
        BY <1>2, <2>1, <3>2
      <4> QED BY <3>1, <4>1, SubSeqProperties
    <3>3. Len(c) >= last /\ Len(d) >= last
      BY <1>1, <1>2, <1>4, <2>1 DEF L
    <3> DEFINE a == SubSeq(c, first, last)
               b == SubSeq(d, first, last)
    <3>4. /\ a \in Seq(BindingSet) /\ Len(a) = N /\ \A k \in 1..N : a[k] = c[first + k - 1]
          /\ b \in Seq(BindingSet) /\ Len(b) = N /\ \A k \in 1..N : b[k] = d[first + k - 1]
      BY <1>2, <1>4, <3>2, <3>3
    <3>5. \A k \in 1..N : a[k] = b[k]
      BY <2>2, <3>1, <3>4
    <3> HIDE DEF a, b, N
    <3>6. a = b
      BY <3>4, <3>5, SeqEqual
    <3> QED BY <3>6 DEF a, b
  <2>5. \A j \in S \union {m} : Holds(nodes[j], ev, x) => i <= j
    <3>1. i <= m
      OBVIOUS
    <3> QED BY <1>13, <3>1
  <2> QED BY <1>4, <1>5, <1>13, <2>3, <2>4, <2>5 DEF Answers
<1> QED BY <1>11, <1>12, <1>13 DEF Answers, d, ch, n

\* The elements of a bucket among the first m.
Asking(nodes, t, b, m) == {i \in 1..m : nodes[i].input = t /\ LoadBucket(nodes[i]) = b}

LEMMA BucketsAnswer ==
  ASSUME NEW nodes \in Seq(Nodes), NEW t \in InputTypes, NEW b \in 0..MaxIndex, NEW ev, NEW x
  PROVE  Answers(nodes, Load(nodes)[t][b], Asking(nodes, t, b, Len(nodes)), ev, x)
<1> DEFINE N == Len(nodes)
<1>0. N \in Nat /\ \A m \in 1..N : nodes[m] \in Nodes
  OBVIOUS
<1>1. PICK f \in [0..N -> Tables] :
        /\ \A u \in InputTypes, k \in 0..MaxIndex : f[0][u][k] = <<>>
        /\ \A m \in 1..N : \A u \in InputTypes, k \in 0..MaxIndex :
             f[m][u][k] = IF nodes[m].input = u /\ LoadBucket(nodes[m]) = k
                          THEN f[m - 1][u][k] \o Chain(nodes[m]) ELSE f[m - 1][u][k]
        /\ Load(nodes) = f[N]
  BY LoadIs
<1> HIDE DEF N
<1> DEFINE T == {m \in 0..N : Answers(nodes, f[m][t][b], Asking(nodes, t, b, m), ev, x)}
<1>2. T \in SUBSET (0..N)
  OBVIOUS
<1>3. 0 \in T
  <2>1. Asking(nodes, t, b, 0) = {}
    BY DEF Asking
  <2>2. Hits(<<>>, ev, x) = {} /\ <<>> \in Seq(BindingSet)
    BY DEF Hits
  <2>3. Answers(nodes, <<>>, {}, ev, x)
    BY <2>2 DEF Answers
  <2>4. f[0][t][b] = <<>> /\ 0 \in 0..N
    BY <1>0, <1>1
  <2>5. Answers(nodes, f[0][t][b], Asking(nodes, t, b, 0), ev, x)
    BY <2>1, <2>3, <2>4
  <2> QED BY <2>4, <2>5
<1>4. ASSUME NEW m \in 1..N, m - 1 \in T PROVE m \in T
  <2> DEFINE c == f[m - 1][t][b]
             S == Asking(nodes, t, b, m - 1)
             asks == nodes[m].input = t /\ LoadBucket(nodes[m]) = b
  <2>1. Answers(nodes, c, S, ev, x) /\ m \in Nat /\ m \in 0..N /\ nodes[m] \in Nodes
    BY <1>0, <1>4
  <2>2. S \in SUBSET (1..(m - 1))
    BY DEF Asking
  <2>3. Asking(nodes, t, b, m) = IF asks THEN S \union {m} ELSE S
    <3>1. \A i \in 1..m : i = m \/ i \in 1..(m - 1)
      OBVIOUS
    <3>2. m \in 1..m /\ \A i \in 1..(m - 1) : i \in 1..m /\ i # m
      OBVIOUS
    <3> QED BY <3>1, <3>2 DEF Asking
  <2>4. f[m][t][b] = IF asks THEN c \o Chain(nodes[m]) ELSE c
    BY <1>1
  <2> HIDE DEF c, S, asks
  <2>5. Answers(nodes, c \o Chain(nodes[m]), S \union {m}, ev, x)
    BY <2>1, <2>2, AnswersMore
  <2> QED BY <2>1, <2>3, <2>4, <2>5
<1> HIDE DEF T
<1>5. \A m \in 0..N : m \in T
  BY <1>0, <1>2, <1>3, <1>4, Inductively
<1>6. N \in T
  BY <1>0, <1>5
<1> QED BY <1>1, <1>6 DEF T, N

Holding(nodes, S, ev, x) == {i \in S : Holds(nodes[i], ev, x)}
FoundOf(nodes, c, S, ev, x) ==
  Found(c, ev, x) = IF Holding(nodes, S, ev, x) = {} THEN <<>>
                    ELSE Chain(nodes[First(Holding(nodes, S, ev, x))])

LEMMA AnswersFound ==
  ASSUME NEW nodes, NEW c, NEW S \in SUBSET Nat, NEW ev, NEW x, Answers(nodes, c, S, ev, x)
  PROVE  FoundOf(nodes, c, S, ev, x)
<1> DEFINE H == Holding(nodes, S, ev, x)
<1>1. c \in Seq(BindingSet)
  BY DEF Answers
<1>2. ASSUME \A i \in S : ~Holds(nodes[i], ev, x), Hits(c, ev, x) = {}
      PROVE  Found(c, ev, x) = <<>>
  BY <1>2, FoundNone
<1>3. ASSUME NEW i \in S, NEW first \in Nat, NEW last \in Nat,
             Holds(nodes[i], ev, x), \A j \in S : Holds(nodes[j], ev, x) => i <= j,
             FoundAt(c, ev, x, first, last), SubSeq(c, first, last) = Chain(nodes[i])
      PROVE  Found(c, ev, x) = Chain(nodes[First(H)]) /\ H # {}
  <2>1. i \in H /\ (\A j \in H : i <= j) /\ H \in SUBSET Nat
    BY <1>3 DEF Holding
  <2> HIDE DEF H
  <2>2. First(H) = i
    BY <2>1, FirstIs
  <2>3. Found(c, ev, x) = SubSeq(c, first, last)
    BY <1>1, <1>3, FoundIs
  <2> QED BY <1>3, <2>1, <2>2, <2>3
<1>4. CASE (\A i \in S : ~Holds(nodes[i], ev, x)) /\ Hits(c, ev, x) = {}
  BY <1>2, <1>4 DEF Holding, FoundOf
<1>5. CASE \E i \in S, first, last \in Nat :
             /\ Holds(nodes[i], ev, x) /\ \A j \in S : Holds(nodes[j], ev, x) => i <= j
             /\ FoundAt(c, ev, x, first, last) /\ SubSeq(c, first, last) = Chain(nodes[i])
  BY <1>3, <1>5 DEF FoundOf
<1>6. \/ (\A i \in S : ~Holds(nodes[i], ev, x)) /\ Hits(c, ev, x) = {}
      \/ \E i \in S, first, last \in Nat :
           /\ Holds(nodes[i], ev, x) /\ \A j \in S : Holds(nodes[j], ev, x) => i <= j
           /\ FoundAt(c, ev, x, first, last) /\ SubSeq(c, first, last) = Chain(nodes[i])
  BY DEF Answers
<1> QED BY <1>4, <1>5, <1>6

\* What a lookup finds: nothing, or the chain of an element.
LEMMA FoundAre ==
  ASSUME NEW nodes \in Seq(Nodes), NEW t \in InputTypes, NEW b \in 0..MaxIndex, NEW ev, NEW x
  PROVE  LET S == Holding(nodes, Asking(nodes, t, b, Len(nodes)), ev, x)
         IN  /\ S = {} => Found(Load(nodes)[t][b], ev, x) = <<>>
             /\ S # {} => /\ First(S) \in S
                          /\ Found(Load(nodes)[t][b], ev, x) = Chain(nodes[First(S)])
                          /\ Found(Load(nodes)[t][b], ev, x) # <<>>
<1> DEFINE A == Asking(nodes, t, b, Len(nodes))
           S == Holding(nodes, A, ev, x)
           c == Load(nodes)[t][b]
<1>1. A \in SUBSET Nat /\ A \subseteq 1..Len(nodes) /\ Len(nodes) \in Nat
  BY DEF Asking
<1>2. Answers(nodes, c, A, ev, x)
  BY BucketsAnswer
<1> HIDE DEF A, c
<1>3. Found(c, ev, x) = IF S = {} THEN <<>> ELSE Chain(nodes[First(S)])
  <2>1. A \in SUBSET Nat
    BY <1>1
  <2>2. FoundOf(nodes, c, A, ev, x)
    BY <1>2, <2>1, AnswersFound
  <2> QED BY <2>2 DEF FoundOf
<1>4. ASSUME S # {} PROVE First(S) \in S /\ Chain(nodes[First(S)]) # <<>>
  <2>1. S \subseteq 1..Len(nodes)
    BY <1>1 DEF Holding
  <2>2. PICK i \in S : \A j \in S : i <= j
    <3> HIDE DEF S
    <3>1. S \in SUBSET (0..Len(nodes))
      BY <1>1, <2>1
    <3> QED BY <1>1, <1>4, <3>1, Least
  <2>3. First(S) = i
    <3>1. S \in SUBSET Nat
      BY <1>1, <2>1
    <3> HIDE DEF S
    <3> QED BY <2>2, <3>1, FirstIs
  <2>4. nodes[i] \in Nodes
    BY <2>1, <2>2
  <2>5. Chain(nodes[i]) # <<>>
    <3> DEFINE n == nodes[i]
    <3> HIDE DEF n
    <3>1. n \in Nodes
      BY <2>4 DEF n
    <3>2. Len(Chain(n)) > 0
      BY <3>1, ChainIs
    <3>3. Chain(n) # <<>>
      BY <3>2
    <3> QED BY <3>3 DEF n
  <2> QED BY <2>2, <2>3, <2>5
<1> QED BY <1>3, <1>4 DEF A, c

\* Of two buckets, the first has those that ask for the value of the event.
LEMMA FirstsFound ==
  ASSUME file \in Seq(Nodes), registry = Load(file)
  PROVE  SpecificFirst
<1> SUFFICES ASSUME NEW t \in {file[i].input : i \in DOMAIN file}, NEW raw \in RawValues
             PROVE  LET ev    == [input |-> t, raw |-> raw]
                        hits  == {i \in DOMAIN file : file[i].input = t /\ Holds(file[i], ev, variable)}
                        exact == {i \in hits : t \in Indexed /\ raw >= 0 /\ file[i].index = raw}
                    IN Matched(ev, variable) = IF exact # {} THEN Chain(file[First(exact)])
                                               ELSE IF hits # {} THEN Chain(file[First(hits)]) ELSE <<>>
  BY DEF SpecificFirst, First
<1> DEFINE ev    == [input |-> t, raw |-> raw]
           hits  == {i \in DOMAIN file : file[i].input = t /\ Holds(file[i], ev, variable)}
           exact == {i \in hits : t \in Indexed /\ raw >= 0 /\ file[i].index = raw}
           near  == IF t \in Indexed THEN Bucket(raw) ELSE 0
           In(b) == Holding(file, Asking(file, t, b, Len(file)), ev, variable)
           Got(b) == Found(Load(file)[t][b], ev, variable)
<1>0. /\ Len(file) \in Nat /\ DOMAIN file = 1..Len(file) /\ \A i \in DOMAIN file : file[i] \in Nodes
      /\ \A i \in DOMAIN file : /\ file[i].input \in InputTypes
                                /\ file[i].index \in Int \union {Anything, Var}
      /\ MaxIndex \in Nat /\ MaxIndex > 0 /\ raw \in Int
      /\ Anything \notin Int /\ Var \notin Int /\ Arg \notin Int /\ Var # Anything /\ Arg # Var
  <2>1. Len(file) \in Nat /\ DOMAIN file = 1..Len(file) /\ \A i \in DOMAIN file : file[i] \in Nodes
    OBVIOUS
  <2>2. \A i \in DOMAIN file : /\ file[i].input \in InputTypes
                               /\ file[i].index \in Int \union {Anything, Var}
    BY <2>1, NodeIs
  <2>3. /\ MaxIndex \in Nat /\ MaxIndex > 0 /\ raw \in Int
        /\ Anything \notin Int /\ Var \notin Int /\ Arg \notin Int /\ Var # Anything /\ Arg # Var
    BY BindingsAssumption
  <2> QED BY <2>1, <2>2, <2>3
<1>1. t \in InputTypes
  BY <1>0
<1>2. Bucket(raw) \in 0..MaxIndex /\ near \in 0..MaxIndex /\ MaxIndex \in 0..MaxIndex
      /\ (raw < 0 => Bucket(raw) = MaxIndex) /\ (raw >= 0 => Bucket(raw) < MaxIndex)
  BY <1>0 DEF Bucket
<1>3. Matched(ev, variable) = IF Got(near) = <<>> /\ t \in Indexed THEN Got(MaxIndex) ELSE Got(near)
  BY DEF Matched
<1>4. ASSUME NEW b \in 0..MaxIndex
      PROVE  /\ In(b) = {} => Got(b) = <<>>
             /\ In(b) # {} => Got(b) = Chain(file[First(In(b))]) /\ Got(b) # <<>>
  BY <1>1, FoundAre
<1>5. ASSUME NEW b \in 0..MaxIndex PROVE In(b) = {i \in hits : LoadBucket(file[i]) = b}
  BY <1>0 DEF Asking, Holding
\* What holds with a literal asks for the value of the event.
<1>6. ASSUME NEW i \in hits PROVE file[i].index \in {Anything, Var} \/ file[i].index = raw
  <2>1. file[i].index \in Int \union {Anything, Var}
    BY <1>0
  <2>2. file[i].index = Anything \/ Value(file[i].index, ev, variable) = raw
    BY DEF Holds
  <2>3. ASSUME file[i].index \in Int PROVE Value(file[i].index, ev, variable) = file[i].index
    <3>1. file[i].index # Var /\ file[i].index # Arg
      BY <1>0, <2>3
    <3> QED BY <3>1 DEF Value
  <2> QED BY <2>1, <2>2, <2>3
<1>7. CASE t \notin Indexed
  <2>1. \A i \in hits : LoadBucket(file[i]) = 0
    BY <1>7 DEF LoadBucket
  <2>2. In(near) = hits /\ exact = {}
    BY <1>2, <1>5, <1>7, <2>1
  <2> QED BY <1>2, <1>3, <1>4, <1>7, <2>2
<1>8. CASE t \in Indexed /\ raw < 0
  <2>1. \A i \in hits : LoadBucket(file[i]) = MaxIndex
    BY <1>2, <1>6, <1>8 DEF LoadBucket
  <2>2. near = MaxIndex /\ exact = {}
    BY <1>0, <1>2, <1>8
  <2>3. In(MaxIndex) = hits
    BY <1>2, <1>5, <2>1
  <2> QED BY <1>2, <1>3, <1>4, <2>2, <2>3
<1>9. CASE t \in Indexed /\ raw >= 0
  <2>1. ASSUME NEW i \in hits
        PROVE  LoadBucket(file[i]) = IF file[i].index = raw THEN near ELSE MaxIndex
    <3>1. CASE file[i].index = raw
      BY <1>0, <1>9, <3>1 DEF LoadBucket
    <3>2. CASE file[i].index \in {Anything, Var}
      <4>1. file[i].index # raw
        BY <1>0, <3>2
      <4> QED BY <1>9, <3>2, <4>1 DEF LoadBucket
    <3> QED BY <1>6, <3>1, <3>2
  <2>2. near # MaxIndex
    BY <1>0, <1>2, <1>9
  <2>3. In(near) = exact /\ In(MaxIndex) = hits \ exact
    BY <1>2, <1>5, <1>9, <2>1, <2>2
  <2>4. CASE exact # {}
    BY <1>2, <1>3, <1>4, <2>3, <2>4
  <2>5. CASE exact = {}
    <3>1. In(near) = {} /\ In(MaxIndex) = hits
      BY <2>3, <2>5
    <3>2. Matched(ev, variable) = Got(MaxIndex)
      BY <1>2, <1>3, <1>4, <1>9, <3>1
    <3> QED BY <1>2, <1>4, <2>5, <3>1, <3>2
  <2> QED BY <2>4, <2>5
<1>10. raw < 0 \/ raw >= 0
  BY <1>0
<1> QED BY <1>7, <1>8, <1>9, <1>10

--------------------------------------------------------------------------
(* Bindings: dispatching                                                   *)

\* What was set last before place i of a log is v.
SetLast(log, i, v) ==
  \E j \in 1..i : /\ log[j].did = "set" /\ log[j].value = v
                  /\ \A k \in (j + 1)..i : log[k].did # "set"

\* Every command that carries the variable carries what was set last, and so does d itself.
Sees(log) == \A i \in 1..Len(log) : log[i].did = "send" => SetLast(log, i, log[i].value)
Current == {d \in Dispatches : Sees(d.log) /\ SetLast(d.log, Len(d.log), d.x)}

\* Dispatches that keep it so.
Deeper == {f \in [Calls -> Dispatches] : \A c \in Calls : c.d \in Current => f[c] \in Current}

LogSet == [did : {"set", "send", "other"}, value : Int]

LEMMA DispatchIs ==
  ASSUME NEW d \in Dispatches
  PROVE  /\ d.x \in Int /\ d.batch \in Nat /\ d.failed \in BOOLEAN
         /\ d.log \in Seq(LogSet) /\ Len(d.log) \in Nat
  BY DEF Dispatches, LogSet

LEMMA BatchIs == BatchCapacity \in Nat /\ MAX_GOSUB_DEPTH \in Nat
  BY BindingsAssumption

\* An entry more.
LEMMA LogMore ==
  ASSUME NEW log \in Seq(LogSet), NEW e \in LogSet
  PROVE  /\ Append(log, e) \in Seq(LogSet) /\ Len(Append(log, e)) = Len(log) + 1
         /\ \A i \in 1..Len(log) : Append(log, e)[i] = log[i]
         /\ Append(log, e)[Len(log) + 1] = e
  BY AppendProperties

LEMMA SeesMore ==
  ASSUME NEW log \in Seq(LogSet), NEW e \in LogSet, NEW x, Sees(log), SetLast(log, Len(log), x),
         e.did = "send" => e.value = x
  PROVE  /\ Sees(Append(log, e))
         /\ SetLast(Append(log, e), Len(log) + 1, IF e.did = "set" THEN e.value ELSE x)
<1> DEFINE N == Len(log)
           new == Append(log, e)
<1>1. /\ N \in Nat /\ Len(new) = N + 1 /\ new[N + 1] = e
      /\ \A i \in 1..N : new[i] = log[i]
  BY LogMore
<1>2. Sees(log) /\ SetLast(log, N, x)
  OBVIOUS
<1> HIDE DEF N, new
<1>3. ASSUME NEW i \in 1..N, NEW v, SetLast(log, i, v) PROVE SetLast(new, i, v)
  <2>1. PICK j \in 1..i : /\ log[j].did = "set" /\ log[j].value = v
                          /\ \A k \in (j + 1)..i : log[k].did # "set"
    BY <1>3 DEF SetLast
  <2>2. j \in 1..N /\ \A k \in (j + 1)..i : k \in 1..N
    BY <1>1
  <2>3. new[j] = log[j] /\ \A k \in (j + 1)..i : new[k] = log[k]
    BY <1>1, <2>2
  <2> QED BY <2>1, <2>3 DEF SetLast
<1>4. CASE e.did = "set"
  <2>1. N + 1 \in 1..(N + 1) /\ \A k \in ((N + 1) + 1)..(N + 1) : FALSE
    BY <1>1
  <2>2. SetLast(new, N + 1, e.value)
    BY <1>1, <1>4, <2>1 DEF SetLast
  <2>3. \A i \in 1..(N + 1) : new[i].did = "send" => i \in 1..N
    BY <1>1, <1>4
  <2>4. Sees(new)
    BY <1>1, <1>2, <1>3, <2>3 DEF Sees, N
  <2> QED BY <1>4, <2>2, <2>4 DEF N, new
<1>5. CASE e.did # "set"
  <2>1. PICK j \in 1..N : /\ log[j].did = "set" /\ log[j].value = x
                          /\ \A k \in (j + 1)..N : log[k].did # "set"
    BY <1>2 DEF SetLast
  <2>2. ASSUME NEW k \in (j + 1)..(N + 1) PROVE new[k].did # "set"
    <3>1. k = N + 1 \/ (k \in (j + 1)..N /\ k \in 1..N)
      BY <1>1
    <3> QED BY <1>1, <1>5, <2>1, <3>1
  <2>3. j \in 1..(N + 1) /\ new[j] = log[j]
    BY <1>1
  <2>4. SetLast(new, N + 1, x)
    BY <2>1, <2>2, <2>3 DEF SetLast
  <2>5. ASSUME NEW i \in 1..(N + 1), new[i].did = "send" PROVE SetLast(new, i, new[i].value)
    <3>1. CASE i = N + 1
      BY <1>1, <2>4, <2>5, <3>1
    <3>2. CASE i # N + 1
      <4>1. i \in 1..N
        BY <1>1, <3>2
      <4> QED BY <1>1, <1>2, <1>3, <2>5, <4>1 DEF Sees, N
    <3> QED BY <3>1, <3>2
  <2>6. Sees(new)
    BY <1>1, <2>5 DEF Sees
  <2> QED BY <1>5, <2>4, <2>6 DEF N, new
<1> QED BY <1>4, <1>5

LEMMA ValueIs ==
  ASSUME NEW exp \in Int \union {Var, Arg}, NEW ev, ev.raw \in Int, NEW x \in Int
  PROVE  Value(exp, ev, x) \in Int
  BY DEF Value

\* One output.
LEMMA OutputKeeps ==
  ASSUME NEW out \in OutputSet, NEW ev, ev.raw \in Int, NEW d \in Dispatches, NEW matched,
         NEW deeper \in Deeper
  PROVE  LET r == RunOutput(out, ev, d, matched, deeper)
         IN  r \in Dispatches /\ (d \in Current => r \in Current)
<1> DEFINE v == Value(out.value, ev, d.x)
           r == RunOutput(out, ev, d, matched, deeper)
<1>1. /\ d.x \in Int /\ d.batch \in Nat /\ d.failed \in BOOLEAN
      /\ d.log \in Seq(LogSet) /\ Len(d.log) \in Nat
  BY DispatchIs
<1>2. /\ out.op \in {"set", "send", "gosub", "bad"} /\ out.value \in Int \union {Var, Arg}
      /\ v \in Int /\ d.x \in Int
  BY <1>1, ValueIs DEF OutputSet
<1>3. out.value = Var => v = d.x
  BY BindingsAssumption DEF Value
<1>4. v = Parameter(out, ev, d, matched)
  BY DEF Parameter
<1> HIDE DEF v
<1>5. ASSUME NEW e \in LogSet, NEW b \in Nat, NEW x \in Int, e.did = "send" => e.value = d.x,
             x = IF e.did = "set" THEN e.value ELSE d.x
      PROVE  LET n == [d EXCEPT !.x = x, !.log = Append(@, e), !.batch = b]
             IN  n \in Dispatches /\ (d \in Current => n \in Current)
  <2> DEFINE log == Append(d.log, e)
             n == [d EXCEPT !.x = x, !.log = log, !.batch = b]
  <2>1. log \in Seq(LogSet) /\ Len(log) = Len(d.log) + 1
    BY <1>1, <1>5, LogMore
  <2>2. d \in Current => Sees(log) /\ SetLast(log, Len(log), x)
    BY <1>1, <1>5, <2>1, SeesMore DEF Current
  <2> HIDE DEF log
  <2>3. n \in Dispatches /\ n.log = log /\ n.x = x
    BY <1>1, <2>1 DEF Dispatches, LogSet
  <2> QED BY <2>2, <2>3 DEF Current, log
<1>6. CASE out.op = "set"
  <2> DEFINE e == [did |-> "set", value |-> v]
             n == [d EXCEPT !.x = v, !.log = Append(@, e), !.batch = d.batch]
  <2>1. e \in LogSet /\ e.did = "set" /\ e.value = v
    BY <1>2 DEF LogSet
  <2>2. r = n
    <3>1. r = SetVariable(out, ev, d, matched)
      BY <1>6 DEF RunOutput
    <3>2. d = [d EXCEPT !.batch = d.batch]
      BY DEF Dispatches
    <3>3. SetVariable(out, ev, d, matched) = [d EXCEPT !.x = v, !.log = Append(@, e)]
      BY <1>4 DEF SetVariable
    <3>4. [d EXCEPT !.x = v, !.log = Append(@, e)] = n
      BY DEF Dispatches
    <3> QED BY <3>1, <3>3, <3>4
  <2> HIDE DEF e
  <2>3. n \in Dispatches /\ (d \in Current => n \in Current)
    BY <1>1, <1>2, <1>5, <2>1
  <2> QED BY <2>2, <2>3
<1>7. CASE out.op = "send" /\ d.batch # BatchCapacity
  <2> DEFINE e == [did |-> IF out.value = Var THEN "send" ELSE "other", value |-> v]
             n == [d EXCEPT !.x = d.x, !.log = Append(@, e), !.batch = d.batch + 1]
  <2>1. e \in LogSet /\ e.did # "set" /\ (e.did = "send" => e.value = d.x)
    BY <1>2, <1>3 DEF LogSet
  <2>2. r = n
    <3>1. r = PushAction(out, ev, d, matched)
      BY <1>7 DEF RunOutput
    <3>2. PushAction(out, ev, d, matched) = [d EXCEPT !.batch = @ + 1, !.log = Append(@, e)]
      BY <1>4, <1>7 DEF PushAction
    <3>3. [d EXCEPT !.batch = @ + 1, !.log = Append(@, e)] = n
      BY DEF Dispatches
    <3> QED BY <3>1, <3>2, <3>3
  <2> HIDE DEF e
  <2>3. d.batch + 1 \in Nat
    BY <1>1
  <2>4. n \in Dispatches /\ (d \in Current => n \in Current)
    BY <1>1, <1>5, <2>1, <2>3
  <2> QED BY <2>2, <2>4
<1>8. ASSUME NEW a \in Dispatches
      PROVE  LET n == [a EXCEPT !.failed = TRUE]
             IN  n \in Dispatches /\ (a \in Current => n \in Current)
  BY DEF Dispatches, Current
<1>9. CASE (out.op = "send" /\ d.batch = BatchCapacity) \/ out.op = "bad"
  <2>1. r = [d EXCEPT !.failed = TRUE]
    BY <1>9 DEF RunOutput, PushAction
  <2> QED BY <1>8, <2>1
<1>10. CASE out.op = "gosub"
  <2> DEFINE in == [d EXCEPT !.batch = 0]
             call == [ev |-> [input |-> "sub", raw |-> v], d |-> in]
             n == deeper[call]
  <2>1. in \in Dispatches /\ (d \in Current => in \in Current)
    BY DEF Dispatches, Current
  <2>2. call \in Calls /\ call.d = in
    BY <1>2, <2>1 DEF Calls, InputTypes, Indexed
  <2>3. r = Join(d, n)
    BY <1>4, <1>10 DEF RunOutput
  <2> HIDE DEF call, in
  <2>4. n \in Dispatches /\ (d \in Current => n \in Current)
    BY <2>1, <2>2 DEF Deeper
  <2> HIDE DEF n
  <2>5. ASSUME NEW b \in Nat
        PROVE  LET m == [n EXCEPT !.batch = b] IN m \in Dispatches /\ (n \in Current => m \in Current)
    BY <2>4 DEF Dispatches, Current
  <2>6. CASE r = [n EXCEPT !.failed = TRUE]
    BY <1>8, <2>4, <2>6
  <2>7. CASE r = [n EXCEPT !.batch = @ + d.batch]
    <3>1. n.batch + d.batch \in Nat
      BY <1>1, <2>4, DispatchIs
    <3> QED BY <2>4, <2>5, <2>7, <3>1
  <2> QED BY <2>3, <2>6, <2>7 DEF Join
<1> QED BY <1>2, <1>6, <1>7, <1>9, <1>10

\* The outputs of a chain, whether d is only a dispatch or keeps the variable's writes in sight.
LEMMA ChainKeeps ==
  ASSUME NEW chain, Len(chain) \in Nat, \A i \in 1..Len(chain) : chain[i].output \in OutputSet,
         NEW ev, ev.raw \in Int, NEW deeper \in Deeper,
         NEW S \in {Dispatches, Current}, NEW d \in S
  PROVE  RunChain(chain, ev, d, deeper) \in S
<1> DEFINE N == Len(chain)
           Run(i, u) == IF u.failed THEN u ELSE RunOutput(chain[i].output, ev, u, d.x, deeper)
           Def(f) == [i \in 0..Len(chain) |->
                        IF i = 0 THEN d
                        ELSE IF f[i - 1].failed THEN f[i - 1]
                             ELSE RunOutput(chain[i].output, ev, f[i - 1], d.x, deeper)]
           F == CHOOSE f : f = Def(f)
           Steps == [m \in 1..N |-> [u \in S |-> Run(m, u)]]
<1>0. N \in Nat
  OBVIOUS
<1>1. ASSUME NEW m \in 1..N, NEW u \in S PROVE Run(m, u) \in S
  <2>1. u \in Dispatches /\ chain[m].output \in OutputSet
    BY DEF Current
  <2> DEFINE r == RunOutput(chain[m].output, ev, u, d.x, deeper)
  <2>2. r \in Dispatches /\ (u \in Current => r \in Current)
    BY <2>1, OutputKeeps
  <2> HIDE DEF r
  <2>3. r \in S
    BY <2>2
  <2> QED BY <2>3 DEF r
<1> HIDE DEF Run
<1>2. StaysIn(S, N, Steps)
  BY <1>1 DEF StaysIn
<1>3. PICK g : Iterated(S, N, Steps, d, g)
  <2> HIDE DEF N, Steps
  <2> QED BY <1>0, <1>2, Iterates
<1>4. g \in [0..N -> S] /\ g[0] = d
  BY <1>3 DEF Iterated
<1>5. ASSUME NEW m \in 1..N PROVE g[m - 1] \in S /\ g[m] = Run(m, g[m - 1])
  <2>1. m - 1 \in 0..N
    BY <1>0
  <2> HIDE DEF N
  <2>2. Steps[m] = [u \in S |-> Run(m, u)]
    OBVIOUS
  <2> HIDE DEF Steps
  <2>3. g[m] = Steps[m][g[m - 1]] /\ g[m - 1] \in S
    BY <1>3, <1>4, <2>1 DEF Iterated
  <2> QED BY <2>2, <2>3
<1>6. g = Def(g)
  <2>1. ASSUME NEW n \in 0..N PROVE g[n] = Def(g)[n]
    <3>1. CASE n = 0
      BY <1>4, <3>1
    <3>2. CASE n # 0
      <4>1. n \in 1..N
        BY <1>0, <3>2
      <4> QED BY <1>5, <3>2, <4>1 DEF Run
    <3> QED BY <3>1, <3>2
  <2>2. g = [n \in 0..N |-> g[n]]
    BY <1>4
  <2> QED BY <2>1, <2>2
<1>7. F = Def(F)
  BY <1>6
<1>8. RunChain(chain, ev, d, deeper) = F[Len(chain)]
  BY DEF RunChain
<1> HIDE DEF F
<1>9. F[0] = d /\ \A m \in 1..N : F[m] = Run(m, F[m - 1])
  <2>1. \A n \in 0..N : F[n] = Def(F)[n]
    BY <1>7
  <2>2. 0 \in 0..N /\ \A m \in 1..N : m \in 0..N /\ m # 0
    BY <1>0
  <2> QED BY <2>1, <2>2 DEF Run
<1> HIDE DEF Def, N, Steps
<1> DEFINE T == {m \in 0..N : F[m] \in S}
<1>10. \A m \in 0..N : m \in T
  <2>1. T \in SUBSET (0..N) /\ 0 \in T
    BY <1>0, <1>9
  <2>2. ASSUME NEW m \in 1..N, m - 1 \in T PROVE m \in T
    BY <1>0, <1>1, <1>9, <2>2
  <2> HIDE DEF T
  <2> QED BY <1>0, <2>1, <2>2, Inductively
<1> QED BY <1>0, <1>8, <1>10 DEF N

\* The chain of an event is made of outputs.
LEMMA MatchedIs ==
  ASSUME file \in Seq(Nodes), registry = Load(file), NEW ev, ev.input \in InputTypes, ev.raw \in Int,
         NEW x
  PROVE  LET chain == IF Matched(ev, x) = <<>> THEN Unbound(ev) ELSE Matched(ev, x)
         IN  Len(chain) \in Nat /\ \A i \in 1..Len(chain) : chain[i].output \in OutputSet
<1> DEFINE Got(b) == Found(registry[ev.input][b], ev, x)
           Runs(chain) == Len(chain) \in Nat /\ \A i \in 1..Len(chain) : chain[i].output \in OutputSet
<1>1. MaxIndex \in Nat /\ MaxIndex > 0
  BY BindingsAssumption
<1>2. Bucket(ev.raw) \in 0..MaxIndex /\ MaxIndex \in 0..MaxIndex /\ 0 \in 0..MaxIndex
  BY <1>1 DEF Bucket
<1>3. ASSUME NEW b \in 0..MaxIndex, Got(b) # <<>> PROVE Runs(Got(b))
  <2> DEFINE S == Holding(file, Asking(file, ev.input, b, Len(file)), ev, x)
             n == file[First(S)]
  <2>1. S # {} /\ First(S) \in S /\ Got(b) = Chain(n)
    BY <1>3, FoundAre
  <2>2. n \in Nodes
    BY <2>1 DEF Holding, Asking
  <2> HIDE DEF n, Got
  <2>3. Chain(n) \in Seq(BindingSet)
    BY <2>2, ChainIs
  <2> DEFINE c == Chain(n)
  <2> HIDE DEF c
  <2>4. c \in Seq(BindingSet)
    BY <2>3 DEF c
  <2>5. Len(c) \in Nat /\ \A i \in 1..Len(c) : c[i] \in BindingSet
    BY <2>4
  <2>6. Runs(c)
    BY <2>5 DEF BindingSet
  <2> QED BY <2>1, <2>6 DEF c
<1>4. Runs(Unbound(ev))
  <2> DEFINE one == [output |-> [op |-> "send", value |-> 0]]
  <2>1. one.output \in OutputSet
    BY DEF OutputSet
  <2>2. Len(<<one>>) = 1 /\ <<one>>[1] = one
    OBVIOUS
  <2> HIDE DEF one
  <2>3. Runs(<<one>>) /\ Runs(<<>>)
    BY <2>1, <2>2
  <2> HIDE DEF Runs
  <2> QED BY <2>3 DEF Unbound, one
<1>5. \E b \in 0..MaxIndex : Matched(ev, x) = Got(b)
  BY <1>2 DEF Matched
<1> HIDE DEF Runs, Got
<1>6. Runs(IF Matched(ev, x) = <<>> THEN Unbound(ev) ELSE Matched(ev, x))
  BY <1>3, <1>4, <1>5
<1> QED BY <1>6 DEF Runs

\* However deep the events go.
LEMMA DepthKeeps ==
  ASSUME file \in Seq(Nodes), registry = Load(file)
  PROVE  DispatchAtDepth \in Deeper
<1> DEFINE N == MAX_GOSUB_DEPTH + 1
           ChainOf(c) == IF Matched(c.ev, c.d.x) = <<>> THEN Unbound(c.ev) ELSE Matched(c.ev, c.d.x)
           Level(u) == [c \in Calls |-> RunChain(ChainOf(c), c.ev, c.d, u)]
           Bottom == [c \in Calls |-> [c.d EXCEPT !.failed = TRUE]]
           Def(f) == [n \in 0..(MAX_GOSUB_DEPTH + 1) |->
                        [call \in Calls |->
                           IF n = 0 THEN [call.d EXCEPT !.failed = TRUE]
                           ELSE RunChain(IF Matched(call.ev, call.d.x) = <<>> THEN Unbound(call.ev)
                                         ELSE Matched(call.ev, call.d.x), call.ev, call.d, f[n - 1])]]
           F == CHOOSE f : f = Def(f)
           Steps == [m \in 1..N |-> [u \in Deeper |-> Level(u)]]
<1>0. N \in Nat
  BY BatchIs
<1>1. ASSUME NEW c \in Calls
      PROVE  /\ c.d \in Dispatches /\ c.ev.raw \in Int /\ c.ev.input \in InputTypes
             /\ Len(ChainOf(c)) \in Nat /\ \A i \in 1..Len(ChainOf(c)) : ChainOf(c)[i].output \in OutputSet
  <2> DEFINE e == c.ev
             x == c.d.x
  <2>1. c.d \in Dispatches /\ e.raw \in Int /\ e.input \in InputTypes
    BY DEF Calls
  <2> HIDE DEF e, x
  <2>2. LET chain == IF Matched(e, x) = <<>> THEN Unbound(e) ELSE Matched(e, x)
        IN  Len(chain) \in Nat /\ \A i \in 1..Len(chain) : chain[i].output \in OutputSet
    BY <2>1, MatchedIs
  <2> QED BY <2>1, <2>2 DEF e, x
<1> HIDE DEF ChainOf
<1>2. ASSUME NEW u \in Deeper PROVE Level(u) \in Deeper
  <2>1. ASSUME NEW c \in Calls
        PROVE  /\ RunChain(ChainOf(c), c.ev, c.d, u) \in Dispatches
               /\ c.d \in Current => RunChain(ChainOf(c), c.ev, c.d, u) \in Current
    BY <1>1, ChainKeeps
  <2> QED BY <2>1 DEF Deeper
<1>3. Bottom \in Deeper
  <2>1. ASSUME NEW c \in Calls
        PROVE  /\ [c.d EXCEPT !.failed = TRUE] \in Dispatches
               /\ c.d \in Current => [c.d EXCEPT !.failed = TRUE] \in Current
    BY <1>1 DEF Dispatches, Current
  <2> QED BY <2>1 DEF Deeper
<1> HIDE DEF Level, Bottom
<1>4. StaysIn(Deeper, N, Steps)
  BY <1>2 DEF StaysIn
<1>5. PICK g : Iterated(Deeper, N, Steps, Bottom, g)
  <2> HIDE DEF N, Steps
  <2> QED BY <1>0, <1>3, <1>4, Iterates
<1>6. g \in [0..N -> Deeper] /\ g[0] = Bottom
  BY <1>5 DEF Iterated
<1>7. ASSUME NEW m \in 1..N PROVE g[m - 1] \in Deeper /\ g[m] = Level(g[m - 1])
  <2>1. m - 1 \in 0..N
    BY <1>0
  <2> HIDE DEF N
  <2>2. Steps[m] = [u \in Deeper |-> Level(u)]
    OBVIOUS
  <2> HIDE DEF Steps
  <2>3. g[m] = Steps[m][g[m - 1]] /\ g[m - 1] \in Deeper
    BY <1>5, <1>6, <2>1 DEF Iterated
  <2> QED BY <2>2, <2>3
<1>8. ASSUME NEW f, NEW n \in 0..N
      PROVE  Def(f)[n] = IF n = 0 THEN Bottom ELSE Level(f[n - 1])
  <2>1. CASE n = 0
    BY <2>1 DEF Bottom
  <2>2. CASE n # 0
    BY <2>2 DEF Level, ChainOf
  <2> QED BY <2>1, <2>2
<1>9. g = Def(g)
  <2>1. ASSUME NEW n \in 0..N PROVE g[n] = Def(g)[n]
    <3> HIDE DEF Def
    <3>1. CASE n = 0
      BY <1>6, <1>8, <3>1
    <3>2. CASE n # 0
      <4>1. n \in 1..N
        BY <1>0, <3>2
      <4> QED BY <1>7, <1>8, <3>2, <4>1
    <3> QED BY <3>1, <3>2
  <2>2. g = [n \in 0..N |-> g[n]]
    BY <1>6
  <2>3. Def(g) = [n \in 0..N |-> Def(g)[n]]
    OBVIOUS
  <2> HIDE DEF Def
  <2> QED BY <2>1, <2>2, <2>3
<1>10. F = Def(F)
  BY <1>9
<1>11. DispatchAtDepth = F[MAX_GOSUB_DEPTH + 1]
  BY DEF DispatchAtDepth
<1> HIDE DEF F, Def, N, Steps
<1>12. F[0] = Bottom /\ \A m \in 1..N : F[m] = Level(F[m - 1])
  <2>1. \A n \in 0..N : F[n] = Def(F)[n]
    BY <1>10
  <2>2. 0 \in 0..N /\ \A m \in 1..N : m \in 0..N /\ m # 0
    BY <1>0
  <2> QED BY <1>8, <2>1, <2>2
<1> DEFINE T == {m \in 0..N : F[m] \in Deeper}
<1>13. \A m \in 0..N : m \in T
  <2>1. T \in SUBSET (0..N) /\ 0 \in T
    BY <1>0, <1>3, <1>12
  <2>2. ASSUME NEW m \in 1..N, m - 1 \in T PROVE m \in T
    BY <1>0, <1>2, <1>12, <2>2
  <2> HIDE DEF T
  <2> QED BY <1>0, <2>1, <2>2, Inductively
<1> QED BY <1>0, <1>11, <1>13 DEF N

--------------------------------------------------------------------------
(* Bindings: theorems                                                      *)

BindingsInv ==
  /\ file \in Seq(Nodes) /\ registry = Load(file) /\ variable \in Int
  /\ outcome.log \in Seq(LogSet) /\ Sees(outcome.log)

LEMMA BindingsStart == BindingsInit => BindingsInv
<1> SUFFICES ASSUME BindingsInit PROVE BindingsInv
  OBVIOUS
<1>1. file \in Seq(Nodes)
  <2>1. file \in BoundedSeq(Nodes, MaxNodes)
    BY DEF BindingsInit, Configurations
  <2>2. PICK m \in 0..MaxNodes : file \in [1..m -> Nodes]
    BY <2>1 DEF BoundedSeq, SeqOf
  <2>3. m \in Nat
    BY BindingsAssumption, <2>2
  <2> QED BY <2>2, <2>3, SeqDef
<1>2. variable \in Int /\ registry = Load(file)
  BY BindingsAssumption DEF BindingsInit
<1>3. outcome.log = <<>>
  BY DEF BindingsInit
<1>4. outcome.log \in Seq(LogSet) /\ Sees(outcome.log)
  <2>1. <<>> \in Seq(LogSet) /\ \A i \in 1..Len(<<>>) : FALSE
    OBVIOUS
  <2>2. Sees(<<>>)
    BY <2>1 DEF Sees
  <2> QED BY <1>3, <2>1, <2>2
<1> QED BY <1>1, <1>2, <1>4 DEF BindingsInv

\* What has been dispatched at first is what the variable holds.
LEMMA BeginIs == ASSUME variable \in Int PROVE Begin(variable) \in Current
<1> DEFINE e == [did |-> "set", value |-> variable]
           d == Begin(variable)
<1>1. e \in LogSet /\ e.did = "set" /\ e.value = variable
  BY DEF LogSet
<1>2. d = [x |-> variable, log |-> <<e>>, batch |-> 0, failed |-> FALSE]
  BY DEF Begin
<1> HIDE DEF e
<1>3. <<e>> \in Seq(LogSet) /\ Len(<<e>>) = 1 /\ <<e>>[1] = e
  BY <1>1
<1> DEFINE log == <<e>>
<1> HIDE DEF log
<1>4. log \in Seq(LogSet) /\ Len(log) = 1 /\ log[1] = e
  BY <1>3 DEF log
<1>5. SetLast(log, 1, variable)
  <2>1. 1 \in 1..1 /\ \A k \in (1 + 1)..1 : FALSE
    OBVIOUS
  <2> QED BY <1>1, <1>4, <2>1 DEF SetLast
<1>6. Sees(log)
  <2>1. \A i \in 1..1 : i = 1
    OBVIOUS
  <2> QED BY <1>1, <1>4, <2>1 DEF Sees
<1>7. d \in Dispatches /\ d.log = log /\ d.x = variable
  BY <1>2, <1>4 DEF Dispatches, LogSet, log
<1> QED BY <1>4, <1>5, <1>6, <1>7 DEF Current

LEMMA BindingsSteps == ASSUME BindingsInv, [BindingsNext]_bindingVars PROVE BindingsInv'
<1>1. CASE UNCHANGED bindingVars
  BY <1>1 DEF BindingsInv, bindingVars
<1>2. ASSUME NEW t \in InputTypes \ {"sub"}, NEW raw \in RawValues, NEW room \in 0..BatchCapacity,
             DispatchEvent([input |-> t, raw |-> raw], room)
      PROVE  BindingsInv'
  <2> DEFINE ev == [input |-> t, raw |-> raw]
             call == [ev |-> ev, d |-> Begin(variable)]
             d == DispatchAtDepth[call]
  <2>1. file \in Seq(Nodes) /\ registry = Load(file) /\ variable \in Int /\ raw \in Int
    BY BindingsAssumption DEF BindingsInv
  <2>2. Begin(variable) \in Current /\ Begin(variable) \in Dispatches
    BY <2>1, BeginIs DEF Current
  <2>3. call \in Calls /\ call.d = Begin(variable)
    BY <2>1, <2>2 DEF Calls
  <2>4. DispatchAtDepth \in Deeper
    BY <2>1, DepthKeeps
  <2> HIDE DEF call
  <2>5. d \in Current
    BY <2>2, <2>3, <2>4 DEF Deeper
  <2>6. variable' = d.x /\ outcome'.log = d.log /\ UNCHANGED <<file, registry>>
    BY <1>2 DEF DispatchEvent, call
  <2> HIDE DEF d
  <2>7. d \in Dispatches /\ Sees(d.log)
    BY <2>5 DEF Current
  <2>8. d.x \in Int /\ d.log \in Seq(LogSet)
    BY <2>7, DispatchIs
  <2>9. Load(file)' = Load(file)
    BY <2>6
  <2>10. Sees(outcome.log)'
    BY <2>6, <2>7 DEF Sees, SetLast
  <2> QED BY <2>1, <2>6, <2>8, <2>9, <2>10 DEF BindingsInv
<1> QED BY <1>1, <1>2 DEF BindingsNext

LEMMA SeesMeans == ASSUME outcome.log \in Seq(LogSet), Sees(outcome.log) PROVE SendsSeeWrites
<1> DEFINE log == outcome.log
<1>1. Len(log) \in Nat /\ DOMAIN log = 1..Len(log)
  OBVIOUS
<1> SUFFICES ASSUME NEW i \in DOMAIN log, log[i].did = "send"
             PROVE  LET sets == {j \in 1..i : log[j].did = "set"}
                    IN  log[i].value = log[CHOOSE j \in sets : \A k \in sets : k <= j].value
  BY DEF SendsSeeWrites
<1> DEFINE sets == {j \in 1..i : log[j].did = "set"}
           J == CHOOSE j \in sets : \A k \in sets : k <= j
<1>2. PICK j \in 1..i : /\ log[j].did = "set" /\ log[j].value = log[i].value
                        /\ \A k \in (j + 1)..i : log[k].did # "set"
  BY <1>1 DEF Sees, SetLast
<1>3. j \in sets /\ \A k \in sets : k <= j
  <2>1. ASSUME NEW k \in sets PROVE k <= j
    <3>1. k \in 1..i /\ log[k].did = "set" /\ i \in Nat
      BY <1>1
    <3>2. k \notin (j + 1)..i
      BY <1>2, <3>1
    <3> QED BY <3>1, <3>2
  <2> QED BY <1>2, <2>1
<1>4. J \in sets /\ \A k \in sets : k <= J
  <2> HIDE DEF sets
  <2> QED BY <1>3
<1>5. sets \subseteq Int
  BY <1>1
<1> HIDE DEF sets, J
<1>6. J = j
  <2>1. J <= j /\ j <= J /\ J \in Int /\ j \in Int
    BY <1>3, <1>4, <1>5
  <2> QED BY <2>1
<1> QED BY <1>2, <1>6 DEF J, sets

\* Whatever the configuration, the two buckets of an indexed parameter find for every event
\* the chain a search of the whole list would find (config.rs:2218).
THEOREM SpecificFirstAlways == BindingsSpec => []SpecificFirst
<1>1. BindingsInv => SpecificFirst
  BY FirstsFound DEF BindingsInv
<1> QED BY <1>1, BindingsStart, BindingsSteps, PTL DEF BindingsSpec

\* However long the chains and however deep the events they dispatch, a command that carries
\* the variable carries what the last output before it has set (runtime_event_actions.rs:333).
THEOREM SendsSeeWritesAlways == BindingsSpec => []SendsSeeWrites
<1>1. BindingsInv => SendsSeeWrites
  BY SeesMeans DEF BindingsInv
<1> QED BY <1>1, BindingsStart, BindingsSteps, PTL DEF BindingsSpec
============================================================================
