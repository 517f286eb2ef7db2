---------------------------- MODULE TouchInput ----------------------------
(***************************************************************************)
(* From fingers, keys and the window's close button to the event loop:     *)
(* the gestures of Sdl2InputBackend::poll_event (src/sdlio.rs), SdlIo::poll*)
(* over it, and the surfaces NativeRuntime::next_event offers what it      *)
(* polled (the settings overlay, the list of sessions, the grid of loops). *)
(*                                                                         *)
(* A screen has one column: a position is a row, and a finger may slide.   *)
(* Of keys there are those the event loop itself looks at; mouse, joystick *)
(* and text events, which nothing here tells apart from a key, are left    *)
(* out, and so are key repeats, dropped at once.  A step takes one event   *)
(* from SDL, as the loop in poll_event does; the user acts in between.     *)
(***************************************************************************)
EXTENDS Integers, Sequences

CONSTANTS
  Fingers,         \* numbers SDL gives to fingers
  Height,          \* rows of the screen
  ListHeight,      \* the list of sessions covers the rows from 1
  DRAG_THRESHOLD, DRAG_WHEEL_STEP, DOUBLE_TAP_DIST,   \* in rows
  MaxContacts,     \* bound: how often a finger lands
  MaxStrokes,      \* bound: how often a key changes
  PumpRoom         \* bound: events SDL holds; the user pauses

ASSUME TouchAssumption ==
  /\ {Height, DRAG_WHEEL_STEP} \subseteq Nat \ {0}
  /\ {ListHeight, DRAG_THRESHOLD, DOUBLE_TAP_DIST, MaxContacts, MaxStrokes, PumpRoom} \subseteq Nat

CtrlKey == 1   PKey == 2   EscapeKey == 3
ScreenKeys == {CtrlKey, PKey, EscapeKey}
Rows == 1..Height

\* The buttons a gesture stands for.
TapButton == 1   HoldButton == 2   WheelUp == 4   WheelDown == 5   DoubleTapButton == 6

VARIABLES
  contact,     \* contact[f]: the row a finger touches, 0 for none
  pressed,     \* the keys that are down
  asked,       \* the window was told to close
  contacts, strokes,   \* counted for their bounds
  pump,        \* what SDL has queued
  touch,       \* Sdl2InputBackend::touch
  late,        \* LONG_PRESS_MS have passed since it landed
  last_tap,    \* where the last tap ended, 0: none, or DOUBLE_TAP_MS ago
  pending_touch_event,
  input_active, held_keys,          \* SdlIo::active, held
  ctrl_held, show_settings, list_shown,   \* RuntimeResources, and the display of the list
  left,        \* next_event has returned CoreEvent::Exit
  told, meanings, wheel, slid  \* ghosts: buttons the event loop has seen pressed and not
                               \* released; the buttons of this contact; its wheel steps
                               \* (down less up) and the rows it was dragged

userVars    == <<contact, pressed, asked, contacts, strokes>>
backendVars == <<touch, late, last_tap, pending_touch_event>>
loopVars    == <<input_active, held_keys, ctrl_held, show_settings, list_shown, left>>
ghostVars   == <<told, meanings, wheel, slid>>
touchVars   == <<userVars, pump, backendVars, loopVars, ghostVars>>

NoTouch == [finger_id |-> 0, start |-> 0, last |-> 0, accum |-> 0,
            dragging |-> FALSE, down_button |-> 0, pending_tap |-> FALSE]
Input(kind, who, row) == [kind |-> kind, who |-> who, row |-> row]
NoInput == Input("none", 0, 0)

Apart(a, b) == IF a < b THEN b - a ELSE a - b

TouchInit ==
  /\ contact = [f \in Fingers |-> 0] /\ pressed = {} /\ asked = FALSE
  /\ contacts = 0 /\ strokes = 0
  /\ pump = <<>>
  /\ touch = NoTouch /\ late = FALSE /\ last_tap = 0 /\ pending_touch_event = NoInput
  /\ input_active = TRUE /\ held_keys = {}
  /\ ctrl_held = FALSE /\ show_settings = FALSE /\ list_shown = FALSE /\ left = FALSE
  /\ told = {} /\ meanings = {} /\ wheel = 0 /\ slid = 0

--------------------------------------------------------------------------
(* The user, and time                                                      *)

Queue(event) == Len(pump) < PumpRoom /\ pump' = Append(pump, event)

Touches(f, row) ==
  /\ contact[f] = 0 /\ contacts < MaxContacts
  /\ contact' = [contact EXCEPT ![f] = row] /\ contacts' = contacts + 1
  /\ Queue(Input("FingerDown", f, row))
  /\ UNCHANGED <<pressed, asked, strokes>>

Slides(f, row) ==
  /\ contact[f] \notin {0, row}
  /\ contact' = [contact EXCEPT ![f] = row]
  /\ Queue(Input("FingerMotion", f, row))
  /\ UNCHANGED <<pressed, asked, contacts, strokes>>

Lifts(f) ==
  /\ contact[f] # 0
  /\ contact' = [contact EXCEPT ![f] = 0]
  /\ Queue(Input("FingerUp", f, contact[f]))
  /\ UNCHANGED <<pressed, asked, contacts, strokes>>

Strokes(k) ==
  /\ strokes < MaxStrokes /\ strokes' = strokes + 1
  /\ pressed' = IF k \in pressed THEN pressed \ {k} ELSE pressed \union {k}
  /\ Queue(Input(IF k \in pressed THEN "KeyUp" ELSE "KeyDown", k, 0))
  /\ UNCHANGED <<contact, asked, contacts>>

ClosesWindow ==
  /\ ~asked /\ asked' = TRUE
  /\ Queue(Input("Quit", 0, 0))
  /\ UNCHANGED <<contact, pressed, contacts, strokes>>

UserActs ==
  /\ \/ \E f \in Fingers : Lifts(f) \/ \E row \in Rows : Touches(f, row) \/ Slides(f, row)
     \/ \E k \in ScreenKeys : Strokes(k)
     \/ ClosesWindow
  /\ UNCHANGED <<backendVars, loopVars, ghostVars>>

TimePasses ==
  /\ \/ touch # NoTouch /\ ~late /\ late' = TRUE /\ UNCHANGED last_tap
     \/ last_tap # 0 /\ last_tap' = 0 /\ UNCHANGED late
  /\ UNCHANGED <<userVars, pump, touch, pending_touch_event, loopVars, ghostVars>>

\* An event bound to it shows the list of sessions.
ListOpens ==
  /\ ~list_shown /\ ~left /\ list_shown' = TRUE
  /\ UNCHANGED <<userVars, pump, backendVars, input_active, held_keys, ctrl_held,
                 show_settings, left, ghostVars>>

--------------------------------------------------------------------------
(* What the event loop does with an input                                  *)

IsKey(e)    == e.kind \in {"KeyDown", "KeyUp"}
IsButton(e) == e.kind \in {"Press", "Release"}
KeyDown(e, k) == e.kind = "KeyDown" /\ e.who = k

\* SdlIo::poll: a close request is the last input there is.
Adapted(e) ==
  /\ input_active' = (e.kind # "Quit")
  /\ held_keys' = CASE e.kind = "KeyDown" -> held_keys \union {e.who}
                    [] e.kind = "KeyUp"   -> held_keys \ {e.who}
                    [] OTHER              -> held_keys

\* The list takes the buttons over its rows, and the tap beside them that dismisses it.
ListTakes(e) == list_shown /\ IsButton(e) /\ (e.row <= ListHeight \/ (e.kind = "Press" /\ e.who = TapButton))

\* The modifier first, then the surfaces in their order; whatever is shown, the event
\* has been taken from the queue.
Offered(e) ==
  LET ctrl == IF IsKey(e) /\ e.who = CtrlKey THEN e.kind = "KeyDown" ELSE ctrl_held
  IN /\ ctrl_held' = ctrl
     /\ \/ /\ ctrl /\ KeyDown(e, PKey)
           /\ show_settings' = ~show_settings /\ UNCHANGED <<list_shown, left>>
        \/ /\ ~(ctrl /\ KeyDown(e, PKey)) /\ show_settings
           /\ show_settings' = ~KeyDown(e, EscapeKey) /\ UNCHANGED <<list_shown, left>>
        \/ /\ ~(ctrl /\ KeyDown(e, PKey)) /\ ~show_settings /\ ListTakes(e)
           /\ list_shown' = ~(e.kind = "Press" /\ e.who = TapButton)
           /\ UNCHANGED <<show_settings, left>>
        \/ /\ ~(ctrl /\ KeyDown(e, PKey)) /\ ~show_settings /\ ~ListTakes(e)
           /\ left' = (e.kind = "Quit") /\ UNCHANGED <<show_settings, list_shown>>

\* What poll_event returns reaches the event loop in the same pass.
Returned(e) ==
  IF e = NoInput THEN UNCHANGED <<loopVars, told, meanings, wheel>>
  ELSE /\ Adapted(e) /\ Offered(e)
       /\ told' = CASE e.kind = "Press" /\ e.who \in {HoldButton, DoubleTapButton} -> told \union {e.who}
                    [] e.kind = "Release" -> told \ {e.who}
                    [] OTHER -> told
       /\ meanings' = IF e.kind = "Press" THEN meanings \union {e.who} ELSE meanings
       /\ wheel' = CASE e.kind = "Press" /\ e.who = WheelDown -> wheel + 1
                     [] e.kind = "Press" /\ e.who = WheelUp   -> wheel - 1
                     [] OTHER -> wheel

--------------------------------------------------------------------------
(* poll_event                                                              *)

Polls == input_active /\ ~left

\* Nothing new is polled while an event is buffered.
Takes(kind) ==
  /\ Polls /\ pending_touch_event = NoInput
  /\ pump # <<>> /\ Head(pump).kind = kind /\ pump' = Tail(pump)

PollBuffered ==
  /\ Polls /\ pending_touch_event # NoInput
  /\ pending_touch_event' = NoInput
  /\ Returned(pending_touch_event)
  /\ UNCHANGED <<userVars, pump, touch, late, last_tap, slid>>

\* touch_long_press_tick has something to say.
HoldIsDue(t) == t # NoTouch /\ ~t.dragging /\ t.down_button = 0 /\ late
Promoted(t)  == [t EXCEPT !.down_button = HoldButton, !.pending_tap = FALSE]

\* Mutant: the event that a deadline overtook is dropped.
BadSettle(t, e) ==
  IF HoldIsDue(t)
  THEN /\ touch' = Promoted(t) /\ UNCHANGED pending_touch_event
       /\ Returned(Input("Press", HoldButton, t.last))
  ELSE touch' = t /\ UNCHANGED pending_touch_event /\ Returned(e)

\* The translated event is returned, unless a hold is due: that wins, and the event waits.
Settle(t, e) ==
  IF HoldIsDue(t)
  THEN /\ touch' = Promoted(t) /\ pending_touch_event' = e
       /\ Returned(Input("Press", HoldButton, t.last))
  ELSE touch' = t /\ UNCHANGED pending_touch_event /\ Returned(e)

Landed(e) ==
  [NoTouch EXCEPT !.finger_id = e.who, !.start = e.row, !.last = e.row, !.pending_tap = TRUE]

DoubleTaps(row) == last_tap # 0 /\ Apart(row, last_tap) <= DOUBLE_TAP_DIST

Ignored(e) == UNCHANGED <<backendVars, loopVars, ghostVars>>

\* The first finger starts a gesture; a double tap is known at once.
PollFingerDown ==
  /\ Takes("FingerDown") /\ UNCHANGED userVars
  /\ LET e == Head(pump)
     IN \/ touch # NoTouch /\ Ignored(e)
        \/ /\ touch = NoTouch /\ DoubleTaps(e.row)
           /\ touch' = [Landed(e) EXCEPT !.down_button = DoubleTapButton, !.pending_tap = FALSE]
           /\ last_tap' = 0 /\ late' = FALSE /\ UNCHANGED pending_touch_event
           /\ Adapted(Input("Press", DoubleTapButton, e.row))
           /\ Offered(Input("Press", DoubleTapButton, e.row))
           /\ told' = told \union {DoubleTapButton} /\ meanings' = {DoubleTapButton}
           /\ wheel' = 0 /\ slid' = 0
        \/ /\ touch = NoTouch /\ ~DoubleTaps(e.row)
           /\ touch' = Landed(e) /\ late' = FALSE
           /\ UNCHANGED <<last_tap, pending_touch_event, loopVars, told>>
           /\ meanings' = {} /\ wheel' = 0 /\ slid' = 0

Follows(e) == touch # NoTouch /\ touch.finger_id = e.who

\* Past the threshold a motion drags, and what it moves counts from there.
Moved(t, row) ==
  LET drags == t.dragging \/ Apart(row, t.start) > DRAG_THRESHOLD
  IN [t EXCEPT !.last = row, !.dragging = drags,
               !.accum = IF drags THEN @ + (row - t.last) ELSE @,
               !.pending_tap = @ /\ ~(drags /\ t.down_button = 0)]

\* One step of the wheel per motion; the rest stays for the next.
Stepped(t) ==
  CASE t.accum >= DRAG_WHEEL_STEP  -> [t EXCEPT !.accum = @ - DRAG_WHEEL_STEP]
    [] -t.accum >= DRAG_WHEEL_STEP -> [t EXCEPT !.accum = @ + DRAG_WHEEL_STEP]
    [] OTHER                       -> t

WheelOf(t) ==
  CASE t.accum >= DRAG_WHEEL_STEP  -> Input("Press", WheelDown, t.last)
    [] -t.accum >= DRAG_WHEEL_STEP -> Input("Press", WheelUp, t.last)
    [] OTHER                       -> NoInput

PollFingerMotion ==
  /\ Takes("FingerMotion") /\ UNCHANGED userVars
  /\ LET e == Head(pump)
         t == Moved(touch, e.row)
     IN \/ ~Follows(e) /\ Ignored(e)
        \/ /\ Follows(e) /\ t.dragging
           /\ Settle(Stepped(t), WheelOf(t))
           /\ slid' = slid + (e.row - touch.last) /\ UNCHANGED <<late, last_tap>>
        \/ /\ Follows(e) /\ ~t.dragging
           /\ Settle(t, Input("Motion", 0, e.row)) /\ UNCHANGED <<late, last_tap, slid>>

\* Mutant: a drag ends without a word, as its wheel events are already out.
BadEnding(t, row) ==
  CASE t.dragging    -> NoInput
    [] ~t.dragging /\ t.pending_tap -> Input("Press", TapButton, row)
    [] OTHER         -> Input("Release", t.down_button, row)

\* A tap is pressed when it is over; a hold or a double tap is released, dragged or not.
Ending(t, row) ==
  CASE t.down_button # 0 -> Input("Release", t.down_button, row)
    [] t.pending_tap     -> Input("Press", TapButton, row)
    [] OTHER             -> NoInput

PollFingerUp ==
  /\ Takes("FingerUp") /\ UNCHANGED userVars
  /\ LET e == Head(pump)
     IN \/ ~Follows(e) /\ Ignored(e)
        \/ /\ Follows(e)
           /\ touch' = NoTouch
           /\ last_tap' = IF touch.dragging THEN last_tap ELSE e.row
           /\ Returned(Ending(touch, e.row))
           /\ UNCHANGED <<late, pending_touch_event, slid>>

PollOther ==
  /\ \E kind \in {"KeyDown", "KeyUp", "Quit"} : Takes(kind)
  /\ Settle(touch, Head(pump))
  /\ UNCHANGED <<userVars, late, last_tap, slid>>

\* wait_event_timeout returns nothing: the deadline is looked at all the same.
PollTimesOut ==
  /\ Polls /\ pending_touch_event = NoInput /\ pump = <<>>
  /\ HoldIsDue(touch)
  /\ Settle(touch, NoInput)
  /\ UNCHANGED <<userVars, pump, late, last_tap, slid>>

Poll_event ==
  \/ PollBuffered \/ PollTimesOut
  \/ PollFingerDown \/ PollFingerMotion \/ PollFingerUp \/ PollOther

TouchNext == UserActs \/ TimePasses \/ ListOpens \/ Poll_event

TouchSpec == TouchInit /\ [][TouchNext]_touchVars

--------------------------------------------------------------------------
(* Properties                                                              *)

TouchTypeOK ==
  /\ contact \in [Fingers -> 0..Height] /\ pressed \subseteq ScreenKeys /\ asked \in BOOLEAN
  /\ Len(pump) <= PumpRoom
  /\ touch.finger_id \in Fingers \union {0} /\ touch.last \in 0..Height
  /\ touch.down_button \in {0, HoldButton, DoubleTapButton}
  /\ last_tap \in 0..Height /\ held_keys \subseteq ScreenKeys
  /\ {late, input_active, ctrl_held, show_settings, list_shown, left} \subseteq BOOLEAN

\* A gesture is whole, however fingers, keys and deadlines mix: the event loop believes
\* down just the button the touch has pressed, so that each hold and double tap is
\* released once; a contact that was a tap was nothing else; and a drag turns the wheel
\* by what it moved, less a rest below one step that the finger still carries.
GesturesAreWhole ==
  /\ told = {touch.down_button} \ {0}
  /\ TapButton \in meanings => meanings = {TapButton} /\ slid = 0
  /\ touch # NoTouch => DRAG_WHEEL_STEP * wheel + touch.accum = slid

\* What is said of a key: last by the next n events SDL has queued, or by the one that
\* waits, or by what SdlIo keeps.
About(e, k) == IsKey(e) /\ e.who = k
SaidDown(k, n) ==
  \/ \E i \in 1..n : KeyDown(pump[i], k) /\ \A j \in (i + 1)..n : ~About(pump[j], k)
  \/ /\ \A j \in 1..n : ~About(pump[j], k)
     /\ KeyDown(pending_touch_event, k) \/ (~About(pending_touch_event, k) /\ k \in held_keys)

\* No key and no close request is lost or overtaken, also when a gesture's deadline came
\* first: what is still unread says of a key what it is, or else SdlIo has it right.
InputIsKept ==
  /\ \A k \in ScreenKeys : k \in pressed <=> SaidDown(k, Len(pump))
  /\ asked => \/ ~input_active \/ pending_touch_event.kind = "Quit"
              \/ \E i \in 1..Len(pump) : pump[i].kind = "Quit"

\* A request to close the window, once it has been taken from SDL, ends the event loop.
CloseIsAnswered == ~input_active => left
==========================================================================
