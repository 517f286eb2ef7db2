---------------------------- MODULE MidiEcho ----------------------------
(***************************************************************************)
(* Notes on their way out: a key of the MIDI keyboard is echoed to the     *)
(* zones of the selected patch, or to the echo port when the patch has     *)
(* none for it (native_runtime.rs, echo_routed_midi; midiio.rs).  A note   *)
(* sounds on an external instrument until the same port, channel and pitch *)
(* get a NoteOff, and meanwhile the user selects patches, ports, channels  *)
(* and transpositions.                                                     *)
(*                                                                         *)
(* Velocities, the channel on which a key arrives (one keyboard), and      *)
(* messages other than notes are left out: held_midi_routes is keyed by    *)
(* the note alone.                                                         *)
(***************************************************************************)
EXTENDS Naturals, Sequences, FiniteSets

CONSTANTS
  Keys,          \* notes of the keyboard
  Outputs,       \* MidiIo::outputs: ports 1..Outputs are external, 0 is the synth
  Channels,
  Patches,       \* what a selected item routes to: sequences of zones
  MaxTranspose,  \* bound: highest transposition
  MaxSettings    \* bound: settings changed in a behaviour

ASSUME EchoAssumption ==
  /\ Keys \subseteq Nat /\ Outputs \in Nat
  /\ \A p \in Patches : \A i \in DOMAIN p :
       p[i].port \in Nat /\ p[i].channel \in Channels /\ p[i].keys \subseteq Keys

VARIABLES
  routes,      \* active_midi_routes
  held,        \* held_midi_routes: what the NoteOn of a note was sent to, if there is an entry
  echoPort, echoChannel, transpose,     \* MidiIo
  settings,    \* how many settings have changed
  down,        \* the keys that are pressed
  sounding,    \* the notes that sound: <<port, channel, pitch>>
  started,     \* ghost: the notes the last NoteOn of a key has started
  excused      \* ghost: keys whose NoteOff may miss them, and the notes lost that way

echoVars == <<routes, held, echoPort, echoChannel, transpose, settings,
              down, sounding, started, excused>>

NoRoutes == <<>>        \* held_midi_routes has no entry
AsItComes == 0          \* echo_channel = None: the channel of the keyboard

EchoInit ==
  /\ routes = <<>> /\ held = [k \in Keys |-> NoRoutes]
  /\ echoPort = 1 /\ echoChannel = AsItComes /\ transpose = 0 /\ settings = 0
  /\ down = {} /\ sounding = {} /\ started = [k \in Keys |-> {}]
  /\ excused = [keys |-> {}, notes |-> {}]

--------------------------------------------------------------------------
(* Where a note goes                                                       *)

Pitch(k) == k + transpose       \* mapped_echo; far below the wrap at 256

InRange(k) == SelectSeq(routes, LAMBDA z : k \in z.keys)

\* echo: the echo port, if it is external.
Echoed(k) ==
  IF echoPort = 0 THEN {} ELSE {<<echoPort, echoChannel, Pitch(k)>>}

\* echo_to_route, one zone after the other: the synth gets no packet, and a port that does
\* not exist ends the message, after the zones before it.
Reached(zones) ==
  LET bad == {i \in DOMAIN zones : zones[i].port > Outputs} IN
  {i \in DOMAIN zones : \A j \in bad : i < j}

Routed(k, zones) ==
  {<<zones[i].port, zones[i].channel, Pitch(k)>> : i \in {j \in Reached(zones) : zones[j].port > 0}}

Notes(k, zones) == IF zones = <<>> THEN Echoed(k) ELSE Routed(k, zones)

\* midi_routes_for_message, for a NoteOff.
BadReleasedRoutes(k) == InRange(k)      \* the zones of the patch selected now

ReleasedRoutes(k) == IF held[k] = NoRoutes THEN routes ELSE held[k][1]

--------------------------------------------------------------------------
(* The keyboard                                                            *)

\* A key that is struck while it is down (by a second keyboard, or a binding that plays
\* it) forgets where it sounds.
NoteOn(k) ==
  /\ held' = [held EXCEPT ![k] = <<InRange(k)>>]
  /\ sounding' = sounding \union Notes(k, InRange(k))
  /\ down' = down \union {k}
  /\ started' = [started EXCEPT ![k] = Notes(k, InRange(k))]
  /\ excused' = [keys  |-> excused.keys \ {k},
                 notes |-> excused.notes \union (IF k \in down \union excused.keys THEN started[k] ELSE {})]
  /\ UNCHANGED <<routes, echoPort, echoChannel, transpose, settings>>

NoteOff(k) ==
  /\ k \in down
  /\ held' = [held EXCEPT ![k] = NoRoutes]
  /\ sounding' = sounding \ Notes(k, ReleasedRoutes(k))
  /\ down' = down \ {k}
  /\ UNCHANGED <<routes, echoPort, echoChannel, transpose, settings, started, excused>>

--------------------------------------------------------------------------
(* The settings                                                            *)

\* Nothing sends the NoteOff of a key that is down when its pitch changes, and a note that
\* went to the echo port is not remembered.
Settings == settings < MaxSettings /\ settings' = settings + 1

Excuse(keys) == excused' = [excused EXCEPT !.keys = @ \union keys]
Unremembered == {k \in down : held[k] = <<<<>>>>}

\* set_echo_port ignores a port that does not exist.
SetEchoPort(port) ==
  /\ Settings
  /\ echoPort' = IF port \in 0..Outputs THEN port ELSE echoPort
  /\ Excuse(Unremembered)
  /\ UNCHANGED <<routes, held, echoChannel, transpose, down, sounding, started>>

SetEchoChannel(channel) ==
  /\ Settings
  /\ echoChannel' = channel
  /\ Excuse(Unremembered)
  /\ UNCHANGED <<routes, held, echoPort, transpose, down, sounding, started>>

Transpose(to) ==
  /\ Settings
  /\ to \in {transpose - 1, transpose + 1} \intersect 0..MaxTranspose
  /\ transpose' = to
  /\ Excuse(down)
  /\ UNCHANGED <<routes, held, echoPort, echoChannel, down, sounding, started>>

\* apply_patch_plan: the zones become the routes, and the last of them with a port that
\* exists the echo port; the channel is that of the last zone.
SelectPatch(patch) ==
  LET real == {i \in DOMAIN patch : patch[i].port <= Outputs} IN
  /\ Settings
  /\ routes' = patch
  /\ echoPort' = IF real = {} THEN echoPort
                 ELSE patch[CHOOSE i \in real : \A j \in real : j <= i].port
  /\ echoChannel' = patch[Len(patch)].channel
  /\ Excuse(Unremembered)
  /\ UNCHANGED <<held, transpose, down, sounding, started>>

--------------------------------------------------------------------------
Keyboard == \E k \in Keys : NoteOn(k) \/ NoteOff(k)
Panel    == \/ \E p \in 0..(Outputs + 1) : SetEchoPort(p)
            \/ \E c \in Channels \union {AsItComes} : SetEchoChannel(c)
            \/ \E t \in 0..MaxTranspose : Transpose(t)
            \/ \E p \in Patches : SelectPatch(p)

EchoNext == Keyboard \/ Panel

EchoSpec == EchoInit /\ [][EchoNext]_echoVars

--------------------------------------------------------------------------
(* Properties                                                              *)

\* "A patch change occurs before key release ... NoteOff must still use both old zones"
\* (native_runtime.rs:5020): what sounds was started by a key that is still down, or by one
\* whose pitch or echo port was changed under it, or that was struck twice.
NotesEnd ==
  \A n \in sounding \ excused.notes :
    \E k \in down \union excused.keys : n \in started[k]
==========================================================================
