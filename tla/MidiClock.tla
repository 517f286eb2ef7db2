----------------------------- MODULE MidiClock -----------------------------
(***************************************************************************)
(* The MIDI clock the audio callback sends while a pulse runs              *)
(* (src/native_dsp_graph.rs: clock_run, midi_clock_count, midi_beat_count),*)
(* its way over the ring of statuses and through the event loop to an      *)
(* instrument that follows it, and the gate there (src/midiio.rs,          *)
(* sync_transmit), which the event loop shuts at once and the callback     *)
(* when it meets the command.  The pulse is that of module Pulse.          *)
(*                                                                         *)
(* A clock falls due where position * clocks / frames passes an integer;   *)
(* the code divides in single precision, which is left out.  A callback    *)
(* renders one frame: commands meet it at any frame.                       *)
(***************************************************************************)
EXTENDS Pulse, Sequences

CONSTANTS
  ClocksPerBeat,   \* 24
  SyncSpeeds,      \* what SetSyncSpeed may bring
  ClockLoops,      \* lengths of loops a pulse is taken from
  ClockGaps,       \* measured gaps of taps
  ClockRoom,       \* the ring of statuses (for the clock's share of it)
  MaxOrders        \* bound: commands of the event loop

ASSUME ClockAssumption ==
  /\ {ClocksPerBeat, ClockRoom} \subseteq Nat \ {0} /\ MaxOrders \in Nat
  /\ SyncSpeeds \subseteq Nat /\ ClockLoops \subseteq Nat \ {0} /\ ClockGaps \subseteq Nat

VARIABLES
  clock,           \* pulse_* of the callback
  sync_speed, sync_type,
  midi_sync_transmit,   \* the callback's gate, and ...
  sync_transmit,        \* ... MidiIo's
  clock_run,       \* ClockRun
  clocks, beats,   \* midi_clock_count, midi_beat_count
  commanded,          \* commands sent and not applied
  sent,            \* commands sent, for the bound
  clock_statuses,  \* the ring of statuses
  follower,        \* an instrument: a START came and no STOP since
  metro,           \* the accent the last frame has started: "hi", "lo" or "none"
  steady,          \* ghost: since the START nothing has changed pulse, speed, type or gate
  due,             \* ghost: clocks since the START, less those of the beats since
  untold           \* ghost: a START or STOP was refused, gated or never sent

pulseClockVars == <<clock, sync_speed, sync_type, midi_sync_transmit, clock_run, clocks, beats>>
clockVars == <<pulseClockVars, sync_transmit, commanded, sent, clock_statuses, follower, metro, steady, due, untold>>

ClockInit ==
  /\ clock = IdlePulse(2) /\ sync_speed = 1 /\ sync_type = FALSE
  /\ midi_sync_transmit = FALSE /\ sync_transmit = FALSE
  /\ clock_run = "None" /\ clocks = 0 /\ beats = 0
  /\ commanded = <<>> /\ sent = 0 /\ clock_statuses = <<>> /\ follower = FALSE
  /\ metro = "none" /\ steady = FALSE /\ due = 0 /\ untold = FALSE

--------------------------------------------------------------------------
(* The event loop                                                          *)

Order(op, value) ==
  /\ sent < MaxOrders /\ sent' = sent + 1
  /\ commanded' = Append(commanded, [op |-> op, value |-> value])

\* MidiIo's gate first, then the command.
SetMidiSync(on) ==
  /\ sync_transmit' = on /\ Order("SetMidiSyncTransmit", on)
  /\ UNCHANGED <<pulseClockVars, clock_statuses, follower, metro, steady, due, untold>>

OtherOrders ==
  /\ \/ \E s \in SyncSpeeds : Order("SetSyncSpeed", s)
     \/ \E beat \in BOOLEAN : Order("SetSyncType", beat)
     \/ \E len \in ClockLoops : Order("SetPulseFromLoop", len)
     \/ \E newLen \in BOOLEAN, gap \in ClockGaps : Order("TapPulse", <<newLen, gap>>)
     \/ Order("ClearPulse", 0)
     \/ Order("DeletePulse", 0)
  /\ UNCHANGED <<pulseClockVars, sync_transmit, clock_statuses, follower, metro, steady, due, untold>>

\* Statuses go to the instruments in their order, past the gate.
Forwards ==
  /\ clock_statuses # <<>> /\ clock_statuses' = Tail(clock_statuses)
  /\ LET status == Head(clock_statuses)
     IN IF sync_transmit
        THEN /\ follower' = CASE status = "Start" -> TRUE [] status = "Stop" -> FALSE [] OTHER -> follower
             /\ UNCHANGED untold
        ELSE untold' = (untold \/ status # "Clock") /\ UNCHANGED follower
  /\ UNCHANGED <<pulseClockVars, sync_transmit, commanded, sent, metro, steady, due>>

--------------------------------------------------------------------------
(* Commands in the callback                                                *)

\* try_send: a full ring refuses.
Tells(status) ==
  IF Len(clock_statuses) < ClockRoom
  THEN clock_statuses' = Append(clock_statuses, status) /\ UNCHANGED untold
  ELSE untold' = (untold \/ status # "Clock") /\ UNCHANGED clock_statuses

Quietly == UNCHANGED <<clock_statuses, untold>>

\* Mutant: the clock is armed again without a word to the instruments.
BadRefreshes ==
  IF midi_sync_transmit THEN Quietly /\ clock_run' = "Start"
  ELSE UNCHANGED <<clock_statuses, untold, clock_run>>

\* A tap stops the clock and arms it for the end of the beat.
Refreshes ==
  IF midi_sync_transmit THEN Tells("Stop") /\ clock_run' = "Start"
  ELSE UNCHANGED <<clock_statuses, untold, clock_run>>

TapsPulse(newLen, gap) ==
  /\ clock' = TapPulse(clock, newLen, gap)
  /\ IF clock.active \/ clock.armed THEN Refreshes
     ELSE UNCHANGED <<clock_statuses, untold, clock_run>>

\* A pulse that is there is selected again, which changes nothing.
TakesPulse(len) ==
  /\ Quietly
  /\ IF clock.active THEN UNCHANGED <<clock, clock_run>>
     ELSE /\ \E position \in 0..(len - 1) : clock' = PulseOfLoop(clock, len, position, 1)
          /\ clock_run' = IF midi_sync_transmit THEN "Start" ELSE clock_run

ClearsPulse ==
  /\ clock' = NoPulse(clock)
  /\ IF (clock.active \/ clock.armed) /\ midi_sync_transmit
     THEN Tells("Stop") /\ clock_run' = "None"
     ELSE /\ untold' = (untold \/ clock_run # "None")
          /\ UNCHANGED <<clock_statuses, clock_run>>

\* The clock dies with its pulse.
DeletesPulse ==
  /\ clock' = NoPulse(clock) /\ clock_run' = "None"
  /\ untold' = (untold \/ clock_run = "Beat") /\ UNCHANGED clock_statuses

Applies ==
  /\ commanded # <<>> /\ commanded' = Tail(commanded)
  /\ LET o == Head(commanded)
     IN \/ /\ o.op = "SetMidiSyncTransmit" /\ midi_sync_transmit' = o.value
           /\ Quietly /\ UNCHANGED <<clock, sync_speed, sync_type, clock_run>>
        \/ /\ o.op = "SetSyncSpeed" /\ sync_speed' = o.value
           /\ Quietly /\ UNCHANGED <<clock, sync_type, midi_sync_transmit, clock_run>>
        \/ /\ o.op = "SetSyncType" /\ sync_type' = o.value
           /\ Quietly /\ UNCHANGED <<clock, sync_speed, midi_sync_transmit, clock_run>>
        \/ /\ o.op \in {"SetPulseFromLoop", "TapPulse", "ClearPulse", "DeletePulse"}
           /\ UNCHANGED <<sync_speed, sync_type, midi_sync_transmit>>
           /\ \/ o.op = "SetPulseFromLoop" /\ TakesPulse(o.value)
              \/ o.op = "TapPulse" /\ TapsPulse(o.value[1], o.value[2])
              \/ o.op = "ClearPulse" /\ ClearsPulse
              \/ o.op = "DeletePulse" /\ DeletesPulse
  /\ steady' = (steady /\ UNCHANGED <<clock, sync_speed, sync_type, midi_sync_transmit>>)
  /\ due' = IF steady' THEN due ELSE 0
  /\ UNCHANGED <<sync_transmit, sent, follower, metro, clocks, beats>>

--------------------------------------------------------------------------
(* A frame                                                                 *)

clocks_per_pulse == ClocksPerBeat * sync_speed * (IF sync_type THEN 1 ELSE 4)

ClockAt(position) == (position * clocks_per_pulse) \div Larger(clock.frames, 1)

wrapping == clock.position + 1 >= clock.frames

\* Mutant: a clock that is armed starts at any crossing.
BadCrossedClock == ClockAt(clock.position + 1) # ClockAt(clock.position)
crossed_clock == clock_run = "Beat" /\ ClockAt(clock.position + 1) # ClockAt(clock.position)

Transmits == clock.active /\ clock_run # "None" /\ midi_sync_transmit

\* Clocks of a whole beat: one per frame at most, and one when it wraps.
OfABeat == Larger(1, Smaller(clocks_per_pulse, clock.frames))

StartsClock ==
  /\ clock_run = "Start" /\ clock_run' = "Beat"
  /\ clocks' = 0 /\ beats' = 0 /\ metro' = "hi"
  /\ Tells("Start")
  /\ steady' = TRUE /\ due' = 0

\* Every 24th clock is a beat of the metronome, and a bar of them its accent.
TicksClock ==
  /\ clock_run = "Beat" /\ UNCHANGED clock_run
  /\ LET full == clocks + 1 >= ClocksPerBeat
         bar  == full /\ beats + 1 >= clocks_per_pulse \div ClocksPerBeat
     IN /\ clocks' = IF full THEN 0 ELSE clocks + 1
        /\ beats' = IF bar THEN 0 ELSE IF full THEN beats + 1 ELSE beats
        /\ metro' = IF bar THEN "hi" ELSE IF full THEN "lo" ELSE "none"
  /\ Tells("Clock")
  /\ due' = IF steady THEN due + 1 - (IF wrapping THEN OfABeat ELSE 0) ELSE 0
  /\ UNCHANGED steady

ClockFrame ==
  /\ clock' = Tick(Heard(clock))
  /\ \/ Transmits /\ (crossed_clock \/ wrapping) /\ (StartsClock \/ TicksClock)
     \/ /\ ~(Transmits /\ (crossed_clock \/ wrapping))
        /\ metro' = "none" /\ Quietly
        /\ UNCHANGED <<clock_run, clocks, beats, steady, due>>
  /\ UNCHANGED <<sync_speed, sync_type, midi_sync_transmit, sync_transmit, commanded, sent, follower>>

ClockNext ==
  \/ \E on \in BOOLEAN : SetMidiSync(on)
  \/ OtherOrders \/ Forwards \/ Applies \/ ClockFrame

ClockSpec == ClockInit /\ [][ClockNext]_clockVars

--------------------------------------------------------------------------
(* Properties                                                              *)

\* Between two changes of the pulse, the speed, the type or the gate the clock keeps the
\* pulse's time, whatever the lengths divide: since the START there are as many clocks
\* as whole beats and the part of this one ask for, with no drift, and the metronome's
\* accent falls on the downbeats and nowhere else.
ClockKeepsTime ==
  steady /\ clock_run = "Beat" =>
    /\ due = Smaller(ClockAt(clock.position), clock.position)
    /\ clocks_per_pulse \in 1..clock.frames => (metro = "hi" <=> clock.position = 0)

\* Whether an instrument runs that has heard the next n statuses.
Told(n) ==
  \/ \E k \in 1..n : /\ clock_statuses[k] = "Start"
                     /\ \A j \in (k + 1)..n : clock_statuses[j] = "Clock"
  \/ follower /\ \A j \in 1..n : clock_statuses[j] = "Clock"

\* An instrument is between START and STOP just while the clock beats, and hears clocks
\* only then, counting what is still on its way; except where a START or STOP was
\* refused by a full ring, met a shut gate, or was not sent (a pulse deleted, or cleared
\* with the gate shut).
FollowersAreTold ==
  ~untold => /\ Told(Len(clock_statuses)) <=> clock_run = "Beat"
             /\ \A n \in 1..Len(clock_statuses) : clock_statuses[n] = "Clock" => Told(n)
==========================================================================
