--------------------------- MODULE PcmTransfer ---------------------------
(***************************************************************************)
(* The PCM transfer pool of src/native_dsp_graph.rs: a fixed set of        *)
(* buffers through which the control thread lends decoded loops to the     *)
(* audio callback and gets copies of recorded ones.  Access to a buffer is *)
(* governed by an atomic state and a generation; handles travel through    *)
(* the command ring.  Every load, store or compare-exchange of a state and *)
(* every access to a buffer is a step of its own.                          *)
(*                                                                         *)
(* Sizes are in units of what one callback copies.  A buffer holds nothing *)
(* or Capacity units: buffers are only swapped and resized whole.  Other   *)
(* commands share the ring, so a send may be refused at any time; statuses *)
(* never block the callback and no state here depends on them.             *)
(*                                                                         *)
(* The definitions whose name starts with Bad are faults a change to the   *)
(* code could introduce; no behaviour of Spec uses them.                   *)
(***************************************************************************)
EXTENDS Naturals, Sequences

CONSTANTS NTransfers,     \* DEFAULT_TRANSFER_SLOTS
          Slots,          \* loop slots of the graph
          ImportSlots,    \* slots the control thread imports into ...
          ExportSlots,    \* ... and exports from; they need not exist
          Capacity,       \* size of a buffer (max_loop_frames)
          MaxLen,         \* bound: size of the longest recorded loop
          MaxGeneration   \* bound: how often a transfer is acquired (2^32)

ASSUME SizesAssumption ==
  /\ NTransfers \in Nat /\ Capacity \in Nat \ {0}
  /\ MaxLen \in Nat     /\ MaxGeneration \in Nat

VARIABLES
  state,       \* TransferSlot::state
  generation,  \* TransferSlot::generation
  pcm,         \* TransferSlot::pcm: is its buffer there, and `len`
  commands,    \* ring control -> callback, transfer commands only
  cop, arg,    \* control thread: the step of the call it is in, its arguments
  bop, cmd,    \* callback: the step it is at, the command it serves
  loops,       \* the loops: contiguous buffer there?, length, recording?
  job          \* export_job

ctlVars == <<cop, arg>>
cbVars  == <<bop, cmd, loops, job>>
vars == <<state, generation, pcm, commands, ctlVars, cbVars>>

Transfers == 1..NTransfers
States    == {"Free", "Control", "Queued", "Callback", "Exported"}
NoSlot    == "none"         \* the call has no loop slot
AnySlot   == Slots \cup ImportSlots \cup ExportSlots \cup {NoSlot}
Command   == [kind : {"import", "export"}, slot : AnySlot,
              t : Transfers, g : 0..MaxGeneration]
NoCommand == [kind |-> "none"]
MaxSize   == IF MaxLen <= Capacity THEN Capacity ELSE MaxLen
Job       == [slot : Slots, t : Transfers, g : 0..MaxGeneration,
              cursor : 0..MaxSize, frames : 0..MaxSize]
NoJob     == [slot |-> "none"]
Argument  == [t : Transfers, g : 0..MaxGeneration,
              slot : AnySlot, seen : States]
NoArg     == [seen |-> "none"]

Init ==
  /\ state = [t \in Transfers |-> "Free"]
  /\ generation = [t \in Transfers |-> 0]
  /\ pcm = [t \in Transfers |-> [full |-> TRUE, len |-> 0]]
  /\ commands = <<>>
  /\ cop = "idle" /\ arg = NoArg
  /\ bop = "drain" /\ cmd = NoCommand
  /\ loops = [s \in Slots |-> [full |-> FALSE, len |-> 0, rec |-> FALSE]]
  /\ job = NoJob

Cap(t) == IF pcm[t].full THEN Capacity ELSE 0

SetState(t, s) == state' = [state EXCEPT ![t] = s]

\* Return from a call of the control thread.
Done == cop' = "idle" /\ arg' = NoArg

--------------------------------------------------------------------------
(* The control thread (RuntimeControls).  A handle is a transfer and the   *)
(* generation it was given out with; the control thread may use any handle *)
(* it was ever given, released ones included.                              *)

FirstFree(t) == state[t] = "Free" /\ \A u \in 1..(t-1) : state[u] /= "Free"

\* TransferPool::acquire, the compare-exchange: for try_acquire_transfer
\* (then = "bump") or for an export of `slot` (then = "exportBump").
Acquire(t, then, slot) ==
  /\ cop = "idle"
  /\ FirstFree(t)
  /\ generation[t] < MaxGeneration
  /\ SetState(t, "Control")
  /\ cop' = then
  /\ arg' = [t |-> t, g |-> generation[t] + 1, slot |-> slot, seen |-> "Free"]
  /\ UNCHANGED <<generation, pcm, commands, cbVars>>

\* TransferPool::acquire, the fetch_add.
Bump ==
  /\ cop \in {"bump", "exportBump"}
  /\ generation' = [generation EXCEPT ![arg.t] = @ + 1]
  /\ IF cop = "bump" THEN Done ELSE cop' = "exportQueue" /\ UNCHANGED arg
  /\ UNCHANGED <<state, pcm, commands, cbVars>>

\* try_request_loop_export: the store that follows acquire, then the send.
QueueExport ==
  /\ cop = "exportQueue"
  /\ SetState(arg.t, "Queued")
  /\ cop' = "exportSend"
  /\ UNCHANGED <<generation, pcm, commands, arg, cbVars>>

Send(kind) ==
  commands' = Append(commands, [kind |-> kind, slot |-> arg.slot,
                                t |-> arg.t, g |-> arg.g])

SendExport ==
  /\ cop = "exportSend"
  /\ Send("export")
  /\ Done
  /\ UNCHANGED <<state, generation, pcm, cbVars>>

RefusedExport ==            \* the ring is full
  /\ cop = "exportSend"
  /\ SetState(arg.t, "Free")
  /\ Done
  /\ UNCHANGED <<generation, pcm, commands, cbVars>>

\* The state check at the start of a call on the handle (t, g).
Enter(op, t, g, slot, allowed) ==
  /\ cop = "idle"
  /\ generation[t] = g
  /\ state[t] \in allowed
  /\ cop' = op
  /\ arg' = [t |-> t, g |-> g, slot |-> slot, seen |-> state[t]]
  /\ UNCHANGED <<state, generation, pcm, commands, cbVars>>

BadEnterWrite(t, g)     == Enter("write", t, g, NoSlot, {"Control", "Queued"})
EnterWrite(t, g)        == Enter("write", t, g, NoSlot, {"Control"})
EnterRead(t, g)         == Enter("read", t, g, NoSlot, {"Exported"})
EnterImport(t, g, slot) == Enter("import", t, g, slot, {"Control", "Exported"})
EnterRelease(t, g)      == Enter("release", t, g, NoSlot, {"Control", "Exported"})

\* write_transfer stores n units, or refuses them (PcmTooLong).
Write(n) ==
  /\ cop = "write"
  /\ pcm' = IF n <= Cap(arg.t) THEN [pcm EXCEPT ![arg.t].len = n] ELSE pcm
  /\ Done
  /\ UNCHANGED <<state, generation, commands, cbVars>>

Read ==
  /\ cop = "read"
  /\ Done
  /\ UNCHANGED <<state, generation, pcm, commands, cbVars>>

\* try_import_loop: scope.compute has read the buffer; compare-exchange.
QueueImport ==
  /\ cop = "import"
  /\ IF state[arg.t] = arg.seen
       THEN SetState(arg.t, "Queued") /\ cop' = "importSend" /\ UNCHANGED arg
       ELSE Done /\ UNCHANGED state
  /\ UNCHANGED <<generation, pcm, commands, cbVars>>

SendImport ==
  /\ cop = "importSend"
  /\ Send("import")
  /\ Done
  /\ UNCHANGED <<state, generation, pcm, cbVars>>

RefusedImport ==            \* the ring is full
  /\ cop = "importSend"
  /\ SetState(arg.t, "Control")
  /\ Done
  /\ UNCHANGED <<generation, pcm, commands, cbVars>>

Sending == cop \in {"exportSend", "importSend"}

BadRelease ==               \* the buffer a loop took is not rebuilt
  /\ cop = "release"
  /\ pcm' = [pcm EXCEPT ![arg.t].len = 0]
  /\ IF state[arg.t] = arg.seen THEN SetState(arg.t, "Free") ELSE UNCHANGED state
  /\ Done
  /\ UNCHANGED <<generation, commands, cbVars>>

\* release_transfer rebuilds the buffer, then compare-exchange.
Release ==
  /\ cop = "release"
  /\ pcm' = [pcm EXCEPT ![arg.t] = [full |-> TRUE, len |-> 0]]
  /\ IF state[arg.t] = arg.seen THEN SetState(arg.t, "Free") ELSE UNCHANGED state
  /\ Done
  /\ UNCHANGED <<generation, commands, cbVars>>

ControlCall ==
  \E t \in Transfers :
    \/ Acquire(t, "bump", NoSlot)
    \/ \E s \in ExportSlots : Acquire(t, "exportBump", s)
    \/ \E g \in 1..generation[t] :
         \/ EnterWrite(t, g) \/ EnterRead(t, g) \/ EnterRelease(t, g)
         \/ \E s \in ImportSlots : EnterImport(t, g, s)

ControlStep ==
  \/ Bump \/ QueueExport \/ SendExport \/ RefusedExport
  \/ \E n \in 1..Capacity : Write(n)
  \/ Read \/ QueueImport \/ SendImport \/ RefusedImport \/ Release

--------------------------------------------------------------------------
(* The audio callback: it drains the ring, then advances the export.       *)

Serving == bop \in {"check", "refuse", "claim", "access", "publish"}
JobOn == job /= NoJob
ExportOf(s) == JobOn /\ job.slot = s

\* The command is dropped when it would change the loop being exported
\* (mutates_loop): its transfer stays Queued.
Reject ==
  /\ bop = "drain" /\ commands /= <<>>
  /\ Head(commands).kind = "import" /\ ExportOf(Head(commands).slot)
  /\ commands' = Tail(commands)
  /\ UNCHANGED <<state, generation, pcm, ctlVars, cbVars>>

Receive ==
  /\ bop = "drain" /\ commands /= <<>>
  /\ ~ (Head(commands).kind = "import" /\ ExportOf(Head(commands).slot))
  /\ commands' = Tail(commands)
  /\ cmd' = Head(commands) /\ bop' = "check"
  /\ UNCHANGED <<state, generation, pcm, ctlVars, loops, job>>

\* The loop exists and, for an export, can be exported now.
Servable(c) ==
  /\ c.slot \in Slots
  /\ c.kind = "export" => ~JobOn /\ loops[c.slot].len > 0 /\ ~loops[c.slot].rec

Served == bop' = "drain" /\ cmd' = NoCommand

\* The loads: an unservable command is refused whatever the state is.
Check ==
  /\ bop = "check"
  /\ LET current == generation[cmd.t] = cmd.g
     IN  IF Servable(cmd)
           THEN IF current /\ state[cmd.t] = "Queued"
                  THEN bop' = "claim" /\ UNCHANGED cmd ELSE Served
           ELSE IF current THEN bop' = "refuse" /\ UNCHANGED cmd ELSE Served
  /\ UNCHANGED <<state, generation, pcm, commands, ctlVars, loops, job>>

Refuse ==
  /\ bop = "refuse"
  /\ SetState(cmd.t, "Exported")
  /\ Served
  /\ UNCHANGED <<generation, pcm, commands, ctlVars, loops, job>>

Claim ==
  /\ bop = "claim"
  /\ SetState(cmd.t, "Callback")
  /\ bop' = "access"
  /\ UNCHANGED <<generation, pcm, commands, ctlVars, cmd, loops, job>>

\* ImportLoop: the loop and the transfer swap buffers and lengths.
SwapIn ==
  /\ bop = "access" /\ cmd.kind = "import"
  /\ pcm' = [pcm EXCEPT ![cmd.t] =
               [full |-> loops[cmd.slot].full, len |-> loops[cmd.slot].len]]
  /\ loops' = [loops EXCEPT ![cmd.slot] =
                 [full |-> pcm[cmd.t].full, len |-> pcm[cmd.t].len, rec |-> FALSE]]
  /\ bop' = "publish"
  /\ UNCHANGED <<state, generation, commands, ctlVars, cmd, job>>

Publish ==
  /\ bop = "publish"
  /\ SetState(cmd.t, "Exported")
  /\ Served
  /\ UNCHANGED <<generation, pcm, commands, ctlVars, loops, job>>

\* RequestLoopExport: the copy is left to advance_export.
StartExport ==
  /\ bop = "access" /\ cmd.kind = "export"
  /\ pcm' = [pcm EXCEPT ![cmd.t].len = loops[cmd.slot].len]
  /\ job' = [slot |-> cmd.slot, t |-> cmd.t, g |-> cmd.g,
             cursor |-> 0, frames |-> loops[cmd.slot].len]
  /\ Served
  /\ UNCHANGED <<state, generation, commands, ctlVars, loops>>

\* The ring is empty: drain_commands returns.
EndDrain ==
  /\ bop = "drain" /\ commands = <<>>
  /\ bop' = "advance"
  /\ UNCHANGED <<state, generation, pcm, commands, ctlVars, cmd, loops, job>>

\* advance_export copies one unit; after the last one it publishes.
Copy ==
  /\ bop = "advance" /\ JobOn
  /\ job' = [job EXCEPT !.cursor = @ + 1]
  /\ bop' = IF job.cursor + 1 >= job.frames THEN "publishJob" ELSE "drain"
  /\ UNCHANGED <<state, generation, pcm, commands, ctlVars, cmd, loops>>

NothingToCopy ==
  /\ bop = "advance" /\ ~JobOn
  /\ bop' = "drain"
  /\ UNCHANGED <<state, generation, pcm, commands, ctlVars, cmd, loops, job>>

PublishJob ==
  /\ bop = "publishJob"
  /\ SetState(job.t, "Exported")
  /\ job' = NoJob
  /\ bop' = "drain"
  /\ UNCHANGED <<generation, pcm, commands, ctlVars, cmd, loops>>

BadShutdown ==              \* the job is kept when its transfer is given back
  /\ bop = "drain" /\ JobOn
  /\ SetState(job.t, "Exported")
  /\ UNCHANGED <<generation, pcm, commands, ctlVars, bop, cmd, loops, job>>

\* RuntimeCommand::Shutdown gives the transfer of the export back.
Shutdown ==
  /\ bop = "drain" /\ JobOn
  /\ SetState(job.t, "Exported")
  /\ job' = NoJob
  /\ UNCHANGED <<generation, pcm, commands, ctlVars, bop, cmd, loops>>

\* Another command, or recording, changes a loop: not every command that does
\* is in mutates_loop, so it may be the one being exported.
ChangeLoop(s, n, r) ==
  /\ bop = "drain"
  /\ loops' = [loops EXCEPT ![s].len = n, ![s].rec = r]
  /\ UNCHANGED <<state, generation, pcm, commands, ctlVars, bop, cmd, job>>

MoveLoop(from, to) ==
  /\ bop = "drain" /\ ~ExportOf(from) /\ ~ExportOf(to)
  /\ from /= to /\ loops[from].len > 0 /\ loops[to].len = 0
  /\ loops' = [loops EXCEPT ![from] = loops[to], ![to] = loops[from]]
  /\ UNCHANGED <<state, generation, pcm, commands, ctlVars, bop, cmd, job>>

CallbackStep ==
  \/ Reject \/ Receive \/ Check \/ Refuse \/ Claim \/ SwapIn \/ Publish
  \/ StartExport \/ EndDrain \/ Copy \/ NothingToCopy \/ PublishJob

OtherCommand ==
  \/ Shutdown
  \/ \E s \in Slots, n \in 0..MaxLen, r \in BOOLEAN : ChangeLoop(s, n, r)
  \/ \E from, to \in Slots : MoveLoop(from, to)

Next == ControlCall \/ ControlStep \/ CallbackStep \/ OtherCommand

Spec == Init /\ [][Next]_vars

\* A call in progress ends, the device keeps calling back, and the control
\* thread does not send so fast that the callback never sees an empty ring.
FairSpec == /\ Spec
            /\ WF_vars(ControlStep) /\ WF_vars(CallbackStep) /\ SF_vars(EndDrain)

--------------------------------------------------------------------------
(* Properties                                                              *)

TypeOK ==
  /\ state \in [Transfers -> States]
  /\ generation \in [Transfers -> 0..MaxGeneration]
  /\ pcm \in [Transfers -> [full : BOOLEAN, len : 0..MaxSize]]
  /\ commands \in Seq(Command)
  /\ cop \in {"idle", "bump", "exportBump", "exportQueue", "exportSend",
              "write", "read", "import", "importSend", "release"}
  /\ IF cop = "idle" THEN arg = NoArg ELSE arg \in Argument
  /\ bop \in {"drain", "check", "refuse", "claim", "access", "publish",
              "advance", "publishJob"}
  /\ IF Serving THEN cmd \in Command ELSE cmd = NoCommand
  /\ loops \in [Slots -> [full : BOOLEAN, len : 0..MaxSize, rec : BOOLEAN]]
  /\ job \in Job \cup {NoJob}

ControlTouches ==
  IF cop \in {"write", "read", "import", "release"} THEN {arg.t} ELSE {}

CallbackTouches ==
  (IF bop = "access" THEN {cmd.t} ELSE {})
  \cup (IF bop = "advance" /\ JobOn THEN {job.t} ELSE {})

\* The two threads never touch one buffer at the same time: what the
\* `unsafe impl Sync for TransferSlot` relies on.
ExclusiveAccess == ControlTouches \cap CallbackTouches = {}

\* The callback writes only to a transfer it has claimed, and the control
\* thread only through the current handle of one in its possession: a
\* released handle gives access to nothing, however often it is tried.
OnlyOwnersTouch ==
  /\ \A t \in CallbackTouches : state[t] = "Callback"
  /\ \A t \in ControlTouches :
       state[t] \in {"Control", "Exported"} /\ generation[t] = arg.g

\* A command in the ring speaks for its transfer alone: it carries the
\* current generation, the transfer is Queued, and no other command names
\* it.  The callback's unconditional stores of Exported rely on it.
CommandsOwnTheirTransfer ==
  /\ \A i \in 1..Len(commands) :
       state[commands[i].t] = "Queued" /\ generation[commands[i].t] = commands[i].g
  /\ \A i, j \in 1..Len(commands) : commands[i].t = commands[j].t => i = j

\* A transfer that can be acquired has its whole buffer, whatever loop took
\* the one it had ("the next export can select a zero-capacity slot").
FreeTransfersAreWhole ==
  \A t \in Transfers : state[t] = "Free" => pcm[t] = [full |-> TRUE, len |-> 0]

\* The copy stays inside the buffer as long as loops fit in one.
ExportFits ==
  (MaxLen <= Capacity /\ JobOn) => job.frames <= Cap(job.t)

\* What is handed to the callback comes back.
LentComesBack ==
  \A t \in Transfers :
    state[t] \in {"Queued", "Callback"}
      ~> state[t] \in {"Free", "Control", "Exported"}

--------------------------------------------------------------------------
\* Ownership as the two threads act on it: until the command is in the ring
\* the control thread can still take a Queued transfer back.
Owner(t) ==
  CASE state[t] = "Free" -> "nobody"
    [] state[t] \in {"Control", "Exported"} -> "control"
    [] state[t] = "Callback" -> "callback"
    [] state[t] = "Queued" ->
         IF cop \in {"importSend", "exportSend"} /\ arg.t = t
           THEN "control" ELSE "inbox"

Abstract == INSTANCE TransferOwnership WITH owner <- [t \in Transfers |-> Owner(t)]
ImplementsOwnership == Abstract!Spec
==========================================================================
