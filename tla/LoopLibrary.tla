--------------------------- MODULE LoopLibrary ---------------------------
(***************************************************************************)
(* The event loop of the running session (native_runtime.rs): it turns     *)
(* user actions into commands for the audio callback, saves loops and      *)
(* scenes out of the PCM transfers that come back, and loads scenes into   *)
(* them.  One pass dispatches at most one event and then drains every      *)
(* status the callback has published; an error of a dispatch is printed,   *)
(* an error of a drain ends the session.                                   *)
(*                                                                         *)
(* The handlers are the operators over the record "s": the fields of       *)
(* RuntimeResources, the two ends of RuntimeControls they work on, and     *)
(* whether a `?` has returned.  The content of a loop is its take: a       *)
(* number that grows with every recording and import, so that saved audio  *)
(* can be told to be older than a snapshot of the loops.                   *)
(*                                                                         *)
(* A pass is atomic but for two places where callbacks go by: between its  *)
(* dispatch and its drain, and while a scene's first loop is decoded.  The *)
(* statuses a drain handles are those it has read at its start; what the   *)
(* callback does during the rest of it touches no transfer the drain does. *)
(*                                                                         *)
(* The definitions whose name starts with Bad are faults a change to the   *)
(* code could introduce; no behaviour of Spec uses them.                   *)
(***************************************************************************)
EXTENDS Integers, FiniteSets, SequencesExt

CONSTANTS
  NSlots,        \* MAX_RUNTIME_LOOPS
  NTransfers,    \* DEFAULT_TRANSFER_SLOTS
  CommandRoom,   \* DEFAULT_COMMAND_CAPACITY
  StatusRoom,    \* DEFAULT_STATUS_CAPACITY
  CopyBlocks,    \* callbacks that the copy of an exported loop takes
  UserActions,   \* what the user does in this instance
  SceneLoops,    \* the loops of the scene file, in the order it lists them
  DiskOutcomes,  \* whether the files of the library may be usable, may fail
  AutoSave,      \* auto_loop_saving
  MaxActions     \* bound on the number of user actions

Slots == 1..NSlots
Transfers == 1..NTransfers
FromFile == -1  \* the hash of a loop that was named by a scene file

ASSUME LibraryAssumption ==
  /\ {NSlots, NTransfers, CommandRoom, StatusRoom, CopyBlocks, MaxActions}
       \subseteq Nat \ {0}
  /\ UserActions \subseteq {"Record", "StopRecord", "EraseSelected", "SaveLoop", "SaveScene",
                         "CreateSnapshot", "ImportSelectedLoop", "ToggleStreaming", "LoadScene"}
  /\ SceneLoops \in Seq(Slots)
  /\ DiskOutcomes \subseteq BOOLEAN /\ DiskOutcomes # {}
  /\ AutoSave \in BOOLEAN

VARIABLES
  r,          \* the fields of RuntimeResources that concern the library
  transfers,  \* state and generation of every slot of the TransferPool
  commands, statuses,  \* the two rings between the event loop and the callback
  loops, recording, job,  \* the loops of the callback and its export
  block,      \* where the callback is: "drain" or "render"
  pass,       \* where the event loop is: "dispatch", "loading" or "drain"
  running,    \* the session goes on
  takes, actions,  \* takes made so far, user actions so far
  lost,       \* handles whose answer the callback could not publish
  scene       \* the scene written last

callbackVars == <<statuses, loops, recording, job, block, takes, lost>>
vars == <<r, transfers, commands, statuses, loops, recording, job, block,
          pass, running, takes, actions, lost, scene>>

None == [none |-> TRUE]
Handles == Transfers \X Nat

--------------------------------------------------------------------------
(* The state of a handler while it runs                                    *)

Held ==
  [pending |-> r.pending, queued |-> r.queued, imports |-> r.imports,
   importQueue |-> r.importQueue, hashes |-> r.hashes, save |-> r.save,
   wanted |-> r.wanted, kept |-> r.kept,
   transfers |-> transfers, commands |-> commands, scene |-> scene,
   failed |-> FALSE]

Leave(s) ==
  /\ r' = [f \in DOMAIN r |-> s[f]]
  /\ transfers' = s.transfers /\ commands' = s.commands
  /\ scene' = s.scene

Fail(s) == [s EXCEPT !.failed = TRUE]

\* What follows a `?`: the handler goes on only if nothing failed.
Try(s, Rest(_)) == IF s.failed THEN s ELSE Rest(s)
ForEach(Op(_, _), s, seq) ==
  LET after[n \in 0..Len(seq)] ==
        IF n = 0 THEN s ELSE Try(after[n - 1], LAMBDA u : Op(u, seq[n]))
  IN  after[Len(seq)]

Full(s) == Len(s.commands) >= CommandRoom

Send(s, command) ==
  IF Full(s) THEN Fail(s) ELSE [s EXCEPT !.commands = Append(@, command)]

Command(op) == [op |-> op]
On(op, slot) == [op |-> op, slot |-> slot]
With(op, slot, h) == [op |-> op, slot |-> slot, handle |-> h]

Free(s) == {t \in Transfers : s.transfers[t].state = "Free"}

\* acquire: the first free transfer, under its next generation.
Acquired(s) ==
  LET t == CHOOSE t \in Free(s) : \A u \in Free(s) : t <= u
  IN  <<t, s.transfers[t].generation + 1>>

Store(s, h, state) ==
  [s EXCEPT !.transfers[h[1]] = [state |-> state, generation |-> h[2]]]

Is(s, h, state) == s.transfers[h[1]] = [state |-> state, generation |-> h[2]]

Release(s, h) == IF Is(s, h, "Exported") THEN Store(s, h, "Free") ELSE Fail(s)

\* What is lent is remembered until its answer comes.
Track(s, c) ==
  IF c.op = "Export"
  THEN [s EXCEPT !.pending = @ \cup {[handle |-> c.handle, slot |-> c.slot]}]
  ELSE [s EXCEPT !.imports = @ \cup {c.handle}]

\* A fault: a full ring leaves the transfer queued for a callback that will
\* never hear of it.
BadLend(s, op, slot) ==
  IF Free(s) = {} THEN Fail(s)
  ELSE LET h == Acquired(s)
           c == With(op, slot, h)
           queued == Store(s, h, "Queued")
       IN  IF Full(s) THEN Fail(queued) ELSE Track(Send(queued, c), c)

\* acquire, queue and send: a full ring gives the transfer back.
Lend(s, op, slot) ==
  IF Free(s) = {} THEN Fail(s)
  ELSE LET h == Acquired(s)
           c == With(op, slot, h)
       IN  IF Full(s) THEN Fail(Store(s, h, "Free"))
           ELSE Track(Send(Store(s, h, "Queued"), c), c)

--------------------------------------------------------------------------
(* Exports                                                                 *)

StartLoopExport(s, slot) == Lend(s, "Export", slot)

Pending(s, slot) == \E p \in s.pending : p.slot = slot

\* A fault: a second export is started beside the first.
BadRequestLoopExport(s, slot) ==
  IF Pending(s, slot) \/ slot \in Range(s.queued) THEN s
  ELSE StartLoopExport(s, slot)

RequestLoopExport(s, slot) ==
  IF Pending(s, slot) \/ slot \in Range(s.queued) THEN s
  ELSE IF s.pending # {} THEN [s EXCEPT !.queued = Append(@, slot)]
  ELSE StartLoopExport(s, slot)

StartNextLoopExport(s) ==
  IF s.pending = {} /\ s.queued # <<>>
  THEN StartLoopExport([s EXCEPT !.queued = Tail(@)], Head(s.queued))
  ELSE s

Untrack(s, h) == [s EXCEPT !.pending = {p \in @ : p.handle # h}]

\* Hash and save what came back, free its transfer, start the next export.
FinishLoopExport(s, e, disk) ==
  LET tracked == {p \in s.pending : p.handle = e.handle}
      Saved(u) ==
        LET p == CHOOSE p \in tracked : TRUE
            kept == IF disk THEN [u EXCEPT !.hashes[p.slot] = e.take] ELSE u
        IN  Try(StartNextLoopExport(kept),
                LAMBDA v : IF disk THEN v ELSE Fail(v))
  IN  IF tracked = {} THEN Fail(s)
      ELSE Try(Release(Untrack(s, e.handle), e.handle), Saved)

--------------------------------------------------------------------------
(* Imports                                                                 *)

\* decode_and_queue_import, and the same steps of import_selected_loop, for a
\* file that decodes.
DecodeAndQueueImport(s, slot) == Lend(s, "Import", slot)

StartNextQueuedImport(s, disk) ==
  IF s.imports # {} \/ s.importQueue = <<>> THEN s
  ELSE LET popped == [s EXCEPT !.importQueue = Tail(@)]
       IN  IF disk THEN DecodeAndQueueImport(popped, Head(s.importQueue))
           ELSE Fail(popped)

FinishLoopImport(s, h, disk) ==
  Try(Release([s EXCEPT !.imports = @ \ {h}], h),
      LAMBDA u : StartNextQueuedImport(u, disk))

--------------------------------------------------------------------------
(* Scenes                                                                  *)

Kept(snapshot) == {slot \in Slots : snapshot[slot] # 0}

\* The slots of a snapshot, or of the graph, from the lowest up.
AllSlots == [slot \in Slots |-> slot]
RequestKept(s, snapshot) ==
  ForEach(LAMBDA u, slot : IF slot \in Kept(snapshot)
                           THEN RequestLoopExport(u, slot) ELSE u,
          s, AllSlots)

\* A fault: the loops are asked for and the snapshot is not kept.
BadTakeSnapshot(s, snapshot) == RequestKept(s, snapshot)

\* The snapshot a waiting scene save takes; it asks for every loop in it.
\* "fresh" marks the loops whose export is still to begin.
TakeSnapshot(s, snapshot) ==
  LET fresh == {slot \in Kept(snapshot) : ~Pending(s, slot)}
  IN  RequestKept([s EXCEPT !.save = [snapshot |-> snapshot, fresh |-> fresh]],
                  snapshot)

Waiting == [waiting |-> TRUE]

\* What the scene file names of the loops in the snapshot.
Written(s) == [snapshot |-> s.save.snapshot, fresh |-> s.save.fresh,
               hashes |-> s.hashes]

\* A fault: the export under way is not waited for.
BadMaybeSaveScene(s, disk) ==
  IF s.queued # <<>> \/ s.save \in {None, Waiting} THEN s
  ELSE LET taken == [s EXCEPT !.save = None]
           missing == \E slot \in Kept(s.save.snapshot) : s.hashes[slot] = 0
       IN  IF missing \/ ~disk THEN Fail(taken)
           ELSE [taken EXCEPT !.scene = Written(s)]

MaybeSaveScene(s, disk) ==
  IF s.pending # {} \/ s.queued # <<>> \/ s.save \in {None, Waiting} THEN s
  ELSE LET taken == [s EXCEPT !.save = None]
           missing == \E slot \in Kept(s.save.snapshot) : s.hashes[slot] = 0
       IN  IF missing \/ ~disk THEN Fail(taken)
           ELSE [taken EXCEPT !.scene = Written(s)]

--------------------------------------------------------------------------
(* One event of the inbox                                                  *)

EraseSelected(s, slot) ==
  Try(Send(s, On("Erase", slot)), LAMBDA u : [u EXCEPT !.hashes[slot] = 0])

SaveScene(s) == Send([s EXCEPT !.save = Waiting], Command("Snapshot"))

CreateSnapshot(s) ==
  Try(Send(s, Command("Snapshot")), LAMBDA u : [u EXCEPT !.wanted = TRUE])

\* load_selected_scene first erases every slot ...
EraseScene(s) ==
  ForEach(LAMBDA u, slot : Send(u, On("Erase", slot)), s, AllSlots)

\* ... and then replaces what is known of the loops and starts the imports.
LoadScene(s, disk) ==
  LET answered(t) == \E h \in s.imports : h[1] = t /\ Is(s, h, "Exported")
  IN  StartNextQueuedImport(
        [s EXCEPT
           !.transfers = [t \in Transfers |-> IF answered(t)
                            THEN [@[t] EXCEPT !.state = "Free"] ELSE @[t]],
           !.imports = {},
           !.hashes = [slot \in Slots |-> IF slot \in Range(SceneLoops)
                                          THEN FromFile ELSE 0],
           !.importQueue = SceneLoops,
           !.kept = FALSE,
           !.save = IF @ \in {None, Waiting} THEN @
                    ELSE [@ EXCEPT !.fresh = {}]], disk)

Handled(s, action, slot) ==
  CASE action = "Record"         -> Send(s, On("Record", slot))
    [] action = "StopRecord"     -> Send(s, Command("StopRecord"))
    [] action = "EraseSelected"  -> EraseSelected(s, slot)
    [] action = "SaveLoop"       -> RequestLoopExport(s, slot)
    [] action = "SaveScene"      -> SaveScene(s)
    [] action = "CreateSnapshot" -> CreateSnapshot(s)
    [] action = "ImportSelectedLoop" -> DecodeAndQueueImport(s, slot)
    [] action = "ToggleStreaming"    -> s

\* Every 33 ms a pass also asks for a snapshot for the display; one that
\* finds the ring full, or comes before the last was served, adds nothing.
Refreshed(s, due) ==
  IF due /\ ~Full(s) /\ Command("Snapshot") \notin Range(s.commands)
  THEN [s EXCEPT !.commands = Append(@, Command("Snapshot"))] ELSE s

\* A pass whose inbox is empty, or whose event is handled.  Toggling the
\* stream queues an event for the core, and such a pass returns undrained.
Idle(due) ==
  /\ running /\ pass = "dispatch"
  /\ pass' = "drain"
  /\ UNCHANGED <<actions, running>> /\ UNCHANGED callbackVars
  /\ Leave(Refreshed(Held, due))

Dispatch(action, slot, due) ==
  /\ running /\ pass = "dispatch" /\ actions < MaxActions
  /\ actions' = actions + 1
  /\ pass' = IF action = "ToggleStreaming" THEN "dispatch" ELSE "drain"
  /\ UNCHANGED running /\ UNCHANGED callbackVars
  /\ \E s \in {Handled(Held, action, slot)} : Leave(Refreshed(s, due))

\* Decoding the first loop takes long enough for callbacks to go by.
StartLoad ==
  /\ running /\ pass = "dispatch" /\ actions < MaxActions
  /\ actions' = actions + 1
  /\ UNCHANGED running /\ UNCHANGED callbackVars
  /\ \E s \in {EraseScene(Held)} :
       Leave(s) /\ pass' = IF s.failed THEN "drain" ELSE "loading"

FinishLoad(due, disk) ==
  /\ running /\ pass = "loading"
  /\ pass' = "drain"
  /\ UNCHANGED <<actions, running>> /\ UNCHANGED callbackVars
  /\ \E s \in {LoadScene(Held, disk)} : Leave(Refreshed(s, due))

--------------------------------------------------------------------------
(* One drain of the status ring, in the order the pass handles it          *)

Of(kind) == {i \in DOMAIN statuses : statuses[i].kind = kind}
LastOf(kind) == statuses[Max(Of(kind))]

\* Only the last snapshot of a drain is looked at, and it outlives the test
\* for a waiting scene save only if there was one.
HandleSnapshot(s) ==
  IF Of("Snapshot") # {} /\ s.save = Waiting
  THEN TakeSnapshot(s, LastOf("Snapshot").loops) ELSE s
SnapshotSurvives == Of("Snapshot") # {} /\ r.save = Waiting

\* What is done for each status of a kind, in the order they were published.
ForEvery(kind, Op(_, _), s) ==
  IF Of(kind) = {} THEN s
  ELSE ForEach(LAMBDA u, e : IF e.kind = kind THEN Op(u, e) ELSE u, s, statuses)

HandleExported(s, disk) ==
  ForEvery("LoopExported", LAMBDA u, e : FinishLoopExport(u, e, disk), s)

HandleImported(s, disk) ==
  ForEvery("LoopImported", LAMBDA u, e : FinishLoopImport(u, e.handle, disk), s)

HandleCompleted(s) ==
  IF AutoSave
  THEN ForEvery("LoopCompleted", LAMBDA u, e : RequestLoopExport(u, e.slot), s)
  ELSE s

\* Only the last transfer error of a drain is handled, and it is fatal.
HandleFailure(s) ==
  IF Of("TransferError") = {} THEN s
  ELSE LET h == LastOf("TransferError").handle
           u == Untrack(s, h)
           freed == IF Is(u, h, "Exported") THEN Store(u, h, "Free") ELSE u
       IN  Fail(StartNextLoopExport(freed))

HandleWanted(s) ==
  [s EXCEPT !.wanted = FALSE, !.kept = @ \/ (s.wanted /\ SnapshotSurvives)]

Drain(disk) ==
  /\ running /\ pass = "drain"
  /\ statuses' = <<>> /\ pass' = "dispatch"
  /\ UNCHANGED <<actions, loops, recording, job, block, takes, lost>>
  /\ \E asked \in {HandleSnapshot(Held)} :
     \E exported \in {Try(asked, LAMBDA u : HandleExported(u, disk))} :
     \E moved \in {Try(exported, LAMBDA u : HandleImported(u, disk))} :
     \E saved \in {Try(Try(moved, HandleCompleted),
                       LAMBDA u : MaybeSaveScene(u, disk))} :
     \E s \in {Try(Try(saved, HandleFailure), HandleWanted)} :
       Leave(s) /\ running' = ~s.failed

--------------------------------------------------------------------------
(* The audio callback                                                      *)

\* send_status: a status that finds the ring full is dropped.
Publish(e) ==
  IF Len(statuses) < StatusRoom
  THEN statuses' = Append(statuses, e) /\ UNCHANGED lost
  ELSE /\ UNCHANGED statuses
       /\ lost' = IF "handle" \in DOMAIN e THEN lost \cup {e.handle} ELSE lost

Silent == UNCHANGED <<statuses, lost>>

Give(h) == transfers' = [transfers EXCEPT ![h[1]].state = "Exported"]

\* The loops after stop_recording, and the slot it announces.
Stopped ==
  IF recording = 0 THEN loops
  ELSE [loops EXCEPT ![recording].mode =
          IF loops[recording].long THEN "Playing" ELSE "Empty"]
Completes ==
  recording # 0 /\ loops[recording].long /\ loops[recording].mode = "Recording"
Announce ==
  IF Completes THEN Publish([kind |-> "LoopCompleted", slot |-> recording])
  ELSE Silent

Empty == [mode |-> "Empty", long |-> FALSE, take |-> 0]

ApplyRecord(slot) ==
  /\ takes' = takes + 1
  /\ loops' = [Stopped EXCEPT ![slot] =
                 [mode |-> "Recording", long |-> FALSE, take |-> takes + 1]]
  /\ recording' = slot /\ Announce
  /\ UNCHANGED <<transfers, job>>

ApplyStopRecord ==
  /\ loops' = Stopped /\ recording' = 0 /\ Announce
  /\ UNCHANGED <<transfers, job, takes>>

ApplyErase(slot) ==
  /\ loops' = [loops EXCEPT ![slot] = Empty]
  /\ recording' = IF recording = slot THEN 0 ELSE recording
  /\ Silent /\ UNCHANGED <<transfers, job, takes>>

ApplyImport(c) ==
  /\ Give(c.handle)
  /\ loops' = [loops EXCEPT ![c.slot] =
                 [mode |-> "Playing", long |-> TRUE, take |-> takes + 1]]
  /\ takes' = takes + 1
  /\ Publish([kind |-> "LoopImported", handle |-> c.handle])
  /\ UNCHANGED <<recording, job>>

Exportable(slot) == loops[slot].long /\ loops[slot].mode # "Recording"

ApplyExport(c) ==
  /\ IF job = None /\ Exportable(c.slot)
     THEN /\ job' = [slot |-> c.slot, handle |-> c.handle, left |-> CopyBlocks]
          /\ transfers' = [transfers EXCEPT ![c.handle[1]].state = "Callback"]
          /\ Silent
     ELSE /\ Give(c.handle) /\ UNCHANGED job
          /\ Publish([kind |-> "TransferError", handle |-> c.handle])
  /\ UNCHANGED <<loops, recording, takes>>

Contents == [slot \in Slots |-> IF loops[slot].mode = "Empty" THEN 0
                                ELSE loops[slot].take]

ApplySnapshot ==
  /\ Publish([kind |-> "Snapshot", loops |-> Contents])
  /\ UNCHANGED <<transfers, loops, recording, job, takes>>

\* While a loop is exported, what would change it is turned away: the command
\* goes back as a status, which the event loop ignores, with its transfer.
Mutates(c, slot) == c.op \in {"Record", "Erase", "Import"} /\ c.slot = slot
Reject(c) ==
  /\ statuses' = IF Len(statuses) < StatusRoom
                  THEN Append(statuses, [kind |-> "CommandRejected"]) ELSE statuses
  /\ lost' = IF c.op = "Import" THEN lost \cup {c.handle} ELSE lost
  /\ UNCHANGED <<transfers, loops, recording, job, takes>>

ApplyCommand(c) ==
  IF job # None /\ Mutates(c, job.slot) THEN Reject(c)
  ELSE \/ c.op = "Record" /\ ApplyRecord(c.slot)
       \/ c.op = "StopRecord" /\ ApplyStopRecord
       \/ c.op = "Erase" /\ ApplyErase(c.slot)
       \/ c.op = "Import" /\ ApplyImport(c)
       \/ c.op = "Export" /\ ApplyExport(c)
       \/ c.op = "Snapshot" /\ ApplySnapshot

Serve ==
  /\ running /\ block = "drain" /\ commands # <<>>
  /\ commands' = Tail(commands)
  /\ ApplyCommand(Head(commands))
  /\ UNCHANGED <<r, block, pass, running, actions, scene>>

EndDrain ==
  /\ running /\ block = "drain" /\ commands = <<>>
  /\ block' = "render"
  /\ UNCHANGED <<r, transfers, commands, statuses, loops, recording, job,
                 pass, running, takes, actions, lost, scene>>

\* advance_export, then the frames of the block.
Copied ==
  IF job = None THEN Silent /\ UNCHANGED <<job, transfers>>
  ELSE IF job.left > 1
  THEN job' = [job EXCEPT !.left = @ - 1] /\ Silent /\ UNCHANGED transfers
  ELSE /\ job' = None /\ Give(job.handle)
       /\ Publish([kind |-> "LoopExported", handle |-> job.handle,
                   take |-> loops[job.slot].take])

Render ==
  /\ running /\ block = "render"
  /\ block' = "drain"
  /\ Copied
  /\ loops' = IF recording = 0 THEN loops
              ELSE [loops EXCEPT ![recording].long = TRUE]
  /\ UNCHANGED <<r, commands, recording, pass, running, takes, actions, scene>>

--------------------------------------------------------------------------
Init ==
  /\ r = [pending |-> {}, queued |-> <<>>, imports |-> {},
          importQueue |-> <<>>, hashes |-> [slot \in Slots |-> 0],
          save |-> None, wanted |-> FALSE, kept |-> FALSE]
  /\ transfers = [t \in Transfers |-> [state |-> "Free", generation |-> 0]]
  /\ commands = <<>> /\ statuses = <<>>
  /\ loops = [slot \in Slots |-> Empty] /\ recording = 0 /\ job = None
  /\ block = "drain" /\ pass = "dispatch" /\ running = TRUE
  /\ takes = 0 /\ actions = 0 /\ lost = {} /\ scene = None

EventLoop ==
  \/ \E due \in BOOLEAN : Idle(due)
  \/ \E action \in UserActions \ {"LoadScene"}, slot \in Slots, due \in BOOLEAN :
       Dispatch(action, slot, due)
  \/ "LoadScene" \in UserActions /\ StartLoad
  \/ \E due \in BOOLEAN, disk \in DiskOutcomes : FinishLoad(due, disk)
  \/ \E disk \in DiskOutcomes : Drain(disk)

Callback == Serve \/ EndDrain \/ Render

Next == EventLoop \/ Callback

Spec == Init /\ [][Next]_vars

\* The session makes passes, some of them ask for the display's snapshot, the
\* device calls back, and a callback finds the ring empty in the end.
FairSpec ==
  /\ Spec
  /\ WF_vars(EventLoop) /\ SF_vars(Idle(TRUE))
  /\ WF_vars(Callback) /\ SF_vars(EndDrain)

--------------------------------------------------------------------------
(* Properties                                                              *)

InFlight(h) ==
  \/ \E c \in Range(commands) : "handle" \in DOMAIN c /\ c.handle = h
  \/ \E e \in Range(statuses) : "handle" \in DOMAIN e /\ e.handle = h
  \/ job # None /\ job.handle = h

\* The bounded pool does not run dry by forgetting: a transfer that is not
\* free is named by a command, by the export of the callback or by a status
\* the event loop has yet to read, unless the callback could not answer
\* (send_status drops on a full ring, a rejected import is not answered).
TransfersComeHome ==
  running => \A t \in Transfers :
    LET h == <<t, transfers[t].generation>>
    IN  transfers[t].state # "Free" => InFlight(h) \/ h \in lost

\* Exports are made one at a time and the queue never stands behind nothing:
\* a loop waits only behind an export that still holds its transfer.
ExportsMoveOn ==
  running =>
    /\ \A p, q \in r.pending : p = q
    /\ r.queued # <<>> => r.pending # {}
    /\ \A p \in r.pending :
         /\ transfers[p.handle[1]].generation = p.handle[2]
         /\ transfers[p.handle[1]].state # "Free"

\* No saved scene names audio older than the snapshot it was made from, for
\* the loops whose export began after that snapshot was handled (one whose
\* export was under way is not asked for again), unless another scene was
\* loaded meanwhile.
SceneIsWhole ==
  scene # None =>
    \A slot \in scene.fresh : scene.hashes[slot] >= scene.snapshot[slot]

\* A scene save that was asked for is written, or the session ends with an
\* error, unless the answer to an export was lost.
SaveEnds ==
  r.save # None ~>
    \/ r.save = None \/ ~running
    \/ \E p \in r.pending : p.handle \in lost

\* A snapshot the user creates is kept: the request is not struck off before
\* there is a snapshot under its name.
SnapshotIsKept ==
  [][r.wanted /\ ~r'.wanted => r'.kept]_vars
==========================================================================
