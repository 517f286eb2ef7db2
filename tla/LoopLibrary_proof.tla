----------------------- MODULE LoopLibrary_proof -----------------------
(***************************************************************************)
(* What the event loop's export and import of loops promises, for any      *)
(* number of loops, transfers, rings and callback blocks, any scene and    *)
(* any choice of the user's events: no transfer is left behind, the queue  *)
(* of exports moves, and a scene file holds what its snapshot spoke of.    *)
(*                                                                         *)
(* None of the three is inductive.                                         *)
(*                                                                         *)
(* TransfersComeHome: who is to give a transfer back is read off its       *)
(* generation, so no handle may be of a generation to come (Past), what is *)
(* lent to the callback is lent once (Lent), and a handler that frees what *)
(* a status names must know that nothing else names it (Own).  Within a    *)
(* drain a status counts as long as it is in "left": the loops over the    *)
(* statuses take each out when they have handled it.                       *)
(*                                                                         *)
(* ExportsMoveOn: the export under way is the only one, its handle is      *)
(* named by that export alone (Exporting), and no loop is queued without   *)
(* it (Moving) -- which a handler breaks between its steps, and mends.     *)
(*                                                                         *)
(* SceneIsWhole: while a scene waits for its loops, each loop that was     *)
(* fresh in the snapshot is still to be asked for, is queued, is under way *)
(* or has its audio (Asked), what it holds is no older than the snapshot   *)
(* unless it was erased (Since), and an answer that is on its way brings   *)
(* no older take (Due).  The loops "unasked" are those that the handler of *)
(* the snapshot has not come to yet.                                       *)
(*                                                                         *)
(* A handler is a function of a record of what the event loop holds        *)
(* (Held), so its lemma says what it keeps of Good(s, left, unasked), with *)
(* the callback standing still; the loops of a drain are followed turn by  *)
(* turn (Turns), with the least-number principle (Least) for induction.    *)
(* A step of the callback is one of a shape CallbackKeeps speaks of.       *)
(***************************************************************************)
EXTENDS LoopLibrary, FiniteSetTheorems, WellFoundedInduction, SequenceTheorems, TLAPS

\* The least-number principle, for a set given as such: it stands in for induction.
LEMMA Least ==
  ASSUME NEW n \in Nat, NEW T \in SUBSET (0..n), T # {}
  PROVE  \E m \in T : \A x \in T : m <= x
<1> DEFINE Upto(m) == {x \in T : x <= m}
           F == {Upto(m) : m \in T}
<1>1. IsFiniteSet(0..n) /\ IsFiniteSet(T)
  <2>1. 0 \in Int /\ n \in Int
    OBVIOUS
  <2>2. IsFiniteSet(0..n)
    BY <2>1, FS_Interval
  <2> QED BY <2>2, FS_Subset
<1>2. F \subseteq FiniteSubsetsOf(T)
  BY <1>1, FS_Subset DEF FiniteSubsetsOf
<1>3. F # {}
  OBVIOUS
<1>4. IsWellFoundedOn(StrictSubsetOrdering(T), FiniteSubsetsOf(T))
  BY FS_StrictSubsetOrderingWellFounded
<1>5. PICK U \in F : \A V \in F : ~(<<V, U>> \in StrictSubsetOrdering(T))
  BY <1>2, <1>3, <1>4, WFMin
<1>6. PICK m \in T : U = Upto(m)
  OBVIOUS
<1>7. ASSUME NEW x \in T, x < m PROVE FALSE
  <2> x \in Int /\ m \in Int /\ \A y \in T : y \in Int
    OBVIOUS
  <2>a. Upto(x) \in F
    OBVIOUS
  <2>b. Upto(x) \subseteq Upto(m)
    <3>1. ASSUME NEW y \in T, y <= x PROVE y <= m
      <4>1. y \in Int
        OBVIOUS
      <4> QED BY <1>7, <3>1, <4>1
    <3> QED BY <3>1
  <2>c. m \in Upto(m) /\ m \notin Upto(x)
    <3>1. m <= m /\ ~(m <= x)
      BY <1>7
    <3> QED BY <3>1
  <2>1. Upto(x) \in F /\ Upto(x) \subseteq Upto(m) /\ m \in Upto(m) /\ m \notin Upto(x)
    BY <2>a, <2>b, <2>c
  <2>2. <<Upto(x), U>> \in StrictSubsetOrdering(T)
    BY <1>6, <2>1 DEF StrictSubsetOrdering
  <2> QED
    BY <1>5, <2>1, <2>2
<1>8. m \in Int /\ \A x \in T : x \in Int
  OBVIOUS
<1>9. \A x \in T : m <= x
  BY <1>7, <1>8
<1> QED
  BY <1>9
--------------------------------------------------------------------------
(* The invariant                                                           *)

\* What the event loop holds, and the values its parts take.
Fields == {"pending", "queued", "imports", "importQueue", "hashes", "save", "wanted", "kept",
           "transfers", "commands", "scene", "failed"}
TransferSet == [state : {"Free", "Queued", "Callback", "Exported"}, generation : Nat]
CommandSet ==
  [op : {"Record", "Erase"}, slot : Slots] \cup [op : {"StopRecord", "Snapshot"}]
  \cup [op : {"Export", "Import"}, slot : Slots, handle : Handles]
StatusSet ==
  [kind : {"Snapshot"}, loops : [Slots -> Nat]]
  \cup [kind : {"LoopExported"}, handle : Handles, take : Nat]
  \cup [kind : {"LoopImported", "TransferError"}, handle : Handles]
  \cup [kind : {"LoopCompleted"}, slot : Slots] \cup [kind : {"CommandRejected"}]
SaveSet == [snapshot : [Slots -> Nat], fresh : SUBSET Slots]
LoopSet == [mode : {"Empty", "Recording", "Playing"}, long : BOOLEAN, take : Nat]

\* The types of what the event loop holds.
Shape(s) ==
  /\ DOMAIN s = Fields
  /\ s.pending \subseteq [handle : Handles, slot : Slots] /\ s.queued \in Seq(Slots)
  /\ s.imports \subseteq Handles /\ s.importQueue \in Seq(Slots)
  /\ s.hashes \in [Slots -> Int]
  /\ s.save \in {None, Waiting} \/ s.save \in SaveSet
  /\ s.transfers \in [Transfers -> TransferSet] /\ s.commands \in Seq(CommandSet)

\* The commands that lend a transfer, and the statuses that answer for one.
Lends(c) == c.op \in {"Export", "Import"}
Answers(e) == e.kind \in {"LoopExported", "LoopImported", "TransferError"}

\* What the callback is to work on, and works on, is lent to it and to one command only.
Lent(s) ==
  /\ \A i \in DOMAIN s.commands : Lends(s.commands[i]) => Is(s, s.commands[i].handle, "Queued")
  /\ \A i, j \in DOMAIN s.commands :
       /\ Lends(s.commands[i]) /\ Lends(s.commands[j])
       /\ s.commands[i].handle = s.commands[j].handle
       => i = j
  /\ job # None => Is(s, job.handle, "Callback")

\* No handle is of a generation to come.
Past(s) ==
  /\ \A i \in DOMAIN statuses : Answers(statuses[i]) =>
       statuses[i].handle[2] <= s.transfers[statuses[i].handle[1]].generation
  /\ \A h \in s.imports : h[2] <= s.transfers[h[1]].generation

\* Of the statuses, those in "left" are still to be handled.
NamedBy(s, left, h) ==
  \/ \E i \in DOMAIN s.commands : Lends(s.commands[i]) /\ s.commands[i].handle = h
  \/ \E i \in left : Answers(statuses[i]) /\ statuses[i].handle = h
  \/ job # None /\ job.handle = h
  \/ h \in lost

\* What is in use will be given back.
Homeward(s, left) ==
  \A t \in Transfers : s.transfers[t].state # "Free" =>
    NamedBy(s, left, <<t, s.transfers[t].generation>>)

\* The handle of an export is named by nothing but that export.
Own(s, p) ==
  /\ s.transfers[p.handle[1]].generation = p.handle[2]
  /\ s.transfers[p.handle[1]].state # "Free"
  /\ p.handle \notin s.imports
  /\ \A i \in DOMAIN s.commands :
       Lends(s.commands[i]) /\ s.commands[i].handle = p.handle =>
         s.commands[i].op = "Export" /\ s.commands[i].slot = p.slot
  /\ \A i \in DOMAIN statuses :
       statuses[i].kind = "LoopImported" => statuses[i].handle # p.handle
  /\ job # None /\ job.handle = p.handle => job.slot = p.slot

\* One export at most is under way.
Exporting(s) ==
  /\ \A p, q \in s.pending : p = q
  /\ \A p \in s.pending : Own(s, p)

\* No loop waits for an export that nothing will start.
Moving(s) == s.queued # <<>> => s.pending # {}

\* What a loop holds, unless it was erased, is at least the take of a snapshot.
Since(slot, n) == n <= takes /\ (loops[slot].mode = "Empty" \/ loops[slot].take >= n)

\* A scene waits for its loops.
Saving(s) == s.save \notin {None, Waiting}

\* The export of a loop that was fresh in the snapshot brings no older take.
Due(s, slot) ==
  \A p \in s.pending : p.slot = slot =>
    \A i \in DOMAIN statuses :
      statuses[i].kind = "LoopExported" /\ statuses[i].handle = p.handle =>
        statuses[i].take >= s.save.snapshot[slot]

\* The audio of a loop is on its way, or is here.
Asked(s, slot) ==
  \/ slot \in Range(s.queued) \/ Pending(s, slot)
  \/ s.hashes[slot] = 0 \/ s.hashes[slot] >= s.save.snapshot[slot]

\* The loops in "unasked" are still to be asked for.
Waited(s, unasked) ==
  Saving(s) =>
    /\ \A slot \in Slots : Since(slot, s.save.snapshot[slot])
    /\ \A slot \in s.save.fresh :
         /\ slot \in Kept(s.save.snapshot) /\ Due(s, slot)
         /\ slot \in unasked \/ Asked(s, slot)

\* What holds between any two calls of a handler, and what holds between the handlers.
Sound(s, left, unasked) ==
  Shape(s) /\ Lent(s) /\ Past(s) /\ Homeward(s, left) /\ Exporting(s) /\ Waited(s, unasked)

Good(s, left, unasked) == Sound(s, left, unasked) /\ Moving(s)

\* The callback, and what it has published.
Playing ==
  /\ loops \in [Slots -> LoopSet] /\ recording \in 0..NSlots /\ takes \in Nat
  /\ \A slot \in Slots :
       loops[slot].take <= takes /\ (loops[slot].mode = "Empty" => ~loops[slot].long)
  /\ recording # 0 => loops[recording].mode # "Empty"
  /\ job # None => job \in [slot : Slots, handle : Handles, left : Nat] /\ loops[job.slot].long

\* A snapshot that is under way speaks of no audio to come.
Published ==
  /\ statuses \in Seq(StatusSet)
  /\ \A i \in DOMAIN statuses : statuses[i].kind = "Snapshot" =>
       \A slot \in Slots : Since(slot, statuses[i].loops[slot])

\* The record of the event loop has its fields.
Known == DOMAIN r = Fields \ {"transfers", "commands", "scene", "failed"}

\* What holds as long as the program runs.
Going == Good(Held, DOMAIN statuses, {}) /\ Playing /\ Published /\ Known

LibraryInv == running => Going

--------------------------------------------------------------------------
(* Sequences and sets                                                      *)

\* The assumption, part by part; what a command, a status and a handle are made of.
LEMMA LibraryBounds ==
  /\ NSlots \in Nat \ {0} /\ NTransfers \in Nat \ {0} /\ CommandRoom \in Nat \ {0}
  /\ StatusRoom \in Nat \ {0} /\ CopyBlocks \in Nat \ {0} /\ SceneLoops \in Seq(Slots)
  BY LibraryAssumption

LEMMA CommandIs ==
  ASSUME NEW c \in CommandSet
  PROVE  /\ "handle" \in DOMAIN c <=> Lends(c)
         /\ Lends(c) => c.handle \in Handles /\ c.slot \in Slots
         /\ c.op \in {"Record", "Erase"} => c.slot \in Slots
         /\ c.op \in {"Record", "Erase", "StopRecord", "Snapshot", "Export", "Import"}
  BY DEF CommandSet, Lends

LEMMA StatusIs ==
  ASSUME NEW e \in StatusSet
  PROVE  /\ "handle" \in DOMAIN e <=> Answers(e)
         /\ Answers(e) => e.handle \in Handles
         /\ e.kind = "LoopExported" => e.take \in Nat
         /\ e.kind = "LoopCompleted" => e.slot \in Slots
         /\ e.kind = "Snapshot" => e.loops \in [Slots -> Nat]
  BY DEF StatusSet, Answers

LEMMA HandleIs ==
  ASSUME NEW h \in Handles
  PROVE  h[1] \in Transfers /\ h[2] \in Nat /\ h = <<h[1], h[2]>>
  BY DEF Handles

LEMMA CommandsAre ==
  ASSUME NEW s, Shape(s), NEW i \in DOMAIN s.commands
  PROVE  s.commands[i] \in CommandSet /\ i \in 1..Len(s.commands)
  BY DEF Shape

LEMMA StatusesAre ==
  ASSUME Published, NEW i \in DOMAIN statuses
  PROVE  statuses[i] \in StatusSet /\ i \in 1..Len(statuses)
  BY DEF Published

LEMMA Appended ==
  ASSUME NEW S, NEW q \in Seq(S), NEW x \in S
  PROVE  /\ Append(q, x) \in Seq(S) /\ DOMAIN Append(q, x) = 1..(Len(q) + 1)
         /\ DOMAIN q = 1..Len(q) /\ Len(q) \in Nat
         /\ \A i \in 1..Len(q) : Append(q, x)[i] = q[i]
         /\ Append(q, x)[Len(q) + 1] = x
  BY AppendProperties

--------------------------------------------------------------------------
(* Transfers                                                               *)

\* Nothing but the fields in F is different.
Differs(s, t, F) == DOMAIN t = Fields /\ \A f \in Fields \ F : t[f] = s[f]

\* What each operator on transfers changes.
LEMMA FailIs ==
  ASSUME NEW s, Shape(s)
  PROVE  Differs(s, Fail(s), {"failed"}) /\ Fail(s).failed
  BY DEF Differs, Fail, Shape, Fields

LEMMA StoreIs ==
  ASSUME NEW s, Shape(s), NEW h \in Handles, NEW state
  PROVE  /\ Differs(s, Store(s, h, state), {"transfers"})
         /\ Store(s, h, state).transfers =
              [s.transfers EXCEPT ![h[1]] = [state |-> state, generation |-> h[2]]]
  BY DEF Differs, Store, Shape, Fields

LEMMA SendIs ==
  ASSUME NEW s, Shape(s), NEW c
  PROVE  /\ Full(s) => Send(s, c) = Fail(s)
         /\ ~Full(s) => /\ Differs(s, Send(s, c), {"commands"})
                        /\ Send(s, c).commands = Append(s.commands, c)
  BY DEF Differs, Send, Shape, Fields

LEMMA TrackIs ==
  ASSUME NEW s, Shape(s), NEW slot, NEW h
  PROVE  /\ Differs(s, Track(s, With("Export", slot, h)), {"pending"})
         /\ Track(s, With("Export", slot, h)).pending = s.pending \cup {[handle |-> h, slot |-> slot]}
         /\ Differs(s, Track(s, With("Import", slot, h)), {"imports"})
         /\ Track(s, With("Import", slot, h)).imports = s.imports \cup {h}
  BY DEF Differs, Track, With, Shape, Fields

LEMMA FreshIs ==
  ASSUME NEW s, Shape(s), Free(s) # {}
  PROVE  /\ Acquired(s) \in Handles /\ s.transfers[Acquired(s)[1]].state = "Free"
         /\ Acquired(s)[2] = s.transfers[Acquired(s)[1]].generation + 1
<1>1. Free(s) \in SUBSET (0..NTransfers) /\ NTransfers \in Nat
  BY LibraryBounds DEF Free, Transfers
<1>2. PICK m \in Free(s) : \A x \in Free(s) : m <= x
  BY <1>1, Least
<1> DEFINE t == CHOOSE t \in Free(s) : \A u \in Free(s) : t <= u
<1>3. t \in Free(s)
  BY <1>2
<1>4. Acquired(s) = <<t, s.transfers[t].generation + 1>>
  BY DEF Acquired
<1> HIDE DEF t
<1>5. t \in Transfers /\ s.transfers[t].state = "Free" /\ s.transfers[t].generation \in Nat
  BY <1>3 DEF Free, Shape, TransferSet
<1> QED BY <1>4, <1>5 DEF Handles

--------------------------------------------------------------------------
(* Lending                                                                 *)

\* Lending a transfer either grants it under a new handle or leaves it free.
Fresh(s, h) ==
  s.transfers[h[1]].state = "Free" /\ h[2] = s.transfers[h[1]].generation + 1

Grants(s, t, op, slot, h) ==
  /\ Differs(s, t, {"transfers", "commands", "pending", "imports"})
  /\ t.transfers = [s.transfers EXCEPT ![h[1]] = [state |-> "Queued", generation |-> h[2]]]
  /\ t.commands = Append(s.commands, With(op, slot, h))
  /\ t.pending = IF op = "Export" THEN s.pending \cup {[handle |-> h, slot |-> slot]}
                 ELSE s.pending
  /\ t.imports = IF op = "Import" THEN s.imports \cup {h} ELSE s.imports

Refuses(s, t) ==
  \/ t = Fail(s)
  \/ \E h \in Handles : Fresh(s, h) /\ t = Fail(Store(s, h, "Free"))

\* A stored state is a state.
LEMMA StoredShape ==
  ASSUME NEW s, Shape(s), NEW h \in Handles,
         NEW state \in {"Free", "Queued", "Callback", "Exported"}
  PROVE  Shape(Store(s, h, state))
<1>1. [state |-> state, generation |-> h[2]] \in TransferSet
  BY HandleIs DEF TransferSet
<1> DEFINE t == Store(s, h, state)
<1>2. /\ Differs(s, t, {"transfers"})
      /\ t.transfers = [s.transfers EXCEPT ![h[1]] = [state |-> state, generation |-> h[2]]]
  BY StoreIs
<1> HIDE DEF t
<1>3. t.transfers \in [Transfers -> TransferSet]
  BY <1>1, <1>2 DEF Shape
<1>4. Shape(t)
  BY <1>2, <1>3 DEF Shape, Differs, Fields
<1> QED BY <1>4 DEF t

\* A transfer is lent, or the attempt leaves nothing behind.
LEMMA LendIs ==
  ASSUME NEW s, Shape(s), NEW op \in {"Export", "Import"}, NEW slot \in Slots
  PROVE  \/ Refuses(s, Lend(s, op, slot))
         \/ \E h \in Handles : Fresh(s, h) /\ Grants(s, Lend(s, op, slot), op, slot, h)
<1>1. CASE Free(s) = {}
  BY <1>1 DEF Lend, Refuses
<1>2. CASE Free(s) # {}
  <2> DEFINE h == Acquired(s)
             q == Store(s, h, "Queued")
             c == With(op, slot, h)
             u == Send(q, c)
  <2>1. h \in Handles /\ Fresh(s, h)
    BY <1>2, FreshIs DEF Fresh
  <2>2. Lend(s, op, slot) = IF Full(s) THEN Fail(Store(s, h, "Free")) ELSE Track(u, c)
    BY <1>2 DEF Lend
  <2> HIDE DEF h
  <2>3. CASE Full(s)
    BY <2>1, <2>2, <2>3 DEF Refuses
  <2>4. CASE ~Full(s)
    <3>1. Shape(q) /\ Differs(s, q, {"transfers"}) /\
          q.transfers = [s.transfers EXCEPT ![h[1]] = [state |-> "Queued", generation |-> h[2]]]
      BY <2>1, StoredShape, StoreIs
    <3>2. q.commands = s.commands /\ ~Full(q)
      BY <2>4, <3>1 DEF Differs, Fields, Full
    <3> HIDE DEF q
    <3>3. Differs(q, u, {"commands"}) /\ u.commands = Append(q.commands, c)
      BY <3>1, <3>2, SendIs
    <3>4. c \in CommandSet
      BY <2>1 DEF CommandSet, With
    <3>5. Shape(u)
      <4>1. q.commands \in Seq(CommandSet)
        BY <3>1 DEF Shape
      <4>2. u.commands \in Seq(CommandSet)
        BY <3>3, <3>4, <4>1
      <4> QED BY <3>1, <3>3, <4>2 DEF Shape, Differs, Fields
    <3> HIDE DEF u
    <3>6. CASE op = "Export"
      <4>1. /\ Differs(u, Track(u, c), {"pending"})
            /\ Track(u, c).pending = u.pending \cup {[handle |-> h, slot |-> slot]}
        BY <3>5, <3>6, TrackIs
      <4>2. Grants(s, Track(u, c), op, slot, h)
        BY <3>1, <3>2, <3>3, <3>6, <4>1 DEF Grants, Differs, Fields
      <4> QED BY <2>1, <2>2, <2>4, <4>2
    <3>7. CASE op = "Import"
      <4>1. /\ Differs(u, Track(u, c), {"imports"})
            /\ Track(u, c).imports = u.imports \cup {h}
        BY <3>5, <3>7, TrackIs
      <4>2. Grants(s, Track(u, c), op, slot, h)
        BY <3>1, <3>2, <3>3, <3>7, <4>1 DEF Grants, Differs, Fields
      <4> QED BY <2>1, <2>2, <2>4, <4>2
    <3> QED BY <3>6, <3>7
  <2> QED BY <2>3, <2>4
<1> QED BY <1>1, <1>2

--------------------------------------------------------------------------
(* What keeps the invariant, of the handlers' parts                        *)

\* Some transfers that nobody is to give back become free.
Idles(s, t) ==
  /\ Differs(s, t, {"transfers", "failed"})
  /\ t.transfers \in [Transfers -> TransferSet]
  /\ \A x \in Transfers :
       \/ t.transfers[x] = s.transfers[x]
       \/ /\ t.transfers[x].state = "Free"
          /\ s.transfers[x].state \in {"Free", "Exported"}
          /\ s.transfers[x].generation <= t.transfers[x].generation
          /\ s.transfers[x].state = "Exported" => \A p \in s.pending : p.handle[1] # x

\* To free what nobody is to give back, and what an export no longer owns, is sound.
LEMMA IdlesKeeps ==
  ASSUME NEW s, NEW t, NEW left, NEW unasked, Sound(s, left, unasked), Playing, Published,
         Idles(s, t)
  PROVE  Sound(t, left, unasked)
<1> USE DEF Idles, Fields
<1>0. /\ Shape(s) /\ Lent(s) /\ Past(s) /\ Homeward(s, left) /\ Exporting(s)
      /\ Waited(s, unasked)
  BY DEF Sound
<1>a. /\ t.pending = s.pending /\ t.queued = s.queued /\ t.imports = s.imports
      /\ t.importQueue = s.importQueue /\ t.hashes = s.hashes /\ t.save = s.save
      /\ t.commands = s.commands
  BY DEF Differs
<1>b. \A x \in Transfers :
        /\ s.transfers[x].generation \in Nat /\ t.transfers[x].generation \in Nat
        /\ s.transfers[x].generation <= t.transfers[x].generation
  BY <1>0 DEF Shape, TransferSet
<1>1. Shape(t)
  BY <1>0, <1>a DEF Shape, Differs
<1>2. Lent(t)
  <2>1. ASSUME NEW h \in Handles, NEW state \in {"Queued", "Callback"}, Is(s, h, state)
        PROVE  Is(t, h, state)
    BY <2>1, HandleIs DEF Is
  <2>2. ASSUME NEW i \in DOMAIN s.commands, Lends(s.commands[i])
        PROVE  s.commands[i].handle \in Handles
    BY <1>0, <2>2, CommandsAre, CommandIs
  <2>3. job # None => job.handle \in Handles
    BY DEF Playing
  <2> QED BY <1>0, <1>a, <2>1, <2>2, <2>3 DEF Lent
<1>3. Past(t)
  <2>1. ASSUME NEW h \in Handles, h[2] <= s.transfers[h[1]].generation
        PROVE  h[2] <= t.transfers[h[1]].generation
    BY <1>b, <2>1, HandleIs
  <2>2. ASSUME NEW i \in DOMAIN statuses, Answers(statuses[i])
        PROVE  statuses[i].handle \in Handles
    BY <2>2, StatusesAre, StatusIs
  <2>3. s.imports \subseteq Handles
    BY <1>0 DEF Shape
  <2> QED BY <1>0, <1>a, <2>1, <2>2, <2>3 DEF Past
<1>4. Homeward(t, left)
  <2>1. ASSUME NEW x \in Transfers, t.transfers[x].state # "Free"
        PROVE  NamedBy(t, left, <<x, t.transfers[x].generation>>)
    <3>1. t.transfers[x] = s.transfers[x]
      BY <2>1
    <3>2. NamedBy(s, left, <<x, s.transfers[x].generation>>)
      BY <1>0, <2>1, <3>1 DEF Homeward
    <3> QED BY <1>a, <3>1, <3>2 DEF NamedBy
  <2> QED BY <2>1 DEF Homeward
<1>5. Exporting(t)
  <2>1. ASSUME NEW p \in s.pending
        PROVE  t.transfers[p.handle[1]] = s.transfers[p.handle[1]]
    <3>1. p.handle[1] \in Transfers /\ s.transfers[p.handle[1]].state # "Free"
      BY <1>0, HandleIs DEF Shape, Exporting, Own
    <3> QED BY <3>1
  <2> QED BY <1>0, <1>a, <2>1 DEF Exporting, Own
<1>6. Waited(t, unasked)
  BY <1>0, <1>a DEF Waited, Saving, Due, Asked, Pending
<1> QED BY <1>1, <1>2, <1>3, <1>4, <1>5, <1>6 DEF Sound

LEMMA StoreIdles ==
  ASSUME NEW s, Shape(s), NEW h \in Handles,
         \/ Fresh(s, h)
         \/ Is(s, h, "Exported") /\ \A p \in s.pending : p.handle[1] # h[1]
  PROVE  Idles(s, Store(s, h, "Free"))
<1> DEFINE t == Store(s, h, "Free")
<1>1. Shape(t) /\ Differs(s, t, {"transfers"}) /\
      t.transfers = [s.transfers EXCEPT ![h[1]] = [state |-> "Free", generation |-> h[2]]]
  BY StoredShape, StoreIs
<1> HIDE DEF t
<1>2. ASSUME NEW x \in Transfers, t.transfers[x] # s.transfers[x]
      PROVE  /\ x = h[1] /\ t.transfers[x] = [state |-> "Free", generation |-> h[2]]
             /\ s.transfers[x].generation \in Nat /\ h[2] \in Nat
  BY <1>1, <1>2, HandleIs DEF Shape, TransferSet
<1>3. t.transfers \in [Transfers -> TransferSet] /\ Differs(s, t, {"transfers", "failed"})
  BY <1>1 DEF Shape, Differs
<1>4. Idles(s, t)
  BY <1>2, <1>3 DEF Idles, Fresh, Is
<1> QED BY <1>4 DEF t

LEMMA FailIdles ==
  ASSUME NEW s, Shape(s)
  PROVE  Idles(s, Fail(s))
  BY FailIs DEF Idles, Differs, Shape, Fields

LEMMA IdlesOn ==
  ASSUME NEW s, NEW t, NEW u, Shape(s), Idles(s, t), Idles(t, u), t.transfers = u.transfers
  PROVE  Idles(s, u)
  BY DEF Idles, Differs, Fields

LEMMA RefusesIdles ==
  ASSUME NEW s, NEW t, Shape(s), Refuses(s, t)
  PROVE  Idles(s, t) /\ t.failed
<1>1. CASE t = Fail(s)
  BY <1>1, FailIdles, FailIs
<1>2. ASSUME NEW h \in Handles, Fresh(s, h), t = Fail(Store(s, h, "Free"))
      PROVE  Idles(s, t) /\ t.failed
  <2> DEFINE u == Store(s, h, "Free")
  <2>1. Shape(u) /\ Idles(s, u)
    BY <1>2, StoredShape, StoreIdles
  <2> HIDE DEF u
  <2>2. Idles(u, Fail(u)) /\ Differs(u, Fail(u), {"failed"}) /\ Fail(u).failed
    BY <2>1, FailIdles, FailIs
  <2>3. u.transfers = Fail(u).transfers
    BY <2>2 DEF Differs, Fields
  <2>4. t = Fail(u)
    BY <1>2 DEF u
  <2> QED BY <2>1, <2>2, <2>3, <2>4, IdlesOn
<1> QED BY <1>1, <1>2 DEF Refuses

\* A granted transfer is named by the command it is lent to.
LEMMA GrantKeeps ==
  ASSUME NEW s, NEW t, NEW left, NEW unasked, Sound(s, left, unasked), Playing, Published,
         NEW op \in {"Export", "Import"}, NEW slot \in Slots, NEW h \in Handles,
         Fresh(s, h), Grants(s, t, op, slot, h), op = "Export" => s.pending = {}
  PROVE  Sound(t, left, unasked)
<1> USE DEF Fields
<1> DEFINE c == With(op, slot, h)
           n == Len(s.commands) + 1
<1>0. /\ Shape(s) /\ Lent(s) /\ Past(s) /\ Homeward(s, left) /\ Exporting(s)
      /\ Waited(s, unasked)
  BY DEF Sound
<1>a. /\ t.queued = s.queued /\ t.importQueue = s.importQueue /\ t.hashes = s.hashes
      /\ t.save = s.save /\ DOMAIN t = Fields
  BY DEF Grants, Differs
<1>b. h[1] \in Transfers /\ h[2] \in Nat /\ h = <<h[1], h[2]>>
  BY HandleIs
<1>c. /\ t.transfers \in [Transfers -> TransferSet]
      /\ t.transfers[h[1]] = [state |-> "Queued", generation |-> h[2]]
      /\ \A x \in Transfers : x # h[1] => t.transfers[x] = s.transfers[x]
  <2>1. [state |-> "Queued", generation |-> h[2]] \in TransferSet
    BY <1>b DEF TransferSet
  <2> QED BY <1>0, <1>b, <2>1 DEF Grants, Shape
<1>d. s.transfers[h[1]].state = "Free" /\ h[2] = s.transfers[h[1]].generation + 1 /\
      \A x \in Transfers : s.transfers[x].generation \in Nat
  BY <1>0, <1>b DEF Fresh, Shape, TransferSet
<1>e. c \in CommandSet /\ c.op = op /\ c.slot = slot /\ c.handle = h /\ Lends(c)
  BY DEF CommandSet, With, Lends
<1>f. /\ t.commands \in Seq(CommandSet) /\ DOMAIN t.commands = 1..n
      /\ DOMAIN s.commands = 1..(n - 1) /\ n \in Nat /\ n \in 1..n /\ t.commands[n] = c
      /\ \A i \in 1..(n - 1) : t.commands[i] = s.commands[i]
  <2>1. s.commands \in Seq(CommandSet) /\ t.commands = Append(s.commands, c)
    BY <1>0 DEF Shape, Grants
  <2> HIDE DEF c
  <2> QED BY <1>e, <2>1, Appended
<1> HIDE DEF c, n
<1>g. \A x \in Handles : x[2] <= s.transfers[x[1]].generation => x # h
  BY <1>b, <1>d
<1>h. \A i \in 1..(n - 1) : Lends(s.commands[i]) =>
        s.commands[i].handle \in Handles /\ s.commands[i].handle # h /\
        s.commands[i].handle[1] # h[1]
  <2>1. ASSUME NEW i \in 1..(n - 1), Lends(s.commands[i])
        PROVE  s.commands[i].handle \in Handles /\ s.commands[i].handle[1] # h[1]
    <3>1. s.commands[i].handle \in Handles
      BY <1>0, <1>f, <2>1, CommandsAre, CommandIs
    <3>2. Is(s, s.commands[i].handle, "Queued")
      BY <1>0, <1>f, <2>1 DEF Lent
    <3>3. s.transfers[s.commands[i].handle[1]].state = "Queued"
      BY <3>2 DEF Is
    <3> QED BY <1>d, <3>1, <3>3
  <2> QED BY <2>1
<1>i. job # None => job.handle \in Handles /\ job.handle # h /\ job.handle[1] # h[1]
  <2>1. job # None => job.handle \in Handles /\ s.transfers[job.handle[1]].state = "Callback"
    BY <1>0 DEF Lent, Is, Playing
  <2> QED BY <1>d, <2>1
<1>j. \A i \in DOMAIN statuses : Answers(statuses[i]) =>
        statuses[i].handle \in Handles /\ statuses[i].handle # h
  <2>1. ASSUME NEW i \in DOMAIN statuses, Answers(statuses[i])
        PROVE  statuses[i].handle \in Handles
    BY <2>1, StatusesAre, StatusIs
  <2> QED BY <1>0, <1>g, <2>1 DEF Past
<1>k. \A p \in s.pending : p.handle \in Handles /\ p.handle[1] # h[1] /\ p.handle # h
  <2>1. ASSUME NEW p \in s.pending
        PROVE  p.handle \in Handles /\ s.transfers[p.handle[1]].state # "Free"
    BY <1>0 DEF Shape, Exporting, Own
  <2> QED BY <1>d, <2>1
<1>1. Shape(t)
  <2>1. t.pending \subseteq [handle : Handles, slot : Slots] /\ t.imports \subseteq Handles
    BY <1>0 DEF Shape, Grants
  <2> QED BY <1>0, <1>a, <1>c, <1>f, <2>1 DEF Shape
<1>2. Lent(t)
  <2>1. ASSUME NEW i \in 1..n, Lends(t.commands[i])
        PROVE  Is(t, t.commands[i].handle, "Queued")
    <3>1. CASE i = n
      BY <1>c, <1>e, <1>f, <3>1 DEF Is
    <3>2. CASE i # n
      <4>1. i \in 1..(n - 1) /\ t.commands[i] = s.commands[i]
        BY <1>f, <3>2
      <4>2. Is(s, s.commands[i].handle, "Queued")
        BY <1>0, <1>f, <2>1, <4>1 DEF Lent
      <4>3. s.commands[i].handle[1] \in Transfers /\ s.commands[i].handle[1] # h[1]
        BY <1>h, <2>1, <4>1, HandleIs
      <4> QED BY <1>c, <4>1, <4>2, <4>3 DEF Is
    <3> QED BY <3>1, <3>2
  <2>2. ASSUME NEW i \in 1..n, NEW j \in 1..n, Lends(t.commands[i]), Lends(t.commands[j]),
               t.commands[i].handle = t.commands[j].handle, i # j
        PROVE  FALSE
    <3>1. \A k \in 1..n : k = n \/ k \in 1..(n - 1)
      BY <1>f
    <3>2. CASE i = n
      BY <1>e, <1>f, <1>h, <2>2, <3>1, <3>2
    <3>3. CASE j = n
      BY <1>e, <1>f, <1>h, <2>2, <3>1, <3>3
    <3>4. CASE i # n /\ j # n
      BY <1>0, <1>f, <2>2, <3>1, <3>4 DEF Lent
    <3> QED BY <3>2, <3>3, <3>4
  <2>3. job # None => Is(t, job.handle, "Callback")
    <3>1. job # None => Is(s, job.handle, "Callback") /\ job.handle[1] \in Transfers
      BY <1>0, <1>i, HandleIs DEF Lent
    <3> QED BY <1>c, <1>i, <3>1 DEF Is
  <2> QED BY <1>f, <2>1, <2>2, <2>3 DEF Lent
<1>3. Past(t)
  <2>1. ASSUME NEW x \in Handles, x[2] <= s.transfers[x[1]].generation
        PROVE  x[2] <= t.transfers[x[1]].generation
    <3>1. CASE x[1] = h[1]
      <4>1. x[2] \in Nat /\ x[2] <= s.transfers[h[1]].generation /\
            s.transfers[h[1]].generation \in Nat
        BY <1>b, <1>d, <2>1, <3>1, HandleIs
      <4> QED BY <1>c, <1>d, <3>1, <4>1
    <3>2. CASE x[1] # h[1]
      BY <1>c, <2>1, <3>2, HandleIs
    <3> QED BY <3>1, <3>2
  <2>2. s.imports \subseteq Handles /\ h[2] <= t.transfers[h[1]].generation
    BY <1>0, <1>b, <1>c DEF Shape
  <2>3. \A x \in t.imports : x \in s.imports \/ x = h
    BY DEF Grants
  <2> QED BY <1>0, <1>j, <2>1, <2>2, <2>3 DEF Past
<1>4. Homeward(t, left)
  <2>1. ASSUME NEW x \in Transfers, t.transfers[x].state # "Free"
        PROVE  NamedBy(t, left, <<x, t.transfers[x].generation>>)
    <3>1. CASE x = h[1]
      <4>1. <<x, t.transfers[x].generation>> = h
        BY <1>b, <1>c, <3>1
      <4>2. n \in DOMAIN t.commands
        BY <1>f
      <4> QED BY <1>e, <1>f, <4>1, <4>2 DEF NamedBy
    <3>2. CASE x # h[1]
      <4>1. t.transfers[x] = s.transfers[x]
        BY <1>c, <3>2
      <4>2. NamedBy(s, left, <<x, s.transfers[x].generation>>)
        BY <1>0, <2>1, <4>1 DEF Homeward
      <4>3. \A i \in DOMAIN s.commands : i \in DOMAIN t.commands /\ t.commands[i] = s.commands[i]
        BY <1>f
      <4> QED BY <4>1, <4>2, <4>3 DEF NamedBy
    <3> QED BY <3>1, <3>2
  <2> QED BY <2>1 DEF Homeward

<1>5. Exporting(t)
  <2>1. CASE op = "Export"
    <3> DEFINE p == [handle |-> h, slot |-> slot]
    <3>1. t.pending = {p} /\ t.imports = s.imports
      BY <2>1 DEF Grants
    <3>2. p.handle = h /\ p.slot = slot
      OBVIOUS
    <3> HIDE DEF p
    <3>3. h \notin s.imports
      BY <1>0, <1>d, <1>g DEF Past, Shape
    <3>4. ASSUME NEW i \in DOMAIN t.commands, Lends(t.commands[i]), t.commands[i].handle = h
          PROVE  t.commands[i].op = "Export" /\ t.commands[i].slot = slot
      <4>1. i = n \/ i \in 1..(n - 1)
        BY <1>f
      <4> QED BY <1>e, <1>f, <1>h, <2>1, <3>4, <4>1
    <3>5. \A i \in DOMAIN statuses :
            statuses[i].kind = "LoopImported" => statuses[i].handle # h
      BY <1>j DEF Answers
    <3>6. Own(t, p)
      BY <1>c, <1>i, <3>1, <3>2, <3>3, <3>4, <3>5 DEF Own
    <3> QED BY <3>1, <3>6 DEF Exporting
  <2>2. CASE op = "Import"
    <3>1. t.pending = s.pending /\ t.imports = s.imports \cup {h}
      BY <2>2 DEF Grants
    <3>2. ASSUME NEW p \in s.pending PROVE Own(t, p)
      <4>1. Own(s, p) /\ p.handle \in Handles /\ p.handle[1] # h[1] /\ p.handle # h
        BY <1>0, <1>k DEF Exporting
      <4>2. t.transfers[p.handle[1]] = s.transfers[p.handle[1]]
        BY <1>c, <4>1, HandleIs
      <4>3. ASSUME NEW i \in DOMAIN t.commands, Lends(t.commands[i]),
                   t.commands[i].handle = p.handle
            PROVE  t.commands[i].op = "Export" /\ t.commands[i].slot = p.slot
        <5>1. i # n
          BY <1>e, <1>f, <4>1, <4>3
        <5>2. i \in DOMAIN s.commands /\ t.commands[i] = s.commands[i]
          BY <1>f, <5>1
        <5> QED BY <4>1, <4>3, <5>2 DEF Own
      <4> QED BY <3>1, <4>1, <4>2, <4>3 DEF Own
    <3> QED BY <1>0, <3>1, <3>2 DEF Exporting
  <2> QED BY <2>1, <2>2
<1>6. Waited(t, unasked)
  <2>1. CASE op = "Export"
    <3>1. t.pending = {[handle |-> h, slot |-> slot]} /\ s.pending = {}
      BY <2>1 DEF Grants
    <3>2. \A sl : Due(t, sl)
      BY <1>j, <3>1 DEF Due, Answers
    <3>3. \A sl : Asked(s, sl) => Asked(t, sl)
      BY <1>a, <3>1 DEF Asked, Pending
    <3> QED BY <1>0, <1>a, <3>2, <3>3 DEF Waited, Saving
  <2>2. CASE op = "Import"
    <3>1. t.pending = s.pending
      BY <2>2 DEF Grants
    <3> QED BY <1>0, <1>a, <3>1 DEF Waited, Saving, Due, Asked, Pending
  <2> QED BY <2>1, <2>2
<1> QED BY <1>1, <1>2, <1>3, <1>4, <1>5, <1>6 DEF Sound

\* What is not said in the invariant may change, and fewer loops may be unasked.
LEMMA AlikeKeeps ==
  ASSUME NEW s, NEW t, NEW left, NEW unasked, Sound(s, left, unasked),
         Differs(s, t, {"importQueue", "wanted", "kept", "scene", "failed"}),
         t.importQueue \in Seq(Slots)
  PROVE  Sound(t, left, unasked)
<1> /\ t.pending = s.pending /\ t.queued = s.queued /\ t.imports = s.imports
    /\ t.hashes = s.hashes /\ t.save = s.save
    /\ t.transfers = s.transfers /\ t.commands = s.commands /\ DOMAIN t = Fields
  BY DEF Differs, Fields
<1>1. Shape(t)
  BY DEF Sound, Shape
<1>2. Lent(t) /\ Past(t)
  BY DEF Sound, Lent, Past, Is
<1>3. Homeward(t, left)
  BY DEF Sound, Homeward, NamedBy
<1>4. Exporting(t)
  BY DEF Sound, Exporting, Own
<1>5. Waited(t, unasked)
  BY DEF Sound, Waited, Saving, Due, Asked, Pending
<1> QED BY <1>1, <1>2, <1>3, <1>4, <1>5 DEF Sound

\* A loop that is asked for need not be asked for again.
LEMMA AskedKeeps ==
  ASSUME NEW s, NEW left, NEW unasked, NEW slot, Sound(s, left, unasked \cup {slot}),
         Saving(s) /\ slot \in s.save.fresh => Asked(s, slot)
  PROVE  Sound(s, left, unasked)
  BY DEF Sound, Waited

\* A command that lends nothing is sent, or finds the ring full.
LEMMA SendKeeps ==
  ASSUME NEW s, NEW left, NEW unasked, Sound(s, left, unasked), NEW c \in CommandSet, ~Lends(c)
  PROVE  /\ Sound(Send(s, c), left, unasked)
         /\ Differs(s, Send(s, c), {"commands", "failed"})
<1> DEFINE t == Send(s, c)
<1>0. /\ Shape(s) /\ Lent(s) /\ Past(s) /\ Homeward(s, left) /\ Exporting(s)
      /\ Waited(s, unasked)
  BY DEF Sound
<1>1. CASE Full(s)
  <2>1. t = Fail(s) /\ Differs(s, t, {"failed"})
    BY <1>0, <1>1, SendIs, FailIs
  <2> HIDE DEF t
  <2>2. Differs(s, t, {"commands", "failed"}) /\
        Differs(s, t, {"importQueue", "wanted", "kept", "scene", "failed"}) /\
        t.importQueue \in Seq(Slots)
    BY <1>0, <2>1 DEF Differs, Fields, Shape
  <2> QED BY <2>2, AlikeKeeps DEF t
<1>2. CASE ~Full(s)
  <2>1. Differs(s, t, {"commands"}) /\ t.commands = Append(s.commands, c)
    BY <1>0, <1>2, SendIs
  <2> HIDE DEF t
  <2> DEFINE n == Len(s.commands) + 1
  <2>2. /\ t.commands \in Seq(CommandSet) /\ DOMAIN t.commands = 1..n
        /\ DOMAIN s.commands = 1..(n - 1) /\ n \in Nat /\ t.commands[n] = c
        /\ \A i \in 1..(n - 1) : t.commands[i] = s.commands[i]
    BY <1>0, <2>1, Appended DEF Shape
  <2> HIDE DEF n
  <2>a. /\ t.pending = s.pending /\ t.queued = s.queued /\ t.imports = s.imports
        /\ t.importQueue = s.importQueue /\ t.hashes = s.hashes /\ t.save = s.save
        /\ t.transfers = s.transfers /\ DOMAIN t = Fields
    BY <2>1 DEF Differs, Fields
  <2>3. \A i \in DOMAIN t.commands : Lends(t.commands[i]) =>
          i \in DOMAIN s.commands /\ t.commands[i] = s.commands[i]
    <3>1. \A i \in 1..n : i = n \/ i \in 1..(n - 1)
      BY <2>2
    <3> QED BY <2>2, <3>1
  <2>4. \A i \in DOMAIN s.commands : i \in DOMAIN t.commands /\ t.commands[i] = s.commands[i]
    BY <2>2
  <2>5. Shape(t)
    BY <1>0, <2>a, <2>2 DEF Shape
  <2>6. Lent(t) /\ Past(t)
    BY <1>0, <2>a, <2>3 DEF Lent, Past, Is
  <2>7. Homeward(t, left)
    BY <1>0, <2>a, <2>4 DEF Homeward, NamedBy
  <2>8. Exporting(t)
    BY <1>0, <2>a, <2>3 DEF Exporting, Own
  <2>9. Waited(t, unasked)
    BY <1>0, <2>a DEF Waited, Saving, Due, Asked, Pending
  <2>10. Differs(s, t, {"commands", "failed"})
    BY <2>1 DEF Differs
  <2> QED BY <2>5, <2>6, <2>7, <2>8, <2>9, <2>10 DEF Sound, t
<1> QED BY <1>1, <1>2

\* The queue of exports changes: what leaves it is unasked.
LEMMA QueueKeeps ==
  ASSUME NEW s, NEW left, NEW unasked, Sound(s, left, unasked), NEW q \in Seq(Slots), NEW gone,
         Range(s.queued) \subseteq Range(q) \cup gone
  PROVE  /\ Sound([s EXCEPT !.queued = q], left, unasked \cup gone)
         /\ Differs(s, [s EXCEPT !.queued = q], {"queued"})
         /\ [s EXCEPT !.queued = q].queued = q
<1> DEFINE t == [s EXCEPT !.queued = q]
<1>1. Differs(s, t, {"queued"}) /\ t.queued = q
  BY DEF Differs, Fields, Sound, Shape
<1> HIDE DEF t
<1>a. /\ t.pending = s.pending /\ t.imports = s.imports
      /\ t.importQueue = s.importQueue /\ t.hashes = s.hashes /\ t.save = s.save
      /\ t.transfers = s.transfers /\ t.commands = s.commands /\ DOMAIN t = Fields
  BY <1>1 DEF Differs, Fields
<1>2. Shape(t)
  BY <1>1, <1>a DEF Sound, Shape
<1>3. Lent(t) /\ Past(t)
  BY <1>a DEF Sound, Lent, Past, Is
<1>4. Homeward(t, left)
  BY <1>a DEF Sound, Homeward, NamedBy
<1>5. Exporting(t)
  BY <1>a DEF Sound, Exporting, Own
<1>6. Waited(t, unasked \cup gone)
  BY <1>1, <1>a DEF Sound, Waited, Saving, Due, Asked, Pending
<1> QED BY <1>1, <1>2, <1>3, <1>4, <1>5, <1>6 DEF Sound, t

\* Lending is sound, whether it succeeds or not.
LEMMA LendKeeps ==
  ASSUME NEW s, NEW left, NEW unasked, Sound(s, left, unasked), Playing, Published,
         NEW op \in {"Export", "Import"}, NEW slot \in Slots, op = "Export" => s.pending = {}
  PROVE  LET t == Lend(s, op, slot)
         IN  /\ Sound(t, left, unasked)
             /\ Differs(s, t, {"transfers", "commands", "pending", "imports", "failed"})
             /\ op = "Export" /\ ~t.failed => Pending(t, slot)
             /\ op = "Import" => t.pending = s.pending
<1> DEFINE t == Lend(s, op, slot)
<1>0. Shape(s)
  BY DEF Sound
<1>1. CASE Refuses(s, t)
  <2> HIDE DEF t
  <2>1. Idles(s, t) /\ t.failed
    BY <1>0, <1>1, RefusesIdles
  <2>2. Sound(t, left, unasked)
    BY <2>1, IdlesKeeps
  <2>3. Differs(s, t, {"transfers", "commands", "pending", "imports", "failed"}) /\
        t.pending = s.pending
    BY <2>1 DEF Idles, Differs, Fields
  <2> QED BY <2>1, <2>2, <2>3 DEF t
<1>2. ASSUME NEW h \in Handles, Fresh(s, h), Grants(s, t, op, slot, h)
      PROVE  /\ Sound(t, left, unasked)
             /\ Differs(s, t, {"transfers", "commands", "pending", "imports", "failed"})
             /\ op = "Export" => Pending(t, slot)
             /\ op = "Import" => t.pending = s.pending
  <2> HIDE DEF t
  <2>1. Sound(t, left, unasked)
    BY <1>2, GrantKeeps
  <2>2. Differs(s, t, {"transfers", "commands", "pending", "imports", "failed"})
    BY <1>2 DEF Grants, Differs, Fields
  <2>3. op = "Export" => Pending(t, slot)
    <3>1. op = "Export" => [handle |-> h, slot |-> slot] \in t.pending
      BY <1>2 DEF Grants
    <3>2. [handle |-> h, slot |-> slot].slot = slot
      OBVIOUS
    <3> QED BY <3>1, <3>2 DEF Pending
  <2>4. op = "Import" => t.pending = s.pending
    BY <1>2 DEF Grants
  <2> QED BY <2>1, <2>2, <2>3, <2>4
<1> QED BY <1>0, <1>1, <1>2, LendIs

--------------------------------------------------------------------------
(* Exports                                                                 *)

\* What the head and the tail of a queue, and a queue with one more, hold.
LEMMA InSeq ==
  ASSUME NEW S, NEW q \in Seq(S), q # <<>>
  PROVE  Head(q) \in S /\ Tail(q) \in Seq(S) /\ Range(q) \subseteq Range(Tail(q)) \cup {Head(q)}
<1>1. /\ Head(q) \in S /\ Tail(q) \in Seq(S) /\ DOMAIN q = 1..Len(q) /\ Len(q) \in Nat \ {0}
      /\ DOMAIN Tail(q) = 1..(Len(q) - 1) /\ Head(q) = q[1]
      /\ \A i \in 1..(Len(q) - 1) : Tail(q)[i] = q[i + 1]
  OBVIOUS
<1>2. ASSUME NEW i \in 1..Len(q) PROVE q[i] \in Range(Tail(q)) \cup {Head(q)}
  <2>1. CASE i = 1
    BY <1>1, <2>1
  <2>2. CASE i # 1
    <3>1. i - 1 \in 1..(Len(q) - 1) /\ (i - 1) + 1 = i
      BY <1>1, <2>2
    <3>2. Tail(q)[i - 1] = q[i]
      BY <1>1, <3>1
    <3> QED BY <1>1, <3>1, <3>2 DEF Range
  <2> QED BY <2>1, <2>2
<1> QED BY <1>1, <1>2 DEF Range

LEMMA AppendedRange ==
  ASSUME NEW S, NEW q \in Seq(S), NEW x \in S
  PROVE  Append(q, x) \in Seq(S) /\ Range(q) \subseteq Range(Append(q, x)) /\ x \in Range(Append(q, x))
         /\ Append(q, x) # <<>>
<1>1. /\ Append(q, x) \in Seq(S) /\ DOMAIN Append(q, x) = 1..(Len(q) + 1)
      /\ DOMAIN q = 1..Len(q) /\ Len(q) \in Nat
      /\ \A i \in 1..Len(q) : Append(q, x)[i] = q[i]
      /\ Append(q, x)[Len(q) + 1] = x
  BY Appended
<1>2. Len(q) + 1 \in 1..(Len(q) + 1) /\ \A i \in 1..Len(q) : i \in 1..(Len(q) + 1)
  BY <1>1
<1>3. Append(q, x) # <<>>
  <2>1. Len(Append(q, x)) # Len(<<>>)
    BY AppendProperties
  <2> QED BY <2>1
<1> QED BY <1>1, <1>2, <1>3 DEF Range

\* What asking for an export changes.
Lenders == {"transfers", "commands", "pending", "imports", "queued", "failed"}

\* A request for an export starts it, queues it, or finds it under way.
LEMMA RequestKeeps ==
  ASSUME NEW s, NEW left, NEW unasked, Good(s, left, unasked), Playing, Published,
         NEW slot \in Slots
  PROVE  LET t == RequestLoopExport(s, slot)
         IN  /\ Good(t, left, unasked)
             /\ ~t.failed => Asked(t, slot)
             /\ Differs(s, t, Lenders)
<1> DEFINE t == RequestLoopExport(s, slot)
<1>0. Sound(s, left, unasked) /\ Moving(s) /\ Shape(s)
  BY DEF Good, Sound
<1>1. CASE Pending(s, slot) \/ slot \in Range(s.queued)
  <2>1. t = s
    BY <1>1 DEF RequestLoopExport
  <2> QED BY <1>0, <1>1, <2>1 DEF Differs, Shape, Asked
<1>2. CASE ~Pending(s, slot) /\ slot \notin Range(s.queued) /\ s.pending # {}
  <2> DEFINE q == Append(s.queued, slot)
             none == {}
  <2>1. t = [s EXCEPT !.queued = q]
    BY <1>2 DEF RequestLoopExport
  <2>2. q \in Seq(Slots) /\ Range(s.queued) \subseteq Range(q) \cup none /\ slot \in Range(q)
    BY <1>0, AppendedRange DEF Shape
  <2> HIDE DEF q, none
  <2> HIDE DEF t
  <2>3. Sound(t, left, unasked \cup none) /\ Differs(s, t, {"queued"}) /\ t.queued = q
    <3> DEFINE u == [s EXCEPT !.queued = q]
    <3>1. Sound(u, left, unasked \cup none) /\ Differs(s, u, {"queued"}) /\ u.queued = q
      BY <1>0, <2>2, QueueKeeps
    <3> HIDE DEF u
    <3>2. t = u
      BY <2>1 DEF u
    <3> QED BY <3>1, <3>2
  <2>4. Differs(s, t, Lenders) /\ t.pending = s.pending
    BY <2>3 DEF Differs, Lenders, Fields
  <2>5. unasked \cup none = unasked
    BY DEF none
  <2>6. Good(t, left, unasked) /\ Asked(t, slot)
    BY <1>2, <2>2, <2>3, <2>4, <2>5 DEF Good, Moving, Asked
  <2> QED BY <2>4, <2>6 DEF t
<1>3. CASE ~Pending(s, slot) /\ slot \notin Range(s.queued) /\ s.pending = {}
  <2>1. t = Lend(s, "Export", slot)
    BY <1>3 DEF RequestLoopExport, StartLoopExport
  <2>2. /\ Sound(t, left, unasked)
        /\ Differs(s, t, {"transfers", "commands", "pending", "imports", "failed"})
        /\ ~t.failed => Pending(t, slot)
    BY <1>0, <1>3, <2>1, LendKeeps
  <2> HIDE DEF t
  <2>3. s.queued = <<>> /\ t.queued = s.queued /\ Differs(s, t, Lenders)
    BY <1>0, <1>3, <2>2 DEF Moving, Differs, Fields, Lenders
  <2>4. Good(t, left, unasked) /\ (~t.failed => Asked(t, slot))
    BY <2>2, <2>3 DEF Good, Moving, Asked
  <2> QED BY <2>3, <2>4 DEF t
<1> QED BY <1>1, <1>2, <1>3

\* The next export of the queue begins: what it is for is pending.
LEMMA NextExportKeeps ==
  ASSUME NEW s, NEW left, NEW unasked, Sound(s, left, unasked), Playing, Published,
         s.pending # {} => Moving(s)
  PROVE  LET t == StartNextLoopExport(s)
         IN  /\ ~t.failed => Good(t, left, unasked)
             /\ t.scene = s.scene
<1> DEFINE t == StartNextLoopExport(s)
<1>0. Shape(s)
  BY DEF Sound
<1>1. CASE s.pending # {} \/ s.queued = <<>>
  <2>1. t = s
    BY <1>1 DEF StartNextLoopExport
  <2> QED BY <1>1, <2>1 DEF Good, Moving
<1>2. CASE s.pending = {} /\ s.queued # <<>>
  <2> DEFINE slot == Head(s.queued)
             u == [s EXCEPT !.queued = Tail(@)]
  <2>1. t = Lend(u, "Export", slot)
    BY <1>2 DEF StartNextLoopExport, StartLoopExport
  <2>2. slot \in Slots /\ Tail(s.queued) \in Seq(Slots) /\
        Range(s.queued) \subseteq Range(Tail(s.queued)) \cup {slot}
    BY <1>0, <1>2, InSeq DEF Shape
  <2> HIDE DEF slot
  <2>3. Sound(u, left, unasked \cup {slot}) /\ Differs(s, u, {"queued"})
    BY <2>2, QueueKeeps
  <2> HIDE DEF u
  <2>4. u.pending = {}
    BY <1>2, <2>3 DEF Differs, Fields
  <2> DEFINE more == unasked \cup {slot}
  <2> HIDE DEF t
  <2>5. Sound(t, left, more) /\ (~t.failed => Pending(t, slot)) /\ t.scene = s.scene
    <3>1. Sound(u, left, more)
      BY <2>3
    <3> HIDE DEF more
    <3>2. /\ Sound(t, left, more) /\ (~t.failed => Pending(t, slot))
          /\ Differs(u, t, {"transfers", "commands", "pending", "imports", "failed"})
      BY <2>1, <2>2, <2>4, <3>1, LendKeeps
    <3> QED BY <2>3, <3>2 DEF Differs, Fields
  <2>6. ~t.failed => Sound(t, left, unasked) /\ t.pending # {}
    BY <2>5, AskedKeeps DEF Asked, Pending
  <2> QED BY <2>5, <2>6 DEF Good, Moving, t
<1> QED BY <1>1, <1>2


\* The end of a transfer gives it back: nothing else was to.
LEMMA ReleaseKeeps ==
  ASSUME NEW s, NEW left, NEW unasked, Sound(s, left, unasked), Playing, Published,
         left \subseteq DOMAIN statuses, NEW i \in left, Answers(statuses[i]),
         \A p \in s.pending : p.handle # statuses[i].handle
  PROVE  LET t == Release(s, statuses[i].handle)
         IN  /\ ~t.failed => Sound(t, left \ {i}, unasked)
             /\ Differs(s, t, {"transfers", "failed"})
<1> DEFINE h == statuses[i].handle
           t == Release(s, h)
           rest == left \ {i}
<1>0. Shape(s) /\ h \in Handles /\ h[1] \in Transfers /\ h = <<h[1], h[2]>>
  BY StatusesAre, StatusIs, HandleIs DEF Sound
<1>1. CASE ~Is(s, h, "Exported")
  <2>1. t = Fail(s)
    BY <1>1 DEF Release
  <2> HIDE DEF t
  <2>2. t.failed /\ Differs(s, t, {"transfers", "failed"})
    BY <1>0, <2>1, FailIs DEF Differs, Fields
  <2> QED BY <2>2 DEF t
<1>2. CASE Is(s, h, "Exported")
  <2>1. t = Store(s, h, "Free")
    BY <1>2 DEF Release
  <2>2. \A p \in s.pending : p.handle[1] # h[1]
    <3>1. ASSUME NEW p \in s.pending, p.handle[1] = h[1] PROVE FALSE
      <4>1. p.handle \in Handles /\ s.transfers[p.handle[1]].generation = p.handle[2]
        BY <1>0 DEF Sound, Shape, Exporting, Own
      <4>2. s.transfers[h[1]].generation = h[2]
        BY <1>2 DEF Is
      <4>3. p.handle = <<h[1], h[2]>>
        BY <3>1, <4>1, <4>2, HandleIs
      <4> QED BY <1>0, <4>3
    <3> QED BY <3>1
  <2>3. Idles(s, t)
    BY <1>0, <1>2, <2>1, <2>2, StoreIdles
  <2>4. t.transfers = [s.transfers EXCEPT ![h[1]] = [state |-> "Free", generation |-> h[2]]]
    BY <1>0, <2>1, StoreIs
  <2>5. t.transfers[h[1]].state = "Free"
    <3>1. s.transfers \in [Transfers -> TransferSet]
      BY <1>0 DEF Shape
    <3> HIDE DEF t, h
    <3> QED BY <1>0, <2>4, <3>1
  <2> HIDE DEF t
  <2>6. Sound(t, left, unasked)
    BY <2>3, IdlesKeeps
  <2>7. Homeward(t, rest)
    <3>1. ASSUME NEW x \in Transfers, t.transfers[x].state # "Free"
          PROVE  NamedBy(t, rest, <<x, t.transfers[x].generation>>)
      <4>1. NamedBy(t, left, <<x, t.transfers[x].generation>>) /\ x # h[1]
        BY <2>5, <2>6, <3>1 DEF Sound, Homeward
      <4>2. <<x, t.transfers[x].generation>>[1] = x
        OBVIOUS
      <4>3. h # <<x, t.transfers[x].generation>>
        BY <4>1, <4>2
      <4> QED BY <4>1, <4>3 DEF NamedBy
    <3> QED BY <3>1 DEF Homeward
  <2>8. Sound(t, rest, unasked)
    BY <2>6, <2>7 DEF Sound
  <2> QED BY <2>3, <2>8 DEF Idles, t
<1> QED BY <1>1, <1>2

\* What is untracked leaves the loop it was for unasked.
LEMMA UntrackKeeps ==
  ASSUME NEW s, NEW left, NEW unasked, Sound(s, left, unasked), NEW p \in s.pending
  PROVE  LET u == Untrack(s, p.handle)
         IN  /\ Sound(u, left, unasked \cup {p.slot})
             /\ Differs(s, u, {"pending"}) /\ u.pending = {}
<1> DEFINE u == Untrack(s, p.handle)
<1>1. Differs(s, u, {"pending"}) /\ u.pending = {q \in s.pending : q.handle # p.handle}
  BY DEF Differs, Fields, Sound, Shape, Untrack
<1> HIDE DEF u
<1>2. u.pending = {}
  BY <1>1 DEF Sound, Exporting
<1>a. /\ u.queued = s.queued /\ u.imports = s.imports
      /\ u.importQueue = s.importQueue /\ u.hashes = s.hashes /\ u.save = s.save
      /\ u.transfers = s.transfers /\ u.commands = s.commands /\ DOMAIN u = Fields
  BY <1>1 DEF Differs, Fields
<1>3. Shape(u)
  BY <1>2, <1>a DEF Sound, Shape
<1>4. Lent(u) /\ Past(u)
  BY <1>a DEF Sound, Lent, Past, Is
<1>5. Homeward(u, left)
  BY <1>a DEF Sound, Homeward, NamedBy
<1>6. Exporting(u)
  BY <1>2 DEF Exporting
<1>7. Waited(u, unasked \cup {p.slot})
  <2>1. ASSUME NEW slot, Asked(s, slot), slot # p.slot PROVE Asked(u, slot)
    <3>1. \A q \in s.pending : q = p
      BY DEF Sound, Exporting
    <3> QED BY <1>a, <2>1, <3>1 DEF Asked, Pending
  <2>2. \A slot : Due(u, slot)
    BY <1>2 DEF Due
  <2>3. Waited(s, unasked)
    BY DEF Sound
  <2> QED BY <1>a, <2>1, <2>2, <2>3 DEF Waited, Saving
<1> QED BY <1>1, <1>2, <1>3, <1>4, <1>5, <1>6, <1>7 DEF Sound, u

\* What is saved was asked for no earlier than the snapshot it is for.
LEMMA HashKeeps ==
  ASSUME NEW s, NEW left, NEW unasked, NEW slot \in Slots, NEW n \in Int,
         Sound(s, left, unasked \cup {slot}),
         Saving(s) /\ slot \in s.save.fresh => n >= s.save.snapshot[slot] \/ n = 0
  PROVE  LET t == [s EXCEPT !.hashes[slot] = n]
         IN  Sound(t, left, unasked) /\ Differs(s, t, {"hashes"})
<1> DEFINE t == [s EXCEPT !.hashes[slot] = n]
<1>1. Differs(s, t, {"hashes"}) /\ t.hashes = [s.hashes EXCEPT ![slot] = n]
  BY DEF Differs, Fields, Sound, Shape
<1> HIDE DEF t
<1>a. /\ t.queued = s.queued /\ t.imports = s.imports /\ t.pending = s.pending
      /\ t.importQueue = s.importQueue /\ t.save = s.save
      /\ t.transfers = s.transfers /\ t.commands = s.commands /\ DOMAIN t = Fields
  BY <1>1 DEF Differs, Fields
<1>2. s.hashes \in [Slots -> Int] /\ t.hashes \in [Slots -> Int]
  BY <1>1 DEF Sound, Shape
<1>3. Shape(t)
  BY <1>2, <1>a DEF Sound, Shape
<1>4. Lent(t) /\ Past(t)
  BY <1>a DEF Sound, Lent, Past, Is
<1>5. Homeward(t, left)
  BY <1>a DEF Sound, Homeward, NamedBy
<1>6. Exporting(t)
  BY <1>a DEF Sound, Exporting, Own
<1>7. Waited(t, unasked)
  <2>1. ASSUME Saving(s), NEW x \in s.save.fresh, x \in unasked \cup {slot} \/ Asked(s, x)
        PROVE  x \in unasked \/ Asked(t, x)
    <3>1. x \in Slots
      BY <2>1 DEF Sound, Shape, SaveSet, Saving
    <3>2. CASE x = slot
      <4>1. t.hashes[x] = n
        BY <1>1, <1>2, <3>2
      <4> QED BY <1>a, <2>1, <3>2, <4>1 DEF Asked
    <3>3. CASE x # slot
      <4>1. t.hashes[x] = s.hashes[x]
        BY <1>1, <1>2, <3>1, <3>3
      <4> QED BY <1>a, <2>1, <3>3, <4>1 DEF Asked, Pending
    <3> QED BY <3>2, <3>3
  <2>2. Waited(s, unasked \cup {slot})
    BY DEF Sound
  <2>3. \A x : Due(s, x) => Due(t, x)
    BY <1>a DEF Due
  <2> QED BY <1>a, <2>1, <2>2, <2>3 DEF Waited, Saving
<1> QED BY <1>1, <1>3, <1>4, <1>5, <1>6, <1>7 DEF Sound, t

\* The answer of an export brings the audio that the scene waits for.
LEMMA FinishExportKeeps ==
  ASSUME NEW s, NEW left, NEW unasked, Good(s, left, unasked), Playing, Published,
         left \subseteq DOMAIN statuses, NEW i \in left, statuses[i].kind = "LoopExported",
         NEW disk \in BOOLEAN
  PROVE  LET t == FinishLoopExport(s, statuses[i], disk)
         IN  /\ ~t.failed => Good(t, left \ {i}, unasked)
             /\ t.scene = s.scene
<1> DEFINE e == statuses[i]
           t == FinishLoopExport(s, e, disk)
           tracked == {p \in s.pending : p.handle = e.handle}
           rest == left \ {i}
<1>0. Sound(s, left, unasked) /\ Moving(s) /\ Shape(s) /\ Answers(e) /\ e.take \in Nat
  BY StatusesAre, StatusIs DEF Good, Sound, Answers
<1>1. CASE tracked = {}
  <2>1. t = Fail(s)
    BY <1>1 DEF FinishLoopExport
  <2>2. t.failed /\ t.scene = s.scene
    BY <1>0, <2>1, FailIs DEF Differs, Fields
  <2> QED BY <2>2
<1>2. CASE tracked # {}
  <2> DEFINE p == CHOOSE p \in tracked : TRUE
             a == Untrack(s, e.handle)
             u == Release(a, e.handle)
             kept == IF disk THEN [u EXCEPT !.hashes[p.slot] = e.take] ELSE u
             v == StartNextLoopExport(kept)
  <2>1. t = IF u.failed THEN u ELSE IF v.failed THEN v ELSE IF disk THEN v ELSE Fail(v)
    BY <1>2 DEF FinishLoopExport, Try
  <2>2. p \in s.pending /\ p.handle = e.handle
    BY <1>2
  <2> HIDE DEF p, t
  <2>3. p.slot \in Slots
    BY <1>0, <2>2 DEF Shape
  <2> DEFINE more == unasked \cup {p.slot}
  <2>4. Sound(a, left, more) /\ Differs(s, a, {"pending"}) /\ a.pending = {}
    BY <1>0, <2>2, UntrackKeeps
  <2>5. (~u.failed => Sound(u, rest, more)) /\ Differs(a, u, {"transfers", "failed"})
    <3> HIDE DEF a, more
    <3> QED BY <1>0, <2>4, ReleaseKeeps
  <2>6. u.pending = {} /\ u.save = s.save /\ u.scene = s.scene
    <3> HIDE DEF a, u
    <3> QED BY <2>4, <2>5 DEF Differs, Fields
  <2> HIDE DEF a, u
  <2>7. CASE u.failed
    BY <2>1, <2>6, <2>7 DEF t
  <2>8. CASE ~u.failed /\ disk
    <3>1. Saving(u) /\ p.slot \in u.save.fresh => e.take >= u.save.snapshot[p.slot]
      <4>1. Saving(u) /\ p.slot \in u.save.fresh => Due(s, p.slot)
        BY <1>0, <2>6 DEF Sound, Waited, Saving
      <4>2. i \in DOMAIN statuses /\ e.kind = "LoopExported"
        OBVIOUS
      <4> QED BY <2>2, <2>6, <4>1, <4>2 DEF Due
    <3>2. kept = [u EXCEPT !.hashes[p.slot] = e.take] /\ e.take \in Int
      BY <1>0, <2>8
    <3> HIDE DEF kept, e
    <3>3. Sound(kept, rest, unasked) /\ Differs(u, kept, {"hashes"})
      <4>1. Sound(u, rest, more)
        BY <2>5, <2>8
      <4> HIDE DEF rest
      <4> QED BY <2>3, <3>1, <3>2, <4>1, HashKeeps
    <3>4. kept.pending = {} /\ kept.scene = s.scene
      BY <2>6, <3>3 DEF Differs, Fields
    <3>5. (~v.failed => Good(v, rest, unasked)) /\ v.scene = s.scene
      <4> HIDE DEF rest
      <4> QED BY <3>3, <3>4, NextExportKeeps
    <3>6. t = v
      BY <2>1, <2>8
    <3> QED BY <3>5, <3>6 DEF e, t
  <2>9. CASE ~u.failed /\ ~disk
    <3>1. kept = u
      BY <2>9
    <3> HIDE DEF kept
    <3>2. Sound(kept, rest, more) /\ kept.pending = {} /\ kept.scene = s.scene
      BY <2>5, <2>6, <2>9, <3>1
    <3>3. (~v.failed => Good(v, rest, more)) /\ v.scene = s.scene
      <4> HIDE DEF rest, more
      <4> QED BY <3>2, NextExportKeeps
    <3>4. v.failed \/ (Fail(v).failed /\ Fail(v).scene = s.scene)
      <4> HIDE DEF v
      <4>1. ~v.failed => Shape(v)
        BY <3>3 DEF Good, Sound
      <4> QED BY <3>3, <4>1, FailIs DEF Differs, Fields
    <3>5. t = IF v.failed THEN v ELSE Fail(v)
      BY <2>1, <2>9
    <3> HIDE DEF v
    <3>6. t.failed /\ t.scene = s.scene
      BY <3>3, <3>4, <3>5
    <3> QED BY <3>6 DEF t
  <2> QED BY <2>7, <2>8, <2>9 DEF t
<1> QED BY <1>1, <1>2

--------------------------------------------------------------------------
(* Imports                                                                 *)

\* Imports lend and give back as exports do.
LEMMA ImportKeeps ==
  ASSUME NEW s, NEW left, NEW unasked, Good(s, left, unasked), Playing, Published,
         NEW slot \in Slots
  PROVE  LET t == DecodeAndQueueImport(s, slot)
         IN  Good(t, left, unasked) /\ t.scene = s.scene
<1> DEFINE t == DecodeAndQueueImport(s, slot)
<1>1. /\ Sound(t, left, unasked) /\ t.pending = s.pending
      /\ Differs(s, t, {"transfers", "commands", "pending", "imports", "failed"})
  BY LendKeeps DEF DecodeAndQueueImport, Good
<1> HIDE DEF t
<1>2. t.queued = s.queued /\ t.scene = s.scene
  BY <1>1 DEF Differs, Fields
<1> QED BY <1>1, <1>2 DEF Good, Moving, t

LEMMA NextImportKeeps ==
  ASSUME NEW s, NEW left, NEW unasked, Good(s, left, unasked), Playing, Published,
         NEW disk \in BOOLEAN
  PROVE  LET t == StartNextQueuedImport(s, disk)
         IN  Good(t, left, unasked) /\ t.scene = s.scene
<1> DEFINE t == StartNextQueuedImport(s, disk)
           q == Tail(s.importQueue)
           popped == [s EXCEPT !.importQueue = q]
<1>0. Shape(s)
  BY DEF Good, Sound
<1>1. CASE s.imports # {} \/ s.importQueue = <<>>
  <2>1. t = s
    BY <1>1 DEF StartNextQueuedImport
  <2> QED BY <2>1
<1>2. CASE s.imports = {} /\ s.importQueue # <<>>
  <2>1. t = IF disk THEN DecodeAndQueueImport(popped, Head(s.importQueue)) ELSE Fail(popped)
    BY <1>2 DEF StartNextQueuedImport
  <2>2. Head(s.importQueue) \in Slots /\ q \in Seq(Slots)
    BY <1>0, <1>2 DEF Shape
  <2> HIDE DEF q, t
  <2>3. Differs(s, popped, {"importQueue"}) /\ popped.importQueue = q
    BY <1>0 DEF Differs, Fields, Shape
  <2> HIDE DEF popped
  <2>4. Differs(s, popped, {"importQueue", "wanted", "kept", "scene", "failed"}) /\
        popped.pending = s.pending /\ popped.queued = s.queued /\ popped.scene = s.scene
    BY <2>3 DEF Differs, Fields
  <2>5. Good(popped, left, unasked)
    BY <2>2, <2>3, <2>4, AlikeKeeps DEF Good, Moving
  <2>6. CASE disk
    BY <2>1, <2>2, <2>4, <2>5, <2>6, ImportKeeps DEF t
  <2>7. CASE ~disk
    <3>1. t = Fail(popped) /\ Shape(popped)
      BY <2>1, <2>5, <2>7 DEF Good, Sound
    <3>2. Differs(popped, t, {"failed"})
      BY <3>1, FailIs
    <3>3. /\ Differs(popped, t, {"importQueue", "wanted", "kept", "scene", "failed"})
          /\ t.importQueue = q /\ t.pending = popped.pending /\ t.queued = popped.queued
          /\ t.scene = s.scene
      BY <2>3, <2>4, <3>2 DEF Differs, Fields
    <3>4. Good(t, left, unasked)
      BY <2>2, <2>5, <3>3, AlikeKeeps DEF Good, Moving
    <3> QED BY <3>3, <3>4 DEF t
  <2> QED BY <2>6, <2>7
<1> QED BY <1>1, <1>2

LEMMA FinishImportKeeps ==
  ASSUME NEW s, NEW left, NEW unasked, Good(s, left, unasked), Playing, Published,
         left \subseteq DOMAIN statuses, NEW i \in left, statuses[i].kind = "LoopImported",
         NEW disk \in BOOLEAN
  PROVE  LET t == FinishLoopImport(s, statuses[i].handle, disk)
         IN  /\ ~t.failed => Good(t, left \ {i}, unasked)
             /\ t.scene = s.scene
<1> DEFINE h == statuses[i].handle
           t == FinishLoopImport(s, h, disk)
           rest == left \ {i}
           a == [s EXCEPT !.imports = s.imports \ {h}]
           u == Release(a, h)
           v == StartNextQueuedImport(u, disk)
<1>0. Sound(s, left, unasked) /\ Moving(s) /\ Shape(s) /\ Answers(statuses[i])
  BY DEF Good, Sound, Answers
<1>1. t = IF u.failed THEN u ELSE v
  BY DEF FinishLoopImport, Try
<1> HIDE DEF t
<1>2. Differs(s, a, {"imports"}) /\ a.imports = s.imports \ {h}
  BY <1>0 DEF Differs, Fields, Shape
<1> HIDE DEF a
<1>a. /\ a.queued = s.queued /\ a.pending = s.pending /\ a.scene = s.scene
      /\ a.importQueue = s.importQueue /\ a.save = s.save /\ a.hashes = s.hashes
      /\ a.transfers = s.transfers /\ a.commands = s.commands /\ DOMAIN a = Fields
  BY <1>2 DEF Differs, Fields
<1>3. Sound(a, left, unasked)
  <2>1. Shape(a)
    BY <1>0, <1>2, <1>a DEF Shape
  <2>2. Lent(a) /\ Past(a)
    BY <1>0, <1>2, <1>a DEF Sound, Lent, Past, Is
  <2>3. Homeward(a, left)
    BY <1>0, <1>a DEF Sound, Homeward, NamedBy
  <2>4. Exporting(a)
    BY <1>0, <1>2, <1>a DEF Sound, Exporting, Own
  <2>5. Waited(a, unasked)
    BY <1>0, <1>a DEF Sound, Waited, Saving, Due, Asked, Pending
  <2> QED BY <2>1, <2>2, <2>3, <2>4, <2>5 DEF Sound
<1>4. \A p \in a.pending : p.handle # h
  BY <1>0, <1>a DEF Sound, Exporting, Own
<1>5. (~u.failed => Sound(u, rest, unasked)) /\ Differs(a, u, {"transfers", "failed"})
  BY <1>0, <1>3, <1>4, ReleaseKeeps
<1> HIDE DEF u
<1>6. u.pending = s.pending /\ u.queued = s.queued /\ u.scene = s.scene
  BY <1>5, <1>a DEF Differs, Fields
<1>7. ~u.failed => Good(u, rest, unasked)
  BY <1>0, <1>5, <1>6 DEF Good, Moving
<1>8. ~u.failed => Good(v, rest, unasked) /\ v.scene = s.scene
  <2> HIDE DEF rest
  <2> QED BY <1>6, <1>7, NextImportKeeps
<1> HIDE DEF v
<1>9. (~t.failed => Good(t, rest, unasked)) /\ t.scene = s.scene
  BY <1>1, <1>6, <1>8
<1> QED BY <1>9 DEF t

--------------------------------------------------------------------------
(* One after the other                                                     *)

\* What is done for x in each of the handlers' loops, unless the last failed.
Turn(k, u, x, a) ==
  IF u.failed THEN u
  ELSE IF k = "ask" THEN IF x \in Kept(a) THEN RequestLoopExport(u, x) ELSE u
  ELSE IF k = "erase" THEN Send(u, On("Erase", x))
  ELSE IF k = "export" THEN IF x.kind = "LoopExported" THEN FinishLoopExport(u, x, a) ELSE u
  ELSE IF k = "import" THEN IF x.kind = "LoopImported" THEN FinishLoopImport(u, x.handle, a) ELSE u
  ELSE IF x.kind = "LoopCompleted" THEN RequestLoopExport(u, x.slot) ELSE u

\* f is the sequence of what the event loop holds after each of the first n turns.
Turns(k, s, seq, a, n, f) ==
  /\ DOMAIN f = 0..n /\ f[0] = s
  /\ \A m \in 1..n : f[m] = Turn(k, f[m - 1], seq[m], a)

\* What holds of 0 and is handed on holds up to n.
LEMMA Inductively ==
  ASSUME NEW n \in Nat, NEW T \in SUBSET (0..n), 0 \in T,
         \A m \in 1..n : m - 1 \in T => m \in T
  PROVE  \A m \in 0..n : m \in T
<1> DEFINE U == (0..n) \ T
<1>1. CASE U = {}
  BY <1>1
<1>2. CASE U # {}
  <2>1. PICK m \in U : \A x \in U : m <= x
    <3> U \in SUBSET (0..n)
      OBVIOUS
    <3> HIDE DEF U
    <3> QED BY <1>2, Least
  <2>2. m \in 1..n /\ m - 1 \in 0..n
    BY <2>1
  <2>3. m - 1 \notin U
    BY <2>1, <2>2
  <2> QED BY <2>1, <2>2, <2>3
<1> QED BY <1>1, <1>2

\* The turns are there, and the loops of the model come to their last.
LEMMA TurnsAre ==
  ASSUME NEW k, NEW s, NEW seq, NEW a, NEW n \in Nat
  PROVE  \E f : Turns(k, s, seq, a, n, f)
<1> DEFINE T == {m \in 0..n : \E f : Turns(k, s, seq, a, m, f)}
<1>1. T \in SUBSET (0..n)
  OBVIOUS
<1>2. 0 \in T
  <2>1. Turns(k, s, seq, a, 0, [m \in 0..0 |-> s])
    BY DEF Turns
  <2> QED BY <2>1
<1>3. ASSUME NEW m \in 1..n, m - 1 \in T PROVE m \in T
  <2>1. PICK f : Turns(k, s, seq, a, m - 1, f)
    BY <1>3
  <2> DEFINE g == [x \in 0..m |-> IF x = m THEN Turn(k, f[m - 1], seq[m], a) ELSE f[x]]
  <2>2. g[0] = s
    BY <2>1 DEF Turns
  <2>3. ASSUME NEW x \in 1..m PROVE g[x] = Turn(k, g[x - 1], seq[x], a)
    <3>1. x - 1 \in 0..m /\ x \in 0..m /\ x - 1 # m
      OBVIOUS
    <3>2. g[x - 1] = f[x - 1]
      BY <3>1
    <3>3. CASE x = m
      BY <3>1, <3>2, <3>3
    <3>4. CASE x # m
      <4>1. x \in 1..(m - 1)
        BY <3>4
      <4>2. f[x] = Turn(k, f[x - 1], seq[x], a)
        BY <2>1, <4>1 DEF Turns
      <4> QED BY <3>1, <3>2, <3>4, <4>2
    <3> QED BY <3>3, <3>4
  <2>4. Turns(k, s, seq, a, m, g)
    BY <2>2, <2>3 DEF Turns
  <2> QED BY <2>4
<1> HIDE DEF T
<1>4. \A m \in 0..n : m \in T
  BY <1>1, <1>2, <1>3, Inductively
<1> QED BY <1>4 DEF T

LEMMA AllSlotsIs ==
  Len(AllSlots) = NSlots /\ NSlots \in Nat /\ \A i \in 1..NSlots : AllSlots[i] = i
<1>1. NSlots \in Nat
  BY LibraryBounds
<1> QED BY <1>1 DEF AllSlots, Slots

\* Each loop of a handler is a sequence of turns.
LEMMA AskTurns ==
  ASSUME NEW s, NEW a
  PROVE  \E f : Turns("ask", s, AllSlots, a, NSlots, f) /\ RequestKept(s, a) = f[NSlots]
<1> DEFINE Op(u, x) == IF x \in Kept(a) THEN RequestLoopExport(u, x) ELSE u
           Def(f) == [n \in 0..Len(AllSlots) |->
                        IF n = 0 THEN s
                        ELSE Try(f[n - 1], LAMBDA u : Op(u, AllSlots[n]))]
           F == CHOOSE f : f = Def(f)
<1>1. \A f : \A n \in 0..NSlots :
        Def(f)[n] = IF n = 0 THEN s ELSE Turn("ask", f[n - 1], AllSlots[n], a)
  BY AllSlotsIs DEF Try, Turn
<1>2. PICK g : Turns("ask", s, AllSlots, a, NSlots, g)
  BY AllSlotsIs, TurnsAre
<1> DEFINE h == [n \in 0..NSlots |-> g[n]]
<1>3. h = Def(h)
  <2>1. ASSUME NEW n \in 0..NSlots PROVE h[n] = Def(h)[n]
    <3>1. CASE n = 0
      BY <1>1, <1>2, <3>1 DEF Turns
    <3>2. CASE n # 0
      <4>1. n \in 1..NSlots /\ n - 1 \in 0..NSlots
        BY <3>2, AllSlotsIs
      <4>2. g[n] = Turn("ask", g[n - 1], AllSlots[n], a)
        BY <1>2, <4>1 DEF Turns
      <4> QED BY <1>1, <3>2, <4>1, <4>2
    <3> QED BY <3>1, <3>2
  <2> QED BY <2>1, AllSlotsIs
<1>4. F = Def(F)
  BY <1>3
<1>5. RequestKept(s, a) = F[Len(AllSlots)]
  BY DEF RequestKept, ForEach
<1> HIDE DEF F
<1>6. Turns("ask", s, AllSlots, a, NSlots, F)
  <2>1. DOMAIN F = 0..NSlots
    BY <1>4, AllSlotsIs
  <2>2. \A n \in 0..NSlots :
          F[n] = IF n = 0 THEN s ELSE Turn("ask", F[n - 1], AllSlots[n], a)
    BY <1>1, <1>4
  <2> HIDE DEF Def
  <2> QED BY <2>1, <2>2, AllSlotsIs DEF Turns
<1> QED BY <1>5, <1>6, AllSlotsIs

LEMMA EraseTurns ==
  ASSUME NEW s, NEW a
  PROVE  \E f : Turns("erase", s, AllSlots, a, NSlots, f) /\ EraseScene(s) = f[NSlots]
<1> DEFINE Op(u, x) == Send(u, On("Erase", x))
           Def(f) == [n \in 0..Len(AllSlots) |->
                        IF n = 0 THEN s
                        ELSE Try(f[n - 1], LAMBDA u : Op(u, AllSlots[n]))]
           F == CHOOSE f : f = Def(f)
<1>1. \A f : \A n \in 0..NSlots :
        Def(f)[n] = IF n = 0 THEN s ELSE Turn("erase", f[n - 1], AllSlots[n], a)
  BY AllSlotsIs DEF Try, Turn
<1>2. PICK g : Turns("erase", s, AllSlots, a, NSlots, g)
  BY AllSlotsIs, TurnsAre
<1> DEFINE h == [n \in 0..NSlots |-> g[n]]
<1>3. h = Def(h)
  <2>1. ASSUME NEW n \in 0..NSlots PROVE h[n] = Def(h)[n]
    <3>1. CASE n = 0
      BY <1>1, <1>2, <3>1 DEF Turns
    <3>2. CASE n # 0
      <4>1. n \in 1..NSlots /\ n - 1 \in 0..NSlots
        BY <3>2, AllSlotsIs
      <4>2. g[n] = Turn("erase", g[n - 1], AllSlots[n], a)
        BY <1>2, <4>1 DEF Turns
      <4> QED BY <1>1, <3>2, <4>1, <4>2
    <3> QED BY <3>1, <3>2
  <2> QED BY <2>1, AllSlotsIs
<1>4. F = Def(F)
  BY <1>3
<1>5. EraseScene(s) = F[Len(AllSlots)]
  BY DEF EraseScene, ForEach
<1> HIDE DEF F
<1>6. Turns("erase", s, AllSlots, a, NSlots, F)
  <2>1. DOMAIN F = 0..NSlots
    BY <1>4, AllSlotsIs
  <2>2. \A n \in 0..NSlots :
          F[n] = IF n = 0 THEN s ELSE Turn("erase", F[n - 1], AllSlots[n], a)
    BY <1>1, <1>4
  <2> HIDE DEF Def
  <2> QED BY <2>1, <2>2, AllSlotsIs DEF Turns
<1> QED BY <1>5, <1>6, AllSlotsIs

LEMMA ExportedTurns ==
  ASSUME NEW s, NEW a, Published, Of("LoopExported") # {}
  PROVE  \E f : Turns("export", s, statuses, a, Len(statuses), f) /\ HandleExported(s, a) = f[Len(statuses)]
<1> Len(statuses) \in Nat
  BY DEF Published
<1> DEFINE Op(u, x) == IF x.kind = "LoopExported" THEN FinishLoopExport(u, x, a) ELSE u
           Def(f) == [n \in 0..Len(statuses) |->
                        IF n = 0 THEN s
                        ELSE Try(f[n - 1], LAMBDA u : Op(u, statuses[n]))]
           F == CHOOSE f : f = Def(f)
<1>1. \A f : \A n \in 0..Len(statuses) :
        Def(f)[n] = IF n = 0 THEN s ELSE Turn("export", f[n - 1], statuses[n], a)
  BY DEF Try, Turn
<1>2. PICK g : Turns("export", s, statuses, a, Len(statuses), g)
  BY TurnsAre
<1> DEFINE h == [n \in 0..Len(statuses) |-> g[n]]
<1>3. h = Def(h)
  <2>1. ASSUME NEW n \in 0..Len(statuses) PROVE h[n] = Def(h)[n]
    <3>1. CASE n = 0
      BY <1>1, <1>2, <3>1 DEF Turns
    <3>2. CASE n # 0
      <4>1. n \in 1..Len(statuses) /\ n - 1 \in 0..Len(statuses)
        BY <3>2
      <4>2. g[n] = Turn("export", g[n - 1], statuses[n], a)
        BY <1>2, <4>1 DEF Turns
      <4> QED BY <1>1, <3>2, <4>1, <4>2
    <3> QED BY <3>1, <3>2
  <2> QED BY <2>1
<1>4. F = Def(F)
  BY <1>3
<1>5. HandleExported(s, a) = F[Len(statuses)]
  BY DEF HandleExported, ForEvery, ForEach
<1> HIDE DEF F
<1>6. Turns("export", s, statuses, a, Len(statuses), F)
  <2>1. DOMAIN F = 0..Len(statuses)
    BY <1>4
  <2>2. \A n \in 0..Len(statuses) :
          F[n] = IF n = 0 THEN s ELSE Turn("export", F[n - 1], statuses[n], a)
    BY <1>1, <1>4
  <2> HIDE DEF Def
  <2> QED BY <2>1, <2>2 DEF Turns
<1> QED BY <1>5, <1>6

LEMMA ImportedTurns ==
  ASSUME NEW s, NEW a, Published, Of("LoopImported") # {}
  PROVE  \E f : Turns("import", s, statuses, a, Len(statuses), f) /\ HandleImported(s, a) = f[Len(statuses)]
<1> Len(statuses) \in Nat
  BY DEF Published
<1> DEFINE Op(u, x) == IF x.kind = "LoopImported" THEN FinishLoopImport(u, x.handle, a) ELSE u
           Def(f) == [n \in 0..Len(statuses) |->
                        IF n = 0 THEN s
                        ELSE Try(f[n - 1], LAMBDA u : Op(u, statuses[n]))]
           F == CHOOSE f : f = Def(f)
<1>1. \A f : \A n \in 0..Len(statuses) :
        Def(f)[n] = IF n = 0 THEN s ELSE Turn("import", f[n - 1], statuses[n], a)
  BY DEF Try, Turn
<1>2. PICK g : Turns("import", s, statuses, a, Len(statuses), g)
  BY TurnsAre
<1> DEFINE h == [n \in 0..Len(statuses) |-> g[n]]
<1>3. h = Def(h)
  <2>1. ASSUME NEW n \in 0..Len(statuses) PROVE h[n] = Def(h)[n]
    <3>1. CASE n = 0
      BY <1>1, <1>2, <3>1 DEF Turns
    <3>2. CASE n # 0
      <4>1. n \in 1..Len(statuses) /\ n - 1 \in 0..Len(statuses)
        BY <3>2
      <4>2. g[n] = Turn("import", g[n - 1], statuses[n], a)
        BY <1>2, <4>1 DEF Turns
      <4> QED BY <1>1, <3>2, <4>1, <4>2
    <3> QED BY <3>1, <3>2
  <2> QED BY <2>1
<1>4. F = Def(F)
  BY <1>3
<1>5. HandleImported(s, a) = F[Len(statuses)]
  BY DEF HandleImported, ForEvery, ForEach
<1> HIDE DEF F
<1>6. Turns("import", s, statuses, a, Len(statuses), F)
  <2>1. DOMAIN F = 0..Len(statuses)
    BY <1>4
  <2>2. \A n \in 0..Len(statuses) :
          F[n] = IF n = 0 THEN s ELSE Turn("import", F[n - 1], statuses[n], a)
    BY <1>1, <1>4
  <2> HIDE DEF Def
  <2> QED BY <2>1, <2>2 DEF Turns
<1> QED BY <1>5, <1>6

LEMMA CompletedTurns ==
  ASSUME NEW s, NEW a, Published, Of("LoopCompleted") # {}, AutoSave
  PROVE  \E f : Turns("completed", s, statuses, a, Len(statuses), f) /\ HandleCompleted(s) = f[Len(statuses)]
<1> Len(statuses) \in Nat
  BY DEF Published
<1> DEFINE Op(u, x) == IF x.kind = "LoopCompleted" THEN RequestLoopExport(u, x.slot) ELSE u
           Def(f) == [n \in 0..Len(statuses) |->
                        IF n = 0 THEN s
                        ELSE Try(f[n - 1], LAMBDA u : Op(u, statuses[n]))]
           F == CHOOSE f : f = Def(f)
<1>1. \A f : \A n \in 0..Len(statuses) :
        Def(f)[n] = IF n = 0 THEN s ELSE Turn("completed", f[n - 1], statuses[n], a)
  BY DEF Try, Turn
<1>2. PICK g : Turns("completed", s, statuses, a, Len(statuses), g)
  BY TurnsAre
<1> DEFINE h == [n \in 0..Len(statuses) |-> g[n]]
<1>3. h = Def(h)
  <2>1. ASSUME NEW n \in 0..Len(statuses) PROVE h[n] = Def(h)[n]
    <3>1. CASE n = 0
      BY <1>1, <1>2, <3>1 DEF Turns
    <3>2. CASE n # 0
      <4>1. n \in 1..Len(statuses) /\ n - 1 \in 0..Len(statuses)
        BY <3>2
      <4>2. g[n] = Turn("completed", g[n - 1], statuses[n], a)
        BY <1>2, <4>1 DEF Turns
      <4> QED BY <1>1, <3>2, <4>1, <4>2
    <3> QED BY <3>1, <3>2
  <2> QED BY <2>1
<1>4. F = Def(F)
  BY <1>3
<1>5. HandleCompleted(s) = F[Len(statuses)]
  BY DEF HandleCompleted, ForEvery, ForEach
<1> HIDE DEF F
<1>6. Turns("completed", s, statuses, a, Len(statuses), F)
  <2>1. DOMAIN F = 0..Len(statuses)
    BY <1>4
  <2>2. \A n \in 0..Len(statuses) :
          F[n] = IF n = 0 THEN s ELSE Turn("completed", F[n - 1], statuses[n], a)
    BY <1>1, <1>4
  <2> HIDE DEF Def
  <2> QED BY <2>1, <2>2 DEF Turns
<1> QED BY <1>5, <1>6

LEMMA FewerUnasked ==
  ASSUME NEW s, NEW left, NEW unasked, NEW fewer, Good(s, left, unasked),
         Saving(s) => \A slot \in s.save.fresh : slot \in unasked => slot \in fewer \/ Asked(s, slot)
  PROVE  Good(s, left, fewer)
  BY DEF Good, Sound, Waited

\* The handler of a snapshot asks for every loop that is to be saved.
LEMMA TakeSnapshotKeeps ==
  ASSUME NEW s, NEW left, Good(s, left, {}), Playing, Published, s.save = Waiting,
         NEW snapshot \in [Slots -> Nat], \A slot \in Slots : Since(slot, snapshot[slot])
  PROVE  LET t == TakeSnapshot(s, snapshot)
         IN  /\ ~t.failed => Good(t, left, {})
             /\ t.scene = s.scene
<1> DEFINE t == TakeSnapshot(s, snapshot)
           save == [snapshot |-> snapshot,
                    fresh |-> {slot \in Kept(snapshot) : ~Pending(s, slot)}]
           asked == [s EXCEPT !.save = save]
           after(m) == (m + 1)..NSlots
<1>1. t = RequestKept(asked, snapshot)
  BY DEF TakeSnapshot
<1>2. /\ save.snapshot = snapshot /\ save \in SaveSet
      /\ \A slot \in save.fresh : slot \in Kept(snapshot) /\ slot \in Slots /\ ~Pending(s, slot)
  BY DEF SaveSet, Kept
<1> HIDE DEF save, t
<1>3. Differs(s, asked, {"save"}) /\ asked.save = save
  BY DEF Differs, Fields, Good, Sound, Shape
<1> HIDE DEF asked
<1>4. Good(asked, left, after(0)) /\ asked.scene = s.scene
  <2>a. /\ asked.queued = s.queued /\ asked.pending = s.pending /\ asked.scene = s.scene
        /\ asked.importQueue = s.importQueue /\ asked.imports = s.imports
        /\ asked.hashes = s.hashes /\ asked.transfers = s.transfers
        /\ asked.commands = s.commands /\ DOMAIN asked = Fields
    BY <1>3 DEF Differs, Fields
  <2>1. Shape(asked)
    BY <1>2, <1>3, <2>a DEF Good, Sound, Shape
  <2>2. Lent(asked) /\ Past(asked)
    BY <2>a DEF Good, Sound, Lent, Past, Is
  <2>3. Homeward(asked, left)
    BY <2>a DEF Good, Sound, Homeward, NamedBy
  <2>4. Exporting(asked) /\ Moving(asked)
    BY <2>a DEF Good, Sound, Exporting, Own, Moving
  <2>5. Waited(asked, after(0))
    <3>1. ASSUME NEW slot \in save.fresh PROVE Due(asked, slot) /\ slot \in after(0)
      <4>1. slot \in 1..NSlots /\ 0 + 1 = 1
        BY <1>2 DEF Slots
      <4> QED BY <1>2, <2>a, <4>1 DEF Due, Pending
    <3> QED BY <1>2, <1>3, <3>1 DEF Waited
  <2> QED BY <2>a, <2>1, <2>2, <2>3, <2>4, <2>5 DEF Good, Sound
<1>5. PICK f : Turns("ask", asked, AllSlots, snapshot, NSlots, f) /\ t = f[NSlots]
  BY <1>1, AskTurns
<1> DEFINE T == {m \in 0..NSlots : /\ f[m].scene = s.scene /\ f[m].save = save
                                   /\ ~f[m].failed => Good(f[m], left, after(m))}
<1>6. 0 \in T
  BY <1>3, <1>4, <1>5, AllSlotsIs DEF Turns
<1>7. ASSUME NEW m \in 1..NSlots, m - 1 \in T PROVE m \in T
  <2> DEFINE u == f[m - 1]
             v == f[m]
  <2>1. /\ u.scene = s.scene /\ u.save = save
        /\ ~u.failed => Good(u, left, after(m - 1))
    BY <1>7
  <2>2. v = Turn("ask", u, m, snapshot) /\ m \in Slots
    BY <1>5, AllSlotsIs DEF Turns, Slots
  <2> HIDE DEF u, v
  <2>3. m \in 0..NSlots /\ \A x \in after(m - 1) : x = m \/ x \in after(m)
    BY AllSlotsIs
  <2> HIDE DEF after
  <2>4. CASE u.failed
    <3>1. v = u
      BY <2>2, <2>4 DEF Turn
    <3> QED BY <2>1, <2>3, <2>4, <3>1 DEF v
  <2>5. CASE ~u.failed /\ m \in Kept(snapshot)
    <3>1. v = RequestLoopExport(u, m)
      BY <2>2, <2>5 DEF Turn
    <3>2. /\ Good(v, left, after(m - 1)) /\ (~v.failed => Asked(v, m))
          /\ Differs(u, v, Lenders)
      BY <2>1, <2>2, <2>5, <3>1, RequestKeeps
    <3>3. v.scene = s.scene /\ v.save = save
      BY <2>1, <3>2 DEF Differs, Lenders, Fields
    <3>4. ~v.failed => Good(v, left, after(m))
      BY <2>3, <3>2, FewerUnasked
    <3> QED BY <2>3, <3>3, <3>4 DEF v
  <2>6. CASE ~u.failed /\ m \notin Kept(snapshot)
    <3>1. v = u
      BY <2>2, <2>6 DEF Turn
    <3>2. m \notin u.save.fresh
      BY <1>2, <2>1, <2>6
    <3>3. Good(v, left, after(m))
      BY <2>1, <2>3, <2>6, <3>1, <3>2, FewerUnasked
    <3> QED BY <2>1, <2>3, <3>1, <3>3 DEF v
  <2> QED BY <2>4, <2>5, <2>6
<1> HIDE DEF after
<1>8. NSlots \in T
  <2>1. T \in SUBSET (0..NSlots) /\ NSlots \in Nat /\ NSlots \in 0..NSlots
    BY AllSlotsIs
  <2>2. \A m \in 1..NSlots : m - 1 \in T => m \in T
    BY <1>7
  <2> HIDE DEF T
  <2> QED BY <1>6, <2>1, <2>2, Inductively
<1>9. ~t.failed => Good(t, left, {})
  <2>1. after(NSlots) = {}
    BY AllSlotsIs DEF after
  <2> QED BY <1>5, <1>8, <2>1
<1> QED BY <1>5, <1>8, <1>9 DEF t

\* Loading a scene first sends an erase for every loop.
LEMMA EraseSceneKeeps ==
  ASSUME NEW s, NEW left, Good(s, left, {})
  PROVE  LET t == EraseScene(s)
         IN  Good(t, left, {}) /\ t.scene = s.scene
<1> DEFINE t == EraseScene(s)
<1> HIDE DEF t
<1>1. PICK f : Turns("erase", s, AllSlots, 0, NSlots, f) /\ t = f[NSlots]
  BY EraseTurns DEF t
<1> DEFINE T == {m \in 0..NSlots : Good(f[m], left, {}) /\ f[m].scene = s.scene}
<1>2. 0 \in T
  BY <1>1, AllSlotsIs DEF Turns
<1>3. ASSUME NEW m \in 1..NSlots, m - 1 \in T PROVE m \in T
  <2> DEFINE u == f[m - 1]
             v == f[m]
             c == On("Erase", m)
  <2>1. Good(u, left, {}) /\ u.scene = s.scene
    BY <1>3
  <2>2. v = (IF u.failed THEN u ELSE Send(u, c)) /\ m \in Slots /\ m \in 0..NSlots
    BY <1>1, AllSlotsIs DEF Turns, Turn, Slots
  <2>3. c \in CommandSet /\ ~Lends(c)
    BY <2>2 DEF On, CommandSet, Lends
  <2> HIDE DEF u, v, c
  <2>4. Sound(Send(u, c), left, {}) /\ Differs(u, Send(u, c), {"commands", "failed"})
    BY <2>1, <2>3, SendKeeps DEF Good
  <2>5. Good(v, left, {}) /\ v.scene = s.scene
    BY <2>1, <2>2, <2>4 DEF Good, Moving, Differs, Fields
  <2> QED BY <2>2, <2>5 DEF v
<1>4. NSlots \in T
  <2>1. T \in SUBSET (0..NSlots)
    OBVIOUS
  <2> HIDE DEF T
  <2> QED BY <1>2, <1>3, <2>1, AllSlotsIs, Inductively
<1> QED BY <1>1, <1>4 DEF t

\* What is left to handle behind the m-th status, of those of a kind.
Behind(left, kind, m) == {i \in left : i > m \/ statuses[i].kind # kind}

\* With each turn one status fewer is left.
LEMMA BehindIs ==
  ASSUME NEW left, left \subseteq DOMAIN statuses, Published, NEW kind
  PROVE  /\ Len(statuses) \in Nat /\ DOMAIN statuses = 1..Len(statuses)
         /\ Behind(left, kind, 0) = left
         /\ Behind(left, kind, Len(statuses)) = {i \in left : statuses[i].kind # kind}
         /\ \A m \in 1..Len(statuses) : Behind(left, kind, m) =
              IF statuses[m].kind = kind THEN Behind(left, kind, m - 1) \ {m}
              ELSE Behind(left, kind, m - 1)
<1>1. Len(statuses) \in Nat /\ DOMAIN statuses = 1..Len(statuses)
  BY DEF Published
<1>2. \A i \in left : i \in Int /\ i > 0 /\ ~(i > Len(statuses))
  BY <1>1
<1>3. Behind(left, kind, 0) = left
  BY <1>2 DEF Behind
<1>4. Behind(left, kind, Len(statuses)) = {i \in left : statuses[i].kind # kind}
  BY <1>2 DEF Behind
<1>5. ASSUME NEW m \in 1..Len(statuses)
      PROVE  Behind(left, kind, m) =
               IF statuses[m].kind = kind THEN Behind(left, kind, m - 1) \ {m}
               ELSE Behind(left, kind, m - 1)
  <2>1. \A i \in left : i > m <=> i > m - 1 /\ i # m
    BY <1>2
  <2> QED BY <2>1 DEF Behind
<1> QED BY <1>1, <1>3, <1>4, <1>5

\* After the loop over the exports, the imports and the completed takes, none of their
\* statuses is left.
LEMMA ExportedKeeps ==
  ASSUME NEW s, NEW left, Good(s, left, {}), Playing, Published, left \subseteq DOMAIN statuses,
         Of("LoopExported") \subseteq left, NEW disk \in BOOLEAN
  PROVE  LET t == HandleExported(s, disk)
         IN  /\ ~t.failed => Good(t, {i \in left : statuses[i].kind # "LoopExported"}, {})
             /\ t.scene = s.scene
<1> DEFINE t == HandleExported(s, disk)
           kind == "LoopExported"
           rest(m) == Behind(left, kind, m)
           last == Len(statuses)
<1>1. CASE Of("LoopExported") = {}
  <2>1. t = s
    BY <1>1 DEF HandleExported, ForEvery
  <2>2. {i \in left : statuses[i].kind # kind} = left
    BY <1>1 DEF Of
  <2> QED BY <2>1, <2>2
<1>2. CASE Of("LoopExported") # {}
  <2> HIDE DEF t
  <2>1. PICK f : Turns("export", s, statuses, disk, last, f) /\ t = f[last]
    BY <1>2, ExportedTurns DEF t
  <2> DEFINE T == {m \in 0..last : /\ f[m].scene = s.scene
                                   /\ ~f[m].failed => Good(f[m], rest(m), {})}
  <2>2. last \in Nat /\ DOMAIN statuses = 1..last /\ rest(0) = left
    BY BehindIs
  <2> HIDE DEF rest, last
  <2>3. 0 \in T
    BY <2>1, <2>2 DEF Turns
  <2>4. ASSUME NEW m \in 1..last, m - 1 \in T PROVE m \in T
    <3> DEFINE u == f[m - 1]
               v == f[m]
               e == statuses[m]
    <3>1. u.scene = s.scene /\ (~u.failed => Good(u, rest(m - 1), {}))
      BY <2>4
    <3>2. v = Turn("export", u, e, disk) /\ m \in 0..last /\ m \in DOMAIN statuses
      BY <2>1, <2>2 DEF Turns
    <3>3. /\ rest(m - 1) \subseteq DOMAIN statuses
          /\ rest(m) = IF e.kind = kind THEN rest(m - 1) \ {m} ELSE rest(m - 1)
      BY BehindIs DEF rest, Behind, last
    <3> HIDE DEF u, v
    <3>4. CASE u.failed
      <4>1. v = u
        BY <3>2, <3>4 DEF Turn
      <4> QED BY <3>1, <3>2, <3>4, <4>1 DEF v
    <3>5. CASE ~u.failed /\ e.kind # kind
      <4>1. v = u
        BY <3>2, <3>5 DEF Turn
      <4> QED BY <3>1, <3>2, <3>3, <3>5, <4>1 DEF v
    <3>6. CASE ~u.failed /\ e.kind = kind
      <4>1. v = FinishLoopExport(u, e, disk)
        BY <3>2, <3>6 DEF Turn
      <4>2. m \in left
        BY <3>2, <3>6 DEF Of
      <4>3. m \in rest(m - 1)
        BY <4>2, <2>2 DEF rest, Behind
      <4>4. (~v.failed => Good(v, rest(m - 1) \ {m}, {})) /\ v.scene = u.scene
        BY <3>1, <3>3, <3>6, <4>1, <4>3, FinishExportKeeps
      <4>5. v.scene = s.scene /\ (~v.failed => Good(v, rest(m), {}))
        BY <3>1, <3>3, <3>6, <4>4
      <4> QED BY <3>2, <4>5 DEF v
    <3> QED BY <3>4, <3>5, <3>6
  <2>5. last \in T
    <3>1. T \in SUBSET (0..last)
      OBVIOUS
    <3> HIDE DEF T
    <3> QED BY <2>2, <2>3, <2>4, <3>1, Inductively
  <2>6. rest(last) = {i \in left : statuses[i].kind # kind}
    BY BehindIs DEF rest, last
  <2> QED BY <2>1, <2>5, <2>6 DEF t
<1> QED BY <1>1, <1>2

LEMMA ImportedKeeps ==
  ASSUME NEW s, NEW left, Good(s, left, {}), Playing, Published, left \subseteq DOMAIN statuses,
         Of("LoopImported") \subseteq left, NEW disk \in BOOLEAN
  PROVE  LET t == HandleImported(s, disk)
         IN  /\ ~t.failed => Good(t, {i \in left : statuses[i].kind # "LoopImported"}, {})
             /\ t.scene = s.scene
<1> DEFINE t == HandleImported(s, disk)
           kind == "LoopImported"
           rest(m) == Behind(left, kind, m)
           last == Len(statuses)
<1>1. CASE Of("LoopImported") = {}
  <2>1. t = s
    BY <1>1 DEF HandleImported, ForEvery
  <2>2. {i \in left : statuses[i].kind # kind} = left
    BY <1>1 DEF Of
  <2> QED BY <2>1, <2>2
<1>2. CASE Of("LoopImported") # {}
  <2> HIDE DEF t
  <2>1. PICK f : Turns("import", s, statuses, disk, last, f) /\ t = f[last]
    BY <1>2, ImportedTurns DEF t
  <2> DEFINE T == {m \in 0..last : /\ f[m].scene = s.scene
                                   /\ ~f[m].failed => Good(f[m], rest(m), {})}
  <2>2. last \in Nat /\ DOMAIN statuses = 1..last /\ rest(0) = left
    BY BehindIs
  <2> HIDE DEF rest, last
  <2>3. 0 \in T
    BY <2>1, <2>2 DEF Turns
  <2>4. ASSUME NEW m \in 1..last, m - 1 \in T PROVE m \in T
    <3> DEFINE u == f[m - 1]
               v == f[m]
               e == statuses[m]
    <3>1. u.scene = s.scene /\ (~u.failed => Good(u, rest(m - 1), {}))
      BY <2>4
    <3>2. v = Turn("import", u, e, disk) /\ m \in 0..last /\ m \in DOMAIN statuses
      BY <2>1, <2>2 DEF Turns
    <3>3. /\ rest(m - 1) \subseteq DOMAIN statuses
          /\ rest(m) = IF e.kind = kind THEN rest(m - 1) \ {m} ELSE rest(m - 1)
      BY BehindIs DEF rest, Behind, last
    <3> HIDE DEF u, v
    <3>4. CASE u.failed
      <4>1. v = u
        BY <3>2, <3>4 DEF Turn
      <4> QED BY <3>1, <3>2, <3>4, <4>1 DEF v
    <3>5. CASE ~u.failed /\ e.kind # kind
      <4>1. v = u
        BY <3>2, <3>5 DEF Turn
      <4> QED BY <3>1, <3>2, <3>3, <3>5, <4>1 DEF v
    <3>6. CASE ~u.failed /\ e.kind = kind
      <4>1. v = FinishLoopImport(u, e.handle, disk)
        BY <3>2, <3>6 DEF Turn
      <4>2. m \in left
        BY <3>2, <3>6 DEF Of
      <4>3. m \in rest(m - 1)
        BY <4>2, <2>2 DEF rest, Behind
      <4>4. (~v.failed => Good(v, rest(m - 1) \ {m}, {})) /\ v.scene = u.scene
        BY <3>1, <3>3, <3>6, <4>1, <4>3, FinishImportKeeps
      <4>5. v.scene = s.scene /\ (~v.failed => Good(v, rest(m), {}))
        BY <3>1, <3>3, <3>6, <4>4
      <4> QED BY <3>2, <4>5 DEF v
    <3> QED BY <3>4, <3>5, <3>6
  <2>5. last \in T
    <3>1. T \in SUBSET (0..last)
      OBVIOUS
    <3> HIDE DEF T
    <3> QED BY <2>2, <2>3, <2>4, <3>1, Inductively
  <2>6. rest(last) = {i \in left : statuses[i].kind # kind}
    BY BehindIs DEF rest, last
  <2> QED BY <2>1, <2>5, <2>6 DEF t
<1> QED BY <1>1, <1>2

LEMMA CompletedKeeps ==
  ASSUME NEW s, NEW left, Good(s, left, {}), Playing, Published
  PROVE  LET t == HandleCompleted(s)
         IN  Good(t, left, {}) /\ t.scene = s.scene
<1> DEFINE t == HandleCompleted(s)
           last == Len(statuses)
<1>1. CASE ~AutoSave \/ Of("LoopCompleted") = {}
  BY <1>1 DEF HandleCompleted, ForEvery
<1>2. CASE AutoSave /\ Of("LoopCompleted") # {}
  <2> HIDE DEF t
  <2>1. PICK f : Turns("completed", s, statuses, 0, last, f) /\ t = f[last]
    BY <1>2, CompletedTurns DEF t
  <2> DEFINE T == {m \in 0..last : Good(f[m], left, {}) /\ f[m].scene = s.scene}
  <2>2. last \in Nat /\ DOMAIN statuses = 1..last
    BY DEF Published
  <2> HIDE DEF last
  <2>3. 0 \in T
    BY <2>1, <2>2 DEF Turns
  <2>4. ASSUME NEW m \in 1..last, m - 1 \in T PROVE m \in T
    <3> DEFINE u == f[m - 1]
               v == f[m]
               e == statuses[m]
               none == {}
    <3>1. Good(u, left, none) /\ u.scene = s.scene
      BY <2>4
    <3>2. v = Turn("completed", u, e, 0) /\ m \in 0..last /\ m \in DOMAIN statuses
      BY <2>1, <2>2 DEF Turns
    <3>3. e.kind = "LoopCompleted" => e.slot \in Slots
      BY <3>2, StatusesAre, StatusIs
    <3> HIDE DEF u, v, none
    <3>4. v = u \/ (e.kind = "LoopCompleted" /\ v = RequestLoopExport(u, e.slot))
      BY <3>2 DEF Turn
    <3>5. Good(v, left, none) /\ v.scene = u.scene
      <4>1. CASE e.kind = "LoopCompleted" /\ v = RequestLoopExport(u, e.slot)
        <5>1. Good(v, left, none) /\ Differs(u, v, Lenders)
          BY <3>1, <3>3, <4>1, RequestKeeps
        <5> QED BY <5>1 DEF Differs, Lenders, Fields
      <4> QED BY <3>1, <3>4, <4>1
    <3> QED BY <3>1, <3>2, <3>5 DEF v, none
  <2>5. last \in T
    <3>1. T \in SUBSET (0..last)
      OBVIOUS
    <3> HIDE DEF T
    <3> QED BY <2>2, <2>3, <2>4, <3>1, Inductively
  <2> QED BY <2>1, <2>5 DEF t
<1> QED BY <1>1, <1>2

--------------------------------------------------------------------------
(* Scenes                                                                  *)

\* Of a scene: for the loops that were fresh, nothing older than its snapshot.
Whole(x) == x # None => \A slot \in x.fresh : x.hashes[slot] >= x.snapshot[slot]

LEMMA SaveIs ==
  ASSUME NEW x \in SaveSet
  PROVE  x \notin {None, Waiting}
<1>1. x.snapshot = x.snapshot /\ DOMAIN x = {"snapshot", "fresh"}
  BY DEF SaveSet
<1>2. DOMAIN None = {"none"} /\ DOMAIN Waiting = {"waiting"}
  BY DEF None, Waiting
<1> QED BY <1>1, <1>2

\* The save is over, and what it asked for does not matter any more.
LEMMA SavedKeeps ==
  ASSUME NEW s, NEW left, NEW unasked, Sound(s, left, unasked), NEW x \in {None, Waiting}
  PROVE  LET t == [s EXCEPT !.save = x]
         IN  Sound(t, left, unasked) /\ Differs(s, t, {"save"}) /\ t.save = x
<1> DEFINE t == [s EXCEPT !.save = x]
<1>1. Differs(s, t, {"save"}) /\ t.save = x
  BY DEF Differs, Fields, Sound, Shape
<1> HIDE DEF t
<1>a. /\ t.queued = s.queued /\ t.pending = s.pending
      /\ t.importQueue = s.importQueue /\ t.imports = s.imports
      /\ t.hashes = s.hashes /\ t.transfers = s.transfers
      /\ t.commands = s.commands /\ DOMAIN t = Fields
  BY <1>1 DEF Differs, Fields
<1>2. Shape(t)
  BY <1>1, <1>a DEF Sound, Shape
<1>3. Lent(t) /\ Past(t)
  BY <1>a DEF Sound, Lent, Past, Is
<1>4. Homeward(t, left)
  BY <1>a DEF Sound, Homeward, NamedBy
<1>5. Exporting(t)
  BY <1>a DEF Sound, Exporting, Own
<1>6. Waited(t, unasked)
  BY <1>1 DEF Waited, Saving
<1> QED BY <1>1, <1>2, <1>3, <1>4, <1>5, <1>6 DEF Sound, t

\* A scene is written when all its loops have their audio, and is whole then.
LEMMA MaybeSaveKeeps ==
  ASSUME NEW s, NEW left, Good(s, left, {}), Playing, Published, Whole(s.scene),
         NEW disk \in BOOLEAN
  PROVE  LET t == MaybeSaveScene(s, disk)
         IN  /\ ~t.failed => Good(t, left, {})
             /\ Whole(t.scene)
<1> DEFINE t == MaybeSaveScene(s, disk)
           none == {}
<1>1. CASE s.pending # {} \/ s.queued # <<>> \/ s.save \in {None, Waiting}
  BY <1>1 DEF MaybeSaveScene
<1>2. CASE s.pending = {} /\ s.queued = <<>> /\ s.save \notin {None, Waiting}
  <2> DEFINE taken == [s EXCEPT !.save = None]
             missing == \E slot \in Kept(s.save.snapshot) : s.hashes[slot] = 0
             w == Written(s)
             u == [taken EXCEPT !.scene = w]
  <2>1. t = IF missing \/ ~disk THEN Fail(taken) ELSE u
    BY <1>2 DEF MaybeSaveScene
  <2> HIDE DEF t, none
  <2>2. Sound(s, left, none)
    BY DEF Good, none
  <2>3. Sound(taken, left, none) /\ Differs(s, taken, {"save"})
    BY <2>2, SavedKeeps
  <2> HIDE DEF taken
  <2>4. /\ taken.scene = s.scene /\ taken.pending = s.pending /\ taken.queued = s.queued
        /\ DOMAIN taken = Fields
    BY <2>3 DEF Differs, Fields
  <2>5. CASE missing \/ ~disk
    <3>1. t.failed /\ t.scene = s.scene
      BY <2>1, <2>3, <2>4, <2>5, FailIs DEF Sound, Differs, Fields
    <3> QED BY <3>1 DEF t
  <2>6. CASE ~missing /\ disk
    <3>1. t = u
      BY <2>1, <2>6
    <3>2. w.snapshot = s.save.snapshot /\ w.fresh = s.save.fresh /\ w.hashes = s.hashes
      BY DEF Written
    <3> HIDE DEF w
    <3>3. Differs(taken, u, {"scene"}) /\ u.scene = w
      BY <2>4 DEF Differs, Fields
    <3> HIDE DEF u
    <3>4. Differs(taken, u, {"importQueue", "wanted", "kept", "scene", "failed"}) /\
          u.importQueue = taken.importQueue /\ u.pending = s.pending /\ u.queued = s.queued
      BY <2>4, <3>3 DEF Differs, Fields
    <3>5. Sound(u, left, none)
      BY <2>3, <3>4, AlikeKeeps DEF Sound, Shape
    <3>6. \A slot \in s.save.fresh : slot \in Kept(s.save.snapshot) /\ Asked(s, slot)
      BY <1>2 DEF Good, Sound, Waited, Saving
    <3>7. \A slot \in s.save.fresh : s.hashes[slot] >= s.save.snapshot[slot]
      <4>1. ASSUME NEW slot \in s.save.fresh
            PROVE  s.hashes[slot] >= s.save.snapshot[slot]
        <5>1. s.hashes[slot] # 0
          BY <2>6, <3>6
        <5>2. ~Pending(s, slot) /\ slot \notin Range(s.queued)
          BY <1>2 DEF Pending, Range
        <5> QED BY <3>6, <5>1, <5>2 DEF Asked
      <4> QED BY <4>1
    <3>8. Whole(u.scene)
      BY <3>2, <3>3, <3>7 DEF Whole
    <3> QED BY <1>2, <3>1, <3>4, <3>5, <3>8 DEF Good, Moving, none, t
  <2> QED BY <2>5, <2>6
<1> QED BY <1>1, <1>2

--------------------------------------------------------------------------
(* The other statuses                                                      *)

\* The handlers that look for the last status of a kind.
LEMMA LastIs ==
  ASSUME Published, NEW kind, Of(kind) # {}
  PROVE  \E i \in DOMAIN statuses : statuses[i].kind = kind /\ LastOf(kind) = statuses[i]
<1> DEFINE n == Len(statuses)
           T == {n - i : i \in Of(kind)}
<1>1. n \in Nat /\ DOMAIN statuses = 1..n /\ Of(kind) \subseteq 1..n
  BY DEF Published, Of
<1> HIDE DEF n
<1>2. T \in SUBSET (0..n) /\ T # {}
  BY <1>1
<1>3. PICK m \in T : \A x \in T : m <= x
  BY <1>1, <1>2, Least
<1>4. PICK i \in Of(kind) : m = n - i
  BY <1>3
<1>5. \A j \in Of(kind) : i >= j
  <2>1. ASSUME NEW j \in Of(kind) PROVE i >= j
    <3>1. n - i <= n - j
      BY <1>3, <1>4
    <3>2. i \in Int /\ j \in Int
      BY <1>1, <1>4
    <3> QED BY <1>1, <3>1, <3>2
  <2> QED BY <2>1
<1>6. Max(Of(kind)) \in Of(kind)
  BY <1>5 DEF Max
<1> QED BY <1>6 DEF LastOf, Of

LEMMA SnapshotKeeps ==
  ASSUME NEW s, NEW left, Good(s, left, {}), Playing, Published
  PROVE  LET t == HandleSnapshot(s)
         IN  /\ ~t.failed => Good(t, left, {})
             /\ t.scene = s.scene
<1>1. CASE Of("Snapshot") = {} \/ s.save # Waiting
  BY <1>1 DEF HandleSnapshot
<1>2. CASE Of("Snapshot") # {} /\ s.save = Waiting
  <2>1. PICK i \in DOMAIN statuses : statuses[i].kind = "Snapshot" /\
                                     LastOf("Snapshot") = statuses[i]
    BY <1>2, LastIs
  <2> DEFINE snapshot == statuses[i].loops
  <2>2. snapshot \in [Slots -> Nat] /\ \A slot \in Slots : Since(slot, snapshot[slot])
    BY <2>1, StatusesAre, StatusIs DEF Published
  <2>3. HandleSnapshot(s) = TakeSnapshot(s, snapshot)
    BY <1>2, <2>1 DEF HandleSnapshot
  <2> HIDE DEF snapshot
  <2> QED BY <1>2, <2>2, <2>3, TakeSnapshotKeeps
<1> QED BY <1>1, <1>2

LEMMA WantedKeeps ==
  ASSUME NEW s, NEW left, Good(s, left, {})
  PROVE  LET t == HandleWanted(s)
         IN  Good(t, left, {}) /\ t.scene = s.scene /\ t.failed = s.failed
<1> DEFINE t == HandleWanted(s)
           x == s.kept \/ (s.wanted /\ SnapshotSurvives)
           u == [s EXCEPT !.wanted = FALSE]
           v == [u EXCEPT !.kept = x]
           none == {}
<1> HIDE DEF x, none
<1>1. t = v
  BY DEF HandleWanted, Good, Sound, Shape, Fields, x
<1>2. Differs(s, u, {"wanted"})
  BY DEF Good, Sound, Shape, Differs, Fields
<1> HIDE DEF t, u
<1>3. Differs(u, v, {"kept"})
  BY <1>2 DEF Differs, Fields
<1> HIDE DEF v
<1>4. Differs(s, v, {"importQueue", "wanted", "kept", "scene", "failed"}) /\
      v.importQueue = s.importQueue /\ v.pending = s.pending /\ v.queued = s.queued /\
      v.scene = s.scene /\ v.failed = s.failed
  BY <1>2, <1>3 DEF Differs, Fields
<1>5. Sound(s, left, none) /\ s.importQueue \in Seq(Slots)
  BY DEF Good, Sound, Shape, none
<1>6. Sound(v, left, none)
  BY <1>4, <1>5, AlikeKeeps
<1> QED BY <1>1, <1>4, <1>6 DEF Good, Moving, none, t

LEMMA FailureKeeps ==
  ASSUME NEW s, NEW left, Good(s, left, {}), Playing, Published
  PROVE  LET t == HandleFailure(s)
         IN  /\ ~t.failed => t = s /\ Of("TransferError") = {}
             /\ t.scene = s.scene
<1> DEFINE t == HandleFailure(s)
<1>0. Shape(s)
  BY DEF Good, Sound
<1>1. CASE Of("TransferError") = {}
  BY <1>1 DEF HandleFailure
<1>2. CASE Of("TransferError") # {}
  <2>1. PICK i \in DOMAIN statuses : statuses[i].kind = "TransferError" /\
                                     LastOf("TransferError") = statuses[i]
    BY <1>2, LastIs
  <2> DEFINE h == statuses[i].handle
             u == Untrack(s, h)
             freed == IF Is(u, h, "Exported") THEN Store(u, h, "Free") ELSE u
             v == StartNextLoopExport(freed)
  <2>2. h \in Handles
    BY <2>1, StatusesAre, StatusIs DEF Answers
  <2>3. t = Fail(v)
    BY <1>2, <2>1 DEF HandleFailure
  <2> HIDE DEF t, h
  <2>4. Differs(s, u, {"pending"}) /\ u.pending \subseteq s.pending
    BY <1>0 DEF Differs, Fields, Shape, Untrack
  <2> HIDE DEF u
  <2>5. Shape(u) /\ u.scene = s.scene
    BY <1>0, <2>4 DEF Shape, Differs, Fields
  <2>6. Shape(freed) /\ freed.scene = s.scene
    <3>1. CASE Is(u, h, "Exported")
      <4> DEFINE w == Store(u, h, "Free")
      <4>1. Shape(w) /\ Differs(u, w, {"transfers"})
        BY <2>2, <2>5, StoredShape, StoreIs
      <4>2. freed = w
        BY <3>1
      <4> HIDE DEF w, freed
      <4> QED BY <2>5, <4>1, <4>2 DEF Differs, Fields
    <3>2. CASE ~Is(u, h, "Exported")
      BY <2>5, <3>2
    <3> QED BY <3>1, <3>2
  <2> HIDE DEF freed
  <2>7. DOMAIN v = Fields /\ v.scene = s.scene
    <3>1. CASE freed.pending # {} \/ freed.queued = <<>>
      BY <2>6, <3>1 DEF StartNextLoopExport, Shape
    <3>2. CASE freed.pending = {} /\ freed.queued # <<>>
      <4> DEFINE slot == Head(freed.queued)
                 q == Tail(freed.queued)
                 w == [freed EXCEPT !.queued = q]
      <4>1. v = Lend(w, "Export", slot)
        BY <3>2 DEF StartNextLoopExport, StartLoopExport
      <4>2. slot \in Slots /\ q \in Seq(Slots)
        BY <2>6, <3>2, InSeq DEF Shape
      <4> HIDE DEF slot, q
      <4>3. Differs(freed, w, {"queued"}) /\ w.queued = q
        BY <2>6 DEF Differs, Fields, Shape
      <4> HIDE DEF w, v
      <4>4. Shape(w) /\ w.scene = s.scene
        BY <2>6, <4>2, <4>3 DEF Shape, Differs, Fields
      <4>5. \/ Refuses(w, v)
            \/ \E x \in Handles : Fresh(w, x) /\ Grants(w, v, "Export", slot, x)
        BY <4>1, <4>2, <4>4, LendIs
      <4>6. Refuses(w, v) => Idles(w, v)
        BY <4>4, RefusesIdles
      <4> QED BY <4>4, <4>5, <4>6 DEF Idles, Grants, Differs, Fields
    <3> QED BY <3>1, <3>2
  <2> HIDE DEF v
  <2>8. t.failed /\ t.scene = s.scene
    BY <2>3, <2>7 DEF Fail, Fields
  <2> QED BY <2>8 DEF t
<1> QED BY <1>1, <1>2

--------------------------------------------------------------------------
(* One event of the inbox                                                  *)

\* A handler of a dispatch leaves what it found as it was, or makes it more.
Keeps(s, t) == Good(t, DOMAIN statuses, {}) /\ t.scene = s.scene

\* Commands that lend nothing.
LEMMA SendsKeep ==
  ASSUME NEW s, Good(s, DOMAIN statuses, {}), NEW c \in CommandSet, ~Lends(c)
  PROVE  LET t == Send(s, c)
         IN  Keeps(s, t) /\ Differs(s, t, {"commands", "failed"})
<1> DEFINE t == Send(s, c)
           none == {}
<1> HIDE DEF none
<1>1. Sound(s, DOMAIN statuses, none)
  BY DEF Good, none
<1>2. Sound(t, DOMAIN statuses, none) /\ Differs(s, t, {"commands", "failed"})
  BY <1>1, SendKeeps
<1> HIDE DEF t
<1>3. t.pending = s.pending /\ t.queued = s.queued /\ t.scene = s.scene
  BY <1>2 DEF Differs, Fields
<1> QED BY <1>2, <1>3 DEF Keeps, Good, Moving, none, t

LEMMA CommandsCan ==
  /\ \A slot \in Slots, op \in {"Record", "Erase"} :
       On(op, slot) \in CommandSet /\ ~Lends(On(op, slot))
  /\ \A op \in {"StopRecord", "Snapshot"} : Command(op) \in CommandSet /\ ~Lends(Command(op))
  BY DEF On, Command, CommandSet, Lends

\* What the events of the user keep, one by one.
LEMMA EraseKeeps ==
  ASSUME NEW s, Good(s, DOMAIN statuses, {}), NEW slot \in Slots
  PROVE  Keeps(s, EraseSelected(s, slot))
<1> DEFINE c == On("Erase", slot)
           u == Send(s, c)
           t == [u EXCEPT !.hashes[slot] = 0]
           none == {}
           more == none \cup {slot}
<1>1. Keeps(s, u)
  BY SendsKeep, CommandsCan
<1>2. EraseSelected(s, slot) = IF u.failed THEN u ELSE t
  BY DEF EraseSelected, Try
<1> HIDE DEF u
<1>3. Sound(u, DOMAIN statuses, more)
  BY <1>1 DEF Keeps, Good, Sound, Waited
<1> HIDE DEF none
<1>4. 0 \in Int
  OBVIOUS
<1>5. Sound(t, DOMAIN statuses, none) /\ Differs(u, t, {"hashes"})
  <2> DEFINE zero == 0
  <2>1. zero \in Int /\ zero = 0
    OBVIOUS
  <2> HIDE DEF zero
  <2> DEFINE v == [u EXCEPT !.hashes[slot] = zero]
  <2>2. Sound(v, DOMAIN statuses, none) /\ Differs(u, v, {"hashes"})
    BY <1>3, <2>1, HashKeeps
  <2> QED BY <2>1, <2>2
<1> HIDE DEF t
<1>6. t.pending = u.pending /\ t.queued = u.queued /\ t.scene = u.scene
  BY <1>5 DEF Differs, Fields
<1>7. Keeps(s, t)
  BY <1>1, <1>5, <1>6 DEF Keeps, Good, Moving, none
<1> QED BY <1>1, <1>2, <1>7

LEMMA SaveKeeps ==
  ASSUME NEW s, Good(s, DOMAIN statuses, {})
  PROVE  Keeps(s, SaveScene(s))
<1> DEFINE u == [s EXCEPT !.save = Waiting]
           none == {}
<1> HIDE DEF none
<1>1. Sound(s, DOMAIN statuses, none)
  BY DEF Good, none
<1>2. Sound(u, DOMAIN statuses, none) /\ Differs(s, u, {"save"})
  BY <1>1, SavedKeeps
<1>3. SaveScene(s) = Send(u, Command("Snapshot"))
  BY DEF SaveScene
<1> HIDE DEF u
<1>4. u.pending = s.pending /\ u.queued = s.queued /\ u.scene = s.scene
  BY <1>2 DEF Differs, Fields
<1>5. Good(u, DOMAIN statuses, {})
  BY <1>2, <1>4 DEF Good, Moving, none
<1>6. Keeps(u, SaveScene(s))
  BY <1>3, <1>5, SendsKeep, CommandsCan
<1> QED BY <1>4, <1>6 DEF Keeps

LEMMA CreateKeeps ==
  ASSUME NEW s, Good(s, DOMAIN statuses, {})
  PROVE  Keeps(s, CreateSnapshot(s))
<1> DEFINE u == Send(s, Command("Snapshot"))
           t == [u EXCEPT !.wanted = TRUE]
           none == {}
<1>1. Keeps(s, u)
  BY SendsKeep, CommandsCan
<1>2. CreateSnapshot(s) = IF u.failed THEN u ELSE t
  BY DEF CreateSnapshot, Try
<1> HIDE DEF u, none
<1>3. Differs(u, t, {"wanted"})
  BY <1>1 DEF Keeps, Good, Sound, Shape, Differs, Fields
<1> HIDE DEF t
<1>4. Differs(u, t, {"importQueue", "wanted", "kept", "scene", "failed"}) /\
      t.importQueue = u.importQueue /\ t.pending = u.pending /\ t.queued = u.queued /\
      t.scene = u.scene
  BY <1>3 DEF Differs, Fields
<1>5. Sound(u, DOMAIN statuses, none) /\ u.importQueue \in Seq(Slots)
  BY <1>1 DEF Keeps, Good, Sound, Shape, none
<1>6. Sound(t, DOMAIN statuses, none)
  BY <1>4, <1>5, AlikeKeeps
<1>7. Keeps(s, t)
  BY <1>1, <1>4, <1>6 DEF Keeps, Good, Moving, none
<1> QED BY <1>1, <1>2, <1>7

LEMMA RefreshKeeps ==
  ASSUME NEW s, Good(s, DOMAIN statuses, {}), NEW due
  PROVE  Keeps(s, Refreshed(s, due))
<1> DEFINE c == Command("Snapshot")
<1>1. Refreshed(s, due) = s \/ (~Full(s) /\ Refreshed(s, due) = Send(s, c))
  BY DEF Refreshed, Send
<1>2. Keeps(s, Send(s, c))
  BY SendsKeep, CommandsCan
<1> QED BY <1>1, <1>2 DEF Keeps

\* The user's actions that one dispatch handles.
Handling == {"Record", "StopRecord", "EraseSelected", "SaveLoop", "SaveScene", "CreateSnapshot",
             "ImportSelectedLoop", "ToggleStreaming"}

LEMMA HandledKeeps ==
  ASSUME NEW s, Good(s, DOMAIN statuses, {}), Playing, Published,
         NEW action \in Handling, NEW slot \in Slots
  PROVE  Keeps(s, Handled(s, action, slot))
<1> DEFINE none == {}
<1>0. Good(s, DOMAIN statuses, none)
  OBVIOUS
<1> HIDE DEF none
<1>1. CASE action = "Record"
  BY <1>1, SendsKeep, CommandsCan DEF Handled
<1>2. CASE action = "StopRecord"
  BY <1>2, SendsKeep, CommandsCan DEF Handled
<1>3. CASE action = "EraseSelected"
  BY <1>3, EraseKeeps DEF Handled
<1>4. CASE action = "SaveLoop"
  <2>1. Good(RequestLoopExport(s, slot), DOMAIN statuses, none) /\
        Differs(s, RequestLoopExport(s, slot), Lenders)
    BY <1>0, RequestKeeps
  <2>2. Handled(s, action, slot) = RequestLoopExport(s, slot)
    BY <1>4 DEF Handled
  <2> QED BY <2>1, <2>2 DEF Keeps, Differs, Lenders, Fields, none
<1>5. CASE action = "SaveScene"
  BY <1>5, SaveKeeps DEF Handled
<1>6. CASE action = "CreateSnapshot"
  BY <1>6, CreateKeeps DEF Handled
<1>7. CASE action = "ImportSelectedLoop"
  <2>1. Handled(s, action, slot) = DecodeAndQueueImport(s, slot)
    BY <1>7 DEF Handled
  <2>2. Good(DecodeAndQueueImport(s, slot), DOMAIN statuses, none) /\
        DecodeAndQueueImport(s, slot).scene = s.scene
    BY <1>0, ImportKeeps
  <2> QED BY <2>1, <2>2 DEF Keeps, none
<1>8. CASE action = "ToggleStreaming"
  BY <1>8 DEF Handled, Keeps
<1> QED BY <1>1, <1>2, <1>3, <1>4, <1>5, <1>6, <1>7, <1>8 DEF Handling

\* The scene takes the place of what was known of the loops, and of the imports under way.
LoadedFields == {"transfers", "imports", "hashes", "importQueue", "kept", "save"}

\* What a load replaces: the answered transfers A, the hashes H and the queue of imports Q.
Loaded(s, A, H, Q) ==
  [s EXCEPT !.transfers = A, !.imports = {}, !.hashes = H, !.importQueue = Q, !.kept = FALSE,
            !.save = IF @ \in {None, Waiting} THEN @ ELSE [@ EXCEPT !.fresh = {}]]

LEMMA LoadedIs ==
  ASSUME NEW s, DOMAIN s = Fields, NEW A, NEW H, NEW Q
  PROVE  LET t == Loaded(s, A, H, Q)
         IN  /\ Differs(s, t, LoadedFields)
             /\ t.transfers = A /\ t.imports = {} /\ t.hashes = H /\ t.importQueue = Q
             /\ t.save = IF s.save \in {None, Waiting} THEN s.save
                         ELSE [s.save EXCEPT !.fresh = {}]
<1> DEFINE none == {}
           no == FALSE
           a == [s EXCEPT !.transfers = A]
           b == [a EXCEPT !.imports = none]
           c == [b EXCEPT !.hashes = H]
           d == [c EXCEPT !.importQueue = Q]
           e == [d EXCEPT !.kept = no]
           x == IF e.save \in {None, Waiting} THEN e.save ELSE [e.save EXCEPT !.fresh = {}]
           f == [e EXCEPT !.save = x]
           t == Loaded(s, A, H, Q)
<1>1. t = f
  BY DEF Loaded
<1> HIDE DEF none, no, x
<1>2. Differs(s, a, {"transfers"}) /\ a.transfers = A
  BY DEF Differs, Fields
<1> HIDE DEF a
<1>3. Differs(a, b, {"imports"}) /\ b.imports = none
  BY <1>2 DEF Differs, Fields
<1> HIDE DEF b
<1>4. Differs(b, c, {"hashes"}) /\ c.hashes = H
  BY <1>3 DEF Differs, Fields
<1> HIDE DEF c
<1>5. Differs(c, d, {"importQueue"}) /\ d.importQueue = Q
  BY <1>4 DEF Differs, Fields
<1> HIDE DEF d
<1>6. Differs(d, e, {"kept"})
  BY <1>5 DEF Differs, Fields
<1> HIDE DEF e
<1>7. Differs(e, f, {"save"}) /\ f.save = x
  BY <1>6 DEF Differs, Fields
<1> HIDE DEF f
<1>8. e.save = s.save
  BY <1>2, <1>3, <1>4, <1>5, <1>6 DEF Differs, Fields
<1>9. x = IF s.save \in {None, Waiting} THEN s.save ELSE [s.save EXCEPT !.fresh = {}]
  BY <1>8 DEF x
<1>10. Differs(s, f, LoadedFields)
  BY <1>2, <1>3, <1>4, <1>5, <1>6, <1>7 DEF Differs, Fields, LoadedFields
<1>11. f.transfers = A /\ f.imports = none /\ f.hashes = H /\ f.importQueue = Q
  BY <1>2, <1>3, <1>4, <1>5, <1>6, <1>7 DEF Differs, Fields
<1> QED BY <1>1, <1>7, <1>9, <1>10, <1>11 DEF none

LEMMA LoadKeeps ==
  ASSUME NEW s, Good(s, DOMAIN statuses, {}), Playing, Published, NEW disk \in BOOLEAN
  PROVE  Keeps(s, LoadScene(s, disk))
<1> DEFINE answered(x) == \E h \in s.imports : h[1] = x /\ Is(s, h, "Exported")
           A == [x \in Transfers |-> IF answered(x) THEN [s.transfers[x] EXCEPT !.state = "Free"]
                                     ELSE s.transfers[x]]
           H == [slot \in Slots |-> IF slot \in Range(SceneLoops) THEN FromFile ELSE 0]
           Q == SceneLoops
           none == {}
           t == Loaded(s, A, H, Q)
           a == [s EXCEPT !.transfers = A]
<1>0. Shape(s) /\ Sound(s, DOMAIN statuses, none)
  BY DEF Good, Sound, none
<1>1. LoadScene(s, disk) = StartNextQueuedImport(t, disk)
  BY DEF LoadScene, Loaded
<1>2. H \in [Slots -> Int] /\ Q \in Seq(Slots)
  BY LibraryBounds DEF FromFile
<1>3. \A x \in Transfers : s.transfers[x] \in TransferSet
  BY <1>0 DEF Shape
<1>4. A \in [Transfers -> TransferSet]
  BY <1>3 DEF TransferSet
<1>5. ASSUME NEW x \in Transfers, answered(x)
      PROVE  /\ A[x].state = "Free" /\ A[x].generation = s.transfers[x].generation
             /\ s.transfers[x].state = "Exported" /\ \A p \in s.pending : p.handle[1] # x
  <2>1. PICK h \in s.imports : h[1] = x /\ Is(s, h, "Exported")
    BY <1>5
  <2>2. h \in Handles
    BY <1>0 DEF Shape
  <2>3. s.transfers[x].state = "Exported" /\ s.transfers[x].generation = h[2]
    BY <2>1 DEF Is
  <2>4. ASSUME NEW p \in s.pending, p.handle[1] = x PROVE FALSE
    <3>1. p.handle \in Handles /\ p.handle \notin s.imports /\ h[2] = p.handle[2]
      BY <1>0, <2>3, <2>4 DEF Shape, Sound, Exporting, Own
    <3>2. p.handle = h
      BY <2>1, <2>2, <2>4, <3>1, HandleIs
    <3> QED BY <3>1, <3>2
  <2> QED BY <1>3, <1>5, <2>3, <2>4 DEF TransferSet
<1>6. \A x \in Transfers : ~answered(x) => A[x] = s.transfers[x]
  OBVIOUS
<1> HIDE DEF answered, A, H, Q, none
<1>7. Differs(s, a, {"transfers"}) /\ a.transfers = A
  BY <1>0 DEF Differs, Fields, Shape
<1> HIDE DEF a
<1>8. Idles(s, a)
  <2>1. ASSUME NEW x \in Transfers
        PROVE  \/ a.transfers[x] = s.transfers[x]
               \/ /\ a.transfers[x].state = "Free"
                  /\ s.transfers[x].state \in {"Free", "Exported"}
                  /\ s.transfers[x].generation <= a.transfers[x].generation
                  /\ s.transfers[x].state = "Exported" => \A p \in s.pending : p.handle[1] # x
    <3>1. s.transfers[x].generation <= s.transfers[x].generation
      BY <1>3 DEF TransferSet
    <3> QED BY <1>5, <1>6, <1>7, <3>1
  <2> QED BY <1>4, <1>7, <2>1 DEF Idles, Differs
<1>9. Sound(a, DOMAIN statuses, none)
  BY <1>0, <1>8, IdlesKeeps
<1>d. DOMAIN s = Fields
  BY <1>0 DEF Shape
<1>10. /\ Differs(s, t, LoadedFields)
       /\ t.transfers = A /\ t.imports = {} /\ t.hashes = H /\ t.importQueue = Q
       /\ t.save = IF s.save \in {None, Waiting} THEN s.save ELSE [s.save EXCEPT !.fresh = {}]
  BY ONLY <1>d, LoadedIs
<1> HIDE DEF t
<1>a. /\ t.pending = a.pending /\ t.queued = a.queued /\ t.commands = a.commands
      /\ t.transfers = a.transfers /\ t.save = (IF a.save \in {None, Waiting} THEN a.save
                                                ELSE [a.save EXCEPT !.fresh = {}])
      /\ t.scene = s.scene /\ DOMAIN t = Fields
      /\ a.pending = s.pending /\ a.queued = s.queued
  BY <1>7, <1>10 DEF Differs, Fields, LoadedFields
<1>b. \/ t.save \in {None, Waiting}
      \/ /\ a.save \in SaveSet /\ t.save \in SaveSet
         /\ t.save.snapshot = a.save.snapshot /\ t.save.fresh = {}
  BY <1>9, <1>a DEF Sound, Shape, SaveSet
<1>11. Shape(t)
  BY <1>2, <1>9, <1>10, <1>a, <1>b DEF Sound, Shape
<1>12. Lent(t) /\ Past(t)
  BY <1>9, <1>10, <1>a DEF Sound, Lent, Past, Is
<1>13. Homeward(t, DOMAIN statuses)
  BY <1>9, <1>a DEF Sound, Homeward, NamedBy
<1>14. Exporting(t)
  BY <1>9, <1>10, <1>a DEF Sound, Exporting, Own
<1>15. Waited(t, {})
  <2>1. Saving(t) => Saving(a) /\ t.save.snapshot = a.save.snapshot /\ t.save.fresh = {}
    BY <1>b, SaveIs DEF Saving
  <2> QED BY <1>9, <2>1 DEF Sound, Waited
<1>16. Good(t, DOMAIN statuses, none)
  BY <1>11, <1>12, <1>13, <1>14, <1>15, <1>a DEF Good, Moving, Sound, none
<1>17. Good(StartNextQueuedImport(t, disk), DOMAIN statuses, none) /\
       StartNextQueuedImport(t, disk).scene = t.scene
  BY <1>16, NextImportKeeps
<1> QED BY <1>1, <1>17, <1>a DEF Keeps, none

--------------------------------------------------------------------------
(* The steps of the event loop                                             *)

\* What a handler leaves is what the event loop holds next.
LEMMA LeaveIs ==
  ASSUME Known, NEW s, DOMAIN s = Fields, Leave(s)
  PROVE  Known' /\ Differs(s, Held', {"failed"}) /\ Held'.scene = scene'
<1>1. DOMAIN r = {"pending", "queued", "imports", "importQueue", "hashes", "save", "wanted", "kept"}
  BY DEF Known, Fields
<1>2. r' = [f \in DOMAIN r |-> s[f]] /\ transfers' = s.transfers /\ commands' = s.commands /\
      scene' = s.scene
  BY DEF Leave
<1>3. DOMAIN r' = DOMAIN r
  BY <1>2
<1>4. /\ r'.pending = s.pending /\ r'.queued = s.queued /\ r'.imports = s.imports
      /\ r'.importQueue = s.importQueue /\ r'.hashes = s.hashes /\ r'.save = s.save
      /\ r'.wanted = s.wanted /\ r'.kept = s.kept
  BY <1>1, <1>2
<1>5. Differs(s, Held', {"failed"}) /\ Held'.scene = scene'
  BY <1>2, <1>4 DEF Differs, Fields, Held
<1> QED BY <1>3, <1>5 DEF Known

\* The callback has not moved: what was sound of its part still is.
LEMMA StaysGood ==
  ASSUME UNCHANGED <<statuses, loops, job, takes, lost>>, Good(Held', DOMAIN statuses, {})
  PROVE  Good(Held, DOMAIN statuses, {})'
<1>1. Shape(Held)'
  BY DEF Good, Sound, Shape
<1>2. Lent(Held)' /\ Past(Held)'
  BY DEF Good, Sound, Lent, Past, Is
<1>3. Homeward(Held, DOMAIN statuses)'
  BY DEF Good, Sound, Homeward, NamedBy
<1>4. Exporting(Held)'
  BY DEF Good, Sound, Exporting, Own
<1>5. Waited(Held, {})'
  BY DEF Good, Sound, Waited, Since, Saving, Due, Asked, Pending
<1>6. Moving(Held)'
  BY DEF Good, Moving
<1> QED BY <1>1, <1>2, <1>3, <1>4, <1>5, <1>6 DEF Good, Sound

\* Whether a handler failed is not part of what the event loop holds.
LEMMA HeldKeeps ==
  ASSUME NEW s, NEW left, Good(s, left, {}), NEW h, Differs(s, h, {"failed"})
  PROVE  Good(h, left, {})
<1> DEFINE none == {}
<1>1. Sound(s, left, none) /\ Moving(s) /\ s.importQueue \in Seq(Slots)
  BY DEF Good, Sound, Shape, none
<1> HIDE DEF none
<1>2. /\ Differs(s, h, {"importQueue", "wanted", "kept", "scene", "failed"})
      /\ h.importQueue = s.importQueue /\ h.pending = s.pending /\ h.queued = s.queued
  BY DEF Differs, Fields
<1>3. Sound(h, left, none)
  BY <1>1, <1>2, AlikeKeeps
<1> QED BY <1>1, <1>2, <1>3 DEF Good, Moving, none

\* A step of the event loop keeps the invariant when its handler does.
LEMMA EventStep ==
  ASSUME Going, NEW s, Good(s, DOMAIN statuses, {}), Leave(s), UNCHANGED callbackVars
  PROVE  Going'
<1>1. DOMAIN s = Fields
  BY DEF Good, Sound, Shape
<1>2. Known' /\ Differs(s, Held', {"failed"})
  BY <1>1, LeaveIs DEF Going
<1>3. Good(Held', DOMAIN statuses, {})
  <2> DEFINE h == Held'
  <2>1. Differs(s, h, {"failed"})
    BY <1>2
  <2> HIDE DEF h
  <2>2. Good(h, DOMAIN statuses, {})
    BY <2>1, HeldKeeps
  <2> QED BY <2>2 DEF h
<1>4. Good(Held, DOMAIN statuses, {})'
  BY <1>3, StaysGood DEF callbackVars
<1>5. Playing' /\ Published'
  BY DEF Going, Playing, Published, Since, callbackVars
<1> QED BY <1>2, <1>4, <1>5 DEF Going

\* What a handler is handed is what the invariant speaks of.
LEMMA HeldIs ==
  ASSUME Going
  PROVE  Good(Held, DOMAIN statuses, {}) /\ Playing /\ Published /\ Held.scene = scene
  BY DEF Going, Held

LEMMA IdleStep ==
  ASSUME Going, NEW due \in BOOLEAN, Idle(due)
  PROVE  Going' /\ scene' = scene
<1> DEFINE s == Refreshed(Held, due)
<1>1. Keeps(Held, s)
  BY HeldIs, RefreshKeeps
<1>2. Leave(s) /\ UNCHANGED callbackVars
  BY DEF Idle
<1>3. Going'
  BY <1>1, <1>2, EventStep DEF Keeps
<1> QED BY <1>1, <1>2, <1>3, HeldIs DEF Keeps, Leave

LEMMA DispatchStep ==
  ASSUME Going, NEW action \in UserActions \ {"LoadScene"}, NEW slot \in Slots,
         NEW due \in BOOLEAN, Dispatch(action, slot, due)
  PROVE  Going' /\ scene' = scene
<1> DEFINE t == Handled(Held, action, slot)
           s == Refreshed(t, due)
<1>1. Keeps(Held, t)
  BY HeldIs, HandledKeeps, LibraryAssumption DEF Handling
<1>2. Keeps(t, s)
  <2> HIDE DEF t
  <2> QED BY <1>1, RefreshKeeps DEF Keeps
<1>3. Leave(s) /\ UNCHANGED callbackVars
  BY DEF Dispatch
<1> HIDE DEF s
<1>4. Going'
  BY <1>2, <1>3, EventStep DEF Keeps
<1> QED BY <1>1, <1>2, <1>3, <1>4, HeldIs DEF Keeps, Leave

LEMMA StartLoadStep ==
  ASSUME Going, StartLoad
  PROVE  Going' /\ scene' = scene
<1> DEFINE s == EraseScene(Held)
<1>1. Keeps(Held, s)
  BY HeldIs, EraseSceneKeeps DEF Keeps
<1>2. Leave(s) /\ UNCHANGED callbackVars
  BY DEF StartLoad
<1> HIDE DEF s
<1>3. Going'
  BY <1>1, <1>2, EventStep DEF Keeps
<1> QED BY <1>1, <1>2, <1>3, HeldIs DEF Keeps, Leave

LEMMA FinishLoadStep ==
  ASSUME Going, NEW due \in BOOLEAN, NEW disk \in DiskOutcomes, FinishLoad(due, disk)
  PROVE  Going' /\ scene' = scene
<1> DEFINE t == LoadScene(Held, disk)
           s == Refreshed(t, due)
<1>1. Keeps(Held, t)
  <2>1. disk \in BOOLEAN
    BY LibraryAssumption
  <2> QED BY <2>1, HeldIs, LoadKeeps
<1>2. Keeps(t, s)
  <2> HIDE DEF t
  <2> QED BY <1>1, RefreshKeeps DEF Keeps
<1>3. Leave(s) /\ UNCHANGED callbackVars
  BY DEF FinishLoad
<1> HIDE DEF s
<1>4. Going'
  BY <1>2, <1>3, EventStep DEF Keeps
<1> QED BY <1>1, <1>2, <1>3, <1>4, HeldIs DEF Keeps, Leave

\* A drain that ends well has taken in every status that answers a transfer.
LEMMA DrainIs ==
  ASSUME Going, Whole(scene), NEW disk \in BOOLEAN, Drain(disk)
  PROVE  \E s : /\ Leave(s) /\ running' = ~s.failed /\ Whole(s.scene)
                /\ ~s.failed => \E left \in SUBSET DOMAIN statuses :
                                  /\ Good(s, left, {})
                                  /\ \A i \in left : ~Answers(statuses[i])
<1> DEFINE all == DOMAIN statuses
           noExports == {i \in all : statuses[i].kind # "LoopExported"}
           left == {i \in noExports : statuses[i].kind # "LoopImported"}
           asked == HandleSnapshot(Held)
           exported == Try(asked, LAMBDA u : HandleExported(u, disk))
           moved == Try(exported, LAMBDA u : HandleImported(u, disk))
           completed == Try(moved, HandleCompleted)
           saved == Try(completed, LAMBDA u : MaybeSaveScene(u, disk))
           heard == Try(saved, HandleFailure)
           s == Try(heard, HandleWanted)
<1> HIDE DEF left, noExports
<1>0. /\ noExports \subseteq all /\ left \subseteq all /\ Of("LoopExported") \subseteq all
      /\ Of("LoopImported") \subseteq noExports
  BY DEF noExports, left, Of
<1>1. Leave(s) /\ running' = ~s.failed
  BY DEF Drain
<1>2. (~asked.failed => Good(asked, all, {})) /\ asked.scene = scene
  BY HeldIs, SnapshotKeeps
<1>a. exported = IF asked.failed THEN asked ELSE HandleExported(asked, disk)
  BY DEF Try
<1>b. moved = IF exported.failed THEN exported ELSE HandleImported(exported, disk)
  BY DEF Try
<1>c. completed = IF moved.failed THEN moved ELSE HandleCompleted(moved)
  BY DEF Try
<1>d. saved = IF completed.failed THEN completed ELSE MaybeSaveScene(completed, disk)
  BY DEF Try
<1>e. heard = IF saved.failed THEN saved ELSE HandleFailure(saved)
  BY DEF Try
<1>f. s = IF heard.failed THEN heard ELSE HandleWanted(heard)
  BY DEF Try
<1> HIDE DEF asked, exported, moved, completed, saved, heard, s
<1>3. (~exported.failed => Good(exported, noExports, {})) /\ exported.scene = scene
  <2>1. CASE ~asked.failed
    <3>1. exported = HandleExported(asked, disk) /\ Good(asked, all, {})
      BY <1>2, <1>a, <2>1
    <3> QED BY <1>0, <1>2, <3>1, HeldIs, ExportedKeeps DEF noExports
  <2> QED BY <1>2, <1>a, <2>1
<1>4. (~moved.failed => Good(moved, left, {})) /\ moved.scene = scene
  <2>1. CASE ~exported.failed
    <3>1. moved = HandleImported(exported, disk) /\ Good(exported, noExports, {})
      BY <1>3, <1>b, <2>1
    <3> QED BY <1>0, <1>3, <3>1, HeldIs, ImportedKeeps DEF left
  <2> QED BY <1>3, <1>b, <2>1
<1>5. (~completed.failed => Good(completed, left, {})) /\ completed.scene = scene
  <2>1. CASE ~moved.failed
    <3>1. completed = HandleCompleted(moved) /\ Good(moved, left, {})
      BY <1>4, <1>c, <2>1
    <3> QED BY <1>4, <3>1, HeldIs, CompletedKeeps
  <2> QED BY <1>4, <1>c, <2>1
<1>6. (~saved.failed => Good(saved, left, {})) /\ Whole(saved.scene)
  <2>1. CASE ~completed.failed
    <3>1. saved = MaybeSaveScene(completed, disk) /\ Good(completed, left, {}) /\
          Whole(completed.scene)
      BY <1>5, <1>d, <2>1
    <3> QED BY <3>1, HeldIs, MaybeSaveKeeps
  <2> QED BY <1>5, <1>d, <2>1
<1>7. /\ ~heard.failed => Good(heard, left, {}) /\ Of("TransferError") = {}
      /\ Whole(heard.scene)
  <2>1. CASE ~saved.failed
    <3>1. heard = HandleFailure(saved) /\ Good(saved, left, {})
      BY <1>6, <1>e, <2>1
    <3> QED BY <1>6, <3>1, HeldIs, FailureKeeps
  <2> QED BY <1>6, <1>e, <2>1
<1>8. (~s.failed => Good(s, left, {}) /\ Of("TransferError") = {}) /\ Whole(s.scene)
  <2>1. CASE ~heard.failed
    <3>1. s = HandleWanted(heard) /\ Good(heard, left, {})
      BY <1>7, <1>f, <2>1
    <3> QED BY <1>7, <2>1, <3>1, WantedKeeps
  <2> QED BY <1>7, <1>f, <2>1
<1>9. ~s.failed => \A i \in left : ~Answers(statuses[i])
  BY <1>0, <1>8 DEF left, noExports, Of, Answers
<1> QED BY <1>0, <1>1, <1>8, <1>9

\* A drain that failed ends the session; one that went well has left no status unanswered.
LEMMA DrainStep ==
  ASSUME Going, Whole(scene), NEW disk \in DiskOutcomes, Drain(disk)
  PROVE  LibraryInv' /\ Whole(scene')
<1>1. disk \in BOOLEAN
  BY LibraryAssumption
<1>2. PICK s : /\ Leave(s) /\ running' = ~s.failed /\ Whole(s.scene)
               /\ ~s.failed => \E left \in SUBSET DOMAIN statuses :
                                 /\ Good(s, left, {})
                                 /\ \A i \in left : ~Answers(statuses[i])
  BY <1>1, DrainIs
<1>3. statuses' = <<>> /\ UNCHANGED <<loops, recording, job, takes, lost>>
  BY DEF Drain
<1>4. CASE s.failed
  BY <1>2, <1>4 DEF LibraryInv, Leave
<1>5. CASE ~s.failed
  <2>1. PICK left \in SUBSET DOMAIN statuses :
          Good(s, left, {}) /\ \A i \in left : ~Answers(statuses[i])
    BY <1>2, <1>5
  <2>2. Known' /\ Differs(s, Held', {"failed"})
    BY <1>2, <2>1, LeaveIs DEF Going, Good, Sound, Shape
  <2> DEFINE h == Held'
  <2>3. Good(h, left, {})
    <3>1. Differs(s, h, {"failed"})
      BY <2>2
    <3> HIDE DEF h
    <3> QED BY <2>1, <3>1, HeldKeeps
  <2>4. DOMAIN statuses' = {}
    BY <1>3
  <2>5. Shape(Held)'
    BY <2>3 DEF Good, Sound, Shape
  <2>6. Lent(Held)' /\ Past(Held)'
    BY <1>3, <2>3, <2>4 DEF Good, Sound, Lent, Past, Is
  <2>7. Homeward(Held, DOMAIN statuses)'
    BY <1>3, <2>1, <2>3, <2>4 DEF Good, Sound, Homeward, NamedBy
  <2>8. Exporting(Held)'
    BY <1>3, <2>3, <2>4 DEF Good, Sound, Exporting, Own
  <2>9. Waited(Held, {})'
    BY <1>3, <2>3, <2>4 DEF Good, Sound, Waited, Since, Saving, Due, Asked, Pending
  <2>10. Moving(Held)'
    BY <2>3 DEF Good, Moving
  <2>11. Playing' /\ Published'
    BY <1>3, <2>4 DEF Going, Playing, Published, Since
  <2>12. Going'
    BY <2>2, <2>5, <2>6, <2>7, <2>8, <2>9, <2>10, <2>11 DEF Going, Good, Sound
  <2> QED BY <1>2, <2>12 DEF LibraryInv, Leave
<1> QED BY <1>4, <1>5

--------------------------------------------------------------------------
(* The steps of the callback                                               *)

\* Takes only grow, and no loop gets an older one.
Grows ==
  /\ takes' >= takes
  /\ \A slot \in Slots :
       \/ loops'[slot].mode = "Empty" \/ loops'[slot].take > takes
       \/ loops[slot].mode # "Empty" /\ loops'[slot].take >= loops[slot].take

\* A status is published, or finds no room.
Says(e) ==
  /\ e \in StatusSet /\ lost \subseteq lost'
  /\ \/ statuses' = Append(statuses, e)
     \/ statuses' = statuses /\ (Answers(e) => e.handle \in lost')

\* A status that tells the event loop nothing.
Quiet == [kind |-> "CommandRejected"]

\* The first n commands are taken.
Heeds(n) ==
  \/ n = 0 /\ commands' = commands
  \/ n = 1 /\ commands # <<>> /\ commands' = Tail(commands)

\* The callback gives no transfer a new generation, and frees none.
Passes ==
  /\ transfers' \in [Transfers -> TransferSet]
  /\ \A t \in Transfers : /\ transfers'[t].generation = transfers[t].generation
                          /\ transfers'[t].state = "Free" <=> transfers[t].state = "Free"

\* What a loop holds, and what names a handle, after the step.
SinceNext(slot, n) ==
  n <= takes' /\ (loops'[slot].mode = "Empty" \/ loops'[slot].take >= n)
NamedNext(h) ==
  \/ \E i \in DOMAIN commands' : Lends(commands'[i]) /\ commands'[i].handle = h
  \/ \E i \in DOMAIN statuses' : Answers(statuses'[i]) /\ statuses'[i].handle = h
  \/ job' # None /\ job'.handle = h
  \/ h \in lost'

\* What the callback says and takes, and what that leaves as it was.
LEMMA SinceGrows ==
  ASSUME Playing, Playing', Grows, NEW slot \in Slots, NEW n \in Nat, Since(slot, n)
  PROVE  SinceNext(slot, n)
<1>1. takes \in Nat /\ takes' \in Nat /\ loops[slot].take \in Nat /\ loops'[slot].take \in Nat
  BY DEF Playing, LoopSet
<1> QED BY <1>1 DEF Grows, Since, SinceNext

LEMMA SaysIs ==
  ASSUME Published, NEW e, Says(e)
  PROVE  /\ statuses' \in Seq(StatusSet)
         /\ \A i \in DOMAIN statuses : i \in DOMAIN statuses' /\ statuses'[i] = statuses[i]
         /\ \A i \in DOMAIN statuses' :
              (i \in DOMAIN statuses /\ statuses'[i] = statuses[i]) \/ statuses'[i] = e
         /\ Answers(e) => e.handle \in lost' \/ \E i \in DOMAIN statuses' : statuses'[i] = e
<1>1. CASE statuses' = statuses /\ (Answers(e) => e.handle \in lost')
  BY <1>1 DEF Published
<1>2. CASE statuses' = Append(statuses, e)
  <2> DEFINE n == Len(statuses)
  <2>1. /\ statuses' \in Seq(StatusSet) /\ DOMAIN statuses' = 1..(n + 1)
        /\ DOMAIN statuses = 1..n /\ n \in Nat
        /\ \A i \in 1..n : statuses'[i] = statuses[i]
        /\ statuses'[n + 1] = e
    BY <1>2, Appended DEF Published, Says
  <2> HIDE DEF n
  <2>2. \A i \in 1..(n + 1) : i = n + 1 \/ i \in 1..n
    BY <2>1
  <2>3. n + 1 \in 1..(n + 1) /\ \A i \in 1..n : i \in 1..(n + 1)
    BY <2>1
  <2> QED BY <2>1, <2>2, <2>3
<1> QED BY <1>1, <1>2 DEF Says

LEMMA HeedsIs ==
  ASSUME commands \in Seq(CommandSet), NEW n, Heeds(n)
  PROVE  /\ commands' \in Seq(CommandSet) /\ n \in {0, 1}
         /\ \A i \in DOMAIN commands' : i + n \in DOMAIN commands /\ commands'[i] = commands[i + n]
         /\ \A i \in DOMAIN commands : i = n \/ (i - n \in DOMAIN commands' /\ (i - n) + n = i)
         /\ DOMAIN commands \subseteq Int /\ DOMAIN commands' \subseteq Int
<1>1. CASE n = 0 /\ commands' = commands
  BY <1>1 DEF Heeds
<1>2. CASE n = 1 /\ commands # <<>> /\ commands' = Tail(commands)
  <2> DEFINE m == Len(commands)
  <2>1. /\ commands' \in Seq(CommandSet) /\ DOMAIN commands = 1..m /\ m \in Nat \ {0}
        /\ DOMAIN commands' = 1..(m - 1)
        /\ \A i \in 1..(m - 1) : commands'[i] = commands[i + 1]
    BY <1>2
  <2> HIDE DEF m
  <2> QED BY <1>2, <2>1
<1> QED BY <1>1, <1>2 DEF Heeds

\* What the invariant asks of a step of the callback, whatever it is.
LEMMA CallbackKeeps ==
  ASSUME Going, UNCHANGED <<r, scene>>, Playing', Grows, NEW e, Says(e), NEW n, Heeds(n), Passes,
         Lent(Held)',
         \A i \in DOMAIN commands : i = n /\ Lends(commands[i]) =>
           NamedNext(commands[i].handle),
         job # None => NamedNext(job.handle),
         Answers(e) => e.handle[2] <= transfers[e.handle[1]].generation,
         e.kind = "LoopImported" => \A p \in r.pending : p.handle # e.handle,
         e.kind = "LoopExported" => \A p \in r.pending : p.handle = e.handle =>
                                      loops[p.slot].mode # "Empty" /\ e.take = loops[p.slot].take,
         e.kind = "Snapshot" => \A slot \in Slots : SinceNext(slot, e.loops[slot]),
         job' # None => \A p \in r.pending : job'.handle = p.handle => job'.slot = p.slot
  PROVE  Going'
<1>a. /\ Held.pending = r.pending /\ Held.queued = r.queued /\ Held.imports = r.imports
      /\ Held.importQueue = r.importQueue /\ Held.hashes = r.hashes /\ Held.save = r.save
      /\ Held.transfers = transfers /\ Held.commands = commands /\ DOMAIN Held = Fields
  BY DEF Held, Fields
<1>b. /\ Held'.pending = r.pending /\ Held'.queued = r.queued /\ Held'.imports = r.imports
      /\ Held'.importQueue = r.importQueue /\ Held'.hashes = r.hashes /\ Held'.save = r.save
      /\ Held'.transfers = transfers' /\ Held'.commands = commands' /\ DOMAIN Held' = Fields
  BY DEF Held, Fields
<1>0. /\ Shape(Held) /\ Lent(Held) /\ Past(Held) /\ Homeward(Held, DOMAIN statuses)
      /\ Exporting(Held) /\ Waited(Held, {}) /\ Moving(Held) /\ Playing /\ Published
  BY DEF Going, Good, Sound
<1>1. commands \in Seq(CommandSet) /\ r.pending \subseteq [handle : Handles, slot : Slots] /\
      r.imports \subseteq Handles
  BY <1>0, <1>a DEF Shape
<1>2. /\ commands' \in Seq(CommandSet) /\ n \in {0, 1}
      /\ \A i \in DOMAIN commands' : i + n \in DOMAIN commands /\ commands'[i] = commands[i + n]
      /\ \A i \in DOMAIN commands : i = n \/ (i - n \in DOMAIN commands' /\ (i - n) + n = i)
      /\ DOMAIN commands \subseteq Int /\ DOMAIN commands' \subseteq Int
  BY <1>1, HeedsIs
<1>3. /\ statuses' \in Seq(StatusSet)
      /\ \A i \in DOMAIN statuses : i \in DOMAIN statuses' /\ statuses'[i] = statuses[i]
      /\ \A i \in DOMAIN statuses' :
           (i \in DOMAIN statuses /\ statuses'[i] = statuses[i]) \/ statuses'[i] = e
  BY <1>0, SaysIs
<1>4. Shape(Held)'
  BY <1>0, <1>a, <1>b, <1>2 DEF Shape, Passes
<1>5. Past(Held)'
  <2>1. \A x : Answers(x) <=> x.kind \in {"LoopExported", "LoopImported", "TransferError"}
    BY DEF Answers
  <2>2. ASSUME NEW i \in DOMAIN statuses', Answers(statuses'[i])
        PROVE  statuses'[i].handle[2] <= transfers'[statuses'[i].handle[1]].generation
    <3>1. statuses'[i].handle \in Handles
      BY <1>3, <2>2, StatusIs
    <3>2. statuses'[i].handle[2] <= transfers[statuses'[i].handle[1]].generation
      BY <1>0, <1>3, <1>a, <2>2 DEF Past
    <3> QED BY <3>1, <3>2, HandleIs DEF Passes
  <2>3. ASSUME NEW h \in r.imports PROVE h[2] <= transfers'[h[1]].generation
    BY <1>0, <1>1, <1>a, HandleIs DEF Past, Passes
  <2> QED BY <1>b, <2>1, <2>2, <2>3 DEF Past, Answers
<1>6. Homeward(Held, DOMAIN statuses)'
  <2>1. ASSUME NEW h, NamedBy(Held, DOMAIN statuses, h)
        PROVE  NamedNext(h)
    <3>1. ASSUME NEW i \in DOMAIN commands, Lends(commands[i]), commands[i].handle = h
          PROVE  NamedNext(h)
      <4>1. CASE i = n
        BY <3>1, <4>1
      <4>2. CASE i # n
        <5>1. i - n \in DOMAIN commands' /\ commands'[i - n] = commands[i]
          BY <1>2, <4>2
        <5> QED BY <1>b, <3>1, <5>1 DEF NamedNext
      <4> QED BY <4>1, <4>2
    <3>2. ASSUME NEW i \in DOMAIN statuses, Answers(statuses[i]), statuses[i].handle = h
          PROVE  NamedNext(h)
      BY <1>3, <3>2 DEF NamedNext
    <3>3. h \in lost => NamedNext(h)
      BY DEF Says, NamedNext
    <3> QED BY <1>a, <2>1, <3>1, <3>2, <3>3 DEF NamedBy, NamedNext
  <2>2. ASSUME NEW t \in Transfers, transfers'[t].state # "Free"
        PROVE  NamedNext(<<t, transfers[t].generation>>)
    BY <1>0, <1>a, <2>1, <2>2 DEF Homeward, Passes
  <2>3. \A t \in Transfers : transfers'[t].generation = transfers[t].generation
    BY DEF Passes
  <2> QED BY <1>b, <2>2, <2>3 DEF Homeward, NamedBy, NamedNext, Lends, Answers
<1>7. Exporting(Held)'
  <2>1. ASSUME NEW p \in r.pending PROVE Own(Held, p)'
    <3>1. Own(Held, p) /\ p.handle \in Handles
      BY <1>0, <1>1, <1>a, <2>1 DEF Exporting
    <3>2. /\ transfers'[p.handle[1]].generation = p.handle[2]
          /\ transfers'[p.handle[1]].state # "Free" /\ p.handle \notin r.imports
      BY <1>a, <3>1, HandleIs DEF Own, Passes
    <3>3. ASSUME NEW i \in DOMAIN commands', Lends(commands'[i]),
                 commands'[i].handle = p.handle
          PROVE  commands'[i].op = "Export" /\ commands'[i].slot = p.slot
      BY <1>2, <1>a, <3>1, <3>3 DEF Own
    <3>4. \A i \in DOMAIN statuses' :
            statuses'[i].kind = "LoopImported" => statuses'[i].handle # p.handle
      BY <1>3, <3>1 DEF Own
    <3> QED BY <1>b, <3>2, <3>3, <3>4 DEF Own, Lends
  <2> QED BY <1>0, <1>a, <1>b, <2>1 DEF Exporting
<1>8. Waited(Held, {})'
  <2>1. ASSUME r.save \notin {None, Waiting}
        PROVE  /\ \A slot \in Slots : SinceNext(slot, r.save.snapshot[slot])
               /\ \A slot \in r.save.fresh :
                    slot \in Kept(r.save.snapshot) /\ Due(Held, slot)' /\ Asked(Held, slot)'
    <3>1. /\ r.save \in SaveSet /\ \A slot \in Slots : Since(slot, r.save.snapshot[slot])
          /\ \A slot \in r.save.fresh :
               slot \in Kept(r.save.snapshot) /\ Due(Held, slot) /\ Asked(Held, slot)
      BY <1>0, <1>a, <2>1 DEF Waited, Saving, Shape
    <3>2. \A slot \in Slots : r.save.snapshot[slot] \in Nat
      BY <3>1 DEF SaveSet
    <3>3. \A slot \in Slots : SinceNext(slot, r.save.snapshot[slot])
      <4>1. ASSUME NEW slot \in Slots, NEW m, m = r.save.snapshot[slot] PROVE SinceNext(slot, m)
        BY <1>0, <3>1, <3>2, <4>1, SinceGrows
      <4> QED BY <4>1
    <3>4. ASSUME NEW slot \in r.save.fresh PROVE Due(Held, slot)' /\ Asked(Held, slot)'
      <4>1. slot \in Slots /\ Due(Held, slot) /\ Asked(Held, slot)
        BY <3>1 DEF SaveSet
      <4>2. Asked(Held, slot)'
        BY <1>a, <1>b, <4>1 DEF Asked, Pending
      <4>3. ASSUME NEW p \in r.pending, p.slot = slot, NEW i \in DOMAIN statuses',
                   statuses'[i].kind = "LoopExported", statuses'[i].handle = p.handle
            PROVE  statuses'[i].take >= r.save.snapshot[slot]
        <5>1. CASE i \in DOMAIN statuses /\ statuses'[i] = statuses[i]
          BY <1>a, <4>1, <4>3, <5>1 DEF Due
        <5>2. CASE statuses'[i] = e
          BY <3>1, <4>1, <4>3, <5>2 DEF Since
        <5> QED BY <1>3, <5>1, <5>2
      <4>4. Due(Held, slot)'
        BY <1>b, <4>3 DEF Due
      <4> QED BY <4>2, <4>4
    <3> QED BY <3>1, <3>3, <3>4
  <2> QED BY <1>b, <2>1 DEF Waited, Saving, Since, SinceNext
<1>9. Moving(Held)'
  BY <1>0, <1>a, <1>b DEF Moving
<1>10. Published'
  <2>1. ASSUME NEW i \in DOMAIN statuses', statuses'[i].kind = "Snapshot", NEW slot \in Slots
        PROVE  SinceNext(slot, statuses'[i].loops[slot])
    <3>1. CASE i \in DOMAIN statuses /\ statuses'[i] = statuses[i]
      <4>1. statuses[i].loops[slot] \in Nat /\ Since(slot, statuses[i].loops[slot])
        <5>1. statuses[i].kind = "Snapshot" /\ statuses[i].loops \in [Slots -> Nat]
          BY <1>0, <2>1, <3>1, StatusesAre, StatusIs
        <5> QED BY <1>0, <3>1, <5>1 DEF Published
      <4>2. ASSUME NEW m, m = statuses[i].loops[slot] PROVE SinceNext(slot, m)
        BY <1>0, <4>1, <4>2, SinceGrows
      <4> QED BY <3>1, <4>2
    <3>2. CASE statuses'[i] = e
      BY <2>1, <3>2
    <3> QED BY <1>3, <3>1, <3>2
  <2> QED BY <1>3, <2>1 DEF Published, Since, SinceNext
<1>11. Known'
  BY DEF Going, Known
<1> QED BY <1>4, <1>5, <1>6, <1>7, <1>8, <1>9, <1>10, <1>11 DEF Going, Good, Sound

\* What holds of what the callback works on.
LEMMA GoingIs ==
  ASSUME Going
  PROVE  /\ commands \in Seq(CommandSet) /\ Playing /\ Published
         /\ transfers \in [Transfers -> TransferSet]
         /\ r.pending \subseteq [handle : Handles, slot : Slots]
         /\ \A i \in DOMAIN commands : Lends(commands[i]) =>
              /\ commands[i].handle \in Handles
              /\ transfers[commands[i].handle[1]] =
                   [state |-> "Queued", generation |-> commands[i].handle[2]]
         /\ \A i, j \in DOMAIN commands :
              /\ Lends(commands[i]) /\ Lends(commands[j])
              /\ commands[i].handle = commands[j].handle
              => i = j
         /\ job # None => /\ job.handle \in Handles
                          /\ transfers[job.handle[1]] =
                               [state |-> "Callback", generation |-> job.handle[2]]
         /\ \A p \in r.pending :
              /\ \A i \in DOMAIN commands :
                   Lends(commands[i]) /\ commands[i].handle = p.handle =>
                     commands[i].op = "Export" /\ commands[i].slot = p.slot
              /\ job # None /\ job.handle = p.handle => job.slot = p.slot
<1>a. Held.pending = r.pending /\ Held.transfers = transfers /\ Held.commands = commands
  BY DEF Held
<1>0. Shape(Held) /\ Lent(Held) /\ Exporting(Held) /\ Playing /\ Published
  BY DEF Going, Good, Sound
<1>1. commands \in Seq(CommandSet) /\ transfers \in [Transfers -> TransferSet] /\
      r.pending \subseteq [handle : Handles, slot : Slots]
  BY <1>0, <1>a DEF Shape
<1>2. \A i \in DOMAIN commands : Lends(commands[i]) => commands[i].handle \in Handles
  BY <1>1, CommandIs
<1>3. job # None => job.handle \in Handles
  BY <1>0 DEF Playing
<1> QED BY <1>0, <1>a, <1>1, <1>2, <1>3 DEF Lent, Is, Exporting, Own

LEMMA PublishIs ==
  ASSUME NEW e \in StatusSet, Publish(e)
  PROVE  Says(e)
  BY StatusIs DEF Publish, Says

LEMMA SilentIs ==
  ASSUME Silent
  PROVE  Says(Quiet) /\ ~Answers(Quiet)
  BY DEF Silent, Says, Quiet, StatusSet, Answers

LEMMA PassIs ==
  ASSUME Going, NEW h \in Handles, NEW state \in {"Callback", "Exported"},
         transfers[h[1]].generation = h[2], transfers[h[1]].state # "Free",
         transfers' = [transfers EXCEPT ![h[1]].state = state]
  PROVE  /\ Passes
         /\ transfers'[h[1]] = [state |-> state, generation |-> h[2]]
         /\ \A g \in Handles, q \in {"Queued", "Callback"} :
              g # h /\ transfers[g[1]] = [state |-> q, generation |-> g[2]] =>
                transfers'[g[1]] = [state |-> q, generation |-> g[2]]
<1>1. transfers \in [Transfers -> TransferSet] /\ h[1] \in Transfers /\ h[2] \in Nat
  BY GoingIs, HandleIs
<1>2. \A t \in Transfers : /\ t = h[1] => transfers'[t] = [transfers[t] EXCEPT !.state = state]
                           /\ t # h[1] => transfers'[t] = transfers[t]
                           /\ transfers[t] \in TransferSet
  BY <1>1
<1>3. DOMAIN transfers' = Transfers /\ transfers' = [t \in Transfers |-> transfers'[t]]
  BY <1>1
<1>4. [transfers[h[1]] EXCEPT !.state = state] = [state |-> state, generation |-> h[2]]
  BY <1>1, <1>2 DEF TransferSet
<1>5. transfers'[h[1]] = [state |-> state, generation |-> h[2]]
  BY <1>1, <1>2, <1>4
<1>6. Passes
  <2>1. ASSUME NEW t \in Transfers
        PROVE  /\ transfers'[t] \in TransferSet
               /\ transfers'[t].generation = transfers[t].generation
               /\ transfers'[t].state = "Free" <=> transfers[t].state = "Free"
    BY <1>1, <1>2, <1>5 DEF TransferSet
  <2> QED BY <1>3, <2>1 DEF Passes
<1>7. ASSUME NEW g \in Handles, NEW q, g # h,
             transfers[g[1]] = [state |-> q, generation |-> g[2]]
      PROVE  transfers'[g[1]] = [state |-> q, generation |-> g[2]]
  <2>1. g[1] # h[1]
    BY <1>7, HandleIs
  <2> QED BY <1>2, <1>7, <2>1, HandleIs
<1> QED BY <1>5, <1>6, <1>7

LEMMA LentNext ==
  ASSUME Going, NEW n, Heeds(n),
         \A g \in Handles :
           /\ transfers[g[1]] = [state |-> "Queued", generation |-> g[2]]
           /\ \A i \in DOMAIN commands : i = n /\ Lends(commands[i]) => commands[i].handle # g
           => transfers'[g[1]] = [state |-> "Queued", generation |-> g[2]],
         job' # None =>
           transfers'[job'.handle[1]] = [state |-> "Callback", generation |-> job'.handle[2]]
  PROVE  Lent(Held)'
<1>a. Held'.transfers = transfers' /\ Held'.commands = commands'
  BY DEF Held
<1>1. /\ n \in {0, 1} /\ DOMAIN commands' \subseteq Int
      /\ \A i \in DOMAIN commands' : i + n \in DOMAIN commands /\ commands'[i] = commands[i + n]
  BY GoingIs, HeedsIs
<1>2. DOMAIN commands = 1..Len(commands) /\ \A i \in DOMAIN commands' : i + n # n
  <2>1. \A i \in DOMAIN commands' : i # 0
    <3>1. commands' \in Seq(CommandSet)
      BY GoingIs, HeedsIs
    <3> QED BY <3>1
  <2> QED BY <1>1, <2>1, GoingIs
<1>3. ASSUME NEW i \in DOMAIN commands', Lends(commands'[i])
      PROVE  transfers'[commands'[i].handle[1]] =
               [state |-> "Queued", generation |-> commands'[i].handle[2]]
  <2> DEFINE g == commands[i + n].handle
  <2>1. i + n \in DOMAIN commands /\ commands'[i] = commands[i + n] /\ i + n # n
    BY <1>1, <1>2
  <2>2. g \in Handles /\ transfers[g[1]] = [state |-> "Queued", generation |-> g[2]]
    BY <1>3, <2>1, GoingIs
  <2>3. \A j \in DOMAIN commands : j = n /\ Lends(commands[j]) => commands[j].handle # g
    BY <1>3, <2>1, GoingIs
  <2> QED BY <2>1, <2>2, <2>3
<1>4. ASSUME NEW i \in DOMAIN commands', NEW j \in DOMAIN commands',
             Lends(commands'[i]), Lends(commands'[j]), commands'[i].handle = commands'[j].handle
      PROVE  i = j
  <2>1. i + n = j + n
    BY <1>1, <1>4, GoingIs
  <2>2. i \in Int /\ j \in Int /\ n \in Int
    BY <1>1
  <2>3. \A x, y, z \in Int : x + z = y + z => x = y
    OBVIOUS
  <2> QED BY ONLY <2>1, <2>2, <2>3
<1> QED BY <1>a, <1>3, <1>4 DEF Lent, Is, Lends

\* A command is done with, without a transfer or what is exported being touched.
LEMMA TakenKeeps ==
  ASSUME Going, commands # <<>>, commands' = Tail(commands), UNCHANGED <<r, scene, transfers, job>>,
         Playing', Grows, NEW e, Says(e), ~Answers(e),
         e.kind = "Snapshot" => \A slot \in Slots : SinceNext(slot, e.loops[slot]),
         Lends(Head(commands)) => Head(commands).handle \in lost'
  PROVE  Going'
<1> DEFINE n == 1
<1>1. Heeds(n) /\ \A i \in DOMAIN commands : i = n => commands[i] = Head(commands)
  BY GoingIs DEF Heeds
<1>2. Passes
  BY GoingIs DEF Passes
<1>3. \A i \in DOMAIN commands : i = n /\ Lends(commands[i]) => NamedNext(commands[i].handle)
  BY <1>1 DEF NamedNext
<1>4. job # None => NamedNext(job.handle)
  BY DEF NamedNext
<1>5. job' # None => \A p \in r.pending : job'.handle = p.handle => job'.slot = p.slot
  BY GoingIs
<1>6. /\ \A g \in Handles :
           /\ transfers[g[1]] = [state |-> "Queued", generation |-> g[2]]
           /\ \A i \in DOMAIN commands : i = n /\ Lends(commands[i]) => commands[i].handle # g
           => transfers'[g[1]] = [state |-> "Queued", generation |-> g[2]]
      /\ job' # None =>
           transfers'[job'.handle[1]] = [state |-> "Callback", generation |-> job'.handle[2]]
  BY GoingIs
<1> HIDE DEF n
<1>7. Lent(Held)'
  BY <1>1, <1>6, LentNext
<1>8. e.kind # "LoopExported" /\ e.kind # "LoopImported"
  BY DEF Answers
<1> QED BY <1>1, <1>2, <1>3, <1>4, <1>5, <1>7, <1>8, CallbackKeeps

\* To stop recording keeps every take, or empties the loop that has no audio.
LEMMA StoppedIs ==
  ASSUME Playing
  PROVE  /\ Stopped \in [Slots -> LoopSet]
         /\ \A slot \in Slots :
              /\ Stopped[slot].take = loops[slot].take /\ Stopped[slot].long = loops[slot].long
              /\ loops[slot] \in LoopSet
              /\ Stopped[slot].mode = "Empty" => ~Stopped[slot].long
              /\ Stopped[slot].mode = "Empty" \/ loops[slot].mode # "Empty"
<1>1. \A slot \in Slots : loops[slot] \in LoopSet /\ (loops[slot].mode = "Empty" => ~loops[slot].long)
  BY DEF Playing
<1>2. CASE recording = 0
  BY <1>1, <1>2 DEF Stopped, Playing
<1>3. CASE recording # 0
  <2> DEFINE mode == IF loops[recording].long THEN "Playing" ELSE "Empty"
  <2>1. recording \in Slots /\ loops[recording].mode # "Empty"
    BY <1>3, LibraryBounds DEF Playing, Slots
  <2>2. Stopped = [loops EXCEPT ![recording].mode = mode]
    BY <1>3 DEF Stopped
  <2>3. mode \in {"Playing", "Empty"} /\ (mode = "Empty" <=> ~loops[recording].long)
    BY <1>1, <2>1 DEF LoopSet
  <2> HIDE DEF mode
  <2>4. \A slot \in Slots : Stopped[slot] = IF slot = recording THEN [loops[slot] EXCEPT !.mode = mode]
                                            ELSE loops[slot]
    BY <2>1, <2>2 DEF Playing
  <2>5. ASSUME NEW slot \in Slots
        PROVE  /\ Stopped[slot] \in LoopSet
               /\ Stopped[slot].take = loops[slot].take /\ Stopped[slot].long = loops[slot].long
               /\ Stopped[slot].mode = IF slot = recording THEN mode ELSE loops[slot].mode
    BY <1>1, <2>3, <2>4 DEF LoopSet
  <2>6. Stopped \in [Slots -> LoopSet]
    BY <2>2, <2>5 DEF Playing
  <2> QED BY <1>1, <2>1, <2>3, <2>5, <2>6
<1> QED BY <1>2, <1>3

LEMMA ServeIs ==
  ASSUME Going, commands # <<>>, NEW c, c = Head(commands)
  PROVE  /\ c \in CommandSet /\ 1 \in DOMAIN commands /\ commands[1] = c
         /\ Lends(c) => /\ c.handle \in Handles /\ c.slot \in Slots
                        /\ transfers[c.handle[1]] =
                             [state |-> "Queued", generation |-> c.handle[2]]
<1>1. 1 \in DOMAIN commands /\ commands[1] = c /\ c \in CommandSet
  BY GoingIs
<1> QED BY <1>1, GoingIs, CommandIs

LEMMA AnnounceIs ==
  ASSUME Playing, Announce
  PROVE  \E e : Says(e) /\ ~Answers(e) /\ e.kind # "Snapshot"
<1>1. CASE Completes
  <2> DEFINE e == [kind |-> "LoopCompleted", slot |-> recording]
  <2>1. recording \in Slots
    BY <1>1, LibraryBounds DEF Completes, Playing, Slots
  <2>2. e \in StatusSet /\ ~Answers(e) /\ e.kind # "Snapshot"
    BY <2>1 DEF StatusSet, Answers
  <2>3. Publish(e)
    BY <1>1 DEF Announce
  <2> HIDE DEF e
  <2> QED BY <2>2, <2>3, PublishIs
<1>2. CASE ~Completes
  <2>1. Says(Quiet) /\ ~Answers(Quiet) /\ Quiet.kind # "Snapshot"
    BY <1>2, SilentIs DEF Announce, Quiet
  <2> QED BY <2>1
<1> QED BY <1>1, <1>2

\* The steps of the callback, one by one.
LEMMA RecordStep ==
  ASSUME Going, commands # <<>>, commands' = Tail(commands), UNCHANGED <<r, scene>>,
         NEW slot \in Slots, Head(commands).op = "Record", ApplyRecord(slot),
         job # None => job.slot # slot
  PROVE  Going'
<1> DEFINE x == [mode |-> "Recording", long |-> FALSE, take |-> takes + 1]
<1>0. Playing /\ UNCHANGED <<transfers, job>> /\ takes' = takes + 1 /\ recording' = slot /\
      loops' = [Stopped EXCEPT ![slot] = x] /\ takes \in Nat
  BY GoingIs DEF ApplyRecord, Playing
<1>1. x \in LoopSet /\ x.mode = "Recording" /\ x.take = takes + 1 /\ x.long = FALSE
  BY <1>0 DEF LoopSet
<1> HIDE DEF x
<1>2. loops' \in [Slots -> LoopSet] /\
      \A sl \in Slots : loops'[sl] = IF sl = slot THEN x ELSE Stopped[sl]
  BY <1>0, <1>1, StoppedIs
<1>3. \A sl \in Slots : loops[sl].take \in Nat /\ loops[sl].take <= takes
  BY <1>0 DEF Playing, LoopSet
<1>4. Playing'
  <2>1. \A sl \in Slots : loops'[sl].take <= takes' /\ (loops'[sl].mode = "Empty" => ~loops'[sl].long)
    BY <1>0, <1>1, <1>2, <1>3, StoppedIs
  <2>2. job' # None => job' \in [slot : Slots, handle : Handles, left : Nat] /\ loops'[job'.slot].long
    <3>1. job # None => job \in [slot : Slots, handle : Handles, left : Nat] /\ loops[job.slot].long
      BY <1>0 DEF Playing
    <3> QED BY <1>0, <1>2, <3>1, StoppedIs
  <2>3. recording' \in 0..NSlots /\ loops'[recording'].mode # "Empty" /\ takes' \in Nat
    BY <1>0, <1>1, <1>2, LibraryBounds DEF Slots
  <2> QED BY <1>2, <2>1, <2>2, <2>3 DEF Playing
<1>5. Grows
  <2>1. takes' >= takes /\ takes + 1 > takes
    BY <1>0
  <2>2. \A sl \in Slots : loops[sl].take >= loops[sl].take
    BY <1>3
  <2> QED BY <1>0, <1>1, <1>2, <2>1, <2>2, StoppedIs DEF Grows
<1>6. \E e : Says(e) /\ ~Answers(e) /\ e.kind # "Snapshot"
  BY <1>0, AnnounceIs DEF ApplyRecord
<1>7. ~Lends(Head(commands))
  BY DEF Lends
<1> QED BY <1>0, <1>4, <1>5, <1>6, <1>7, TakenKeeps

LEMMA StopStep ==
  ASSUME Going, commands # <<>>, commands' = Tail(commands), UNCHANGED <<r, scene>>,
         Head(commands).op = "StopRecord", ApplyStopRecord
  PROVE  Going'
<1>0. Playing /\ UNCHANGED <<transfers, job, takes>> /\ recording' = 0 /\ loops' = Stopped /\
      takes \in Nat
  BY GoingIs DEF ApplyStopRecord, Playing
<1>3. \A sl \in Slots : loops[sl].take \in Nat /\ loops[sl].take <= takes
  BY <1>0 DEF Playing, LoopSet
<1>4. Playing'
  <2>1. \A sl \in Slots : loops'[sl].take <= takes' /\ (loops'[sl].mode = "Empty" => ~loops'[sl].long)
    BY <1>0, <1>3, StoppedIs
  <2>2. job' # None => job' \in [slot : Slots, handle : Handles, left : Nat] /\ loops'[job'.slot].long
    <3>1. job # None => job \in [slot : Slots, handle : Handles, left : Nat] /\ loops[job.slot].long
      BY <1>0 DEF Playing
    <3> QED BY <1>0, <3>1, StoppedIs
  <2>3. recording' \in 0..NSlots /\ takes' \in Nat
    BY <1>0, LibraryBounds
  <2> QED BY <1>0, <2>1, <2>2, <2>3, StoppedIs DEF Playing
<1>5. Grows
  <2>1. takes' >= takes /\ \A sl \in Slots : loops[sl].take >= loops[sl].take
    BY <1>0, <1>3
  <2> QED BY <1>0, <2>1, StoppedIs DEF Grows
<1>6. \E e : Says(e) /\ ~Answers(e) /\ e.kind # "Snapshot"
  BY <1>0, AnnounceIs DEF ApplyStopRecord
<1>7. ~Lends(Head(commands))
  BY DEF Lends
<1> QED BY <1>0, <1>4, <1>5, <1>6, <1>7, TakenKeeps

LEMMA EraseStep ==
  ASSUME Going, commands # <<>>, commands' = Tail(commands), UNCHANGED <<r, scene>>,
         NEW slot \in Slots, Head(commands).op = "Erase", ApplyErase(slot),
         job # None => job.slot # slot
  PROVE  Going'
<1>0. /\ Playing /\ UNCHANGED <<transfers, job, takes>> /\ takes \in Nat
      /\ loops' = [loops EXCEPT ![slot] = Empty] /\ loops \in [Slots -> LoopSet]
      /\ recording' = IF recording = slot THEN 0 ELSE recording
  BY GoingIs DEF ApplyErase, Playing
<1>1. Empty \in LoopSet /\ Empty.mode = "Empty" /\ Empty.take = 0 /\ Empty.long = FALSE
  BY DEF LoopSet, Empty
<1>2. loops' \in [Slots -> LoopSet] /\
      \A sl \in Slots : loops'[sl] = IF sl = slot THEN Empty ELSE loops[sl]
  BY <1>0, <1>1
<1>3. \A sl \in Slots : loops[sl].take \in Nat /\ loops[sl].take <= takes
  BY <1>0 DEF Playing, LoopSet
<1>4. Playing'
  <2>1. \A sl \in Slots : loops'[sl].take <= takes' /\ (loops'[sl].mode = "Empty" => ~loops'[sl].long)
    BY <1>0, <1>1, <1>2, <1>3 DEF Playing
  <2>2. job' # None => job' \in [slot : Slots, handle : Handles, left : Nat] /\ loops'[job'.slot].long
    <3>1. job # None => job \in [slot : Slots, handle : Handles, left : Nat] /\ loops[job.slot].long
      BY <1>0 DEF Playing
    <3> QED BY <1>0, <1>2, <3>1
  <2>3. recording' \in 0..NSlots /\ takes' \in Nat
    BY <1>0, LibraryBounds DEF Playing
  <2>4. recording' # 0 => loops'[recording'].mode # "Empty"
    <3>1. recording' # 0 => recording' = recording /\ recording # slot /\ recording \in Slots
      BY <1>0, LibraryBounds DEF Playing, Slots
    <3> QED BY <1>0, <1>2, <3>1 DEF Playing
  <2> QED BY <1>2, <2>1, <2>2, <2>3, <2>4 DEF Playing
<1>5. Grows
  <2>1. takes' >= takes /\ \A sl \in Slots : loops[sl].take >= loops[sl].take
    BY <1>0, <1>3
  <2> QED BY <1>1, <1>2, <2>1 DEF Grows
<1>6. Says(Quiet) /\ ~Answers(Quiet) /\ Quiet.kind # "Snapshot"
  BY SilentIs DEF ApplyErase, Quiet
<1>7. ~Lends(Head(commands))
  BY DEF Lends
<1> QED BY <1>0, <1>4, <1>5, <1>6, <1>7, TakenKeeps

\* What is played and recorded does not change.
LEMMA SamePlaying ==
  ASSUME Playing, UNCHANGED <<loops, recording, takes, job>>
  PROVE  Playing' /\ Grows
<1>1. \A sl \in Slots : loops[sl].take >= loops[sl].take
  BY DEF Playing, LoopSet
<1>2. takes >= takes
  BY DEF Playing
<1> QED BY <1>1, <1>2 DEF Playing, Grows

LEMMA SnapshotStep ==
  ASSUME Going, commands # <<>>, commands' = Tail(commands), UNCHANGED <<r, scene>>,
         Head(commands).op = "Snapshot", ApplySnapshot
  PROVE  Going'
<1> DEFINE e == [kind |-> "Snapshot", loops |-> Contents]
<1>0. /\ Playing /\ UNCHANGED <<transfers, loops, recording, job, takes>> /\ Publish(e)
      /\ takes \in Nat /\ \A sl \in Slots : loops[sl].take \in Nat /\ loops[sl].take <= takes
  BY GoingIs DEF ApplySnapshot, Playing, LoopSet
<1>1. Playing' /\ Grows
  BY <1>0, SamePlaying
<1>2. Contents \in [Slots -> Nat] /\
      \A sl \in Slots : Contents[sl] = IF loops[sl].mode = "Empty" THEN 0 ELSE loops[sl].take
  BY <1>0 DEF Contents
<1>3. \A sl \in Slots : SinceNext(sl, Contents[sl])
  <2>1. takes >= 0 /\ 0 <= takes /\ \A sl \in Slots : loops[sl].take >= loops[sl].take
    BY <1>0
  <2> QED BY <1>0, <1>2, <2>1 DEF SinceNext
<1>4. e \in StatusSet /\ ~Answers(e) /\ e.loops = Contents
  BY <1>2 DEF StatusSet, Answers
<1> HIDE DEF e
<1>5. Says(e)
  BY <1>0, <1>4, PublishIs
<1>6. ~Lends(Head(commands))
  BY DEF Lends
<1> QED BY <1>0, <1>1, <1>3, <1>4, <1>5, <1>6, TakenKeeps

LEMMA RejectStep ==
  ASSUME Going, commands # <<>>, commands' = Tail(commands), UNCHANGED <<r, scene>>,
         NEW slot, Mutates(Head(commands), slot), Reject(Head(commands))
  PROVE  Going'
<1>0. Playing /\ UNCHANGED <<transfers, loops, recording, job, takes>>
  BY GoingIs DEF Reject
<1>1. Playing' /\ Grows
  BY <1>0, SamePlaying
<1>2. Says(Quiet) /\ ~Answers(Quiet) /\ Quiet.kind # "Snapshot"
  BY DEF Reject, Says, Quiet, StatusSet, Answers
<1>3. Lends(Head(commands)) => Head(commands).handle \in lost'
  BY DEF Lends, Mutates, Reject
<1> QED BY <1>0, <1>1, <1>2, <1>3, TakenKeeps

LEMMA ImportStep ==
  ASSUME Going, commands # <<>>, commands' = Tail(commands), UNCHANGED <<r, scene>>,
         Head(commands).op = "Import", ApplyImport(Head(commands))
  PROVE  Going'
<1> DEFINE c == Head(commands)
           x == [mode |-> "Playing", long |-> TRUE, take |-> takes + 1]
           e == [kind |-> "LoopImported", handle |-> c.handle]
           n == 1
<1>0. /\ Playing /\ UNCHANGED <<recording, job>> /\ takes' = takes + 1 /\ Publish(e)
      /\ transfers' = [transfers EXCEPT ![c.handle[1]].state = "Exported"]
      /\ loops' = [loops EXCEPT ![c.slot] = x] /\ takes \in Nat /\ loops \in [Slots -> LoopSet]
  BY GoingIs DEF ApplyImport, Give, Playing
<1>a. Lends(c) /\ c.op = "Import"
  BY DEF Lends
<1>b. /\ c.handle \in Handles /\ c.slot \in Slots /\ 1 \in DOMAIN commands /\ commands[1] = c
      /\ transfers[c.handle[1]] = [state |-> "Queued", generation |-> c.handle[2]]
  BY <1>a, ServeIs
<1>c. c.handle[1] \in Transfers /\ transfers[c.handle[1]].generation = c.handle[2] /\
      transfers[c.handle[1]].state # "Free" /\ c.handle[2] \in Nat
  BY <1>b, HandleIs
<1>d. x \in LoopSet /\ x.mode = "Playing" /\ x.take = takes + 1 /\ x.long = TRUE
  BY <1>0 DEF LoopSet
<1> HIDE DEF x
<1>2. loops' \in [Slots -> LoopSet] /\
      \A sl \in Slots : loops'[sl] = IF sl = c.slot THEN x ELSE loops[sl]
  BY <1>0, <1>b, <1>d
<1>3. \A sl \in Slots : loops[sl].take \in Nat /\ loops[sl].take <= takes
  BY <1>0 DEF Playing, LoopSet
<1>4. Playing'
  <2>1. \A sl \in Slots : loops'[sl].take <= takes' /\ (loops'[sl].mode = "Empty" => ~loops'[sl].long)
    BY <1>0, <1>d, <1>2, <1>3 DEF Playing
  <2>2. job' # None => job' \in [slot : Slots, handle : Handles, left : Nat] /\ loops'[job'.slot].long
    <3>1. job # None => job \in [slot : Slots, handle : Handles, left : Nat] /\ loops[job.slot].long
      BY <1>0 DEF Playing
    <3> QED BY <1>0, <1>2, <1>d, <3>1
  <2>3. recording' \in 0..NSlots /\ takes' \in Nat
    BY <1>0 DEF Playing
  <2>4. recording' # 0 => loops'[recording'].mode # "Empty"
    <3>1. recording' # 0 => recording' = recording /\ recording \in Slots
      BY <1>0, LibraryBounds DEF Playing, Slots
    <3> QED BY <1>0, <1>2, <1>d, <3>1 DEF Playing
  <2> QED BY <1>2, <2>1, <2>2, <2>3, <2>4 DEF Playing
<1>5. Grows
  <2>1. takes' >= takes /\ takes + 1 > takes /\ \A sl \in Slots : loops[sl].take >= loops[sl].take
    BY <1>0, <1>3
  <2> QED BY <1>d, <1>2, <2>1 DEF Grows
<1>6. /\ e \in StatusSet /\ Answers(e) /\ e.handle = c.handle /\ e.kind = "LoopImported"
  BY <1>b DEF StatusSet, Answers
<1> HIDE DEF e, c
<1>7. Says(e)
  BY <1>0, <1>6, PublishIs
<1>8. /\ Passes
      /\ \A g \in Handles, q \in {"Queued", "Callback"} :
              g # c.handle /\ transfers[g[1]] = [state |-> q, generation |-> g[2]] =>
                transfers'[g[1]] = [state |-> q, generation |-> g[2]]
  BY <1>0, <1>b, <1>c, PassIs
<1>9. Heeds(n) /\ \A i \in DOMAIN commands : i = n => commands[i] = c
  BY <1>b DEF Heeds, c
<1>10. Lent(Held)'
  <2>1. ASSUME NEW g \in Handles,
               transfers[g[1]] = [state |-> "Queued", generation |-> g[2]],
               \A i \in DOMAIN commands : i = n /\ Lends(commands[i]) => commands[i].handle # g
        PROVE  transfers'[g[1]] = [state |-> "Queued", generation |-> g[2]]
    <3>1. g # c.handle
      BY <1>a, <1>b, <2>1 DEF c
    <3> QED BY <1>8, <2>1, <3>1
  <2>2. job' # None =>
          transfers'[job'.handle[1]] = [state |-> "Callback", generation |-> job'.handle[2]]
    <3>1. job # None => /\ job.handle \in Handles
                        /\ transfers[job.handle[1]] =
                             [state |-> "Callback", generation |-> job.handle[2]]
      BY GoingIs
    <3>2. job # None => job.handle # c.handle
      <4>1. transfers[c.handle[1]].state = "Queued"
        BY <1>b
      <4>2. job # None => transfers[job.handle[1]].state = "Callback"
        BY <3>1
      <4> QED BY <4>1, <4>2
    <3> QED BY <1>0, <1>8, <3>1, <3>2
  <2> HIDE DEF n
  <2> QED BY <1>9, <2>1, <2>2, LentNext
<1>11. NamedNext(c.handle)
  BY <1>6, <1>7, GoingIs, SaysIs DEF NamedNext
<1>12. \A i \in DOMAIN commands : i = n /\ Lends(commands[i]) => NamedNext(commands[i].handle)
  BY <1>9, <1>11
<1>13. job # None => NamedNext(job.handle)
  BY <1>0 DEF NamedNext
<1>14. /\ Answers(e) => e.handle[2] <= transfers[e.handle[1]].generation
       /\ e.kind = "LoopImported" => \A p \in r.pending : p.handle # e.handle
       /\ e.kind = "LoopExported" => \A p \in r.pending : p.handle = e.handle =>
                                      loops[p.slot].mode # "Empty" /\ e.take = loops[p.slot].take
       /\ e.kind = "Snapshot" => \A sl \in Slots : SinceNext(sl, e.loops[sl])
  <2>1. \A p \in r.pending : p.handle # c.handle
    BY <1>a, <1>b, GoingIs
  <2>2. c.handle[2] <= c.handle[2]
    BY <1>c
  <2> QED BY <1>6, <1>c, <2>1, <2>2
<1>15. job' # None => \A p \in r.pending : job'.handle = p.handle => job'.slot = p.slot
  BY <1>0, GoingIs
<1> HIDE DEF n
<1> QED BY <1>4, <1>5, <1>7, <1>8, <1>9, <1>10, <1>12, <1>13, <1>14, <1>15, CallbackKeeps

LEMMA ExportStep ==
  ASSUME Going, commands # <<>>, commands' = Tail(commands), UNCHANGED <<r, scene>>,
         Head(commands).op = "Export", ApplyExport(Head(commands))
  PROVE  Going'
<1> DEFINE c == Head(commands)
           n == 1
           begins == job = None /\ Exportable(c.slot)
           state == IF begins THEN "Callback" ELSE "Exported"
           e == IF begins THEN Quiet ELSE [kind |-> "TransferError", handle |-> c.handle]
           begun == [slot |-> c.slot, handle |-> c.handle, left |-> CopyBlocks]
<1>a. Lends(c) /\ c.op = "Export"
  BY DEF Lends
<1>b. /\ c.handle \in Handles /\ c.slot \in Slots /\ 1 \in DOMAIN commands /\ commands[1] = c
      /\ transfers[c.handle[1]] = [state |-> "Queued", generation |-> c.handle[2]]
  BY <1>a, ServeIs
<1>c. c.handle[1] \in Transfers /\ transfers[c.handle[1]].generation = c.handle[2] /\
      transfers[c.handle[1]].state # "Free" /\ c.handle[2] \in Nat
  BY <1>b, HandleIs
<1>0. /\ Playing /\ UNCHANGED <<loops, recording, takes>>
      /\ transfers' = [transfers EXCEPT ![c.handle[1]].state = state]
      /\ job' = (IF begins THEN begun ELSE job)
  BY GoingIs DEF ApplyExport, Give
<1>d. Says(e) /\ e.kind \in {"CommandRejected", "TransferError"} /\
      (Answers(e) => ~begins /\ e.handle = c.handle) /\ (~begins => Answers(e))
  <2>1. CASE begins
    <3>1. Silent /\ e = Quiet
      BY <2>1 DEF ApplyExport
    <3> HIDE DEF e
    <3> QED BY <2>1, <3>1, SilentIs DEF Quiet
  <2>2. CASE ~begins
    <3>1. e = [kind |-> "TransferError", handle |-> c.handle] /\ Publish(e)
      BY <2>2 DEF ApplyExport
    <3>2. e \in StatusSet /\ Answers(e) /\ e.handle = c.handle /\ e.kind = "TransferError"
      BY <1>b, <3>1 DEF StatusSet, Answers
    <3> HIDE DEF e
    <3> QED BY <2>2, <3>1, <3>2, PublishIs
  <2> QED BY <2>1, <2>2
<1>e. begun.slot = c.slot /\ begun.handle = c.handle /\ begun # None /\
      begun \in [slot : Slots, handle : Handles, left : Nat]
  <2>1. DOMAIN begun = {"slot", "handle", "left"} /\ DOMAIN None = {"none"}
    BY DEF None
  <2>2. begun # None
    BY <2>1
  <2> QED BY <1>b, <2>2, LibraryBounds
<1>f. begins => job = None /\ loops[c.slot].long
  BY DEF Exportable
<1> state \in {"Callback", "Exported"} /\ (begins <=> state = "Callback")
  OBVIOUS
<1> HIDE DEF begins, state, e, begun, c
<1>1. Playing' /\ Grows
  <2>1. job' # None => job' \in [slot : Slots, handle : Handles, left : Nat] /\ loops'[job'.slot].long
    <3>1. job # None => job \in [slot : Slots, handle : Handles, left : Nat] /\ loops[job.slot].long
      BY <1>0 DEF Playing
    <3> QED BY <1>0, <1>e, <1>f, <3>1
  <2>2. takes >= takes /\ \A sl \in Slots : loops[sl].take >= loops[sl].take
    BY <1>0 DEF Playing, LoopSet
  <2>3. Grows
    BY <1>0, <2>2 DEF Grows
  <2>4. Playing'
    BY <1>0, <2>1 DEF Playing
  <2> QED BY <2>3, <2>4
<1>2. /\ Passes
      /\ transfers'[c.handle[1]] = [state |-> state, generation |-> c.handle[2]]
      /\ \A g \in Handles, q \in {"Queued", "Callback"} :
              g # c.handle /\ transfers[g[1]] = [state |-> q, generation |-> g[2]] =>
                transfers'[g[1]] = [state |-> q, generation |-> g[2]]
  BY <1>0, <1>b, <1>c, PassIs
<1>3. Heeds(n) /\ \A i \in DOMAIN commands : i = n => commands[i] = c
  BY <1>b DEF Heeds, c
<1>4. Lent(Held)'
  <2>1. ASSUME NEW g \in Handles,
               transfers[g[1]] = [state |-> "Queued", generation |-> g[2]],
               \A i \in DOMAIN commands : i = n /\ Lends(commands[i]) => commands[i].handle # g
        PROVE  transfers'[g[1]] = [state |-> "Queued", generation |-> g[2]]
    <3>1. g # c.handle
      BY <1>a, <1>b, <2>1
    <3> QED BY <1>2, <2>1, <3>1
  <2>2. job' # None =>
          transfers'[job'.handle[1]] = [state |-> "Callback", generation |-> job'.handle[2]]
    <3>1. CASE begins
      BY <1>0, <1>2, <1>e, <3>1
    <3>2. CASE ~begins
      <4>1. job # None => /\ job.handle \in Handles
                          /\ transfers[job.handle[1]] =
                               [state |-> "Callback", generation |-> job.handle[2]]
        BY GoingIs
      <4>2. job # None => job.handle # c.handle
        <5>1. transfers[c.handle[1]].state = "Queued"
          BY <1>b
        <5>2. job # None => transfers[job.handle[1]].state = "Callback"
          BY <4>1
        <5> QED BY <5>1, <5>2
      <4> QED BY <1>0, <1>2, <3>2, <4>1, <4>2
    <3> QED BY <3>1, <3>2
  <2> HIDE DEF n
  <2> QED BY <1>3, <2>1, <2>2, LentNext
<1>5. NamedNext(c.handle)
  <2>1. CASE begins
    BY <1>0, <1>e, <2>1 DEF NamedNext
  <2>2. CASE ~begins
    BY <1>d, <2>2, GoingIs, SaysIs DEF NamedNext
  <2> QED BY <2>1, <2>2
<1>6. \A i \in DOMAIN commands : i = n /\ Lends(commands[i]) => NamedNext(commands[i].handle)
  BY <1>3, <1>5
<1>7. job # None => NamedNext(job.handle)
  BY <1>0, <1>f DEF NamedNext
<1>8. /\ Answers(e) => e.handle[2] <= transfers[e.handle[1]].generation
      /\ e.kind # "LoopImported" /\ e.kind # "LoopExported" /\ e.kind # "Snapshot"
  <2>1. c.handle[2] <= c.handle[2]
    BY <1>c
  <2> QED BY <1>d, <1>c, <2>1
<1>9. job' # None => \A p \in r.pending : job'.handle = p.handle => job'.slot = p.slot
  BY <1>0, <1>a, <1>b, <1>e, GoingIs
<1> HIDE DEF n
<1> QED BY <1>1, <1>2, <1>3, <1>4, <1>6, <1>7, <1>8, <1>9, <1>d, CallbackKeeps

LEMMA ServeStep ==
  ASSUME Going, Serve
  PROVE  Going' /\ scene' = scene
<1> DEFINE c == Head(commands)
<1>0. commands # <<>> /\ commands' = Tail(commands) /\ UNCHANGED <<r, scene>> /\ ApplyCommand(c)
  BY DEF Serve
<1>1. c \in CommandSet
  BY <1>0, ServeIs
<1>2. CASE job # None /\ Mutates(c, job.slot)
  <2>1. Reject(c)
    BY <1>0, <1>2 DEF ApplyCommand
  <2> QED BY <1>0, <1>2, <2>1, RejectStep
<1>3. CASE ~(job # None /\ Mutates(c, job.slot))
  <2>0. /\ job # None /\ c.op \in {"Record", "Erase"} => job.slot # c.slot
        /\ \/ c.op = "Record" /\ ApplyRecord(c.slot)
           \/ c.op = "StopRecord" /\ ApplyStopRecord
           \/ c.op = "Erase" /\ ApplyErase(c.slot)
           \/ c.op = "Import" /\ ApplyImport(c)
           \/ c.op = "Export" /\ ApplyExport(c)
           \/ c.op = "Snapshot" /\ ApplySnapshot
    BY <1>0, <1>3 DEF ApplyCommand, Mutates
  <2>1. CASE c.op = "Record" /\ ApplyRecord(c.slot)
    <3>1. c.slot \in Slots
      BY <1>1, <2>1, CommandIs
    <3> QED BY <1>0, <2>0, <2>1, <3>1, RecordStep
  <2>2. CASE c.op = "StopRecord" /\ ApplyStopRecord
    BY <1>0, <2>2, StopStep
  <2>3. CASE c.op = "Erase" /\ ApplyErase(c.slot)
    <3>1. c.slot \in Slots
      BY <1>1, <2>3, CommandIs
    <3> QED BY <1>0, <2>0, <2>3, <3>1, EraseStep
  <2>4. CASE c.op = "Import" /\ ApplyImport(c)
    BY <1>0, <2>4, ImportStep
  <2>5. CASE c.op = "Export" /\ ApplyExport(c)
    BY <1>0, <2>5, ExportStep
  <2>6. CASE c.op = "Snapshot" /\ ApplySnapshot
    BY <1>0, <2>6, SnapshotStep
  <2> QED BY <1>0, <2>0, <2>1, <2>2, <2>3, <2>4, <2>5, <2>6
<1> QED BY <1>0, <1>2, <1>3

LEMMA RenderStep ==
  ASSUME Going, Render
  PROVE  Going' /\ scene' = scene
<1> DEFINE n == 0
           ends == job # None /\ ~(job.left > 1)
           e == IF ends THEN [kind |-> "LoopExported", handle |-> job.handle,
                              take |-> loops[job.slot].take]
                ELSE Quiet
<1>0. /\ Playing /\ UNCHANGED <<r, scene, commands, recording, takes>> /\ Copied
      /\ loops' = (IF recording = 0 THEN loops ELSE [loops EXCEPT ![recording].long = TRUE])
      /\ loops \in [Slots -> LoopSet] /\ takes \in Nat
  BY GoingIs DEF Render, Playing
<1>a. job # None =>
        /\ job \in [slot : Slots, handle : Handles, left : Nat] /\ loops[job.slot].long
        /\ job.handle \in Handles /\ job.slot \in Slots /\ job.left \in Nat
        /\ loops[job.slot].take \in Nat /\ loops[job.slot].mode # "Empty"
        /\ transfers[job.handle[1]] = [state |-> "Callback", generation |-> job.handle[2]]
        /\ job.handle[1] \in Transfers /\ job.handle[2] \in Nat
  <2>1. job # None =>
          /\ job \in [slot : Slots, handle : Handles, left : Nat] /\ loops[job.slot].long
          /\ job.handle \in Handles /\ job.slot \in Slots /\ job.left \in Nat
    BY <1>0 DEF Playing
  <2>2. \A sl \in Slots : loops[sl].take \in Nat /\ (loops[sl].mode = "Empty" => ~loops[sl].long)
    BY <1>0 DEF Playing, LoopSet
  <2> QED BY <2>1, <2>2, GoingIs, HandleIs
<1>b. \A sl \in Slots :
        /\ loops'[sl].take = loops[sl].take /\ loops'[sl].mode = loops[sl].mode
        /\ loops'[sl].long = IF sl = recording THEN TRUE ELSE loops[sl].long
        /\ loops'[sl] \in LoopSet
  <2>1. \A sl \in Slots : loops'[sl] = IF sl = recording THEN [loops[sl] EXCEPT !.long = TRUE]
                                       ELSE loops[sl]
    <3>1. \A sl \in Slots : sl # 0
      BY DEF Slots
    <3>2. CASE recording = 0
      BY <1>0, <3>1, <3>2
    <3>3. CASE recording # 0
      BY <1>0, <3>3
    <3> QED BY <3>2, <3>3
  <2>2. \A sl \in Slots : loops[sl] \in LoopSet
    BY <1>0
  <2> QED BY <2>1, <2>2 DEF LoopSet
<1>c. loops' \in [Slots -> LoopSet]
  BY <1>0, <1>b
<1>d. \/ job = None /\ Silent /\ job' = None /\ transfers' = transfers
      \/ /\ job # None /\ ~ends /\ Silent /\ transfers' = transfers
         /\ job' = [job EXCEPT !.left = job.left - 1] /\ job.left > 1
      \/ /\ ends /\ job' = None /\ Publish(e)
         /\ transfers' = [transfers EXCEPT ![job.handle[1]].state = "Exported"]
  BY <1>0 DEF Copied, Give
<1>e. job' # None => /\ job # None /\ job' \in [slot : Slots, handle : Handles, left : Nat]
                     /\ job'.slot = job.slot /\ job'.handle = job.handle
  <2>1. CASE job # None /\ job' = [job EXCEPT !.left = job.left - 1] /\ job.left > 1
    <3>1. job.left - 1 \in Nat
      BY <1>a, <2>1
    <3> QED BY <1>a, <2>1, <3>1
  <2> QED BY <1>d, <2>1
<1>1. Playing'
  <2>1. \A sl \in Slots : loops'[sl].take <= takes' /\ (loops'[sl].mode = "Empty" => ~loops'[sl].long)
    BY <1>0, <1>b DEF Playing
  <2>2. job' # None => job' \in [slot : Slots, handle : Handles, left : Nat] /\ loops'[job'.slot].long
    BY <1>a, <1>b, <1>e
  <2>3. recording # 0 => recording \in Slots
    BY <1>0, LibraryBounds DEF Playing, Slots
  <2>4. recording' # 0 => loops'[recording'].mode # "Empty"
    BY <1>0, <1>b, <2>3 DEF Playing
  <2> QED BY <1>0, <1>c, <2>1, <2>2, <2>4 DEF Playing
<1>2. Grows
  <2>1. takes' >= takes /\ \A sl \in Slots : loops[sl].take >= loops[sl].take
    BY <1>0 DEF Playing, LoopSet
  <2> QED BY <1>b, <2>1 DEF Grows
<1>3. Heeds(n) /\ \A i \in DOMAIN commands : i # n
  BY <1>0, GoingIs DEF Heeds
<1>4. CASE ~ends
  <2>1. Silent /\ e = Quiet /\ transfers' = transfers /\ (job # None => job' # None) /\ ~ends
    <3>1. Silent /\ transfers' = transfers
      BY <1>4, <1>d
    <3>2. job # None => job' # None
      <4>1. ASSUME job # None PROVE DOMAIN job' = {"slot", "handle", "left"}
        BY <1>4, <1>a, <1>d, <4>1
      <4>2. DOMAIN None = {"none"}
        BY DEF None
      <4>3. {"slot", "handle", "left"} # {"none"}
        OBVIOUS
      <4> QED BY <4>1, <4>2, <4>3
    <3> QED BY <1>4, <3>1, <3>2
  <2> HIDE DEF e, ends
  <2>2. Says(e) /\ ~Answers(e) /\ e.kind = "CommandRejected"
    BY <2>1, SilentIs DEF Quiet
  <2>3. Passes
    BY <2>1, GoingIs DEF Passes
  <2>4. Lent(Held)'
    <3>1. \A g \in Handles :
            /\ transfers[g[1]] = [state |-> "Queued", generation |-> g[2]]
            /\ \A i \in DOMAIN commands : i = n /\ Lends(commands[i]) => commands[i].handle # g
            => transfers'[g[1]] = [state |-> "Queued", generation |-> g[2]]
      BY <2>1
    <3>2. job' # None =>
           transfers'[job'.handle[1]] = [state |-> "Callback", generation |-> job'.handle[2]]
      BY <1>a, <1>e, <2>1
    <3> HIDE DEF n
    <3> QED BY <1>3, <3>1, <3>2, LentNext
  <2>5. job # None => NamedNext(job.handle)
    BY <1>e, <2>1 DEF NamedNext
  <2>6. job' # None => \A p \in r.pending : job'.handle = p.handle => job'.slot = p.slot
    BY <1>e, GoingIs
  <2>7. e.kind # "LoopExported" /\ e.kind # "LoopImported" /\ e.kind # "Snapshot"
    BY <2>2
  <2>8. \A i \in DOMAIN commands : i = n /\ Lends(commands[i]) => NamedNext(commands[i].handle)
    BY <1>3
  <2> HIDE DEF n
  <2>9. Going'
    BY <1>0, <1>1, <1>2, <1>3, <2>2, <2>3, <2>4, <2>5, <2>6, <2>7, <2>8, CallbackKeeps
  <2> QED BY <1>0, <2>9
<1>5. CASE ends
  <2>1. /\ job # None /\ job' = None /\ Publish(e)
        /\ transfers' = [transfers EXCEPT ![job.handle[1]].state = "Exported"]
    BY <1>5, <1>d
  <2>2. /\ e.kind = "LoopExported" /\ e.handle = job.handle /\ e.take = loops[job.slot].take
        /\ e \in StatusSet /\ Answers(e)
    <3>1. e = [kind |-> "LoopExported", handle |-> job.handle, take |-> loops[job.slot].take]
      BY <1>5
    <3>2. job.handle \in Handles /\ loops[job.slot].take \in Nat
      BY <1>a, <2>1
    <3> QED BY <3>1, <3>2 DEF StatusSet, Answers
  <2> HIDE DEF e, ends
  <2>3. Says(e)
    BY <2>1, <2>2, PublishIs
  <2> DEFINE h == job.handle
  <2>4. /\ h \in Handles /\ transfers[h[1]].generation = h[2] /\ transfers[h[1]].state # "Free"
        /\ transfers[h[1]].state = "Callback" /\ h[2] \in Nat
    BY <1>a, <2>1
  <2>5. /\ Passes
        /\ \A g \in Handles, q \in {"Queued", "Callback"} :
              g # h /\ transfers[g[1]] = [state |-> q, generation |-> g[2]] =>
                transfers'[g[1]] = [state |-> q, generation |-> g[2]]
    <3> transfers' = [transfers EXCEPT ![h[1]].state = "Exported"]
      BY <2>1
    <3> HIDE DEF h
    <3> QED BY <2>4, PassIs
  <2>6. Lent(Held)'
    <3>1. ASSUME NEW g \in Handles, transfers[g[1]] = [state |-> "Queued", generation |-> g[2]]
          PROVE  transfers'[g[1]] = [state |-> "Queued", generation |-> g[2]]
      <4>1. transfers[g[1]].state = "Queued"
        BY <3>1
      <4>2. g # h
        BY <2>4, <4>1
      <4> QED BY <2>5, <3>1, <4>2
    <3> HIDE DEF n
    <3> QED BY <1>3, <2>1, <3>1, LentNext
  <2>7. NamedNext(h)
    BY <2>2, <2>3, GoingIs, SaysIs DEF NamedNext
  <2>8. /\ e.handle[2] <= transfers[e.handle[1]].generation
        /\ \A p \in r.pending : p.handle = e.handle =>
             loops[p.slot].mode # "Empty" /\ e.take = loops[p.slot].take
    <3>1. h[2] <= h[2]
      BY <2>4
    <3>2. \A p \in r.pending : p.handle = h => job.slot = p.slot
      BY <2>1, GoingIs
    <3> QED BY <1>a, <2>1, <2>2, <2>4, <3>1, <3>2
  <2>9. \A i \in DOMAIN commands : i = n /\ Lends(commands[i]) => NamedNext(commands[i].handle)
    BY <1>3
  <2> HIDE DEF n
  <2>10. e.kind # "LoopImported" /\ e.kind # "Snapshot"
    BY <2>2
  <2>11. Going'
    BY <1>0, <1>1, <1>2, <1>3, <2>1, <2>3, <2>5, <2>6, <2>7, <2>8, <2>9, <2>10, CallbackKeeps
  <2> QED BY <1>0, <2>11
<1> QED BY <1>4, <1>5

--------------------------------------------------------------------------
(* The theorems                                                            *)

LEMMA NothingMoves ==
  ASSUME Going, UNCHANGED <<r, transfers, commands, statuses, loops, recording, job, takes, lost,
                            scene>>
  PROVE  Going' /\ scene' = scene
<1>1. Held' = Held
  BY DEF Held
<1>2. Good(Held', DOMAIN statuses, {})
  BY <1>1 DEF Going
<1>3. Good(Held, DOMAIN statuses, {})'
  BY <1>2, StaysGood
<1> QED BY <1>3 DEF Going, Playing, Published, Since, Known

\* The invariant holds initially, and every step keeps it and what the scene file says.
LEMMA LibraryStarts ==
  ASSUME Init
  PROVE  LibraryInv /\ Whole(scene)
<1>a. /\ Held.pending = {} /\ Held.queued = <<>> /\ Held.imports = {} /\ Held.importQueue = <<>>
      /\ Held.hashes = [slot \in Slots |-> 0] /\ Held.save = None
      /\ Held.transfers = [t \in Transfers |-> [state |-> "Free", generation |-> 0]]
      /\ Held.commands = <<>> /\ DOMAIN Held = Fields
  BY DEF Init, Held, Fields
<1>b. statuses = <<>> /\ job = None /\ DOMAIN statuses = {} /\ DOMAIN Held.commands = {}
  BY <1>a DEF Init
<1>1. Shape(Held)
  <2>1. [state |-> "Free", generation |-> 0] \in TransferSet
    BY DEF TransferSet
  <2> QED BY <1>a, <2>1 DEF Shape
<1>2. Lent(Held) /\ Past(Held) /\ Homeward(Held, DOMAIN statuses)
  BY <1>a, <1>b DEF Lent, Past, Homeward
<1>3. Exporting(Held) /\ Waited(Held, {}) /\ Moving(Held)
  BY <1>a DEF Exporting, Waited, Saving, Moving
<1>4. Playing
  <2>1. Empty \in LoopSet /\ Empty.mode = "Empty" /\ Empty.take = 0 /\ Empty.long = FALSE
    BY DEF LoopSet, Empty
  <2>2. loops = [slot \in Slots |-> Empty] /\ recording = 0 /\ takes = 0 /\ job = None
    BY DEF Init
  <2> HIDE DEF Empty
  <2> QED BY <2>1, <2>2, LibraryBounds DEF Playing
<1>5. Published
  BY <1>b DEF Published
<1>6. Known
  BY DEF Init, Known, Fields
<1> QED BY <1>1, <1>2, <1>3, <1>4, <1>5, <1>6 DEF LibraryInv, Going, Good, Sound, Whole, Init

LEMMA LibraryKeeps ==
  ASSUME LibraryInv, Whole(scene), [Next]_vars
  PROVE  LibraryInv' /\ Whole(scene')
<1>1. CASE UNCHANGED vars
  <2>1. running => Going'
    BY <1>1, NothingMoves DEF vars, LibraryInv
  <2> QED BY <1>1, <2>1 DEF vars, LibraryInv
<1>2. CASE Next
  <2>0. running /\ Going
    BY <1>2 DEF LibraryInv, Next, EventLoop, Callback, Idle, Dispatch, StartLoad, FinishLoad,
                Drain, Serve, EndDrain, Render
  <2>1. ASSUME NEW due \in BOOLEAN, Idle(due) PROVE Going' /\ scene' = scene
    BY <2>0, <2>1, IdleStep
  <2>2. ASSUME NEW action \in UserActions \ {"LoadScene"}, NEW slot \in Slots,
               NEW due \in BOOLEAN, Dispatch(action, slot, due)
        PROVE  Going' /\ scene' = scene
    BY <2>0, <2>2, DispatchStep
  <2>3. ASSUME StartLoad PROVE Going' /\ scene' = scene
    BY <2>0, <2>3, StartLoadStep
  <2>4. ASSUME NEW due \in BOOLEAN, NEW disk \in DiskOutcomes, FinishLoad(due, disk)
        PROVE  Going' /\ scene' = scene
    BY <2>0, <2>4, FinishLoadStep
  <2>5. ASSUME NEW disk \in DiskOutcomes, Drain(disk)
        PROVE  LibraryInv' /\ Whole(scene')
    BY <2>0, <2>5, DrainStep
  <2>6. ASSUME Serve PROVE Going' /\ scene' = scene
    BY <2>0, <2>6, ServeStep
  <2>7. ASSUME EndDrain PROVE Going' /\ scene' = scene
    BY <2>0, <2>7, NothingMoves DEF EndDrain
  <2>8. ASSUME Render PROVE Going' /\ scene' = scene
    BY <2>0, <2>8, RenderStep
  <2>9. (Going' /\ scene' = scene) => LibraryInv' /\ Whole(scene')
    BY DEF LibraryInv
  <2>10. CASE EventLoop
    BY <2>1, <2>2, <2>3, <2>4, <2>5, <2>9, <2>10 DEF EventLoop
  <2>11. CASE Callback
    BY <2>6, <2>7, <2>8, <2>9, <2>11 DEF Callback
  <2> QED BY <1>2, <2>10, <2>11 DEF Next
<1> QED BY <1>1, <1>2

\* The scene that was last written is whole.
SceneKept == Whole(scene)

LEMMA LibraryStays == Spec => [](LibraryInv /\ SceneKept)
<1>1. Init => LibraryInv /\ SceneKept
  BY LibraryStarts DEF SceneKept
<1>2. LibraryInv /\ SceneKept /\ [Next]_vars => (LibraryInv /\ SceneKept)'
  BY LibraryKeeps DEF SceneKept
<1> QED BY <1>1, <1>2, PTL DEF Spec

\* Every transfer of the pool that is in use is named by what will give it back, in a command,
\* in the export under way or in a status, or its answer is among those the callback could not
\* publish: whatever the number of transfers, and however long the session.
THEOREM TransfersComeHomeAlways == Spec => []TransfersComeHome
<1>1. LibraryInv => TransfersComeHome
  <2>1. ASSUME running, Going, NEW t \in Transfers, transfers[t].state # "Free"
        PROVE  InFlight(<<t, transfers[t].generation>>) \/ <<t, transfers[t].generation>> \in lost
    <3> DEFINE h == <<t, transfers[t].generation>>
    <3>a. Held.transfers = transfers /\ Held.commands = commands
      BY DEF Held
    <3>1. NamedBy(Held, DOMAIN statuses, h)
      BY <2>1, <3>a DEF Going, Good, Sound, Homeward
    <3> HIDE DEF h
    <3>2. \A i \in DOMAIN commands : Lends(commands[i]) => "handle" \in DOMAIN commands[i]
      BY <2>1, GoingIs, CommandIs
    <3>3. \A i \in DOMAIN statuses : Answers(statuses[i]) => "handle" \in DOMAIN statuses[i]
      BY <2>1, GoingIs, StatusesAre, StatusIs
    <3>4. InFlight(h) \/ h \in lost
      BY <3>a, <3>1, <3>2, <3>3 DEF NamedBy, InFlight, Range
    <3> QED BY <3>4 DEF h
  <2> QED BY <2>1 DEF LibraryInv, TransfersComeHome
<1> QED BY <1>1, LibraryStays, PTL

\* Of the exports one is under way at most, it still holds its transfer, and no loop waits in the
\* queue without one: so the queue moves when the answer of that export does.
THEOREM ExportsMoveOnAlways == Spec => []ExportsMoveOn
<1>1. LibraryInv => ExportsMoveOn
  <2>1. ASSUME Going
        PROVE  /\ \A p, q \in r.pending : p = q
               /\ r.queued # <<>> => r.pending # {}
               /\ \A p \in r.pending :
                    /\ transfers[p.handle[1]].generation = p.handle[2]
                    /\ transfers[p.handle[1]].state # "Free"
    <3>1. Held.transfers = transfers /\ Held.pending = r.pending /\ Held.queued = r.queued
      BY DEF Held
    <3> QED BY <2>1, <3>1 DEF Going, Good, Sound, Exporting, Own, Moving
  <2> QED BY <2>1 DEF LibraryInv, ExportsMoveOn
<1> QED BY <1>1, LibraryStays, PTL

\* No scene file names, for a loop whose export was begun after the snapshot, audio recorded
\* before it: what a user erases, records and saves meanwhile changes nothing about it.
THEOREM SceneIsWholeAlways == Spec => []SceneIsWhole
<1>1. SceneKept => SceneIsWhole
  BY DEF SceneKept, Whole, SceneIsWhole
<1> QED BY <1>1, LibraryStays, PTL
==========================================================================
