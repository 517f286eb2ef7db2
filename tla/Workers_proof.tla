------------------------- MODULE Workers_proof --------------------------
(***************************************************************************)
(* What the threads that serve the audio callback promise.                 *)
(*                                                                         *)
(* DiskStream, for any number of streams and any pool: no block is lost    *)
(* between the threads, a file that closed well lacks at most one block,   *)
(* an ended stream is seen, and threads never overlap.                     *)
(*                                                                         *)
(* LoopStorage, for every size of the ready set and the rings: the blocks  *)
(* that are ready, asked for or under way add up to the ready set.         *)
(*                                                                         *)
(* MemoryPool, for any pool, any queue and any number of callers: no slot  *)
(* of a pool is lost without being counted, and a restock always finds     *)
(* room.                                                                   *)
(*                                                                         *)
(* LibraryFiles, for any takes, names and loops and any number of failing  *)
(* calls: a take whose save was reported done is never replaced or         *)
(* removed.                                                                *)
(* SavedTakesAreKept is not inductive.  A save writes over, and after an   *)
(* error removes, the unnamed audio: that is harmless because the file was *)
(* not there when the save created it, so that every saved take is under   *)
(* another name (NewIsExtra).  A rename replaces nothing because no file   *)
(* has a name yet that one is still to get, and a rollback because the     *)
(* names it goes back to are free (RoomAhead, RoomBehind).                 *)
(*                                                                         *)
(* And as long as one call has failed at most, and no operation was cut    *)
(* short, a saved take has its metadata beside it: every audio file has,   *)
(* but for the one a save is at, and a rename moves both (Mated).          *)
(***************************************************************************)
EXTENDS LoopStorage, MemoryPool, DiskStream, LibraryFiles, TLAPS

--------------------------------------------------------------------------
(* The stream to the disk                                                  *)

\* A stream that was not started has no thread and no blocks.
Fresh ==
  \A g \in Streams : g > started =>
    /\ encoder[g] = "none" /\ status[g] = "idle"
    /\ file[g] = "none" /\ unused[g] = 0 /\ ring[g] = 0 /\ emptied[g] = 0

\* The last stream started is the one the control thread works on.
Current ==
  /\ streaming \in {NoStream, started}
  /\ control = "handoff" => streaming = NoStream
  /\ control # "idle" => started # 0
  /\ callback = "push" => installed # NoStream

\* An encoder past the stop request is one whose status says so, and only an encoder
\* that has ended leaves the file complete.
Ending ==
  \A g \in Streams :
    /\ encoder[g] \in {"drain", "writeLast", "close"} => status[g] # "writing"
    /\ encoder[g] = "done" => status[g] # "writing"
    /\ file[g] = "complete" => encoder[g] = "done"

\* The block the callback is about to queue for stream g.
Copied(g) == IF callback = "push" /\ installed = g THEN 1 ELSE 0

Closing(g) == encoder[g] = "close" \/ file[g] = "complete"

\* Once the drain has found the ring empty, only that block can still be queued.
Leftover == \A g \in Streams : Closing(g) => ring[g] + Copied(g) <= 1

IInv == StreamTypeOK /\ PoolConserved /\ OneEncoder /\ Fresh /\ Current /\ Ending /\ Leftover

--------------------------------------------------------------------------
LEMMA InitInv == StreamInit => IInv
  BY StreamAssumption DEF StreamInit, IInv, StreamTypeOK, PoolConserved, OneEncoder, Fresh, Current, Ending,
     Leftover, Closing, Copied, Streams, NoStream, Held, Writing

USE StreamAssumption DEF NoStream, controls, callbacks, blocks

\* The control thread: it starts a stream only when no encoder runs.
LEMMA ControlInv == IInv /\ ControlStep => IInv'
<1> SUFFICES ASSUME IInv, ControlStep PROVE IInv'
  OBVIOUS
<1>1. CASE StartWriting
  <2>1. StreamTypeOK'
    BY <1>1 DEF IInv, StartWriting, StreamTypeOK, Streams
  <2>2. PoolConserved'
    BY <1>1 DEF IInv, StartWriting, PoolConserved, StreamTypeOK, Held, Writing, Fresh, Streams
  <2>3. OneEncoder'
    BY <1>1 DEF IInv, StartWriting, OneEncoder, StreamTypeOK, Streams
  <2>4. Fresh'
    BY <1>1 DEF IInv, StartWriting, Fresh, StreamTypeOK, Streams
  <2>5. Current'
    BY <1>1 DEF IInv, StartWriting, Current, Streams, StreamTypeOK
  <2>6. Ending'
    BY <1>1 DEF IInv, StartWriting, Ending, StreamTypeOK, Fresh, Streams
  <2>7. Leftover'
    BY <1>1 DEF IInv, StartWriting, Leftover, Closing, Copied, StreamTypeOK, Fresh, Ending, Streams
  <2> QED BY <2>1, <2>2, <2>3, <2>4, <2>5, <2>6, <2>7 DEF IInv
<1>2. CASE HandOver
  <2>1. StreamTypeOK'
    BY <1>2 DEF IInv, HandOver, StreamTypeOK, Streams
  <2>2. PoolConserved'
    BY <1>2 DEF IInv, HandOver, PoolConserved, StreamTypeOK, Held, Writing, Streams
  <2>3. OneEncoder'
    BY <1>2 DEF IInv, HandOver, OneEncoder, StreamTypeOK, Current, Streams
  <2>4. Fresh'
    BY <1>2 DEF IInv, HandOver, Fresh, StreamTypeOK, Streams
  <2>5. Current'
    BY <1>2 DEF IInv, HandOver, Current, StreamTypeOK, Streams
  <2>6. Ending'
    BY <1>2 DEF IInv, HandOver, Ending, StreamTypeOK, Streams
  <2>7. Leftover'
    BY <1>2 DEF IInv, HandOver, Leftover, Closing, Copied, StreamTypeOK, Ending, Streams
  <2> QED BY <2>1, <2>2, <2>3, <2>4, <2>5, <2>6, <2>7 DEF IInv
<1>3. CASE HandOverRefused
  <2>1. StreamTypeOK'
    BY <1>3 DEF IInv, HandOverRefused, StreamTypeOK, Streams
  <2>2. PoolConserved'
    BY <1>3 DEF IInv, HandOverRefused, PoolConserved, StreamTypeOK, Held, Writing, Streams
  <2>3. OneEncoder'
    BY <1>3 DEF IInv, HandOverRefused, OneEncoder, StreamTypeOK
  <2>4. Fresh'
    BY <1>3 DEF IInv, HandOverRefused, Fresh, StreamTypeOK
  <2>5. Current'
    BY <1>3 DEF IInv, HandOverRefused, Current, Streams
  <2>6. Ending'
    BY <1>3 DEF IInv, HandOverRefused, Ending, StreamTypeOK
  <2>7. Leftover'
    BY <1>3 DEF IInv, HandOverRefused, Leftover, Closing, Copied, StreamTypeOK, Ending
  <2> QED BY <2>1, <2>2, <2>3, <2>4, <2>5, <2>6, <2>7 DEF IInv
<1>4. CASE Stop
  <2>1. StreamTypeOK'
    BY <1>4 DEF IInv, Stop, StreamTypeOK, Streams
  <2>2. PoolConserved'
    BY <1>4 DEF IInv, Stop, PoolConserved, StreamTypeOK, Held, Writing, Streams
  <2>3. OneEncoder'
    BY <1>4 DEF IInv, Stop, OneEncoder, StreamTypeOK
  <2>4. Fresh'
    BY <1>4 DEF IInv, Stop, Fresh, StreamTypeOK
  <2>5. Current'
    BY <1>4 DEF IInv, Stop, Current, Streams
  <2>6. Ending'
    BY <1>4 DEF IInv, Stop, Ending, StreamTypeOK
  <2>7. Leftover'
    BY <1>4 DEF IInv, Stop, Leftover, Closing, Copied, StreamTypeOK, Ending
  <2> QED BY <2>1, <2>2, <2>3, <2>4, <2>5, <2>6, <2>7 DEF IInv
<1>5. CASE RequestStop
  <2>1. StreamTypeOK'
    BY <1>5 DEF IInv, RequestStop, StreamTypeOK, Streams
  <2>2. PoolConserved'
    BY <1>5 DEF IInv, RequestStop, PoolConserved, StreamTypeOK, Held, Writing, Streams
  <2>3. OneEncoder'
    BY <1>5 DEF IInv, RequestStop, OneEncoder, StreamTypeOK
  <2>4. Fresh'
    BY <1>5 DEF IInv, RequestStop, Fresh, StreamTypeOK, Current
  <2>5. Current'
    BY <1>5 DEF IInv, RequestStop, Current, Streams
  <2>6. Ending'
    BY <1>5 DEF IInv, RequestStop, Ending, StreamTypeOK
  <2>7. Leftover'
    BY <1>5 DEF IInv, RequestStop, Leftover, Closing, Copied, StreamTypeOK, Ending
  <2> QED BY <2>1, <2>2, <2>3, <2>4, <2>5, <2>6, <2>7 DEF IInv
<1>6. CASE Join
  <2>1. StreamTypeOK'
    BY <1>6 DEF IInv, Join, StreamTypeOK, Streams, Current
  <2>2. PoolConserved'
    BY <1>6 DEF IInv, Join, PoolConserved, StreamTypeOK, Held, Writing, Streams
  <2>3. OneEncoder'
    BY <1>6 DEF IInv, Join, OneEncoder, StreamTypeOK
  <2>4. Fresh'
    BY <1>6 DEF IInv, Join, Fresh, StreamTypeOK, Current
  <2>5. Current'
    BY <1>6 DEF IInv, Join, Current, Streams
  <2>6. Ending'
    BY <1>6 DEF IInv, Join, Ending, StreamTypeOK
  <2>7. Leftover'
    BY <1>6 DEF IInv, Join, Leftover, Closing, Copied, StreamTypeOK, Ending
  <2> QED BY <2>1, <2>2, <2>3, <2>4, <2>5, <2>6, <2>7 DEF IInv
<1> QED BY <1>1, <1>2, <1>3, <1>4, <1>5, <1>6 DEF ControlStep

\* The callback: it queues a block only for a stream whose status it saw to be written.
LEMMA CallbackInv == IInv /\ OutputStep => IInv'
<1> SUFFICES ASSUME IInv, OutputStep PROVE IInv'
  OBVIOUS
<1>1. CASE Retire
  <2>1. StreamTypeOK'
    BY <1>1 DEF IInv, Retire, StreamTypeOK, Streams
  <2>2. PoolConserved'
    BY <1>1 DEF IInv, Retire, PoolConserved, StreamTypeOK, Held, Writing, Streams
  <2>3. OneEncoder'
    BY <1>1 DEF IInv, Retire, OneEncoder, StreamTypeOK
  <2>4. Fresh'
    BY <1>1 DEF IInv, Retire, Fresh, StreamTypeOK
  <2>5. Current'
    BY <1>1 DEF IInv, Retire, Current, Streams
  <2>6. Ending'
    BY <1>1 DEF IInv, Retire, Ending, StreamTypeOK
  <2>7. Leftover'
    BY <1>1 DEF IInv, Retire, Leftover, Closing, Copied, StreamTypeOK, Ending
  <2> QED BY <2>1, <2>2, <2>3, <2>4, <2>5, <2>6, <2>7 DEF IInv
<1>2. CASE Install
  <2>1. StreamTypeOK'
    BY <1>2 DEF IInv, Install, StreamTypeOK, Streams
  <2>2. PoolConserved'
    BY <1>2 DEF IInv, Install, PoolConserved, StreamTypeOK, Held, Writing, Streams
  <2>3. OneEncoder'
    BY <1>2 DEF IInv, Install, OneEncoder, StreamTypeOK, Streams
  <2>4. Fresh'
    BY <1>2 DEF IInv, Install, Fresh, StreamTypeOK, Streams
  <2>5. Current'
    BY <1>2 DEF IInv, Install, Current, Streams
  <2>6. Ending'
    BY <1>2 DEF IInv, Install, Ending, StreamTypeOK, Streams
  <2>7. Leftover'
    BY <1>2 DEF IInv, Install, Leftover, Closing, Copied, StreamTypeOK, Current, Ending, Streams
  <2> QED BY <2>1, <2>2, <2>3, <2>4, <2>5, <2>6, <2>7 DEF IInv
<1>3. CASE LoadStatus
  <2>1. StreamTypeOK'
    BY <1>3 DEF IInv, LoadStatus, StreamTypeOK, Streams
  <2>2. PoolConserved'
    BY <1>3 DEF IInv, LoadStatus, PoolConserved, StreamTypeOK, Held, Writing, Streams
  <2>3. OneEncoder'
    BY <1>3 DEF IInv, LoadStatus, OneEncoder, StreamTypeOK, Streams
  <2>4. Fresh'
    BY <1>3 DEF IInv, LoadStatus, Fresh, StreamTypeOK, Streams
  <2>5. Current'
    BY <1>3 DEF IInv, LoadStatus, Current, StreamTypeOK, Streams
  <2>6. Ending'
    BY <1>3 DEF IInv, LoadStatus, Ending, StreamTypeOK, Streams
  <2>7. Leftover'
    BY <1>3 DEF IInv, LoadStatus, Leftover, Closing, Copied, StreamTypeOK, Ending, Streams
  <2> QED BY <2>1, <2>2, <2>3, <2>4, <2>5, <2>6, <2>7 DEF IInv
<1>4. CASE DropBlock
  <2>1. StreamTypeOK'
    BY <1>4 DEF IInv, DropBlock, StreamTypeOK, Streams
  <2>2. PoolConserved'
    BY <1>4 DEF IInv, DropBlock, PoolConserved, StreamTypeOK, Held, Writing, Streams
  <2>3. OneEncoder'
    BY <1>4 DEF IInv, DropBlock, OneEncoder, StreamTypeOK
  <2>4. Fresh'
    BY <1>4 DEF IInv, DropBlock, Fresh, StreamTypeOK
  <2>5. Current'
    BY <1>4 DEF IInv, DropBlock, Current, Streams
  <2>6. Ending'
    BY <1>4 DEF IInv, DropBlock, Ending, StreamTypeOK
  <2>7. Leftover'
    BY <1>4 DEF IInv, DropBlock, Leftover, Closing, Copied, StreamTypeOK, Ending
  <2> QED BY <2>1, <2>2, <2>3, <2>4, <2>5, <2>6, <2>7 DEF IInv
<1>5. CASE PushBlock
  <2> DEFINE back == IF unused[installed] + emptied[installed] <= PoolBlocks THEN emptied[installed]
                     ELSE PoolBlocks - unused[installed]
             sent == IF ring[installed] < PoolBlocks THEN 1 ELSE 0
  <2>a. /\ callback = "push" /\ callback' = "retire" /\ unused[installed] > 0
        /\ unused' = [unused EXCEPT ![installed] = @ + back - sent]
        /\ emptied' = [emptied EXCEPT ![installed] = @ - back]
        /\ ring' = [ring EXCEPT ![installed] = @ + sent]
        /\ UNCHANGED <<control, started, streaming, handoff, installed, status, encoder, file>>
    BY <1>5 DEF PushBlock
  <2>b. /\ installed \in Streams /\ installed <= started
        /\ unused[installed] \in Nat /\ ring[installed] \in Nat /\ emptied[installed] \in Nat
    BY <2>a DEF IInv, StreamTypeOK, Current, Streams
  <2>c. unused[installed] <= PoolBlocks
    BY <2>b DEF IInv, StreamTypeOK, PoolConserved, Held
  <2>d. back \in Nat /\ back <= emptied[installed] /\ sent \in {0, 1}
    BY <2>b, <2>c
  <2>e. /\ unused[installed] + back - sent \in Nat
        /\ emptied[installed] - back \in Nat /\ ring[installed] + sent \in Nat
    BY <2>a, <2>b, <2>d
  <2> HIDE DEF back, sent
  <2>1. StreamTypeOK'
    BY <2>a, <2>b, <2>e DEF IInv, StreamTypeOK
  <2>2. PoolConserved'
    <3> SUFFICES ASSUME NEW g \in Streams, g <= started'
                 PROVE  (unused[g] + ring[g] + Held(g) + emptied[g] = PoolBlocks)'
      BY DEF PoolConserved
    <3>1. Held(g)' = Held(g) /\ Held(g) \in Nat
      BY <2>a DEF Held, Writing
    <3>2. unused[g] + ring[g] + Held(g) + emptied[g] = PoolBlocks
      BY <2>a DEF IInv, PoolConserved
    <3>3. CASE g = installed
      BY <2>a, <2>b, <2>d, <3>1, <3>2, <3>3 DEF IInv, StreamTypeOK
    <3>4. CASE g # installed
      BY <2>a, <2>b, <3>1, <3>2, <3>4 DEF IInv, StreamTypeOK
    <3> QED BY <3>3, <3>4
  <2>3. OneEncoder' /\ Fresh'
    BY <2>a, <2>b DEF IInv, OneEncoder, Fresh, StreamTypeOK, Streams
  <2>4. Current'
    BY <2>a DEF IInv, Current
  <2>5. Ending'
    BY <2>a DEF IInv, Ending
  <2>6. Leftover'
    <3> SUFFICES ASSUME NEW g \in Streams, Closing(g)' PROVE (ring[g] + Copied(g))' <= 1
      BY DEF Leftover
    <3>1. Closing(g) /\ Copied(g)' = 0
      BY <2>a DEF Closing, Copied
    <3>2. ring[g] + Copied(g) <= 1
      BY <3>1 DEF IInv, Leftover
    <3>3. CASE g = installed
      BY <2>a, <2>b, <2>d, <3>1, <3>2, <3>3 DEF IInv, StreamTypeOK, Copied
    <3>4. CASE g # installed
      BY <2>a, <2>b, <3>1, <3>2, <3>4 DEF IInv, StreamTypeOK, Copied
    <3> QED BY <3>3, <3>4
  <2> QED BY <2>1, <2>2, <2>3, <2>4, <2>5, <2>6 DEF IInv
<1> QED BY <1>1, <1>2, <1>3, <1>4, <1>5 DEF OutputStep

\* The encoder: the file is closed only after a drain that found the ring empty.
LEMMA EncoderInv == \A g \in Streams : IInv /\ EncoderStep(g) => IInv'
<1> SUFFICES ASSUME NEW g \in Streams, IInv, EncoderStep(g) PROVE IInv'
  OBVIOUS
<1>1. CASE OpenFile(g)
  <2>1. StreamTypeOK'
    BY <1>1 DEF IInv, OpenFile, StreamTypeOK, At, Goes
  <2>2. PoolConserved'
    BY <1>1 DEF IInv, OpenFile, PoolConserved, StreamTypeOK, Held, Writing, At, Goes
  <2>3. OneEncoder'
    BY <1>1 DEF IInv, OpenFile, OneEncoder, StreamTypeOK, At, Goes
  <2>4. Fresh'
    BY <1>1 DEF IInv, OpenFile, Fresh, StreamTypeOK, At, Goes, OneEncoder
  <2>5. Current'
    BY <1>1 DEF IInv, OpenFile, Current, At, Goes
  <2>6. Ending'
    BY <1>1 DEF IInv, OpenFile, Ending, StreamTypeOK, At, Goes
  <2>7. Leftover'
    BY <1>1 DEF IInv, OpenFile, Leftover, Closing, Copied, StreamTypeOK, Ending, At, Goes
  <2> QED BY <2>1, <2>2, <2>3, <2>4, <2>5, <2>6, <2>7 DEF IInv
<1>2. CASE OpenFileFails(g)
  <2>1. StreamTypeOK'
    BY <1>2 DEF IInv, OpenFileFails, StreamTypeOK, At, Goes
  <2>2. PoolConserved'
    BY <1>2 DEF IInv, OpenFileFails, PoolConserved, StreamTypeOK, Held, Writing, At, Goes
  <2>3. OneEncoder'
    BY <1>2 DEF IInv, OpenFileFails, OneEncoder, StreamTypeOK, At, Goes
  <2>4. Fresh'
    BY <1>2 DEF IInv, OpenFileFails, Fresh, StreamTypeOK, At, Goes, OneEncoder
  <2>5. Current'
    BY <1>2 DEF IInv, OpenFileFails, Current, At, Goes
  <2>6. Ending'
    BY <1>2 DEF IInv, OpenFileFails, Ending, StreamTypeOK, At, Goes
  <2>7. Leftover'
    BY <1>2 DEF IInv, OpenFileFails, Leftover, Closing, Copied, StreamTypeOK, Ending, At, Goes
  <2> QED BY <2>1, <2>2, <2>3, <2>4, <2>5, <2>6, <2>7 DEF IInv
<1>3. CASE Check(g)
  <2>1. StreamTypeOK'
    BY <1>3 DEF IInv, Check, StreamTypeOK, At, Goes
  <2>2. PoolConserved'
    BY <1>3 DEF IInv, Check, PoolConserved, StreamTypeOK, Held, Writing, At, Goes
  <2>3. OneEncoder'
    BY <1>3 DEF IInv, Check, OneEncoder, StreamTypeOK, At, Goes
  <2>4. Fresh'
    BY <1>3 DEF IInv, Check, Fresh, StreamTypeOK, At, Goes, OneEncoder
  <2>5. Current'
    BY <1>3 DEF IInv, Check, Current, At, Goes
  <2>6. Ending'
    BY <1>3 DEF IInv, Check, Ending, StreamTypeOK, At, Goes
  <2>7. Leftover'
    BY <1>3 DEF IInv, Check, Leftover, Closing, Copied, StreamTypeOK, Ending, At, Goes
  <2> QED BY <2>1, <2>2, <2>3, <2>4, <2>5, <2>6, <2>7 DEF IInv
<1>4. CASE Pop(g)
  <2>1. StreamTypeOK'
    BY <1>4 DEF IInv, Pop, StreamTypeOK, At, Goes
  <2>2. PoolConserved'
    BY <1>4 DEF IInv, Pop, PoolConserved, StreamTypeOK, Held, Writing, At, Goes
  <2>3. OneEncoder'
    BY <1>4 DEF IInv, Pop, OneEncoder, StreamTypeOK, At, Goes
  <2>4. Fresh'
    BY <1>4 DEF IInv, Pop, Fresh, StreamTypeOK, At, Goes, OneEncoder
  <2>5. Current'
    BY <1>4 DEF IInv, Pop, Current, At, Goes
  <2>6. Ending'
    BY <1>4 DEF IInv, Pop, Ending, StreamTypeOK, At, Goes
  <2>7. Leftover'
    BY <1>4 DEF IInv, Pop, Leftover, Closing, Copied, StreamTypeOK, Ending, At, Goes
  <2> QED BY <2>1, <2>2, <2>3, <2>4, <2>5, <2>6, <2>7 DEF IInv
<1>5. CASE Drain(g)
  <2>1. StreamTypeOK'
    BY <1>5 DEF IInv, Drain, StreamTypeOK, At, Goes
  <2>2. PoolConserved'
    BY <1>5 DEF IInv, Drain, PoolConserved, StreamTypeOK, Held, Writing, At, Goes
  <2>3. OneEncoder'
    BY <1>5 DEF IInv, Drain, OneEncoder, StreamTypeOK, At, Goes
  <2>4. Fresh'
    BY <1>5 DEF IInv, Drain, Fresh, StreamTypeOK, At, Goes, OneEncoder
  <2>5. Current'
    BY <1>5 DEF IInv, Drain, Current, At, Goes
  <2>6. Ending'
    BY <1>5 DEF IInv, Drain, Ending, StreamTypeOK, At, Goes
  <2>7. Leftover'
    BY <1>5 DEF IInv, Drain, Leftover, Closing, Copied, StreamTypeOK, Ending, At, Goes
  <2> QED BY <2>1, <2>2, <2>3, <2>4, <2>5, <2>6, <2>7 DEF IInv
<1>6. CASE Write(g)
  <2>1. StreamTypeOK'
    BY <1>6 DEF IInv, Write, StreamTypeOK, At, Goes, Recycle, Writing
  <2>2. PoolConserved'
    BY <1>6 DEF IInv, Write, PoolConserved, StreamTypeOK, Held, Writing, At, Goes, Recycle
  <2>3. OneEncoder'
    BY <1>6 DEF IInv, Write, OneEncoder, StreamTypeOK, At, Goes, Recycle, Writing
  <2>4. Fresh'
    BY <1>6 DEF IInv, Write, Fresh, StreamTypeOK, At, Goes, Recycle, Writing, OneEncoder
  <2>5. Current'
    BY <1>6 DEF IInv, Write, Current, At, Goes, Recycle, Writing
  <2>6. Ending'
    BY <1>6 DEF IInv, Write, Ending, StreamTypeOK, At, Goes, Recycle, Writing
  <2>7. Leftover'
    BY <1>6 DEF IInv, Write, Leftover, Closing, Copied, StreamTypeOK, Ending, At, Goes, Recycle, Writing
  <2> QED BY <2>1, <2>2, <2>3, <2>4, <2>5, <2>6, <2>7 DEF IInv
<1>7. CASE WriteFails(g)
  <2>1. StreamTypeOK'
    BY <1>7 DEF IInv, WriteFails, StreamTypeOK, At, Goes, Recycle, Writing
  <2>2. PoolConserved'
    BY <1>7 DEF IInv, WriteFails, PoolConserved, StreamTypeOK, Held, Writing, At, Goes, Recycle
  <2>3. OneEncoder'
    BY <1>7 DEF IInv, WriteFails, OneEncoder, StreamTypeOK, At, Goes, Recycle, Writing
  <2>4. Fresh'
    BY <1>7 DEF IInv, WriteFails, Fresh, StreamTypeOK, At, Goes, Recycle, Writing, OneEncoder
  <2>5. Current'
    BY <1>7 DEF IInv, WriteFails, Current, At, Goes, Recycle, Writing
  <2>6. Ending'
    BY <1>7 DEF IInv, WriteFails, Ending, StreamTypeOK, At, Goes, Recycle, Writing
  <2>7. Leftover'
    BY <1>7 DEF IInv, WriteFails, Leftover, Closing, Copied, StreamTypeOK, Ending, At, Goes, Recycle, Writing
  <2> QED BY <2>1, <2>2, <2>3, <2>4, <2>5, <2>6, <2>7 DEF IInv
<1>8. CASE CloseFile(g)
  <2>1. StreamTypeOK'
    BY <1>8 DEF IInv, CloseFile, StreamTypeOK, At, Goes
  <2>2. PoolConserved'
    BY <1>8 DEF IInv, CloseFile, PoolConserved, StreamTypeOK, Held, Writing, At, Goes
  <2>3. OneEncoder'
    BY <1>8 DEF IInv, CloseFile, OneEncoder, StreamTypeOK, At, Goes
  <2>4. Fresh'
    BY <1>8 DEF IInv, CloseFile, Fresh, StreamTypeOK, At, Goes, OneEncoder
  <2>5. Current'
    BY <1>8 DEF IInv, CloseFile, Current, At, Goes
  <2>6. Ending'
    BY <1>8 DEF IInv, CloseFile, Ending, StreamTypeOK, At, Goes
  <2>7. Leftover'
    BY <1>8 DEF IInv, CloseFile, Leftover, Closing, Copied, StreamTypeOK, Ending, At, Goes
  <2> QED BY <2>1, <2>2, <2>3, <2>4, <2>5, <2>6, <2>7 DEF IInv
<1>9. CASE CloseFileFails(g)
  <2>1. StreamTypeOK'
    BY <1>9 DEF IInv, CloseFileFails, StreamTypeOK, At, Goes
  <2>2. PoolConserved'
    BY <1>9 DEF IInv, CloseFileFails, PoolConserved, StreamTypeOK, Held, Writing, At, Goes
  <2>3. OneEncoder'
    BY <1>9 DEF IInv, CloseFileFails, OneEncoder, StreamTypeOK, At, Goes
  <2>4. Fresh'
    BY <1>9 DEF IInv, CloseFileFails, Fresh, StreamTypeOK, At, Goes, OneEncoder
  <2>5. Current'
    BY <1>9 DEF IInv, CloseFileFails, Current, At, Goes
  <2>6. Ending'
    BY <1>9 DEF IInv, CloseFileFails, Ending, StreamTypeOK, At, Goes
  <2>7. Leftover'
    BY <1>9 DEF IInv, CloseFileFails, Leftover, Closing, Copied, StreamTypeOK, Ending, At, Goes
  <2> QED BY <2>1, <2>2, <2>3, <2>4, <2>5, <2>6, <2>7 DEF IInv
<1>10. CASE Abandon(g)
  <2>1. StreamTypeOK'
    BY <1>10 DEF IInv, Abandon, StreamTypeOK, At, Goes
  <2>2. PoolConserved'
    BY <1>10 DEF IInv, Abandon, PoolConserved, StreamTypeOK, Held, Writing, At, Goes
  <2>3. OneEncoder'
    BY <1>10 DEF IInv, Abandon, OneEncoder, StreamTypeOK, At, Goes
  <2>4. Fresh'
    BY <1>10 DEF IInv, Abandon, Fresh, StreamTypeOK, At, Goes, OneEncoder
  <2>5. Current'
    BY <1>10 DEF IInv, Abandon, Current, At, Goes
  <2>6. Ending'
    BY <1>10 DEF IInv, Abandon, Ending, StreamTypeOK, At, Goes
  <2>7. Leftover'
    BY <1>10 DEF IInv, Abandon, Leftover, Closing, Copied, StreamTypeOK, Ending, At, Goes
  <2> QED BY <2>1, <2>2, <2>3, <2>4, <2>5, <2>6, <2>7 DEF IInv
<1> QED BY <1>1, <1>2, <1>3, <1>4, <1>5, <1>6, <1>7, <1>8, <1>9, <1>10 DEF EncoderStep

THEOREM Invariance == StreamSpec => []IInv
<1>1. IInv /\ [StreamNext]_streamVars => IInv'
  <2> SUFFICES ASSUME IInv, [StreamNext]_streamVars PROVE IInv'
    OBVIOUS
  <2>1. CASE UNCHANGED streamVars
    <3>1. StreamTypeOK' /\ OneEncoder' /\ Fresh' /\ Current' /\ Ending'
      BY <2>1 DEF streamVars, IInv, StreamTypeOK, OneEncoder, Fresh, Current, Ending
    <3>2. PoolConserved'
      BY <2>1 DEF streamVars, IInv, PoolConserved, Held, Writing
    <3>3. Leftover'
      BY <2>1 DEF streamVars, IInv, Leftover, Closing, Copied
    <3> QED BY <3>1, <3>2, <3>3 DEF IInv
  <2> QED BY <2>1, ControlInv, CallbackInv, EncoderInv DEF StreamNext
<1> QED BY InitInv, <1>1, PTL DEF StreamSpec

--------------------------------------------------------------------------
\* Every counter, place and status keeps its type.
THEOREM StreamTypes == StreamSpec => []StreamTypeOK
  BY Invariance, PTL DEF IInv

\* No block is lost or made on the way from the callback to the encoder and back.
THEOREM PoolIsConserved == StreamSpec => []PoolConserved
  BY Invariance, PTL DEF IInv

\* Threads of two streams never overlap, and the runtime knows of the one that runs.
THEOREM ThreadsNeverOverlap == StreamSpec => []OneEncoder
  BY Invariance, PTL DEF IInv

\* A thread that ended is seen to have ended by the other two.
THEOREM EndIsAlwaysSeen == StreamSpec => []EndIsSeen
<1>1. IInv => EndIsSeen
  BY DEF IInv, Ending, EndIsSeen
<1> QED BY Invariance, <1>1, PTL

\* A file that closed well lacks at most the block being copied during the stop.
THEOREM AtMostOneBlockLost == StreamSpec => []LosesAtMostOne
<1>1. IInv => LosesAtMostOne
  BY DEF IInv, Leftover, Closing, Copied, StreamTypeOK, LosesAtMostOne
<1> QED BY Invariance, <1>1, PTL

--------------------------------------------------------------------------
(* The ready set and the pools                                             *)
HIDE DEF NoStream, controls, callbacks, blocks

USE ReadyBlocksAssumption, RefillCapacityAssumption,
    ReturnCapacityAssumption, MaxChainedAssumption
    DEF ReadyBlocksAssumption, RefillCapacityAssumption,
        ReturnCapacityAssumption, MaxChainedAssumption

\* The worker holds part of a batch only while it sends it.
BatchWhileSending == wpc \notin {"send", "lastSend"} => batch = 0

\* Between its entry check and its push_back, add_block has room for one more.
RoomWhileAdding == cpc \in {"collect", "request"} => chained < MaxChained

\* Every block allocated is in one container.
BlocksAccounted ==
  allocated = free + refills + InFlight + chained + returned + recycled

StorageInv ==
  /\ TypeOK /\ BatchWhileSending /\ RoomWhileAdding
  /\ ReadySetConserved /\ BlocksAccounted /\ MemoryBounded

LEMMA StorageInit == Init => StorageInv
<1> SUFFICES ASSUME Init PROVE StorageInv
  OBVIOUS
<1>1. TypeOK
  <2>1. stopping \in BOOLEAN
    BY Zenon DEF Init
  <2> QED
    BY <2>1 DEF Init, TypeOK
<1>2. BatchWhileSending /\ RoomWhileAdding
  BY DEF Init, BatchWhileSending, RoomWhileAdding
<1>3. ReadySetConserved /\ BlocksAccounted /\ MemoryBounded
  BY DEF Init, ReadySetConserved, BlocksAccounted, MemoryBounded, InFlight
<1> QED
  BY <1>1, <1>2, <1>3 DEF StorageInv

\* StorageInv is inductive: one step per operation of the two threads.
LEMMA StorageNext == StorageInv /\ [Next]_vars => StorageInv'
<1> SUFFICES ASSUME StorageInv, [Next]_vars PROVE StorageInv'
  OBVIOUS
<1> USE DEF StorageInv, TypeOK, BatchWhileSending, RoomWhileAdding,
            ReadySetConserved, BlocksAccounted, MemoryBounded, InFlight,
            callbackVars, workerVars, sharedVars
<1>1. CASE CallbackStep
  <2>1. CASE CollectRefill
    BY <2>1 DEF CollectRefill, CanCollect
  <2>2. CASE TakeBlock
    BY <2>2 DEF TakeBlock, CanCollect
  <2>3. CASE FailAdd
    BY <2>3 DEF FailAdd, CanCollect
  <2>4. CASE RequestReplacement
    BY <2>4 DEF RequestReplacement
  <2>5. CASE ReleaseBlock
    BY <2>5 DEF ReleaseBlock
  <2>6. CASE FinishRelease
    BY <2>6 DEF FinishRelease
  <2> QED
    BY <1>1, <2>1, <2>2, <2>3, <2>4, <2>5, <2>6 DEF CallbackStep
<1>2. CASE CallbackCall
  <2>1. CASE StartAdd
    BY <2>1 DEF StartAdd
  <2>2. ASSUME NEW n \in 0..chained, StartRelease(n) PROVE StorageInv'
    BY <2>2 DEF StartRelease
  <2> QED
    BY <1>2, <2>1, <2>2 DEF CallbackCall
<1>3. CASE WorkerStep
  <2>1. CASE CheckStopping
    BY <2>1 DEF CheckStopping
  <2>2. CASE DrainReturned
    BY <2>2 DEF DrainReturned
  <2>3. CASE SwapRequests
    BY <2>3 DEF SwapRequests
  <2>4. CASE SendRefill
    <3>1. CASE recycled > 0
      BY <2>4, <3>1 DEF SendRefill, Sending
    <3>2. CASE recycled = 0
      BY <2>4, <3>2 DEF SendRefill, Sending
    <3> QED
      BY <3>1, <3>2
  <2>5. CASE RejectRefill
    <3>1. CASE recycled > 0
      BY <2>5, <3>1 DEF RejectRefill, Sending
    <3>2. CASE recycled = 0
      BY <2>5, <3>2 DEF RejectRefill, Sending
    <3> QED
      BY <3>1, <3>2
  <2>6. CASE EndPass
    BY <2>6 DEF EndPass
  <2> QED
    BY <1>3, <2>1, <2>2, <2>3, <2>4, <2>5, <2>6 DEF WorkerStep
<1>4. CASE StopWorker
  BY <1>4 DEF StopWorker
<1>5. CASE UNCHANGED vars
  BY <1>5 DEF vars
<1> QED
  BY <1>1, <1>2, <1>3, <1>4, <1>5 DEF Next

LEMMA StorageHolds == Spec => []StorageInv
BY StorageInit, StorageNext, PTL DEF Spec

\* Every counter of the pool keeps its type and every ring its capacity.
THEOREM StorageTypes == Spec => []TypeOK
BY StorageHolds, PTL DEF StorageInv

\* No credit is lost or minted between the callback and the worker.
THEOREM CreditsConserved == Spec => []ReadySetConserved
BY StorageHolds, PTL DEF StorageInv

\* Memory never exceeds the ready set, the recordings and the return ring.
THEOREM MemoryStaysBounded == Spec => []MemoryBounded
BY StorageHolds, PTL DEF StorageInv

\* With the code's ring sizes the worker's send is never refused.
THEOREM RefillAlwaysFits == Spec => []RefillFits
<1>1. StorageInv => RefillFits
  BY DEF StorageInv, TypeOK, ReadySetConserved, RefillFits, Sending, InFlight
<1> QED
  BY <1>1, StorageHolds, PTL

\* Seen from the recorder the two threads are a pool of credits: every step
\* takes a ready block, repays a debt, or changes neither number.
THEOREM PoolRefinement == Spec => ImplementsReadyPool
<1> USE DEF StorageInv, TypeOK, BatchWhileSending, InFlight,
            callbackVars, workerVars, sharedVars
<1>1. Init => Pool!Init
  BY DEF Init, Pool!Init
<1>2. StorageInv /\ [Next]_vars => [Pool!Next]_(Pool!poolVars)
  <2> SUFFICES ASSUME StorageInv, [Next]_vars
               PROVE  [Pool!Next]_(Pool!poolVars)
    OBVIOUS
  <2> USE DEF Pool!Next, Pool!poolVars, Pool!Take, Pool!Repay
  <2>1. CASE CallbackStep
    <3>1. CASE CollectRefill
      BY <3>1 DEF CollectRefill, CanCollect
    <3>2. CASE TakeBlock
      BY <3>2 DEF TakeBlock, CanCollect
    <3>3. CASE FailAdd
      BY <3>3 DEF FailAdd, CanCollect
    <3>4. CASE RequestReplacement
      BY <3>4 DEF RequestReplacement
    <3>5. CASE ReleaseBlock
      BY <3>5 DEF ReleaseBlock
    <3>6. CASE FinishRelease
      BY <3>6 DEF FinishRelease
    <3> QED
      BY <2>1, <3>1, <3>2, <3>3, <3>4, <3>5, <3>6 DEF CallbackStep
  <2>2. CASE CallbackCall
    <3>1. CASE StartAdd
      BY <3>1 DEF StartAdd
    <3>2. ASSUME NEW n \in 0..chained, StartRelease(n)
          PROVE  [Pool!Next]_(Pool!poolVars)
      BY <3>2 DEF StartRelease
    <3> QED
      BY <2>2, <3>1, <3>2 DEF CallbackCall
  <2>3. CASE WorkerStep
    <3>1. CASE CheckStopping
      BY <3>1 DEF CheckStopping
    <3>2. CASE DrainReturned
      BY <3>2 DEF DrainReturned
    <3>3. CASE SwapRequests
      BY <3>3 DEF SwapRequests
    <3>4. CASE SendRefill
      BY <3>4 DEF SendRefill, Sending
    <3>5. CASE RejectRefill
      BY <3>5 DEF RejectRefill, Sending
    <3>6. CASE EndPass
      BY <3>6 DEF EndPass
    <3> QED
      BY <2>3, <3>1, <3>2, <3>3, <3>4, <3>5, <3>6 DEF WorkerStep
  <2>4. CASE StopWorker
    BY <2>4 DEF StopWorker
  <2>5. CASE UNCHANGED vars
    BY <2>5 DEF vars
  <2> QED
    BY <2>1, <2>2, <2>3, <2>4, <2>5 DEF Next
<1> QED
  BY <1>1, <1>2, StorageHolds, PTL DEF Spec, ImplementsReadyPool, Pool!Spec

--------------------------------------------------------------------------
(* The memory manager *)

PoolInv == PoolTypeOK /\ SlotsConserved

USE InstancesAssumption, UpdateAssumption, CallersAssumption
USE DEF poolCallers, References, InHand, Initially

LEMMA PoolStarts == PoolInit => PoolInv
  BY DEF PoolInit, PoolInv, PoolTypeOK, SlotsConserved

--------------------------------------------------------------------------
\* A caller moves one slot, one instance or one reference at a time.
LEMMA PoolCallInv == PoolInv /\ (PoolCall \/ TakeInstance \/ GiveInstance \/ SessionLeaves) => PoolInv'
<1> SUFFICES ASSUME PoolTypeOK, SlotsConserved,
                    PoolCall \/ TakeInstance \/ GiveInstance \/ SessionLeaves
             PROVE  PoolTypeOK' /\ SlotsConserved'
  BY DEF PoolInv
<1>1. CASE AskManager
  <2>1. UNCHANGED <<stock, spare, held, giving, leaving, kept, manager, restocks, frees, worker,
                    spilled, blockMode>> /\ taken > 0 /\ taken' = taken - 1
    BY <1>1 DEF AskManager
  <2>2. CASE References > 0 /\ asking' = asking + 1 /\ lost' = lost
    BY <2>1, <2>2 DEF PoolTypeOK, SlotsConserved
  <2>3. CASE References = 0 /\ lost' = lost + 1 /\ asking' = asking
    BY <2>1, <2>3 DEF PoolTypeOK, SlotsConserved
  <2> QED
    BY <1>1, <2>2, <2>3 DEF AskManager, PoolTypeOK
<1>2. CASE QueueRestock
  BY <1>2 DEF QueueRestock, PoolTypeOK, SlotsConserved
<1>3. CASE QueueFree
  BY <1>3 DEF QueueFree, PoolTypeOK, SlotsConserved
<1>4. CASE Leave
  BY <1>4 DEF Leave, PoolTypeOK, SlotsConserved
<1>5. CASE JoinWorker
  BY <1>5 DEF JoinWorker, PoolTypeOK, SlotsConserved
<1>6. CASE TakeInstance
  BY <1>6 DEF TakeInstance, PoolTypeOK, SlotsConserved
<1>7. CASE GiveInstance
  BY <1>7 DEF GiveInstance, PoolTypeOK, SlotsConserved
<1>8. CASE SessionLeaves
  <2>1. manager = "alive" /\ kept' = FALSE /\ asking + giving + leaving \in Nat
    BY <1>8 DEF SessionLeaves, PoolTypeOK
  <2>2. References = 1 <=> asking + giving + leaving = 0
    BY <1>8, <2>1 DEF SessionLeaves
  <2> DEFINE callers == asking + giving + leaving
  <2>3. manager' = IF callers = 0 THEN "stopping" ELSE "alive"
    BY <1>8, <2>1, <2>2 DEF SessionLeaves
  <2>4. References' = callers
    BY <1>8, <2>1 DEF SessionLeaves
  <2>5. manager' \in {"alive", "stopping", "gone"} /\ (manager' = "alive" <=> References' > 0)
    BY <2>1, <2>3, <2>4
  <2>6. PoolTypeOK'
    BY <1>8, <2>5 DEF SessionLeaves, PoolTypeOK
  <2>7. SlotsConserved'
    BY <1>8 DEF SessionLeaves, PoolTypeOK, SlotsConserved
  <2> QED
    BY <2>6, <2>7
<1> QED
  BY <1>1, <1>2, <1>3, <1>4, <1>5, <1>6, <1>7, <1>8 DEF PoolCall

\* A restock in the worker's hand is a slot that is not in the ready queue.
LEMMA PoolWorkerInv == PoolInv /\ PoolWorker => PoolInv'
<1> SUFFICES ASSUME PoolTypeOK, SlotsConserved, PoolWorker
             PROVE  PoolTypeOK' /\ SlotsConserved'
  BY DEF PoolInv
<1>1. CASE PopUpdate
  BY <1>1 DEF PopUpdate, PoolTypeOK, SlotsConserved
<1>2. CASE ProcessFree
  BY <1>2 DEF ProcessFree, PoolTypeOK, SlotsConserved
<1>3. CASE ProcessRestock
  <2>1. stock + 1 <= Instances
    BY <1>3 DEF ProcessRestock, PoolTypeOK, SlotsConserved
  <2> QED
    BY <1>3, <2>1 DEF ProcessRestock, PoolTypeOK, SlotsConserved
<1>4. CASE TestStop
  BY <1>4 DEF TestStop, PoolTypeOK, SlotsConserved
<1> QED
  BY <1>1, <1>2, <1>3, <1>4 DEF PoolWorker

LEMMA PoolStepInv == PoolInv /\ [PoolNext]_poolVars => PoolInv'
<1>1. ASSUME PoolInv, UNCHANGED poolVars PROVE PoolInv'
  BY <1>1 DEF PoolInv, poolVars, PoolTypeOK, SlotsConserved
<1> QED
  BY <1>1, PoolCallInv, PoolWorkerInv DEF PoolNext

LEMMA PoolInvariant == PoolSpec => []PoolInv
  BY PoolStarts, PoolStepInv, PTL DEF PoolSpec

--------------------------------------------------------------------------
\* MemoryManager lives exactly as long as the session or a call inside rt_new or rt_delete
\* refers to it (the Weak of PreallocatedTypeInner), and the counts keep their types.
THEOREM PoolTypes == PoolSpec => []PoolTypeOK
<1>1. PoolInv => PoolTypeOK
  BY DEF PoolInv
<1> QED
  BY <1>1, PoolInvariant, PTL

\* For any pool, queue and number of callers: a slot is ready, asked for, or counted in
\* restock_failures, and ready_overflow stays zero.
THEOREM SlotsAreConserved == PoolSpec => []SlotsConserved
<1>1. PoolInv => SlotsConserved
  BY DEF PoolInv
<1> QED
  BY <1>1, PoolInvariant, PTL

--------------------------------------------------------------------------
(* The files of the library                                                *)

Saving == job.kind \in {"encode", "describe", "write"}
Renaming == job.kind \in {"rename", "back"}

\* What is being described holds the take it is the metadata of.
DescribedIsWritten ==
  job.kind \in {"describe", "write"} => dir[AudioFile] = job.take

\* A file that a save has created is not the one that keeps a saved take.
NewIsExtra ==
  job.kind = "encode" \/ (Saving /\ job.created) =>
    \A t \in saved : \E n \in Names \ {Unnamed} : dir[<<"audio", n>>] = t

\* The files of a rename have another name, and no two of them become one.
Distinct(files, name) ==
  /\ \A f \in files : f[2] # name
  /\ \A f, g \in files : Destination(f, name) = Destination(g, name) => f = g

RoomAhead ==
  Renaming =>
    /\ Distinct(job.todo \union job.moved, job.name)
    /\ job.kind = "rename" => \A f \in job.todo : dir[Destination(f, job.name)] = None

RoomBehind ==
  Renaming => \A f \in job.moved : dir[f] = None /\ f \notin job.todo

FilesInv ==
  /\ FilesTypeOK /\ SavedTakesAreKept
  /\ DescribedIsWritten /\ NewIsExtra /\ RoomAhead /\ RoomBehind

USE TakesAssumption, MaxFaultsAssumption DEF None, Torn, Whole

--------------------------------------------------------------------------
LEMMA FileParts ==
  ASSUME NEW f \in Files
  PROVE  f[1] \in {"audio", "meta"} /\ f[2] \in Names /\ f = <<f[1], f[2]>>
  BY DEF Files

LEMMA Destined ==
  ASSUME NEW f \in Files, NEW n \in Names
  PROVE  Destination(f, n) \in Files /\ Destination(f, n)[2] = n
  BY DEF Files, Destination

LEMMA Unnameds == Unnamed \in Names /\ AudioFile \in Files /\ MetaFile \in Files /\ AudioFile # MetaFile
  BY DEF Names, Files, AudioFile, MetaFile

LEMMA JobKinds ==
  ASSUME FilesTypeOK
  PROVE  /\ job = NoJob => ~Saving /\ ~Renaming
         /\ Saving => job \in Saves
         /\ Renaming => job \in Renames
  BY DEF FilesTypeOK, NoJob, Saves, Renames, Saving, Renaming

LEMMA FilesStart == FilesInit => FilesInv
<1> SUFFICES ASSUME FilesInit PROVE FilesInv
  OBVIOUS
<1>1. FilesTypeOK
  <2>1. dir \in [Files -> Takes \union {None, Torn, Whole}]
    BY DEF FilesInit
  <2>2. \A n \in Names : <<"audio", n>> \in Files /\ <<"meta", n>> \in Files
    BY DEF Files
  <2>3. \A n \in Names : dir[<<"audio", n>>] = None /\ dir[<<"meta", n>>] = None
    BY <2>2 DEF FilesInit
  <2>4. recorded \in [Slots -> Takes \union {None}] /\ loop_files \in [Slots -> Names \union {None}]
    BY DEF FilesInit
  <2>5. saved \subseteq Takes /\ faults \in 0..MaxFaults
    BY DEF FilesInit
  <2>7. interrupted \in BOOLEAN
    BY DEF FilesInit
  <2>6. \A n \in Names : dir[<<"audio", n>>] # Whole /\ dir[<<"meta", n>>] \notin Takes
    BY <2>3
  <2> QED
    BY <2>1, <2>4, <2>5, <2>6, <2>7 DEF FilesInit, FilesTypeOK
<1>2. ~Saving /\ ~Renaming
  BY DEF FilesInit, NoJob, Saving, Renaming
<1> QED
  BY <1>1, <1>2 DEF FilesInit, FilesInv, SavedTakesAreKept, DescribedIsWritten, NewIsExtra, RoomAhead,
    RoomBehind, Saving

\* Between two operations only the type and the saved takes are at stake.
LEMMA AtRest == FilesTypeOK /\ SavedTakesAreKept /\ job = NoJob => FilesInv
  BY JobKinds DEF FilesInv, DescribedIsWritten, NewIsExtra, RoomAhead, RoomBehind, Saving

LEMMA AtRestNext == (FilesTypeOK /\ SavedTakesAreKept /\ job = NoJob)' => FilesInv'
  BY AtRest, PTL

--------------------------------------------------------------------------
\* The session's own steps touch no file.
LEMMA SessionInv ==
  ASSUME FilesInv, job' = NoJob, UNCHANGED <<dir, saved, faults>>, interrupted' \in BOOLEAN,
         recorded' \in [Slots -> Takes \union {None}], loop_files' \in [Slots -> Names \union {None}]
  PROVE  FilesInv'
<1>1. FilesTypeOK' /\ SavedTakesAreKept'
  BY DEF FilesInv, FilesTypeOK, SavedTakesAreKept
<1> QED
  BY <1>1, AtRestNext

LEMMA RecordInv == ASSUME FilesInv, NEW s \in Slots, NEW t \in Takes, RecordTake(s, t) PROVE FilesInv'
<1>1. recorded' \in [Slots -> Takes \union {None}]
  BY DEF RecordTake, FilesInv, FilesTypeOK
<1> QED
  BY <1>1, SessionInv DEF RecordTake, libraryHistory, FilesInv, FilesTypeOK

LEMMA EraseInv == ASSUME FilesInv, NEW s \in Slots, EraseLoop(s) PROVE FilesInv'
<1>1. recorded' \in [Slots -> Takes \union {None}] /\ loop_files' \in [Slots -> Names \union {None}]
  BY DEF EraseLoop, FilesInv, FilesTypeOK
<1> QED
  BY <1>1, SessionInv DEF EraseLoop, libraryHistory, FilesInv, FilesTypeOK

LEMMA LoadInv == ASSUME FilesInv, NEW s \in Slots, NEW n \in Names, LoadLoop(s, n) PROVE FilesInv'
<1>1. <<"audio", n>> \in Files /\ dir[<<"audio", n>>] \in Takes \union {Torn}
  BY DEF LoadLoop, Exists, FilesInv, FilesTypeOK, Files
<1>2. recorded' \in [Slots -> Takes \union {None}] /\ loop_files' \in [Slots -> Names \union {None}]
  BY <1>1 DEF LoadLoop
<1> QED
  BY <1>2, SessionInv DEF LoadLoop, libraryHistory, FilesInv, FilesTypeOK

LEMMA RestartInv == ASSUME FilesInv, Restart PROVE FilesInv'
<1>1. recorded' \in [Slots -> Takes \union {None}] /\ loop_files' \in [Slots -> Names \union {None}]
  BY DEF Restart
<1> QED
  BY <1>1, SessionInv DEF Restart, FilesInv, FilesTypeOK

--------------------------------------------------------------------------
(* Saving *)

\* What a file of its kind may hold.
Fits(f, c) ==
  /\ c \in Takes \union {None, Torn, Whole}
  /\ f[1] = "audio" => c # Whole
  /\ f[1] = "meta" => c \notin Takes

Contents == \A f \in Files : Fits(f, dir[f])

LEMMA ContentsFit ==
  dir \in [Files -> Takes \union {None, Torn, Whole}] =>
    (Contents <=> \A n \in Names : dir[<<"audio", n>>] # Whole /\ dir[<<"meta", n>>] \notin Takes)
<1> SUFFICES ASSUME dir \in [Files -> Takes \union {None, Torn, Whole}]
             PROVE  Contents <=>
               \A n \in Names : dir[<<"audio", n>>] # Whole /\ dir[<<"meta", n>>] \notin Takes
  OBVIOUS
<1>1. \A n \in Names : <<"audio", n>> \in Files /\ <<"meta", n>> \in Files
  BY DEF Files
<1>2. Contents => \A n \in Names : dir[<<"audio", n>>] # Whole /\ dir[<<"meta", n>>] \notin Takes
  BY <1>1 DEF Contents, Fits
<1>3. ASSUME \A n \in Names : dir[<<"audio", n>>] # Whole /\ dir[<<"meta", n>>] \notin Takes,
             NEW f \in Files
      PROVE  Fits(f, dir[f])
  <2>1. f[1] \in {"audio", "meta"} /\ f[2] \in Names /\ f = <<f[1], f[2]>>
    BY FileParts
  <2>2. dir[f] \in Takes \union {None, Torn, Whole}
    OBVIOUS
  <2>3. f[1] = "audio" => dir[f] # Whole
    BY <1>3, <2>1
  <2>4. f[1] = "meta" => dir[f] \notin Takes
    BY <1>3, <2>1
  <2> QED
    BY <2>2, <2>3, <2>4 DEF Fits
<1> QED
  BY <1>2, <1>3 DEF Contents

LEMMA ContentsFitNext ==
  dir' \in [Files -> Takes \union {None, Torn, Whole}] /\ Contents' =>
    \A n \in Names : dir'[<<"audio", n>>] # Whole /\ dir'[<<"meta", n>>] \notin Takes
<1> SUFFICES ASSUME Contents', NEW n \in Names
             PROVE  dir'[<<"audio", n>>] # Whole /\ dir'[<<"meta", n>>] \notin Takes
  OBVIOUS
<1>1. <<"audio", n>> \in Files /\ <<"meta", n>> \in Files
  BY DEF Files
<1> QED
  BY <1>1 DEF Contents, Fits

\* One file gets contents of its kind.
LEMMA PutFile ==
  ASSUME FilesTypeOK, NEW f \in Files, NEW c, Fits(f, c), dir' = [dir EXCEPT ![f] = c]
  PROVE  /\ dir' \in [Files -> Takes \union {None, Torn, Whole}]
         /\ \A n \in Names : dir'[<<"audio", n>>] # Whole /\ dir'[<<"meta", n>>] \notin Takes
         /\ dir'[f] = c
         /\ \A g \in Files \ {f} : dir'[g] = dir[g]
<1>1. dir' \in [Files -> Takes \union {None, Torn, Whole}]
  BY DEF FilesTypeOK, Fits
<1>2. dir'[f] = c /\ \A g \in Files \ {f} : dir'[g] = dir[g]
  BY DEF FilesTypeOK
<1>3. Contents
  BY ContentsFit DEF FilesTypeOK
<1>4. Contents'
  BY <1>2, <1>3 DEF Contents
<1> QED
  BY <1>1, <1>2, <1>4, ContentsFitNext

LEMMA ReuseInv == ASSUME FilesInv, NEW s \in Slots, ReuseAudio(s) PROVE FilesInv'
<1>1. recorded[s] \in Takes /\ dir[<<"audio", Unnamed>>] = recorded[s]
  BY DEF ReuseAudio, AudioFile, FilesInv, FilesTypeOK
<1>2. loop_files' \in [Slots -> Names \union {None}]
  BY Unnameds DEF ReuseAudio, Saved, FilesInv, FilesTypeOK
<1>3. FilesTypeOK'
  BY <1>1, <1>2 DEF ReuseAudio, Saved, FilesInv, FilesTypeOK
<1>4. SavedTakesAreKept'
  BY <1>1, Unnameds DEF ReuseAudio, Saved, FilesInv, SavedTakesAreKept
<1> QED
  BY <1>3, <1>4, AtRestNext DEF ReuseAudio, Saved

\* A take under a name other than Unnamed stays when only AudioFile changes,
\* and any take stays when only MetaFile does.
LEMMA OthersStay ==
  ASSUME \A g \in Files \ {AudioFile} : dir'[g] = dir[g],
         NEW n \in Names \ {Unnamed}
  PROVE  dir'[<<"audio", n>>] = dir[<<"audio", n>>]
  BY DEF Files, AudioFile

LEMMA AudioStays ==
  ASSUME \A g \in Files \ {MetaFile} : dir'[g] = dir[g],
         NEW n \in Names
  PROVE  dir'[<<"audio", n>>] = dir[<<"audio", n>>]
  BY DEF Files, MetaFile

LEMMA FillInv == ASSUME FilesInv, NEW s \in Slots, FillMetadata(s) PROVE FilesInv'
<1>1. recorded[s] \in Takes /\ dir[AudioFile] = recorded[s]
  BY DEF FillMetadata, FilesInv, FilesTypeOK
<1>2. Fits(MetaFile, Torn) /\ dir' = [dir EXCEPT ![MetaFile] = Torn]
  BY DEF Fits, FillMetadata, MetaFile
<1>3. /\ dir' \in [Files -> Takes \union {None, Torn, Whole}]
      /\ \A n \in Names : dir'[<<"audio", n>>] # Whole /\ dir'[<<"meta", n>>] \notin Takes
      /\ \A g \in Files \ {MetaFile} : dir'[g] = dir[g]
  BY <1>2, PutFile, Unnameds DEF FilesInv
<1>4. /\ job' \in Saves /\ job'.kind = "write" /\ job'.created = FALSE
      /\ job'.take = recorded[s]
  BY <1>1 DEF FillMetadata, Saves
<1>5. FilesTypeOK'
  BY <1>3, <1>4 DEF FillMetadata, libraryHistory, FilesInv, FilesTypeOK
<1>6. SavedTakesAreKept'
  <2>1. \A n \in Names : dir'[<<"audio", n>>] = dir[<<"audio", n>>]
    BY <1>3, AudioStays
  <2> QED
    BY <2>1 DEF FillMetadata, libraryHistory, FilesInv, SavedTakesAreKept
<1>7. DescribedIsWritten'
  BY <1>1, <1>3, <1>4, Unnameds DEF DescribedIsWritten
<1> QED
  BY <1>4, <1>5, <1>6, <1>7 DEF FilesInv, NewIsExtra, RoomAhead, RoomBehind, Saving, Renaming

LEMMA CreateInv == ASSUME FilesInv, NEW s \in Slots, CreateAudio(s) PROVE FilesInv'
<1>1. recorded[s] \in Takes /\ dir[AudioFile] = None
  BY DEF CreateAudio, Exists, FilesInv, FilesTypeOK
<1>2. Fits(AudioFile, Torn) /\ dir' = [dir EXCEPT ![AudioFile] = Torn]
  BY DEF Fits, CreateAudio, AudioFile
<1>3. /\ dir' \in [Files -> Takes \union {None, Torn, Whole}]
      /\ \A n \in Names : dir'[<<"audio", n>>] # Whole /\ dir'[<<"meta", n>>] \notin Takes
      /\ \A g \in Files \ {AudioFile} : dir'[g] = dir[g]
  BY <1>2, PutFile, Unnameds DEF FilesInv
<1>4. job' \in Saves /\ job'.kind = "encode"
  BY <1>1 DEF CreateAudio, Saves
<1>5. FilesTypeOK'
  BY <1>3, <1>4 DEF CreateAudio, libraryHistory, FilesInv, FilesTypeOK
<1>6. \A t \in saved : \E n \in Names \ {Unnamed} : dir[<<"audio", n>>] = t
  <2> SUFFICES ASSUME NEW t \in saved
               PROVE  \E n \in Names \ {Unnamed} : dir[<<"audio", n>>] = t
    OBVIOUS
  <2>1. PICK n \in Names : dir[<<"audio", n>>] = t
    BY DEF FilesInv, SavedTakesAreKept
  <2>2. t \in Takes
    BY DEF FilesInv, FilesTypeOK
  <2>3. n # Unnamed
    BY <1>1, <2>1, <2>2 DEF AudioFile
  <2> QED
    BY <2>1, <2>3
<1>7. \A t \in saved' : \E n \in Names \ {Unnamed} : dir'[<<"audio", n>>] = t
  BY <1>3, <1>6, OthersStay DEF CreateAudio, libraryHistory
<1> QED
  BY <1>4, <1>5, <1>7 DEF FilesInv, SavedTakesAreKept, DescribedIsWritten, NewIsExtra, RoomAhead,
    RoomBehind, Saving, Renaming

\* While every saved take is under a name, the unnamed audio is free to change.
KeptElsewhere == \A t \in saved : \E n \in Names \ {Unnamed} : dir[<<"audio", n>>] = t

LEMMA ElsewhereStays ==
  ASSUME KeptElsewhere, \A g \in Files \ {AudioFile} : dir'[g] = dir[g], saved' = saved
  PROVE  KeptElsewhere' /\ SavedTakesAreKept'
<1>1. KeptElsewhere'
  BY OthersStay DEF KeptElsewhere
<1> QED
  BY <1>1 DEF KeptElsewhere, SavedTakesAreKept

LEMMA EncodedInv == ASSUME FilesInv, Encoded PROVE FilesInv'
<1>1. job \in Saves /\ KeptElsewhere
  BY JobKinds DEF Encoded, FilesInv, Saving, NewIsExtra, KeptElsewhere
<1>2. Fits(AudioFile, job.take) /\ dir' = [dir EXCEPT ![AudioFile] = job.take]
  BY <1>1 DEF Fits, Encoded, AudioFile, Saves
<1>3. /\ dir' \in [Files -> Takes \union {None, Torn, Whole}]
      /\ \A n \in Names : dir'[<<"audio", n>>] # Whole /\ dir'[<<"meta", n>>] \notin Takes
      /\ dir'[AudioFile] = job.take
      /\ \A g \in Files \ {AudioFile} : dir'[g] = dir[g]
  BY <1>2, PutFile, Unnameds DEF FilesInv
<1>4. job' \in Saves /\ job'.kind = "describe" /\ job'.take = job.take
  BY <1>1 DEF Encoded, Saves
<1>5. FilesTypeOK'
  BY <1>3, <1>4 DEF Encoded, libraryHistory, FilesInv, FilesTypeOK
<1>6. KeptElsewhere' /\ SavedTakesAreKept'
  BY <1>1, <1>3, ElsewhereStays DEF Encoded, libraryHistory
<1> QED
  BY <1>3, <1>4, <1>5, <1>6 DEF FilesInv, DescribedIsWritten, NewIsExtra, KeptElsewhere, RoomAhead,
    RoomBehind, Renaming

\* An operation that ends in an error removes at most the unnamed audio, and
\* that only when every saved take is under another name.
LEMMA RemovedInv ==
  ASSUME FilesInv, job' = NoJob, UNCHANGED <<recorded, loop_files, saved, interrupted>>,
         faults' \in 0..MaxFaults,
         (KeptElsewhere /\ dir' = [dir EXCEPT ![AudioFile] = None]) \/ UNCHANGED dir
  PROVE  FilesInv'
<1>1. CASE UNCHANGED dir
  <2>1. FilesTypeOK' /\ SavedTakesAreKept'
    BY <1>1 DEF FilesInv, FilesTypeOK, SavedTakesAreKept
  <2> QED
    BY <2>1, AtRestNext
<1>2. CASE KeptElsewhere /\ dir' = [dir EXCEPT ![AudioFile] = None]
  <2>1. Fits(AudioFile, None)
    BY DEF Fits, AudioFile
  <2>2. /\ dir' \in [Files -> Takes \union {None, Torn, Whole}]
        /\ \A n \in Names : dir'[<<"audio", n>>] # Whole /\ dir'[<<"meta", n>>] \notin Takes
        /\ \A g \in Files \ {AudioFile} : dir'[g] = dir[g]
    BY <1>2, <2>1, PutFile, Unnameds DEF FilesInv
  <2>3. FilesTypeOK'
    BY <2>2 DEF FilesInv, FilesTypeOK
  <2>4. SavedTakesAreKept'
    BY <1>2, <2>2, ElsewhereStays
  <2> QED
    BY <2>3, <2>4, AtRestNext
<1> QED
  BY <1>1, <1>2

LEMMA FailingBounds ==
  ASSUME FilesTypeOK, NEW n \in Nat, Failing(n)
  PROVE  faults' \in 0..MaxFaults
  BY DEF FilesTypeOK, Failing

LEMMA EncodeFailsInv == ASSUME FilesInv, EncodeFails PROVE FilesInv'
<1>1. KeptElsewhere
  BY DEF EncodeFails, FilesInv, NewIsExtra, KeptElsewhere
<1>2. faults' \in 0..MaxFaults
  BY FailingBounds DEF EncodeFails, FilesInv
<1> QED
  BY <1>1, <1>2, RemovedInv DEF EncodeFails

LEMMA MetadataFailsInv == ASSUME FilesInv, MetadataFails PROVE FilesInv'
<1>1. job.created => KeptElsewhere
  BY DEF MetadataFails, FilesInv, NewIsExtra, KeptElsewhere, Saving
<1>2. faults' \in 0..MaxFaults
  BY FailingBounds DEF MetadataFails, FilesInv
<1> QED
  BY <1>1, <1>2, RemovedInv DEF MetadataFails

LEMMA OpenMetadataInv == ASSUME FilesInv, OpenMetadata PROVE FilesInv'
<1>1. job \in Saves /\ dir[AudioFile] = job.take
  BY JobKinds DEF OpenMetadata, FilesInv, Saving, DescribedIsWritten
<1>2. Fits(MetaFile, Torn) /\ dir' = [dir EXCEPT ![MetaFile] = Torn]
  BY DEF Fits, OpenMetadata, MetaFile
<1>3. /\ dir' \in [Files -> Takes \union {None, Torn, Whole}]
      /\ \A n \in Names : dir'[<<"audio", n>>] # Whole /\ dir'[<<"meta", n>>] \notin Takes
      /\ \A g \in Files \ {MetaFile} : dir'[g] = dir[g]
  BY <1>2, PutFile, Unnameds DEF FilesInv
<1>4. /\ job' \in Saves /\ job'.kind = "write"
      /\ job'.take = job.take /\ job'.created = job.created
  BY <1>1 DEF OpenMetadata, Saves
<1>5. FilesTypeOK'
  BY <1>3, <1>4 DEF OpenMetadata, libraryHistory, FilesInv, FilesTypeOK
<1>6. \A n \in Names : dir'[<<"audio", n>>] = dir[<<"audio", n>>]
  BY <1>3, AudioStays
<1>7. SavedTakesAreKept'
  BY <1>6 DEF OpenMetadata, libraryHistory, FilesInv, SavedTakesAreKept
<1>8. DescribedIsWritten'
  BY <1>1, <1>3, <1>4, Unnameds DEF DescribedIsWritten
<1>9. NewIsExtra'
  <2>1. job.created => KeptElsewhere
    BY DEF OpenMetadata, FilesInv, NewIsExtra, KeptElsewhere, Saving
  <2>2. job.created => KeptElsewhere'
    BY <2>1, <1>6 DEF OpenMetadata, libraryHistory, KeptElsewhere
  <2> QED
    BY <2>2, <1>4 DEF NewIsExtra, KeptElsewhere
<1> QED
  BY <1>4, <1>5, <1>7, <1>8, <1>9 DEF FilesInv, RoomAhead, RoomBehind, Renaming

LEMMA WriteMetadataInv == ASSUME FilesInv, WriteMetadata PROVE FilesInv'
<1>1. job \in Saves /\ dir[AudioFile] = job.take
  BY JobKinds DEF WriteMetadata, FilesInv, Saving, DescribedIsWritten
<1>2. Fits(MetaFile, Whole) /\ dir' = [dir EXCEPT ![MetaFile] = Whole]
  BY DEF Fits, WriteMetadata, MetaFile
<1>3. /\ dir' \in [Files -> Takes \union {None, Torn, Whole}]
      /\ \A n \in Names : dir'[<<"audio", n>>] # Whole /\ dir'[<<"meta", n>>] \notin Takes
      /\ \A g \in Files \ {MetaFile} : dir'[g] = dir[g]
  BY <1>2, PutFile, Unnameds DEF FilesInv
<1>4. job.take \in Takes /\ job.slot \in Slots
  BY <1>1 DEF Saves
<1>5. loop_files' \in [Slots -> Names \union {None}]
  BY Unnameds DEF WriteMetadata, Saved, FilesInv, FilesTypeOK
<1>6. FilesTypeOK'
  BY <1>3, <1>4, <1>5 DEF WriteMetadata, Saved, FilesInv, FilesTypeOK
<1>7. \A n \in Names : dir'[<<"audio", n>>] = dir[<<"audio", n>>]
  BY <1>3, AudioStays
<1>8. SavedTakesAreKept'
  <2>1. dir[<<"audio", Unnamed>>] = job.take
    BY <1>1 DEF AudioFile
  <2> QED
    BY <1>7, <2>1, Unnameds DEF WriteMetadata, Saved, FilesInv, SavedTakesAreKept
<1> QED
  BY <1>6, <1>8, AtRestNext DEF WriteMetadata, Saved

--------------------------------------------------------------------------
(* Renaming *)

\* A file moved to a name that was free: nothing saved is lost.
LEMMA MoveFile ==
  ASSUME FilesTypeOK, SavedTakesAreKept, NEW f \in Files, NEW g \in Files,
         f # g, f[1] = g[1], dir[g] = None, dir' = Moved(f, g), saved' = saved
  PROVE  /\ dir' \in [Files -> Takes \union {None, Torn, Whole}]
         /\ \A n \in Names : dir'[<<"audio", n>>] # Whole /\ dir'[<<"meta", n>>] \notin Takes
         /\ dir'[f] = None
         /\ \A h \in Files \ {f, g} : dir'[h] = dir[h]
         /\ SavedTakesAreKept'
<1>1. dir' \in [Files -> Takes \union {None, Torn, Whole}]
  BY DEF FilesTypeOK, Moved
<1>2. dir'[f] = None /\ dir'[g] = dir[f] /\ \A h \in Files \ {f, g} : dir'[h] = dir[h]
  BY DEF FilesTypeOK, Moved
<1>3. Contents
  BY ContentsFit DEF FilesTypeOK
<1>4. Fits(g, dir[f]) /\ Fits(f, None)
  BY <1>3 DEF Contents, Fits
<1>5. Contents'
  BY <1>2, <1>3, <1>4 DEF Contents
<1>6. SavedTakesAreKept'
  <2> SUFFICES ASSUME NEW t \in saved
               PROVE  \E n \in Names : dir'[<<"audio", n>>] = t
    BY DEF SavedTakesAreKept
  <2>1. PICK n \in Names : dir[<<"audio", n>>] = t
    BY DEF SavedTakesAreKept
  <2>2. <<"audio", n>> \in Files /\ t # None
    BY DEF Files, FilesTypeOK
  <2>3. CASE <<"audio", n>> = f
    <3>1. g[1] = "audio" /\ g[2] \in Names /\ g = <<g[1], g[2]>>
      BY <2>3, FileParts
    <3>2. dir'[<<"audio", g[2]>>] = t
      BY <1>2, <2>1, <2>3, <3>1
    <3> QED
      BY <3>1, <3>2
  <2>4. CASE <<"audio", n>> # f
    BY <1>2, <2>1, <2>2, <2>4
  <2> QED
    BY <2>3, <2>4
<1> QED
  BY <1>1, <1>2, <1>5, <1>6, ContentsFitNext

LEMMA StartRenameInv == ASSUME FilesInv, NEW n \in Names, StartRename(n) PROVE FilesInv'
<1>1. /\ job' \in Renames /\ job'.kind = "rename" /\ job'.name = n
      /\ job'.todo = FilesToRename(n) /\ job'.moved = {}
  BY DEF StartRename, Renames, FilesToRename
<1>2. FilesTypeOK' /\ SavedTakesAreKept'
  <2>1. interrupted' \in BOOLEAN
    BY DEF StartRename, libraryHistory, FilesInv, FilesTypeOK
  <2> QED
    BY <1>1, <2>1 DEF StartRename, libraryHistory, FilesInv, FilesTypeOK, SavedTakesAreKept
<1>3. Distinct(FilesToRename(n), n)
  BY DEF Distinct, StartRename, FilesToRename
<1>4. \A f \in FilesToRename(n) : dir'[Destination(f, n)] = None
  BY DEF StartRename, Exists
<1>5. job'.todo \union job'.moved = FilesToRename(n)
  BY <1>1
<1>6. RoomAhead'
  BY <1>1, <1>3, <1>4, <1>5 DEF RoomAhead
<1> QED
  BY <1>1, <1>2, <1>6 DEF FilesInv, RoomBehind, DescribedIsWritten, NewIsExtra, Saving

\* What a file and its destination have to do with the others of the rename.
LEMMA Apart ==
  ASSUME NEW files \in SUBSET Files, NEW name \in Names, Distinct(files, name), NEW f \in files
  PROVE  /\ Destination(f, name) \in Files /\ Destination(f, name) # f
         /\ Destination(f, name)[1] = f[1]
         /\ \A g \in files : g # Destination(f, name)
         /\ \A g \in files \ {f} : Destination(g, name) # Destination(f, name)
         /\ \A g \in files : Destination(g, name) # f
<1>1. \A g \in files : Destination(g, name) \in Files /\ Destination(g, name)[2] = name
  BY Destined
<1>2. \A g \in files : g[2] # name
  BY DEF Distinct
<1>3. Destination(f, name)[1] = f[1]
  BY DEF Destination
<1> QED
  BY <1>1, <1>2, <1>3 DEF Distinct

LEMMA RenameFileInv == ASSUME FilesInv, NEW f \in Files, RenameFile(f) PROVE FilesInv'
<1> DEFINE to == Destination(f, job.name)
<1> DEFINE files == job.todo \union job.moved
<1>1. job \in Renames /\ job.kind = "rename" /\ f \in job.todo
  BY JobKinds DEF RenameFile, FilesInv, Renaming
<1>2. /\ files \in SUBSET Files /\ job.name \in Names /\ Distinct(files, job.name) /\ f \in files
  BY <1>1 DEF Renames, FilesInv, RoomAhead, Renaming
<1>3. /\ to \in Files /\ to # f /\ to[1] = f[1]
      /\ \A g \in files : g # to
      /\ \A g \in files \ {f} : Destination(g, job.name) # to
      /\ \A g \in files : Destination(g, job.name) # f
  <2> HIDE DEF files
  <2> QED
    BY <1>2, Apart DEF to
<1>4. \A g \in job.todo : dir[Destination(g, job.name)] = None
  BY <1>1 DEF FilesInv, RoomAhead, Renaming
<1>5. /\ dir' \in [Files -> Takes \union {None, Torn, Whole}]
      /\ \A n \in Names : dir'[<<"audio", n>>] # Whole /\ dir'[<<"meta", n>>] \notin Takes
      /\ dir'[f] = None
      /\ \A h \in Files \ {f, to} : dir'[h] = dir[h]
      /\ SavedTakesAreKept'
  <2>1. FilesTypeOK /\ SavedTakesAreKept /\ dir[to] = None
    BY <1>1, <1>4 DEF FilesInv
  <2>2. dir' = Moved(f, to) /\ saved' = saved
    BY DEF RenameFile, libraryHistory
  <2> HIDE DEF to
  <2> QED
    BY <1>3, <2>1, <2>2, MoveFile
<1>6. /\ job' \in Renames /\ job'.kind = "rename" /\ job'.name = job.name
      /\ job'.todo = job.todo \ {f} /\ job'.moved = job.moved \union {f}
  BY <1>1 DEF RenameFile, Renames
<1>7. FilesTypeOK'
  <2>1. interrupted' \in BOOLEAN
    BY DEF RenameFile, libraryHistory, FilesInv, FilesTypeOK
  <2> QED
    BY <1>5, <1>6, <2>1 DEF RenameFile, libraryHistory, FilesInv, FilesTypeOK
<1>8. RoomAhead'
  <2>1. job'.todo \union job'.moved = files
    BY <1>1, <1>6
  <2>2. ASSUME NEW g \in job'.todo PROVE dir'[Destination(g, job'.name)] = None
    <3>1. g \in job.todo /\ g # f /\ g \in files
      BY <1>6
    <3>2. Destination(g, job.name) \in Files \ {f, to}
      BY <1>2, <1>3, <3>1, Destined
    <3> QED
      BY <1>4, <1>5, <1>6, <3>1, <3>2
  <2> QED
    BY <1>2, <1>6, <2>1, <2>2 DEF RoomAhead
<1>9. RoomBehind'
  <2>1. ASSUME NEW g \in job'.moved PROVE dir'[g] = None /\ g \notin job'.todo
    <3>1. CASE g = f
      BY <1>5, <1>6, <3>1
    <3>2. CASE g # f
      <4>1. g \in job.moved /\ dir[g] = None /\ g \notin job.todo
        BY <1>1, <1>6, <3>2 DEF FilesInv, RoomBehind, Renaming
      <4>2. g \in Files \ {f, to}
        BY <1>2, <1>3, <3>2, <4>1
      <4> QED
        BY <1>5, <1>6, <4>1, <4>2
    <3> QED
      BY <3>1, <3>2
  <2> QED
    BY <2>1 DEF RoomBehind
<1> QED
  BY <1>5, <1>6, <1>7, <1>8, <1>9 DEF FilesInv, DescribedIsWritten, NewIsExtra, Saving

LEMMA RenameFailsInv == ASSUME FilesInv, RenameFails PROVE FilesInv'
<1>1. job \in Renames /\ job.kind = "rename"
  BY JobKinds DEF RenameFails, FilesInv, Renaming
<1>2. /\ job' \in Renames /\ job'.kind = "back" /\ job'.name = job.name
      /\ job'.todo = job.todo /\ job'.moved = job.moved
  BY <1>1 DEF RenameFails, Renames
<1>3. faults' \in 0..MaxFaults
  BY FailingBounds DEF RenameFails, FilesInv
<1>4. interrupted' \in BOOLEAN
  BY DEF RenameFails, FilesInv, FilesTypeOK
<1>5. FilesTypeOK' /\ SavedTakesAreKept'
  BY <1>2, <1>3, <1>4 DEF RenameFails, FilesInv, FilesTypeOK, SavedTakesAreKept
<1>6. RoomAhead'
  BY <1>1, <1>2 DEF FilesInv, RoomAhead, Renaming
<1>7. RoomBehind'
  BY <1>1, <1>2 DEF RenameFails, FilesInv, RoomBehind, Renaming
<1> QED
  BY <1>2, <1>5, <1>6, <1>7 DEF FilesInv, DescribedIsWritten, NewIsExtra, Saving

LEMMA RenameBackInv == ASSUME FilesInv, NEW f \in Files, RenameBack(f) PROVE FilesInv'
<1> DEFINE to == Destination(f, job.name)
<1> DEFINE files == job.todo \union job.moved
<1>1. job \in Renames /\ job.kind = "back" /\ f \in job.moved
  BY JobKinds DEF RenameBack, FilesInv, Renaming
<1>2. files \in SUBSET Files /\ job.name \in Names /\ Distinct(files, job.name) /\ f \in files
  BY <1>1 DEF Renames, FilesInv, RoomAhead, Renaming
<1>3. to \in Files /\ to # f /\ to[1] = f[1] /\ \A g \in files : g # to
  BY <1>2, Apart
<1>4. \A g \in job.moved : dir[g] = None /\ g \notin job.todo
  BY <1>1 DEF FilesInv, RoomBehind, Renaming
<1>5. /\ dir' \in [Files -> Takes \union {None, Torn, Whole}]
      /\ \A n \in Names : dir'[<<"audio", n>>] # Whole /\ dir'[<<"meta", n>>] \notin Takes
      /\ \A h \in Files \ {f, to} : dir'[h] = dir[h]
      /\ SavedTakesAreKept'
  <2>1. CASE UNCHANGED dir
    BY <2>1 DEF RenameBack, FilesInv, FilesTypeOK, SavedTakesAreKept
  <2>2. CASE dir' = Moved(to, f)
    <3>1. FilesTypeOK /\ SavedTakesAreKept /\ dir[f] = None /\ saved' = saved
      BY <1>1, <1>4 DEF FilesInv, RenameBack
    <3> HIDE DEF to
    <3> QED
      BY <1>3, <2>2, <3>1, MoveFile
  <2> QED
    BY <2>1, <2>2 DEF RenameBack
<1>6. /\ job' \in Renames /\ job'.kind = "back" /\ job'.name = job.name
      /\ job'.todo = job.todo /\ job'.moved = job.moved \ {f}
  BY <1>1 DEF RenameBack, Renames
<1>7. FilesTypeOK'
  <2>1. faults' \in 0..MaxFaults
    BY FailingBounds DEF RenameBack, FilesInv, FilesTypeOK
  <2>2. interrupted' \in BOOLEAN
    BY DEF RenameBack, FilesInv, FilesTypeOK
  <2> QED
    BY <1>5, <1>6, <2>1, <2>2 DEF RenameBack, FilesInv, FilesTypeOK
<1>8. RoomAhead'
  <2>1. (job'.todo \union job'.moved) \subseteq files
    BY <1>6
  <2> QED
    BY <1>2, <1>6, <2>1 DEF RoomAhead, Distinct
<1>9. RoomBehind'
  <2>1. ASSUME NEW g \in job'.moved PROVE dir'[g] = None /\ g \notin job'.todo
    <3>1. g \in job.moved /\ g # f
      BY <1>6
    <3>2. g \in Files \ {f, to}
      BY <1>2, <1>3, <3>1
    <3> QED
      BY <1>4, <1>5, <1>6, <3>1, <3>2
  <2> QED
    BY <2>1 DEF RoomBehind
<1> QED
  BY <1>5, <1>6, <1>7, <1>8, <1>9 DEF FilesInv, DescribedIsWritten, NewIsExtra, Saving

LEMMA RolledBackInv == ASSUME FilesInv, RolledBack PROVE FilesInv'
  BY SessionInv DEF RolledBack, libraryHistory, FilesInv, FilesTypeOK

LEMMA RenamedInv == ASSUME FilesInv, Renamed PROVE FilesInv'
<1>1. job.name \in Names
  BY JobKinds DEF Renamed, FilesInv, Renaming, Renames
<1>2. loop_files' \in [Slots -> Names \union {None}]
  BY <1>1 DEF Renamed, FilesInv, FilesTypeOK
<1> QED
  BY <1>2, SessionInv DEF Renamed, libraryHistory, FilesInv, FilesTypeOK

--------------------------------------------------------------------------
LEMMA NextInv == FilesInv /\ [FilesNext]_libraryVars => FilesInv'
<1> SUFFICES ASSUME FilesInv, [FilesNext]_libraryVars PROVE FilesInv'
  OBVIOUS
<1>1. CASE UNCHANGED libraryVars
  <2>1. FilesTypeOK' /\ SavedTakesAreKept'
    BY <1>1 DEF libraryVars, FilesInv, FilesTypeOK, SavedTakesAreKept
  <2> QED
    BY <1>1, <2>1 DEF libraryVars, FilesInv, DescribedIsWritten, NewIsExtra, RoomAhead, RoomBehind,
      Saving, Renaming
<1>2. CASE \E s \in Slots, t \in Takes : RecordTake(s, t)
  BY <1>2, RecordInv
<1>3. CASE \E s \in Slots : EraseLoop(s) \/ ReuseAudio(s) \/ FillMetadata(s) \/ CreateAudio(s)
  BY <1>3, EraseInv, ReuseInv, FillInv, CreateInv
<1>4. CASE \E s \in Slots, n \in Names : LoadLoop(s, n)
  BY <1>4, LoadInv
<1>5. CASE Encoded \/ EncodeFails \/ OpenMetadata \/ WriteMetadata \/ MetadataFails
  BY <1>5, EncodedInv, EncodeFailsInv, OpenMetadataInv, WriteMetadataInv, MetadataFailsInv
<1>6. CASE \E n \in Names : StartRename(n)
  BY <1>6, StartRenameInv
<1>7. CASE \E f \in Files : RenameFile(f) \/ RenameBack(f)
  BY <1>7, RenameFileInv, RenameBackInv
<1>8. CASE RenameFails \/ RolledBack \/ Renamed
  BY <1>8, RenameFailsInv, RolledBackInv, RenamedInv
<1>9. CASE Restart
  BY <1>9, RestartInv
<1> QED
  BY <1>1, <1>2, <1>3, <1>4, <1>5, <1>6, <1>7, <1>8, <1>9 DEF FilesNext

--------------------------------------------------------------------------
(* A saved take and its metadata.  Between two operations every audio file *)
(* has its metadata beside it, as long as no operation was cut short and   *)
(* at most one call has failed (Mated).  A rename moves the two apart and  *)
(* together again: its files are followed to where they are (Place).       *)

\* Where the file h of a rename to this name is, when those of G are renamed ...
GoesOn(G, name, h) == IF h \in G THEN Destination(h, name) ELSE h

\* ... and that it was there before, under d, as it is now.
Rests(d, G, name, h) == h \in G \/ (d[h] # None /\ \A g \in G : h # Destination(g, name))

Gone == IF Renaming THEN job.moved ELSE {}
Place(h) == GoesOn(Gone, job.name, h)
Stood(h) == Rests(dir, Gone, job.name, h)

Mated ==
  \A n \in Names : (Saving => n # Unnamed) /\ Stood(<<"audio", n>>) =>
    /\ Stood(<<"meta", n>>)
    /\ dir[Place(<<"audio", n>>)] \in Takes /\ dir[Place(<<"meta", n>>)] = Whole

\* The session knows its loops by names that were there when the operation began,
Named == \A s \in Slots : loop_files[s] # None => Stood(<<"audio", loop_files[s]>>)

\* and none by that of the file a save creates.
NewIsNew == Saving /\ job.created => \A s \in Slots : loop_files[s] # Unnamed

\* How an operation comes to be where it is.
Ways ==
  /\ job.kind = "encode" => job.created
  /\ job.kind = "back" => faults > 0
  /\ Renaming => \A f \in job.moved : dir[Destination(f, job.name)] # None
  /\ job.kind = "rename" =>
       /\ \A f \in job.todo : dir[f] # None
       /\ \A f \in Files : dir[f] # None /\ f[2] # job.name => f \in job.todo

PairInv ==
  /\ Ways
  /\ faults <= 1 => Named /\ NewIsNew
  /\ faults <= 1 /\ ~interrupted => Mated /\ (Saving => job.created)

Together(n) == dir[<<"audio", n>>] \in Takes /\ dir[<<"meta", n>>] = Whole

\* What this comes to outside of a rename, when files are where they are.
MatedHere == \A n \in Names : (Saving => n # Unnamed) /\ dir[<<"audio", n>>] # None => Together(n)
NamedHere == \A s \in Slots : loop_files[s] # None => dir[<<"audio", loop_files[s]>>] # None

LEMMA InPlace == ~Renaming => (Mated <=> MatedHere) /\ (Named <=> NamedHere)
<1> SUFFICES ASSUME ~Renaming PROVE (Mated <=> MatedHere) /\ (Named <=> NamedHere)
  OBVIOUS
<1>1. \A h : (Stood(h) <=> dir[h] # None) /\ Place(h) = h
  BY DEF Stood, Rests, Place, GoesOn, Gone
<1> QED
  BY <1>1 DEF Mated, Named, MatedHere, NamedHere, Together

LEMMA InPlaceNext == ~Renaming' => (Mated' <=> MatedHere') /\ (Named' <=> NamedHere')
  BY InPlace, PTL

LEMMA FaultsGrow == ASSUME FilesTypeOK PROVE faults \in Nat /\ faults <= MaxFaults
  BY DEF FilesTypeOK

LEMMA NotRenaming ==
  ASSUME FilesTypeOK
  PROVE  /\ job = NoJob \/ Saving => ~Renaming
         /\ job = NoJob => ~Saving
  BY JobKinds DEF Saving, Renaming

\* What an operation leaves when it is over.
LEMMA Rested ==
  ASSUME job' = NoJob,
         faults' <= 1 => NamedHere',
         faults' <= 1 /\ ~interrupted' =>
           \A n \in Names : dir'[<<"audio", n>>] # None => Together(n)'
  PROVE  PairInv'
<1>1. ~Saving' /\ ~Renaming' /\ job'.kind = "none"
  BY DEF NoJob, Saving, Renaming
<1>2. Ways' /\ NewIsNew'
  BY <1>1 DEF Ways, NewIsNew
<1>3. /\ faults' <= 1 => Named'
      /\ faults' <= 1 /\ ~interrupted' => Mated'
  BY <1>1, InPlaceNext DEF MatedHere
<1> QED
  BY <1>1, <1>2, <1>3 DEF PairInv

\* What is known between two operations.
LEMMA Resting ==
  ASSUME FilesTypeOK, PairInv, job = NoJob
  PROVE  /\ faults <= 1 => NamedHere
         /\ faults <= 1 /\ ~interrupted =>
              \A n \in Names : dir[<<"audio", n>>] # None => Together(n)
<1>1. ~Saving /\ ~Renaming
  BY NotRenaming
<1> QED
  BY <1>1, InPlace DEF PairInv, MatedHere

LEMMA SessionPairs ==
  ASSUME FilesTypeOK, PairInv, job = NoJob, job' = NoJob, UNCHANGED <<dir, faults, interrupted>>,
         \A s \in Slots : loop_files'[s] \in {loop_files[s], None} \/ dir[<<"audio", loop_files'[s]>>] # None
  PROVE  PairInv'
<1>1. faults' <= 1 => NamedHere'
  BY Resting DEF NamedHere
<1>2. faults' <= 1 /\ ~interrupted' =>
           \A n \in Names : dir'[<<"audio", n>>] # None => Together(n)'
  BY Resting DEF Together
<1> QED
  BY <1>1, <1>2, Rested

LEMMA SessionStepsPair ==
  ASSUME FilesInv, PairInv, NEW s \in Slots,
         (\E t \in Takes : RecordTake(s, t)) \/ EraseLoop(s) \/ ReuseAudio(s) \/ (\E n \in Names : LoadLoop(s, n))
  PROVE  PairInv'
<1>1. loop_files \in [Slots -> Names \union {None}] /\ FilesTypeOK
  BY DEF FilesInv, FilesTypeOK
<1>2. CASE \E t \in Takes : RecordTake(s, t)
  BY <1>1, <1>2, SessionPairs DEF RecordTake, libraryHistory
<1>3. CASE EraseLoop(s)
  <2>1. \A r \in Slots : loop_files'[r] \in {loop_files[r], None}
    BY <1>1, <1>3 DEF EraseLoop
  <2> QED
    BY <1>1, <1>3, <2>1, SessionPairs DEF EraseLoop, libraryHistory
<1>4. CASE ReuseAudio(s)
  <2>1. dir[<<"audio", Unnamed>>] # None
    BY <1>4 DEF ReuseAudio, AudioFile
  <2>2. \A r \in Slots : loop_files'[r] \in {loop_files[r], Unnamed}
    BY <1>1, <1>4 DEF ReuseAudio, Saved
  <2> QED
    BY <1>1, <1>4, <2>1, <2>2, SessionPairs DEF ReuseAudio, Saved
<1>5. CASE \E n \in Names : LoadLoop(s, n)
  <2>1. PICK n \in Names : LoadLoop(s, n)
    BY <1>5
  <2>2. \A r \in Slots : loop_files'[r] \in {n, None}
    BY <2>1 DEF LoadLoop
  <2>3. dir[<<"audio", n>>] # None
    BY <2>1 DEF LoadLoop, Exists
  <2> QED
    BY <1>1, <2>1, <2>2, <2>3, SessionPairs DEF LoadLoop, libraryHistory
<1> QED
  BY <1>2, <1>3, <1>4, <1>5

LEMMA RestartPairs == ASSUME FilesInv, PairInv, Restart PROVE PairInv'
<1>1. \A s \in Slots : loop_files'[s] = None
  BY DEF Restart
<1>2. faults' <= 1 /\ ~interrupted' =>
           \A n \in Names : dir'[<<"audio", n>>] # None => Together(n)'
  <2>1. ~interrupted' => ~interrupted /\ job = NoJob
    BY DEF Restart
  <2> QED
    BY <2>1, Resting DEF Restart, Together, FilesInv
<1> QED
  BY <1>1, <1>2, Rested DEF Restart, NamedHere

LEMMA FillPairs == ASSUME FilesInv, PairInv, NEW s \in Slots, FillMetadata(s) PROVE PairInv'
<1>1. FilesTypeOK /\ job = NoJob /\ dir[AudioFile] = recorded[s] /\ recorded[s] # None /\ dir[MetaFile] = None
  BY DEF FilesInv, FillMetadata, Exists
<1>2. ~(faults <= 1 /\ ~interrupted)
  <2>1. dir[<<"audio", Unnamed>>] # None /\ dir[<<"meta", Unnamed>>] # Whole
    BY <1>1 DEF AudioFile, MetaFile
  <2> QED
    BY <1>1, <2>1, Resting, Unnameds DEF Together
<1>3. /\ job'.kind = "write" /\ job'.created = FALSE
      /\ UNCHANGED <<recorded, loop_files, saved, faults, interrupted>>
  BY DEF FillMetadata, libraryHistory
<1>4. ~Renaming' /\ Saving'
  BY <1>3 DEF Saving, Renaming
<1>5. Fits(MetaFile, Torn)
  BY DEF Fits, MetaFile
<1>6. \A g \in Files \ {MetaFile} : dir'[g] = dir[g]
  BY <1>1, <1>5, PutFile, Unnameds DEF FillMetadata
<1>7. \A n \in Names : dir'[<<"audio", n>>] = dir[<<"audio", n>>]
  BY <1>6, AudioStays
<1>8. faults <= 1 => NamedHere'
  BY <1>1, <1>3, <1>7, Resting DEF NamedHere, FilesTypeOK
<1> QED
  BY <1>2, <1>3, <1>4, <1>8, InPlaceNext DEF PairInv, Ways, NewIsNew

LEMMA CreatePairs == ASSUME FilesInv, PairInv, NEW s \in Slots, CreateAudio(s) PROVE PairInv'
<1>1. FilesTypeOK /\ job = NoJob /\ dir[<<"audio", Unnamed>>] = None
  BY DEF FilesInv, CreateAudio, Exists, AudioFile
<1>2. /\ job'.kind = "encode" /\ job'.created = TRUE
      /\ UNCHANGED <<recorded, loop_files, saved, faults, interrupted>>
  BY DEF CreateAudio, libraryHistory
<1>3. ~Renaming' /\ Saving'
  BY <1>2 DEF Saving, Renaming
<1>4. Fits(AudioFile, Torn)
  BY DEF Fits, AudioFile
<1>5. \A g \in Files \ {AudioFile} : dir'[g] = dir[g]
  BY <1>1, <1>4, PutFile, Unnameds DEF CreateAudio
<1>6. \A n \in Names \ {Unnamed} : /\ dir'[<<"audio", n>>] = dir[<<"audio", n>>]
                                   /\ dir'[<<"meta", n>>] = dir[<<"meta", n>>]
  BY <1>5 DEF Files, AudioFile
<1>7. faults <= 1 => NamedHere' /\ NewIsNew'
  <2>1. ASSUME faults <= 1, NEW r \in Slots PROVE loop_files'[r] # Unnamed
    BY <1>1, <1>2, <2>1, Resting DEF NamedHere, Unnamed
  <2> QED
    BY <1>1, <1>2, <1>6, <2>1, Resting DEF NamedHere, NewIsNew, FilesTypeOK
<1>8. faults <= 1 /\ ~interrupted => MatedHere'
  BY <1>1, <1>3, <1>6, Resting DEF MatedHere, Together
<1> QED
  BY <1>2, <1>3, <1>7, <1>8, InPlaceNext DEF PairInv, Ways

\* What a save knows while it goes on: its own file apart, all is as between operations.
LEMMA MidSave ==
  ASSUME FilesTypeOK, PairInv, Saving
  PROVE  /\ faults <= 1 => NamedHere /\ (job.created => \A s \in Slots : loop_files[s] # Unnamed)
         /\ faults <= 1 /\ ~interrupted =>
              /\ job.created
              /\ \A n \in Names \ {Unnamed} : dir[<<"audio", n>>] # None => Together(n)
<1>1. ~Renaming
  BY NotRenaming
<1> QED
  BY <1>1, InPlace DEF PairInv, NewIsNew, MatedHere

LEMMA SaveGoesOn ==
  ASSUME FilesInv, PairInv, Encoded \/ OpenMetadata
  PROVE  PairInv'
<1> DEFINE own == {AudioFile, MetaFile}
<1>1. FilesTypeOK /\ Saving /\ job \in Saves
  BY JobKinds DEF FilesInv, Encoded, OpenMetadata, Saving
<1>2. job.take \in Takes
  BY <1>1 DEF Saves
<1>3. /\ job'.kind \in {"describe", "write"} /\ job'.created = job.created
      /\ UNCHANGED <<recorded, loop_files, saved, faults, interrupted>>
  BY <1>1 DEF Encoded, OpenMetadata, libraryHistory, Saves
<1>4. ~Renaming' /\ Saving' /\ job'.kind # "encode"
  BY <1>3 DEF Saving, Renaming
<1>5. /\ \A g \in Files \ own : dir'[g] = dir[g]
      /\ dir[<<"audio", Unnamed>>] # None => dir'[<<"audio", Unnamed>>] # None
  BY <1>1, <1>2, Unnameds DEF FilesTypeOK, Encoded, OpenMetadata, AudioFile, MetaFile
<1>6. \A n \in Names \ {Unnamed} : /\ dir'[<<"audio", n>>] = dir[<<"audio", n>>]
                                   /\ dir'[<<"meta", n>>] = dir[<<"meta", n>>]
  BY <1>5 DEF Files, AudioFile, MetaFile
<1>7. faults <= 1 => NamedHere' /\ NewIsNew'
  BY <1>1, <1>3, <1>5, <1>6, MidSave DEF NamedHere, NewIsNew, FilesTypeOK
<1>8. faults <= 1 /\ ~interrupted => MatedHere' /\ job'.created
  BY <1>1, <1>3, <1>4, <1>6, MidSave DEF MatedHere, Together
<1> QED
  BY <1>3, <1>4, <1>7, <1>8, InPlaceNext DEF PairInv, Ways

LEMMA WritePairs == ASSUME FilesInv, PairInv, WriteMetadata PROVE PairInv'
<1>1. FilesTypeOK /\ Saving /\ job \in Saves /\ dir[<<"audio", Unnamed>>] = job.take
  BY JobKinds DEF FilesInv, WriteMetadata, Saving, DescribedIsWritten, AudioFile
<1>2. job.take \in Takes /\ job.slot \in Slots
  BY <1>1 DEF Saves
<1>3. /\ \A n \in Names : dir'[<<"audio", n>>] = dir[<<"audio", n>>]
      /\ \A n \in Names \ {Unnamed} : dir'[<<"meta", n>>] = dir[<<"meta", n>>]
      /\ dir'[<<"meta", Unnamed>>] = Whole
  BY <1>1, Unnameds DEF WriteMetadata, FilesTypeOK, Files, MetaFile
<1>4. \A s \in Slots : loop_files'[s] \in {loop_files[s], Unnamed}
  BY <1>1, <1>2 DEF WriteMetadata, Saved, FilesTypeOK
<1>5. faults <= 1 => NamedHere'
  BY <1>1, <1>2, <1>3, <1>4, MidSave, Unnameds DEF NamedHere, FilesTypeOK
<1>6. faults <= 1 /\ ~interrupted => \A n \in Names : dir'[<<"audio", n>>] # None => Together(n)'
  BY <1>1, <1>2, <1>3, MidSave DEF Together
<1> QED
  BY <1>5, <1>6, Rested DEF WriteMetadata, Saved

\* A save that fails: with one failure the file it created is gone again.
LEMMA SaveFailsPairs ==
  ASSUME FilesInv, PairInv, EncodeFails \/ MetadataFails
  PROVE  PairInv'
<1>1. /\ FilesTypeOK /\ Saving /\ job' = NoJob /\ UNCHANGED <<loop_files, interrupted>>
      /\ EncodeFails => job.created
  BY DEF FilesInv, EncodeFails, MetadataFails, Saving, PairInv, Ways
<1>2. faults \in Nat
  BY <1>1, FaultsGrow
<1>3. CASE job.created /\ Failing(1) /\ dir' = [dir EXCEPT ![AudioFile] = None]
  <2>1. faults' <= 1 => faults <= 1
    BY <1>2, <1>3 DEF Failing
  <2>2. /\ \A n \in Names \ {Unnamed} : /\ dir'[<<"audio", n>>] = dir[<<"audio", n>>]
                                        /\ dir'[<<"meta", n>>] = dir[<<"meta", n>>]
        /\ dir'[<<"audio", Unnamed>>] = None
    BY <1>1, <1>3, Unnameds DEF FilesTypeOK, Files, AudioFile
  <2>3. faults' <= 1 => NamedHere'
    BY <1>1, <1>3, <2>1, <2>2, MidSave DEF NamedHere, FilesTypeOK
  <2>4. faults' <= 1 /\ ~interrupted' => \A n \in Names : dir'[<<"audio", n>>] # None => Together(n)'
    BY <1>1, <2>1, <2>2, MidSave DEF Together
  <2> QED
    BY <1>1, <2>3, <2>4, Rested
<1>4. CASE job.created /\ Failing(2)
  <2>1. ~(faults' <= 1)
    BY <1>2, <1>4 DEF Failing
  <2> QED
    BY <1>1, <2>1, Rested
<1>5. CASE ~job.created /\ Failing(1) /\ UNCHANGED dir
  <2>1. faults' <= 1 => faults <= 1
    BY <1>2, <1>5 DEF Failing
  <2>2. faults' <= 1 => NamedHere'
    BY <1>1, <1>5, <2>1, MidSave DEF NamedHere
  <2>3. ~(faults' <= 1 /\ ~interrupted')
    BY <1>1, <1>5, <2>1, MidSave
  <2> QED
    BY <1>1, <2>2, <2>3, Rested
<1> QED
  BY <1>1, <1>3, <1>4, <1>5 DEF EncodeFails, MetadataFails

LEMMA StartRenamePairs == ASSUME FilesInv, PairInv, NEW n \in Names, StartRename(n) PROVE PairInv'
<1>1. /\ FilesTypeOK /\ job = NoJob
      /\ UNCHANGED <<dir, recorded, loop_files, saved, faults, interrupted>>
      /\ job'.kind = "rename" /\ job'.name = n /\ job'.moved = {} /\ job'.todo = FilesToRename(n)
  BY DEF FilesInv, StartRename, libraryHistory
<1>2. Renaming' /\ ~Saving'
  BY <1>1 DEF Renaming, Saving
<1>3. Gone' = {}
  BY <1>1, <1>2 DEF Gone
<1>4. \A h : (Stood(h)' <=> dir[h] # None) /\ Place(h)' = h
  BY <1>1, <1>3 DEF Stood, Rests, Place, GoesOn
<1>5. faults <= 1 => Named'
  BY <1>1, <1>4, Resting DEF Named, NamedHere
<1>6. faults <= 1 /\ ~interrupted => Mated'
  BY <1>1, <1>2, <1>4, Resting DEF Mated, Together
<1>7. Ways'
  BY <1>1 DEF Ways, FilesToRename, Exists
<1> QED
  BY <1>1, <1>2, <1>5, <1>6, <1>7 DEF PairInv, NewIsNew

\* One more file has its new name in e than in d: what was there before is, where it is.
LEMMA Carried ==
  ASSUME NEW G \in SUBSET Files, NEW name \in Names, NEW f \in Files, f \notin G,
         Distinct(G \union {f}, name), NEW d, NEW e, d[f] # None, d[Destination(f, name)] = None,
         e[Destination(f, name)] = d[f], e[f] = None,
         \A h \in Files \ {f, Destination(f, name)} : e[h] = d[h],
         NEW h \in Files
  PROVE  /\ Rests(e, G \union {f}, name, h) <=> Rests(d, G, name, h)
         /\ Rests(d, G, name, h) => e[GoesOn(G \union {f}, name, h)] = d[GoesOn(G, name, h)]
<1> DEFINE H == G \union {f}
           to == Destination(f, name)
<1>1. /\ to \in Files /\ to # f
      /\ \A g \in H : g # to
      /\ \A g \in H \ {f} : Destination(g, name) # to
      /\ \A g \in H : Destination(g, name) # f
  BY Apart
<1>2. \A g \in H : Destination(g, name) \in Files
  BY Destined
<1> HIDE DEF to
<1>3. CASE h = f
  <2>1. Rests(e, H, name, h) /\ GoesOn(H, name, h) = to
    BY <1>3 DEF Rests, GoesOn, to
  <2>2. Rests(d, G, name, h) /\ GoesOn(G, name, h) = f
    BY <1>1, <1>3 DEF Rests, GoesOn
  <2> QED
    BY <2>1, <2>2 DEF to
<1>4. CASE h = to
  <2>1. ~Rests(e, H, name, h)
    BY <1>1, <1>4 DEF Rests, to
  <2>2. ~Rests(d, G, name, h)
    BY <1>1, <1>4 DEF Rests, to
  <2> QED
    BY <2>1, <2>2
<1>5. CASE h \in G
  <2>1. Rests(e, H, name, h) /\ Rests(d, G, name, h)
    BY <1>5 DEF Rests
  <2>2. h # f /\ GoesOn(H, name, h) = Destination(h, name) /\ GoesOn(G, name, h) = Destination(h, name)
    BY <1>5 DEF GoesOn
  <2>3. Destination(h, name) \in Files \ {f, to}
    BY <1>1, <1>2, <1>5, <2>2
  <2> QED
    BY <2>1, <2>2, <2>3 DEF to
<1>6. CASE h \notin H /\ h # to
  <2>1. e[h] = d[h] /\ GoesOn(H, name, h) = h /\ GoesOn(G, name, h) = h
    BY <1>6 DEF GoesOn, to
  <2>2. Rests(e, H, name, h) <=> Rests(d, G, name, h)
    BY <1>6, <2>1 DEF Rests, to
  <2> QED
    BY <2>1, <2>2
<1> QED
  BY <1>3, <1>4, <1>5, <1>6

\* As long as every file is where it was or is to be, so are pairs and the loops' audio.
LEMMA Unmoved ==
  ASSUME FilesInv, PairInv, ~Saving, ~Saving', UNCHANGED <<loop_files, interrupted>>,
         faults' <= 1 => faults <= 1, Ways',
         faults' <= 1 =>
           \A h \in Files : /\ Stood(h)' <=> Stood(h)
                            /\ Stood(h) => dir'[Place(h)'] = dir[Place(h)]
  PROVE  PairInv'
<1>1. \A n \in Names : <<"audio", n>> \in Files /\ <<"meta", n>> \in Files
  BY DEF Files
<1>2. faults' <= 1 => Named'
  <2> SUFFICES ASSUME faults' <= 1, NEW s \in Slots, loop_files[s] # None
               PROVE  Stood(<<"audio", loop_files[s]>>)'
    BY DEF Named
  <2>1. loop_files[s] \in Names
    BY DEF FilesInv, FilesTypeOK
  <2>2. Stood(<<"audio", loop_files[s]>>)
    BY DEF PairInv, Named
  <2>3. Stood(<<"audio", loop_files[s]>>)' <=> Stood(<<"audio", loop_files[s]>>)
    BY <1>1, <2>1
  <2> QED
    BY <2>2, <2>3
<1>3. faults' <= 1 /\ ~interrupted => Mated'
  <2> SUFFICES ASSUME faults' <= 1, ~interrupted, NEW n \in Names, Stood(<<"audio", n>>)'
               PROVE  /\ Stood(<<"meta", n>>)'
                      /\ dir'[Place(<<"audio", n>>)'] \in Takes
                      /\ dir'[Place(<<"meta", n>>)'] = Whole
    BY DEF Mated
  <2>1. Stood(<<"audio", n>>) /\ dir'[Place(<<"audio", n>>)'] = dir[Place(<<"audio", n>>)]
    BY <1>1
  <2>2. Stood(<<"meta", n>>) /\ dir[Place(<<"audio", n>>)] \in Takes /\ dir[Place(<<"meta", n>>)] = Whole
    BY <2>1 DEF PairInv, Mated
  <2>3. Stood(<<"meta", n>>)' /\ dir'[Place(<<"meta", n>>)'] = dir[Place(<<"meta", n>>)]
    BY <1>1, <2>2
  <2> QED
    BY <2>1, <2>2, <2>3
<1> QED
  BY <1>2, <1>3 DEF PairInv, NewIsNew

LEMMA RenameFilePairs == ASSUME FilesInv, PairInv, NEW f \in Files, RenameFile(f) PROVE PairInv'
<1> DEFINE to == Destination(f, job.name)
<1>1. job \in Renames /\ job.kind = "rename" /\ f \in job.todo /\ Renaming /\ ~Saving
  BY JobKinds DEF RenameFile, FilesInv, Renaming, Saving
<1>2. /\ job.moved \in SUBSET Files /\ job.todo \in SUBSET Files /\ job.name \in Names
      /\ Distinct(job.todo \union job.moved, job.name) /\ f \notin job.moved
      /\ dir[to] = None /\ dir \in [Files -> Takes \union {None, Torn, Whole}]
  BY <1>1 DEF Renames, FilesInv, RoomAhead, RoomBehind, FilesTypeOK
<1>3. dir[f] # None
  BY <1>1 DEF PairInv, Ways
<1>4. /\ job'.kind = "rename" /\ job'.name = job.name
      /\ job'.todo = job.todo \ {f} /\ job'.moved = job.moved \union {f}
      /\ UNCHANGED <<loop_files, faults, interrupted>>
  BY <1>1 DEF RenameFile, Renames, libraryHistory
<1>5. Gone = job.moved /\ Gone' = job.moved \union {f} /\ ~Saving'
  BY <1>1, <1>4 DEF Gone, Renaming, Saving
<1>6. Distinct(job.moved \union {f}, job.name)
  BY <1>1, <1>2 DEF Distinct
<1>7. /\ to \in Files /\ to # f /\ to[2] = job.name
      /\ \A g \in job.todo \union job.moved : g # to
      /\ \A g \in (job.todo \union job.moved) \ {f} : Destination(g, job.name) # to
      /\ \A g \in job.todo \union job.moved : Destination(g, job.name) # f
  <2> DEFINE files == job.todo \union job.moved
  <2>1. files \in SUBSET Files /\ f \in files /\ Distinct(files, job.name)
    BY <1>1, <1>2
  <2>2. to[2] = job.name
    BY DEF Destination
  <2>4. job.name \in Names
    BY <1>2
  <2> HIDE DEF files
  <2>3. /\ to \in Files /\ to # f
        /\ \A g \in files : g # to
        /\ \A g \in files \ {f} : Destination(g, job.name) # to
        /\ \A g \in files : Destination(g, job.name) # f
    BY ONLY <2>1, <2>4, Apart
  <2> QED
    BY <2>2, <2>3 DEF files
<1>8. dir'[to] = dir[f] /\ dir'[f] = None /\ \A h \in Files \ {f, to} : dir'[h] = dir[h]
  <2>1. dir' = Moved(f, to)
    BY DEF RenameFile
  <2> HIDE DEF to
  <2> QED
    BY <1>2, <1>7, <2>1 DEF Moved
<1>9. \A h \in Files : /\ Stood(h)' <=> Stood(h)
                       /\ Stood(h) => dir'[Place(h)'] = dir[Place(h)]
  <2> SUFFICES ASSUME NEW h \in Files
               PROVE  /\ Stood(h)' <=> Stood(h)
                      /\ Stood(h) => dir'[Place(h)'] = dir[Place(h)]
    OBVIOUS
  <2>1. /\ Rests(dir', job.moved \union {f}, job.name, h) <=> Rests(dir, job.moved, job.name, h)
        /\ Rests(dir, job.moved, job.name, h) =>
             dir'[GoesOn(job.moved \union {f}, job.name, h)] = dir[GoesOn(job.moved, job.name, h)]
    <3> DEFINE went == job.moved
    <3> DEFINE goes == went \union {f}
    <3> DEFINE d == dir
    <3> DEFINE e == dir'
    <3>1. went \in SUBSET Files /\ f \notin went /\ job.name \in Names /\ Distinct(goes, job.name)
      BY <1>2, <1>6
    <3> QED
      BY <1>2, <1>3, <1>6, <1>8, <3>1, Carried
  <2>2. /\ Stood(h)' <=> Rests(dir', job.moved \union {f}, job.name, h)
        /\ Place(h)' = GoesOn(job.moved \union {f}, job.name, h)
    BY <1>4, <1>5 DEF Stood, Place, Rests, GoesOn, Destination
  <2>3. (Stood(h) <=> Rests(dir, job.moved, job.name, h)) /\ Place(h) = GoesOn(job.moved, job.name, h)
    BY <1>5 DEF Stood, Place
  <2> QED
    BY <2>1, <2>2, <2>3
<1>10. Ways'
  <2>1. ASSUME NEW g \in job'.moved PROVE dir'[Destination(g, job.name)] # None
    <3>1. CASE g = f
      BY <1>3, <1>8, <3>1
    <3>2. CASE g # f
      <4>1. g \in job.moved /\ dir[Destination(g, job.name)] # None
        BY <1>1, <1>4, <3>2 DEF PairInv, Ways
      <4>2. Destination(g, job.name) \in Files \ {f, to}
        BY <1>2, <1>7, <3>2, <4>1, Destined
      <4> QED
        BY <1>8, <4>1, <4>2
    <3> QED
      BY <3>1, <3>2
  <2>2. ASSUME NEW g \in job'.todo PROVE dir'[g] # None
    <3>1. g \in job.todo /\ g \in Files \ {f, to} /\ dir[g] # None
      BY <1>1, <1>2, <1>4, <1>7 DEF PairInv, Ways
    <3> QED
      BY <1>8, <3>1
  <2>3. ASSUME NEW g \in Files, dir'[g] # None, g[2] # job.name PROVE g \in job'.todo
    <3>1. g \in Files \ {f, to} /\ dir[g] # None
      BY <1>7, <1>8, <2>3
    <3> QED
      BY <1>1, <1>4, <2>3, <3>1 DEF PairInv, Ways
  <2> QED
    BY <1>4, <2>1, <2>2, <2>3 DEF Ways, Destination
<1> QED
  BY <1>1, <1>4, <1>5, <1>9, <1>10, Unmoved

LEMMA RenameFailsPairs == ASSUME FilesInv, PairInv, RenameFails PROVE PairInv'
<1>1. job \in Renames /\ job.kind = "rename" /\ Renaming /\ ~Saving /\ faults \in Nat
  BY JobKinds, FaultsGrow DEF RenameFails, FilesInv, Renaming, Saving
<1>2. /\ job'.kind = "back" /\ job'.name = job.name /\ job'.moved = job.moved
      /\ UNCHANGED <<dir, loop_files, interrupted>> /\ faults' = faults + 1
  BY <1>1 DEF RenameFails, Renames, Failing
<1>3. Gone' = Gone /\ ~Saving'
  BY <1>1, <1>2 DEF Gone, Renaming, Saving
<1>4. \A h : (Stood(h)' <=> Stood(h)) /\ Place(h)' = Place(h)
  BY <1>2, <1>3 DEF Stood, Place, Rests, GoesOn, Destination
<1>5. Ways'
  BY <1>1, <1>2 DEF PairInv, Ways, Renaming, Destination
<1> QED
  BY <1>1, <1>2, <1>3, <1>4, <1>5, Unmoved

LEMMA RenameBackPairs == ASSUME FilesInv, PairInv, NEW f \in Files, RenameBack(f) PROVE PairInv'
<1> DEFINE to == Destination(f, job.name)
           left == job.moved \ {f}
<1>1. /\ job \in Renames /\ job.kind = "back" /\ f \in job.moved /\ Renaming /\ ~Saving
      /\ faults \in Nat /\ faults > 0
  BY JobKinds, FaultsGrow DEF RenameBack, FilesInv, Renaming, Saving, PairInv, Ways
<1>2. /\ job.moved \in SUBSET Files /\ job.name \in Names /\ Distinct(job.moved, job.name)
      /\ dir[f] = None /\ dir \in [Files -> Takes \union {None, Torn, Whole}]
  BY <1>1 DEF Renames, FilesInv, RoomAhead, RoomBehind, FilesTypeOK, Distinct, Renaming
<1>3. /\ job'.kind = "back" /\ job'.name = job.name /\ job'.moved = left
      /\ UNCHANGED <<loop_files, interrupted>>
  BY <1>1 DEF RenameBack, Renames
<1>4. Gone = left \union {f} /\ Gone' = left /\ ~Saving'
  BY <1>1, <1>3 DEF Gone, Renaming, Saving
<1>5. /\ to \in Files /\ to # f /\ \A g \in left : Destination(g, job.name) \in Files \ {f, to}
  <2>1. /\ \A g \in job.moved \ {f} : Destination(g, job.name) # to
        /\ \A g \in job.moved : Destination(g, job.name) # f
        /\ to \in Files /\ to # f
    <3>1. PICK files : files = job.moved
      OBVIOUS
    <3>2. files \in SUBSET Files /\ f \in files /\ Distinct(files, job.name)
      BY <1>1, <1>2, <3>1
    <3>3. /\ to \in Files /\ to # f
          /\ \A g \in files \ {f} : Destination(g, job.name) # to
          /\ \A g \in files : Destination(g, job.name) # f
      BY <1>2, <3>2, Apart
    <3> QED
      BY <3>1, <3>3
  <2> QED
    BY <1>2, <2>1, Destined
<1>6. \A g \in job.moved : dir[Destination(g, job.name)] # None
  BY <1>1 DEF PairInv, Ways
<1>7. CASE Failing(1) /\ UNCHANGED dir
  <2>1. ~(faults' <= 1) /\ faults' > 0
    BY <1>1, <1>7 DEF Failing
  <2>2. Ways'
    BY <1>3, <1>6, <1>7, <2>1 DEF Ways, Destination
  <2> QED
    BY <1>1, <1>3, <1>4, <2>1, <2>2, Unmoved
<1>8. CASE dir' = Moved(to, f) /\ UNCHANGED faults
  <2>1. dir'[f] = dir[to] /\ dir'[to] = None /\ \A h \in Files \ {f, to} : dir'[h] = dir[h]
    <3> HIDE DEF to
    <3> QED
      BY <1>2, <1>5, <1>8 DEF Moved
  <2>2. \A h \in Files : /\ Stood(h)' <=> Stood(h)
                         /\ Stood(h) => dir'[Place(h)'] = dir[Place(h)]
    <3> SUFFICES ASSUME NEW h \in Files
                 PROVE  /\ Stood(h)' <=> Stood(h)
                        /\ Stood(h) => dir'[Place(h)'] = dir[Place(h)]
      OBVIOUS
    <3>1. left \in SUBSET Files /\ f \notin left /\ left \union {f} = job.moved
      BY <1>1, <1>2
    <3>2. dir'[f] # None /\ dir[to] = dir'[f]
      BY <1>1, <1>6, <2>1
    <3>3. \A k \in Files \ {f, to} : dir[k] = dir'[k]
      BY <2>1
    <3> HIDE DEF left
    <3>4. /\ Rests(dir, left \union {f}, job.name, h) <=> Rests(dir', left, job.name, h)
          /\ Rests(dir', left, job.name, h) =>
               dir[GoesOn(left \union {f}, job.name, h)] = dir'[GoesOn(left, job.name, h)]
      BY <1>2, <2>1, <3>1, <3>2, <3>3, Carried
    <3>5. (Stood(h)' <=> Rests(dir', left, job.name, h)) /\ Place(h)' = GoesOn(left, job.name, h)
      BY <1>3, <1>4 DEF Stood, Place, Rests, GoesOn, Destination
    <3>6. /\ Stood(h) <=> Rests(dir, left \union {f}, job.name, h)
          /\ Place(h) = GoesOn(left \union {f}, job.name, h)
      BY <1>4 DEF Stood, Place
    <3> QED
      BY <3>4, <3>5, <3>6
  <2>3. \A g \in left : dir'[Destination(g, job.name)] # None
    BY <1>5, <1>6, <2>1
  <2>4. Ways'
    BY <1>1, <1>3, <1>8, <2>3 DEF Ways, Destination
  <2> QED
    BY <1>1, <1>3, <1>4, <1>8, <2>2, <2>4, Unmoved
<1> QED
  BY <1>7, <1>8 DEF RenameBack

LEMMA RolledBackPairs == ASSUME FilesInv, PairInv, RolledBack PROVE PairInv'
<1>1. job.kind = "back" /\ job.moved = {} /\ Renaming /\ ~Saving
  BY DEF RolledBack, Renaming, Saving
<1>2. job' = NoJob /\ UNCHANGED <<dir, loop_files, faults, interrupted>> /\ ~Saving'
  BY DEF RolledBack, libraryHistory, NoJob, Saving
<1>3. Gone = {} /\ Gone' = {}
  BY <1>1, <1>2 DEF Gone, Renaming, NoJob
<1>4. \A h : (Stood(h)' <=> Stood(h)) /\ Place(h)' = h /\ Place(h) = h
  BY <1>2, <1>3 DEF Stood, Place, Rests, GoesOn
<1>5. Ways'
  BY <1>2 DEF Ways, NoJob, Renaming
<1> QED
  BY <1>1, <1>2, <1>4, <1>5, Unmoved

LEMMA RenamedPairs == ASSUME FilesInv, PairInv, Renamed PROVE PairInv'
<1>1. job \in Renames /\ job.kind = "rename" /\ job.todo = {} /\ Renaming /\ ~Saving
  BY JobKinds DEF Renamed, FilesInv, Renaming, Saving
<1>2. job.moved \in SUBSET Files /\ job.name \in Names /\ \A f \in job.moved : f[2] # job.name
  BY <1>1 DEF Renames, FilesInv, RoomAhead, Distinct
<1>3. /\ Gone = job.moved
      /\ \A f \in job.moved : dir[Destination(f, job.name)] # None
      /\ \A f \in Files : dir[f] # None => f[2] = job.name
  BY <1>1 DEF Gone, PairInv, Ways
<1>4. job' = NoJob /\ UNCHANGED <<dir, faults, interrupted>>
  BY DEF Renamed, libraryHistory
<1>5. faults <= 1 => NamedHere'
  <2> SUFFICES ASSUME faults <= 1, NEW s \in Slots, loop_files'[s] # None
               PROVE  dir[<<"audio", loop_files'[s]>>] # None
    BY <1>4 DEF NamedHere
  <2>1. CASE <<"audio", loop_files[s]>> \in job.moved
    <3>1. loop_files'[s] = job.name
      BY <2>1 DEF Renamed
    <3>2. Destination(<<"audio", loop_files[s]>>, job.name) = <<"audio", job.name>>
      BY DEF Destination
    <3> QED
      BY <1>3, <2>1, <3>1, <3>2
  <2>2. CASE <<"audio", loop_files[s]>> \notin job.moved
    <3>1. loop_files'[s] = loop_files[s]
      BY <2>2 DEF Renamed
    <3>2. Stood(<<"audio", loop_files[s]>>)
      BY <3>1 DEF PairInv, Named
    <3> QED
      BY <1>3, <2>2, <3>1, <3>2 DEF Stood, Rests
  <2> QED
    BY <2>1, <2>2
<1>6. faults <= 1 /\ ~interrupted => \A n \in Names : dir'[<<"audio", n>>] # None => Together(n)'
  <2> SUFFICES ASSUME faults <= 1, ~interrupted, NEW n \in Names, dir[<<"audio", n>>] # None
               PROVE  Together(n)
    BY <1>4 DEF Together
  <2>1. \A m \in Names : <<"audio", m>> \in Files /\ <<"meta", m>> \in Files
    BY DEF Files
  <2>2. n = job.name
    BY <1>3, <2>1
  <2>3. \A m \in Names : Stood(<<"audio", m>>) =>
          /\ Stood(<<"meta", m>>)
          /\ dir[Place(<<"audio", m>>)] \in Takes /\ dir[Place(<<"meta", m>>)] = Whole
    BY <1>1 DEF PairInv, Mated
  <2>4. CASE \E g \in job.moved : <<"audio", n>> = Destination(g, job.name)
    <3>1. PICK g \in job.moved : <<"audio", n>> = Destination(g, job.name)
      BY <2>4
    <3>2. g = <<"audio", g[2]>> /\ g[2] \in Names /\ g[2] # job.name
      <4>1. g \in Files /\ g[1] = "audio"
        BY <1>2, <3>1 DEF Destination
      <4> QED
        BY <1>2, <4>1, FileParts
    <3> DEFINE m == g[2]
    <3>3. Stood(<<"audio", m>>) /\ Place(<<"audio", m>>) = <<"audio", job.name>>
      BY <1>3, <3>1, <3>2 DEF Stood, Rests, Place, GoesOn, Destination
    <3>4. /\ Stood(<<"meta", m>>) /\ dir[<<"audio", job.name>>] \in Takes
          /\ dir[Place(<<"meta", m>>)] = Whole
      BY <2>3, <3>2, <3>3
    <3>5. <<"meta", m>> \in job.moved
      <4>1. <<"meta", m>> \in Files /\ <<"meta", m>>[2] # job.name
        BY <2>1, <3>2
      <4>2. dir[<<"meta", m>>] = None
        BY <1>3, <4>1
      <4> QED
        BY <1>3, <3>4, <4>2 DEF Stood, Rests
    <3>6. Place(<<"meta", m>>) = <<"meta", job.name>>
      BY <1>3, <3>5 DEF Place, GoesOn, Destination
    <3> QED
      BY <2>2, <3>4, <3>6 DEF Together
  <2>5. CASE \A g \in job.moved : <<"audio", n>> # Destination(g, job.name)
    <3>1. <<"audio", n>> \notin job.moved /\ <<"meta", n>> \notin job.moved
      BY <1>2, <2>2
    <3>2. Stood(<<"audio", n>>) /\ Place(<<"audio", n>>) = <<"audio", n>> /\ Place(<<"meta", n>>) = <<"meta", n>>
      BY <1>3, <2>5, <3>1 DEF Stood, Rests, Place, GoesOn
    <3> QED
      BY <2>3, <3>2 DEF Together
  <2> QED
    BY <2>4, <2>5
<1> QED
  BY <1>4, <1>5, <1>6, Rested

LEMMA PairSteps == ASSUME FilesInv, PairInv, [FilesNext]_libraryVars PROVE PairInv'
<1>1. CASE UNCHANGED libraryVars
  BY <1>1 DEF libraryVars, PairInv, Ways, Named, NewIsNew, Mated, Stood, Place, Gone, Rests, GoesOn,
    Saving, Renaming, Destination
<1>2. CASE \E s \in Slots : FillMetadata(s) \/ CreateAudio(s)
  BY <1>2, FillPairs, CreatePairs
<1>3. CASE \E s \in Slots : \/ \E t \in Takes : RecordTake(s, t)
                            \/ EraseLoop(s) \/ ReuseAudio(s)
                            \/ \E n \in Names : LoadLoop(s, n)
  BY <1>3, SessionStepsPair
<1>4. CASE Encoded \/ EncodeFails \/ OpenMetadata \/ WriteMetadata \/ MetadataFails
  BY <1>4, SaveGoesOn, SaveFailsPairs, WritePairs
<1>5. CASE \E n \in Names : StartRename(n)
  BY <1>5, StartRenamePairs
<1>6. CASE \E f \in Files : RenameFile(f) \/ RenameBack(f)
  BY <1>6, RenameFilePairs, RenameBackPairs
<1>7. CASE RenameFails \/ RolledBack \/ Renamed
  BY <1>7, RenameFailsPairs, RolledBackPairs, RenamedPairs
<1>8. CASE Restart
  BY <1>8, RestartPairs
<1> QED
  BY <1>1, <1>2, <1>3, <1>4, <1>5, <1>6, <1>7, <1>8 DEF FilesNext

--------------------------------------------------------------------------
(* Theorems                                                                *)

\* The library's state has its type in every reachable state: in particular no
\* audio file ever holds metadata, nor the reverse.
THEOREM TypeCorrect == FilesSpec => []FilesTypeOK
<1>1. FilesInv => FilesTypeOK
  BY DEF FilesInv
<1> QED
  BY FilesStart, NextInv, <1>1, PTL DEF FilesSpec

\* No sequence of saves, collisions, failing calls, renames, rollbacks and
\* restarts replaces or removes a take whose save was reported done
\* (save_exported_loop, rename_persisted_path), whatever the number of each.
THEOREM TakesAreKept == FilesSpec => []SavedTakesAreKept
<1>1. FilesInv => SavedTakesAreKept
  BY DEF FilesInv
<1> QED
  BY FilesStart, NextInv, <1>1, PTL DEF FilesSpec

\* As long as no operation was cut short, no single failure of the file system parts a saved
\* take from its metadata, and the session's loops have audio under the names it knows: a
\* save that fails leaves no audio, a rename that fails is taken back, whatever was saved and
\* renamed before (write_loop_metadata_or_remove_audio, rename_persisted_path).
THEOREM PairsStayWhole == FilesSpec => []SavedPairIsWhole
<1>1. FilesInit => PairInv
  <2> SUFFICES ASSUME FilesInit PROVE PairInv
    OBVIOUS
  <2>1. ~Saving /\ ~Renaming /\ job.kind = "none"
    BY DEF FilesInit, NoJob, Saving, Renaming
  <2>2. \A n \in Names : dir[<<"audio", n>>] = None
    BY DEF FilesInit, Files
  <2>3. MatedHere /\ NamedHere
    BY <2>2 DEF FilesInit, MatedHere, NamedHere
  <2> QED
    BY <2>1, <2>3, InPlace DEF PairInv, Ways, NewIsNew
<1>2. FilesInv /\ PairInv /\ [FilesNext]_libraryVars => PairInv'
  BY PairSteps
<1>3. FilesInv /\ PairInv => SavedPairIsWhole
  <2> SUFFICES ASSUME FilesInv, PairInv, faults <= 1, job = NoJob PROVE SavedPairIsWhole
    BY DEF SavedPairIsWhole
  <2>1. NamedHere /\ (~interrupted => \A n \in Names : dir[<<"audio", n>>] # None => Together(n))
    BY Resting DEF FilesInv
  <2>2. ASSUME ~interrupted, NEW t \in saved
        PROVE  \E n \in Names : dir[<<"audio", n>>] = t /\ dir[<<"meta", n>>] = Whole
    <3>1. PICK n \in Names : dir[<<"audio", n>>] = t
      BY DEF FilesInv, SavedTakesAreKept
    <3>2. t # None
      BY DEF FilesInv, FilesTypeOK
    <3> QED
      BY <2>1, <2>2, <3>1, <3>2 DEF Together
  <2> QED
    BY <2>1, <2>2 DEF SavedPairIsWhole, NamedHere, Exists
<1> QED
  BY FilesStart, NextInv, <1>1, <1>2, <1>3, PTL DEF FilesSpec
=============================================================================
