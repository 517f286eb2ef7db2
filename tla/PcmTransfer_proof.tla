------------------------ MODULE PcmTransfer_proof ------------------------
(***************************************************************************)
(* Proofs about PcmTransfer, for every number of transfers and loops.  The *)
(* invariant says, for each place the two threads can be at, who owns the  *)
(* transfer they are working on; there is one lemma per operation.         *)
(***************************************************************************)
EXTENDS PcmTransfer, SequenceTheorems, TLAPS

\* Where a call of the control thread is tells who owns its transfer.
ControlOwns ==
  /\ cop \in {"bump", "exportBump"} =>
       state[arg.t] = "Control" /\ generation[arg.t] + 1 = arg.g
  /\ cop \in {"exportQueue", "write"} =>
       state[arg.t] = "Control" /\ generation[arg.t] = arg.g
  /\ cop = "read" => state[arg.t] = "Exported" /\ generation[arg.t] = arg.g
  /\ cop \in {"import", "release"} =>
       /\ arg.seen \in {"Control", "Exported"}
       /\ state[arg.t] = arg.seen /\ generation[arg.t] = arg.g
  /\ Sending => state[arg.t] = "Queued" /\ generation[arg.t] = arg.g

\* A transfer that is Queued speaks through one command at most: in the
\* ring, in the hands of the callback, or about to be sent.
OneVoice ==
  /\ Sending => \A i \in 1..Len(commands) : commands[i].t /= arg.t
  /\ Serving => \A i \in 1..Len(commands) : commands[i].t /= cmd.t
  /\ Sending /\ Serving => cmd.t /= arg.t

\* Where the callback is tells who owns the transfer of its command.
CallbackOwns ==
  /\ bop \in {"check", "refuse", "claim"} =>
       state[cmd.t] = "Queued" /\ generation[cmd.t] = cmd.g
  /\ bop \in {"access", "publish"} => state[cmd.t] = "Callback"
  /\ bop \in {"claim", "access"} => Servable(cmd)

\* The export job owns its transfer and has something left to copy.
JobOwns ==
  JobOn => /\ state[job.t] = "Callback"
           /\ job.cursor <= job.frames
           /\ bop /= "publishJob" => job.cursor < job.frames
           /\ bop \in {"access", "publish"} => job.t /= cmd.t

PublishHasJob == bop = "publishJob" => JobOn

\* From acquire to publication the buffer of an export stays whole.
ExportsStayWhole ==
  /\ cop \in {"bump", "exportBump", "exportQueue", "exportSend"} =>
       pcm[arg.t] = [full |-> TRUE, len |-> 0]
  /\ \A i \in 1..Len(commands) :
       commands[i].kind = "export" => pcm[commands[i].t].full
  /\ Serving /\ cmd.kind = "export" => pcm[cmd.t].full
  /\ JobOn => pcm[job.t].full

IInv ==
  /\ TypeOK /\ ControlOwns /\ OneVoice /\ CallbackOwns /\ JobOwns
  /\ PublishHasJob /\ CommandsOwnTheirTransfer /\ FreeTransfersAreWhole
  /\ ExportsStayWhole

--------------------------------------------------------------------------
(* The command ring                                                        *)

\* What a send of c and a receive do to the ring.
Sent(c) ==
  /\ commands' \in Seq(Command) /\ Len(commands') = Len(commands) + 1
  /\ \A i \in 1..Len(commands) : commands'[i] = commands[i]
  /\ commands'[Len(commands) + 1] = c

Received ==
  /\ commands' \in Seq(Command) /\ Len(commands') = Len(commands) - 1
  /\ \A i \in 1..Len(commands') : i + 1 \in 1..Len(commands) /\ commands'[i] = commands[i + 1]
  /\ 1 \in 1..Len(commands) /\ Head(commands) = commands[1]

LEMMA CommandsTyped ==
  TypeOK => Len(commands) \in Nat /\ \A i \in 1..Len(commands) : commands[i] \in Command
BY DEF TypeOK

LEMMA RingSend ==
      ASSUME TypeOK, NEW c \in Command, commands' = Append(commands, c)
      PROVE  Sent(c)
<1>1. commands \in Seq(Command)
  BY DEF TypeOK
<1>2. Append(commands, c) \in Seq(Command) /\ Len(Append(commands, c)) = Len(commands) + 1
  BY <1>1, AppendProperties
<1>3. \A i \in 1..Len(commands) : Append(commands, c)[i] = commands[i]
  BY <1>1, AppendProperties
<1>4. Append(commands, c)[Len(commands) + 1] = c
  BY <1>1, AppendProperties
<1> QED
  BY <1>2, <1>3, <1>4 DEF Sent

LEMMA RingReceive ==
      ASSUME TypeOK, commands /= <<>>, commands' = Tail(commands)
      PROVE  Received
<1>1. commands \in Seq(Command)
  BY DEF TypeOK
<1>2. Len(commands) \in Nat /\ Len(commands) > 0
  BY <1>1, EmptySeq, LenProperties
<1>3. commands' \in Seq(Command) /\ Len(commands') = Len(commands) - 1
  BY <1>1, HeadTailProperties
<1>4. \A i \in 1..Len(commands') : commands'[i] = commands[i + 1]
  BY <1>1, <1>3, HeadTailProperties
<1>5. Head(commands) = commands[1]
  BY <1>1
<1> QED
  BY <1>2, <1>3, <1>4, <1>5 DEF Received

USE SizesAssumption DEF SizesAssumption, Transfers, States, MaxSize

--------------------------------------------------------------------------
(* Every operation keeps the invariant                                     *)

\* A job and the absence of one are different records.
LEMMA JobsDiffer == \A j \in Job : j /= NoJob
BY DEF Job, NoJob

\* A send keeps what the invariant says of the ring: the new command speaks
\* for a transfer that no other command names.
LEMMA SendKeepsRing ==
      ASSUME IInv, Sending, NEW c \in Command, Sent(c),
             c.t = arg.t, c.g = arg.g, c.kind = "export" => pcm[arg.t].full,
             cop' = "idle", UNCHANGED <<state, generation, pcm, cbVars>>
      PROVE  OneVoice' /\ CommandsOwnTheirTransfer' /\ ExportsStayWhole'
<1> USE DEF IInv, cbVars
<1>1. Len(commands) \in Nat /\ ~Sending' /\ Serving' = Serving /\ JobOn' = JobOn
  BY CommandsTyped DEF Sending, Serving, JobOn
<1>2. \A i \in 1..Len(commands') : i \in 1..Len(commands) \/ i = Len(commands) + 1
  BY <1>1 DEF Sent
<1>3. \A i \in 1..Len(commands) : commands'[i] = commands[i] /\ commands[i].t /= arg.t
  BY DEF Sent, OneVoice
<1>4. commands'[Len(commands) + 1] = c
  BY DEF Sent
<1>5. OneVoice'
  BY <1>1, <1>2, <1>3, <1>4 DEF OneVoice
<1>6. state[arg.t] = "Queued" /\ generation[arg.t] = arg.g
  BY DEF ControlOwns
<1>7. CommandsOwnTheirTransfer'
  <2>1. \A i \in 1..Len(commands') :
          state'[commands'[i].t] = "Queued" /\ generation'[commands'[i].t] = commands'[i].g
    BY <1>2, <1>3, <1>4, <1>6 DEF CommandsOwnTheirTransfer
  <2>2. \A i, j \in 1..Len(commands) : commands[i].t = commands[j].t => i = j
    BY DEF CommandsOwnTheirTransfer
  <2>3. \A i, j \in 1..Len(commands') : commands'[i].t = commands'[j].t => i = j
    BY <1>2, <1>3, <1>4, <2>2
  <2> QED
    BY <2>1, <2>3 DEF CommandsOwnTheirTransfer
<1>8. ExportsStayWhole'
  BY <1>1, <1>2, <1>3, <1>4 DEF ExportsStayWhole, Sending
<1> QED
  BY <1>5, <1>7, <1>8

\* A receive keeps it too, and the command that leaves the ring was the only
\* one to speak for its transfer.
LEMMA ReceiveKeepsRing ==
      ASSUME IInv, Received, UNCHANGED <<state, generation, pcm>>
      PROVE  /\ CommandsOwnTheirTransfer'
             /\ \A i \in 1..Len(commands') :
                  /\ i + 1 \in 1..Len(commands) /\ commands'[i] = commands[i + 1]
                  /\ commands'[i].t /= Head(commands).t
             /\ Head(commands) \in Command
             /\ state[Head(commands).t] = "Queued"
             /\ generation[Head(commands).t] = Head(commands).g
             /\ Sending => Head(commands).t /= arg.t
             /\ Head(commands).kind = "export" => pcm[Head(commands).t].full
<1> USE DEF IInv
<1>1. Len(commands) \in Nat /\ \A i \in 1..Len(commands) : commands[i] \in Command
  BY CommandsTyped
<1>2. 1 \in 1..Len(commands) /\ Head(commands) = commands[1]
  BY DEF Received
<1>3. \A i \in 1..Len(commands') : i + 1 \in 1..Len(commands) /\ commands'[i] = commands[i + 1]
  BY DEF Received
<1>4. \A i, j \in 1..Len(commands) : commands[i].t = commands[j].t => i = j
  BY DEF CommandsOwnTheirTransfer
<1>5. \A i \in 1..Len(commands') : i \in Nat /\ i + 1 /= 1
  BY <1>1 DEF Received
<1>6. \A i \in 1..Len(commands') : commands'[i].t /= Head(commands).t
  BY <1>2, <1>3, <1>4, <1>5
<1>7. CommandsOwnTheirTransfer'
  <2>1. \A i \in 1..Len(commands') :
          state'[commands'[i].t] = "Queued" /\ generation'[commands'[i].t] = commands'[i].g
    BY <1>3 DEF CommandsOwnTheirTransfer
  <2>2. \A i, j \in 1..Len(commands') : commands'[i].t = commands'[j].t => i = j
    BY <1>3, <1>4, <1>5
  <2> QED
    BY <2>1, <2>2 DEF CommandsOwnTheirTransfer
<1> QED
  BY <1>1, <1>2, <1>3, <1>6, <1>7
     DEF CommandsOwnTheirTransfer, OneVoice, ExportsStayWhole

\* A step of the control thread that takes no buffer away, and is not about
\* an export, leaves the buffers of the exports whole.
LEMMA WholeKept ==
      ASSUME IInv, cop' = "idle", UNCHANGED <<commands, bop, cmd, job>>,
             \A t \in Transfers : pcm[t].full => pcm'[t].full
      PROVE  ExportsStayWhole'
<1>1. \A i \in 1..Len(commands) : commands[i].t \in Transfers
  BY CommandsTyped DEF IInv, Command
<1>2. Serving => cmd.t \in Transfers
  BY DEF IInv, TypeOK, Command
<1>3. JobOn => job.t \in Transfers
  BY DEF IInv, TypeOK, Job, JobOn
<1> QED
  BY <1>1, <1>2, <1>3 DEF IInv, ExportsStayWhole, Serving, JobOn

\* Setting a field of one buffer, or two of one loop, keeps their types.
LEMMA SetLen ==
      ASSUME NEW S, NEW N, NEW f \in [S -> [full : BOOLEAN, len : N]], NEW t \in S, NEW n \in N
      PROVE  [f EXCEPT ![t].len = n] \in [S -> [full : BOOLEAN, len : N]]
OBVIOUS

LEMMA SetLoop ==
      ASSUME NEW S, NEW N, NEW f \in [S -> [full : BOOLEAN, len : N, rec : BOOLEAN]],
             NEW s \in S, NEW n \in N, NEW r \in BOOLEAN
      PROVE  [f EXCEPT ![s].len = n, ![s].rec = r]
               \in [S -> [full : BOOLEAN, len : N, rec : BOOLEAN]]
OBVIOUS

LEMMA AcquireKeeps ==
      ASSUME IInv, NEW t \in Transfers, NEW then \in {"bump", "exportBump"},
             NEW s \in AnySlot, Acquire(t, then, s)
      PROVE  IInv'
<1> USE DEF IInv, ctlVars, cbVars
<1>1. TypeOK'
  BY DEF Acquire, FirstFree, SetState, TypeOK, Sending, Serving, JobOn,
         Argument, Job, NoCommand
<1>2. ControlOwns'
  BY DEF Acquire, FirstFree, SetState, TypeOK, ControlOwns, OneVoice,
         CallbackOwns, JobOwns, Sending, Serving, JobOn, Argument, Command,
         Job
<1>3. OneVoice'
  BY DEF Acquire, FirstFree, SetState, TypeOK, OneVoice, ControlOwns,
         CallbackOwns, CommandsOwnTheirTransfer, Sending, Serving, Argument
<1>4. CallbackOwns'
  BY DEF Acquire, FirstFree, SetState, TypeOK, CallbackOwns,
         CommandsOwnTheirTransfer, ControlOwns, JobOwns, OneVoice, Sending,
         Serving, JobOn, Servable, Argument, Command, Job
<1>5. JobOwns'
  BY DEF Acquire, FirstFree, SetState, TypeOK, JobOwns, CallbackOwns,
         ControlOwns, PublishHasJob, Serving, JobOn, Servable, Argument, Job
<1>6. CommandsOwnTheirTransfer'
  BY CommandsTyped
     DEF Acquire, FirstFree, SetState, TypeOK, CommandsOwnTheirTransfer,
         ControlOwns, OneVoice, CallbackOwns, JobOwns, Sending, Serving,
         JobOn, Argument, Job, Command
<1>7. FreeTransfersAreWhole'
  BY DEF Acquire, FirstFree, SetState, TypeOK, FreeTransfersAreWhole,
         ControlOwns, CallbackOwns, JobOwns, Sending, Serving, JobOn,
         Argument, Command, Job
<1>8. ExportsStayWhole'
  BY CommandsTyped
     DEF Acquire, FirstFree, SetState, TypeOK, ExportsStayWhole,
         FreeTransfersAreWhole, ControlOwns, CallbackOwns, JobOwns,
         CommandsOwnTheirTransfer, OneVoice, Sending, Serving, JobOn,
         Argument, Job, Command
<1>9. PublishHasJob'
  BY DEF Acquire, PublishHasJob, JobOn
<1> QED
  BY <1>1, <1>2, <1>3, <1>4, <1>5, <1>6, <1>7, <1>8, <1>9

LEMMA EnterKeeps ==
      ASSUME IInv, NEW op \in {"write", "read", "import", "release"},
             NEW t \in Transfers,
             NEW g \in 1..generation[t], NEW s \in AnySlot,
             NEW allowed \in SUBSET States, Enter(op, t, g, s, allowed),
             op = "write" => allowed = {"Control"},
             op = "read" => allowed = {"Exported"},
             allowed \subseteq {"Control", "Exported"}
      PROVE  IInv'
<1> USE DEF IInv, ctlVars, cbVars
<1>1. TypeOK'
  BY DEF Enter, TypeOK, Sending, Serving, JobOn, Argument, Job, NoCommand
<1>2. ControlOwns'
  BY DEF Enter, TypeOK, ControlOwns, OneVoice, CallbackOwns, JobOwns,
         Sending, Serving, JobOn, Argument, Command, Job
<1>3. OneVoice'
  BY DEF Enter, TypeOK, OneVoice, ControlOwns, CallbackOwns,
         CommandsOwnTheirTransfer, Sending, Serving, Argument
<1>4. ExportsStayWhole'
  BY CommandsTyped
     DEF Enter, TypeOK, ExportsStayWhole, FreeTransfersAreWhole,
         ControlOwns, CallbackOwns, JobOwns, CommandsOwnTheirTransfer,
         OneVoice, Sending, Serving, JobOn, Argument, Job, Command
<1>5. /\ CallbackOwns'
        /\ JobOwns'
        /\ PublishHasJob'
        /\ CommandsOwnTheirTransfer'
        /\ FreeTransfersAreWhole'
  BY DEF Enter, CallbackOwns, JobOwns, PublishHasJob,
         CommandsOwnTheirTransfer, FreeTransfersAreWhole, JobOn, Servable
<1> QED
  BY <1>1, <1>2, <1>3, <1>4, <1>5

LEMMA BumpKeeps == ASSUME IInv, Bump PROVE IInv'
<1> USE DEF IInv, ctlVars, cbVars
<1>1. TypeOK'
  BY DEF Bump, Done, TypeOK, ControlOwns, Sending, Serving, JobOn, Argument,
         Job, NoCommand
<1>2. ControlOwns'
  BY DEF Bump, Done, TypeOK, ControlOwns, OneVoice, CallbackOwns, JobOwns,
         Sending, Serving, JobOn, Argument, Command, Job
<1>3. OneVoice'
  BY DEF Bump, Done, TypeOK, OneVoice, ControlOwns, CallbackOwns,
         CommandsOwnTheirTransfer, Sending, Serving, Argument
<1>4. CallbackOwns'
  BY DEF Bump, Done, TypeOK, CallbackOwns, CommandsOwnTheirTransfer,
         ControlOwns, JobOwns, OneVoice, Sending, Serving, JobOn, Servable,
         Argument, Command, Job
<1>5. CommandsOwnTheirTransfer'
  BY CommandsTyped
     DEF Bump, Done, TypeOK, CommandsOwnTheirTransfer, ControlOwns,
         OneVoice, CallbackOwns, JobOwns, Sending, Serving, JobOn, Argument,
         Job, Command
<1>6. ExportsStayWhole'
  BY CommandsTyped
     DEF Bump, Done, TypeOK, ExportsStayWhole, FreeTransfersAreWhole,
         ControlOwns, CallbackOwns, JobOwns, CommandsOwnTheirTransfer,
         OneVoice, Sending, Serving, JobOn, Argument, Job, Command
<1>7. JobOwns' /\ PublishHasJob' /\ FreeTransfersAreWhole'
  BY DEF Bump, Done, JobOwns, PublishHasJob, FreeTransfersAreWhole, JobOn
<1> QED
  BY <1>1, <1>2, <1>3, <1>4, <1>5, <1>6, <1>7

LEMMA QueueExportKeeps == ASSUME IInv, QueueExport PROVE IInv'
<1> USE DEF IInv, ctlVars, cbVars
<1>1. TypeOK'
  BY DEF QueueExport, SetState, TypeOK, Sending, Serving, JobOn, Argument,
         Job, NoCommand
<1>2. ControlOwns'
  BY DEF QueueExport, SetState, TypeOK, ControlOwns, OneVoice, CallbackOwns,
         JobOwns, Sending, Serving, JobOn, Argument, Command, Job
<1>3. OneVoice'
  BY DEF QueueExport, SetState, TypeOK, OneVoice, ControlOwns, CallbackOwns,
         CommandsOwnTheirTransfer, Sending, Serving, Argument
<1>4. CallbackOwns'
  BY DEF QueueExport, SetState, TypeOK, CallbackOwns,
         CommandsOwnTheirTransfer, ControlOwns, JobOwns, OneVoice, Sending,
         Serving, JobOn, Servable, Argument, Command, Job
<1>5. JobOwns'
  BY DEF QueueExport, SetState, TypeOK, JobOwns, CallbackOwns, ControlOwns,
         PublishHasJob, Serving, JobOn, Servable, Argument, Job
<1>6. CommandsOwnTheirTransfer'
  BY CommandsTyped
     DEF QueueExport, SetState, TypeOK, CommandsOwnTheirTransfer,
         ControlOwns, OneVoice, CallbackOwns, JobOwns, Sending, Serving,
         JobOn, Argument, Job, Command
<1>7. FreeTransfersAreWhole'
  BY DEF QueueExport, SetState, TypeOK, FreeTransfersAreWhole, ControlOwns,
         CallbackOwns, JobOwns, Sending, Serving, JobOn, Argument, Command,
         Job
<1>8. ExportsStayWhole'
  BY CommandsTyped
     DEF QueueExport, SetState, TypeOK, ExportsStayWhole,
         FreeTransfersAreWhole, ControlOwns, CallbackOwns, JobOwns,
         CommandsOwnTheirTransfer, OneVoice, Sending, Serving, JobOn,
         Argument, Job, Command
<1>9. PublishHasJob'
  BY DEF QueueExport, PublishHasJob, JobOn
<1> QED
  BY <1>1, <1>2, <1>3, <1>4, <1>5, <1>6, <1>7, <1>8, <1>9

LEMMA SendExportKeeps == ASSUME IInv, SendExport PROVE IInv'
<1> USE DEF IInv, ctlVars, cbVars
<1> DEFINE c == [kind |-> "export", slot |-> arg.slot, t |-> arg.t, g |-> arg.g]
<1>1. c \in Command
  BY DEF SendExport, TypeOK, Argument, Command
<1>2. commands' = Append(commands, c)
  BY DEF SendExport, Send
<1>3. Sent(c)
  BY <1>1, <1>2, RingSend
<1>4. TypeOK'
  BY <1>3, CommandsTyped
     DEF SendExport, Done, TypeOK, Sending, Serving, JobOn, Argument, Job,
         NoCommand, Sent, Command
<1>5. ControlOwns'
  BY DEF SendExport, Send, Done, TypeOK, ControlOwns, OneVoice,
         CallbackOwns, JobOwns, Sending, Serving, JobOn, Argument, Command,
         Job
<1>6. OneVoice' /\ CommandsOwnTheirTransfer' /\ ExportsStayWhole'
  <2>1. Sending /\ (c.kind = "export" => pcm[arg.t].full)
    BY DEF SendExport, Sending, ExportsStayWhole
  <2>2. cop' = "idle" /\ UNCHANGED <<state, generation, pcm, cbVars>>
    BY DEF SendExport, Done
  <2> QED
    BY <1>1, <1>3, <2>1, <2>2, SendKeepsRing
<1>7. /\ CallbackOwns'
        /\ JobOwns'
        /\ PublishHasJob'
        /\ FreeTransfersAreWhole'
  BY DEF SendExport, Done, CallbackOwns, JobOwns, PublishHasJob,
         FreeTransfersAreWhole, JobOn, Servable
<1> QED
  BY <1>4, <1>5, <1>6, <1>7

LEMMA RefusedExportKeeps == ASSUME IInv, RefusedExport PROVE IInv'
<1> USE DEF IInv, ctlVars, cbVars
<1>1. TypeOK'
  BY DEF RefusedExport, SetState, Done, TypeOK, Sending, Serving, JobOn,
         Argument, Job, NoCommand
<1>2. ControlOwns'
  BY DEF RefusedExport, SetState, Done, TypeOK, ControlOwns, OneVoice,
         CallbackOwns, JobOwns, Sending, Serving, JobOn, Argument, Command,
         Job
<1>3. OneVoice'
  BY DEF RefusedExport, SetState, Done, TypeOK, OneVoice, ControlOwns,
         CallbackOwns, CommandsOwnTheirTransfer, Sending, Serving, Argument
<1>4. CallbackOwns'
  BY DEF RefusedExport, SetState, Done, TypeOK, CallbackOwns,
         CommandsOwnTheirTransfer, ControlOwns, JobOwns, OneVoice, Sending,
         Serving, JobOn, Servable, Argument, Command, Job
<1>5. JobOwns'
  BY DEF RefusedExport, SetState, Done, TypeOK, JobOwns, CallbackOwns,
         ControlOwns, PublishHasJob, Sending, Serving, JobOn, Servable,
         Argument, Job
<1>6. CommandsOwnTheirTransfer'
  BY CommandsTyped
     DEF RefusedExport, SetState, Done, TypeOK, CommandsOwnTheirTransfer,
         ControlOwns, OneVoice, CallbackOwns, JobOwns, Sending, Serving,
         JobOn, Argument, Job, Command
<1>7. FreeTransfersAreWhole'
  BY DEF RefusedExport, SetState, Done, TypeOK, FreeTransfersAreWhole,
         ControlOwns, CallbackOwns, JobOwns, ExportsStayWhole, Sending,
         Serving, JobOn, Argument, Command, Job
<1>8. ExportsStayWhole'
  BY CommandsTyped
     DEF RefusedExport, SetState, Done, TypeOK, ExportsStayWhole,
         FreeTransfersAreWhole, ControlOwns, CallbackOwns, JobOwns,
         CommandsOwnTheirTransfer, OneVoice, Sending, Serving, JobOn,
         Argument, Job, Command
<1>9. PublishHasJob'
  BY DEF RefusedExport, Done, PublishHasJob, JobOn
<1> QED
  BY <1>1, <1>2, <1>3, <1>4, <1>5, <1>6, <1>7, <1>8, <1>9

LEMMA WriteKeeps ==
      ASSUME IInv, NEW n \in 1..Capacity, Write(n)
      PROVE  IInv'
<1> USE DEF IInv, ctlVars, cbVars
<1>1. TypeOK'
  <2>1. arg \in Argument
    BY DEF Write, TypeOK
  <2>2. Cap(arg.t) \in 0..MaxSize
    BY <2>1 DEF Cap, Argument, TypeOK
  <2>3. n <= Cap(arg.t) => n \in 0..MaxSize
    <3> HIDE DEF MaxSize
    <3>1. MaxSize \in Nat
      BY DEF MaxSize
    <3> QED
      BY <2>2, <3>1
  <2>4. arg.t \in Transfers /\ pcm \in [Transfers -> [full : BOOLEAN, len : 0..MaxSize]]
    BY <2>1 DEF Argument, TypeOK
  <2>5. pcm' \in [Transfers -> [full : BOOLEAN, len : 0..MaxSize]]
    <3> HIDE DEF MaxSize, Transfers
    <3>1. n <= Cap(arg.t) =>
            [pcm EXCEPT ![arg.t].len = n] \in [Transfers -> [full : BOOLEAN, len : 0..MaxSize]]
      BY <2>3, <2>4, SetLen
    <3> QED
      BY <2>4, <3>1 DEF Write
  <2> QED
    BY <2>5 DEF Write, Done, TypeOK, Serving, NoArg
<1>2. ControlOwns'
  BY DEF Write, Done, Cap, TypeOK, ControlOwns, OneVoice, CallbackOwns,
         JobOwns, Sending, Serving, JobOn, Argument, Command, Job
<1>3. OneVoice'
  BY DEF Write, Done, Cap, TypeOK, OneVoice, ControlOwns, CallbackOwns,
         CommandsOwnTheirTransfer, Sending, Serving, Argument
<1>4. FreeTransfersAreWhole'
  BY DEF Write, Done, Cap, TypeOK, FreeTransfersAreWhole, ControlOwns,
         CallbackOwns, JobOwns, Sending, Serving, JobOn, Argument, Command,
         Job
<1>5. ExportsStayWhole'
  <2>1. arg.t \in Transfers /\ pcm \in [Transfers -> [full : BOOLEAN, len : 0..MaxSize]]
    BY DEF Write, TypeOK, Argument
  <2>2. \A t \in Transfers : pcm[t].full => pcm'[t].full
    <3> HIDE DEF MaxSize, Transfers
    <3> QED
      BY <2>1 DEF Write
  <2>3. cop' = "idle" /\ UNCHANGED <<commands, bop, cmd, job>>
    BY DEF Write, Done
  <2> QED
    BY <2>2, <2>3, WholeKept
<1>6. /\ CallbackOwns'
        /\ JobOwns'
        /\ PublishHasJob'
        /\ CommandsOwnTheirTransfer'
  BY DEF Write, Done, CallbackOwns, JobOwns, PublishHasJob,
         CommandsOwnTheirTransfer, JobOn, Servable
<1> QED
  BY <1>1, <1>2, <1>3, <1>4, <1>5, <1>6

LEMMA ReadKeeps == ASSUME IInv, Read PROVE IInv'
<1> USE DEF IInv, ctlVars, cbVars
<1>1. TypeOK'
  BY DEF Read, Done, TypeOK, Sending, Serving, JobOn, Argument, Job,
         NoCommand
<1>2. ControlOwns'
  BY DEF Read, Done, TypeOK, ControlOwns, OneVoice, CallbackOwns, JobOwns,
         Sending, Serving, JobOn, Argument, Command, Job
<1>3. OneVoice'
  BY DEF Read, Done, TypeOK, OneVoice, ControlOwns, CallbackOwns,
         CommandsOwnTheirTransfer, Sending, Serving, Argument
<1>4. ExportsStayWhole'
  BY CommandsTyped
     DEF Read, Done, TypeOK, ExportsStayWhole, FreeTransfersAreWhole,
         ControlOwns, CallbackOwns, JobOwns, CommandsOwnTheirTransfer,
         OneVoice, Sending, Serving, JobOn, Argument, Job, Command
<1>5. /\ CallbackOwns'
        /\ JobOwns'
        /\ PublishHasJob'
        /\ CommandsOwnTheirTransfer'
        /\ FreeTransfersAreWhole'
  BY DEF Read, Done, CallbackOwns, JobOwns, PublishHasJob,
         CommandsOwnTheirTransfer, FreeTransfersAreWhole, JobOn, Servable
<1> QED
  BY <1>1, <1>2, <1>3, <1>4, <1>5

LEMMA QueueImportKeeps == ASSUME IInv, QueueImport PROVE IInv'
<1> USE DEF IInv, ctlVars, cbVars
<1>1. TypeOK'
  BY DEF QueueImport, SetState, Done, TypeOK, Sending, Serving, JobOn,
         Argument, Job, NoCommand
<1>2. ControlOwns'
  BY DEF QueueImport, SetState, Done, TypeOK, ControlOwns, OneVoice,
         CallbackOwns, JobOwns, Sending, Serving, JobOn, Argument, Command,
         Job
<1>3. OneVoice'
  BY DEF QueueImport, SetState, Done, TypeOK, OneVoice, ControlOwns,
         CallbackOwns, CommandsOwnTheirTransfer, Sending, Serving, Argument
<1>4. CallbackOwns'
  BY DEF QueueImport, SetState, Done, TypeOK, CallbackOwns,
         CommandsOwnTheirTransfer, ControlOwns, JobOwns, OneVoice, Sending,
         Serving, JobOn, Servable, Argument, Command, Job
<1>5. JobOwns'
  BY DEF QueueImport, SetState, Done, TypeOK, JobOwns, CallbackOwns,
         ControlOwns, PublishHasJob, Serving, JobOn, Servable, Argument, Job
<1>6. CommandsOwnTheirTransfer'
  <2>1. state[arg.t] /= "Queued" /\ \A t \in Transfers : t /= arg.t => state'[t] = state[t]
    BY DEF QueueImport, SetState, TypeOK, Argument, ControlOwns
  <2>2. UNCHANGED <<commands, generation>>
    BY DEF QueueImport
  <2> QED
    BY <2>1, <2>2, CommandsTyped DEF CommandsOwnTheirTransfer, Command
<1>7. FreeTransfersAreWhole'
  <2>1. arg.t \in Transfers /\ state \in [Transfers -> States]
    BY DEF QueueImport, TypeOK, Argument
  <2>2. \A t \in Transfers : state'[t] = "Free" => state[t] = "Free"
    <3> HIDE DEF Transfers
    <3> QED
      BY <2>1 DEF QueueImport, SetState
  <2> QED
    BY <2>2 DEF QueueImport, FreeTransfersAreWhole
<1>8. ExportsStayWhole'
  BY CommandsTyped
     DEF QueueImport, SetState, Done, TypeOK, ExportsStayWhole,
         FreeTransfersAreWhole, ControlOwns, CallbackOwns, JobOwns,
         CommandsOwnTheirTransfer, OneVoice, Sending, Serving, JobOn,
         Argument, Job, Command
<1>9. PublishHasJob'
  BY DEF QueueImport, Done, PublishHasJob, JobOn
<1> QED
  BY <1>1, <1>2, <1>3, <1>4, <1>5, <1>6, <1>7, <1>8, <1>9

LEMMA SendImportKeeps == ASSUME IInv, SendImport PROVE IInv'
<1> USE DEF IInv, ctlVars, cbVars
<1> DEFINE c == [kind |-> "import", slot |-> arg.slot, t |-> arg.t, g |-> arg.g]
<1>1. c \in Command
  BY DEF SendImport, TypeOK, Argument, Command
<1>2. commands' = Append(commands, c)
  BY DEF SendImport, Send
<1>3. Sent(c)
  BY <1>1, <1>2, RingSend
<1>4. TypeOK'
  BY <1>3, CommandsTyped
     DEF SendImport, Done, TypeOK, Sending, Serving, JobOn, Argument, Job,
         NoCommand, Sent, Command
<1>5. ControlOwns'
  BY DEF SendImport, Send, Done, TypeOK, ControlOwns, OneVoice,
         CallbackOwns, JobOwns, Sending, Serving, JobOn, Argument, Command,
         Job
<1>6. OneVoice' /\ CommandsOwnTheirTransfer' /\ ExportsStayWhole'
  <2>1. Sending /\ (c.kind = "export" => pcm[arg.t].full)
    BY DEF SendImport, Sending, ExportsStayWhole
  <2>2. cop' = "idle" /\ UNCHANGED <<state, generation, pcm, cbVars>>
    BY DEF SendImport, Done
  <2> QED
    BY <1>1, <1>3, <2>1, <2>2, SendKeepsRing
<1>7. /\ CallbackOwns'
        /\ JobOwns'
        /\ PublishHasJob'
        /\ FreeTransfersAreWhole'
  BY DEF SendImport, Done, CallbackOwns, JobOwns, PublishHasJob,
         FreeTransfersAreWhole, JobOn, Servable
<1> QED
  BY <1>4, <1>5, <1>6, <1>7

LEMMA RefusedImportKeeps == ASSUME IInv, RefusedImport PROVE IInv'
<1> USE DEF IInv, ctlVars, cbVars
<1>1. TypeOK'
  BY DEF RefusedImport, SetState, Done, TypeOK, Sending, Serving, JobOn,
         Argument, Job, NoCommand
<1>2. ControlOwns'
  BY DEF RefusedImport, SetState, Done, TypeOK, ControlOwns, OneVoice,
         CallbackOwns, JobOwns, Sending, Serving, JobOn, Argument, Command,
         Job
<1>3. OneVoice'
  BY DEF RefusedImport, SetState, Done, TypeOK, OneVoice, ControlOwns,
         CallbackOwns, CommandsOwnTheirTransfer, Sending, Serving, Argument
<1>4. CallbackOwns'
  BY DEF RefusedImport, SetState, Done, TypeOK, CallbackOwns,
         CommandsOwnTheirTransfer, ControlOwns, JobOwns, OneVoice, Sending,
         Serving, JobOn, Servable, Argument, Command, Job
<1>5. JobOwns'
  BY DEF RefusedImport, SetState, Done, TypeOK, JobOwns, CallbackOwns,
         ControlOwns, PublishHasJob, Sending, Serving, JobOn, Servable,
         Argument, Job
<1>6. CommandsOwnTheirTransfer'
  BY CommandsTyped
     DEF RefusedImport, SetState, Done, TypeOK, CommandsOwnTheirTransfer,
         ControlOwns, OneVoice, CallbackOwns, JobOwns, Sending, Serving,
         JobOn, Argument, Job, Command
<1>7. FreeTransfersAreWhole'
  BY DEF RefusedImport, SetState, Done, TypeOK, FreeTransfersAreWhole,
         ControlOwns, CallbackOwns, JobOwns, Sending, Serving, JobOn,
         Argument, Command, Job
<1>8. ExportsStayWhole'
  BY CommandsTyped
     DEF RefusedImport, SetState, Done, TypeOK, ExportsStayWhole,
         FreeTransfersAreWhole, ControlOwns, CallbackOwns, JobOwns,
         CommandsOwnTheirTransfer, OneVoice, Sending, Serving, JobOn,
         Argument, Job, Command
<1>9. PublishHasJob'
  BY DEF RefusedImport, Done, PublishHasJob, JobOn
<1> QED
  BY <1>1, <1>2, <1>3, <1>4, <1>5, <1>6, <1>7, <1>8, <1>9

LEMMA ReleaseKeeps == ASSUME IInv, Release PROVE IInv'
<1> USE DEF IInv, ctlVars, cbVars
<1>1. TypeOK'
  <2>1. arg.t \in Transfers /\ state \in [Transfers -> States]
        /\ pcm \in [Transfers -> [full : BOOLEAN, len : 0..MaxSize]]
    BY DEF Release, TypeOK, Argument
  <2>2. pcm' \in [Transfers -> [full : BOOLEAN, len : 0..MaxSize]]
    <3> HIDE DEF MaxSize, Transfers
    <3>1. 0 \in 0..MaxSize
      BY DEF MaxSize
    <3> QED
      BY <2>1, <3>1 DEF Release
  <2>3. state' \in [Transfers -> States]
    <3> HIDE DEF MaxSize, Transfers
    <3> QED
      BY <2>1 DEF Release, SetState
  <2> QED
    BY <2>2, <2>3 DEF Release, Done, TypeOK, Serving
<1>2. ControlOwns'
  BY DEF Release, SetState, Done, TypeOK, ControlOwns, OneVoice,
         CallbackOwns, JobOwns, Sending, Serving, JobOn, Argument, Command,
         Job
<1>3. OneVoice'
  BY DEF Release, SetState, Done, TypeOK, OneVoice, ControlOwns,
         CallbackOwns, CommandsOwnTheirTransfer, Sending, Serving, Argument
<1>4. CallbackOwns'
  BY DEF Release, SetState, Done, TypeOK, CallbackOwns,
         CommandsOwnTheirTransfer, ControlOwns, JobOwns, OneVoice, Sending,
         Serving, JobOn, Servable, Argument, Command, Job
<1>5. JobOwns'
  BY DEF Release, SetState, Done, TypeOK, JobOwns, CallbackOwns,
         ControlOwns, PublishHasJob, Serving, JobOn, Servable, Argument, Job
<1>6. CommandsOwnTheirTransfer'
  <2>1. state[arg.t] /= "Queued" /\ \A t \in Transfers : t /= arg.t => state'[t] = state[t]
    BY DEF Release, SetState, TypeOK, Argument, ControlOwns
  <2>2. UNCHANGED <<commands, generation>>
    BY DEF Release
  <2> QED
    BY <2>1, <2>2, CommandsTyped DEF CommandsOwnTheirTransfer, Command
<1>7. FreeTransfersAreWhole'
  BY DEF Release, SetState, Done, TypeOK, FreeTransfersAreWhole,
         ControlOwns, CallbackOwns, JobOwns, Sending, Serving, JobOn,
         Argument, Command, Job
<1>8. ExportsStayWhole'
  <2>1. arg.t \in Transfers /\ pcm \in [Transfers -> [full : BOOLEAN, len : 0..MaxSize]]
    BY DEF Release, TypeOK, Argument
  <2>2. \A t \in Transfers : pcm[t].full => pcm'[t].full
    <3> HIDE DEF MaxSize, Transfers
    <3> QED
      BY <2>1 DEF Release
  <2>3. cop' = "idle" /\ UNCHANGED <<commands, bop, cmd, job>>
    BY DEF Release, Done
  <2> QED
    BY <2>2, <2>3, WholeKept
<1>9. PublishHasJob'
  BY DEF Release, Done, PublishHasJob, JobOn
<1> QED
  BY <1>1, <1>2, <1>3, <1>4, <1>5, <1>6, <1>7, <1>8, <1>9

LEMMA RejectKeeps == ASSUME IInv, Reject PROVE IInv'
<1> USE DEF IInv, ctlVars, cbVars
<1>1. commands /= <<>> /\ commands' = Tail(commands)
  BY DEF Reject
<1>2. Received
  BY <1>1, RingReceive
<1>3. TypeOK'
  BY <1>2, CommandsTyped
     DEF Reject, TypeOK, Sending, Serving, JobOn, Argument, Job, NoCommand,
         Received, Command
<1>4. OneVoice'
  BY <1>2, CommandsTyped
     DEF Reject, TypeOK, OneVoice, ControlOwns, CallbackOwns,
         CommandsOwnTheirTransfer, Sending, Serving, Argument, Received,
         Command
<1>5. CommandsOwnTheirTransfer'
  BY <1>2, ReceiveKeepsRing DEF Reject
<1>6. ExportsStayWhole'
  BY <1>2, ReceiveKeepsRing DEF Reject, ExportsStayWhole, Serving, JobOn
<1>7. /\ ControlOwns'
        /\ CallbackOwns'
        /\ JobOwns'
        /\ PublishHasJob'
        /\ FreeTransfersAreWhole'
  BY DEF Reject, ControlOwns, CallbackOwns, JobOwns, PublishHasJob,
         FreeTransfersAreWhole, Sending, JobOn, Servable
<1> QED
  BY <1>3, <1>4, <1>5, <1>6, <1>7

LEMMA ReceiveKeeps == ASSUME IInv, Receive PROVE IInv'
<1> USE DEF IInv, ctlVars, cbVars
<1>1. commands /= <<>> /\ commands' = Tail(commands)
  BY DEF Receive
<1>2. Received
  BY <1>1, RingReceive
<1>3. TypeOK'
  <2>1. commands' \in Seq(Command) /\ Head(commands) \in Command
    BY <1>2, ReceiveKeepsRing DEF Receive, Received
  <2>2. cmd' = Head(commands) /\ bop' = "check"
    BY DEF Receive
  <2> QED
    BY <2>1, <2>2 DEF Receive, TypeOK, Serving
<1>4. OneVoice'
  BY <1>2, ReceiveKeepsRing DEF Receive, OneVoice, Sending, Serving
<1>5. CallbackOwns'
  BY <1>2, ReceiveKeepsRing DEF Receive, CallbackOwns
<1>6. JobOwns'
  BY DEF Receive, TypeOK, JobOwns, CallbackOwns, ControlOwns, PublishHasJob,
         Serving, JobOn, Servable, Argument, Job
<1>7. PublishHasJob'
  BY DEF Receive, PublishHasJob, JobOn
<1>8. CommandsOwnTheirTransfer'
  BY <1>2, ReceiveKeepsRing DEF Receive
<1>9. ExportsStayWhole'
  BY <1>2, ReceiveKeepsRing DEF Receive, ExportsStayWhole, Serving, JobOn
<1>10. ControlOwns' /\ FreeTransfersAreWhole'
  BY DEF Receive, ControlOwns, FreeTransfersAreWhole, Sending
<1> QED
  BY <1>3, <1>4, <1>5, <1>6, <1>7, <1>8, <1>9, <1>10

LEMMA CheckKeeps == ASSUME IInv, Check PROVE IInv'
<1> USE DEF IInv, ctlVars, cbVars
<1>1. TypeOK'
  BY DEF Check, Served, TypeOK, Sending, Serving, JobOn, Argument, Job,
         NoCommand
<1>2. OneVoice'
  BY DEF Check, Served, TypeOK, OneVoice, ControlOwns, CallbackOwns,
         CommandsOwnTheirTransfer, Sending, Serving, Argument
<1>3. CallbackOwns'
  BY DEF Check, Served, TypeOK, CallbackOwns, CommandsOwnTheirTransfer,
         ControlOwns, JobOwns, OneVoice, Sending, Serving, JobOn, Servable,
         Argument, Command, Job
<1>4. JobOwns'
  BY DEF Check, Served, TypeOK, JobOwns, CallbackOwns, ControlOwns,
         PublishHasJob, Serving, JobOn, Servable, Argument, Job
<1>5. PublishHasJob'
  BY DEF Check, Served, PublishHasJob, JobOn
<1>6. ExportsStayWhole'
  BY CommandsTyped
     DEF Check, Served, TypeOK, ExportsStayWhole, FreeTransfersAreWhole,
         ControlOwns, CallbackOwns, JobOwns, CommandsOwnTheirTransfer,
         OneVoice, Sending, Serving, JobOn, Argument, Job, Command
<1>7. /\ ControlOwns'
        /\ CommandsOwnTheirTransfer'
        /\ FreeTransfersAreWhole'
  BY DEF Check, ControlOwns, CommandsOwnTheirTransfer,
         FreeTransfersAreWhole, Sending
<1> QED
  BY <1>1, <1>2, <1>3, <1>4, <1>5, <1>6, <1>7

LEMMA RefuseKeeps == ASSUME IInv, Refuse PROVE IInv'
<1> USE DEF IInv, ctlVars, cbVars
<1>1. TypeOK'
  BY DEF Refuse, SetState, Served, TypeOK, Sending, Serving, JobOn,
         Argument, Job, NoCommand
<1>2. ControlOwns'
  BY DEF Refuse, SetState, Served, TypeOK, ControlOwns, OneVoice,
         CallbackOwns, JobOwns, Sending, Serving, JobOn, Argument, Command,
         Job
<1>3. OneVoice'
  BY DEF Refuse, SetState, Served, TypeOK, OneVoice, ControlOwns,
         CallbackOwns, CommandsOwnTheirTransfer, Sending, Serving, Argument
<1>4. CallbackOwns'
  BY DEF Refuse, SetState, Served, TypeOK, CallbackOwns,
         CommandsOwnTheirTransfer, ControlOwns, JobOwns, OneVoice, Sending,
         Serving, JobOn, Servable, Argument, Command, Job
<1>5. JobOwns'
  BY DEF Refuse, SetState, Served, TypeOK, JobOwns, CallbackOwns,
         ControlOwns, PublishHasJob, Serving, JobOn, Servable, Argument, Job
<1>6. PublishHasJob'
  BY DEF Refuse, SetState, Served, PublishHasJob, JobOn
<1>7. CommandsOwnTheirTransfer'
  BY CommandsTyped
     DEF Refuse, SetState, Served, TypeOK, CommandsOwnTheirTransfer,
         ControlOwns, OneVoice, CallbackOwns, JobOwns, Sending, Serving,
         JobOn, Argument, Job, Command
<1>8. FreeTransfersAreWhole'
  BY DEF Refuse, SetState, Served, TypeOK, FreeTransfersAreWhole,
         ControlOwns, CallbackOwns, JobOwns, Sending, Serving, JobOn,
         Argument, Command, Job
<1>9. ExportsStayWhole'
  BY CommandsTyped
     DEF Refuse, SetState, Served, TypeOK, ExportsStayWhole,
         FreeTransfersAreWhole, ControlOwns, CallbackOwns, JobOwns,
         CommandsOwnTheirTransfer, OneVoice, Sending, Serving, JobOn,
         Argument, Job, Command
<1> QED
  BY <1>1, <1>2, <1>3, <1>4, <1>5, <1>6, <1>7, <1>8, <1>9

LEMMA ClaimKeeps == ASSUME IInv, Claim PROVE IInv'
<1> USE DEF IInv, ctlVars, cbVars
<1>1. TypeOK'
  BY DEF Claim, SetState, TypeOK, Sending, Serving, JobOn, Argument, Job,
         NoCommand
<1>2. ControlOwns'
  BY DEF Claim, SetState, TypeOK, ControlOwns, OneVoice, CallbackOwns,
         JobOwns, Sending, Serving, JobOn, Argument, Command, Job
<1>3. OneVoice'
  BY DEF Claim, SetState, TypeOK, OneVoice, ControlOwns, CallbackOwns,
         CommandsOwnTheirTransfer, Sending, Serving, Argument
<1>4. CallbackOwns'
  BY DEF Claim, SetState, TypeOK, CallbackOwns, CommandsOwnTheirTransfer,
         ControlOwns, JobOwns, OneVoice, Sending, Serving, JobOn, Servable,
         Argument, Command, Job
<1>5. JobOwns'
  BY DEF Claim, SetState, TypeOK, JobOwns, CallbackOwns, ControlOwns,
         PublishHasJob, Serving, JobOn, Servable, Argument, Job
<1>6. PublishHasJob'
  BY DEF Claim, SetState, PublishHasJob, JobOn
<1>7. CommandsOwnTheirTransfer'
  BY CommandsTyped
     DEF Claim, SetState, TypeOK, CommandsOwnTheirTransfer, ControlOwns,
         OneVoice, CallbackOwns, JobOwns, Sending, Serving, JobOn, Argument,
         Job, Command
<1>8. FreeTransfersAreWhole'
  BY DEF Claim, SetState, TypeOK, FreeTransfersAreWhole, ControlOwns,
         CallbackOwns, JobOwns, Sending, Serving, JobOn, Argument, Command,
         Job
<1>9. ExportsStayWhole'
  BY CommandsTyped
     DEF Claim, SetState, TypeOK, ExportsStayWhole, FreeTransfersAreWhole,
         ControlOwns, CallbackOwns, JobOwns, CommandsOwnTheirTransfer,
         OneVoice, Sending, Serving, JobOn, Argument, Job, Command
<1> QED
  BY <1>1, <1>2, <1>3, <1>4, <1>5, <1>6, <1>7, <1>8, <1>9

LEMMA SwapInKeeps == ASSUME IInv, SwapIn PROVE IInv'
<1> USE DEF IInv, ctlVars, cbVars
<1>1. TypeOK'
  <2>1. cmd \in Command /\ cmd.slot \in Slots
    BY DEF SwapIn, TypeOK, Serving, CallbackOwns, Servable
  <2>2. pcm' \in [Transfers -> [full : BOOLEAN, len : 0..MaxSize]]
    BY <2>1 DEF SwapIn, TypeOK, Command
  <2>3. loops' \in [Slots -> [full : BOOLEAN, len : 0..MaxSize, rec : BOOLEAN]]
    BY <2>1 DEF SwapIn, TypeOK, Command
  <2> QED
    BY <2>1, <2>2, <2>3 DEF SwapIn, TypeOK, Serving
<1>2. OneVoice'
  BY DEF SwapIn, TypeOK, OneVoice, ControlOwns, CallbackOwns,
         CommandsOwnTheirTransfer, Sending, Serving, Argument
<1>3. CallbackOwns'
  BY DEF SwapIn, TypeOK, CallbackOwns, CommandsOwnTheirTransfer,
         ControlOwns, JobOwns, OneVoice, Sending, Serving, JobOn, Servable,
         Argument, Command, Job
<1>4. JobOwns'
  BY DEF SwapIn, TypeOK, JobOwns, CallbackOwns, ControlOwns, PublishHasJob,
         Serving, JobOn, Servable, Argument, Job
<1>5. PublishHasJob'
  BY DEF SwapIn, PublishHasJob, JobOn
<1>6. FreeTransfersAreWhole'
  BY DEF SwapIn, TypeOK, FreeTransfersAreWhole, ControlOwns, CallbackOwns,
         JobOwns, Sending, Serving, JobOn, Argument, Command, Job
<1>7. ExportsStayWhole'
  <2>1. cmd \in Command /\ cmd.kind = "import" /\ state[cmd.t] = "Callback"
    BY DEF SwapIn, TypeOK, Serving, CallbackOwns
  <2>2. \A t \in Transfers : t /= cmd.t => pcm'[t] = pcm[t]
    BY <2>1 DEF SwapIn, TypeOK, Command
  <2>3. cop \in {"bump", "exportBump", "exportQueue", "exportSend"} =>
          arg.t \in Transfers /\ arg.t /= cmd.t
    BY <2>1 DEF TypeOK, Argument, ControlOwns, Sending
  <2>4. \A i \in 1..Len(commands) : commands[i].t \in Transfers /\ commands[i].t /= cmd.t
    BY CommandsTyped DEF SwapIn, OneVoice, Serving, Command
  <2>5. JobOn => job.t \in Transfers /\ job.t /= cmd.t
    BY DEF SwapIn, JobOwns, TypeOK, Job, JobOn
  <2> QED
    BY <2>1, <2>2, <2>3, <2>4, <2>5 DEF SwapIn, ExportsStayWhole, JobOn, Serving
<1>8. ControlOwns' /\ CommandsOwnTheirTransfer'
  BY DEF SwapIn, ControlOwns, CommandsOwnTheirTransfer, Sending
<1> QED
  BY <1>1, <1>2, <1>3, <1>4, <1>5, <1>6, <1>7, <1>8

LEMMA PublishKeeps == ASSUME IInv, Publish PROVE IInv'
<1> USE DEF IInv, ctlVars, cbVars
<1>1. TypeOK'
  BY DEF Publish, SetState, Served, TypeOK, Sending, Serving, JobOn,
         Argument, Job, NoCommand
<1>2. ControlOwns'
  BY DEF Publish, SetState, Served, TypeOK, ControlOwns, OneVoice,
         CallbackOwns, JobOwns, Sending, Serving, JobOn, Argument, Command,
         Job
<1>3. OneVoice'
  BY DEF Publish, SetState, Served, TypeOK, OneVoice, ControlOwns,
         CallbackOwns, CommandsOwnTheirTransfer, Sending, Serving, Argument
<1>4. CallbackOwns'
  BY DEF Publish, SetState, Served, TypeOK, CallbackOwns,
         CommandsOwnTheirTransfer, ControlOwns, JobOwns, OneVoice, Sending,
         Serving, JobOn, Servable, Argument, Command, Job
<1>5. JobOwns'
  BY DEF Publish, SetState, Served, TypeOK, JobOwns, CallbackOwns,
         ControlOwns, PublishHasJob, Serving, JobOn, Servable, Argument, Job
<1>6. PublishHasJob'
  BY DEF Publish, SetState, Served, PublishHasJob, JobOn
<1>7. CommandsOwnTheirTransfer'
  BY CommandsTyped
     DEF Publish, SetState, Served, TypeOK, CommandsOwnTheirTransfer,
         ControlOwns, OneVoice, CallbackOwns, JobOwns, Sending, Serving,
         JobOn, Argument, Job, Command
<1>8. FreeTransfersAreWhole'
  BY DEF Publish, SetState, Served, TypeOK, FreeTransfersAreWhole,
         ControlOwns, CallbackOwns, JobOwns, Sending, Serving, JobOn,
         Argument, Command, Job
<1>9. ExportsStayWhole'
  BY CommandsTyped
     DEF Publish, SetState, Served, TypeOK, ExportsStayWhole,
         FreeTransfersAreWhole, ControlOwns, CallbackOwns, JobOwns,
         CommandsOwnTheirTransfer, OneVoice, Sending, Serving, JobOn,
         Argument, Job, Command
<1> QED
  BY <1>1, <1>2, <1>3, <1>4, <1>5, <1>6, <1>7, <1>8, <1>9

LEMMA StartExportKeeps == ASSUME IInv, StartExport PROVE IInv'
<1> USE DEF IInv, ctlVars, cbVars
<1>1. TypeOK'
  <2>1. cmd \in Command /\ cmd.slot \in Slots /\ cmd.t \in Transfers
    BY DEF StartExport, TypeOK, Serving, CallbackOwns, Servable, Command
  <2>2. loops[cmd.slot].len \in 0..MaxSize
    BY <2>1 DEF TypeOK
  <2>3. pcm' \in [Transfers -> [full : BOOLEAN, len : 0..MaxSize]]
    <3>1. pcm \in [Transfers -> [full : BOOLEAN, len : 0..MaxSize]]
      BY DEF TypeOK
    <3> HIDE DEF MaxSize, Transfers
    <3> QED
      BY <2>1, <2>2, <3>1, SetLen DEF StartExport
  <2>4. job' \in Job
    BY <2>1, <2>2 DEF StartExport, Command, Job
  <2> QED
    BY <2>1, <2>3, <2>4 DEF StartExport, TypeOK, Serving, Served
<1>2. OneVoice'
  BY DEF StartExport, Served, TypeOK, OneVoice, ControlOwns, CallbackOwns,
         CommandsOwnTheirTransfer, Sending, Serving, Argument
<1>3. CallbackOwns'
  BY DEF StartExport, Served, TypeOK, CallbackOwns,
         CommandsOwnTheirTransfer, ControlOwns, JobOwns, OneVoice, Sending,
         Serving, JobOn, Servable, Argument, Command, Job
<1>4. JobOwns'
  BY DEF StartExport, Served, TypeOK, JobOwns, CallbackOwns, ControlOwns,
         PublishHasJob, Serving, JobOn, Servable, Argument, Job
<1>5. PublishHasJob'
  BY DEF StartExport, Served, PublishHasJob, JobOn
<1>6. FreeTransfersAreWhole'
  BY DEF StartExport, Served, TypeOK, FreeTransfersAreWhole, ControlOwns,
         CallbackOwns, JobOwns, Sending, Serving, JobOn, Argument, Command,
         Job
<1>7. ExportsStayWhole'
  <2>1. cmd \in Command /\ pcm[cmd.t].full /\ state[cmd.t] = "Callback"
    BY DEF StartExport, TypeOK, Serving, CallbackOwns, ExportsStayWhole
  <2>2. \A t \in Transfers : pcm'[t].full = pcm[t].full /\ (t /= cmd.t => pcm'[t] = pcm[t])
    BY <2>1 DEF StartExport, TypeOK, Command
  <2>3. cop \in {"bump", "exportBump", "exportQueue", "exportSend"} =>
          arg.t \in Transfers /\ arg.t /= cmd.t
    BY <2>1 DEF TypeOK, Argument, ControlOwns, Sending
  <2>4. job'.t = cmd.t /\ cmd.t \in Transfers
    BY <2>1 DEF StartExport, Command
  <2> QED
    BY <2>1, <2>2, <2>3, <2>4, CommandsTyped
       DEF StartExport, Served, ExportsStayWhole, Serving, Command
<1>8. ControlOwns' /\ CommandsOwnTheirTransfer'
  BY DEF StartExport, ControlOwns, CommandsOwnTheirTransfer, Sending
<1> QED
  BY <1>1, <1>2, <1>3, <1>4, <1>5, <1>6, <1>7, <1>8

LEMMA EndDrainKeeps == ASSUME IInv, EndDrain PROVE IInv'
<1> USE DEF IInv, ctlVars, cbVars
<1>1. TypeOK'
  BY DEF EndDrain, TypeOK, Sending, Serving, JobOn, Argument, Job, NoCommand
<1>2. OneVoice'
  BY DEF EndDrain, TypeOK, OneVoice, ControlOwns, CallbackOwns,
         CommandsOwnTheirTransfer, Sending, Serving, Argument
<1>3. CallbackOwns'
  BY DEF EndDrain, TypeOK, CallbackOwns, CommandsOwnTheirTransfer,
         ControlOwns, JobOwns, OneVoice, Sending, Serving, JobOn, Servable,
         Argument, Command, Job
<1>4. JobOwns'
  BY DEF EndDrain, TypeOK, JobOwns, CallbackOwns, ControlOwns,
         PublishHasJob, Serving, JobOn, Servable, Argument, Job
<1>5. PublishHasJob'
  BY DEF EndDrain, PublishHasJob, JobOn
<1>6. ExportsStayWhole'
  BY CommandsTyped
     DEF EndDrain, TypeOK, ExportsStayWhole, FreeTransfersAreWhole,
         ControlOwns, CallbackOwns, JobOwns, CommandsOwnTheirTransfer,
         OneVoice, Sending, Serving, JobOn, Argument, Job, Command
<1>7. /\ ControlOwns'
        /\ CommandsOwnTheirTransfer'
        /\ FreeTransfersAreWhole'
  BY DEF EndDrain, ControlOwns, CommandsOwnTheirTransfer,
         FreeTransfersAreWhole, Sending
<1> QED
  BY <1>1, <1>2, <1>3, <1>4, <1>5, <1>6, <1>7

LEMMA CopyKeeps == ASSUME IInv, Copy PROVE IInv'
<1> USE DEF IInv, ctlVars, cbVars
<1>1. TypeOK'
  <2>1. job \in Job /\ job.cursor + 1 \in 0..MaxSize
    BY DEF Copy, JobOn, JobOwns, TypeOK, Job
  <2>2. job' \in Job
    BY <2>1 DEF Copy, Job
  <2> QED
    BY <2>2 DEF Copy, TypeOK, Serving
<1>2. OneVoice'
  BY DEF Copy, TypeOK, OneVoice, ControlOwns, CallbackOwns,
         CommandsOwnTheirTransfer, Sending, Serving, Argument
<1>3. CallbackOwns'
  BY DEF Copy, TypeOK, CallbackOwns, CommandsOwnTheirTransfer, ControlOwns,
         JobOwns, OneVoice, Sending, Serving, JobOn, Servable, Argument,
         Command, Job
<1>4. JobOwns'
  BY DEF Copy, TypeOK, JobOwns, CallbackOwns, ControlOwns, PublishHasJob,
         Serving, JobOn, Servable, Argument, Job
<1>5. PublishHasJob'
  <2>1. job' \in Job
    <3>1. job \in Job /\ job.cursor + 1 \in 0..MaxSize
      BY DEF Copy, JobOn, JobOwns, TypeOK, Job
    <3> QED
      BY <3>1 DEF Copy, Job
  <2> QED
    BY <2>1, JobsDiffer DEF PublishHasJob, JobOn
<1>6. ExportsStayWhole'
  BY CommandsTyped
     DEF Copy, TypeOK, ExportsStayWhole, FreeTransfersAreWhole, ControlOwns,
         CallbackOwns, JobOwns, CommandsOwnTheirTransfer, OneVoice, Sending,
         Serving, JobOn, Argument, Job, Command
<1>7. /\ ControlOwns'
        /\ CommandsOwnTheirTransfer'
        /\ FreeTransfersAreWhole'
  BY DEF Copy, ControlOwns, CommandsOwnTheirTransfer, FreeTransfersAreWhole,
         Sending
<1> QED
  BY <1>1, <1>2, <1>3, <1>4, <1>5, <1>6, <1>7

LEMMA NothingToCopyKeeps == ASSUME IInv, NothingToCopy PROVE IInv'
<1> USE DEF IInv, ctlVars, cbVars
<1>1. TypeOK'
  BY DEF NothingToCopy, TypeOK, Sending, Serving, JobOn, Argument, Job,
         NoCommand
<1>2. OneVoice'
  BY DEF NothingToCopy, TypeOK, OneVoice, ControlOwns, CallbackOwns,
         CommandsOwnTheirTransfer, Sending, Serving, Argument
<1>3. CallbackOwns'
  BY DEF NothingToCopy, TypeOK, CallbackOwns, CommandsOwnTheirTransfer,
         ControlOwns, JobOwns, OneVoice, Sending, Serving, JobOn, Servable,
         Argument, Command, Job
<1>4. JobOwns'
  BY DEF NothingToCopy, TypeOK, JobOwns, CallbackOwns, ControlOwns,
         PublishHasJob, Serving, JobOn, Servable, Argument, Job
<1>5. PublishHasJob'
  BY DEF NothingToCopy, PublishHasJob, JobOn
<1>6. ExportsStayWhole'
  BY CommandsTyped
     DEF NothingToCopy, TypeOK, ExportsStayWhole, FreeTransfersAreWhole,
         ControlOwns, CallbackOwns, JobOwns, CommandsOwnTheirTransfer,
         OneVoice, Sending, Serving, JobOn, Argument, Job, Command
<1>7. /\ ControlOwns'
        /\ CommandsOwnTheirTransfer'
        /\ FreeTransfersAreWhole'
  BY DEF NothingToCopy, ControlOwns, CommandsOwnTheirTransfer,
         FreeTransfersAreWhole, Sending
<1> QED
  BY <1>1, <1>2, <1>3, <1>4, <1>5, <1>6, <1>7

LEMMA PublishJobKeeps == ASSUME IInv, PublishJob PROVE IInv'
<1> USE DEF IInv, ctlVars, cbVars
<1>1. TypeOK'
  BY DEF PublishJob, SetState, TypeOK, Sending, Serving, JobOn, Argument,
         Job, NoCommand
<1>2. ControlOwns'
  BY DEF PublishJob, SetState, TypeOK, ControlOwns, OneVoice, CallbackOwns,
         JobOwns, PublishHasJob, Sending, Serving, JobOn, Argument, Command,
         Job
<1>3. OneVoice'
  BY DEF PublishJob, SetState, TypeOK, OneVoice, ControlOwns, CallbackOwns,
         CommandsOwnTheirTransfer, Sending, Serving, Argument
<1>4. CallbackOwns'
  BY DEF PublishJob, SetState, TypeOK, CallbackOwns,
         CommandsOwnTheirTransfer, ControlOwns, JobOwns, OneVoice, Sending,
         Serving, JobOn, Servable, Argument, Command, Job
<1>5. JobOwns'
  BY DEF PublishJob, SetState, TypeOK, JobOwns, CallbackOwns, ControlOwns,
         PublishHasJob, Serving, JobOn, Servable, Argument, Job
<1>6. PublishHasJob'
  BY DEF PublishJob, SetState, PublishHasJob, JobOn
<1>7. CommandsOwnTheirTransfer'
  <2>1. job \in Job /\ state[job.t] /= "Queued"
    BY DEF PublishJob, PublishHasJob, JobOwns, JobOn, TypeOK
  <2>2. \A t \in Transfers : t /= job.t => state'[t] = state[t]
    BY <2>1 DEF PublishJob, SetState, TypeOK, Job
  <2>3. UNCHANGED <<commands, generation>>
    BY DEF PublishJob
  <2> QED
    BY <2>1, <2>2, <2>3, CommandsTyped DEF CommandsOwnTheirTransfer, Command
<1>8. FreeTransfersAreWhole'
  BY DEF PublishJob, SetState, TypeOK, FreeTransfersAreWhole, ControlOwns,
         CallbackOwns, JobOwns, Sending, Serving, JobOn, Argument, Command,
         Job
<1>9. ExportsStayWhole'
  BY CommandsTyped
     DEF PublishJob, SetState, TypeOK, ExportsStayWhole,
         FreeTransfersAreWhole, ControlOwns, CallbackOwns, JobOwns,
         CommandsOwnTheirTransfer, OneVoice, Sending, Serving, JobOn,
         Argument, Job, Command
<1> QED
  BY <1>1, <1>2, <1>3, <1>4, <1>5, <1>6, <1>7, <1>8, <1>9

LEMMA ShutdownKeeps == ASSUME IInv, Shutdown PROVE IInv'
<1> USE DEF IInv, ctlVars, cbVars
<1>1. TypeOK'
  BY DEF Shutdown, SetState, TypeOK, Sending, Serving, JobOn, Argument, Job,
         NoCommand
<1>2. ControlOwns'
  BY DEF Shutdown, SetState, TypeOK, ControlOwns, OneVoice, CallbackOwns,
         JobOwns, Sending, Serving, JobOn, Argument, Command, Job
<1>3. CallbackOwns'
  BY DEF Shutdown, SetState, TypeOK, CallbackOwns, CommandsOwnTheirTransfer,
         ControlOwns, JobOwns, OneVoice, Sending, Serving, JobOn, Servable,
         Argument, Command, Job
<1>4. JobOwns'
  BY DEF Shutdown, SetState, TypeOK, JobOwns, CallbackOwns, ControlOwns,
         PublishHasJob, Serving, JobOn, Servable, Argument, Job
<1>5. PublishHasJob'
  BY DEF Shutdown, SetState, PublishHasJob, JobOn
<1>6. CommandsOwnTheirTransfer'
  BY CommandsTyped
     DEF Shutdown, SetState, TypeOK, CommandsOwnTheirTransfer, ControlOwns,
         OneVoice, CallbackOwns, JobOwns, Sending, Serving, JobOn, Argument,
         Job, Command
<1>7. FreeTransfersAreWhole'
  BY DEF Shutdown, SetState, TypeOK, FreeTransfersAreWhole, ControlOwns,
         CallbackOwns, JobOwns, Sending, Serving, JobOn, Argument, Command,
         Job
<1>8. ExportsStayWhole'
  BY CommandsTyped
     DEF Shutdown, SetState, TypeOK, ExportsStayWhole,
         FreeTransfersAreWhole, ControlOwns, CallbackOwns, JobOwns,
         CommandsOwnTheirTransfer, OneVoice, Sending, Serving, JobOn,
         Argument, Job, Command
<1>9. OneVoice'
  BY DEF Shutdown, OneVoice, Sending, Serving
<1> QED
  BY <1>1, <1>2, <1>3, <1>4, <1>5, <1>6, <1>7, <1>8, <1>9

LEMMA ChangeLoopKeeps ==
      ASSUME IInv, NEW s \in Slots, NEW n \in 0..MaxLen, NEW r \in BOOLEAN,
             ChangeLoop(s, n, r)
      PROVE  IInv'
<1> USE DEF IInv, ctlVars, cbVars
<1>1. TypeOK'
  <2>1. n \in 0..MaxSize
    OBVIOUS
  <2>2. loops \in [Slots -> [full : BOOLEAN, len : 0..MaxSize, rec : BOOLEAN]]
    BY DEF TypeOK
  <2>3. loops' \in [Slots -> [full : BOOLEAN, len : 0..MaxSize, rec : BOOLEAN]]
    <3> HIDE DEF MaxSize
    <3> QED
      BY <2>1, <2>2, SetLoop DEF ChangeLoop
  <2> QED
    BY <2>3 DEF ChangeLoop, TypeOK, Serving
<1>2. CallbackOwns'
  BY DEF ChangeLoop, TypeOK, CallbackOwns, CommandsOwnTheirTransfer,
         ControlOwns, JobOwns, OneVoice, Sending, Serving, JobOn, Servable,
         Argument, Command, Job
<1>3. /\ ControlOwns'
        /\ OneVoice'
        /\ JobOwns'
        /\ PublishHasJob'
        /\ CommandsOwnTheirTransfer'
        /\ FreeTransfersAreWhole'
        /\ ExportsStayWhole'
  BY DEF ChangeLoop, ControlOwns, OneVoice, JobOwns, PublishHasJob,
         CommandsOwnTheirTransfer, FreeTransfersAreWhole, ExportsStayWhole,
         Sending, Serving, JobOn
<1> QED
  BY <1>1, <1>2, <1>3

LEMMA MoveLoopKeeps ==
      ASSUME IInv, NEW from \in Slots, NEW to \in Slots, MoveLoop(from, to)
      PROVE  IInv'
<1> USE DEF IInv, ctlVars, cbVars
<1>1. TypeOK'
  BY DEF MoveLoop, TypeOK, Sending, Serving, JobOn, Argument, Job, NoCommand
<1>2. CallbackOwns'
  BY DEF MoveLoop, TypeOK, CallbackOwns, CommandsOwnTheirTransfer,
         ControlOwns, JobOwns, OneVoice, Sending, Serving, JobOn, Servable,
         Argument, Command, Job
<1>3. /\ ControlOwns'
        /\ OneVoice'
        /\ JobOwns'
        /\ PublishHasJob'
        /\ CommandsOwnTheirTransfer'
        /\ FreeTransfersAreWhole'
        /\ ExportsStayWhole'
  BY DEF MoveLoop, ControlOwns, OneVoice, JobOwns, PublishHasJob,
         CommandsOwnTheirTransfer, FreeTransfersAreWhole, ExportsStayWhole,
         Sending, Serving, JobOn
<1> QED
  BY <1>1, <1>2, <1>3

--------------------------------------------------------------------------
(* The invariant                                                           *)

LEMMA InitIInv == Init => IInv
<1> SUFFICES ASSUME Init PROVE IInv
  OBVIOUS
<1> USE DEF Init
<1>1. ~Sending /\ ~Serving /\ ~JobOn
  BY DEF Sending, Serving, JobOn
<1>2. commands = <<>> /\ Len(commands) = 0 /\ 1..Len(commands) = {}
  BY EmptySeq
<1>3. TypeOK
  BY <1>1, EmptySeq DEF TypeOK
<1>4. ControlOwns /\ CallbackOwns /\ JobOwns /\ PublishHasJob
  BY <1>1 DEF ControlOwns, CallbackOwns, JobOwns, PublishHasJob
<1>5. OneVoice /\ CommandsOwnTheirTransfer /\ ExportsStayWhole
  BY <1>1, <1>2 DEF OneVoice, CommandsOwnTheirTransfer, ExportsStayWhole
<1>6. FreeTransfersAreWhole
  BY DEF FreeTransfersAreWhole
<1> QED
  BY <1>3, <1>4, <1>5, <1>6 DEF IInv

LEMMA ControlCallKeeps == ASSUME IInv, ControlCall PROVE IInv'
<1>1. PICK t \in Transfers :
        \/ Acquire(t, "bump", NoSlot)
        \/ \E s \in ExportSlots : Acquire(t, "exportBump", s)
        \/ \E g \in 1..generation[t] :
             \/ EnterWrite(t, g) \/ EnterRead(t, g) \/ EnterRelease(t, g)
             \/ \E s \in ImportSlots : EnterImport(t, g, s)
  BY DEF ControlCall
<1>2. NoSlot \in AnySlot /\ ExportSlots \subseteq AnySlot /\ ImportSlots \subseteq AnySlot
  BY DEF AnySlot
<1>3. CASE Acquire(t, "bump", NoSlot)
  BY <1>2, <1>3, AcquireKeeps
<1>4. CASE \E s \in ExportSlots : Acquire(t, "exportBump", s)
  BY <1>2, <1>4, AcquireKeeps
<1>5. ASSUME NEW g \in 1..generation[t], EnterWrite(t, g) PROVE IInv'
  BY <1>2, <1>5, EnterKeeps DEF EnterWrite
<1>6. ASSUME NEW g \in 1..generation[t], EnterRead(t, g) PROVE IInv'
  BY <1>2, <1>6, EnterKeeps DEF EnterRead
<1>7. ASSUME NEW g \in 1..generation[t], EnterRelease(t, g) PROVE IInv'
  BY <1>2, <1>7, EnterKeeps DEF EnterRelease
<1>8. ASSUME NEW g \in 1..generation[t], NEW s \in ImportSlots, EnterImport(t, g, s)
      PROVE  IInv'
  BY <1>2, <1>8, EnterKeeps DEF EnterImport
<1> QED
  BY <1>1, <1>3, <1>4, <1>5, <1>6, <1>7, <1>8

LEMMA StutterKeeps == ASSUME IInv, UNCHANGED vars PROVE IInv'
<1> USE DEF IInv, vars, ctlVars, cbVars
<1>1. TypeOK'
  BY DEF TypeOK, Serving
<1>2. ControlOwns' /\ OneVoice'
  BY DEF ControlOwns, OneVoice, Sending, Serving
<1>3. CallbackOwns' /\ JobOwns' /\ PublishHasJob'
  BY DEF CallbackOwns, JobOwns, PublishHasJob, JobOn, Servable
<1>4. CommandsOwnTheirTransfer' /\ FreeTransfersAreWhole' /\ ExportsStayWhole'
  BY DEF CommandsOwnTheirTransfer, FreeTransfersAreWhole, ExportsStayWhole,
         Serving, JobOn
<1> QED
  BY <1>1, <1>2, <1>3, <1>4

LEMMA NextIInv == IInv /\ [Next]_vars => IInv'
<1> SUFFICES ASSUME IInv, [Next]_vars PROVE IInv'
  OBVIOUS
<1>1. CASE ControlCall
  BY <1>1, ControlCallKeeps
<1>2. CASE ControlStep
  BY <1>2, BumpKeeps, QueueExportKeeps, SendExportKeeps, RefusedExportKeeps,
     WriteKeeps, ReadKeeps, QueueImportKeeps, SendImportKeeps,
     RefusedImportKeeps, ReleaseKeeps
     DEF ControlStep
<1>3. CASE CallbackStep
  BY <1>3, RejectKeeps, ReceiveKeeps, CheckKeeps, RefuseKeeps, ClaimKeeps,
     SwapInKeeps, PublishKeeps, StartExportKeeps, EndDrainKeeps, CopyKeeps,
     NothingToCopyKeeps, PublishJobKeeps
     DEF CallbackStep
<1>4. CASE OtherCommand
  BY <1>4, ShutdownKeeps, ChangeLoopKeeps, MoveLoopKeeps DEF OtherCommand
<1>5. CASE UNCHANGED vars
  BY <1>5, StutterKeeps
<1> QED
  BY <1>1, <1>2, <1>3, <1>4, <1>5 DEF Next

LEMMA SpecIInv == Spec => []IInv
BY InitIInv, NextIInv, PTL DEF Spec

--------------------------------------------------------------------------
(* Theorems                                                                *)

\* States, handles, commands, loops and the job keep their types: the type
\* invariant of the transfer pool, the command ring and the callback.
THEOREM TypeCorrect == Spec => []TypeOK
<1>1. IInv => TypeOK
  BY DEF IInv
<1> QED
  BY <1>1, SpecIInv, PTL

\* A thread that touches a buffer owns it, and the control thread does so
\* through the handle that is current (check_generation, the state loads).
THEOREM OwnersTouch == Spec => []OnlyOwnersTouch
<1>1. IInv => OnlyOwnersTouch
  <2> SUFFICES ASSUME IInv PROVE OnlyOwnersTouch
    OBVIOUS
  <2>1. \A t \in CallbackTouches : state[t] = "Callback"
    BY DEF CallbackTouches, IInv, CallbackOwns, JobOwns
  <2>2. \A t \in ControlTouches :
          state[t] \in {"Control", "Exported"} /\ generation[t] = arg.g
    BY DEF ControlTouches, IInv, ControlOwns
  <2> QED
    BY <2>1, <2>2 DEF OnlyOwnersTouch
<1> QED
  BY <1>1, SpecIInv, PTL

\* The two threads never touch one buffer at the same time: the claim the
\* `unsafe impl Sync for TransferSlot` makes.
THEOREM Exclusive == Spec => []ExclusiveAccess
<1>1. OnlyOwnersTouch => ExclusiveAccess
  BY DEF OnlyOwnersTouch, ExclusiveAccess
<1> QED
  BY <1>1, OwnersTouch, PTL

\* A command in the ring speaks for its transfer alone, whatever handles the
\* control thread still holds (try_import_loop, try_request_loop_export).
THEOREM CommandsSpeakAlone == Spec => []CommandsOwnTheirTransfer
<1>1. IInv => CommandsOwnTheirTransfer
  BY DEF IInv
<1> QED
  BY <1>1, SpecIInv, PTL

\* release_transfer never frees a transfer without its buffer.
THEOREM FreeIsWhole == Spec => []FreeTransfersAreWhole
<1>1. IInv => FreeTransfersAreWhole
  BY DEF IInv
<1> QED
  BY <1>1, SpecIInv, PTL

\* advance_export stays inside the buffer if no loop is longer than one.
THEOREM ExportStaysInside == Spec => []ExportFits
<1>1. IInv => ExportFits
  <2> SUFFICES ASSUME IInv, MaxLen <= Capacity, JobOn PROVE job.frames <= Cap(job.t)
    BY DEF ExportFits
  <2>1. job \in Job
    BY DEF IInv, TypeOK, JobOn
  <2>2. job.frames \in 0..Capacity /\ pcm[job.t].full
    BY <2>1 DEF Job, IInv, ExportsStayWhole
  <2> QED
    BY <2>2 DEF Cap
<1> QED
  BY <1>1, SpecIInv, PTL

--------------------------------------------------------------------------
(* The two threads implement TransferOwnership                             *)

\* A step that changes the owner of one transfer is a step of the abstract
\* specification.
LEMMA HandOver ==
      ASSUME NEW t \in Transfers, \A u \in Transfers : u /= t => Owner(u)' = Owner(u),
             <<Owner(t), Owner(t)'>> \in
               {<<"nobody", "control">>, <<"control", "nobody">>, <<"control", "inbox">>,
                <<"inbox", "callback">>, <<"inbox", "control">>, <<"callback", "control">>}
      PROVE  Abstract!Next
<1> DEFINE owners == [u \in Transfers |-> Owner(u)]
<1>1. owners' = [owners EXCEPT ![t] = Owner(t)']
  OBVIOUS
<1>2. owners[t] = Owner(t)
  OBVIOUS
<1> QED
  BY <1>1, <1>2 DEF Abstract!Next, Abstract!Hands, Abstract!Acquire, Abstract!Free, Abstract!Lend,
     Abstract!TakeUp, Abstract!Refuse, Abstract!Return

\* So is one that changes the owner of none.
LEMMA KeepOwners ==
      ASSUME \A u \in Transfers : Owner(u)' = Owner(u)
      PROVE  UNCHANGED [t \in Transfers |-> Owner(t)]
OBVIOUS

\* The owner of a transfer changes only with its state or when a send ends.
LEMMA SameOwner ==
      ASSUME NEW u \in Transfers, state'[u] = state[u],
             (Sending /\ arg.t = u /\ state[u] = "Queued")'
               = (Sending /\ arg.t = u /\ state[u] = "Queued")
      PROVE  Owner(u)' = Owner(u)
BY DEF Owner, Sending

LEMMA ControlRefines ==
      ASSUME IInv, ControlCall \/ ControlStep
      PROVE  Abstract!Next \/ UNCHANGED [t \in Transfers |-> Owner(t)]
<1> USE DEF IInv, ctlVars, cbVars
<1>1. ASSUME NEW t \in Transfers, NEW then \in {"bump", "exportBump"}, NEW s, Acquire(t, then, s)
      PROVE  Abstract!Next
  <2>1. Owner(t) = "nobody" /\ Owner(t)' = "control"
    BY <1>1 DEF Acquire, FirstFree, SetState, Owner, TypeOK
  <2>2. \A u \in Transfers : u /= t => Owner(u)' = Owner(u)
    BY <1>1 DEF Acquire, SetState, Owner, TypeOK
  <2> QED
    BY <2>1, <2>2, HandOver
<1>2. ASSUME NEW op \in {"write", "read", "import", "release"}, NEW t, NEW g, NEW s, NEW allowed,
             Enter(op, t, g, s, allowed)
      PROVE  UNCHANGED [u \in Transfers |-> Owner(u)]
  BY <1>2 DEF Enter, Owner
<1>3. ASSUME Bump \/ Read \/ \E n \in 1..Capacity : Write(n)
      PROVE  UNCHANGED [u \in Transfers |-> Owner(u)]
  <2>1. UNCHANGED state /\ ~Sending /\ cop' \in {"idle", "exportQueue"}
    BY <1>3 DEF Bump, Read, Write, Done, Sending
  <2> QED
    BY <2>1 DEF Owner, Sending
<1>4. ASSUME QueueExport \/ QueueImport \/ RefusedImport
      PROVE  UNCHANGED [u \in Transfers |-> Owner(u)]
  <2>1. arg.t \in Transfers /\ state[arg.t] \in {"Control", "Exported", "Queued"}
        /\ (state[arg.t] = "Queued" => Sending)
    BY <1>4 DEF QueueExport, QueueImport, RefusedImport, TypeOK, Argument, ControlOwns,
                Sending
  <2>2. \A u \in Transfers : Owner(u)' = Owner(u)
    <3>1. CASE QueueExport
      BY <2>1, <3>1 DEF QueueExport, SetState, Owner, TypeOK, Sending
    <3>2. CASE QueueImport
      <4>1. /\ cop = "import" /\ state[arg.t] \in {"Control", "Exported"}
            /\ state' = [state EXCEPT ![arg.t] = "Queued"]
            /\ cop' = "importSend" /\ arg' = arg
        BY <3>2 DEF QueueImport, SetState, ControlOwns
      <4>2. \A u \in Transfers : u /= arg.t => state'[u] = state[u]
        BY <4>1 DEF TypeOK
      <4>3. state'[arg.t] = "Queued"
        BY <2>1, <4>1 DEF TypeOK
      <4> QED
        BY <4>1, <4>2, <4>3 DEF Owner
    <3>3. CASE RefusedImport
      BY <2>1, <3>3 DEF RefusedImport, SetState, Done, Owner, TypeOK, Sending
    <3> QED
      BY <1>4, <3>1, <3>2, <3>3
  <2> QED
    BY <2>2, KeepOwners
<1>5. ASSUME SendExport \/ SendImport PROVE Abstract!Next
  <2>1. PICK t \in Transfers : t = arg.t
    BY <1>5 DEF SendExport, SendImport, TypeOK, Argument
  <2>2. Owner(t) = "control" /\ Owner(t)' = "inbox"
    BY <1>5, <2>1 DEF SendExport, SendImport, Done, ControlOwns, Sending, Owner
  <2>3. \A u \in Transfers : u /= t => Owner(u)' = Owner(u)
    BY <1>5, <2>1 DEF SendExport, SendImport, Done, Owner
  <2> QED
    BY <2>2, <2>3, HandOver
<1>6. ASSUME RefusedExport \/ Release PROVE Abstract!Next
  <2>1. PICK t \in Transfers : t = arg.t
    BY <1>6 DEF RefusedExport, Release, TypeOK, Argument
  <2>2. state' = [state EXCEPT ![t] = "Free"] /\ cop' = "idle"
        /\ (Sending => arg.t = t)
    BY <1>6, <2>1 DEF RefusedExport, Release, SetState, Done, ControlOwns
  <2>3. Owner(t) = "control"
    BY <1>6, <2>1 DEF RefusedExport, Release, ControlOwns, Sending, Owner
  <2>4. Owner(t)' = "nobody"
    BY <2>2 DEF TypeOK, Owner
  <2>5. \A u \in Transfers : u /= t => Owner(u)' = Owner(u)
    BY <2>1, <2>2 DEF TypeOK, Owner
  <2> QED
    BY <2>3, <2>4, <2>5, HandOver
<1>7. CASE ControlCall
  BY <1>1, <1>2, <1>7 DEF ControlCall, EnterWrite, EnterRead, EnterRelease, EnterImport
<1>8. CASE ControlStep
  BY <1>3, <1>4, <1>5, <1>6, <1>8 DEF ControlStep
<1> QED
  BY <1>7, <1>8

LEMMA CallbackRefines ==
      ASSUME IInv, CallbackStep \/ OtherCommand
      PROVE  Abstract!Next \/ UNCHANGED [t \in Transfers |-> Owner(t)]
<1> USE DEF IInv, ctlVars, cbVars
<1>1. ASSUME UNCHANGED <<state, ctlVars>>
      PROVE  UNCHANGED [u \in Transfers |-> Owner(u)]
  BY <1>1 DEF Owner
<1>2. ASSUME Reject \/ Receive \/ Check \/ SwapIn \/ StartExport \/ EndDrain
             \/ Copy \/ NothingToCopy
      PROVE  UNCHANGED <<state, ctlVars>>
  BY <1>2 DEF Reject, Receive, Check, SwapIn, StartExport, EndDrain, Copy, NothingToCopy
<1>3. ASSUME (\E s \in Slots, n \in 0..MaxLen, r \in BOOLEAN : ChangeLoop(s, n, r))
             \/ \E from, to \in Slots : MoveLoop(from, to)
      PROVE  UNCHANGED <<state, ctlVars>>
  BY <1>3 DEF ChangeLoop, MoveLoop
<1>4. ASSUME Refuse \/ Claim \/ Publish PROVE Abstract!Next
  <2>1. PICK t \in Transfers : t = cmd.t
    BY <1>4 DEF Refuse, Claim, Publish, TypeOK, Serving, Command
  <2>2. \/ Refuse  /\ Owner(t) = "inbox"    /\ Owner(t)' = "control"
        \/ Claim   /\ Owner(t) = "inbox"    /\ Owner(t)' = "callback"
        \/ Publish /\ Owner(t) = "callback" /\ Owner(t)' = "control"
    BY <1>4, <2>1 DEF Refuse, Claim, Publish, SetState, TypeOK, Serving, Sending,
       OneVoice, CallbackOwns, Owner
  <2>3. \A u \in Transfers : u /= t => Owner(u)' = Owner(u)
    BY <1>4, <2>1 DEF Refuse, Claim, Publish, SetState, TypeOK, Owner
  <2> QED
    BY <2>1, <2>2, <2>3, HandOver
<1>5. ASSUME PublishJob \/ Shutdown PROVE Abstract!Next
  <2>1. PICK t \in Transfers : t = job.t /\ state[t] = "Callback"
    BY <1>5 DEF PublishJob, Shutdown, PublishHasJob, JobOwns, JobOn, TypeOK, Job
  <2>2. Owner(t) = "callback" /\ Owner(t)' = "control"
    BY <1>5, <2>1 DEF PublishJob, Shutdown, SetState, TypeOK, Owner
  <2>3. \A u \in Transfers : u /= t => Owner(u)' = Owner(u)
    BY <1>5, <2>1 DEF PublishJob, Shutdown, SetState, TypeOK, Owner
  <2> QED
    BY <2>1, <2>2, <2>3, HandOver
<1> QED
  BY <1>1, <1>2, <1>3, <1>4, <1>5 DEF CallbackStep, OtherCommand

\* Every load, store and compare-exchange of the two threads hands a transfer
\* over as TransferOwnership says, or hands over nothing.
THEOREM OwnershipRefinement == Spec => ImplementsOwnership
<1>1. Init => Abstract!Init
  BY DEF Init, Abstract!Init, Owner
<1>2. IInv /\ [Next]_vars => [Abstract!Next]_([t \in Transfers |-> Owner(t)])
  <2> SUFFICES ASSUME IInv, [Next]_vars
               PROVE  Abstract!Next \/ UNCHANGED [t \in Transfers |-> Owner(t)]
    OBVIOUS
  <2>1. CASE UNCHANGED vars
    BY <2>1 DEF vars, ctlVars, Owner
  <2> QED
    BY <2>1, ControlRefines, CallbackRefines DEF Next
<1> QED
  BY <1>1, <1>2, SpecIInv, PTL DEF Spec, ImplementsOwnership, Abstract!Spec
==========================================================================
