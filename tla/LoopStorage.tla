--------------------------- MODULE LoopStorage ---------------------------
(***************************************************************************)
(* The storage of recorded loops (src/native_dsp_graph.rs, LoopStoragePool *)
(* and LoopStorageRefiller): the audio callback takes preallocated blocks  *)
(* and gives released ones back, the `loop-storage` worker is the only     *)
(* thread that allocates.  The two threads share two bounded SPSC rings    *)
(* and one atomic counter, so every access to one of those is a step.      *)
(*                                                                         *)
(* Blocks are interchangeable, so a container is the number of blocks in   *)
(* it.  The chains of all loops are one number: `release_blocks` empties   *)
(* the chain of one loop, which can be any part of it.                     *)
(*                                                                         *)
(* The definitions whose name starts with Bad are faults a change to the   *)
(* code could introduce; no behaviour of Spec uses them.                   *)
(***************************************************************************)
EXTENDS Naturals

CONSTANTS ReadyBlocks,     \* DEFAULT_AUDIO_BLOCKS: blocks ready before audio starts
          RefillCapacity,  \* capacity of the refill ring (the code: ReadyBlocks)
          ReturnCapacity,  \* STORAGE_RETURN_CAPACITY
          MaxChained       \* bound: blocks in the chains of all loops together

ASSUME ReadyBlocksAssumption    == ReadyBlocks \in Nat \ {0}
ASSUME RefillCapacityAssumption == RefillCapacity \in Nat \ {0}
ASSUME ReturnCapacityAssumption == ReturnCapacity \in Nat \ {0}
ASSUME MaxChainedAssumption     == MaxChained \in Nat

VARIABLES
  \* callback
  free,        \* LoopStoragePool::free
  chained,     \* blocks in the chains of the loops
  releasing,   \* of these, the blocks of the chain release_blocks is emptying
  cpc,         \* where the callback is
  \* shared
  refills,     \* ring worker -> callback
  returned,    \* ring callback -> worker
  requests,    \* AtomicUsize: blocks taken that the worker has not seen
  stopping,    \* AtomicBool set by Drop
  \* worker
  recycled,    \* blocks the worker holds for reuse
  batch,       \* blocks of the current pass still to be sent
  wpc,         \* where the worker is
  allocated    \* blocks allocated so far (no thread frees one)

callbackVars == <<free, chained, releasing, cpc>>
workerVars   == <<recycled, batch, wpc, allocated>>
sharedVars   == <<refills, returned, requests, stopping>>
vars == <<callbackVars, sharedVars, workerVars>>

Init ==
  /\ free = ReadyBlocks /\ chained = 0 /\ releasing = 0 /\ cpc = "idle"
  /\ refills = 0 /\ returned = 0 /\ requests = 0 /\ stopping = FALSE
  /\ recycled = 0 /\ batch = 0 /\ wpc = "check" /\ allocated = ReadyBlocks

--------------------------------------------------------------------------
(* The audio callback                                                      *)

\* A recording needs a block: add_block is entered.
StartAdd ==
  /\ cpc = "idle"
  /\ chained < MaxChained
  /\ cpc' = "collect"
  /\ UNCHANGED <<free, chained, releasing, sharedVars, workerVars>>

CanCollect == free < ReadyBlocks /\ refills > 0

\* One try_recv of collect_refills.
CollectRefill ==
  /\ cpc = "collect"
  /\ CanCollect
  /\ free' = free + 1
  /\ refills' = refills - 1
  /\ UNCHANGED <<chained, releasing, cpc, returned, requests, stopping, workerVars>>

\* free.pop() finds a block: it joins the chain once the worker has been
\* asked for a replacement.
TakeBlock ==
  /\ cpc = "collect"
  /\ ~CanCollect
  /\ free > 0
  /\ free' = free - 1
  /\ cpc' = "request"
  /\ UNCHANGED <<chained, releasing, sharedVars, workerVars>>

\* free.pop() finds nothing: add_block returns false.
FailAdd ==
  /\ cpc = "collect"
  /\ ~CanCollect
  /\ free = 0
  /\ cpc' = "idle"
  /\ UNCHANGED <<free, chained, releasing, sharedVars, workerVars>>

\* requests.fetch_add(1), unpark, slot.blocks.push_back.
RequestReplacement ==
  /\ cpc = "request"
  /\ requests' = requests + 1
  /\ chained' = chained + 1
  /\ cpc' = "idle"
  /\ UNCHANGED <<free, releasing, refills, returned, stopping, workerVars>>

\* release_blocks is entered for a loop whose chain holds n blocks.
StartRelease(n) ==
  /\ cpc = "idle"
  /\ releasing' = n
  /\ cpc' = "release"
  /\ UNCHANGED <<free, chained, sharedVars, workerVars>>

\* A block leaves the chain through the return ring.
ReleaseBlock ==
  /\ cpc = "release"
  /\ releasing > 0
  /\ returned < ReturnCapacity
  /\ returned' = returned + 1
  /\ chained' = chained - 1
  /\ releasing' = releasing - 1
  /\ UNCHANGED <<free, cpc, refills, requests, stopping, workerVars>>

\* The chain is empty, or the return ring is full and the rest stays in it.
FinishRelease ==
  /\ cpc = "release"
  /\ releasing = 0 \/ returned = ReturnCapacity
  /\ releasing' = 0
  /\ cpc' = "idle"
  /\ UNCHANGED <<free, chained, sharedVars, workerVars>>

--------------------------------------------------------------------------
(* The worker: refill_loop_storage in a loop                               *)

\* The loop condition.  Between passes the worker parks for at most one
\* millisecond, so a park is a delay and not a state.
CheckStopping ==
  /\ wpc = "check"
  /\ wpc' = IF stopping THEN "lastDrain" ELSE "drain"
  /\ UNCHANGED <<callbackVars, sharedVars, recycled, batch, allocated>>

DrainReturned ==
  /\ wpc \in {"drain", "lastDrain"}
  /\ returned > 0
  /\ returned' = returned - 1
  /\ recycled' = recycled + 1
  /\ UNCHANGED <<callbackVars, refills, requests, stopping, batch, wpc, allocated>>

BadSwapAllButOne ==         \* the send loop is off by one
  /\ wpc \in {"drain", "lastDrain"}
  /\ returned = 0
  /\ batch' = IF requests > 0 THEN requests - 1 ELSE 0
  /\ requests' = 0
  /\ wpc' = IF wpc = "drain" THEN "send" ELSE "lastSend"
  /\ UNCHANGED <<callbackVars, refills, returned, stopping, recycled, allocated>>

\* The return ring is empty: requests.swap(0).
SwapRequests ==
  /\ wpc \in {"drain", "lastDrain"}
  /\ returned = 0
  /\ batch' = requests
  /\ requests' = 0
  /\ wpc' = IF wpc = "drain" THEN "send" ELSE "lastSend"
  /\ UNCHANGED <<callbackVars, refills, returned, stopping, recycled, allocated>>

Sending == wpc \in {"send", "lastSend"} /\ batch > 0

BadSendRefill ==            \* replacements are always newly allocated
  /\ Sending
  /\ refills < RefillCapacity
  /\ refills' = refills + 1
  /\ batch' = batch - 1
  /\ allocated' = allocated + 1
  /\ UNCHANGED <<callbackVars, returned, requests, stopping, recycled, wpc>>

\* One turn of the send loop: a recycled block, or a new one if there is none.
SendRefill ==
  /\ Sending
  /\ refills < RefillCapacity
  /\ refills' = refills + 1
  /\ batch' = batch - 1
  /\ IF recycled > 0
       THEN recycled' = recycled - 1 /\ UNCHANGED allocated
       ELSE allocated' = allocated + 1 /\ UNCHANGED recycled
  /\ UNCHANGED <<callbackVars, returned, requests, stopping, wpc>>

BadRejectRefill ==          \* the refused block itself is not asked for again
  /\ Sending
  /\ refills = RefillCapacity
  /\ IF recycled > 0
       THEN UNCHANGED <<recycled, allocated>>
       ELSE recycled' = 1 /\ allocated' = allocated + 1
  /\ requests' = requests + (batch - 1)
  /\ batch' = 0
  /\ UNCHANGED <<callbackVars, refills, returned, stopping, wpc>>

\* The refill ring is full: the block is kept for reuse and what is left of
\* the batch is asked for again.
RejectRefill ==
  /\ Sending
  /\ refills = RefillCapacity
  /\ IF recycled > 0
       THEN UNCHANGED <<recycled, allocated>>
       ELSE recycled' = 1 /\ allocated' = allocated + 1
  /\ requests' = requests + batch
  /\ batch' = 0
  /\ UNCHANGED <<callbackVars, refills, returned, stopping, wpc>>

EndPass ==
  /\ wpc \in {"send", "lastSend"}
  /\ batch = 0
  /\ wpc' = IF wpc = "send" THEN "check" ELSE "done"
  /\ UNCHANGED <<callbackVars, sharedVars, recycled, batch, allocated>>

\* LoopStorageRefiller::drop, on the control thread.
StopWorker ==
  /\ ~stopping
  /\ stopping' = TRUE
  /\ UNCHANGED <<callbackVars, refills, returned, requests, workerVars>>

--------------------------------------------------------------------------
\* What the callback does once it has entered add_block or release_blocks.
CallbackStep == \/ CollectRefill \/ TakeBlock \/ FailAdd \/ RequestReplacement
                \/ ReleaseBlock \/ FinishRelease

CallbackCall == StartAdd \/ \E n \in 0..chained : StartRelease(n)

WorkerStep == \/ CheckStopping \/ DrainReturned \/ SwapRequests
              \/ SendRefill \/ RejectRefill \/ EndPass

Next == CallbackStep \/ CallbackCall \/ WorkerStep \/ StopWorker

Spec == Init /\ [][Next]_vars

\* The callback never blocks inside a call, and the worker wakes at least
\* every millisecond.  Nothing makes a recording ask for a block.
FairSpec == Spec /\ WF_vars(CallbackStep) /\ WF_vars(WorkerStep)

--------------------------------------------------------------------------
InFlight == IF cpc = "request" THEN 1 ELSE 0   \* taken, not yet asked for

\* Every counter is a natural number and every ring is within its capacity.
TypeOK ==
  /\ free \in 0..ReadyBlocks
  /\ chained \in 0..MaxChained
  /\ releasing \in 0..chained
  /\ cpc \in {"idle", "collect", "request", "release"}
  /\ refills \in 0..RefillCapacity
  /\ returned \in 0..ReturnCapacity
  /\ requests \in Nat /\ recycled \in Nat /\ batch \in Nat /\ allocated \in Nat
  /\ stopping \in BOOLEAN
  /\ wpc \in {"check", "drain", "send", "lastDrain", "lastSend", "done"}

\* No credit is lost or minted between the two threads: each of the initial
\* blocks is ready, on its way, or asked for exactly once (the fetch_add in
\* add_block against the swap and the fetch_add in refill_loop_storage).
ReadySetConserved ==
  free + refills + InFlight + requests + batch = ReadyBlocks

\* With a refill ring as large as the ready set the worker's try_send is
\* never refused, so its error branch cannot lose or delay a replacement.
RefillFits ==
  (RefillCapacity >= ReadyBlocks /\ Sending) => refills < RefillCapacity

\* The worker reuses before it allocates: however long the session, memory
\* is bounded by the ready set and the blocks recorded or being returned.
MemoryBounded == allocated <= ReadyBlocks + MaxChained + ReturnCapacity

\* A callback that finds no block ready is given one, unless the manager is
\* being dropped (the worker serves every request it has swapped out).
ReplacementArrives ==
  (free + refills = 0) ~> (free + refills > 0 \/ stopping)

\* A full return ring is emptied, so that release_blocks keeps blocks in a
\* chain only for a while.
ReturnRingDrains ==
  (returned = ReturnCapacity) ~> (returned < ReturnCapacity \/ stopping)

\* The pool the recorder sees: the two containers it can take from against
\* the requests the worker has not served.
Pool == INSTANCE ReadyPool WITH ready <- free + refills,
                                owed  <- InFlight + requests + batch
ImplementsReadyPool == Pool!Spec
==========================================================================
