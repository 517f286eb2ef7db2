---------------------------- MODULE MemoryPool ----------------------------
(***************************************************************************)
(* Preallocated instances (mem.rs): callbacks take instances and give them *)
(* back without allocating, the thread "mem-mgr" restocks and frees.       *)
(*                                                                         *)
(* Instances and callers are interchangeable, so both are counted.  The    *)
(* queue of updates is a count of each kind: the worker may take them in   *)
(* another order than that of their arrival, and no property depends on    *)
(* it.  Whoever drops the last reference to the manager joins the worker.  *)
(***************************************************************************)
EXTENDS Naturals

CONSTANTS
  Instances,       \* PreallocatedTypeInner::block_size
  UpdateCapacity,  \* MEMMGR_UPDATE_QUEUE_SIZE
  MaxCallers,      \* bound: threads inside rt_new or rt_delete
  MaxHeld          \* bound: instances in use

ASSUME InstancesAssumption  == Instances \in Nat /\ Instances >= 3
ASSUME UpdateAssumption     == UpdateCapacity \in Nat
ASSUME CallersAssumption    == MaxCallers \in Nat /\ MaxHeld \in Nat

VARIABLES
  blockMode,  \* PreallocatedTypeInner::block_mode
  stock,      \* PreallocatedTypeInner::ready
  spare,      \* PreallocatedTypeInner::recycled
  held,       \* instances in use
  taken,      \* callers of rt_new that have an instance and no reference to the manager
  asking,     \* those that have one and will queue a restock
  giving,     \* callers of rt_delete that have one and will queue the instance
  leaving,    \* callers that are about to drop their reference
  kept,       \* the session still has its own reference
  manager,    \* "alive", "stopping", "gone"
  restocks,   \* MemoryManager::queue: the two kinds of updates
  frees,
  worker,     \* "pop", "restock", "free", "test", "done"
  lost,       \* restock_failures
  spilled     \* ready_overflow

poolCallers == <<held, taken, asking, giving, leaving, kept>>
poolVars    == <<blockMode, stock, spare, poolCallers, manager, restocks, frees, worker, lost, spilled>>

Initially == IF blockMode THEN Instances - 1 ELSE Instances

PoolInit ==
  /\ blockMode \in BOOLEAN /\ stock = Initially /\ spare = 0 /\ held = 0
  /\ taken = 0 /\ asking = 0 /\ giving = 0 /\ leaving = 0 /\ kept = TRUE
  /\ manager = "alive" /\ restocks = 0 /\ frees = 0
  /\ worker = "pop" /\ lost = 0 /\ spilled = 0

References == asking + giving + leaving + (IF kept THEN 1 ELSE 0)
Callers    == taken + asking + giving + leaving
Full       == restocks + frees >= UpdateCapacity

--------------------------------------------------------------------------
(* The callers                                                             *)

\* rt_new: ready.pop().
TakeInstance ==
  /\ stock > 0 /\ held < MaxHeld /\ Callers < MaxCallers
  /\ stock' = stock - 1 /\ held' = held + 1 /\ taken' = taken + 1
  /\ UNCHANGED <<blockMode, spare, asking, giving, leaving, kept, manager, restocks, frees,
                 worker, lost, spilled>>

\* manager.upgrade(): without a manager the slot is lost.
AskManager ==
  /\ taken > 0
  /\ taken' = taken - 1
  /\ IF References > 0
       THEN asking' = asking + 1 /\ UNCHANGED lost
       ELSE lost' = lost + 1 /\ UNCHANGED asking
  /\ UNCHANGED <<blockMode, stock, spare, held, giving, leaving, kept, manager, restocks, frees,
                 worker, spilled>>

BadQueueRestock ==            \* a refused restock is ignored
  /\ asking > 0
  /\ asking' = asking - 1 /\ leaving' = leaving + 1
  /\ restocks' = IF Full THEN restocks ELSE restocks + 1
  /\ UNCHANGED <<blockMode, stock, spare, held, taken, giving, kept, manager, frees, worker,
                 lost, spilled>>

\* wake_up: a full queue refuses, and the slot is lost.
QueueRestock ==
  /\ asking > 0
  /\ asking' = asking - 1 /\ leaving' = leaving + 1
  /\ IF Full THEN lost' = lost + 1 /\ UNCHANGED restocks
             ELSE restocks' = restocks + 1 /\ UNCHANGED lost
  /\ UNCHANGED <<blockMode, stock, spare, held, taken, giving, kept, manager, frees, worker, spilled>>

\* rt_delete; without a manager the caller keeps the instance.
GiveInstance ==
  /\ held > 0 /\ References > 0 /\ Callers < MaxCallers
  /\ held' = held - 1 /\ giving' = giving + 1
  /\ UNCHANGED <<blockMode, stock, spare, taken, asking, leaving, kept, manager, restocks, frees,
                 worker, lost, spilled>>

\* A refused instance stays with the caller.
QueueFree ==
  /\ giving > 0
  /\ giving' = giving - 1 /\ leaving' = leaving + 1
  /\ IF Full THEN held' = held + 1 /\ UNCHANGED frees
             ELSE frees' = frees + 1 /\ UNCHANGED held
  /\ UNCHANGED <<blockMode, stock, spare, taken, asking, kept, manager, restocks, worker, lost, spilled>>

\* The upgraded reference is dropped; the last one stops the manager.
Leave ==
  /\ leaving > 0
  /\ leaving' = leaving - 1
  /\ manager' = IF References = 1 THEN "stopping" ELSE manager
  /\ UNCHANGED <<blockMode, stock, spare, held, taken, asking, giving, kept, restocks, frees,
                 worker, lost, spilled>>

\* The resources of the session are dropped.
SessionLeaves ==
  /\ kept
  /\ kept' = FALSE
  /\ manager' = IF References = 1 THEN "stopping" ELSE manager
  /\ UNCHANGED <<blockMode, stock, spare, held, taken, asking, giving, leaving, restocks, frees,
                 worker, lost, spilled>>

\* MemoryManager::drop joins the worker, whatever thread it runs on.
JoinWorker ==
  /\ manager = "stopping" /\ worker = "done"
  /\ manager' = "gone"
  /\ UNCHANGED <<blockMode, stock, spare, poolCallers, restocks, frees, worker, lost, spilled>>

--------------------------------------------------------------------------
(* The worker                                                              *)

PopUpdate ==
  /\ worker = "pop"
  /\ \/ restocks > 0 /\ restocks' = restocks - 1 /\ worker' = "restock" /\ UNCHANGED frees
     \/ frees > 0 /\ frees' = frees - 1 /\ worker' = "free" /\ UNCHANGED restocks
     \/ restocks + frees = 0 /\ worker' = "test" /\ UNCHANGED <<restocks, frees>>
  /\ UNCHANGED <<blockMode, stock, spare, poolCallers, manager, lost, spilled>>

\* Block mode keeps the instance, instance mode destroys it.
ProcessFree ==
  /\ worker = "free"
  /\ spare' = IF blockMode THEN spare + 1 ELSE spare
  /\ worker' = "pop"
  /\ UNCHANGED <<blockMode, stock, poolCallers, manager, restocks, frees, lost, spilled>>

\* A recycled instance if there is one, a new one otherwise.
ProcessRestock ==
  /\ worker = "restock"
  /\ spare' = IF spare > 0 THEN spare - 1 ELSE spare
  /\ IF stock < Instances THEN stock' = stock + 1 /\ UNCHANGED spilled
                          ELSE spilled' = spilled + 1 /\ UNCHANGED stock
  /\ worker' = "pop"
  /\ UNCHANGED <<blockMode, poolCallers, manager, restocks, frees, lost>>

BadTestStop ==                \* an idle worker ends
  /\ worker = "test"
  /\ worker' = "done"
  /\ UNCHANGED <<blockMode, stock, spare, poolCallers, manager, restocks, frees, lost, spilled>>

\* It parks for at most a millisecond when it is not to stop.
TestStop ==
  /\ worker = "test"
  /\ worker' = IF manager = "alive" THEN "pop" ELSE "done"
  /\ UNCHANGED <<blockMode, stock, spare, poolCallers, manager, restocks, frees, lost, spilled>>

--------------------------------------------------------------------------
PoolCall   == AskManager \/ QueueRestock \/ QueueFree \/ Leave \/ JoinWorker
PoolWorker == PopUpdate \/ ProcessFree \/ ProcessRestock \/ TestStop

PoolNext == PoolCall \/ PoolWorker \/ TakeInstance \/ GiveInstance \/ SessionLeaves

PoolSpec == PoolInit /\ [][PoolNext]_poolVars

\* Callers do not stop inside a call and the worker is woken by its own timeout.
PoolFairSpec == PoolSpec /\ WF_poolVars(PoolCall) /\ WF_poolVars(PoolWorker)

--------------------------------------------------------------------------
InHand == IF worker = "restock" THEN 1 ELSE 0

\* Types, and the manager is alive exactly as long as somebody refers to it.
PoolTypeOK ==
  /\ blockMode \in BOOLEAN /\ kept \in BOOLEAN
  /\ stock \in 0..Instances /\ spare \in Nat /\ held \in Nat
  /\ taken \in Nat /\ asking \in Nat /\ giving \in Nat /\ leaving \in Nat
  /\ restocks \in Nat /\ frees \in Nat /\ lost \in Nat /\ spilled \in Nat
  /\ manager \in {"alive", "stopping", "gone"}
  /\ worker \in {"pop", "restock", "free", "test", "done"}
  /\ manager = "alive" <=> References > 0

\* "restock_failures: pool slots lost because a request could not be queued": every slot
\* of the pool is ready, about to be asked for, asked for once, or counted as lost, and the
\* ready queue has room for each restock.
SlotsConserved ==
  /\ stock + taken + asking + restocks + InHand + lost = Initially
  /\ spilled = 0

\* An empty pool is restocked while the manager lives, unless all slots are lost.
StockReturns ==
  (stock = 0) ~> (stock > 0 \/ lost = Initially \/ manager # "alive")

\* Everything accepted is processed before the worker ends ("the worker drains every accepted
\* update before observing an empty queue and stopping").
AcceptedIsProcessed == worker = "done" => restocks + frees = 0
==========================================================================
