---------------------------- MODULE ReadyPool ----------------------------
(***************************************************************************)
(* What the recorder is promised about its audio blocks: a fixed number of *)
(* credits, each one either a block that is ready to be taken or a block   *)
(* the memory manager still owes.  Taking a ready block creates a debt,    *)
(* and a debt is only ever repaid with one ready block.                    *)
(***************************************************************************)
EXTENDS Naturals

CONSTANT ReadyBlocks   \* blocks made ready before audio starts

VARIABLES ready,       \* blocks the callback can take without waiting
          owed         \* blocks taken and not yet replaced

poolVars == <<ready, owed>>

Init == ready = ReadyBlocks /\ owed = 0

\* The callback takes a block for a recording.
Take == /\ ready > 0
        /\ ready' = ready - 1
        /\ owed'  = owed + 1

\* The memory manager replaces one block that was taken.
Repay == /\ owed > 0
         /\ ready' = ready + 1
         /\ owed'  = owed - 1

Next == Take \/ Repay

Spec == Init /\ [][Next]_poolVars
==========================================================================
