------------------------ MODULE TransferOwnership ------------------------
(***************************************************************************)
(* Who may touch the PCM of a transfer slot.  Ownership is handed over,    *)
(* never shared: the control thread takes a free slot and is the only one  *)
(* that frees it; what it has lent is taken up or refused by the callback, *)
(* which gives it back to the control thread.                              *)
(***************************************************************************)
CONSTANT Transfers

VARIABLE owner

Owners == {"nobody", "control", "inbox", "callback"}

Init == owner = [t \in Transfers |-> "nobody"]

\* The six ways a transfer changes hands.
Acquire == <<"nobody", "control">>
Free    == <<"control", "nobody">>
Lend    == <<"control", "inbox">>
TakeUp  == <<"inbox", "callback">>
Refuse  == <<"inbox", "control">>
Return  == <<"callback", "control">>

Hands == {Acquire, Free, Lend, TakeUp, Refuse, Return}

Next == \E t \in Transfers : /\ <<owner[t], owner'[t]>> \in Hands
                            /\ owner' = [owner EXCEPT ![t] = owner'[t]]

Spec == Init /\ [][Next]_owner
==========================================================================
