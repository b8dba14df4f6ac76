---------------------------- MODULE MCClientState -----------------------------
(***************************************************************************)
(* An instance of ClientState for TLC: the device that is driven by msgctl *)
(* writes to one whose caller keeps the state, and back.                   *)
(***************************************************************************)
EXTENDS ClientState, TLC

OfMsgctl == {1}
OfCaller == {2}
Slots == Permutations(Process)
===============================================================================
