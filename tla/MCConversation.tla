---------------------------- MODULE MCConversation ----------------------------
(***************************************************************************)
(* Instances of Conversation for TLC.  Nothing is replaced: the cfg files  *)
(* choose what the service may do (order, redelivery), which devices open  *)
(* and send, and the bounds.                                               *)
(***************************************************************************)
EXTENDS Conversation

\* Both devices, and the one that opens the conversation.
Both == {1, 2}
Opener == {1}
===============================================================================
