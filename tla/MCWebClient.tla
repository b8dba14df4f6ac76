------------------------------ MODULE MCWebClient ------------------------------
(***************************************************************************)
(* Instances of WebClient for TLC: a conversation that device 1 opens.     *)
(***************************************************************************)
EXTENDS WebClient, TLC

CONSTANTS a1, a2, b1, b2

Opener == {1}

\* One prekey of the device that is written to; a second session has none.
OnePrekey == [d \in Device |-> IF d = 2 THEN {3} ELSE {}]

TwoEach == <<{a1, a2}, {b1, b2}>>
OneEach == <<{a1}, {b1}>>

\* Only the page of the receiver is loaded again.
ReceiverOnce == <<0, 1>>
NoReload == <<0, 0>>

\* The calls of a device are told apart by nothing but their slots.
Symmetry == {f @@ g : f \in Permutations({a1, a2}), g \in Permutations({b1, b2})}
===============================================================================
