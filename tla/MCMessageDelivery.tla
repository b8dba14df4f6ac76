--------------------------- MODULE MCMessageDelivery ---------------------------
(***************************************************************************)
(* An instance of MessageDelivery for TLC: device a sends three messages   *)
(* to device r, which opens two connections.                               *)
(***************************************************************************)
EXTENDS MessageDelivery, TLC

CONSTANTS a, r, m1, m2, m3, c1, c2

Devices == {a, r}
Messages == {m1, m2, m3}
Conns == {c1, c2}

FromA == [m \in Messages |-> a]
ToR == [m \in Messages |-> r]
OfR == [c \in Conns |-> r]
===============================================================================
