---------------------------- MODULE PrekeyDispenser ----------------------------
(***************************************************************************)
(* What the Keys service promises about one-time prekeys: a published key  *)
(* is handed to one sender at most, and a key that was handed out never    *)
(* comes back into the stock.  KeyService implements this.                 *)
(***************************************************************************)
CONSTANT Prekey

VARIABLES
    stock,   \* keys published and not handed out
    given    \* keys handed out in a bundle

vars == <<stock, given>>

Init == stock = {} /\ given = {}

Publish ==
    \E K \in SUBSET Prekey :
        /\ K \cap given = {}
        /\ stock' = stock \cup K
        /\ UNCHANGED given

HandOut ==
    \E k \in stock :
        /\ stock' = stock \ {k}
        /\ given' = given \cup {k}

\* The owner's data are deleted.
Withdraw == stock' \subseteq stock /\ UNCHANGED given

Next == Publish \/ HandOut \/ Withdraw

Spec == Init /\ [][Next]_vars
===============================================================================
