----------------------------- MODULE MCKeyService -----------------------------
(***************************************************************************)
(* Instances of KeyService for TLC.                                        *)
(***************************************************************************)
EXTENDS KeyService

CONSTANTS d1, d2, u1, u2, k1, k2, k3, f1, f2, f3

Req(d, u, i, s, B) ==
    [device |-> d, user |-> u, identity |-> i, signed |-> s, batch |-> B]

TwoDevices == {d1, d2}
OneUser == {u1}
AllPrekeys == {k1, k2, k3}
ThreeFetches == {f1, f2, f3}

\* One device that registers, with retries, and rotates its signed prekey.
FirstRegistration == {Req(d1, u1, 1, 1, {k1, k2})}
OwnRotations == {Req(d1, u1, 1, 2, {k3})}

\* A second device whose batch repeats an id of the first.
TwoRegistrations == FirstRegistration \cup {Req(d2, u1, 2, 3, {k2, k3})}
===============================================================================
