-------------------------- MODULE MCProfileDeletion --------------------------
(***************************************************************************)
(* An instance of ProfileDeletion for TLC: a user with two devices, each   *)
(* with an envelope; the first has uploaded its keys and uploads them      *)
(* anew, the second uploads its own.  One wipe of the first device goes    *)
(* through the gateway, one is made by its profile page.  With one failure  *)
(* at most, one of the two is carried out unless the other is in its way.  *)
(***************************************************************************)
EXTENDS ProfileDeletion, TLC

CONSTANTS d1, d2, m1, m2, g, p, k0, k1, k2

Devices == {d1, d2}
Messages == {m1, m2}
Wipes == {g, p}
ByGateway == {g}
Uploads == {k0, k1, k2}
First == {k0}

OfDevices == (m1 :> d1) @@ (m2 :> d2)
NamedDevices == (g :> d1) @@ (p :> d1)
Targets == (k0 :> d1) @@ (k1 :> d1) @@ (k2 :> d2)
===============================================================================
