----------------------------- MODULE MCAuthService -----------------------------
(***************************************************************************)
(* An instance of AuthService for TLC.  Account u exists and is logged in, *)
(* its password hash up to date or not; account v registers.  The owner of *)
(* u logs in again, refreshes, registers and revokes a device and ends a   *)
(* session while the account is deleted.                                   *)
(***************************************************************************)
EXTENDS AuthService, TLC

CONSTANTS u, v, d, l0, l1, g1, f1, s1, x1, e1, k1

Users == {u, v}
Devices == {d}
OnlyU == {u}

OpOf == (l0 :> "login") @@ (l1 :> "login") @@ (g1 :> "register")
     @@ (f1 :> "refresh") @@ (s1 :> "revoke session")
     @@ (x1 :> "delete me")
     @@ (e1 :> "register device") @@ (k1 :> "revoke device")

Ops == [r \in Request |-> OpOf[r]]
Subjects == [r \in Request |-> IF r = g1 THEN v ELSE u]
Targets == [r \in Request |-> d]

AllRequests == {l0, l1, g1, f1, s1, x1, e1, k1}
DeviceRequests == {l0, l1, e1, k1, x1}
LoggedIn == {l0}
===============================================================================
