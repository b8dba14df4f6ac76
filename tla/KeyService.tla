------------------------------ MODULE KeyService ------------------------------
(***************************************************************************)
(* The Keys service (services/keys): the tables users, devices,            *)
(* identity_keys, signed_pre_keys and one_time_prekeys, and the calls that *)
(* change them, over PostgreSQL at READ COMMITTED.                         *)
(*                                                                         *)
(* RegisterDevice, RotateSignedPreKey and DeleteUserData are transactions  *)
(* that row locks and foreign keys serialise: whatever one of them commits *)
(* between two statements of another either makes that one wait or makes   *)
(* it fail and roll back.  Each is one action, its commit; a call that     *)
(* fails changes nothing and is no step.  GetPreKeyBundle only reads until *)
(* it consumes a key, holds no lock while it reads, and is modelled        *)
(* statement by statement, with a rollback after any of them.              *)
(***************************************************************************)
EXTENDS Integers, FiniteSets, Functions

CONSTANTS
    Device, User,
    Prekey,          \* ids of one-time prekeys
    Registrations,   \* the requests clients may send to /keys/device/register
    Rotations,       \* and to /keys/rotate-signed-prekey
    Fetch,           \* calls of /keys/bundle; each is made once
    None,            \* nil
    MaxUploads       \* bound: registrations and rotations committed

\* Key material is a number.  A request names the identity key its signed
\* prekey is signed with; a registration publishes that identity key too.
Upload == [device : Device, user : User, identity : Nat, signed : Nat,
           batch : SUBSET Prekey]

ASSUME KeyServiceAssumption ==
    /\ Registrations \subseteq Upload
    /\ Rotations \subseteq Upload
    /\ None \notin Prekey \cup Device \cup Nat
    /\ MaxUploads \in Nat

VARIABLES
    users,      \* set of ids
    devices,    \* devices[d]: user_id of d, for the devices that have a row
    identity,   \* identity[d]: identity_keys.public_key
    signed,     \* signed[d]: signed_pre_keys.public_key and who signed it
    prekeys,    \* prekeys[k]: the row of one-time prekey k
    uploads,    \* number of uploads committed so far: the clock of created_at
    gone,       \* prekeys whose rows a deletion removed
    fetches     \* the state of each call of GetPreKeyBundle

tables == <<users, devices, identity, signed, prekeys, uploads, gone>>
vars == <<users, devices, identity, signed, prekeys, uploads, gone, fetches>>

SignedPreKey == [public : Nat, signer : Nat]
OneTimePrekey == [device : Device, created : Nat, consumed : BOOLEAN]

Stages == {"new", "identity read", "both read", "prekey locked", "done", "failed"}
Call == [stage : Stages, device : Device \cup {None}, identity : Nat \cup {None},
         signed : SignedPreKey \cup {None}, otk : Prekey \cup {None}]

NewCall == [stage |-> "new", device |-> None, identity |-> None,
            signed |-> None, otk |-> None]

Init ==
    /\ users = {}
    /\ devices = [d \in {} |-> None]
    /\ identity = [d \in {} |-> None]
    /\ signed = [d \in {} |-> None]
    /\ prekeys = [k \in {} |-> None]
    /\ uploads = 0
    /\ gone = {}
    /\ fetches = [f \in Fetch |-> NewCall]

-----------------------------------------------------------------------------
(* Publishing.                                                             *)

\* INSERT ... ON CONFLICT DO UPDATE
Upsert(table, key, row) ==
    [x \in DOMAIN table \cup {key} |-> IF x = key THEN row ELSE table[x]]

\* Mutant of AddBatch: a key that has a row is inserted afresh.
AddBatchAfresh(d, batch) ==
    prekeys' = [k \in DOMAIN prekeys \cup batch |->
                   IF k \notin batch THEN prekeys[k]
                   ELSE [device |-> d, created |-> uploads, consumed |-> FALSE]]

\* INSERT ... ON CONFLICT DO NOTHING: a key that has a row keeps it.
AddBatch(d, batch) ==
    prekeys' = [k \in DOMAIN prekeys \cup batch |->
                   IF k \in DOMAIN prekeys THEN prekeys[k]
                   ELSE [device |-> d, created |-> uploads, consumed |-> FALSE]]

\* Clients draw prekey ids at random and retry an upload that was not
\* answered, but do not publish again the keys of a deleted device.
MayUpload(r) ==
    /\ uploads < MaxUploads
    /\ r.batch \cap gone = {}

RegisterDevice(r) ==
    /\ MayUpload(r)
    /\ users' = users \cup {r.user}
    /\ devices' = Upsert(devices, r.device, r.user)
    /\ identity' = Upsert(identity, r.device, r.identity)
    /\ signed' = Upsert(signed, r.device, [public |-> r.signed, signer |-> r.identity])
    /\ AddBatch(r.device, r.batch)
    /\ uploads' = uploads + 1
    /\ UNCHANGED <<gone, fetches>>

\* Mutant of RotateSignedPreKey: Devices().Get is not asked first.
RotateUnchecked(r) ==
    /\ MayUpload(r)
    /\ signed' = Upsert(signed, r.device, [public |-> r.signed, signer |-> r.identity])
    /\ AddBatch(r.device, r.batch)
    /\ uploads' = uploads + 1
    /\ UNCHANGED <<users, devices, identity, gone, fetches>>

\* Without a row for the device the call answers ErrDeviceNotFound.
RotateSignedPreKey(r) ==
    /\ MayUpload(r)
    /\ r.device \in DOMAIN devices
    /\ signed' = Upsert(signed, r.device, [public |-> r.signed, signer |-> r.identity])
    /\ AddBatch(r.device, r.batch)
    /\ uploads' = uploads + 1
    /\ UNCHANGED <<users, devices, identity, gone, fetches>>

-----------------------------------------------------------------------------
(* Fetching a bundle.                                                      *)

At(f, stage) == fetches[f].stage = stage

ReadIdentity(f, d) ==
    /\ At(f, "new")
    /\ fetches' = [fetches EXCEPT ![f] =
         IF d \in DOMAIN identity
         THEN [@ EXCEPT !.stage = "identity read", !.device = d, !.identity = identity[d]]
         ELSE [@ EXCEPT !.stage = "failed", !.device = d]]
    /\ UNCHANGED tables

\* Mutant of ReadSigned: no condition on device_id.
ReadAnySigned(f) ==
    /\ At(f, "identity read")
    /\ \E d \in DOMAIN signed :
         fetches' = [fetches EXCEPT ![f].stage = "both read", ![f].signed = signed[d]]
    /\ UNCHANGED tables

ReadSigned(f) ==
    /\ At(f, "identity read")
    /\ LET d == fetches[f].device
       IN  fetches' = [fetches EXCEPT ![f] =
             IF d \in DOMAIN signed
             THEN [@ EXCEPT !.stage = "both read", !.signed = signed[d]]
             ELSE [@ EXCEPT !.stage = "failed"]]
    /\ UNCHANGED tables

\* The row locks: SELECT ... FOR UPDATE holds them until the call ends.
Locked == {fetches[f].otk : f \in {g \in Fetch : At(g, "prekey locked")}}

\* Mutant of Available: no condition on device_id.
AvailableOfAny(d) == {k \in DOMAIN prekeys : ~prekeys[k].consumed}

Available(d) == {k \in DOMAIN prekeys : prekeys[k].device = d /\ ~prekeys[k].consumed}

\* Mutant of Candidates: a plain SELECT.
CandidatesUnlocked(d) == Available(d)

\* SKIP LOCKED
Candidates(d) == Available(d) \ Locked

\* The first row of the query: the oldest, by id among those of one batch.
Oldest(K) == {k \in K : \A x \in K : prekeys[k].created <= prekeys[x].created}

\* The SELECT of ConsumeNext.  The UPDATE that follows is seen with the commit.
SelectPrekey(f) ==
    /\ At(f, "both read")
    /\ LET K == Oldest(Candidates(fetches[f].device))
       IN  \E k \in IF K = {} THEN {None} ELSE K :
             fetches' = [fetches EXCEPT ![f].stage = "prekey locked", ![f].otk = k]
    /\ UNCHANGED tables

\* Mutant of CommitBundle: the row is saved without asking whether there is one.
CommitNil(f) ==
    /\ At(f, "prekey locked")
    /\ fetches' = [fetches EXCEPT ![f].stage = "done"]
    /\ prekeys' = Upsert(prekeys, fetches[f].otk,
                        [device |-> fetches[f].device, created |-> uploads, consumed |-> TRUE])
    /\ UNCHANGED <<users, devices, identity, signed, uploads, gone>>

\* consumed_at is set, the locks are released and the bundle is answered.
CommitBundle(f) ==
    /\ At(f, "prekey locked")
    /\ fetches' = [fetches EXCEPT ![f].stage = "done"]
    /\ prekeys' = [k \in DOMAIN prekeys |->
                      IF k = fetches[f].otk THEN [prekeys[k] EXCEPT !.consumed = TRUE]
                      ELSE prekeys[k]]
    /\ UNCHANGED <<users, devices, identity, signed, uploads, gone>>

\* Mutant of Rollback: the update runs outside the transaction.
RollbackKeepsUpdate(f) ==
    /\ fetches[f].stage \in {"identity read", "both read", "prekey locked"}
    /\ fetches' = [fetches EXCEPT ![f].stage = "failed"]
    /\ prekeys' = [k \in DOMAIN prekeys |->
                      IF k = fetches[f].otk THEN [prekeys[k] EXCEPT !.consumed = TRUE]
                      ELSE prekeys[k]]
    /\ UNCHANGED <<users, devices, identity, signed, uploads, gone>>

\* The client hangs up (r.Context()) or the database fails.
Rollback(f) ==
    /\ fetches[f].stage \in {"identity read", "both read", "prekey locked"}
    /\ fetches' = [fetches EXCEPT ![f].stage = "failed"]
    /\ UNCHANGED tables

-----------------------------------------------------------------------------
(* Deleting.                                                               *)

DevicesOf(u) == {d \in DOMAIN devices : devices[d] = u}
PrekeysOf(D) == {k \in DOMAIN prekeys : prekeys[k].device \in D}

\* The row of the user goes and the foreign keys cascade; the cascade waits
\* for the row of a prekey that a fetch has locked.
DeleteUserData(u) ==
    LET D == DevicesOf(u)
    IN  /\ u \in users
        /\ PrekeysOf(D) \cap Locked = {}
        /\ users' = users \ {u}
        /\ devices' = Restrict(devices, DOMAIN devices \ D)
        /\ identity' = Restrict(identity, DOMAIN identity \ D)
        /\ signed' = Restrict(signed, DOMAIN signed \ D)
        /\ prekeys' = Restrict(prekeys, DOMAIN prekeys \ PrekeysOf(D))
        /\ gone' = gone \cup PrekeysOf(D)
        /\ UNCHANGED <<uploads, fetches>>

-----------------------------------------------------------------------------

Next ==
    \/ \E r \in Registrations : RegisterDevice(r)
    \/ \E r \in Rotations : RotateSignedPreKey(r)
    \/ \E u \in User : DeleteUserData(u)
    \/ \E f \in Fetch :
         \/ \E d \in Device : ReadIdentity(f, d)
         \/ ReadSigned(f)
         \/ SelectPrekey(f)
         \/ CommitBundle(f)
         \/ Rollback(f)

Spec == Init /\ [][Next]_vars

-----------------------------------------------------------------------------
(* Properties.                                                             *)

\* Type correctness of the tables and of the calls in flight.
TypeOK ==
    /\ users \subseteq User
    /\ DOMAIN devices \subseteq Device /\ \A d \in DOMAIN devices : devices[d] \in User
    /\ DOMAIN identity \subseteq Device /\ \A d \in DOMAIN identity : identity[d] \in Nat
    /\ DOMAIN signed \subseteq Device /\ \A d \in DOMAIN signed : signed[d] \in SignedPreKey
    /\ DOMAIN prekeys \subseteq Prekey
    /\ \A k \in DOMAIN prekeys : prekeys[k] \in OneTimePrekey
    /\ uploads \in Nat
    /\ gone \subseteq Prekey
    /\ fetches \in [Fetch -> Call]

Answered == {f \in Fetch : At(f, "done")}
Served == {fetches[f].otk : f \in Answered} \ {None}

\* GetPreKeyBundle never answers two calls with the same one-time prekey,
\* however the calls, retried uploads and deletions overlap.
OneTimeUse ==
    \A f, g \in Answered : fetches[f].otk = fetches[g].otk => f = g \/ fetches[f].otk = None

\* A call that rolls back costs no key: what is marked consumed was answered.
NothingLost == {k \in DOMAIN prekeys : prekeys[k].consumed} \subseteq Served

\* Every key and every device belongs to a row that is still there, also when
\* a registration, a rotation and a deletion of one user meet; and a device
\* that can be found has the keys a bundle needs.
NoOrphans ==
    /\ \A d \in DOMAIN devices : devices[d] \in users
    /\ DOMAIN identity = DOMAIN devices /\ DOMAIN signed = DOMAIN devices
    /\ \A k \in DOMAIN prekeys : prekeys[k].device \in DOMAIN devices

\* A bundle is of one device, whatever is uploaded between its two statements:
\* its signed prekey is signed by its identity key, so X3DH accepts it, and its
\* one-time prekey was uploaded with that identity key, so the device that
\* answers to it has the private half.
BundleIsOfOneDevice ==
    \A f \in Answered :
        /\ fetches[f].signed.signer = fetches[f].identity
        /\ fetches[f].otk # None =>
              \E r \in Registrations \cup Rotations :
                  /\ r.identity = fetches[f].identity
                  /\ fetches[f].otk \in r.batch

\* The service is a dispenser of prekeys.
Dispenser == INSTANCE PrekeyDispenser WITH
    stock <- {k \in DOMAIN prekeys : ~prekeys[k].consumed},
    given <- Served

IsDispenser == Dispenser!Spec
===============================================================================
