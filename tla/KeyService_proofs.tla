--------------------------- MODULE KeyService_proofs ---------------------------
(***************************************************************************)
(* Proofs about KeyService: type correctness, OneTimeUse, NothingLost,     *)
(* NoOrphans, BundleIsOfOneDevice, and that the service implements         *)
(* PrekeyDispenser, for any number of devices, prekeys and concurrent      *)
(* fetches.                                                                *)
(*                                                                         *)
(* The argument is the one of the row lock: a prekey that a call has       *)
(* selected is in the table, unconsumed, and selected by no other call, so *)
(* the commit of that call is the first and the only one to hand it out.   *)
(***************************************************************************)
EXTENDS KeyService, TLAPS

Holding(f) == At(f, "prekey locked") /\ fetches[f].otk # None

\* What the row lock gives its holder, and what a served key leaves behind.
LockInv ==
    /\ \A f \in Fetch : Holding(f) =>
         /\ fetches[f].otk \in DOMAIN prekeys
         /\ ~prekeys[fetches[f].otk].consumed
    /\ \A f, g \in Fetch :
         Holding(f) /\ Holding(g) /\ fetches[f].otk = fetches[g].otk => f = g
    /\ \A k \in Served :
         IF k \in DOMAIN prekeys THEN prekeys[k].consumed ELSE k \in gone

KInv == TypeOK /\ LockInv /\ OneTimeUse /\ NothingLost

-----------------------------------------------------------------------------
(* Types.                                                                  *)

LEMMA UpsertType ==
    ASSUME NEW table, NEW key, NEW row, NEW K, NEW R,
           DOMAIN table \subseteq K, \A x \in DOMAIN table : table[x] \in R,
           key \in K, row \in R
    PROVE  /\ DOMAIN Upsert(table, key, row) \subseteq K
           /\ \A x \in DOMAIN Upsert(table, key, row) : Upsert(table, key, row)[x] \in R
  BY DEF Upsert

\* Restrict never adds a row.
LEMMA RestrictType ==
    ASSUME NEW table, NEW S, S \subseteq DOMAIN table
    PROVE  /\ DOMAIN Restrict(table, S) = S
           /\ \A x \in S : Restrict(table, S)[x] = table[x]
  BY DEF Restrict

\* The rows that AddBatch leaves.
LEMMA AddBatchRows ==
    ASSUME TypeOK, NEW d \in Device, NEW B \in SUBSET Prekey, AddBatch(d, B)
    PROVE  /\ DOMAIN prekeys' = DOMAIN prekeys \cup B
           /\ \A k \in DOMAIN prekeys : prekeys'[k] = prekeys[k]
           /\ \A k \in B \ DOMAIN prekeys :
                prekeys'[k] \in OneTimePrekey /\ ~prekeys'[k].consumed
  BY DEF AddBatch, TypeOK, OneTimePrekey

\* The rows that CommitBundle leaves.
LEMMA CommitRows ==
    ASSUME TypeOK, NEW f \in Fetch, CommitBundle(f)
    PROVE  /\ DOMAIN prekeys' = DOMAIN prekeys
           /\ \A k \in DOMAIN prekeys :
                /\ prekeys'[k] \in OneTimePrekey
                /\ k # fetches[f].otk => prekeys'[k] = prekeys[k]
                /\ k = fetches[f].otk => prekeys'[k].consumed
  BY DEF CommitBundle, TypeOK, OneTimePrekey

-----------------------------------------------------------------------------
(* The invariant.                                                          *)

LEMMA KInit == Init => KInv
  <1> SUFFICES ASSUME Init PROVE KInv
    OBVIOUS
  <1>1. \A f \in Fetch : fetches[f] = NewCall
    BY DEF Init
  <1>2. TypeOK
    <2>1. NewCall \in Call
      BY DEF NewCall, Call, Stages
    <2>2. fetches \in [Fetch -> Call]
      BY <2>1 DEF Init
    <2>3. /\ DOMAIN devices = {} /\ DOMAIN identity = {}
          /\ DOMAIN signed = {} /\ DOMAIN prekeys = {}
      BY DEF Init
    <2> QED BY <2>2, <2>3 DEF Init, TypeOK
  <1>3. \A f \in Fetch : ~Holding(f) /\ ~At(f, "done")
    <2>1. \A f \in Fetch : fetches[f].stage = "new"
      BY <1>1 DEF NewCall
    <2> QED BY <2>1 DEF Holding, At
  <1>4. Answered = {} /\ Served = {}
    BY <1>3 DEF Answered, Served
  <1>5. DOMAIN prekeys = {}
    BY DEF Init
  <1> QED BY <1>2, <1>3, <1>4, <1>5 DEF KInv, LockInv, OneTimeUse, NothingLost

\* A step that leaves the calls alone keeps LockInv when it keeps the rows.
LEMMA RowsKept ==
    ASSUME KInv, UNCHANGED fetches, TypeOK',
           \A k \in DOMAIN prekeys : k \in DOMAIN prekeys' /\ prekeys'[k] = prekeys[k],
           \A k \in DOMAIN prekeys' \ DOMAIN prekeys :
               k \notin gone /\ ~prekeys'[k].consumed,
           UNCHANGED gone
    PROVE  KInv'
  <1>1. \A f \in Fetch : Holding(f)' = Holding(f) /\ At(f, "done")' = At(f, "done")
    BY DEF Holding, At
  <1>2. Answered' = Answered /\ Served' = Served
    BY <1>1 DEF Answered, Served
  <1>3. LockInv'
    <2>1. \A f \in Fetch : Holding(f) =>
             fetches[f].otk \in DOMAIN prekeys' /\ ~prekeys'[fetches[f].otk].consumed
      BY DEF KInv, LockInv
    <2>2. \A k \in Served :
             IF k \in DOMAIN prekeys' THEN prekeys'[k].consumed ELSE k \in gone
      BY DEF KInv, LockInv
    <2>3. \A f, g \in Fetch :
             Holding(f) /\ Holding(g) /\ fetches[f].otk = fetches[g].otk => f = g
      BY DEF KInv, LockInv
    <2> QED BY <1>1, <1>2, <2>1, <2>2, <2>3 DEF LockInv
  <1>4. OneTimeUse'
    BY <1>2 DEF KInv, OneTimeUse
  <1>5. NothingLost'
    BY <1>2 DEF KInv, NothingLost
  <1> QED BY <1>3, <1>4, <1>5 DEF KInv

LEMMA RegisterInv ==
    ASSUME KInv, NEW r \in Registrations, RegisterDevice(r)
    PROVE  KInv'
  <1>1. r \in Upload /\ r.device \in Device /\ r.user \in User /\ r.identity \in Nat
        /\ [public |-> r.signed, signer |-> r.identity] \in SignedPreKey
        /\ r.batch \in SUBSET Prekey
    BY KeyServiceAssumption DEF Upload, SignedPreKey
  <1>2. AddBatch(r.device, r.batch) /\ r.batch \cap gone = {}
        /\ UNCHANGED <<gone, fetches>>
    BY DEF RegisterDevice, MayUpload
  <1>3. /\ DOMAIN prekeys' = DOMAIN prekeys \cup r.batch
        /\ \A k \in DOMAIN prekeys : prekeys'[k] = prekeys[k]
        /\ \A k \in r.batch \ DOMAIN prekeys :
             prekeys'[k] \in OneTimePrekey /\ ~prekeys'[k].consumed
    BY <1>1, <1>2, AddBatchRows DEF KInv
  <1>4. TypeOK'
    <2>1. DOMAIN prekeys' \subseteq Prekey
          /\ \A k \in DOMAIN prekeys' : prekeys'[k] \in OneTimePrekey
      BY <1>1, <1>3 DEF KInv, TypeOK
    <2>2. users' \subseteq User /\ uploads' \in Nat
      BY <1>1 DEF RegisterDevice, KInv, TypeOK
    <2>3. DOMAIN devices' \subseteq Device /\ \A d \in DOMAIN devices' : devices'[d] \in User
      BY <1>1, UpsertType DEF RegisterDevice, KInv, TypeOK
    <2>4. DOMAIN identity' \subseteq Device /\ \A d \in DOMAIN identity' : identity'[d] \in Nat
      BY <1>1, UpsertType DEF RegisterDevice, KInv, TypeOK
    <2>5. DOMAIN signed' \subseteq Device /\ \A d \in DOMAIN signed' : signed'[d] \in SignedPreKey
      BY <1>1, UpsertType DEF RegisterDevice, KInv, TypeOK
    <2> QED BY <1>2, <2>1, <2>2, <2>3, <2>4, <2>5 DEF KInv, TypeOK
  <1> QED BY <1>2, <1>3, <1>4, RowsKept

LEMMA RotateInv ==
    ASSUME KInv, NEW r \in Rotations, RotateSignedPreKey(r)
    PROVE  KInv'
  <1>1. r \in Upload /\ r.device \in Device
        /\ [public |-> r.signed, signer |-> r.identity] \in SignedPreKey
        /\ r.batch \in SUBSET Prekey
    BY KeyServiceAssumption DEF Upload, SignedPreKey
  <1>2. AddBatch(r.device, r.batch) /\ r.batch \cap gone = {}
        /\ UNCHANGED <<gone, fetches>>
    BY DEF RotateSignedPreKey, MayUpload
  <1>3. /\ DOMAIN prekeys' = DOMAIN prekeys \cup r.batch
        /\ \A k \in DOMAIN prekeys : prekeys'[k] = prekeys[k]
        /\ \A k \in r.batch \ DOMAIN prekeys :
             prekeys'[k] \in OneTimePrekey /\ ~prekeys'[k].consumed
    BY <1>1, <1>2, AddBatchRows DEF KInv
  <1>4. TypeOK'
    <2>1. DOMAIN prekeys' \subseteq Prekey
          /\ \A k \in DOMAIN prekeys' : prekeys'[k] \in OneTimePrekey
      BY <1>1, <1>3 DEF KInv, TypeOK
    <2>2. uploads' \in Nat /\ UNCHANGED <<users, devices, identity>>
      BY DEF RotateSignedPreKey, KInv, TypeOK
    <2>3. DOMAIN signed' \subseteq Device /\ \A d \in DOMAIN signed' : signed'[d] \in SignedPreKey
      BY <1>1, UpsertType DEF RotateSignedPreKey, KInv, TypeOK
    <2> QED BY <1>2, <2>1, <2>2, <2>3 DEF KInv, TypeOK
  <1> QED BY <1>2, <1>3, <1>4, RowsKept

LEMMA DeleteInv ==
    ASSUME KInv, NEW u \in User, DeleteUserData(u)
    PROVE  KInv'
  <1> DEFINE D == DevicesOf(u)
             K == PrekeysOf(D)
  <1>1. /\ DOMAIN devices' = DOMAIN devices \ D
        /\ \A d \in DOMAIN devices' : devices'[d] = devices[d]
        /\ DOMAIN identity' = DOMAIN identity \ D
        /\ \A d \in DOMAIN identity' : identity'[d] = identity[d]
        /\ DOMAIN signed' = DOMAIN signed \ D
        /\ \A d \in DOMAIN signed' : signed'[d] = signed[d]
    BY RestrictType DEF DeleteUserData
  <1>2. /\ DOMAIN prekeys' = DOMAIN prekeys \ K
        /\ \A k \in DOMAIN prekeys' : prekeys'[k] = prekeys[k]
    BY RestrictType DEF DeleteUserData
  <1>3. gone' = gone \cup K /\ UNCHANGED <<uploads, fetches>> /\ K \cap Locked = {}
        /\ K \subseteq DOMAIN prekeys /\ users' \subseteq users
    BY DEF DeleteUserData, PrekeysOf
  <1> HIDE DEF D, K
  <1>4. TypeOK'
    BY <1>1, <1>2, <1>3 DEF KInv, TypeOK
  <1>5. \A f \in Fetch : Holding(f)' = Holding(f) /\ At(f, "done")' = At(f, "done")
    BY <1>3 DEF Holding, At
  <1>6. Answered' = Answered /\ Served' = Served
    BY <1>3, <1>5 DEF Answered, Served
  <1>7. LockInv'
    <2>1. ASSUME NEW f \in Fetch, Holding(f)
          PROVE  fetches[f].otk \in DOMAIN prekeys' /\ ~prekeys'[fetches[f].otk].consumed
      <3>1. fetches[f].otk \in Locked
        BY <2>1 DEF Holding, Locked
      <3> QED BY <1>2, <1>3, <2>1, <3>1 DEF KInv, LockInv
    <2>2. \A k \in Served :
             IF k \in DOMAIN prekeys' THEN prekeys'[k].consumed ELSE k \in gone'
      BY <1>2, <1>3 DEF KInv, LockInv
    <2>3. \A f, g \in Fetch :
             Holding(f) /\ Holding(g) /\ fetches[f].otk = fetches[g].otk => f = g
      BY DEF KInv, LockInv
    <2> QED BY <1>3, <1>5, <1>6, <2>1, <2>2, <2>3 DEF LockInv
  <1>8. OneTimeUse'
    BY <1>3, <1>6 DEF KInv, OneTimeUse
  <1>9. NothingLost'
    BY <1>2, <1>6 DEF KInv, NothingLost
  <1> QED BY <1>4, <1>7, <1>8, <1>9 DEF KInv

\* A step of call f that neither locks a prekey nor answers.
LEMMA CallStep ==
    ASSUME KInv, UNCHANGED tables, NEW f \in Fetch, fetches' \in [Fetch -> Call],
           \A g \in Fetch \ {f} : fetches'[g] = fetches[g],
           ~At(f, "done"), fetches'[f].stage \notin {"done", "prekey locked"}
    PROVE  KInv'
  <1>1. \A g \in Fetch \ {f} : Holding(g)' = Holding(g) /\ At(g, "done")' = At(g, "done")
    BY DEF Holding, At
  <1>2. ~Holding(f)' /\ ~At(f, "done")'
    BY DEF Holding, At
  <1>3. Answered' = Answered /\ Served' = Served
    BY <1>1, <1>2 DEF Answered, Served
  <1>4. TypeOK'
    BY DEF KInv, TypeOK, tables
  <1>5. UNCHANGED <<prekeys, gone>>
    BY DEF tables
  <1>6. LockInv'
    BY <1>1, <1>2, <1>3, <1>5 DEF KInv, LockInv
  <1>7. OneTimeUse'
    BY <1>3 DEF KInv, OneTimeUse, Answered
  <1>8. NothingLost'
    BY <1>3, <1>5 DEF KInv, NothingLost
  <1> QED BY <1>4, <1>6, <1>7, <1>8 DEF KInv

LEMMA ReadIdentityInv ==
    ASSUME KInv, NEW f \in Fetch, NEW d \in Device, ReadIdentity(f, d)
    PROVE  KInv'
  <1>1. fetches \in [Fetch -> Call] /\ fetches[f] \in Call
    BY DEF KInv, TypeOK
  <1>2. CASE d \in DOMAIN identity
    <2>1. fetches' = [fetches EXCEPT ![f] = [@ EXCEPT !.stage = "identity read",
                          !.device = d, !.identity = identity[d]]]
      BY <1>2 DEF ReadIdentity
    <2>2. identity[d] \in Nat
      BY <1>2 DEF KInv, TypeOK
    <2>3. fetches' \in [Fetch -> Call] /\ fetches'[f].stage = "identity read"
      BY <1>1, <2>1, <2>2 DEF Call, Stages
    <2>4. \A g \in Fetch \ {f} : fetches'[g] = fetches[g]
      BY <1>1, <2>1
    <2> QED BY <2>3, <2>4, CallStep DEF ReadIdentity, At
  <1>3. CASE d \notin DOMAIN identity
    <2>1. fetches' = [fetches EXCEPT ![f] = [@ EXCEPT !.stage = "failed", !.device = d]]
      BY <1>3 DEF ReadIdentity
    <2>2. fetches' \in [Fetch -> Call] /\ fetches'[f].stage = "failed"
      BY <1>1, <2>1 DEF Call, Stages
    <2>3. \A g \in Fetch \ {f} : fetches'[g] = fetches[g]
      BY <1>1, <2>1
    <2> QED BY <2>2, <2>3, CallStep DEF ReadIdentity, At
  <1> QED BY <1>2, <1>3

LEMMA ReadSignedInv ==
    ASSUME KInv, NEW f \in Fetch, ReadSigned(f)
    PROVE  KInv'
  <1> DEFINE d == fetches[f].device
  <1>1. fetches \in [Fetch -> Call] /\ fetches[f] \in Call
    BY DEF KInv, TypeOK
  <1>2. CASE d \in DOMAIN signed
    <2>1. fetches' = [fetches EXCEPT ![f] =
                        [@ EXCEPT !.stage = "both read", !.signed = signed[d]]]
      BY <1>2 DEF ReadSigned
    <2>2. signed[d] \in SignedPreKey
      BY <1>2 DEF KInv, TypeOK
    <2>3. fetches' \in [Fetch -> Call] /\ fetches'[f].stage = "both read"
      BY <1>1, <2>1, <2>2 DEF Call, Stages
    <2>4. \A g \in Fetch \ {f} : fetches'[g] = fetches[g]
      BY <1>1, <2>1
    <2> QED BY <2>3, <2>4, CallStep DEF ReadSigned, At
  <1>3. CASE d \notin DOMAIN signed
    <2>1. fetches' = [fetches EXCEPT ![f] = [@ EXCEPT !.stage = "failed"]]
      BY <1>3 DEF ReadSigned
    <2>2. fetches' \in [Fetch -> Call] /\ fetches'[f].stage = "failed"
      BY <1>1, <2>1 DEF Call, Stages
    <2>3. \A g \in Fetch \ {f} : fetches'[g] = fetches[g]
      BY <1>1, <2>1
    <2> QED BY <2>2, <2>3, CallStep DEF ReadSigned, At
  <1> QED BY <1>2, <1>3

LEMMA RollbackInv ==
    ASSUME KInv, NEW f \in Fetch, Rollback(f)
    PROVE  KInv'
  <1>1. fetches \in [Fetch -> Call] /\ fetches[f] \in Call
    BY DEF KInv, TypeOK
  <1>2. fetches' \in [Fetch -> Call] /\ fetches'[f].stage = "failed"
    BY <1>1 DEF Rollback, Call, Stages
  <1>3. \A g \in Fetch \ {f} : fetches'[g] = fetches[g]
    BY <1>1 DEF Rollback
  <1>4. UNCHANGED tables /\ ~At(f, "done")
    BY DEF Rollback, At
  <1> QED BY <1>2, <1>3, <1>4, CallStep

\* SKIP LOCKED: the prekey selected is nobody else's.
LEMMA SelectInv ==
    ASSUME KInv, NEW f \in Fetch, SelectPrekey(f)
    PROVE  KInv'
  <1> DEFINE C == Oldest(Candidates(fetches[f].device))
  <1>1. fetches \in [Fetch -> Call] /\ fetches[f] \in Call /\ At(f, "both read")
    BY DEF KInv, TypeOK, SelectPrekey
  <1>2. PICK k \in IF C = {} THEN {None} ELSE C :
            fetches' = [fetches EXCEPT ![f].stage = "prekey locked", ![f].otk = k]
    BY DEF SelectPrekey
  <1>3. k \in C \/ k = None
    BY <1>2
  <1>4. k = None \/ (k \in DOMAIN prekeys /\ ~prekeys[k].consumed /\ k \notin Locked)
    BY <1>3 DEF Oldest, Candidates, Available
  <1>5. k \in Prekey \cup {None}
    BY <1>4 DEF KInv, TypeOK
  <1> HIDE DEF C
  <1>6. /\ fetches' \in [Fetch -> Call]
        /\ fetches'[f].stage = "prekey locked" /\ fetches'[f].otk = k
    BY <1>1, <1>2, <1>5 DEF Call, Stages
  <1>7. \A g \in Fetch \ {f} : fetches'[g] = fetches[g]
    BY <1>1, <1>2
  <1>8. UNCHANGED tables /\ UNCHANGED <<prekeys, gone>>
    BY DEF SelectPrekey, tables
  <1>9. \A g \in Fetch : At(g, "done")' = At(g, "done")
    BY <1>1, <1>6, <1>7 DEF At
  <1>10. Answered' = Answered /\ \A g \in Answered : fetches'[g] = fetches[g]
    BY <1>1, <1>7, <1>9 DEF Answered, At
  <1>11. Served' = Served
    BY <1>10 DEF Served
  <1>12. TypeOK'
    BY <1>6, <1>8 DEF KInv, TypeOK, tables
  <1>13. LockInv'
    <2>1. \A g \in Fetch \ {f} : Holding(g)' = Holding(g)
      BY <1>7 DEF Holding, At
    <2>2. Holding(f)' => k # None /\ k \in DOMAIN prekeys /\ ~prekeys[k].consumed
                         /\ k \notin Locked
      BY <1>4, <1>6 DEF Holding
    <2>3. \A g \in Fetch \ {f} : Holding(g) => fetches[g].otk \in Locked
      BY DEF Holding, Locked
    <2>4. \A g \in Fetch : Holding(g)' =>
             fetches'[g].otk \in DOMAIN prekeys /\ ~prekeys[fetches'[g].otk].consumed
      BY <1>6, <1>7, <2>1, <2>2 DEF KInv, LockInv
    <2>5. ASSUME NEW g \in Fetch, NEW h \in Fetch, Holding(g)', Holding(h)',
                 fetches'[g].otk = fetches'[h].otk, g # h
          PROVE  FALSE
      <3>1. CASE g = f
        BY <3>1, <1>6, <1>7, <2>1, <2>2, <2>3, <2>5
      <3>2. CASE h = f
        BY <3>2, <1>6, <1>7, <2>1, <2>2, <2>3, <2>5
      <3>3. CASE g # f /\ h # f
        BY <3>3, <1>7, <2>1, <2>5 DEF KInv, LockInv
      <3> QED BY <3>1, <3>2, <3>3
    <2>6. \A x \in Served : IF x \in DOMAIN prekeys THEN prekeys[x].consumed ELSE x \in gone
      BY DEF KInv, LockInv
    <2> QED BY <1>8, <1>11, <2>4, <2>5, <2>6 DEF LockInv
  <1>14. OneTimeUse'
    BY <1>10 DEF KInv, OneTimeUse
  <1>15. NothingLost'
    BY <1>8, <1>11 DEF KInv, NothingLost
  <1> QED BY <1>12, <1>13, <1>14, <1>15 DEF KInv

\* What the commit of call f changes.
LEMMA CommitEffect ==
    ASSUME KInv, NEW f \in Fetch, CommitBundle(f)
    PROVE  /\ fetches' \in [Fetch -> Call]
           /\ ~Holding(f)' /\ At(f, "done")' /\ ~At(f, "done")
           /\ \A g \in Fetch : fetches'[g].otk = fetches[g].otk
           /\ \A g \in Fetch \ {f} : fetches'[g] = fetches[g]
           /\ \A g \in Fetch \ {f} :
                Holding(g)' = Holding(g) /\ At(g, "done")' = At(g, "done")
           /\ Answered' = Answered \cup {f}
           /\ Served' = Served \cup ({fetches[f].otk} \ {None})
  <1>1. fetches \in [Fetch -> Call] /\ fetches[f] \in Call /\ At(f, "prekey locked")
        /\ fetches' = [fetches EXCEPT ![f].stage = "done"]
    BY DEF KInv, TypeOK, CommitBundle
  <1>2. /\ fetches' \in [Fetch -> Call] /\ fetches'[f].stage = "done"
        /\ \A g \in Fetch : fetches'[g].otk = fetches[g].otk
        /\ \A g \in Fetch \ {f} : fetches'[g] = fetches[g]
    BY <1>1 DEF Call, Stages
  <1>3. ~Holding(f)' /\ At(f, "done")' /\ ~At(f, "done")
    BY <1>1, <1>2 DEF Holding, At
  <1>4. \A g \in Fetch \ {f} :
           Holding(g)' = Holding(g) /\ At(g, "done")' = At(g, "done")
    BY <1>2 DEF Holding, At
  <1>5. Answered' = Answered \cup {f}
    BY <1>3, <1>4 DEF Answered
  <1>6. Served' = Served \cup ({fetches[f].otk} \ {None})
    BY <1>2, <1>5 DEF Served, Answered
  <1> QED BY <1>2, <1>3, <1>4, <1>5, <1>6

LEMMA CommitInv ==
    ASSUME KInv, NEW f \in Fetch, CommitBundle(f)
    PROVE  KInv'
  <1> DEFINE k == fetches[f].otk
  <1>1. /\ DOMAIN prekeys' = DOMAIN prekeys
        /\ \A x \in DOMAIN prekeys :
             /\ prekeys'[x] \in OneTimePrekey
             /\ x # k => prekeys'[x] = prekeys[x]
             /\ x = k => prekeys'[x].consumed
    BY CommitRows DEF KInv
  <1>2. k # None => Holding(f)
    BY DEF CommitBundle, Holding
  <1>3. UNCHANGED <<users, devices, identity, signed, uploads, gone>>
    BY DEF CommitBundle
  <1>4. TypeOK'
    BY <1>1, <1>3, CommitEffect DEF KInv, TypeOK
  <1>5. LockInv'
    <2>1. ASSUME NEW g \in Fetch, Holding(g)'
          PROVE  fetches'[g].otk \in DOMAIN prekeys' /\ ~prekeys'[fetches'[g].otk].consumed
      <3>1. g # f /\ Holding(g) /\ fetches'[g].otk = fetches[g].otk
        BY <2>1, CommitEffect
      <3>2. fetches[g].otk # k
        BY <1>2, <3>1 DEF KInv, LockInv, Holding
      <3> QED BY <1>1, <3>1, <3>2 DEF KInv, LockInv
    <2>2. \A g, h \in Fetch : Holding(g)' /\ Holding(h)'
                                 /\ fetches'[g].otk = fetches'[h].otk => g = h
      BY CommitEffect DEF KInv, LockInv
    <2>3. ASSUME NEW x \in Served'
          PROVE  IF x \in DOMAIN prekeys' THEN prekeys'[x].consumed ELSE x \in gone'
      <3>1. CASE x = k /\ k # None
        BY <1>1, <1>2, <3>1 DEF KInv, LockInv
      <3>2. CASE x \in Served /\ x # k
        BY <1>1, <1>3, <3>2 DEF KInv, LockInv
      <3>3. CASE x \in Served /\ x = k
        BY <1>1, <1>3, <3>3 DEF KInv, LockInv
      <3> QED BY <2>3, <3>1, <3>2, <3>3, CommitEffect
    <2> QED BY <2>1, <2>2, <2>3 DEF LockInv
  <1>6. OneTimeUse'
    <2>1. ASSUME NEW g \in Answered PROVE fetches[g].otk # k \/ k = None
      <3> SUFFICES ASSUME fetches[g].otk = k, k # None PROVE FALSE
        OBVIOUS
      <3>1. k \in Served
        BY DEF Served
      <3>2. k \in DOMAIN prekeys /\ ~prekeys[k].consumed
        BY <1>2 DEF KInv, LockInv
      <3> QED BY <3>1, <3>2 DEF KInv, LockInv
    <2>2. \A g \in Answered' : g = f \/ g \in Answered
      BY CommitEffect
    <2>3. \A g \in Answered' : fetches'[g].otk = fetches[g].otk
      BY CommitEffect DEF Answered
    <2>4. ASSUME NEW g \in Answered', NEW h \in Answered', fetches'[g].otk = fetches'[h].otk
          PROVE  g = h \/ fetches'[g].otk = None
      BY <2>1, <2>2, <2>3, <2>4 DEF KInv, OneTimeUse
    <2> QED BY <2>4 DEF OneTimeUse
  <1>7. NothingLost'
    <2>1. ASSUME NEW x \in DOMAIN prekeys', prekeys'[x].consumed
          PROVE  x \in Served'
      <3>1. CASE x = k
        <4>1. x \in Prekey
          BY <1>1 DEF KInv, TypeOK
        <4>2. x # None
          BY <4>1, KeyServiceAssumption
        <4> QED BY <3>1, <4>2, CommitEffect
      <3>2. CASE x # k
        BY <1>1, <2>1, <3>2, CommitEffect DEF KInv, NothingLost
      <3> QED BY <3>1, <3>2
    <2> QED BY <2>1 DEF NothingLost
  <1> QED BY <1>4, <1>5, <1>6, <1>7 DEF KInv

LEMMA KNext == KInv /\ [Next]_vars => KInv'
  <1> SUFFICES ASSUME KInv, [Next]_vars PROVE KInv'
    OBVIOUS
  <1>1. CASE UNCHANGED vars
    <2>1. UNCHANGED <<fetches, prekeys, gone>> /\ TypeOK'
      BY <1>1 DEF vars, KInv, TypeOK
    <2> QED BY <2>1, RowsKept
  <1>2. ASSUME NEW f \in Fetch,
               \/ \E d \in Device : ReadIdentity(f, d)
               \/ ReadSigned(f)
               \/ SelectPrekey(f)
               \/ CommitBundle(f)
               \/ Rollback(f)
        PROVE  KInv'
    BY <1>2, ReadIdentityInv, ReadSignedInv, SelectInv, CommitInv, RollbackInv
  <1> QED BY <1>1, <1>2, RegisterInv, RotateInv, DeleteInv DEF Next

LEMMA KInvariance == Spec => []KInv
  BY KInit, KNext, PTL DEF Spec

-----------------------------------------------------------------------------
(* The refinement.                                                         *)

Stock == {k \in DOMAIN prekeys : ~prekeys[k].consumed}

\* An upload publishes the keys of its batch that had no row.
LEMMA UploadPublishes ==
    ASSUME KInv, NEW d \in Device, NEW B \in SUBSET Prekey, AddBatch(d, B),
           B \cap gone = {}, UNCHANGED fetches
    PROVE  Dispenser!Publish
  <1> DEFINE K == B \ DOMAIN prekeys
  <1>1. Served' = Served
    BY DEF Served, Answered, At
  <1>2. K \in SUBSET Prekey /\ K \cap Served = {}
    BY DEF KInv, LockInv
  <1>3. Stock' = Stock \cup K
    BY AddBatchRows DEF Stock, KInv
  <1> QED BY <1>1, <1>2, <1>3 DEF Dispenser!Publish, Stock

LEMMA CommitHandsOut ==
    ASSUME KInv, NEW f \in Fetch, CommitBundle(f)
    PROVE  Dispenser!HandOut \/ UNCHANGED Dispenser!vars
  <1> DEFINE k == fetches[f].otk
  <1>1. /\ DOMAIN prekeys' = DOMAIN prekeys
        /\ \A x \in DOMAIN prekeys : x # k => prekeys'[x] = prekeys[x]
        /\ \A x \in DOMAIN prekeys : x = k => prekeys'[x].consumed
    BY CommitRows DEF KInv
  <1>2. CASE k = None
    <2>1. None \notin DOMAIN prekeys
      BY KeyServiceAssumption DEF KInv, TypeOK
    <2>2. Stock' = Stock
      BY <1>1, <1>2, <2>1 DEF Stock
    <2>3. Served' = Served
      BY <1>2, CommitEffect
    <2> QED BY <2>2, <2>3 DEF Dispenser!vars, Stock
  <1>3. CASE k # None
    <2>1. Holding(f)
      BY <1>3 DEF CommitBundle, Holding
    <2>2. k \in Stock
      BY <2>1 DEF KInv, LockInv, Stock
    <2>3. Stock' = Stock \ {k}
      BY <1>1 DEF Stock
    <2>4. Served' = Served \cup {k}
      BY <1>3, CommitEffect
    <2> QED BY <2>2, <2>3, <2>4 DEF Dispenser!HandOut, Stock
  <1> QED BY <1>2, <1>3

LEMMA DeleteWithdraws ==
    ASSUME KInv, NEW u \in User, DeleteUserData(u)
    PROVE  Dispenser!Withdraw
  <1>1. /\ DOMAIN prekeys' \subseteq DOMAIN prekeys
        /\ \A k \in DOMAIN prekeys' : prekeys'[k] = prekeys[k]
    BY RestrictType DEF DeleteUserData
  <1>2. UNCHANGED fetches
    BY DEF DeleteUserData
  <1>3. Served' = Served
    BY <1>2 DEF Served, Answered, At
  <1> QED BY <1>1, <1>3 DEF Dispenser!Withdraw

\* Reading, selecting and rolling back change neither stock nor what is given.
LEMMA CallStutters ==
    ASSUME KInv, NEW f \in Fetch,
           \/ \E d \in Device : ReadIdentity(f, d)
           \/ ReadSigned(f)
           \/ SelectPrekey(f)
           \/ Rollback(f)
    PROVE  UNCHANGED Dispenser!vars
  <1>1. UNCHANGED tables /\ ~At(f, "done")
    BY DEF ReadIdentity, ReadSigned, SelectPrekey, Rollback, At
  <1>2. fetches \in [Fetch -> Call]
    BY DEF KInv, TypeOK
  <1>3. \A g \in Fetch \ {f} : fetches'[g] = fetches[g]
    BY <1>2 DEF ReadIdentity, ReadSigned, SelectPrekey, Rollback
  <1>4. fetches'[f].stage # "done"
    <2>1. ASSUME NEW d \in Device, ReadIdentity(f, d) PROVE fetches'[f].stage # "done"
      <3>1. fetches[f] \in Call
        BY <1>2
      <3>2. CASE d \in DOMAIN identity
        BY <1>2, <2>1, <3>1, <3>2 DEF ReadIdentity, Call
      <3>3. CASE d \notin DOMAIN identity
        BY <1>2, <2>1, <3>1, <3>3 DEF ReadIdentity, Call
      <3> QED BY <3>2, <3>3
    <2>2. ASSUME ReadSigned(f) PROVE fetches'[f].stage # "done"
      <3>1. fetches[f] \in Call
        BY <1>2
      <3>2. CASE fetches[f].device \in DOMAIN signed
        BY <1>2, <2>2, <3>1, <3>2 DEF ReadSigned, Call
      <3>3. CASE fetches[f].device \notin DOMAIN signed
        BY <1>2, <2>2, <3>1, <3>3 DEF ReadSigned, Call
      <3> QED BY <3>2, <3>3
    <2>3. ASSUME SelectPrekey(f) PROVE fetches'[f].stage # "done"
      BY <1>2, <2>3 DEF SelectPrekey, Call
    <2>4. ASSUME Rollback(f) PROVE fetches'[f].stage # "done"
      BY <1>2, <2>4 DEF Rollback, Call
    <2> QED BY <2>1, <2>2, <2>3, <2>4
  <1>5. \A g \in Fetch : At(g, "done")' = At(g, "done")
    BY <1>1, <1>3, <1>4 DEF At
  <1>6. Answered' = Answered /\ \A g \in Answered : fetches'[g] = fetches[g]
    BY <1>1, <1>3, <1>5 DEF Answered
  <1>7. Served' = Served
    BY <1>6 DEF Served
  <1>8. UNCHANGED prekeys
    BY <1>1 DEF tables
  <1> QED BY <1>7, <1>8 DEF Dispenser!vars

LEMMA StepRefines == KInv /\ [Next]_vars => [Dispenser!Next]_(Dispenser!vars)
  <1> SUFFICES ASSUME KInv, [Next]_vars
               PROVE  Dispenser!Next \/ UNCHANGED Dispenser!vars
    OBVIOUS
  <1>1. CASE UNCHANGED vars
    BY <1>1 DEF vars, Dispenser!vars, Served, Answered, At
  <1>2. ASSUME NEW r \in Registrations, RegisterDevice(r) PROVE Dispenser!Publish
    BY <1>2, UploadPublishes, KeyServiceAssumption DEF RegisterDevice, MayUpload, Upload
  <1>3. ASSUME NEW r \in Rotations, RotateSignedPreKey(r) PROVE Dispenser!Publish
    BY <1>3, UploadPublishes, KeyServiceAssumption DEF RotateSignedPreKey, MayUpload, Upload
  <1>4. ASSUME NEW u \in User, DeleteUserData(u) PROVE Dispenser!Withdraw
    BY <1>4, DeleteWithdraws
  <1>5. ASSUME NEW f \in Fetch,
               \/ \E d \in Device : ReadIdentity(f, d)
               \/ ReadSigned(f)
               \/ SelectPrekey(f)
               \/ CommitBundle(f)
               \/ Rollback(f)
        PROVE  Dispenser!HandOut \/ UNCHANGED Dispenser!vars
    BY <1>5, CommitHandsOut, CallStutters
  <1> QED BY <1>1, <1>2, <1>3, <1>4, <1>5 DEF Next, Dispenser!Next

-----------------------------------------------------------------------------
(* The rows that belong together.                                          *)

\* AddBatch gives the new keys to the device that uploads them.
LEMMA AddBatchOwner ==
    ASSUME NEW d \in Device, NEW B \in SUBSET Prekey, AddBatch(d, B)
    PROVE  /\ DOMAIN prekeys' = DOMAIN prekeys \cup B
           /\ \A k \in DOMAIN prekeys : prekeys'[k].device = prekeys[k].device
           /\ \A k \in B \ DOMAIN prekeys : prekeys'[k].device = d
  BY DEF AddBatch

\* A request names devices, users and prekeys that there are.
LEMMA RequestType ==
    ASSUME NEW r \in Registrations \cup Rotations
    PROVE  r.device \in Device /\ r.batch \in SUBSET Prekey
  BY KeyServiceAssumption DEF Upload

\* What a deletion leaves of the tables: the rows of the other users.
LEMMA DeleteRows ==
    ASSUME NEW u, DeleteUserData(u)
    PROVE  /\ users' = users \ {u}
           /\ DOMAIN devices' = DOMAIN devices \ DevicesOf(u)
           /\ \A d \in DOMAIN devices' : devices'[d] = devices[d]
           /\ DOMAIN identity' = DOMAIN identity \ DevicesOf(u)
           /\ \A d \in DOMAIN identity' : identity'[d] = identity[d]
           /\ DOMAIN signed' = DOMAIN signed \ DevicesOf(u)
           /\ \A d \in DOMAIN signed' : signed'[d] = signed[d]
           /\ DOMAIN prekeys' = DOMAIN prekeys \ PrekeysOf(DevicesOf(u))
           /\ \A k \in DOMAIN prekeys' : prekeys'[k] = prekeys[k]
           /\ UNCHANGED fetches
  <1> DEFINE D == DevicesOf(u)
  <1>1. /\ DOMAIN devices \ D \subseteq DOMAIN devices
        /\ DOMAIN identity \ D \subseteq DOMAIN identity
        /\ DOMAIN signed \ D \subseteq DOMAIN signed
        /\ DOMAIN prekeys \ PrekeysOf(D) \subseteq DOMAIN prekeys
    OBVIOUS
  <1> QED BY <1>1, RestrictType DEF DeleteUserData

\* A commit changes the owner of no prekey.
LEMMA CommitOwner ==
    ASSUME NEW f \in Fetch, CommitBundle(f)
    PROVE  /\ DOMAIN prekeys' = DOMAIN prekeys
           /\ \A k \in DOMAIN prekeys : prekeys'[k].device = prekeys[k].device
           /\ UNCHANGED <<users, devices, identity, signed>>
  <1>1. ASSUME NEW k \in DOMAIN prekeys PROVE prekeys'[k].device = prekeys[k].device
    <2>1. CASE k = fetches[f].otk
      <3>1. prekeys'[k] = [prekeys[k] EXCEPT !.consumed = TRUE]
        BY <2>1 DEF CommitBundle
      <3> QED BY <3>1
    <2>2. CASE k # fetches[f].otk
      BY <2>2 DEF CommitBundle
    <2> QED BY <2>1, <2>2
  <1> QED BY <1>1 DEF CommitBundle

LEMMA OrphansNext == NoOrphans /\ [Next]_vars => NoOrphans'
  <1> SUFFICES ASSUME NoOrphans, [Next]_vars PROVE NoOrphans'
    OBVIOUS
  <1>1. ASSUME UNCHANGED <<users, devices, identity, signed, prekeys>> PROVE NoOrphans'
    BY <1>1 DEF NoOrphans
  <1>2. CASE UNCHANGED vars
    BY <1>1, <1>2 DEF vars
  <1>3. ASSUME NEW r \in Registrations, RegisterDevice(r) PROVE NoOrphans'
    <2>1. /\ DOMAIN devices' = DOMAIN devices \cup {r.device}
          /\ devices'[r.device] = r.user
          /\ \A d \in DOMAIN devices \ {r.device} : devices'[d] = devices[d]
      BY <1>3 DEF RegisterDevice, Upsert
    <2>2. DOMAIN identity' = DOMAIN identity \cup {r.device}
      BY <1>3 DEF RegisterDevice, Upsert
    <2>3. DOMAIN signed' = DOMAIN signed \cup {r.device}
      BY <1>3 DEF RegisterDevice, Upsert
    <2>4. AddBatch(r.device, r.batch) /\ users' = users \cup {r.user}
      BY <1>3 DEF RegisterDevice
    <2>5. r.device \in Device /\ r.batch \in SUBSET Prekey
      BY RequestType
    <2>6. /\ DOMAIN prekeys' = DOMAIN prekeys \cup r.batch
          /\ \A k \in DOMAIN prekeys : prekeys'[k].device = prekeys[k].device
          /\ \A k \in r.batch \ DOMAIN prekeys : prekeys'[k].device = r.device
      BY <2>4, <2>5, AddBatchOwner
    <2>7. \A k \in DOMAIN prekeys' : prekeys'[k].device \in DOMAIN devices'
      BY <2>1, <2>6 DEF NoOrphans
    <2> QED BY <2>1, <2>2, <2>3, <2>4, <2>7 DEF NoOrphans
  <1>4. ASSUME NEW r \in Rotations, RotateSignedPreKey(r) PROVE NoOrphans'
    <2>1. DOMAIN signed' = DOMAIN signed \cup {r.device}
      BY <1>4 DEF RotateSignedPreKey, Upsert
    <2>2. /\ r.device \in DOMAIN devices /\ AddBatch(r.device, r.batch)
          /\ UNCHANGED <<users, devices, identity>>
      BY <1>4 DEF RotateSignedPreKey
    <2>3. r.device \in Device /\ r.batch \in SUBSET Prekey
      BY RequestType
    <2>4. /\ DOMAIN prekeys' = DOMAIN prekeys \cup r.batch
          /\ \A k \in DOMAIN prekeys : prekeys'[k].device = prekeys[k].device
          /\ \A k \in r.batch \ DOMAIN prekeys : prekeys'[k].device = r.device
      BY <2>2, <2>3, AddBatchOwner
    <2>5. \A k \in DOMAIN prekeys' : prekeys'[k].device \in DOMAIN devices
      BY <2>2, <2>4 DEF NoOrphans
    <2> QED BY <2>1, <2>2, <2>5 DEF NoOrphans
  <1>5. ASSUME NEW u \in User, DeleteUserData(u) PROVE NoOrphans'
    <2>1. \A d \in DOMAIN devices' : devices'[d] \in users'
      BY <1>5, DeleteRows DEF NoOrphans, DevicesOf
    <2>2. \A k \in DOMAIN prekeys' : prekeys'[k].device \in DOMAIN devices'
      BY <1>5, DeleteRows DEF NoOrphans, PrekeysOf
    <2> QED BY <1>5, <2>1, <2>2, DeleteRows DEF NoOrphans
  <1>6. ASSUME NEW f \in Fetch,
               \/ \E d \in Device : ReadIdentity(f, d)
               \/ ReadSigned(f)
               \/ SelectPrekey(f)
               \/ Rollback(f)
        PROVE  NoOrphans'
    BY <1>1, <1>6 DEF ReadIdentity, ReadSigned, SelectPrekey, Rollback, tables
  <1>7. ASSUME NEW f \in Fetch, CommitBundle(f) PROVE NoOrphans'
    BY <1>7, CommitOwner DEF NoOrphans
  <1> QED BY <1>2, <1>3, <1>4, <1>5, <1>6, <1>7 DEF Next

-----------------------------------------------------------------------------
(* Where the parts of a bundle come from.                                  *)

Requests == Registrations \cup Rotations

\* Requests of one device name one identity key: the clients draw it when they
\* make the device and keep it in their state, so a retried registration and a
\* rotation name the same.  A device id that is registered anew with other keys
\* (init with the id of an old device) is what this leaves out: the service lets
\* it happen, and the prekeys of the old identity key stay in the stock.
OneIdentity == \A r, q \in Requests : r.device = q.device => r.identity = q.identity

IsKeyOf(i, d) == \E r \in Requests : r.device = d /\ r.identity = i
IsUploadOf(k, d) == \E r \in Requests : r.device = d /\ k \in r.batch

\* Each row holds what its device uploaded, and so does each part of a bundle
\* in the making, also when the rows it was read from have changed since.
RowsFromUploads ==
    /\ \A d \in DOMAIN identity : IsKeyOf(identity[d], d)
    /\ \A d \in DOMAIN signed : IsKeyOf(signed[d].signer, d)
    /\ \A k \in DOMAIN prekeys : IsUploadOf(k, prekeys[k].device)

CallFromUploads(c) ==
    /\ c.stage \notin {"new", "failed"} => IsKeyOf(c.identity, c.device)
    /\ c.stage \in {"both read", "prekey locked", "done"} =>
          IsKeyOf(c.signed.signer, c.device)
    /\ c.stage \in {"prekey locked", "done"} /\ c.otk # None => IsUploadOf(c.otk, c.device)

BundleInv == RowsFromUploads /\ \A f \in Fetch : CallFromUploads(fetches[f])

LEMMA BundleInit == Init => BundleInv
  <1> SUFFICES ASSUME Init PROVE BundleInv
    OBVIOUS
  <1>1. /\ DOMAIN identity = {} /\ DOMAIN signed = {} /\ DOMAIN prekeys = {}
        /\ \A f \in Fetch : fetches[f].stage = "new"
    BY DEF Init, NewCall
  <1> QED BY <1>1 DEF BundleInv, RowsFromUploads, CallFromUploads

LEMMA RegisterRows ==
    ASSUME RowsFromUploads, NEW r \in Registrations, RegisterDevice(r)
    PROVE  RowsFromUploads'
  <1>1. \A d \in DOMAIN identity' :
           IF d = r.device THEN identity'[d] = r.identity
           ELSE d \in DOMAIN identity /\ identity'[d] = identity[d]
    BY DEF RegisterDevice, Upsert
  <1>2. \A d \in DOMAIN signed' :
           IF d = r.device THEN signed'[d].signer = r.identity
           ELSE d \in DOMAIN signed /\ signed'[d] = signed[d]
    <2> DEFINE row == [public |-> r.signed, signer |-> r.identity]
    <2>1. signed' = Upsert(signed, r.device, row) /\ row.signer = r.identity
      BY DEF RegisterDevice
    <2> HIDE DEF row
    <2> QED BY <2>1 DEF Upsert
  <1>3. AddBatch(r.device, r.batch)
    BY DEF RegisterDevice
  <1>4. r \in Requests
    BY DEF Requests
  <1>5. \A d \in DOMAIN identity' : IsKeyOf(identity'[d], d)
    BY <1>1, <1>4 DEF RowsFromUploads, IsKeyOf
  <1>6. \A d \in DOMAIN signed' : IsKeyOf(signed'[d].signer, d)
    BY <1>2, <1>4 DEF RowsFromUploads, IsKeyOf
  <1>7. r.device \in Device /\ r.batch \in SUBSET Prekey
    BY RequestType
  <1>8. /\ DOMAIN prekeys' = DOMAIN prekeys \cup r.batch
        /\ \A k \in DOMAIN prekeys : prekeys'[k].device = prekeys[k].device
        /\ \A k \in r.batch \ DOMAIN prekeys : prekeys'[k].device = r.device
    BY <1>3, <1>7, AddBatchOwner
  <1>9. \A k \in DOMAIN prekeys' : IsUploadOf(k, prekeys'[k].device)
    BY <1>4, <1>8 DEF RowsFromUploads, IsUploadOf
  <1> QED BY <1>5, <1>6, <1>9 DEF RowsFromUploads

LEMMA RotateRows ==
    ASSUME RowsFromUploads, NEW r \in Rotations, RotateSignedPreKey(r)
    PROVE  RowsFromUploads'
  <1>1. \A d \in DOMAIN signed' :
           IF d = r.device THEN signed'[d].signer = r.identity
           ELSE d \in DOMAIN signed /\ signed'[d] = signed[d]
    <2> DEFINE row == [public |-> r.signed, signer |-> r.identity]
    <2>1. signed' = Upsert(signed, r.device, row) /\ row.signer = r.identity
      BY DEF RotateSignedPreKey
    <2> HIDE DEF row
    <2> QED BY <2>1 DEF Upsert
  <1>2. AddBatch(r.device, r.batch) /\ UNCHANGED identity
    BY DEF RotateSignedPreKey
  <1>3. r \in Requests
    BY DEF Requests
  <1>4. \A d \in DOMAIN signed' : IsKeyOf(signed'[d].signer, d)
    BY <1>1, <1>3 DEF RowsFromUploads, IsKeyOf
  <1>5. r.device \in Device /\ r.batch \in SUBSET Prekey
    BY RequestType
  <1>6. /\ DOMAIN prekeys' = DOMAIN prekeys \cup r.batch
        /\ \A k \in DOMAIN prekeys : prekeys'[k].device = prekeys[k].device
        /\ \A k \in r.batch \ DOMAIN prekeys : prekeys'[k].device = r.device
    BY <1>2, <1>5, AddBatchOwner
  <1>7. \A k \in DOMAIN prekeys' : IsUploadOf(k, prekeys'[k].device)
    BY <1>3, <1>6 DEF RowsFromUploads, IsUploadOf
  <1> QED BY <1>2, <1>4, <1>7 DEF RowsFromUploads

LEMMA DeleteKeepsRows ==
    ASSUME RowsFromUploads, NEW u \in User, DeleteUserData(u)
    PROVE  RowsFromUploads'
  BY DeleteRows DEF RowsFromUploads

\* A statement of call f reads what is in the rows and changes no other call.
LEMMA CallReads ==
    ASSUME TypeOK, BundleInv, NEW f \in Fetch,
           \/ \E d \in Device : ReadIdentity(f, d)
           \/ ReadSigned(f)
           \/ SelectPrekey(f)
           \/ CommitBundle(f)
           \/ Rollback(f)
    PROVE  /\ CallFromUploads(fetches'[f])
           /\ \A g \in Fetch \ {f} : fetches'[g] = fetches[g]
  <1>1. fetches \in [Fetch -> Call] /\ fetches[f] \in Call
        /\ CallFromUploads(fetches[f]) /\ RowsFromUploads
    BY DEF TypeOK, BundleInv
  <1>2. ASSUME NEW c, fetches' = [fetches EXCEPT ![f] = c], CallFromUploads(c)
        PROVE  /\ CallFromUploads(fetches'[f])
               /\ \A g \in Fetch \ {f} : fetches'[g] = fetches[g]
    BY <1>1, <1>2
  <1>3. ASSUME NEW d \in Device, ReadIdentity(f, d) PROVE
               \E c : fetches' = [fetches EXCEPT ![f] = c] /\ CallFromUploads(c)
    <2>1. CASE d \in DOMAIN identity
      <3> DEFINE c == [fetches[f] EXCEPT !.stage = "identity read", !.device = d,
                                         !.identity = identity[d]]
      <3>1. fetches' = [fetches EXCEPT ![f] = c]
        BY <1>1, <1>3, <2>1 DEF ReadIdentity
      <3>2. c.stage = "identity read" /\ c.device = d /\ c.identity = identity[d]
        BY <1>1 DEF Call
      <3>3. CallFromUploads(c)
        BY <1>1, <2>1, <3>2 DEF CallFromUploads, RowsFromUploads
      <3> QED BY <3>1, <3>3
    <2>2. CASE d \notin DOMAIN identity
      <3> DEFINE c == [fetches[f] EXCEPT !.stage = "failed", !.device = d]
      <3>1. fetches' = [fetches EXCEPT ![f] = c]
        BY <1>1, <1>3, <2>2 DEF ReadIdentity
      <3>2. c.stage = "failed"
        BY <1>1 DEF Call
      <3>3. CallFromUploads(c)
        BY <3>2 DEF CallFromUploads
      <3> QED BY <3>1, <3>3
    <2> QED BY <2>1, <2>2
  <1>4. ASSUME ReadSigned(f) PROVE
               \E c : fetches' = [fetches EXCEPT ![f] = c] /\ CallFromUploads(c)
    <2> DEFINE d == fetches[f].device
    <2>1. CASE d \in DOMAIN signed
      <3> DEFINE c == [fetches[f] EXCEPT !.stage = "both read", !.signed = signed[d]]
      <3>1. fetches' = [fetches EXCEPT ![f] = c]
        BY <1>1, <1>4, <2>1 DEF ReadSigned
      <3>2. /\ c.stage = "both read" /\ c.device = d /\ c.signed = signed[d]
            /\ c.identity = fetches[f].identity
        BY <1>1 DEF Call
      <3>3. IsKeyOf(fetches[f].identity, d)
        BY <1>1, <1>4 DEF CallFromUploads, ReadSigned, At
      <3>4. CallFromUploads(c)
        BY <1>1, <2>1, <3>2, <3>3 DEF CallFromUploads, RowsFromUploads
      <3> QED BY <3>1, <3>4
    <2>2. CASE d \notin DOMAIN signed
      <3> DEFINE c == [fetches[f] EXCEPT !.stage = "failed"]
      <3>1. fetches' = [fetches EXCEPT ![f] = c]
        BY <1>1, <1>4, <2>2 DEF ReadSigned
      <3>2. c.stage = "failed"
        BY <1>1 DEF Call
      <3>3. CallFromUploads(c)
        BY <3>2 DEF CallFromUploads
      <3> QED BY <3>1, <3>3
    <2> QED BY <2>1, <2>2
  <1>5. ASSUME SelectPrekey(f) PROVE
               \E c : fetches' = [fetches EXCEPT ![f] = c] /\ CallFromUploads(c)
    <2> DEFINE d == fetches[f].device
               K == Oldest(Candidates(d))
    <2>1. PICK k \in IF K = {} THEN {None} ELSE K :
              fetches' = [fetches EXCEPT ![f].stage = "prekey locked", ![f].otk = k]
      BY <1>5 DEF SelectPrekey
    <2>2. k = None \/ (k \in DOMAIN prekeys /\ prekeys[k].device = d)
      BY <2>1 DEF Oldest, Candidates, Available
    <2> HIDE DEF K
    <2> DEFINE c == [fetches[f] EXCEPT !.stage = "prekey locked", !.otk = k]
    <2>3. fetches' = [fetches EXCEPT ![f] = c]
      BY <1>1, <2>1
    <2>4. /\ c.stage = "prekey locked" /\ c.device = d /\ c.otk = k
          /\ c.identity = fetches[f].identity /\ c.signed = fetches[f].signed
      BY <1>1 DEF Call
    <2>5. IsKeyOf(fetches[f].identity, d) /\ IsKeyOf(fetches[f].signed.signer, d)
      BY <1>1, <1>5 DEF CallFromUploads, SelectPrekey, At
    <2>6. k # None => IsUploadOf(k, d)
      BY <1>1, <2>2 DEF RowsFromUploads
    <2> HIDE DEF c, d
    <2>7. CallFromUploads(c)
      BY <2>4, <2>5, <2>6 DEF CallFromUploads
    <2> QED BY <2>3, <2>7
  <1>6. ASSUME CommitBundle(f) PROVE
               \E c : fetches' = [fetches EXCEPT ![f] = c] /\ CallFromUploads(c)
    <2> DEFINE c == [fetches[f] EXCEPT !.stage = "done"]
    <2>1. fetches' = [fetches EXCEPT ![f] = c]
      BY <1>1, <1>6 DEF CommitBundle
    <2>2. /\ c.stage = "done" /\ c.device = fetches[f].device /\ c.otk = fetches[f].otk
          /\ c.identity = fetches[f].identity /\ c.signed = fetches[f].signed
      BY <1>1 DEF Call
    <2>3. fetches[f].stage = "prekey locked"
      BY <1>6 DEF CommitBundle, At
    <2> HIDE DEF c
    <2>4. CallFromUploads(c)
      BY <1>1, <2>2, <2>3 DEF CallFromUploads
    <2> QED BY <2>1, <2>4
  <1>7. ASSUME Rollback(f) PROVE
               \E c : fetches' = [fetches EXCEPT ![f] = c] /\ CallFromUploads(c)
    <2> DEFINE c == [fetches[f] EXCEPT !.stage = "failed"]
    <2>1. fetches' = [fetches EXCEPT ![f] = c]
      BY <1>1, <1>7 DEF Rollback
    <2>2. c.stage = "failed"
      BY <1>1 DEF Call
    <2>3. CallFromUploads(c)
      BY <2>2 DEF CallFromUploads
    <2> QED BY <2>1, <2>3
  <1> QED BY <1>2, <1>3, <1>4, <1>5, <1>6, <1>7

LEMMA BundleNext == TypeOK /\ BundleInv /\ [Next]_vars => BundleInv'
  <1> SUFFICES ASSUME TypeOK, BundleInv, [Next]_vars PROVE BundleInv'
    OBVIOUS
  <1>1. ASSUME UNCHANGED <<identity, signed, prekeys>> PROVE RowsFromUploads'
    BY <1>1 DEF BundleInv, RowsFromUploads
  <1>2. ASSUME UNCHANGED fetches, RowsFromUploads' PROVE BundleInv'
    BY <1>2 DEF BundleInv
  <1>3. CASE UNCHANGED vars
    BY <1>1, <1>2, <1>3 DEF vars
  <1>4. ASSUME NEW r \in Registrations, RegisterDevice(r) PROVE BundleInv'
    BY <1>2, <1>4, RegisterRows DEF RegisterDevice, BundleInv
  <1>5. ASSUME NEW r \in Rotations, RotateSignedPreKey(r) PROVE BundleInv'
    BY <1>2, <1>5, RotateRows DEF RotateSignedPreKey, BundleInv
  <1>6. ASSUME NEW u \in User, DeleteUserData(u) PROVE BundleInv'
    BY <1>2, <1>6, DeleteKeepsRows DEF DeleteUserData, BundleInv
  <1>7. ASSUME NEW f \in Fetch,
               \/ \E d \in Device : ReadIdentity(f, d)
               \/ ReadSigned(f)
               \/ SelectPrekey(f)
               \/ CommitBundle(f)
               \/ Rollback(f)
        PROVE  BundleInv'
    <2>1. \A g \in Fetch : CallFromUploads(fetches'[g])
      BY <1>7, CallReads DEF BundleInv
    <2>2. CASE CommitBundle(f)
      <3>1. RowsFromUploads'
        BY <2>2, CommitOwner DEF BundleInv, RowsFromUploads
      <3> QED BY <2>1, <3>1 DEF BundleInv
    <2>3. CASE UNCHANGED tables
      BY <1>1, <2>1, <2>3 DEF BundleInv, tables
    <2> QED BY <1>7, <2>2, <2>3 DEF ReadIdentity, ReadSigned, SelectPrekey, Rollback
  <1> QED BY <1>3, <1>4, <1>5, <1>6, <1>7 DEF Next

-----------------------------------------------------------------------------
(* The theorems.                                                           *)

\* The tables and the calls in flight keep their types.
THEOREM KeyTypeCorrect == Spec => []TypeOK
  <1>1. KInv => TypeOK
    BY DEF KInv
  <1> QED BY <1>1, KInvariance, PTL

\* No two answered bundles carry the same one-time prekey, for any number of
\* concurrent calls, retried uploads and deletions.
THEOREM NoPrekeyTwice == Spec => []OneTimeUse
  <1>1. KInv => OneTimeUse
    BY DEF KInv
  <1> QED BY <1>1, KInvariance, PTL

\* A prekey is marked consumed only by a call that answers with it.
THEOREM NoPrekeyLost == Spec => []NothingLost
  <1>1. KInv => NothingLost
    BY DEF KInv
  <1> QED BY <1>1, KInvariance, PTL

\* The Keys service implements the dispenser of PrekeyDispenser.
THEOREM ImplementsDispenser == Spec => IsDispenser
  <1>1. Init => Dispenser!Init
    <2> SUFFICES ASSUME Init PROVE Dispenser!Init
      OBVIOUS
    <2>1. DOMAIN prekeys = {}
      BY DEF Init
    <2>2. \A f \in Fetch : fetches[f].stage = "new"
      BY DEF Init, NewCall
    <2>3. Served = {}
      BY <2>2 DEF Served, Answered, At
    <2> QED BY <2>1, <2>3 DEF Dispenser!Init
  <1> QED BY <1>1, StepRefines, KInvariance, PTL DEF Spec, Dispenser!Spec, IsDispenser

\* A row never outlives the row it belongs to, and a device that can be found
\* can be answered for, whatever registrations, rotations and deletions meet.
THEOREM RowsBelongTogether == Spec => []NoOrphans
  <1>1. Init => NoOrphans
    BY DEF Init, NoOrphans
  <1> QED BY <1>1, OrphansNext, PTL DEF Spec

\* When the requests of a device name one identity key, an answered bundle is
\* one X3DH accepts and one its device can answer, although the identity key,
\* the signed prekey and the one-time prekey are read by three statements
\* between which anything may be uploaded or deleted.
THEOREM BundleFitsTogether == ASSUME OneIdentity PROVE Spec => []BundleIsOfOneDevice
  <1>1. TypeOK /\ BundleInv => BundleIsOfOneDevice
    <2> SUFFICES ASSUME BundleInv, NEW f \in Answered
                 PROVE  /\ fetches[f].signed.signer = fetches[f].identity
                        /\ fetches[f].otk # None =>
                              \E r \in Registrations \cup Rotations :
                                  /\ r.identity = fetches[f].identity
                                  /\ fetches[f].otk \in r.batch
      BY DEF BundleIsOfOneDevice
    <2>1. fetches[f].stage = "done" /\ CallFromUploads(fetches[f])
      BY DEF Answered, At, BundleInv
    <2>2. /\ IsKeyOf(fetches[f].identity, fetches[f].device)
          /\ IsKeyOf(fetches[f].signed.signer, fetches[f].device)
          /\ fetches[f].otk # None => IsUploadOf(fetches[f].otk, fetches[f].device)
      BY <2>1 DEF CallFromUploads
    <2> QED BY <2>2, OneIdentity DEF OneIdentity, IsKeyOf, IsUploadOf, Requests
  <1>2. KInv => TypeOK
    BY DEF KInv
  <1> QED BY <1>1, <1>2, BundleInit, BundleNext, KInvariance, PTL DEF Spec
===============================================================================
