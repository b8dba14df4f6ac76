------------------------ MODULE ProfileDeletion_proofs ------------------------
(***************************************************************************)
(* The account is deleted last, for any number of devices, wipes, uploads  *)
(* and failures.                                                           *)
(***************************************************************************)
EXTENDS ProfileDeletion, TLAPS

\* Type correctness: what the services hold and how far each request got.
THEOREM Typing == Spec => []TypeOK
<1>1. Init => TypeOK
  BY WipeAssumption DEF Init, TypeOK, Stage, Service
<1>2. TypeOK /\ [Next]_vars => TypeOK'
  <2> SUFFICES ASSUME TypeOK, [Next]_vars PROVE TypeOK'
    OBVIOUS
  <2> USE WipeAssumption DEF TypeOK, Stage, Service
  <2>1. ASSUME NEW w \in Wipe, DeleteMessages(w) PROVE TypeOK'
    BY <2>1 DEF DeleteMessages, Answer, Answered, AtWork
  <2>2. ASSUME NEW w \in Wipe, DeleteKeys(w) PROVE TypeOK'
    BY <2>2 DEF DeleteKeys, Answer, Answered, AtWork
  <2>3. ASSUME NEW w \in Wipe, DeleteAccount(w) PROVE TypeOK'
    BY <2>3 DEF DeleteAccount, Answer, Answered, AtWork
  <2>4. ASSUME NEW w \in Wipe, NEW s \in Service, Call(w, s) PROVE TypeOK'
    <3>1. before' \in [Wipe -> SUBSET Upload]
      BY <2>4 DEF Call, Begin
    <3>2. calls' \in [Wipe -> [Service -> Stage]]
      BY <2>4 DEF Call, Verdict
    <3> QED BY <2>4, <3>1, <3>2 DEF Call
  <2>5. ASSUME NEW w \in Wipe, NEW s \in Service, RefuseCall(w, s) PROVE TypeOK'
    <3>1. before' \in [Wipe -> SUBSET Upload]
      BY <2>5 DEF RefuseCall, Begin
    <3>2. calls' \in [Wipe -> [Service -> Stage]]
      BY <2>5 DEF RefuseCall
    <3> QED BY <2>5, <3>1, <3>2 DEF RefuseCall, Failing
  <2>6. ASSUME NEW w \in Wipe, NEW s \in Service, FailCall(w, s) PROVE TypeOK'
    BY <2>6 DEF FailCall, Failing
  <2>7. ASSUME NEW w \in Wipe, NEW s \in Service, CancelCall(w, s) PROVE TypeOK'
    BY <2>7 DEF CancelCall
  <2>8. ASSUME NEW k \in Upload, VerifyUpload(k) PROVE TypeOK'
    BY <2>8 DEF VerifyUpload, Verdict
  <2>9. ASSUME NEW k \in Upload, StoreUpload(k) PROVE TypeOK'
    BY <2>9 DEF StoreUpload, Answered, AtWork
  <2>10. ASSUME NEW k \in Upload, FailUpload(k) PROVE TypeOK'
    BY <2>10 DEF FailUpload, Failing
  <2>11. ASSUME NEW k \in Upload, CancelUpload(k) PROVE TypeOK'
    BY <2>11 DEF CancelUpload
  <2>12. CASE UNCHANGED vars
    BY <2>12 DEF vars
  <2> QED
    BY <2>1, <2>2, <2>3, <2>4, <2>5, <2>6, <2>7, <2>8, <2>9, <2>10, <2>11, <2>12
       DEF Next, Carry
<1> QED BY <1>1, <1>2, PTL DEF Spec

(***************************************************************************)
(* What a call that is done leaves behind stays so: envelopes only go, and *)
(* an upload is stored once, so one that was there when the wipe began     *)
(* does not come back.                                                     *)
(***************************************************************************)
Over == {"done", "failed"}

MessagesGone(w) == calls[w]["messages"] = "done" => \A m \in rows : Of[m] # Named[w]
KeysGone(w) == calls[w]["keys"] = "done" => \A d \in Device : keys[d] \notin before[w]
StoredIsOver == \A d \in Device : keys[d] # None => uploads[keys[d]] \in Over
BeforeIsOver(w) == \A k \in before[w] : uploads[k] \in Over
AuthAfterBoth(w) == calls[w]["auth"] # "idle" => MayDeleteAuth(w)
ErasedByAuth(w) == erasedBy = w => calls[w]["auth"] # "idle"

Wiped(w) == MessagesGone(w) /\ KeysGone(w) /\ BeforeIsOver(w) /\ AuthAfterBoth(w) /\ ErasedByAuth(w)
IInv == StoredIsOver /\ \A w \in Wipe : Wiped(w)

\* A call that does not change what Keys has, made by v, is harmless to every wipe w.
LEMMA CallStep ==
  ASSUME TypeOK, IInv, NEW v \in Wipe, NEW s \in Service,
         calls[v][s] = "idle", MayCall(v, s), Begin(v),
         NEW stage \in {"verified", "failed"}, calls' = [calls EXCEPT ![v][s] = stage],
         UNCHANGED <<rows, keys, uploads, erasedBy>>
  PROVE  IInv'
<1> USE WipeAssumption DEF TypeOK, Stage, Service
<1>1. StoredIsOver'
  BY DEF IInv, StoredIsOver
<1>2. ASSUME NEW w \in Wipe PROVE Wiped(w)'
  <2>0. Wiped(w) /\ StoredIsOver
    BY DEF IInv
  <2>1. \A t \in Service : calls'[w][t] = "done" <=> calls[w][t] = "done"
    OBVIOUS
  <2>2. MessagesGone(w)'
    BY <2>0, <2>1 DEF Wiped, MessagesGone
  <2>3. calls[w]["keys"] = "done" => before'[w] = before[w]
    BY DEF Begin, Begun
  <2>4. KeysGone(w)'
    BY <2>0, <2>1, <2>3 DEF Wiped, KeysGone
  <2>5. BeforeIsOver(w)'
    BY <2>0 DEF Wiped, BeforeIsOver, StoredIsOver, Begin
  <2>6. AuthAfterBoth(w)'
    BY <2>0, <2>1 DEF Wiped, AuthAfterBoth, MayCall, MayDeleteAuth
  <2>7. ErasedByAuth(w)'
    BY <2>0 DEF Wiped, ErasedByAuth
  <2> QED BY <2>2, <2>4, <2>5, <2>6, <2>7 DEF Wiped
<1> QED BY <1>1, <1>2 DEF IInv

\* A call at work that ends or is given up without touching any row.
LEMMA StopStep ==
  ASSUME TypeOK, IInv, NEW v \in Wipe, NEW s \in Service,
         calls[v][s] \in AtWork,
         NEW stage \in {"abandoned", "failed"}, calls' = [calls EXCEPT ![v][s] = stage],
         UNCHANGED <<rows, keys, uploads, before, erasedBy>>
  PROVE  IInv'
<1> USE WipeAssumption DEF TypeOK, Stage, Service, AtWork
<1>1. StoredIsOver'
  BY DEF IInv, StoredIsOver
<1>2. ASSUME NEW w \in Wipe PROVE Wiped(w)'
  <2>0. Wiped(w)
    BY DEF IInv
  <2>1. \A t \in Service : /\ calls'[w][t] = "done" <=> calls[w][t] = "done"
                           /\ calls'[w][t] = "idle" <=> calls[w][t] = "idle"
    OBVIOUS
  <2> QED
    BY <2>0, <2>1
       DEF Wiped, MessagesGone, KeysGone, BeforeIsOver, AuthAfterBoth, MayDeleteAuth, ErasedByAuth
<1> QED BY <1>1, <1>2 DEF IInv

\* An upload goes on; unless it stores its rows, Keys is as it was.
LEMMA UploadStep ==
  ASSUME TypeOK, IInv, NEW k \in Upload, uploads[k] \notin Over,
         NEW stage \in Stage, uploads' = [uploads EXCEPT ![k] = stage],
         \/ keys' = keys
         \/ keys' = [keys EXCEPT ![Target[k]] = k] /\ stage \in Over,
         UNCHANGED <<rows, calls, before, erasedBy>>
  PROVE  IInv'
<1> USE WipeAssumption DEF TypeOK, Over
<1>1. StoredIsOver'
  BY DEF IInv, StoredIsOver
<1>2. ASSUME NEW w \in Wipe PROVE Wiped(w)'
  <2>0. Wiped(w)
    BY DEF IInv
  <2>1. k \notin before[w]
    BY <2>0 DEF Wiped, BeforeIsOver
  <2>2. BeforeIsOver(w)'
    BY <2>0, <2>1 DEF Wiped, BeforeIsOver
  <2>3. KeysGone(w)'
    BY <2>0, <2>1 DEF Wiped, KeysGone
  <2> QED
    BY <2>0, <2>2, <2>3 DEF Wiped, MessagesGone, AuthAfterBoth, MayDeleteAuth, ErasedByAuth
<1> QED BY <1>1, <1>2 DEF IInv

LEMMA IInvStep == TypeOK /\ IInv /\ [Next]_vars => IInv'
<1> SUFFICES ASSUME TypeOK, IInv, [Next]_vars PROVE IInv'
  OBVIOUS
<1>1. ASSUME NEW v \in Wipe, DeleteMessages(v) PROVE IInv'
  <2> USE WipeAssumption DEF TypeOK, Stage, Service, AtWork
  <2>1. StoredIsOver'
    BY <1>1 DEF DeleteMessages, IInv, StoredIsOver
  <2>2. ASSUME NEW w \in Wipe PROVE Wiped(w)'
    <3>0. Wiped(w)
      BY DEF IInv
    <3>1. MessagesGone(w)'
      BY <1>1, <3>0 DEF DeleteMessages, Answer, Answered, Wiped, MessagesGone
    <3>2. /\ \A t \in Service : calls'[w][t] = "idle" <=> calls[w][t] = "idle"
          /\ \A t \in {"keys", "auth"} : calls'[w][t] = calls[w][t]
          /\ calls[w]["messages"] = "done" => calls'[w]["messages"] = "done"
      BY <1>1 DEF DeleteMessages, Answer, Answered
    <3> QED
      BY <1>1, <3>0, <3>1, <3>2
         DEF DeleteMessages, Wiped, KeysGone, BeforeIsOver, AuthAfterBoth, MayDeleteAuth, ErasedByAuth
  <2> QED BY <2>1, <2>2 DEF IInv
<1>2. ASSUME NEW v \in Wipe, DeleteKeys(v) PROVE IInv'
  <2> USE WipeAssumption DEF TypeOK, Stage, Service, AtWork
  <2>1. StoredIsOver'
    BY <1>2 DEF DeleteKeys, StoredIsOver
  <2>2. ASSUME NEW w \in Wipe PROVE Wiped(w)'
    <3>0. Wiped(w)
      BY DEF IInv
    <3>1. KeysGone(w)'
      BY <1>2 DEF DeleteKeys, KeysGone
    <3>2. /\ \A t \in Service : calls'[w][t] = "idle" <=> calls[w][t] = "idle"
          /\ \A t \in {"messages", "auth"} : calls'[w][t] = calls[w][t]
          /\ calls[w]["keys"] = "done" => calls'[w]["keys"] = "done"
      BY <1>2 DEF DeleteKeys, Answer, Answered
    <3> QED
      BY <1>2, <3>0, <3>1, <3>2
         DEF DeleteKeys, Wiped, MessagesGone, BeforeIsOver, AuthAfterBoth, MayDeleteAuth, ErasedByAuth
  <2> QED BY <2>1, <2>2 DEF IInv
<1>3. ASSUME NEW v \in Wipe, DeleteAccount(v) PROVE IInv'
  <2> USE WipeAssumption DEF TypeOK, Stage, Service, AtWork
  <2>1. StoredIsOver'
    BY <1>3 DEF DeleteAccount, IInv, StoredIsOver
  <2>2. ASSUME NEW w \in Wipe PROVE Wiped(w)'
    <3>0. Wiped(w)
      BY DEF IInv
    <3>1. /\ \A t \in Service : calls'[w][t] = "idle" <=> calls[w][t] = "idle"
          /\ \A t \in {"messages", "keys"} : calls'[w][t] = calls[w][t]
      BY <1>3 DEF DeleteAccount, Answer, Answered
    <3>2. ErasedByAuth(w)'
      BY <1>3, <3>0, <3>1 DEF DeleteAccount, Wiped, ErasedByAuth
    <3> QED
      BY <1>3, <3>0, <3>1, <3>2
         DEF DeleteAccount, Wiped, MessagesGone, KeysGone, BeforeIsOver, AuthAfterBoth, MayDeleteAuth
  <2> QED BY <2>1, <2>2 DEF IInv
<1>4. ASSUME NEW w \in Wipe, NEW s \in Service, Call(w, s) PROVE IInv'
  BY <1>4, CallStep DEF Call, Verdict
<1>5. ASSUME NEW w \in Wipe, NEW s \in Service, RefuseCall(w, s) PROVE IInv'
  BY <1>5, CallStep DEF RefuseCall
<1>6. ASSUME NEW w \in Wipe, NEW s \in Service, FailCall(w, s) PROVE IInv'
  BY <1>6, StopStep DEF FailCall, AtWork
<1>7. ASSUME NEW w \in Wipe, NEW s \in Service, CancelCall(w, s) PROVE IInv'
  BY <1>7, StopStep DEF CancelCall, AtWork
<1>8. ASSUME NEW k \in Upload, VerifyUpload(k) PROVE IInv'
  BY <1>8, UploadStep DEF VerifyUpload, Verdict, Over, Stage
<1>9. ASSUME NEW k \in Upload, StoreUpload(k) PROVE IInv'
  <2>1. Answered(uploads[k]) \in Over
    BY DEF Answered, Over
  <2> QED BY <1>9, <2>1, UploadStep DEF StoreUpload, AtWork, Over, Stage
<1>10. ASSUME NEW k \in Upload, FailUpload(k) PROVE IInv'
  BY <1>10, UploadStep DEF FailUpload, Over, Stage
<1>11. ASSUME NEW k \in Upload, CancelUpload(k) PROVE IInv'
  BY <1>11, UploadStep DEF CancelUpload, Over, Stage
<1>12. CASE UNCHANGED vars
  BY <1>12 DEF vars, IInv, StoredIsOver, Wiped, MessagesGone, KeysGone, BeforeIsOver,
               AuthAfterBoth, MayDeleteAuth, ErasedByAuth
<1> QED
  BY <1>1, <1>2, <1>3, <1>4, <1>5, <1>6, <1>7, <1>8, <1>9, <1>10, <1>11, <1>12
     DEF Next, Carry

\* The account, without which nothing else can be deleted any more, goes only
\* when Messages and Keys have nothing left of what they had when the wipe
\* began (DELETE /profile of the gateway and the profile page).
THEOREM Last == Spec => []AuthDeletedLast
<1>1. Init => IInv
  BY WipeAssumption
     DEF Init, IInv, StoredIsOver, Wiped, MessagesGone, KeysGone, BeforeIsOver,
         AuthAfterBoth, ErasedByAuth, Over, Service
<1>2. IInv => AuthDeletedLast
  BY DEF IInv, Wiped, MessagesGone, KeysGone, AuthAfterBoth, ErasedByAuth, MayDeleteAuth, AuthDeletedLast
<1> QED BY <1>1, <1>2, IInvStep, Typing, PTL DEF Spec
===============================================================================
