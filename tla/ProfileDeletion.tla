---------------------------- MODULE ProfileDeletion ----------------------------
(***************************************************************************)
(* The deletion of everything a user owns, over three services that share  *)
(* nothing but the token: the gateway's DELETE /profile asks Messages and  *)
(* then Keys, the profile page asks both at once, and either asks Auth     *)
(* last and only when both have answered.  Every request is verified with  *)
(* Auth before it is carried out, and between the two anything may happen: *)
(* its caller gives up, another wipe deletes the account, a device uploads *)
(* its keys anew.                                                          *)
(*                                                                         *)
(* One user.  Messages deletes the envelopes of one device only, the one   *)
(* the wipe names.  Messages posted meanwhile are left out: MessageDelivery *)
(* has them, and no wipe promises anything of them.                        *)
(***************************************************************************)
EXTENDS Naturals

CONSTANTS
    Device,          \* the user's devices
    Message, Of,     \* envelopes stored, Of[m]: the user's device m is from or to
    Wipe, Named,     \* attempts to delete everything; Named[w]: the device_id
    Gateway,         \* the wipes made through the gateway, the others by the page
    Upload, Target,  \* registrations of keys, Target[k]: of which device
    Uploaded,        \* those made before
    MaxFailures,     \* bound: calls that fail or whose caller gives up
    None

ASSUME WipeAssumption ==
    /\ Of \in [Message -> Device]
    /\ Named \in [Wipe -> Device]
    /\ Gateway \subseteq Wipe
    /\ Target \in [Upload -> Device]
    /\ Uploaded \subseteq Upload
    /\ \A k, l \in Uploaded : Target[k] = Target[l] => k = l
    /\ MaxFailures \in Nat
    /\ None \notin Upload \cup Wipe

VARIABLES
    account,     \* Auth has the account: its sessions and devices go with it
    rows,        \* the envelopes Messages has
    keys,        \* keys[d]: the upload whose rows Keys has for device d
    uploads,     \* uploads[k]: how far upload k got
    calls,       \* calls[w][s]: how far the call of wipe w to service s got
    before,      \* before[w]: the uploads Keys had when w began
    erasedBy,    \* the wipe that deleted the account
    failures     \* number of failures so far

vars == <<account, rows, keys, uploads, calls, before, erasedBy, failures>>

Service == {"messages", "keys", "auth"}

\* "abandoned": the caller has got an error, the service is still at it.
Stage == {"idle", "verified", "abandoned", "done", "failed"}
Ended == {"done", "failed", "abandoned"}

Init ==
    /\ account = TRUE
    /\ rows = Message
    /\ keys \in [Device -> Uploaded \cup {None}]
    /\ \A d \in Device : \A k \in Uploaded : keys[d] = k <=> Target[k] = d
    /\ uploads = [k \in Upload |-> IF k \in Uploaded THEN "done" ELSE "idle"]
    /\ calls = [w \in Wipe |-> [s \in Service |-> "idle"]]
    /\ before = [w \in Wipe |-> {}]
    /\ erasedBy = None
    /\ failures = 0

Failing == failures < MaxFailures /\ failures' = failures + 1

-----------------------------------------------------------------------------
(* The order of the calls of a wipe.                                       *)

Begun(w) == \E s \in Service : calls[w][s] # "idle"

\* Mutant of MayDeleteAuth: errors of the other services are not looked at.
MayDeleteAuthAnyway(w) == calls[w]["messages"] \in Ended /\ calls[w]["keys"] \in Ended

\* Both have answered without an error.
MayDeleteAuth(w) == calls[w]["messages"] = "done" /\ calls[w]["keys"] = "done"

\* The gateway goes on to Keys whatever Messages has answered; the page does
\* not wait for the answer.
MayCall(w, s) ==
    CASE s = "messages" -> TRUE
      [] s = "keys" -> w \in Gateway => calls[w]["messages"] \in Ended
      [] s = "auth" -> MayDeleteAuth(w)

\* What Auth says to the service that was called.
Verdict == IF account THEN "verified" ELSE "failed"

Begin(w) ==
    before' = IF Begun(w) THEN before
              ELSE [before EXCEPT ![w] = {keys[d] : d \in Device} \ {None}]

\* A wipe is made again after another has failed, or beside it from a second
\* tab; its call reaches the service, which asks Auth.
Call(w, s) ==
    /\ calls[w][s] = "idle"
    /\ MayCall(w, s)
    /\ Begin(w)
    /\ calls' = [calls EXCEPT ![w][s] = Verdict]
    /\ UNCHANGED <<account, rows, keys, uploads, erasedBy, failures>>

-----------------------------------------------------------------------------
(* The services.                                                           *)

AtWork == {"verified", "abandoned"}

\* The caller of an abandoned call does not see its answer.
Answered(stage) == IF stage = "verified" THEN "done" ELSE "failed"
Answer(w, s) == calls' = [calls EXCEPT ![w][s] = Answered(@)]

\* Mutant of DeleteMessages: a device without envelopes is not found.
DeleteMessagesOrNotFound(w) ==
    LET found == \E m \in rows : Of[m] = Named[w] IN
        /\ calls[w]["messages"] \in AtWork
        /\ rows' = {m \in rows : Of[m] # Named[w]}
        /\ IF found THEN Answer(w, "messages")
                    ELSE calls' = [calls EXCEPT ![w]["messages"] = "failed"]
        /\ UNCHANGED <<account, keys, uploads, before, erasedBy, failures>>

DeleteMessages(w) ==
    /\ calls[w]["messages"] \in AtWork
    /\ rows' = {m \in rows : Of[m] # Named[w]}
    /\ Answer(w, "messages")
    /\ UNCHANGED <<account, keys, uploads, before, erasedBy, failures>>

DeleteKeys(w) ==
    /\ calls[w]["keys"] \in AtWork
    /\ keys' = [d \in Device |-> None]
    /\ Answer(w, "keys")
    /\ UNCHANGED <<account, rows, uploads, before, erasedBy, failures>>

\* DELETE FROM users finds the account or not, and is answered either way.
DeleteAccount(w) ==
    /\ calls[w]["auth"] \in AtWork
    /\ account' = FALSE
    /\ erasedBy' = IF account THEN w ELSE erasedBy
    /\ Answer(w, "auth")
    /\ UNCHANGED <<rows, keys, uploads, before, failures>>

VerifyUpload(k) ==
    /\ uploads[k] = "idle"
    /\ uploads' = [uploads EXCEPT ![k] = Verdict]
    /\ UNCHANGED <<account, rows, keys, calls, before, erasedBy, failures>>

\* Mutant of StoreUpload: the rows are stored under another device.
StoreUploadAnywhere(k) ==
    /\ uploads[k] \in AtWork
    /\ \E d \in Device : keys' = [keys EXCEPT ![d] = k]
    /\ uploads' = [uploads EXCEPT ![k] = Answered(@)]
    /\ UNCHANGED <<account, rows, calls, before, erasedBy, failures>>

\* RegisterDevice of Keys, which makes the user anew if need be.
StoreUpload(k) ==
    /\ uploads[k] \in AtWork
    /\ keys' = [keys EXCEPT ![Target[k]] = k]
    /\ uploads' = [uploads EXCEPT ![k] = Answered(@)]
    /\ UNCHANGED <<account, rows, calls, before, erasedBy, failures>>

-----------------------------------------------------------------------------
(* Failures.                                                               *)

\* The service, or Auth, is not there.
RefuseCall(w, s) ==
    /\ calls[w][s] = "idle"
    /\ MayCall(w, s)
    /\ Failing
    /\ Begin(w)
    /\ calls' = [calls EXCEPT ![w][s] = "failed"]
    /\ UNCHANGED <<account, rows, keys, uploads, erasedBy>>

\* The transaction fails, or the caller does not wait for the answer any
\* longer while the service is still at it.
FailCall(w, s) ==
    /\ calls[w][s] = "verified"
    /\ Failing
    /\ \E stage \in {"failed", "abandoned"} : calls' = [calls EXCEPT ![w][s] = stage]
    /\ UNCHANGED <<account, rows, keys, uploads, before, erasedBy>>

FailUpload(k) ==
    /\ uploads[k] = "verified"
    /\ Failing
    /\ \E stage \in {"failed", "abandoned"} : uploads' = [uploads EXCEPT ![k] = stage]
    /\ UNCHANGED <<account, rows, keys, calls, before, erasedBy>>

\* The service notices that the caller is gone and rolls back.
CancelCall(w, s) ==
    /\ calls[w][s] = "abandoned"
    /\ calls' = [calls EXCEPT ![w][s] = "failed"]
    /\ UNCHANGED <<account, rows, keys, uploads, before, erasedBy, failures>>

CancelUpload(k) ==
    /\ uploads[k] = "abandoned"
    /\ uploads' = [uploads EXCEPT ![k] = "failed"]
    /\ UNCHANGED <<account, rows, keys, calls, before, erasedBy, failures>>

-----------------------------------------------------------------------------

Carry(w) == DeleteMessages(w) \/ DeleteKeys(w) \/ DeleteAccount(w)

Next ==
    \/ \E w \in Wipe :
         \/ Carry(w)
         \/ \E s \in Service : Call(w, s) \/ RefuseCall(w, s) \/ FailCall(w, s) \/ CancelCall(w, s)
    \/ \E k \in Upload : VerifyUpload(k) \/ StoreUpload(k) \/ FailUpload(k) \/ CancelUpload(k)

Spec == Init /\ [][Next]_vars

\* A service carries out what it has verified, the gateway or the page makes
\* its calls, and a user whose wipe failed asks again.
Fairness == \A w \in Wipe : WF_vars(Carry(w) \/ \E s \in Service : Call(w, s))

FairSpec == Spec /\ Fairness

-----------------------------------------------------------------------------
(* Properties.                                                             *)

\* Type correctness; the rows of a device were uploaded for that device.
TypeOK ==
    /\ account \in BOOLEAN
    /\ rows \subseteq Message
    /\ keys \in [Device -> Upload \cup {None}]
    /\ \A d \in Device : keys[d] # None => Target[keys[d]] = d
    /\ uploads \in [Upload -> Stage]
    /\ calls \in [Wipe -> [Service -> Stage]]
    /\ before \in [Wipe -> SUBSET Upload]
    /\ erasedBy \in Wipe \cup {None}
    /\ failures \in Nat

\* The account, without which nothing else can be deleted any more, goes only
\* when nothing is left of what the other services had when the wipe began:
\* whatever failed, was given up or carried out late, and however wipes
\* overlap.
AuthDeletedLast ==
    \A w \in Wipe : erasedBy = w =>
        /\ \A m \in rows : Of[m] # Named[w]
        /\ \A d \in Device : keys[d] \notin before[w]

\* A user who asks again after every failure gets rid of the account: no wipe
\* that stopped half-way is in the way of the next one.
AccountGoes == <>~account
===============================================================================
