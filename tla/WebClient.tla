------------------------------- MODULE WebClient -------------------------------
(***************************************************************************)
(* One conversation of two web clients (frontend/src: MessagingClient,     *)
(* messageStorage, and the part of MessagingPage that drives them).  A     *)
(* page holds one session object that all its calls share; a call gives    *)
(* way to the others at every await.  It seals or opens an envelope in one *)
(* go, then saves a copy of the whole state, then reads, extends and       *)
(* writes the local history.  Loading the page again brings back what was  *)
(* stored and forgets every call; a page that is locked and unlocked does  *)
(* the same, its calls fail for want of the key.                           *)
(*                                                                         *)
(* The ratchet is the one of Ratchet: frontend/src/crypto-core is the same *)
(* algorithm, whose choice of the entry to evict is one of those allowed   *)
(* there, and its saved sessions keep their skipped keys.  The messages    *)
(* service stamps envelopes in the order in which they are posted, hands   *)
(* each to the socket of its receiver once, in that order (see             *)
(* MessageDelivery), and answers queries with all there are.               *)
(***************************************************************************)
EXTENDS Ratchet

CONSTANTS
    Slots,         \* Slots[d]: names for the calls d can have under way
    None,
    Openers,       \* devices that know the conversation before it has messages
    Prekeys,       \* Prekeys[d]: the one-time prekeys d published
    FirstKey,      \* the first key pair that is not generated yet
    Failures,      \* what may fail: "request", "write"
    MaxSends,      \* bound: calls of sendMessage
    MaxReloads     \* bound: MaxReloads[d], reloads of the page of d

\* Device d's signed prekey is key pair d.
Device == {1, 2}
Peer(d) == 3 - d

ASSUME WebClientAssumption ==
    /\ Openers \subseteq Device
    /\ FirstKey \in Nat \ 0 .. 2
    /\ Prekeys \in [Device -> SUBSET (3 .. FirstKey - 1)]
    /\ \A d \in Device : Prekeys[d] \cap Prekeys[Peer(d)] = {}
    /\ Failures \subseteq {"request", "write"}
    /\ MaxSends \in Nat
    /\ MaxReloads \in [Device -> Nat]
    /\ None \notin Session \cup KeyPair

VARIABLES
    page,        \* page[d]: the session and the private prekeys in memory
    stored,      \* stored[d]: the same, as last written (SECURE_STORE)
    history,     \* history[d]: the messages in the local history
    calls,       \* calls[d][c]: the call of d in slot c
    synced,      \* synced[d]: the page has asked for the history
    sends,       \* calls of sendMessage so far
    reloads,     \* reloads[d]: times the page of d was loaded again
    offered,     \* offered[d]: prekeys of d the keys service has not given out
    nextKey,     \* the key pair generateX25519KeyPair returns next
    sent,        \* every envelope posted, in the order of sent_at
    pushed       \* pushed[d]: envelopes that went to a socket of d

vars == <<page, stored, history, calls, synced, sends, reloads,
          offered, nextKey, sent, pushed>>

State == [session : Session \cup {None}, prekeys : SUBSET KeyPair]

\* "life" is not on the wire: the reloads of the sender when it was sealed.
Envelope == [from : Device, header : Header, key : ChainKey,
             handshake : KeyPair \cup {None}, prekey : KeyPair \cup {None}, life : Nat]

NoCall == [job |-> "none", stage |-> "idle", env |-> None, msg |-> 0,
           copy |-> None, base |-> {}, rest |-> {}]

Call == [job : {"none", "send", "socket", "sync"},
         stage : {"idle", "fetching", "posting", "posted", "saving", "appending",
                  "loaded", "asking", "handling", "ending"},
         env : Envelope \cup {None}, msg : Nat, copy : State \cup {None},
         base : SUBSET Nat, rest : SUBSET Nat]

Init ==
    /\ page = [d \in Device |-> [session |-> None, prekeys |-> Prekeys[d]]]
    /\ stored = page
    /\ history = [d \in Device |-> {}]
    /\ calls = [d \in Device |-> [c \in Slots[d] |-> NoCall]]
    /\ synced = [d \in Device |-> FALSE]
    /\ sends = 0
    /\ reloads = [d \in Device |-> 0]
    /\ offered = Prekeys
    /\ nextKey = FirstKey
    /\ sent = <<>>
    /\ pushed = history

At(d, c, stage) == calls[d][c].stage = stage
SetCall(d, c, call) == calls' = [calls EXCEPT ![d] = [@ EXCEPT ![c] = call]]

\* Envelopes to d.
Inbound(d) == {i \in DOMAIN sent : sent[i].from = Peer(d)}

-----------------------------------------------------------------------------
(* X3DH, with a one-time prekey if the keys service had one.               *)

X3DH(ephemeral, signedPrekey, prekey) ==
    <<DH(ephemeral, signedPrekey)>>
      \o IF prekey = None THEN <<>> ELSE <<DH(ephemeral, prekey)>>

\* InitSession and AcceptSession, with that secret as their root.
Initiated(ephemeral, peer, prekey) ==
    LET root == X3DH(ephemeral, peer, prekey)
    IN  [InitSession(ephemeral, peer) EXCEPT !.root = root, !.send.key = FirstChainKey(root)]

Accepted(d, env) ==
    LET root == X3DH(env.handshake, d, env.prekey)
    IN  [AcceptSession(d, env.handshake) EXCEPT !.root = root, !.recv.key = FirstChainKey(root)]

-----------------------------------------------------------------------------
(* sendMessage.                                                            *)

\* Mutant of Seal: the session in memory is the one before Encrypt.
SealUnadvanced(d, c, s, fresh, handshake, prekey) ==
    LET sealed == Encrypt(s, fresh)
    IN  /\ page' = [page EXCEPT ![d] = [@ EXCEPT !.session = s]]
        /\ SetCall(d, c, [NoCall EXCEPT
             !.job = "send", !.stage = "posting",
             !.env = [from |-> d, header |-> sealed.header, key |-> sealed.key,
                      handshake |-> handshake, prekey |-> prekey, life |-> reloads[d]]])

\* Encrypt, which leaves the session advanced, and the start of the POST.
Seal(d, c, s, fresh, handshake, prekey) ==
    LET sealed == Encrypt(s, fresh)
    IN  /\ page' = [page EXCEPT ![d] = [@ EXCEPT !.session = sealed.session]]
        /\ SetCall(d, c, [NoCall EXCEPT
             !.job = "send", !.stage = "posting",
             !.env = [from |-> d, header |-> sealed.header, key |-> sealed.key,
                      handshake |-> handshake, prekey |-> prekey, life |-> reloads[d]]])

SendInSession(d, c) ==
    /\ At(d, c, "idle") /\ sends < MaxSends
    /\ page[d].session # None
    /\ Seal(d, c, page[d].session, nextKey, None, None)
    /\ nextKey' = IF NeedsRotation(page[d].session) THEN nextKey + 1 ELSE nextKey
    /\ sends' = sends + 1
    /\ UNCHANGED <<stored, history, synced, reloads, offered, sent, pushed>>

\* ensureSession finds none and asks for a bundle.
FetchBundle(d, c) ==
    /\ At(d, c, "idle") /\ sends < MaxSends
    /\ d \in Openers /\ page[d].session = None
    /\ SetCall(d, c, [NoCall EXCEPT !.job = "send", !.stage = "fetching"])
    /\ sends' = sends + 1
    /\ UNCHANGED <<page, stored, history, synced, reloads, offered, nextKey, sent, pushed>>

\* The bundle is there: its session takes the place of one that another call
\* has opened in the meantime.
SendFirst(d, c) ==
    /\ At(d, c, "fetching")
    /\ \E k \in IF offered[Peer(d)] = {} THEN {None} ELSE offered[Peer(d)] :
         /\ offered' = [offered EXCEPT ![Peer(d)] = @ \ {k}]
         /\ Seal(d, c, Initiated(nextKey, Peer(d), k), nextKey + 1, nextKey, k)
    /\ nextKey' = nextKey + 1
    /\ UNCHANGED <<stored, history, synced, sends, reloads, sent, pushed>>

\* The service stores the envelope and answers.
PostStored(d, c) ==
    /\ At(d, c, "posting")
    /\ sent' = Append(sent, calls[d][c].env)
    /\ SetCall(d, c, [NoCall EXCEPT !.job = "send", !.stage = "posted", !.msg = Len(sent) + 1])
    /\ UNCHANGED <<page, stored, history, synced, sends, reloads, offered, nextKey, pushed>>

\* The request fails, or its answer is lost, with it perhaps a prekey that the
\* keys service has given out; sendMessage throws.  The session stays as
\* Encrypt left it and nothing is saved.
PostFails(d, c) ==
    /\ "request" \in Failures
    /\ calls[d][c].stage \in {"fetching", "posting", "posted"}
    /\ SetCall(d, c, NoCall)
    /\ \/ UNCHANGED offered
       \/ /\ At(d, c, "fetching")
          /\ \E k \in offered[Peer(d)] : offered' = [offered EXCEPT ![Peer(d)] = @ \ {k}]
    /\ UNCHANGED <<page, stored, history, synced, sends, reloads, nextKey, sent, pushed>>

-----------------------------------------------------------------------------
(* save and appendMessages.                                                *)

\* Mutant of Snapshot: sessions are left out of the copy.
SnapshotOfDevice(state) == [state EXCEPT !.session = None]

\* The copy that save makes before its first await.
Snapshot(state) == state

PostAnswered(d, c) ==
    /\ At(d, c, "posted")
    /\ SetCall(d, c, [calls[d][c] EXCEPT !.stage = "saving", !.copy = Snapshot(page[d])])
    /\ UNCHANGED <<page, stored, history, synced, sends, reloads, offered, nextKey, sent, pushed>>

\* Mutant of Written: a sync goes on to the history, too.
WrittenAlike(d, c) ==
    /\ At(d, c, "saving") \/ At(d, c, "ending")
    /\ stored' = [stored EXCEPT ![d] = calls[d][c].copy]
    /\ SetCall(d, c, [calls[d][c] EXCEPT !.stage = "appending", !.copy = None])
    /\ UNCHANGED <<page, history, synced, sends, reloads, offered, nextKey, sent, pushed>>

\* The copy is encrypted and written; copies of two calls may change places.
\* At the end of a sync there is no message to add to the history.
Written(d, c) ==
    /\ At(d, c, "saving") \/ At(d, c, "ending")
    /\ stored' = [stored EXCEPT ![d] = calls[d][c].copy]
    /\ SetCall(d, c, IF At(d, c, "ending") THEN NoCall
                     ELSE [calls[d][c] EXCEPT !.stage = "appending", !.copy = None])
    /\ UNCHANGED <<page, history, synced, sends, reloads, offered, nextKey, sent, pushed>>

\* appendMessages reads the history, and then writes it with its message.
LoadHistory(d, c) ==
    /\ At(d, c, "appending")
    /\ SetCall(d, c, [calls[d][c] EXCEPT !.stage = "loaded", !.base = history[d]])
    /\ UNCHANGED <<page, stored, history, synced, sends, reloads, offered, nextKey, sent, pushed>>

StoreHistory(d, c) ==
    /\ At(d, c, "loaded")
    /\ history' = [history EXCEPT ![d] = calls[d][c].base \cup {calls[d][c].msg}]
    /\ SetCall(d, c, IF calls[d][c].job # "sync" THEN NoCall
                     ELSE [NoCall EXCEPT !.job = "sync", !.stage = "handling",
                                         !.rest = calls[d][c].rest])
    /\ UNCHANGED <<page, stored, synced, sends, reloads, offered, nextKey, sent, pushed>>

\* A write fails, or the page is locked: the call throws.
WriteFails(d, c) ==
    /\ "write" \in Failures
    /\ calls[d][c].stage \in {"saving", "ending", "appending", "loaded"}
    /\ SetCall(d, c, NoCall)
    /\ UNCHANGED <<page, stored, history, synced, sends, reloads, offered, nextKey, sent, pushed>>

-----------------------------------------------------------------------------
(* handleEnvelope, for the socket and for the history.                     *)

\* Mutant of Opening: the state is the one in the store.
OpeningStored(d, env) ==
    LET s == stored[d] IN
    IF s.session # None
    THEN {[state |-> [s EXCEPT !.session = out.session], result |-> out.result] :
             out \in Decrypt(s.session, env)}
    ELSE IF env.handshake = None \/ (env.prekey # None /\ env.prekey \notin s.prekeys)
    THEN {[state |-> page[d], result |-> "refused"]}
    ELSE {[state |-> [session |-> out.session, prekeys |-> s.prekeys \ {env.prekey}],
           result |-> out.result] :
             out \in Decrypt(Accepted(d, env), env)}

\* The states and results of handling env up to its first await.
Opening(d, env) ==
    IF page[d].session # None
    THEN {[state |-> [page[d] EXCEPT !.session = out.session], result |-> out.result] :
             out \in Decrypt(page[d].session, env)}
    ELSE IF env.handshake = None
    THEN {[state |-> page[d], result |-> "no handshake"]}
    ELSE IF env.prekey # None /\ env.prekey \notin page[d].prekeys
    THEN {[state |-> page[d], result |-> "no prekey"]}
    ELSE {[state |-> [session |-> out.session, prekeys |-> page[d].prekeys \ {env.prekey}],
           result |-> out.result] :
             out \in Decrypt(Accepted(d, env), env)}

\* What fails throws, and leaves the session as Decrypt left it.
Handle(d, c, i, call) ==
    \E o \in Opening(d, sent[i]) :
        /\ page' = [page EXCEPT ![d] = o.state]
        /\ SetCall(d, c, IF o.result = "read"
                         THEN [call EXCEPT !.stage = "saving", !.msg = i, !.copy = Snapshot(o.state)]
                         ELSE NoCall)

\* ws.onmessage: the next envelope that was not pushed yet.
OnMessage(d, c) ==
    /\ At(d, c, "idle")
    /\ \E i \in Inbound(d) \ pushed[d] :
         /\ \A j \in Inbound(d) \ pushed[d] : i <= j
         /\ pushed' = [pushed EXCEPT ![d] = @ \cup {i}]
         /\ Handle(d, c, i, [NoCall EXCEPT !.job = "socket"])
    /\ UNCHANGED <<stored, history, synced, sends, reloads, offered, nextKey, sent>>

\* syncHistoryForConversation asks once for what is newer than the newest
\* message it has, plus a second, in which others may have been stamped.
SyncHistory(d, c) ==
    /\ At(d, c, "idle")
    /\ ~synced[d]
    /\ synced' = [synced EXCEPT ![d] = TRUE]
    /\ \E since \in 0 .. Len(sent) :
         /\ history[d] = {} => since = 0
         /\ \A i \in history[d] : i <= since
         /\ SetCall(d, c, [NoCall EXCEPT !.job = "sync", !.stage = "asking", !.msg = since])
    /\ UNCHANGED <<page, stored, history, sends, reloads, offered, nextKey, sent, pushed>>

\* The answer to that: the later envelopes to d.
AnswerHistory(d, c) ==
    /\ At(d, c, "asking")
    /\ SetCall(d, c, [NoCall EXCEPT
         !.job = "sync", !.stage = "handling",
         !.rest = {i \in Inbound(d) : i > calls[d][c].msg}])
    /\ UNCHANGED <<page, stored, history, synced, sends, reloads, offered, nextKey, sent, pushed>>

\* They are handled one after the other, the oldest first; one that fails ends
\* the sync.
HandleNext(d, c) ==
    /\ At(d, c, "handling")
    /\ \E i \in calls[d][c].rest :
         /\ \A j \in calls[d][c].rest : i <= j
         /\ Handle(d, c, i, [calls[d][c] EXCEPT !.rest = @ \ {i}])
    /\ UNCHANGED <<stored, history, synced, sends, reloads, offered, nextKey, sent, pushed>>

EndSync(d, c) ==
    /\ At(d, c, "handling") /\ calls[d][c].rest = {}
    /\ SetCall(d, c, [calls[d][c] EXCEPT !.stage = "ending", !.copy = Snapshot(page[d])])
    /\ UNCHANGED <<page, stored, history, synced, sends, reloads, offered, nextKey, sent, pushed>>

-----------------------------------------------------------------------------

\* The page goes away and is loaded again.  Envelopes that were pushed in
\* between are lost with the connection.
Reload(d) ==
    /\ reloads[d] < MaxReloads[d]
    /\ reloads' = [reloads EXCEPT ![d] = @ + 1]
    /\ page' = [page EXCEPT ![d] = stored[d]]
    /\ calls' = [calls EXCEPT ![d] = [c \in Slots[d] |-> NoCall]]
    /\ synced' = [synced EXCEPT ![d] = FALSE]
    /\ \E k \in 0 .. Len(sent) :
         pushed' = [pushed EXCEPT ![d] = @ \cup {i \in Inbound(d) : i <= k}]
    /\ UNCHANGED <<stored, history, sends, offered, nextKey, sent>>

Next ==
    \E d \in Device :
        \/ Reload(d)
        \/ \E c \in Slots[d] :
             \/ SendInSession(d, c) \/ FetchBundle(d, c) \/ SendFirst(d, c)
             \/ PostStored(d, c) \/ PostFails(d, c)
             \/ PostAnswered(d, c) \/ Written(d, c) \/ LoadHistory(d, c) \/ StoreHistory(d, c)
             \/ WriteFails(d, c)
             \/ OnMessage(d, c)
             \/ SyncHistory(d, c) \/ AnswerHistory(d, c) \/ HandleNext(d, c) \/ EndSync(d, c)

Spec == Init /\ [][Next]_vars

-----------------------------------------------------------------------------
(* Properties.                                                             *)

\* Types; what a session keeps for late envelopes is left to Ratchet.
TypeOK ==
    /\ \A d \in Device : \A s \in {page[d], stored[d]} :
         /\ s.prekeys \subseteq Prekeys[d]
         /\ s.session # None => s.session.root \in RootKey /\ s.session.own \in KeyPair
    /\ history \in [Device -> SUBSET DOMAIN sent]
    /\ synced \in [Device -> BOOLEAN]
    /\ \A d \in Device : reloads[d] \in 0 .. MaxReloads[d]
    /\ \A d \in Device : offered[d] \subseteq Prekeys[d]
    /\ sends \in 0 .. MaxSends
    /\ nextKey \in KeyPair
    /\ sent \in Seq(Envelope)
    /\ pushed \in [Device -> SUBSET DOMAIN sent]

\* However the calls of a page overlap and fail, no message key seals two
\* envelopes between two loads of the page.
KeyUniqueOnPage ==
    \A i, j \in DOMAIN sent :
        sent[i].key = sent[j].key /\ sent[i].life = sent[j].life => i = j

\* The one-time prekey that a handshake asks for is there as long as the
\* handshake has not made a session: both are saved in one copy, so that no
\* reload keeps the loss of the prekey without the session it went into.
PrekeyForHandshake ==
    \A i \in DOMAIN sent :
        LET to == Peer(sent[i].from) IN
        page[to].session = None /\ sent[i].prekey # None => sent[i].prekey \in page[to].prekeys

\* No message is put into the local history twice, although the socket and
\* the history sync may both bring it.  (A page that is loaded again may: a
\* copy that was made before the message was read may be written after it.)
KeptOnce ==
    \A d \in Device : \A c \in Slots[d] :
        At(d, c, "loaded") /\ calls[d][c].msg \in calls[d][c].base => reloads[d] > 0

\* A client that could not send can try again: what the service stores for
\* the peer can be opened, because a handshake went before it.
RetryOpens ==
    \A i \in DOMAIN sent :
        sent[i].handshake = None => \E j \in 1 .. i - 1 : sent[j].handshake # None
===============================================================================
