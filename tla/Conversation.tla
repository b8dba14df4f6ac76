----------------------------- MODULE Conversation -----------------------------
(***************************************************************************)
(* One conversation between two devices that run msgclient                 *)
(* (services/messages/pkg/msgclient: PrepareSend and HandleEnvelope over   *)
(* the crypto-core ratchet), with the messages service between them.  The  *)
(* service is reduced to the envelopes it holds; in which order and how    *)
(* often it hands them over is chosen by the constants, and the module     *)
(* MessageDelivery says what the code of the service allows.               *)
(***************************************************************************)
EXTENDS Ratchet

CONSTANTS
    Openers,       \* devices that may send before they have a session
    Senders,       \* devices that send at all
    Reordering,    \* envelopes may be handed over in any order
    Redelivery,    \* an envelope may be handed over more than once
    Reloads,       \* a device may save its state and load it again
    MaxMessages,   \* bound: envelopes posted in the conversation
    MaxDeliveries  \* bound: times one envelope is handed over

\* Device d's signed prekey is key pair d; other key pairs are numbered on.
Device == {1, 2}
Peer(d) == 3 - d

ASSUME ConversationAssumption ==
    /\ Openers \subseteq Device
    /\ Senders \subseteq Device
    /\ {Reordering, Redelivery, Reloads} \subseteq BOOLEAN
    /\ MaxMessages \in Nat
    /\ MaxDeliveries \in Nat

VARIABLES
    sessions,    \* sessions[d]: state.sessions[convID] of d, if d has one
    nextKey,     \* the key pair generateX25519KeyPair returns next
    sent,        \* every envelope posted, in order
    verdicts     \* verdicts[i]: what HandleEnvelope returned for envelope i

vars == <<sessions, nextKey, sent, verdicts>>

HasSession(d) == d \in DOMAIN sessions
StoreSession(d, s) ==
    sessions' = [x \in DOMAIN sessions \cup {d} |-> IF x = d THEN s ELSE sessions[x]]

\* The first message of the opener carries the handshake, its ephemeral key.
NoHandshake == 0

\* "seen" is not on the wire: the peer's ratchet key the sender had.
Envelope == [from : Device, header : Header, key : ChainKey,
             handshake : Nat, seen : KeyPair]

Results == {"read", "failed", "duplicate", "no handshake"}

Init ==
    /\ sessions = [d \in {} |-> {}]
    /\ nextKey = 3
    /\ sent = <<>>
    /\ verdicts = <<>>

-----------------------------------------------------------------------------
(* Sending.                                                                *)

\* buildSendRequest, and the POST that stores the envelope.
Post(d, s, fresh, handshake) ==
    LET sealed == Encrypt(s, fresh)
    IN  /\ Len(sent) < MaxMessages
        /\ StoreSession(d, sealed.session)
        /\ sent' = Append(sent, [from |-> d, header |-> sealed.header,
                                 key |-> sealed.key, handshake |-> handshake,
                                 seen |-> sealed.session.remote])
        /\ verdicts' = Append(verdicts, <<>>)

\* ensureSession found no session: fetch the peer's bundle and InitSession.
PrepareFirstSend(d) ==
    /\ d \in Openers \cap Senders
    /\ ~HasSession(d)
    /\ Post(d, InitSession(nextKey, Peer(d)), nextKey + 1, nextKey)
    /\ nextKey' = nextKey + 1

PrepareSend(d) ==
    /\ d \in Senders
    /\ HasSession(d)
    /\ Post(d, sessions[d], nextKey, NoHandshake)
    /\ nextKey' = IF NeedsRotation(sessions[d]) THEN nextKey + 1 ELSE nextKey

-----------------------------------------------------------------------------
(* Receiving.                                                              *)

\* handleInbound up to Decrypt: the session the envelope is decrypted in.
Receiving(d, env) ==
    IF HasSession(d) THEN sessions[d] ELSE AcceptSession(d, env.handshake)

Refused(d, env) == ~HasSession(d) /\ env.handshake = NoHandshake

\* handleInbound.  When Decrypt fails the session stays as it left it.
HandleInbound(d, i) ==
    /\ Len(verdicts[i]) < MaxDeliveries
    /\ \/ /\ Refused(d, sent[i])
          /\ verdicts' = [verdicts EXCEPT ![i] = Append(@, "no handshake")]
          /\ UNCHANGED sessions
       \/ /\ ~Refused(d, sent[i])
          /\ \E out \in Decrypt(Receiving(d, sent[i]), sent[i]) :
               /\ StoreSession(d, out.session)
               /\ verdicts' = [verdicts EXCEPT ![i] = Append(@, out.result)]
    /\ UNCHANGED <<nextKey, sent>>

Waiting(d) == {i \in DOMAIN sent : sent[i].from = Peer(d) /\ verdicts[i] = <<>>}
HandedOver(d) == {i \in DOMAIN sent : sent[i].from = Peer(d) /\ verdicts[i] # <<>>}

\* The service hands a waiting envelope to d, the oldest one if it keeps order.
HandleEnvelope(d) ==
    \E i \in Waiting(d) :
        /\ Reordering \/ \A j \in Waiting(d) : i <= j
        /\ HandleInbound(d, i)

\* d is handed an envelope it was handed before: the connection broke before
\* the batch was marked, or a second connection had read the same batch.
HandleAgain(d) ==
    /\ Redelivery
    /\ \E i \in HandedOver(d) : HandleInbound(d, i)

\* Marshal and LoadStateFromJSON: the end of one call and the start of another.
Reload(d) ==
    /\ Reloads
    /\ HasSession(d)
    /\ StoreSession(d, ExportImport(sessions[d]))
    /\ UNCHANGED <<nextKey, sent, verdicts>>

-----------------------------------------------------------------------------

Next ==
    \E d \in Device :
        \/ PrepareFirstSend(d)
        \/ PrepareSend(d)
        \/ HandleEnvelope(d)
        \/ HandleAgain(d)
        \/ Reload(d)

Spec == Init /\ [][Next]_vars

-----------------------------------------------------------------------------
(* Properties.                                                             *)

\* Type correctness of the ratchet states, the key counter and the histories;
\* what SessionState.skipped holds is left to ForwardSecrecy.
TypeOK ==
    /\ DOMAIN sessions \subseteq Device
    /\ \A d \in DOMAIN sessions :
         /\ sessions[d].root \in RootKey
         /\ sessions[d].send \in ChainState /\ sessions[d].recv \in ChainState
         /\ sessions[d].own \in KeyPair /\ sessions[d].remote \in KeyPair
         /\ sessions[d].pn \in Nat
    /\ nextKey \in Nat
    /\ sent \in Seq(Envelope)
    /\ verdicts \in Seq(Seq(Results))

\* Encrypt never seals two envelopes with the same message key (and hence the
\* same nonce, which is derived from it), whoever sends and whatever arrives.
KeyUniqueness ==
    \A i, j \in DOMAIN sent : sent[i].key = sent[j].key => i = j

CanDerive(ck, key) == ck.root = key.root /\ ck.step <= key.step
Holds(s, key) ==
    \/ CanDerive(s.send.key, key)
    \/ CanDerive(s.recv.key, key)
    \/ \E e \in s.skipped : e.key = key

\* Forward secrecy: once an envelope was read, neither device holds its key or
\* a chain key from which it can be derived, and hence nothing is read twice;
\* and storeSkippedKey keeps maxSkippedMessageKeys old keys at most, however
\* far ahead the headers run and whatever slots of older chains it overwrites.
ForwardSecrecy ==
    /\ \A i \in DOMAIN sent :
         (\E k \in DOMAIN verdicts[i] : verdicts[i][k] = "read") =>
             \A d \in DOMAIN sessions : ~Holds(sessions[d], sent[i].key)
    /\ \A d \in DOMAIN sessions :
         /\ sessions[d].skipped \subseteq SkippedEntry
         /\ Cardinality(sessions[d].skipped) <= MaxSkipped

\* A device that learnt a new ratchet key of its peer answers with a new one
\* of its own: one ratchet key is never used before and after.
FreshRatchetPerReply ==
    \A i, j \in DOMAIN sent :
        sent[i].header.dh = sent[j].header.dh => sent[i].seen = sent[j].seen

\* Every envelope that finds a session is read when it is first handed over.
ReadableOnceOpened ==
    \A i \in DOMAIN verdicts :
        verdicts[i] # <<>> => verdicts[i][1] \in {"read", "no handshake"}

\* The envelopes of a sender fall into chains, told apart by the ratchet key.
Overtaken(i) ==
    \E j \in DOMAIN sent : /\ j > i /\ sent[j].from = sent[i].from
                           /\ sent[j].header.dh # sent[i].header.dh
                           /\ verdicts[j] # <<>>

\* Keys that d kept for late envelopes did not survive a reload.
ForgotKeys(d) == HasSession(d) /\ \E e \in sessions[d].skipped : e.mangled

\* The sender has posted more than the receiver's store can make up for.
MayBeDropped(i) ==
    Cardinality({j \in DOMAIN sent : sent[j].from = sent[i].from}) > MaxSkipped + 1

\* Both devices opened the conversation, and the receiver kept its own session.
OtherSession(i) ==
    LET d == Peer(sent[i].from)
    IN  HasSession(d) /\ Head(sessions[d].root) # Head(sent[i].key.root)

\* What goes wrong first is known: as long as nothing failed to decrypt, an
\* envelope that is new to its receiver is read, in whatever order it and the
\* others come and however often, unless an envelope of a later chain came
\* before it, or the receiver lost kept keys in a reload or to a full store, or
\* opened a session of its own, or has none and the envelope no handshake.
ReadUnlessOvertaken ==
    [][\A i \in DOMAIN sent :
         /\ verdicts[i] = <<>> /\ verdicts'[i] # <<>>
         /\ \A j \in DOMAIN verdicts, k \in 1 .. MaxDeliveries :
              k \in DOMAIN verdicts[j] => verdicts[j][k] # "failed"
         /\ ~Overtaken(i)
         /\ ~ForgotKeys(Peer(sent[i].from))
         /\ ~MayBeDropped(i)
         /\ ~OtherSession(i)
         /\ ~Refused(Peer(sent[i].from), sent[i])
         => verdicts'[i] = <<"read">>]_vars
==============================================================================
