-------------------------- MODULE Conversation_proofs --------------------------
(***************************************************************************)
(* Proofs about Conversation: type correctness, KeyUniqueness,             *)
(* FreshRatchetPerReply, ForwardSecrecy and the action property            *)
(* ReadUnlessOvertaken, for every bound and every way the service may hand *)
(* envelopes over.                                                         *)
(*                                                                         *)
(* The first three rest on one fact: a sending chain is split from a root  *)
(* into which a key pair was hashed that did not exist before, so its root *)
(* is unlike every root in use.  The inductive invariant says so by        *)
(* bounding the key pairs of every root and header by nextKey.  The fourth *)
(* rests on the lemmas of Ratchet_proofs about keys that are dead.  The    *)
(* last follows the two sessions of the conversation: as long as nothing   *)
(* failed, they are crossed or in step, and a link between what one device *)
(* posted and what the other receives on says which key opens an envelope. *)
(***************************************************************************)
EXTENDS Conversation, Ratchet_proofs, TLAPS

EnvelopeInv(e, b) ==
    /\ e \in Envelope
    /\ RootBelow(e.key.root, b) /\ e.key.root # <<>>
    /\ e.header.dh < b /\ e.handshake < b

\* What a device with a sending chain knows of the envelopes in s.
ChainInv(s, S) ==
    \A i \in DOMAIN S :
        /\ S[i].key.root = s.send.key.root => S[i].key.step < s.send.key.step
        /\ S[i].header.dh = s.own => S[i].seen = s.remote

Sending(d) == d \in DOMAIN sessions /\ ~NeedsRotation(sessions[d])

IInv ==
    /\ nextKey \in Nat /\ nextKey >= 3
    /\ DOMAIN sessions \subseteq Device
    /\ \A d \in DOMAIN sessions : SessionInv(sessions[d], nextKey)
    /\ sent \in Seq(Envelope)
    /\ \A i \in DOMAIN sent : EnvelopeInv(sent[i], nextKey)
    /\ verdicts \in Seq(Seq(Results))
    /\ \A d \in Device : Sending(d) => ChainInv(sessions[d], sent)
    /\ \A d, e \in Device : d # e /\ Sending(d) /\ Sending(e) =>
         /\ sessions[d].send.key.root # sessions[e].send.key.root
         /\ sessions[d].own # sessions[e].own
    /\ KeyUniqueness
    /\ FreshRatchetPerReply

-----------------------------------------------------------------------------
(* The steps of the conversation.                                          *)

LEMMA EnvelopeMono ==
    ASSUME NEW e, NEW b \in Nat, NEW c \in Nat, b <= c, EnvelopeInv(e, b)
    PROVE  EnvelopeInv(e, c)
  <1>1. /\ e.key.root \in RootKey
        /\ e.header.dh \in Nat /\ e.handshake \in Nat
    BY DEF EnvelopeInv, Envelope, Header, KeyPair, ChainKey
  <1> QED BY <1>1, BelowMono DEF EnvelopeInv

\* Posting an envelope sealed in a session r that can send, that knows every
\* earlier envelope of its chain, and whose chain no other device sends on.
LEMMA PostInv ==
    ASSUME IInv, NEW d \in Device, NEW s, NEW fresh, NEW handshake \in Nat,
           Post(d, s, fresh, handshake),
           nextKey' \in Nat, nextKey <= nextKey', handshake < nextKey',
           SessionInv(Sealing(s, fresh), nextKey'), ~NeedsRotation(Sealing(s, fresh)),
           ChainInv(Sealing(s, fresh), sent),
           \A e \in Device : e # d /\ Sending(e) =>
              /\ Sealing(s, fresh).send.key.root # sessions[e].send.key.root
              /\ Sealing(s, fresh).own # sessions[e].own
    PROVE  IInv'
  <1> DEFINE r == Sealing(s, fresh)
             t == [r EXCEPT !.send = Advance(@)]
             new == [from |-> d,
                     header |-> [dh |-> r.own, pn |-> r.pn, n |-> r.send.index],
                     key |-> r.send.key, handshake |-> handshake, seen |-> r.remote]
             last == Len(sent) + 1
  <1>1. /\ SessionInv(t, nextKey') /\ ~NeedsRotation(t)
        /\ t.own = r.own /\ t.remote = r.remote
        /\ t.send.key.root = r.send.key.root
        /\ t.send.key.step = r.send.key.step + 1
        /\ r.send.key.step \in Nat
    <2>1. r.send.key.step \in Nat
      BY DEF SessionInv, Tidy, Below, Session, ChainState, ChainKey
    <2> QED BY <2>1, SealInv
  <1>2. /\ StoreSession(d, t)
        /\ sent' = Append(sent, new)
        /\ verdicts' = Append(verdicts, <<>>)
    BY <1>1 DEF Post, Encrypt
  <1>3. new \in Envelope /\ EnvelopeInv(new, nextKey')
    BY DEF EnvelopeInv, Envelope, Header, SessionInv, Tidy, Below, Session, ChainState, KeyPair,
           NeedsRotation
  <1>4. /\ sent' \in Seq(Envelope)
        /\ DOMAIN sent = 1 .. Len(sent) /\ Len(sent) \in Nat
        /\ DOMAIN sent' = 1 .. last
        /\ sent'[last] = new
        /\ \A i \in DOMAIN sent : i # last /\ sent'[i] = sent[i]
        /\ \A i \in DOMAIN sent' : i # last => i \in DOMAIN sent
    BY <1>2, <1>3 DEF IInv
  <1> HIDE DEF t, new
  <1>5. /\ DOMAIN sessions' = DOMAIN sessions \cup {d}
        /\ sessions'[d] = t
        /\ \A e \in DOMAIN sessions : e # d => sessions'[e] = sessions[e]
    BY <1>2 DEF StoreSession
  <1>6. \A e \in DOMAIN sessions' : SessionInv(sessions'[e], nextKey')
    BY <1>1, <1>5, SessionMono DEF IInv
  <1>7. \A i \in DOMAIN sent' : EnvelopeInv(sent'[i], nextKey')
    BY <1>3, <1>4, EnvelopeMono DEF IInv
  <1>8. verdicts' \in Seq(Seq(Results))
    BY <1>2 DEF IInv
  <1>9. new.key = r.send.key /\ new.header.dh = r.own /\ new.seen = r.remote
    BY DEF new
  <1>10. \A i \in DOMAIN sent : sent[i].key.step \in Nat /\ sent[i].key # new.key
    <2> SUFFICES ASSUME NEW i \in DOMAIN sent
                 PROVE  sent[i].key.step \in Nat /\ sent[i].key # new.key
      OBVIOUS
    <2>1. sent[i].key.step \in Nat
      BY DEF IInv, EnvelopeInv, Envelope, ChainKey
    <2>2. sent[i].key.root = r.send.key.root => sent[i].key.step < r.send.key.step
      BY DEF ChainInv
    <2> QED BY <1>1, <1>9, <2>1, <2>2
  <1>11. KeyUniqueness'
    <2> SUFFICES ASSUME NEW i \in DOMAIN sent', NEW j \in DOMAIN sent',
                        sent'[i].key = sent'[j].key
                 PROVE  i = j
      BY DEF KeyUniqueness
    <2>1. CASE i # last /\ j # last
      BY <2>1, <1>4 DEF IInv, KeyUniqueness
    <2>2. CASE i = last \/ j = last
      BY <2>2, <1>4, <1>10
    <2> QED BY <2>1, <2>2
  <1>12. FreshRatchetPerReply'
    <2> SUFFICES ASSUME NEW i \in DOMAIN sent', NEW j \in DOMAIN sent',
                        sent'[i].header.dh = sent'[j].header.dh
                 PROVE  sent'[i].seen = sent'[j].seen
      BY DEF FreshRatchetPerReply
    <2>1. CASE i # last /\ j # last
      <3>1. i \in DOMAIN sent /\ j \in DOMAIN sent
        BY <2>1, <1>4
      <3>2. sent[i].header.dh = sent[j].header.dh
        BY <3>1, <1>4
      <3>3. sent[i].seen = sent[j].seen
        BY <3>1, <3>2 DEF IInv, FreshRatchetPerReply
      <3> QED BY <3>1, <3>3, <1>4
    <2>2. CASE i = last \/ j = last
      BY <2>2, <1>4, <1>9 DEF ChainInv
    <2> QED BY <2>1, <2>2
  <1>13. \A e \in Device : Sending(e)' => (e = d \/ Sending(e))
    BY <1>5 DEF Sending
  <1>14. \A e \in Device : Sending(e)' => ChainInv(sessions'[e], sent')
    <2> SUFFICES ASSUME NEW e \in Device, Sending(e)', NEW i \in DOMAIN sent'
                 PROVE  /\ sent'[i].key.root = sessions'[e].send.key.root
                            => sent'[i].key.step < sessions'[e].send.key.step
                        /\ sent'[i].header.dh = sessions'[e].own
                            => sent'[i].seen = sessions'[e].remote
      BY DEF ChainInv
    <2>1. CASE e = d
      <3>1. CASE i = last
        BY <2>1, <3>1, <1>1, <1>4, <1>5, <1>9
      <3>2. CASE i # last
        <4>1. /\ sent[i].key.root = r.send.key.root
                    => sent[i].key.step < r.send.key.step
              /\ sent[i].header.dh = r.own => sent[i].seen = r.remote
              /\ sent'[i] = sent[i] /\ sent[i].key.step \in Nat
          BY <3>2, <1>4, <1>10 DEF ChainInv
        <4> HIDE DEF r
        <4> QED BY <2>1, <4>1, <1>1, <1>5
      <3> QED BY <3>1, <3>2
    <2>2. CASE e # d
      <3>1. Sending(e) /\ sessions'[e] = sessions[e]
        BY <2>2, <1>5, <1>13 DEF Sending
      <3>2. CASE i = last
        BY <2>2, <3>1, <3>2, <1>4, <1>9
      <3>3. CASE i # last
        <4>1. ChainInv(sessions[e], sent)
          BY <3>1 DEF IInv
        <4>2. i \in DOMAIN sent /\ sent'[i] = sent[i]
          BY <3>3, <1>4
        <4> QED BY <3>1, <4>1, <4>2 DEF ChainInv
      <3> QED BY <3>2, <3>3
    <2> QED BY <2>1, <2>2
  <1>15. \A e, f \in Device : e # f /\ Sending(e)' /\ Sending(f)' =>
           /\ sessions'[e].send.key.root # sessions'[f].send.key.root
           /\ sessions'[e].own # sessions'[f].own
    <2>1. \A e \in Device : e # d /\ Sending(e)' =>
            Sending(e) /\ sessions'[e] = sessions[e]
      BY <1>5, <1>13 DEF Sending
    <2>2. \A e \in Device : e # d /\ Sending(e) =>
            r.send.key.root # sessions[e].send.key.root /\ r.own # sessions[e].own
      OBVIOUS
    <2>3. \A e, f \in Device : e # f /\ Sending(e) /\ Sending(f) =>
            /\ sessions[e].send.key.root # sessions[f].send.key.root
            /\ sessions[e].own # sessions[f].own
      BY DEF IInv
    <2> HIDE DEF r
    <2> QED BY <2>1, <2>2, <2>3, <1>1, <1>5
  <1>16. DOMAIN sessions' \subseteq Device /\ nextKey' >= 3
    BY <1>5 DEF IInv
  <1> QED
    BY <1>4, <1>6, <1>7, <1>8, <1>11, <1>12, <1>14, <1>15, <1>16 DEF IInv

\* A session that is stored without sending keeps the invariant when it can
\* send on nothing, or on what the device could send on before.
LEMMA StoreInv ==
    ASSUME IInv, NEW d \in Device, NEW t, StoreSession(d, t),
           SessionInv(t, nextKey), UNCHANGED <<nextKey, sent>>,
           verdicts' \in Seq(Seq(Results)),
           \/ NeedsRotation(t)
           \/ /\ d \in DOMAIN sessions
              /\ t.send = sessions[d].send
              /\ t.own = sessions[d].own /\ t.remote = sessions[d].remote
    PROVE  IInv'
  <1>1. /\ DOMAIN sessions' = DOMAIN sessions \cup {d}
        /\ sessions'[d] = t
        /\ \A e \in DOMAIN sessions : e # d => sessions'[e] = sessions[e]
    BY DEF StoreSession
  <1>2. \A e \in Device : Sending(e)' =>
          /\ Sending(e)
          /\ sessions'[e].send = sessions[e].send
          /\ sessions'[e].own = sessions[e].own
          /\ sessions'[e].remote = sessions[e].remote
    BY <1>1 DEF Sending, NeedsRotation
  <1>3. \A e \in DOMAIN sessions' : SessionInv(sessions'[e], nextKey')
    BY <1>1 DEF IInv
  <1>4. \A e \in Device : Sending(e)' => ChainInv(sessions'[e], sent')
    <2> SUFFICES ASSUME NEW e \in Device, Sending(e)'
                 PROVE  ChainInv(sessions'[e], sent')
      OBVIOUS
    <2>1. ChainInv(sessions[e], sent)
      BY <1>2 DEF IInv
    <2> QED BY <1>2, <2>1 DEF ChainInv
  <1>5. \A e, f \in Device : e # f /\ Sending(e)' /\ Sending(f)' =>
           /\ sessions'[e].send.key.root # sessions'[f].send.key.root
           /\ sessions'[e].own # sessions'[f].own
    BY <1>2 DEF IInv
  <1>6. /\ nextKey' \in Nat /\ nextKey' >= 3
        /\ DOMAIN sessions' \subseteq Device
        /\ sent' \in Seq(Envelope)
        /\ \A i \in DOMAIN sent' : EnvelopeInv(sent'[i], nextKey')
    BY <1>1 DEF IInv
  <1>7. KeyUniqueness' /\ FreshRatchetPerReply'
    BY DEF IInv, KeyUniqueness, FreshRatchetPerReply
  <1> QED BY <1>3, <1>4, <1>5, <1>6, <1>7 DEF IInv

\* A root bounded by b differs from one that is not; so do key pairs.
LEMMA FreshChain ==
    ASSUME IInv, NEW r, ~RootBelow(r.send.key.root, nextKey), r.own = nextKey
    PROVE  /\ ChainInv(r, sent)
           /\ \A e \in Device : Sending(e) =>
                /\ r.send.key.root # sessions[e].send.key.root
                /\ r.own # sessions[e].own
  <1>1. \A i \in DOMAIN sent : sent[i].key.root # r.send.key.root
    BY DEF IInv, EnvelopeInv
  <1>2. \A i \in DOMAIN sent : sent[i].header.dh # r.own
    BY DEF IInv, EnvelopeInv, Envelope, Header, KeyPair
  <1>3. \A e \in DOMAIN sessions : sessions[e].own # nextKey
    BY DEF IInv, SessionInv, Tidy, Below, Session, KeyPair
  <1> QED BY <1>1, <1>2, <1>3 DEF ChainInv, Sending, IInv, SessionInv, Tidy, Below, Session

LEMMA InitInv == Init => IInv
  BY DEF Init, IInv, Sending, KeyUniqueness, FreshRatchetPerReply, Envelope, Device

LEMMA FirstSendInv ==
    ASSUME IInv, NEW d \in Device, PrepareFirstSend(d)
    PROVE  IInv'
  <1> DEFINE r == InitSession(nextKey, Peer(d))
  <1>1. Peer(d) \in Nat /\ Peer(d) < nextKey /\ nextKey \in Nat
    BY DEF Peer, Device, IInv
  <1>2. /\ SessionInv(r, nextKey + 1) /\ ~NeedsRotation(r)
        /\ r.own = nextKey /\ ~RootBelow(r.send.key.root, nextKey)
    BY <1>1, InitSessionInv
  <1>3. /\ Post(d, r, nextKey + 1, nextKey)
        /\ nextKey' = nextKey + 1
        /\ Sealing(r, nextKey + 1) = r
    BY <1>2 DEF PrepareFirstSend, Sealing
  <1> HIDE DEF r
  <1> QED BY <1>1, <1>2, <1>3, FreshChain, PostInv

LEMMA SendInv ==
    ASSUME IInv, NEW d \in Device, PrepareSend(d)
    PROVE  IInv'
  <1> DEFINE s == sessions[d]
             r == Sealing(s, nextKey)
  <1>1. /\ d \in DOMAIN sessions /\ SessionInv(s, nextKey)
        /\ nextKey \in Nat /\ NoHandshake \in Nat /\ NoHandshake < nextKey
        /\ Post(d, s, nextKey, NoHandshake)
    BY DEF PrepareSend, HasSession, IInv, NoHandshake
  <1>2. CASE NeedsRotation(s)
    <2>1. nextKey' = nextKey + 1 /\ r = RotateRatchetOnSend(s, nextKey)
      BY <1>2 DEF PrepareSend, Sealing
    <2>2. /\ SessionInv(r, nextKey + 1) /\ ~NeedsRotation(r)
          /\ r.own = nextKey /\ ~RootBelow(r.send.key.root, nextKey)
      BY <1>1, <1>2, RotateOnSendInv
    <2>3. /\ ChainInv(r, sent)
          /\ \A e \in Device : e # d /\ Sending(e) =>
                /\ r.send.key.root # sessions[e].send.key.root
                /\ r.own # sessions[e].own
      BY <2>2, FreshChain
    <2> QED BY <1>1, <2>1, <2>2, <2>3, PostInv
  <1>3. CASE ~NeedsRotation(s)
    <2>1. nextKey' = nextKey /\ r = s
      BY <1>3 DEF PrepareSend, Sealing
    <2>2. Sending(d)
      BY <1>1, <1>3 DEF Sending
    <2>3. /\ ChainInv(r, sent)
          /\ \A e \in Device : e # d /\ Sending(e) =>
                /\ r.send.key.root # sessions[e].send.key.root
                /\ r.own # sessions[e].own
      BY <2>1, <2>2 DEF IInv
    <2> QED BY <1>1, <1>3, <2>1, <2>3, PostInv
  <1> QED BY <1>2, <1>3

\* One more verdict on one envelope.
LEMMA VerdictType ==
    ASSUME NEW v \in Seq(Seq(Results)), NEW i, NEW x \in Results
    PROVE  [v EXCEPT ![i] = Append(@, x)] \in Seq(Seq(Results))
  <1> DEFINE w == [v EXCEPT ![i] = Append(@, x)]
  <1>1. Len(v) \in Nat /\ DOMAIN v = 1 .. Len(v)
        /\ \A j \in 1 .. Len(v) : v[j] \in Seq(Results)
    OBVIOUS
  <1>2. w = [j \in 1 .. Len(v) |-> IF j = i THEN Append(v[j], x) ELSE v[j]]
    BY <1>1
  <1>3. \A j \in 1 .. Len(v) : Append(v[j], x) \in Seq(Results)
    BY <1>1
  <1>4. w \in [1 .. Len(v) -> Seq(Results)]
    BY <1>1, <1>2, <1>3
  <1>5. \A S, n : n \in Nat /\ w \in [1 .. n -> S] => w \in Seq(S)
    <2> HIDE DEF w
    <2> QED OBVIOUS
  <1> QED BY <1>1, <1>4, <1>5, Zenon

LEMMA HandleInv ==
    ASSUME IInv, NEW d \in Device, NEW i \in DOMAIN sent, HandleInbound(d, i)
    PROVE  IInv'
  <1>1. EnvelopeInv(sent[i], nextKey) /\ nextKey \in Nat
    BY DEF IInv
  <1>2. UNCHANGED <<nextKey, sent>>
    BY DEF HandleInbound
  <1>3. CASE Refused(d, sent[i]) /\ UNCHANGED sessions
               /\ verdicts' = [verdicts EXCEPT ![i] = Append(@, "no handshake")]
    <2>1. verdicts' \in Seq(Seq(Results))
      <3>1. "no handshake" \in Results
        BY DEF Results
      <3> QED BY <1>3, <3>1, VerdictType DEF IInv
    <2>2. UNCHANGED <<sessions, nextKey, sent>>
      BY <1>2, <1>3
    <2>3. KeyUniqueness' /\ FreshRatchetPerReply'
      BY <2>2 DEF IInv, KeyUniqueness, FreshRatchetPerReply
    <2>4. \A e \in Device : Sending(e)' = Sending(e)
      BY <2>2 DEF Sending
    <2> QED BY <2>1, <2>2, <2>3, <2>4 DEF IInv
  <1>4. ASSUME ~Refused(d, sent[i]),
               NEW out \in Decrypt(Receiving(d, sent[i]), sent[i]),
               StoreSession(d, out.session),
               verdicts' = [verdicts EXCEPT ![i] = Append(@, out.result)]
        PROVE  IInv'
    <2> DEFINE s == Receiving(d, sent[i])
    <2>1. SessionInv(s, nextKey) /\ (NeedsRotation(s) \/ (HasSession(d) /\ s = sessions[d]))
      <3>1. CASE HasSession(d)
        BY <3>1 DEF Receiving, IInv, HasSession
      <3>2. CASE ~HasSession(d)
        <4>1. s = AcceptSession(d, sent[i].handshake)
          BY <3>2 DEF Receiving
        <4>2. d \in Nat /\ d < nextKey
          BY DEF Device, IInv
        <4>3. sent[i].handshake \in Nat /\ sent[i].handshake < nextKey
          BY <1>1 DEF EnvelopeInv, Envelope
        <4> QED BY <1>1, <4>1, <4>2, <4>3, AcceptSessionInv
      <3> QED BY <3>1, <3>2
    <2> HIDE DEF s
    <2>2. /\ SessionInv(out.session, nextKey)
          /\ out.result \in Results
          /\ \/ NeedsRotation(out.session)
             \/ /\ out.session.send = s.send
                /\ out.session.own = s.own
                /\ out.session.remote = s.remote
      <3>1. sent[i].header \in Header /\ sent[i].header.dh < nextKey
        BY <1>1 DEF EnvelopeInv, Envelope
      <3>2. out \in Decrypt(s, sent[i])
        BY <1>4 DEF s
      <3>3. /\ SessionInv(out.session, nextKey) /\ SendsAs(out.session, s)
            /\ out.result \in {"read", "failed", "duplicate"}
        BY <1>1, <2>1, <3>1, <3>2, DecryptInv
      <3> QED BY <3>3 DEF SendsAs, Results
    <2>3. verdicts' \in Seq(Seq(Results))
      BY <1>4, <2>2, VerdictType DEF IInv
    <2>4. \/ NeedsRotation(out.session)
          \/ /\ d \in DOMAIN sessions
             /\ out.session.send = sessions[d].send
             /\ out.session.own = sessions[d].own
             /\ out.session.remote = sessions[d].remote
      BY <2>1, <2>2 DEF NeedsRotation, HasSession
    <2> QED BY <1>2, <1>4, <2>2, <2>3, <2>4, StoreInv
  <1> QED BY <1>3, <1>4 DEF HandleInbound

LEMMA ReloadInv ==
    ASSUME IInv, NEW d \in Device, Reload(d)
    PROVE  IInv'
  <1> PICK t : t = ExportImport(sessions[d])
    OBVIOUS
  <1>1. d \in DOMAIN sessions /\ SessionInv(sessions[d], nextKey)
    BY DEF Reload, HasSession, IInv
  <1>2. SessionInv(t, nextKey) /\ SendsAs(t, sessions[d])
    BY <1>1, ExportInv, ExportSends DEF SessionInv
  <1>3. StoreSession(d, t) /\ UNCHANGED <<nextKey, sent, verdicts>>
    BY DEF Reload
  <1>4. verdicts' \in Seq(Seq(Results))
    BY <1>3 DEF IInv
  <1> QED BY <1>1, <1>2, <1>3, <1>4, StoreInv DEF SendsAs

LEMMA NextInv == IInv /\ [Next]_vars => IInv'
  <1> SUFFICES ASSUME IInv, [Next]_vars PROVE IInv'
    OBVIOUS
  <1>1. ASSUME NEW d \in Device, PrepareFirstSend(d) PROVE IInv'
    BY <1>1, FirstSendInv
  <1>2. ASSUME NEW d \in Device, PrepareSend(d) PROVE IInv'
    BY <1>2, SendInv
  <1>3. ASSUME NEW d \in Device, HandleEnvelope(d) PROVE IInv'
    BY <1>3, HandleInv DEF HandleEnvelope, Waiting
  <1>4. ASSUME NEW d \in Device, HandleAgain(d) PROVE IInv'
    BY <1>4, HandleInv DEF HandleAgain, HandedOver
  <1>5. ASSUME NEW d \in Device, Reload(d) PROVE IInv'
    BY <1>5, ReloadInv
  <1>6. CASE UNCHANGED vars
    BY <1>6 DEF vars, IInv, Sending, KeyUniqueness, FreshRatchetPerReply
  <1> QED BY <1>1, <1>2, <1>3, <1>4, <1>5, <1>6 DEF Next

LEMMA Invariance == Spec => []IInv
  BY InitInv, NextInv, PTL DEF Spec

-----------------------------------------------------------------------------
(* The theorems.                                                           *)

\* The variables keep their types, in particular every chain index and every
\* position of a chain key is a natural number.
THEOREM TypeCorrect == Spec => []TypeOK
  <1>1. IInv => TypeOK
    BY DEF IInv, SessionInv, Tidy, Below, Session, TypeOK
  <1> QED BY <1>1, Invariance, PTL

\* No two envelopes are ever sealed with the same message key and nonce.
THEOREM NoKeyIsReused == Spec => []KeyUniqueness
  <1>1. IInv => KeyUniqueness
    BY DEF IInv
  <1> QED BY <1>1, Invariance, PTL

\* A ratchet key pair is never used to send both before and after the device
\* learnt a new ratchet key of its peer.
THEOREM RepliesUseFreshKeys == Spec => []FreshRatchetPerReply
  <1>1. IInv => FreshRatchetPerReply
    BY DEF IInv
  <1> QED BY <1>1, Invariance, PTL

-----------------------------------------------------------------------------
(* Forward secrecy.                                                        *)

WasRead(i) == \E k \in DOMAIN verdicts[i] : verdicts[i][k] = "read"

\* The key of an envelope is dead at its sender from the start, and at its
\* receiver once it was read.
SecretInv ==
    /\ \A d \in DOMAIN sessions : Apart(sessions[d])
    /\ DOMAIN verdicts = DOMAIN sent
    /\ \A i \in DOMAIN sent :
         /\ sent[i].from \in DOMAIN sessions
         /\ Dead(sessions[sent[i].from], sent[i].key)
         /\ WasRead(i) => /\ Peer(sent[i].from) \in DOMAIN sessions
                          /\ Dead(sessions[Peer(sent[i].from)], sent[i].key)

LEMMA InitSecret == Init => SecretInv
  BY DEF Init, SecretInv

\* A session of d is replaced by t, in which no key is revived.
LEMMA StoreKeeps ==
    ASSUME IInv, SecretInv, NEW d \in Device, NEW t, StoreSession(d, t),
           Tidy(t), Apart(t),
           HasSession(d) => \A k \in ChainKey : Dead(sessions[d], k) => Dead(t, k)
    PROVE  /\ DOMAIN sessions' = DOMAIN sessions \cup {d} /\ sessions'[d] = t
           /\ \A e \in DOMAIN sessions' : Apart(sessions'[e])
           /\ \A e \in DOMAIN sessions, k \in ChainKey :
                 Dead(sessions[e], k) => Dead(sessions'[e], k)
  <1>1. sessions' = [x \in DOMAIN sessions \cup {d} |-> IF x = d THEN t ELSE sessions[x]]
    BY DEF StoreSession
  <1>2. ASSUME NEW e \in DOMAIN sessions, NEW k \in ChainKey, Dead(sessions[e], k)
        PROVE  Dead(sessions'[e], k)
    BY <1>1, <1>2 DEF HasSession
  <1>3. ASSUME NEW e \in DOMAIN sessions' PROVE Apart(sessions'[e])
    BY <1>1, <1>3 DEF SecretInv
  <1> QED BY <1>1, <1>2, <1>3

\* Nothing is posted, and what is read, d reads with a key that is dead in t.
LEMMA ReadSecret ==
    ASSUME IInv, SecretInv, NEW d \in Device, NEW t, StoreSession(d, t),
           Tidy(t), Apart(t),
           HasSession(d) => \A k \in ChainKey : Dead(sessions[d], k) => Dead(t, k),
           UNCHANGED sent, DOMAIN verdicts' = DOMAIN verdicts,
           \A j \in DOMAIN sent : WasRead(j)' => \/ WasRead(j)
                                                \/ /\ Peer(sent[j].from) = d
                                                   /\ Dead(t, sent[j].key)
    PROVE  SecretInv'
  <1>1. /\ DOMAIN sessions' = DOMAIN sessions \cup {d} /\ sessions'[d] = t
        /\ \A e \in DOMAIN sessions' : Apart(sessions'[e])
        /\ \A e \in DOMAIN sessions, k \in ChainKey :
              Dead(sessions[e], k) => Dead(sessions'[e], k)
    BY StoreKeeps
  <1>2. ASSUME NEW i \in DOMAIN sent
        PROVE  /\ sent[i].from \in DOMAIN sessions' /\ Dead(sessions'[sent[i].from], sent[i].key)
               /\ WasRead(i)' => /\ Peer(sent[i].from) \in DOMAIN sessions'
                                 /\ Dead(sessions'[Peer(sent[i].from)], sent[i].key)
    <2>1. sent[i].key \in ChainKey
      BY DEF IInv, EnvelopeInv, Envelope
    <2> QED BY <1>1, <2>1 DEF SecretInv
  <1> QED BY <1>1, <1>2 DEF SecretInv

\* An envelope is posted that d sealed in the session r.
LEMMA PostSecret ==
    ASSUME IInv, SecretInv, NEW d \in Device, NEW s, NEW fresh \in Nat, NEW handshake,
           Post(d, s, fresh, handshake), Tidy(s), Apart(s),
           HasSession(d) => s = sessions[d]
    PROVE  SecretInv'
  <1> DEFINE e == Encrypt(s, fresh)
             t == e.session
             last == Len(sent) + 1
  <1>1. /\ Tidy(t) /\ Apart(t) /\ Dead(t, e.key)
        /\ \A k \in ChainKey : Dead(s, k) => Dead(t, k)
    BY EncryptDead, EncryptApart
  <1>2. PICK new : /\ StoreSession(d, t) /\ sent' = Append(sent, new)
                   /\ verdicts' = Append(verdicts, <<>>)
                   /\ new.from = d /\ new.key = e.key
    BY DEF Post
  <1> HIDE DEF e, t
  <1>3. /\ DOMAIN sessions' = DOMAIN sessions \cup {d} /\ sessions'[d] = t
        /\ \A x \in DOMAIN sessions' : Apart(sessions'[x])
        /\ \A x \in DOMAIN sessions, k \in ChainKey :
              Dead(sessions[x], k) => Dead(sessions'[x], k)
    BY <1>1, <1>2, StoreKeeps
  <1>4. /\ Len(sent) \in Nat /\ DOMAIN sent = 1 .. Len(sent)
        /\ DOMAIN sent' = 1 .. last /\ sent'[last] = new
        /\ \A i \in DOMAIN sent : sent'[i] = sent[i]
    BY <1>2 DEF IInv
  <1>5. /\ DOMAIN verdicts' = 1 .. last /\ verdicts'[last] = <<>>
        /\ \A i \in DOMAIN sent : verdicts'[i] = verdicts[i]
    <2>1. verdicts \in Seq(Seq(Results)) /\ 1 .. Len(verdicts) = 1 .. Len(sent)
          /\ Len(verdicts) \in Nat
      BY <1>4 DEF IInv, SecretInv
    <2>2. Len(verdicts) = Len(sent)
      BY <1>4, <2>1
    <2> QED BY <1>2, <1>4, <2>1, <2>2
  <1>6. ASSUME NEW i \in 1 .. last
        PROVE  /\ sent'[i].from \in DOMAIN sessions'
               /\ Dead(sessions'[sent'[i].from], sent'[i].key)
               /\ WasRead(i)' => /\ Peer(sent'[i].from) \in DOMAIN sessions'
                                 /\ Dead(sessions'[Peer(sent'[i].from)], sent'[i].key)
    <2>1. CASE i = last
      <3>1. ~WasRead(i)'
        BY <2>1, <1>5 DEF WasRead
      <3> QED BY <2>1, <3>1, <1>1, <1>2, <1>3, <1>4
    <2>2. CASE i # last
      <3>1. i \in DOMAIN sent
        BY <2>2, <1>4
      <3>2. sent'[i] = sent[i] /\ verdicts'[i] = verdicts[i] /\ sent[i].key \in ChainKey
        BY <3>1, <1>4, <1>5 DEF IInv, EnvelopeInv, Envelope
      <3>3. WasRead(i)' => WasRead(i)
        BY <3>2 DEF WasRead
      <3> QED BY <3>1, <3>2, <3>3, <1>3 DEF SecretInv
    <2> QED BY <2>1, <2>2
  <1> QED BY <1>3, <1>4, <1>5, <1>6 DEF SecretInv

LEMMA SendSecret ==
    ASSUME IInv, SecretInv, NEW d \in Device, PrepareFirstSend(d) \/ PrepareSend(d)
    PROVE  SecretInv'
  <1>1. nextKey \in Nat /\ nextKey + 1 \in Nat /\ Peer(d) \in Nat
    BY DEF IInv, Peer, Device
  <1>2. CASE PrepareFirstSend(d)
    <2>1. Tidy(InitSession(nextKey, Peer(d))) /\ Apart(InitSession(nextKey, Peer(d)))
      BY <1>1, FirstTidy, FirstApart
    <2>2. ~HasSession(d) /\ Post(d, InitSession(nextKey, Peer(d)), nextKey + 1, nextKey)
      BY <1>2 DEF PrepareFirstSend
    <2> QED BY <1>1, <2>1, <2>2, PostSecret
  <1>3. CASE PrepareSend(d)
    <2>1. HasSession(d) /\ Post(d, sessions[d], nextKey, NoHandshake)
      BY <1>3 DEF PrepareSend
    <2>2. Tidy(sessions[d]) /\ Apart(sessions[d])
      BY <2>1 DEF SecretInv, HasSession, IInv, SessionInv
    <2> QED BY <1>1, <2>1, <2>2, PostSecret
  <1> QED BY <1>2, <1>3

LEMMA HandleSecret ==
    ASSUME IInv, SecretInv, NEW d \in Device, NEW i \in DOMAIN sent,
           sent[i].from = Peer(d), HandleInbound(d, i)
    PROVE  SecretInv'
  <1>1. UNCHANGED sent /\ Peer(sent[i].from) = d
    <2>1. Peer(Peer(d)) = d
      BY DEF Peer, Device
    <2> QED BY <2>1 DEF HandleInbound
  <1>2. /\ verdicts \in Seq(Seq(Results)) /\ i \in DOMAIN verdicts
        /\ DOMAIN verdicts = DOMAIN sent /\ verdicts[i] \in Seq(Results)
    BY DEF IInv, SecretInv
  <1>3. ASSUME NEW x, verdicts' = [verdicts EXCEPT ![i] = Append(@, x)]
        PROVE  /\ DOMAIN verdicts' = DOMAIN verdicts
               /\ \A j \in DOMAIN sent : WasRead(j)' => WasRead(j) \/ (j = i /\ x = "read")
    <2>1. DOMAIN verdicts' = DOMAIN verdicts
      BY <1>3
    <2>2. ASSUME NEW j \in DOMAIN sent, WasRead(j)', ~WasRead(j)
          PROVE  j = i /\ x = "read"
      <3>1. j = i
        BY <1>2, <1>3, <2>2 DEF WasRead
      <3>2. verdicts'[i] = Append(verdicts[i], x)
        BY <1>2, <1>3
      <3>3. PICK k \in DOMAIN verdicts'[i] : verdicts'[i][k] = "read"
        BY <2>2, <3>1 DEF WasRead
      <3>4. k = Len(verdicts[i]) + 1 \/ (k \in DOMAIN verdicts[i] /\ verdicts[i][k] = "read")
        BY <1>2, <3>2, <3>3
      <3>5. verdicts'[i][Len(verdicts[i]) + 1] = x
        BY <1>2, <3>2
      <3> QED BY <2>2, <3>1, <3>3, <3>4, <3>5 DEF WasRead
    <2> QED BY <2>1, <2>2
  <1>4. CASE /\ verdicts' = [verdicts EXCEPT ![i] = Append(@, "no handshake")]
             /\ UNCHANGED sessions
    <2> PICK x : x = "no handshake"
      OBVIOUS
    <2>1. /\ DOMAIN verdicts' = DOMAIN verdicts
          /\ \A j \in DOMAIN sent : WasRead(j)' => WasRead(j)
      <3>1. verdicts' = [verdicts EXCEPT ![i] = Append(@, x)]
        BY <1>4
      <3>2. /\ DOMAIN verdicts' = DOMAIN verdicts
            /\ \A j \in DOMAIN sent : WasRead(j)' => WasRead(j) \/ (j = i /\ x = "read")
        BY <1>3, <3>1
      <3>3. x # "read"
        OBVIOUS
      <3> QED BY <3>2, <3>3
    <2> QED BY <1>1, <1>4, <2>1 DEF SecretInv
  <1>5. ASSUME NEW out \in Decrypt(Receiving(d, sent[i]), sent[i]),
               ~Refused(d, sent[i]), StoreSession(d, out.session),
               verdicts' = [verdicts EXCEPT ![i] = Append(@, out.result)]
        PROVE  SecretInv'
    <2> PICK s : s = Receiving(d, sent[i])
      OBVIOUS
    <2>1. sent[i] \in Envelope /\ d \in Nat
      BY DEF IInv, EnvelopeInv, Device
    <2>2. sent[i].header \in Header /\ sent[i].handshake \in Nat
      BY <2>1 DEF Envelope
    <2>3. Tidy(s) /\ Apart(s) /\ (HasSession(d) => s = sessions[d])
      <3>1. CASE HasSession(d)
        BY <3>1 DEF Receiving, HasSession, SecretInv, IInv, SessionInv
      <3>2. CASE ~HasSession(d)
        BY <3>2, <2>1, <2>2, FirstTidy, FirstApart DEF Receiving
      <3> QED BY <3>1, <3>2
    <2>4. out \in Decrypt(s, sent[i])
      BY <1>5
    <2>5. /\ Tidy(out.session)
          /\ \A k \in ChainKey : Dead(s, k) => Dead(out.session, k)
          /\ out.result = "read" => Dead(out.session, sent[i].key)
      BY <2>2, <2>3, <2>4, DecryptDead
    <2>6. Apart(out.session)
      BY <2>3, <2>4, <2>5, DecryptSends, SendsApart
    <2>7. /\ DOMAIN verdicts' = DOMAIN verdicts
          /\ \A j \in DOMAIN sent : WasRead(j)' =>
                WasRead(j) \/ (j = i /\ out.result = "read")
      BY <1>3, <1>5
    <2>8. \A j \in DOMAIN sent : WasRead(j)' =>
             WasRead(j) \/ (Peer(sent[j].from) = d /\ Dead(out.session, sent[j].key))
      BY <1>1, <2>5, <2>7
    <2> QED BY <1>1, <1>5, <2>3, <2>5, <2>6, <2>7, <2>8, ReadSecret
  <1> QED BY <1>4, <1>5 DEF HandleInbound

LEMMA ReloadSecret ==
    ASSUME IInv, SecretInv, NEW d \in Device, Reload(d)
    PROVE  SecretInv'
  <1> PICK t : t = ExportImport(sessions[d])
    OBVIOUS
  <1>1. HasSession(d) /\ StoreSession(d, t) /\ UNCHANGED <<sent, verdicts>>
    BY DEF Reload
  <1>2. Tidy(sessions[d]) /\ Apart(sessions[d])
    BY <1>1 DEF HasSession, SecretInv, IInv, SessionInv
  <1>3. /\ Tidy(t) /\ Apart(t)
        /\ \A k \in ChainKey : Dead(sessions[d], k) => Dead(t, k)
    BY <1>2, ExportDead, ExportSends, SendsApart
  <1>4. \A j \in DOMAIN sent : WasRead(j)' => WasRead(j)
    BY <1>1 DEF WasRead
  <1> QED BY <1>1, <1>3, <1>4, ReadSecret

LEMMA NextSecret == IInv /\ SecretInv /\ [Next]_vars => SecretInv'
  <1> SUFFICES ASSUME IInv, SecretInv, [Next]_vars PROVE SecretInv'
    OBVIOUS
  <1>1. ASSUME NEW d \in Device, PrepareFirstSend(d) \/ PrepareSend(d) PROVE SecretInv'
    BY <1>1, SendSecret
  <1>2. ASSUME NEW d \in Device, HandleEnvelope(d) PROVE SecretInv'
    BY <1>2, HandleSecret DEF HandleEnvelope, Waiting
  <1>3. ASSUME NEW d \in Device, HandleAgain(d) PROVE SecretInv'
    BY <1>3, HandleSecret DEF HandleAgain, HandedOver
  <1>4. ASSUME NEW d \in Device, Reload(d) PROVE SecretInv'
    BY <1>4, ReloadSecret
  <1>5. CASE UNCHANGED vars
    BY <1>5 DEF vars, SecretInv, WasRead
  <1> QED BY <1>1, <1>2, <1>3, <1>4, <1>5 DEF Next

\* Once an envelope was read, neither device can derive its key again, from a
\* sending or a receiving chain or from a key kept for late envelopes, in
\* whatever order and however often envelopes are handed over; and the kept
\* keys never exceed maxSkippedMessageKeys.
THEOREM KeysAreForgotten == Spec => []ForwardSecrecy
  <1>1. IInv /\ SecretInv => ForwardSecrecy
    <2> SUFFICES ASSUME IInv, SecretInv PROVE ForwardSecrecy
      OBVIOUS
    <2>1. ASSUME NEW i \in DOMAIN sent, WasRead(i), NEW d \in DOMAIN sessions
          PROVE  ~Holds(sessions[d], sent[i].key)
      <3>1. d = sent[i].from \/ d = Peer(sent[i].from)
        <4>1. d \in Device /\ sent[i].from \in Device
          BY DEF IInv, EnvelopeInv, Envelope
        <4> QED BY <4>1 DEF Device, Peer
      <3>2. Dead(sessions[d], sent[i].key)
        BY <2>1, <3>1 DEF SecretInv
      <3>3. EnvelopeInv(sent[i], nextKey) /\ sent[i].key.step \in Nat /\ d \in Device
        BY DEF IInv, EnvelopeInv, Envelope, ChainKey
      <3>4. ~CanDerive(sessions[d].send.key, sent[i].key)
        <4>1. CASE NeedsRotation(sessions[d])
          BY <3>3, <4>1 DEF NeedsRotation, CanDerive, ZeroKey, EnvelopeInv
        <4>2. CASE ~NeedsRotation(sessions[d])
          <5>1. ChainInv(sessions[d], sent) /\ sessions[d].send.key.step \in Nat
            BY <3>3, <4>2 DEF IInv, Sending, SessionInv, Tidy, Below, Session, ChainState, ChainKey
          <5> QED BY <3>3, <5>1 DEF ChainInv, CanDerive
        <4> QED BY <4>1, <4>2
      <3>5. ~CanDerive(sessions[d].recv.key, sent[i].key)
        <4>1. sessions[d].recv.key.step \in Nat
          BY DEF IInv, SessionInv, Tidy, Below, Session, ChainState, ChainKey
        <4> QED BY <3>2, <3>3, <4>1 DEF Dead, Passed, CanDerive
      <3> QED BY <3>2, <3>4, <3>5 DEF Holds, Dead
    <2>2. ASSUME NEW d \in DOMAIN sessions
          PROVE  /\ sessions[d].skipped \subseteq SkippedEntry
                 /\ Cardinality(sessions[d].skipped) <= MaxSkipped
      BY DEF IInv, SessionInv, Tidy, Session, Few
    <2>3. DOMAIN verdicts = DOMAIN sent
      BY DEF SecretInv
    <2> QED BY <2>1, <2>2, <2>3 DEF ForwardSecrecy, WasRead
  <1>2. Spec => [](IInv /\ SecretInv)
    BY InitInv, NextInv, InitSecret, NextSecret, PTL DEF Spec
  <1> QED BY <1>1, <1>2, PTL

-----------------------------------------------------------------------------
(* The two sessions of a conversation, as long as nothing failed to open.  *)

\* s sends on the root that r received last; r is to answer with a new one.
Turned(s, r) ==
    /\ s.root = r.root /\ s.remote = r.own /\ r.remote = s.own
    /\ ~NeedsRotation(s) /\ NeedsRotation(r)
    /\ s.send.key.root = s.root /\ r.recv.key.root = s.root

\* s answered with a root of its own, of which r has received nothing.
Ahead(s, r) ==
    /\ s.root = KdfRoot(r.root, DH(s.own, r.own))
    /\ s.remote = r.own /\ r.remote # s.own
    /\ ~NeedsRotation(s) /\ ~NeedsRotation(r)
    /\ s.send.key.root = s.root /\ s.recv.key.root = r.root /\ r.send.key.root = r.root

\* Envelope e is of the chain that r receives on, or of the one to come.
Current(e, r) == e.key.root = r.recv.key.root /\ e.header.dh = r.remote
Coming(e, s, r) == Ahead(s, r) /\ e.key.root = s.root /\ e.header.dh = s.own

PostedBy(S, x) == {i \in DOMAIN S : S[i].from = x}

\* Overtaken, of any history.
Outrun(S, V, i) ==
    \E j \in DOMAIN S : /\ j > i /\ S[j].from = S[i].from
                        /\ S[j].header.dh # S[i].header.dh /\ V[j] # <<>>

\* The key of an envelope that the chain went past is kept for it.
Kept(x, r, S, V) ==
    \A i \in PostedBy(S, x) :
        Current(S[i], r) /\ V[i] = <<>> /\ S[i].key.step < r.recv.key.step =>
            \E e \in r.skipped : /\ e.key = S[i].key /\ e.dh = S[i].header.dh
                                 /\ ~e.mangled

HasRoom(x, S) == Cardinality(PostedBy(S, x)) <= MaxSkipped + 1
Intact(r) == \A e \in r.skipped : ~e.mangled

\* Every key in the store of r is that of an envelope of x.
Accounted(x, r, S) ==
    \A e \in r.skipped : \E i \in PostedBy(S, x) : S[i].key = e.key /\ S[i].header.dh = e.dh

\* What x posted, as the session r of its peer sees it; s is the session of x.
Link(x, s, r, S, V) ==
    /\ \A i \in PostedBy(S, x) :
        /\ Coming(S[i], s, r) \/ Behind(S[i].key, r.root)
        /\ S[i].header.dh = r.remote => S[i].key.root = r.recv.key.root
        /\ Current(S[i], r) \/ Coming(S[i], s, r) \/ Outrun(S, V, i)
    /\ \A i, j \in PostedBy(S, x) : Current(S[i], r) /\ Coming(S[j], s, r) => i < j
    /\ Accounted(x, r, S)
    /\ ~NeedsRotation(s) /\ s.send.key.root = r.recv.key.root =>
         r.recv.key.step <= s.send.key.step
    /\ HasRoom(x, S) /\ Intact(r) => Kept(x, r, S, V)

\* Envelopes are numbered in their chains, and none is left out.
Ordered(S) ==
    /\ S \in Seq(Envelope)
    /\ \A i, j \in DOMAIN S : S[i].key = S[j].key => i = j
    /\ \A i \in DOMAIN S : S[i].header.n = S[i].key.step
    /\ \A i, j \in DOMAIN S : S[i].header.dh = S[j].header.dh => S[i].key.root = S[j].key.root
    /\ \A i \in DOMAIN S : \A k \in 0 .. S[i].key.step - 1 : \E j \in DOMAIN S :
         /\ S[j].from = S[i].from /\ S[j].header.dh = S[i].header.dh
         /\ S[j].key.root = S[i].key.root /\ S[j].key.step = k

\* The types of an envelope in an ordered history.
LEMMA OrderedTypes ==
    ASSUME NEW S, Ordered(S), NEW i \in DOMAIN S
    PROVE  /\ S[i] \in Envelope /\ S[i].header \in Header /\ S[i].key \in ChainKey
           /\ S[i].header.n \in Nat /\ S[i].key.step \in Nat /\ i \in Nat
           /\ S[i].header.n = S[i].key.step
  <1>1. S \in Seq(Envelope) /\ S[i].header.n = S[i].key.step
    BY DEF Ordered
  <1>2. S[i] \in Envelope /\ i \in Nat
    BY <1>1
  <1> QED BY <1>1, <1>2 DEF Envelope, Header, ChainKey

\* Few enough to be counted.
LEMMA PostedFinite ==
    ASSUME NEW S \in Seq(Envelope), NEW x
    PROVE  IsFiniteSet(PostedBy(S, x)) /\ Cardinality(PostedBy(S, x)) \in Nat
  <1>1. Len(S) \in Nat /\ DOMAIN S = 1 .. Len(S)
    OBVIOUS
  <1>2. IsFiniteSet(1 .. Len(S))
    BY <1>1, FS_Interval
  <1>3. PostedBy(S, x) \in SUBSET (1 .. Len(S))
    BY <1>1 DEF PostedBy
  <1> QED BY <1>2, <1>3, FS_Subset, FS_CardinalityType

\* The chain of r goes on to envelope i, which it can read.
LEMMA JumpOn ==
    ASSUME NEW S, Ordered(S), NEW x, NEW i \in PostedBy(S, x),
           NEW r, Tidy(r), Numbered(r), Current(S[i], r), Accounted(x, r, S),
           NEW n, n = S[i].header.n, r.recv.index <= n,
           \A e \in r.skipped : e.key # S[i].key,
           NEW st \in StoresUpTo(r, n)
    PROVE  /\ \A e \in st : \E j \in PostedBy(S, x) : S[j].key = e.key /\ S[j].header.dh = e.dh
           /\ HasRoom(x, S) =>
                /\ r.skipped \subseteq st
                /\ \A j \in PostedBy(S, x) :
                     Current(S[j], r) /\ r.recv.index <= S[j].key.step /\ S[j].key.step < n =>
                        \E e \in st : e.key = S[j].key /\ e.dh = S[j].header.dh /\ ~e.mangled
  <1> DEFINE a == r.recv.index
  <1>1. /\ i \in DOMAIN S /\ S[i].from = x /\ n \in Nat /\ S[i].key.step = n
        /\ S[i].key \in ChainKey /\ S[i].key.root = r.recv.key.root /\ S[i].header.dh = r.remote
    BY OrderedTypes DEF PostedBy, Current
  <1>2. a \in Nat /\ a = r.recv.key.step
    BY DEF Tidy, Session, ChainState, Numbered
  <1>3. ASSUME NEW k \in a .. n - 1
        PROVE  /\ \E j \in PostedBy(S, x) : /\ S[j].key = SkippedAt(r, k).key
                                            /\ S[j].header.dh = SkippedAt(r, k).dh
                                            /\ j # i
               /\ SkippedAt(r, k).dh = r.remote /\ SkippedAt(r, k).n = k
               /\ ~SkippedAt(r, k).mangled
               /\ SkippedAt(r, k).key \in ChainKey
               /\ SkippedAt(r, k).key.root = r.recv.key.root
               /\ SkippedAt(r, k).key.step = k
    <2> PICK e : e = SkippedAt(r, k)
      OBVIOUS
    <2>1. /\ e.dh = r.remote /\ e.n = k /\ ~e.mangled /\ e.key.root = r.recv.key.root
          /\ e.key.step = k /\ e.key \in ChainKey /\ k \in Nat
      BY <1>1, <1>2, GapIs
    <2>2. k \in 0 .. S[i].key.step - 1
      BY <1>1, <1>2, <2>1
    <2>3. PICK j \in DOMAIN S :
            /\ S[j].from = S[i].from /\ S[j].header.dh = S[i].header.dh
            /\ S[j].key.root = S[i].key.root /\ S[j].key.step = k
      BY <1>1, <2>2 DEF Ordered
    <2>4. S[j].key = e.key
      BY <1>1, <2>1, <2>3, OrderedTypes, SameKey
    <2>5. j \in PostedBy(S, x) /\ j # i
      BY <1>1, <1>2, <2>3 DEF PostedBy
    <2> QED BY <1>1, <2>1, <2>3, <2>4, <2>5
  <1>4. Filled(r, st, n)
    BY <1>1, <1>2, StoresWithin DEF Tidy
  <1>5. \A e \in st : \E j \in PostedBy(S, x) : S[j].key = e.key /\ S[j].header.dh = e.dh
    BY <1>3, <1>4 DEF Filled, Accounted
  <1>6. ASSUME HasRoom(x, S) PROVE Whole(r, st, n)
    <2> DEFINE P == PostedBy(S, x) \ {i}
               K == {S[j].key : j \in P}
    <2>1. IsFiniteSet(P) /\ Cardinality(P) <= MaxSkipped
      <3>1. IsFiniteSet(PostedBy(S, x)) /\ Cardinality(PostedBy(S, x)) \in Nat
        BY PostedFinite DEF Ordered
      <3>2. IsFiniteSet(P) /\ Cardinality(P) = Cardinality(PostedBy(S, x)) - 1
        BY <3>1, FS_RemoveElement
      <3> QED BY <1>6, <3>1, <3>2, MaxSkippedAssumption DEF HasRoom
    <2> DEFINE f == [j \in P |-> S[j].key]
    <2>2. f \in Surjection(P, K)
      BY DEF Surjection
    <2>3. IsFiniteSet(K) /\ Cardinality(K) <= Cardinality(P)
      <3> HIDE DEF f, K, P
      <3> QED BY <2>1, <2>2, FS_Surjection
    <2>4. \A e \in r.skipped : e.key \in K
      BY DEF Accounted
    <2>5. \A k \in a .. n - 1 : SkippedAt(r, k).key \in K
      BY <1>3
    <2>6. Cardinality(K) <= MaxSkipped
      <3>1. Cardinality(K) \in Nat /\ Cardinality(P) \in Nat /\ MaxSkipped \in Nat
        BY <2>1, <2>3, FS_CardinalityType, MaxSkippedAssumption
      <3> HIDE DEF P, K
      <3> QED BY <2>1, <2>3, <3>1
    <2> HIDE DEF K
    <2> QED BY <1>1, <2>3, <2>4, <2>5, <2>6, StoresAll
  <1>7. ASSUME HasRoom(x, S), NEW e \in r.skipped PROVE e \in st
    <2>1. SUFFICES ASSUME NEW k \in a .. n - 1, SameSlot(e, SkippedAt(r, k)) PROVE FALSE
      BY <1>6, <1>7 DEF Whole
    <2>2. e.dh = r.remote /\ e.n = k
      BY <1>3, <2>1 DEF SameSlot
    <2>3. PICK j \in PostedBy(S, x) : S[j].key = e.key /\ S[j].header.dh = e.dh
      BY DEF Accounted
    <2>4. e.key.root = r.recv.key.root
      BY <1>1, <2>2, <2>3 DEF Ordered, PostedBy
    <2>5. e.n = e.key.step /\ e.key.step < r.recv.key.step
      BY <2>4 DEF Numbered, Tidy, Passed
    <2> QED BY <1>1, <1>2, <2>2, <2>5
  <1>8. ASSUME HasRoom(x, S), NEW j \in PostedBy(S, x),
               Current(S[j], r), a <= S[j].key.step, S[j].key.step < n
        PROVE  \E e \in st : e.key = S[j].key /\ e.dh = S[j].header.dh /\ ~e.mangled
    <2> PICK k : k = S[j].key.step
      OBVIOUS
    <2>1. k \in a .. n - 1 /\ S[j].key \in ChainKey
      BY <1>1, <1>2, <1>8, OrderedTypes DEF PostedBy
    <2>2. SkippedAt(r, k).key = S[j].key
      BY <1>3, <1>8, <2>1, SameKey DEF Current
    <2>3. SkippedAt(r, k) \in st
      BY <1>6, <1>8, <2>1 DEF Whole
    <2> QED BY <1>3, <1>8, <2>1, <2>2, <2>3 DEF Current
  <1> QED BY <1>5, <1>7, <1>8

\* What a link says is kept when the sessions change in nothing it looks at,
\* and no envelope of x is added.
LEMMA LinkStays ==
    ASSUME NEW x, NEW s, NEW r, NEW S \in Seq(Envelope), NEW V, Link(x, s, r, S, V),
           NEW t, NEW q, NEW S2, NEW V2,
           PostedBy(S2, x) = PostedBy(S, x),
           \A i \in PostedBy(S, x) :
             /\ S2[i] = S[i] /\ (V2[i] = <<>> => V[i] = <<>>)
             /\ Outrun(S, V, i) => Outrun(S2, V2, i)
             /\ Behind(S[i].key, r.root) => Behind(S[i].key, q.root)
             /\ Coming(S[i], t, q) <=> Coming(S[i], s, r),
           q.remote = r.remote, q.recv = r.recv, q.skipped = r.skipped,
           ~NeedsRotation(t) /\ t.send.key.root = r.recv.key.root =>
              r.recv.key.step <= t.send.key.step
    PROVE  Link(x, t, q, S2, V2)
  <1>1. \A i \in PostedBy(S, x) : Current(S2[i], q) <=> Current(S[i], r)
    BY DEF Current
  <1>2. \A i \in PostedBy(S2, x) :
          /\ Coming(S2[i], t, q) \/ Behind(S2[i].key, q.root)
          /\ S2[i].header.dh = q.remote => S2[i].key.root = q.recv.key.root
          /\ Current(S2[i], q) \/ Coming(S2[i], t, q) \/ Outrun(S2, V2, i)
    BY <1>1 DEF Link
  <1>3. \A i, j \in PostedBy(S2, x) : Current(S2[i], q) /\ Coming(S2[j], t, q) => i < j
    BY <1>1 DEF Link
  <1>4. Accounted(x, q, S2)
    BY DEF Link, Accounted
  <1>5. HasRoom(x, S2) /\ Intact(q) => Kept(x, q, S2, V2)
    BY <1>1 DEF Link, HasRoom, Intact, Kept
  <1> QED BY <1>2, <1>3, <1>4, <1>5 DEF Link

\* Envelope e may be posted next by the device with the session t.
Fits(e, t, r) ==
    \/ /\ Current(e, r) /\ ~Ahead(t, r)
       /\ Behind(e.key, r.root) /\ ~(e.key.step < r.recv.key.step)
    \/ Coming(e, t, r)

\* A link is kept when an envelope that fits it is posted.
LEMMA LinkPost ==
    ASSUME NEW x, NEW s, NEW r, NEW S \in Seq(Envelope), NEW V, DOMAIN V = DOMAIN S,
           Link(x, s, r, S, V),
           NEW t, NEW new, new.from = x, NEW S2 \in Seq(Envelope), NEW V2,
           NEW last, last = Len(S) + 1,
           DOMAIN S2 = 1 .. last, S2[last] = new, V2[last] = <<>>,
           \A i \in DOMAIN S : S2[i] = S[i] /\ V2[i] = V[i],
           \A i \in PostedBy(S, x) : Coming(S[i], t, r) <=> Coming(S[i], s, r),
           Fits(new, t, r),
           ~NeedsRotation(t) /\ t.send.key.root = r.recv.key.root =>
              r.recv.key.step <= t.send.key.step
    PROVE  Link(x, t, r, S2, V2)
  <1>1. /\ Len(S) \in Nat /\ DOMAIN S = 1 .. Len(S) /\ last \notin DOMAIN S
        /\ \A i \in DOMAIN S : i < last
        /\ \A i \in DOMAIN S2 : i = last \/ i \in DOMAIN S
        /\ DOMAIN S \subseteq DOMAIN S2 /\ last \in DOMAIN S2
    OBVIOUS
  <1>2. /\ last \in PostedBy(S2, x) /\ PostedBy(S, x) \in SUBSET PostedBy(S2, x)
        /\ \A i \in PostedBy(S2, x) : i # last => i \in PostedBy(S, x)
    BY <1>1 DEF PostedBy
  <1>3. \A i \in PostedBy(S, x) : S2[i] = S[i] /\ V2[i] = V[i] /\ i < last
    BY <1>1 DEF PostedBy
  <1>9. \A i \in PostedBy(S, x) : Outrun(S, V, i) => Outrun(S2, V2, i)
    BY <1>1 DEF PostedBy, Outrun
  <1>4. Coming(new, t, r) => r.remote # new.header.dh
    BY DEF Coming, Ahead
  <1>5. \A i \in PostedBy(S2, x) :
          /\ Coming(S2[i], t, r) \/ Behind(S2[i].key, r.root)
          /\ S2[i].header.dh = r.remote => S2[i].key.root = r.recv.key.root
          /\ Current(S2[i], r) \/ Coming(S2[i], t, r) \/ Outrun(S2, V2, i)
    <2>1. /\ Coming(new, t, r) \/ Behind(new.key, r.root)
          /\ new.header.dh = r.remote => new.key.root = r.recv.key.root
          /\ Current(new, r) \/ Coming(new, t, r)
      BY <1>4 DEF Current, Fits
    <2> SUFFICES ASSUME NEW i \in PostedBy(S2, x)
                 PROVE  /\ Coming(S2[i], t, r) \/ Behind(S2[i].key, r.root)
                        /\ S2[i].header.dh = r.remote => S2[i].key.root = r.recv.key.root
                        /\ Current(S2[i], r) \/ Coming(S2[i], t, r) \/ Outrun(S2, V2, i)
      OBVIOUS
    <2>2. CASE i = last
      <3>1. S2[i] = new
        BY <2>2
      <3> QED BY <2>1, <3>1
    <2>3. CASE i # last
      <3>1. i \in PostedBy(S, x) /\ S2[i] = S[i]
        BY <1>2, <1>3, <2>3
      <3>2. /\ Coming(S[i], s, r) \/ Behind(S[i].key, r.root)
            /\ S[i].header.dh = r.remote => S[i].key.root = r.recv.key.root
            /\ Current(S[i], r) \/ Coming(S[i], s, r) \/ Outrun(S, V, i)
        BY <3>1 DEF Link
      <3>3. (Coming(S[i], t, r) <=> Coming(S[i], s, r)) /\ (Outrun(S, V, i) => Outrun(S2, V2, i))
        BY <1>9, <3>1
      <3> QED BY <3>1, <3>2, <3>3
    <2> QED BY <2>2, <2>3
  <1>6. \A i, j \in PostedBy(S2, x) : Current(S2[i], r) /\ Coming(S2[j], t, r) => i < j
    <2>1. \A i \in PostedBy(S2, x) : Coming(S2[i], t, r) => Ahead(t, r)
      BY DEF Coming
    <2>2. Current(new, r) => ~Ahead(t, r)
      BY <1>4 DEF Current, Fits
    <2> SUFFICES ASSUME NEW i \in PostedBy(S2, x), NEW j \in PostedBy(S2, x),
                        Current(S2[i], r), Coming(S2[j], t, r)
                 PROVE  i < j
      OBVIOUS
    <2>3. i # last
      BY <2>1, <2>2
    <2>4. i \in PostedBy(S, x) /\ S2[i] = S[i] /\ i < last
      BY <1>2, <1>3, <2>3
    <2>5. CASE j = last
      BY <2>4, <2>5
    <2>6. CASE j # last
      <3>1. j \in PostedBy(S, x) /\ S2[j] = S[j]
        BY <1>2, <1>3, <2>6
      <3>2. Coming(S[j], s, r) /\ Current(S[i], r)
        BY <2>4, <3>1
      <3> QED BY <2>4, <3>1, <3>2 DEF Link
    <2> QED BY <2>5, <2>6
  <1>7. Accounted(x, r, S2)
    <2>1. Accounted(x, r, S)
      BY DEF Link
    <2> QED BY <1>2, <1>3, <2>1 DEF Accounted
  <1>8. ASSUME HasRoom(x, S2), Intact(r) PROVE Kept(x, r, S2, V2)
    <2>1. HasRoom(x, S)
      <3>1. IsFiniteSet(PostedBy(S, x)) /\ Cardinality(PostedBy(S, x)) \in Nat
        BY PostedFinite
      <3>2. IsFiniteSet(PostedBy(S2, x))
            /\ Cardinality(PostedBy(S, x)) <= Cardinality(PostedBy(S2, x))
        <4>1. IsFiniteSet(PostedBy(S2, x)) /\ PostedBy(S, x) \in SUBSET PostedBy(S2, x)
          BY <1>2, PostedFinite
        <4> QED BY <4>1, FS_Subset
      <3>3. Cardinality(PostedBy(S2, x)) \in Nat
        BY <3>2, FS_CardinalityType
      <3> QED BY <1>8, <3>1, <3>2, <3>3, MaxSkippedAssumption DEF HasRoom
    <2>2. Kept(x, r, S, V)
      BY <1>8, <2>1 DEF Link
    <2>3. Current(new, r) => ~(new.key.step < r.recv.key.step)
      BY <1>4 DEF Current, Fits
    <2> SUFFICES ASSUME NEW i \in PostedBy(S2, x), Current(S2[i], r), V2[i] = <<>>,
                        S2[i].key.step < r.recv.key.step
                 PROVE  \E e \in r.skipped : /\ e.key = S2[i].key
                                             /\ e.dh = S2[i].header.dh /\ ~e.mangled
      BY DEF Kept
    <2>4. i # last
      BY <2>3
    <2>5. i \in PostedBy(S, x) /\ S2[i] = S[i] /\ V2[i] = V[i]
      BY <1>2, <1>3, <2>4
    <2> QED BY <2>2, <2>5 DEF Kept
  <1> QED BY <1>5, <1>6, <1>7, <1>8 DEF Link

\* One more verdict.
Judged(S, V, V2, i) ==
    /\ V2[i] # <<>>
    /\ \A j \in DOMAIN S : j # i => V2[j] = V[j]

\* A verdict makes no envelope new again, and leaves what overtook it.
LEMMA JudgedGrows ==
    ASSUME NEW S, NEW V, NEW V2, NEW i, Judged(S, V, V2, i)
    PROVE  /\ \A j \in DOMAIN S : V2[j] = <<>> => V[j] = <<>>
           /\ \A j \in DOMAIN S : Outrun(S, V, j) => Outrun(S, V2, j)
  <1>1. \A j \in DOMAIN S : V2[j] = <<>> => V[j] = <<>>
    BY DEF Judged
  <1> QED BY <1>1 DEF Outrun

\* A session that differs from r in its receiving chain's position and in what
\* it keeps.
SameChains(t, r) ==
    /\ t.root = r.root /\ t.own = r.own /\ t.remote = r.remote /\ t.send = r.send
    /\ t.recv.key.root = r.recv.key.root

\* What r received goes on in the chain it is at, or was kept.
LEMMA ReceiveCurrent ==
    ASSUME NEW x, NEW s, NEW r, NEW S, NEW V, Ordered(S), Link(x, s, r, S, V),
           Tidy(r), Numbered(r), ~NeedsRotation(s) => ChainInv(s, S),
           ~NeedsRotation(s) => s.send.key.step \in Nat,
           NEW i \in PostedBy(S, x), NEW out \in Decrypt(r, S[i]), out.result # "failed",
           SkippedFor(r, S[i].header) # {} \/ S[i].header.dh = r.remote,
           NEW V2, Judged(S, V, V2, i)
    PROVE  SameChains(out.session, r) /\ Link(x, s, out.session, S, V2)
  <1> PICK m : m = S[i]
    OBVIOUS
  <1> PICK t : t = out.session
    OBVIOUS
  <1>1. /\ i \in DOMAIN S /\ m.from = x /\ m.key.step = m.header.n /\ m.header.n \in Nat
        /\ m.key \in ChainKey /\ m.header \in Header
    BY OrderedTypes DEF PostedBy
  <1>2. r.recv.index \in Nat /\ r.recv.index = r.recv.key.step /\ r \in Session
    BY DEF Tidy, Session, ChainState, Numbered
  <1>3. /\ \A j \in DOMAIN S : V2[j] = <<>> => V[j] = <<>>
        /\ \A j \in DOMAIN S : Outrun(S, V, j) => Outrun(S, V2, j)
    BY JudgedGrows
  <1>4. ASSUME SameChains(t, r), Accounted(x, t, S),
               ~NeedsRotation(s) /\ s.send.key.root = r.recv.key.root =>
                  t.recv.key.step <= s.send.key.step,
               HasRoom(x, S) /\ Intact(t) => Kept(x, t, S, V2)
        PROVE  Link(x, s, t, S, V2)
    <2>1. Ahead(s, t) <=> Ahead(s, r)
      BY <1>4 DEF SameChains, Ahead, NeedsRotation
    <2>2. \A j \in PostedBy(S, x) : Coming(S[j], s, t) <=> Coming(S[j], s, r)
      BY <2>1 DEF Coming
    <2>3. t.root = r.root /\ t.remote = r.remote /\ t.recv.key.root = r.recv.key.root
      BY <1>4 DEF SameChains
    <2>6. \A j \in PostedBy(S, x) : Current(S[j], t) <=> Current(S[j], r)
      BY <2>3 DEF Current
    <2>4. ASSUME NEW j \in PostedBy(S, x)
          PROVE  /\ Coming(S[j], s, t) \/ Behind(S[j].key, t.root)
                 /\ S[j].header.dh = t.remote => S[j].key.root = t.recv.key.root
                 /\ Current(S[j], t) \/ Coming(S[j], s, t) \/ Outrun(S, V2, j)
      <3>1. /\ Coming(S[j], s, r) \/ Behind(S[j].key, r.root)
            /\ S[j].header.dh = r.remote => S[j].key.root = r.recv.key.root
            /\ Current(S[j], r) \/ Coming(S[j], s, r) \/ Outrun(S, V, j)
        BY DEF Link
      <3>2. Coming(S[j], s, t) <=> Coming(S[j], s, r)
        BY <2>2
      <3>3. Current(S[j], t) <=> Current(S[j], r)
        BY <2>6
      <3>4. Outrun(S, V, j) => Outrun(S, V2, j)
        BY <1>3 DEF PostedBy
      <3> QED BY <2>3, <3>1, <3>2, <3>3, <3>4
    <2>5. \A j, k \in PostedBy(S, x) : Current(S[j], t) /\ Coming(S[k], s, t) => j < k
      <3>1. \A j, k \in PostedBy(S, x) : Current(S[j], r) /\ Coming(S[k], s, r) => j < k
        BY DEF Link
      <3> QED BY <2>2, <2>6, <3>1
    <2> QED BY <1>4, <2>3, <2>4, <2>5 DEF Link
  <1>5. CASE Consumes(r, m, out)
    <2>1. PICK e \in SkippedFor(r, m.header) :
            /\ t = [r EXCEPT !.skipped = r.skipped \ {e}] /\ e.key = m.key
      BY <1>5 DEF Consumes
    <2>2. /\ t.root = r.root /\ t.own = r.own /\ t.remote = r.remote /\ t.send = r.send
          /\ t.recv = r.recv /\ t.skipped = r.skipped \ {e}
          /\ e \in r.skipped /\ ~e.mangled
      BY <1>2, <2>1 DEF Session, SkippedFor, SameSlot
    <2>3. Accounted(x, t, S)
      BY <2>2 DEF Link, Accounted
    <2>4. ASSUME HasRoom(x, S), Intact(t) PROVE Kept(x, t, S, V2)
      <3>1. Intact(r)
        BY <2>2, <2>4 DEF Intact
      <3>2. Kept(x, r, S, V)
        BY <2>4, <3>1 DEF Link
      <3> SUFFICES ASSUME NEW j \in PostedBy(S, x), Current(S[j], t), V2[j] = <<>>,
                          S[j].key.step < t.recv.key.step
                   PROVE  \E f \in t.skipped : /\ f.key = S[j].key
                                               /\ f.dh = S[j].header.dh /\ ~f.mangled
        BY DEF Kept
      <3>3. j # i /\ j \in DOMAIN S /\ V[j] = <<>>
        BY <1>3 DEF Judged, PostedBy
      <3>4. PICK f \in r.skipped : /\ f.key = S[j].key /\ f.dh = S[j].header.dh /\ ~f.mangled
        BY <2>2, <3>2, <3>3 DEF Kept, Current
      <3>5. f # e
        BY <1>1, <2>1, <3>3, <3>4 DEF Ordered
      <3> QED BY <2>2, <3>4, <3>5
    <2> QED BY <1>4, <2>2, <2>3, <2>4 DEF SameChains, Link
  <1>6. CASE SkippedFor(r, m.header) = {} /\ m.header.dh = r.remote
    <2>1. RotateRatchetOnRecv(r, m.header) = r
      BY <1>6 DEF RotateRatchetOnRecv
    <2>2. CASE Late(r, m, out)
      <3>1. t = r
        BY <2>1, <2>2 DEF Late
      <3>2. HasRoom(x, S) /\ Intact(t) => Kept(x, t, S, V2)
        BY <1>3, <3>1 DEF Link, Kept, PostedBy
      <3> QED BY <1>4, <3>1, <3>2 DEF SameChains, Link
    <2>3. CASE Jumps(r, m, out)
      <3> PICK n : n = m.header.n
        OBVIOUS
      <3>1. PICK st \in StoresUpTo(r, n) : t = Jumped(r, n, st)
        BY <2>3 DEF Jumps
      <3>2. n \in Nat /\ r.recv.index <= n /\ ChainAt(r.recv, n).key = m.key
        BY <1>1, <1>2, <2>3 DEF Jumps
      <3>3. /\ SameChains(t, r) /\ t.skipped = st /\ t.recv.key.step = n + 1
            /\ m.key.root = r.recv.key.root
        BY <3>1, <3>2, JumpedIs DEF SameChains
      <3>4. Current(m, r) /\ Accounted(x, r, S)
        BY <1>6, <3>3 DEF Current, Link
      <3>5. ASSUME NEW e \in r.skipped, e.key = m.key PROVE FALSE
        BY <1>1, <1>2, <3>2, <3>3, <3>5 DEF Tidy, Passed
      <3>6. /\ \A e \in st : \E j \in PostedBy(S, x) : S[j].key = e.key /\ S[j].header.dh = e.dh
            /\ HasRoom(x, S) =>
                 /\ r.skipped \subseteq st
                 /\ \A j \in PostedBy(S, x) :
                      Current(S[j], r) /\ r.recv.index <= S[j].key.step /\ S[j].key.step < n =>
                         \E e \in st : e.key = S[j].key /\ e.dh = S[j].header.dh /\ ~e.mangled
        BY <3>2, <3>4, <3>5, JumpOn
      <3>7. Accounted(x, t, S)
        BY <3>3, <3>6 DEF Accounted
      <3>8. ASSUME ~NeedsRotation(s), s.send.key.root = r.recv.key.root
            PROVE  t.recv.key.step <= s.send.key.step
        <4>1. m.key.step < s.send.key.step /\ s.send.key.step \in Nat
          BY <1>1, <3>3, <3>8 DEF ChainInv
        <4> QED BY <1>1, <3>2, <3>3, <4>1
      <3>9. ASSUME HasRoom(x, S), Intact(t) PROVE Kept(x, t, S, V2)
        <4>1. Kept(x, r, S, V)
          BY <3>3, <3>6, <3>9 DEF Intact, Link
        <4> SUFFICES ASSUME NEW j \in PostedBy(S, x), Current(S[j], t), V2[j] = <<>>,
                            S[j].key.step < t.recv.key.step
                     PROVE  \E f \in t.skipped : /\ f.key = S[j].key
                                                 /\ f.dh = S[j].header.dh /\ ~f.mangled
          BY DEF Kept
        <4>2. j # i /\ j \in DOMAIN S /\ V[j] = <<>> /\ Current(S[j], r)
          BY <1>3, <3>3 DEF Judged, PostedBy, Current, SameChains
        <4>3. S[j].key.step \in Nat /\ S[j].key \in ChainKey
          BY <4>2, OrderedTypes
        <4>4. S[j].key.step # n
          BY <1>1, <3>3, <4>2, <4>3, SameKey DEF Current, Ordered
        <4>5. CASE S[j].key.step < r.recv.key.step
          BY <3>3, <3>6, <3>9, <4>1, <4>2, <4>5 DEF Kept
        <4>6. CASE r.recv.index <= S[j].key.step /\ S[j].key.step < n
          BY <3>3, <3>6, <3>9, <4>2, <4>6
        <4> QED BY <1>2, <3>2, <3>3, <4>3, <4>4, <4>5, <4>6
      <3> QED BY <1>4, <3>3, <3>7, <3>8, <3>9
    <2> QED BY <1>1, <2>1, <2>2, <2>3, <1>6, DecryptIs DEF Consumes
  <1>7. CASE SkippedFor(r, m.header) # {}
    <2>1. Consumes(r, m, out)
      BY <1>7, DecryptIs DEF Late
    <2> QED BY <1>5, <2>1
  <1> QED BY <1>6, <1>7

\* What r received begins the chain to come.
LEMMA ReceiveComing ==
    ASSUME NEW x, NEW s, NEW r, NEW S, NEW V, Ordered(S), Link(x, s, r, S, V),
           Tidy(r), Numbered(r), ~NeedsRotation(s) => ChainInv(s, S),
           ~NeedsRotation(s) => s.send.key.step \in Nat,
           ~NeedsRotation(s) =>
              \A j \in DOMAIN S : S[j].header.dh = s.own => S[j].key.root = s.send.key.root,
           NEW i \in PostedBy(S, x), NEW out \in Decrypt(r, S[i]), out.result # "failed",
           SkippedFor(r, S[i].header) = {}, S[i].header.dh # r.remote,
           NEW V2, Judged(S, V, V2, i)
    PROVE  /\ Coming(S[i], s, r) /\ Turned(s, out.session) /\ out.session.own = r.own
           /\ Link(x, s, out.session, S, V2)
  <1> PICK m : m = S[i]
    OBVIOUS
  <1> PICK t : t = out.session
    OBVIOUS
  <1> PICK q : q = RotateRatchetOnRecv(r, m.header)
    OBVIOUS
  <1> PICK n : n = m.header.n
    OBVIOUS
  <1> PICK root : root = KdfRoot(r.root, DH(r.own, m.header.dh))
    OBVIOUS
  <1>1. /\ i \in DOMAIN S /\ m.from = x /\ m.key.step = n /\ n \in Nat
        /\ m.key \in ChainKey /\ m.header \in Header /\ m.header.dh \in Nat
    BY OrderedTypes DEF PostedBy, Header, KeyPair
  <1>2. r \in Session /\ r.root \in RootKey /\ r.root # <<>> /\ r.own \in Nat
    BY DEF Tidy, Session, KeyPair
  <1>3. /\ root \in RootKey
        /\ \A k \in ChainKey : Behind(k, r.root) => Behind(k, root) /\ k.root # root
    BY <1>1, <1>2, KdfLonger
  <1>4. Tidy(q) /\ Numbered(q)
    <2>1. Tidy(q)
      BY <1>1, RotateDead
    <2> QED BY <2>1, RotateNumbered
  <1>5. /\ q.root = root /\ q.own = r.own /\ q.remote = m.header.dh
        /\ q.recv.key.root = root /\ q.recv.key.step = 0 /\ q.recv.index = 0
        /\ q.send.key = ZeroKey /\ q.skipped = r.skipped
    BY <1>2 DEF RotateRatchetOnRecv, Session, FirstChainKey
  <1>6. Jumps(q, m, out)
    <2>1. ~Consumes(r, m, out) /\ ~Late(r, m, out)
      <3>1. SkippedFor(r, m.header) = {} /\ ~(n < q.recv.index)
        BY <1>1, <1>5
      <3> QED BY <3>1 DEF Consumes, Late
    <2> QED BY <2>1, DecryptIs
  <1>7. PICK st \in StoresUpTo(q, n) : t = Jumped(q, n, st)
    BY <1>6 DEF Jumps
  <1>8. ChainAt(q.recv, n).key = m.key /\ q.recv.index <= n
    BY <1>1, <1>5, <1>6 DEF Jumps
  <1>9. /\ t.root = root /\ t.own = r.own /\ t.remote = m.header.dh /\ t.send = q.send
        /\ t.skipped = st /\ t.recv.key.root = root /\ t.recv.key.step = n + 1
        /\ m.key.root = root
    BY <1>1, <1>4, <1>5, <1>7, <1>8, JumpedIs
  <1>10. Coming(m, s, r)
    BY <1>1, <1>3, <1>9 DEF Link
  <1>11. Ahead(s, r) /\ s.root = root /\ s.own = m.header.dh
    BY <1>9, <1>10 DEF Coming
  <1>12. Turned(s, t)
    BY <1>5, <1>9, <1>11 DEF Turned, Ahead, NeedsRotation
  <1>13. ~Ahead(s, t)
    BY <1>12 DEF Ahead, Turned
  <1>14. \A j \in PostedBy(S, x) : ~Coming(S[j], s, t)
    BY <1>13 DEF Coming
  <1>15. ASSUME NEW j \in PostedBy(S, x)
         PROVE  /\ Behind(S[j].key, t.root)
                /\ S[j].header.dh = t.remote => S[j].key.root = t.recv.key.root
                /\ Current(S[j], t) \/ Outrun(S, V2, j)
    <2>1. j \in DOMAIN S /\ S[j].key \in ChainKey /\ S[j].from = x
      BY OrderedTypes DEF PostedBy
    <2>2. S[j].header.dh = t.remote => S[j].key.root = t.recv.key.root
      BY <1>9, <1>11, <2>1 DEF Ahead
    <2>3. CASE Coming(S[j], s, r)
      <3>1. Current(S[j], t) /\ S[j].key.root = t.root
        BY <1>9, <1>11, <2>3 DEF Coming, Current
      <3>2. Behind(S[j].key, t.root)
        BY <1>3, <1>9, <3>1, FirstBehind
      <3> QED BY <2>2, <3>1, <3>2
    <2>4. CASE ~Coming(S[j], s, r)
      <3>1. Behind(S[j].key, r.root) /\ (Current(S[j], r) \/ Outrun(S, V, j))
        BY <2>4 DEF Link
      <3>2. Behind(S[j].key, t.root)
        BY <1>3, <1>9, <2>1, <3>1
      <3>3. CASE Current(S[j], r)
        <4>1. j < i
          BY <1>10, <3>3 DEF Link
        <4>2. S[j].header.dh # S[i].header.dh
          BY <3>3 DEF Current
        <4>3. i > j
          BY <1>1, <2>1, <4>1, OrderedTypes
        <4>4. Outrun(S, V2, j)
          BY <1>1, <2>1, <4>2, <4>3 DEF Outrun, Judged
        <4> QED BY <2>2, <3>2, <4>4
      <3>4. CASE Outrun(S, V, j)
        <4>1. Outrun(S, V2, j)
          BY <2>1, <3>4, JudgedGrows
        <4> QED BY <2>2, <3>2, <4>1
      <3> QED BY <3>1, <3>3, <3>4
    <2> QED BY <2>3, <2>4
  <1>16. Current(m, q) /\ Accounted(x, q, S)
    BY <1>5, <1>9 DEF Current, Link, Accounted
  <1>17. ASSUME NEW e \in q.skipped, e.key = m.key PROVE FALSE
    <2>1. e \in r.skipped /\ e.key \in ChainKey
      BY <1>2, <1>5, <1>17 DEF Session, SkippedEntry
    <2>2. Behind(e.key, r.root)
      BY <2>1 DEF Tidy, Passed
    <2> QED BY <1>3, <1>9, <1>17, <2>1, <2>2
  <1>18. /\ \A e \in st : \E j \in PostedBy(S, x) : S[j].key = e.key /\ S[j].header.dh = e.dh
         /\ HasRoom(x, S) =>
              /\ q.skipped \subseteq st
              /\ \A j \in PostedBy(S, x) :
                   Current(S[j], q) /\ q.recv.index <= S[j].key.step /\ S[j].key.step < n =>
                      \E e \in st : e.key = S[j].key /\ e.dh = S[j].header.dh /\ ~e.mangled
    BY <1>4, <1>8, <1>16, <1>17, JumpOn
  <1>19. Accounted(x, t, S)
    BY <1>9, <1>18 DEF Accounted
  <1>20. ASSUME s.send.key.root = t.recv.key.root
         PROVE  t.recv.key.step <= s.send.key.step
    <2>1. m.key.step < s.send.key.step /\ s.send.key.step \in Nat
      BY <1>1, <1>9, <1>11, <1>20 DEF ChainInv, Ahead
    <2> QED BY <1>1, <1>9, <2>1
  <1>21. ASSUME HasRoom(x, S) PROVE Kept(x, t, S, V2)
    <2> SUFFICES ASSUME NEW j \in PostedBy(S, x), Current(S[j], t), V2[j] = <<>>,
                        S[j].key.step < t.recv.key.step
                 PROVE  \E f \in t.skipped : /\ f.key = S[j].key
                                             /\ f.dh = S[j].header.dh /\ ~f.mangled
      BY DEF Kept
    <2>1. j # i /\ j \in DOMAIN S /\ Current(S[j], q)
      BY <1>5, <1>9 DEF Judged, PostedBy, Current
    <2>2. S[j].key.step \in Nat /\ S[j].key \in ChainKey
      BY <2>1, OrderedTypes
    <2>3. S[j].key.step # n
      <3>1. S[j].key.step = n => S[j].key = m.key
        BY <1>1, <1>9, <2>1, <2>2, SameKey DEF Current
      <3>2. S[j].key # S[i].key
        BY <1>1, <2>1 DEF Ordered
      <3> QED BY <3>1, <3>2
    <2>4. q.recv.index <= S[j].key.step /\ S[j].key.step < n
      BY <1>1, <1>5, <1>9, <2>2, <2>3
    <2> QED BY <1>9, <1>18, <1>21, <2>1, <2>4
  <1> QED BY <1>9, <1>10, <1>12, <1>14, <1>15, <1>19, <1>20, <1>21 DEF Link

-----------------------------------------------------------------------------
(* The histories are numbered, and none of their envelopes is left out.    *)

\* A chain of d, told from what d posted on it.
Chained(d, s, S) ==
    /\ \A i \in DOMAIN S : S[i].header.dh = s.own => S[i].key.root = s.send.key.root
    /\ \A k \in 0 .. s.send.key.step - 1 : \E j \in DOMAIN S :
         /\ S[j].from = d /\ S[j].header.dh = s.own
         /\ S[j].key.root = s.send.key.root /\ S[j].key.step = k

\* The second inductive invariant: every history is numbered without gaps.
OrderInv ==
    /\ \A d \in DOMAIN sessions : Numbered(sessions[d])
    /\ Ordered(sent)
    /\ \A d \in Device : Sending(d) => Chained(d, sessions[d], sent)
    /\ \A i \in DOMAIN verdicts : Len(verdicts[i]) <= MaxDeliveries

\* d posts an envelope sealed in the session r, which becomes t.
Posted(d, r, t, new, last) ==
    /\ Tidy(r) /\ Tidy(t) /\ Numbered(t) /\ ~NeedsRotation(r) /\ ~NeedsRotation(t)
    /\ t.root = r.root /\ t.own = r.own /\ t.remote = r.remote /\ t.recv = r.recv
    /\ t.skipped = r.skipped
    /\ t.send.key.root = r.send.key.root /\ t.send.key.step = r.send.key.step + 1
    /\ new.from = d /\ new.header.dh = r.own /\ new.key = r.send.key
    /\ new.header.n = new.key.step
    /\ DOMAIN sessions' = DOMAIN sessions \cup {d} /\ sessions'[d] = t
    /\ \A e \in DOMAIN sessions : e # d => sessions'[e] = sessions[e]
    /\ last = Len(sent) + 1 /\ Len(sent) \in Nat
    /\ DOMAIN sent = 1 .. Len(sent) /\ DOMAIN sent' = 1 .. last
    /\ DOMAIN verdicts = DOMAIN sent /\ DOMAIN verdicts' = DOMAIN sent'
    /\ sent'[last] = new /\ verdicts'[last] = <<>>
    /\ \A i \in DOMAIN sent : sent'[i] = sent[i] /\ verdicts'[i] = verdicts[i]

\* The three ways to come by a session to send in.
Begins(d, r, new) ==
    /\ ~HasSession(d) /\ r = InitSession(nextKey, Peer(d)) /\ new.handshake = nextKey
Answers(d, r, new) ==
    /\ HasSession(d) /\ NeedsRotation(sessions[d])
    /\ r = RotateRatchetOnSend(sessions[d], nextKey) /\ new.handshake = NoHandshake
GoesOn(d, r, new) ==
    /\ Sending(d) /\ r = sessions[d] /\ new.handshake = NoHandshake

\* What d sends on is known to be its own.
Own(d, r) ==
    /\ Chained(d, r, sent)
    /\ \A e \in Device : e # d /\ Sending(e) => r.own # sessions[e].own

\* What Post does, in the terms of Posted.
LEMMA PostIs ==
    ASSUME IInv, SecretInv, NEW d \in Device, NEW s, Tidy(s), Numbered(s),
           NEW fresh \in Nat, NEW handshake, Post(d, s, fresh, handshake),
           NEW r, r = Sealing(s, fresh), ~NeedsRotation(r), r.send.key.root # <<>>
    PROVE  \E t, new, last : Posted(d, r, t, new, last) /\ new.handshake = handshake
  <1> PICK e : e = Encrypt(s, fresh)
    OBVIOUS
  <1> PICK t : t = e.session
    OBVIOUS
  <1> PICK new : new = [from |-> d, header |-> e.header, key |-> e.key,
                        handshake |-> handshake, seen |-> e.session.remote]
    OBVIOUS
  <1> PICK last : last = Len(sent) + 1
    OBVIOUS
  <1>1. Tidy(r)
    BY SealingDead
  <1>2. Tidy(t) /\ Numbered(t) /\ e.header.n = e.key.step
    BY EncryptDead, EncryptNumbered
  <1>3. /\ e.header.dh = r.own /\ e.key = r.send.key
        /\ t = [r EXCEPT !.send = Advance(@)]
    BY DEF Encrypt
  <1>4. /\ t.send = Advance(r.send) /\ t.own = r.own /\ t.remote = r.remote
        /\ t.root = r.root /\ t.recv = r.recv /\ t.skipped = r.skipped
        /\ r.send \in ChainState
    BY <1>1, <1>3 DEF Tidy, Session
  <1>5. t.send.key.root = r.send.key.root /\ t.send.key.step = r.send.key.step + 1
    BY <1>4, AdvanceChain
  <1>6. ~NeedsRotation(t)
    BY <1>5 DEF NeedsRotation, ZeroKey
  <1>7. /\ StoreSession(d, t) /\ sent' = Append(sent, new)
        /\ verdicts' = Append(verdicts, <<>>)
    BY DEF Post
  <1>8. /\ new.from = d /\ new.header.dh = r.own /\ new.key = r.send.key
        /\ new.header.n = new.key.step /\ new.handshake = handshake
    BY <1>2, <1>3
  <1>9. /\ DOMAIN sessions' = DOMAIN sessions \cup {d} /\ sessions'[d] = t
        /\ \A x \in DOMAIN sessions : x # d => sessions'[x] = sessions[x]
    BY <1>7 DEF StoreSession
  <1>10. /\ Len(sent) \in Nat /\ DOMAIN sent = 1 .. Len(sent)
         /\ DOMAIN sent' = 1 .. last /\ sent'[last] = new
         /\ \A i \in DOMAIN sent : sent'[i] = sent[i]
    BY <1>7 DEF IInv
  <1>11. /\ DOMAIN verdicts = DOMAIN sent
         /\ DOMAIN verdicts' = 1 .. last /\ verdicts'[last] = <<>>
         /\ \A i \in DOMAIN sent : verdicts'[i] = verdicts[i]
    <2>1. verdicts \in Seq(Seq(Results)) /\ 1 .. Len(verdicts) = 1 .. Len(sent)
          /\ Len(verdicts) \in Nat /\ DOMAIN verdicts = DOMAIN sent
      BY <1>10 DEF IInv, SecretInv
    <2>2. Len(verdicts) = Len(sent)
      BY <1>10, <2>1
    <2> QED BY <1>7, <1>10, <2>1, <2>2
  <1>12. Posted(d, r, t, new, last)
    BY <1>1, <1>2, <1>4, <1>5, <1>6, <1>8, <1>9, <1>10, <1>11 DEF Posted
  <1> QED BY <1>8, <1>12

\* Each way to send posts one envelope, sealed in a session of the sender.
LEMMA SendIs ==
    ASSUME IInv, SecretInv, OrderInv, NEW d \in Device, PrepareFirstSend(d) \/ PrepareSend(d)
    PROVE  \E r, t, new, last :
             /\ Posted(d, r, t, new, last) /\ Own(d, r)
             /\ \/ Begins(d, r, new) \/ Answers(d, r, new) \/ GoesOn(d, r, new)
  <1>1. nextKey \in Nat /\ nextKey + 1 \in Nat /\ Peer(d) \in Nat /\ Peer(d) < nextKey
    BY DEF IInv, Peer, Device
  <1>2. ASSUME NEW r, r.own = nextKey, r.send.key.step = 0,
               ~RootBelow(r.send.key.root, nextKey)
        PROVE  Own(d, r)
    <2>1. \A i \in DOMAIN sent : sent[i].header.dh # nextKey
      BY <1>1 DEF IInv, EnvelopeInv, Envelope, Header, KeyPair
    <2>2. 0 .. r.send.key.step - 1 = {}
      BY <1>2
    <2>3. \A e \in Device : Sending(e) => r.own # sessions[e].own
      BY <1>2, FreshChain
    <2> QED BY <1>2, <2>1, <2>2, <2>3 DEF Own, Chained
  <1>3. CASE PrepareFirstSend(d)
    <2> PICK r : r = InitSession(nextKey, Peer(d))
      OBVIOUS
    <2>1. /\ Tidy(r) /\ Numbered(r) /\ ~NeedsRotation(r) /\ r.own = nextKey
          /\ ~RootBelow(r.send.key.root, nextKey)
      BY <1>1, InitSessionInv, FirstNumbered DEF SessionInv
    <2>2. r.send.key.step = 0 /\ r.send.key.root # <<>>
      BY DEF InitSession, FirstChainKey
    <2>3. ~HasSession(d) /\ Post(d, r, nextKey + 1, nextKey) /\ r = Sealing(r, nextKey + 1)
      BY <1>3, <2>1 DEF PrepareFirstSend, Sealing
    <2>4. PICK t, new, last : Posted(d, r, t, new, last) /\ new.handshake = nextKey
      BY <1>1, <2>1, <2>2, <2>3, PostIs
    <2>5. Begins(d, r, new)
      BY <2>3, <2>4 DEF Begins
    <2>6. Own(d, r)
      BY <1>2, <2>1, <2>2
    <2> QED BY <2>4, <2>5, <2>6
  <1>4. CASE PrepareSend(d)
    <2> PICK s : s = sessions[d]
      OBVIOUS
    <2> PICK r : r = Sealing(s, nextKey)
      OBVIOUS
    <2>1. HasSession(d) /\ Post(d, s, nextKey, NoHandshake)
      BY <1>4 DEF PrepareSend
    <2>2. SessionInv(s, nextKey) /\ Tidy(s) /\ Numbered(s)
      BY <2>1 DEF IInv, HasSession, SessionInv, OrderInv
    <2>3. CASE NeedsRotation(s)
      <3>1. /\ ~NeedsRotation(r) /\ r.own = nextKey
            /\ ~RootBelow(r.send.key.root, nextKey)
        BY <1>1, <2>2, <2>3, RotateOnSendInv
      <3>2. r = RotateRatchetOnSend(s, nextKey)
        BY <2>3 DEF Sealing
      <3>3. r.send.key.step = 0 /\ r.send.key.root # <<>>
        <4>1. r.send.key = FirstChainKey(KdfRoot(s.root, DH(nextKey, s.remote)))
          BY <2>2, <3>2 DEF RotateRatchetOnSend, Tidy, Session
        <4>2. ~RootBelow(<<>>, nextKey) => FALSE
          BY DEF RootBelow
        <4> QED BY <3>1, <4>1, <4>2 DEF FirstChainKey
      <3>4. PICK t, new, last : Posted(d, r, t, new, last) /\ new.handshake = NoHandshake
        BY <1>1, <2>1, <2>2, <3>1, <3>3, PostIs
      <3>5. Answers(d, r, new)
        BY <2>1, <2>3, <3>2, <3>4 DEF Answers
      <3>6. Own(d, r)
        BY <1>2, <3>1, <3>3
      <3> QED BY <3>4, <3>5, <3>6
    <2>4. CASE ~NeedsRotation(s)
      <3>1. r = s /\ Sending(d) /\ r.send.key.root # <<>>
        BY <2>1, <2>2, <2>4 DEF Sealing, Sending, HasSession, SessionInv, Below
      <3>2. PICK t, new, last : Posted(d, r, t, new, last) /\ new.handshake = NoHandshake
        <4>1. ~NeedsRotation(r) /\ r.send.key.root # <<>>
          BY <2>4, <3>1
        <4> QED BY <1>1, <2>1, <2>2, <4>1, PostIs
      <3>3. GoesOn(d, r, new)
        BY <3>1, <3>2 DEF GoesOn
      <3>4. Own(d, r)
        BY <3>1 DEF Own, OrderInv, IInv
      <3> QED BY <3>2, <3>3, <3>4
    <2> QED BY <2>3, <2>4
  <1> QED BY <1>3, <1>4

\* The next envelope takes the next number of its chain.
LEMMA PostOrder ==
    ASSUME IInv, IInv', OrderInv, NEW d \in Device, NEW r, NEW t, NEW new, NEW last,
           Posted(d, r, t, new, last), Own(d, r)
    PROVE  OrderInv'
  <1>1. /\ \A i \in DOMAIN sent' : i = last \/ i \in DOMAIN sent
        /\ \A i \in DOMAIN sent : i \in DOMAIN sent' /\ i # last /\ sent'[i] = sent[i]
        /\ last \in DOMAIN sent' /\ sent'[last] = new
    BY DEF Posted
  <1>2. /\ new.from = d /\ new.header.dh = r.own /\ new.key.root = r.send.key.root
        /\ new.key.step = r.send.key.step /\ new.header.n = new.key.step
        /\ r.send.key.step \in Nat
    <2>1. r.send.key.step \in Nat
      BY DEF Posted, Tidy, Session, ChainState, ChainKey
    <2> QED BY <2>1 DEF Posted
  <1>3. \A e \in DOMAIN sessions' : Numbered(sessions'[e])
    BY DEF Posted, OrderInv
  <1>4. ASSUME NEW i \in DOMAIN sent', sent'[i].header.dh = r.own
        PROVE  sent'[i].key.root = r.send.key.root
    BY <1>1, <1>2, <1>4 DEF Own, Chained
  <1>5. ASSUME NEW k \in 0 .. r.send.key.step - 1
        PROVE  \E j \in DOMAIN sent' :
                 /\ sent'[j].from = d /\ sent'[j].header.dh = r.own
                 /\ sent'[j].key.root = r.send.key.root /\ sent'[j].key.step = k
    <2>1. PICK j \in DOMAIN sent :
                 /\ sent[j].from = d /\ sent[j].header.dh = r.own
                 /\ sent[j].key.root = r.send.key.root /\ sent[j].key.step = k
      BY DEF Own, Chained
    <2> QED BY <1>1, <2>1
  <1>6. Ordered(sent')
    <2>1. sent' \in Seq(Envelope)
          /\ \A i, j \in DOMAIN sent' : sent'[i].key = sent'[j].key => i = j
      BY DEF IInv, KeyUniqueness
    <2>2. \A i \in DOMAIN sent' : sent'[i].header.n = sent'[i].key.step
      BY <1>1, <1>2 DEF OrderInv, Ordered
    <2>3. ASSUME NEW i \in DOMAIN sent', NEW j \in DOMAIN sent',
                 sent'[i].header.dh = sent'[j].header.dh
          PROVE  sent'[i].key.root = sent'[j].key.root
      <3>1. CASE i = last \/ j = last
        BY <1>1, <1>2, <1>4, <2>3, <3>1
      <3>2. CASE i # last /\ j # last
        BY <1>1, <2>3, <3>2 DEF OrderInv, Ordered
      <3> QED BY <3>1, <3>2
    <2>4. ASSUME NEW i \in DOMAIN sent', NEW k \in 0 .. sent'[i].key.step - 1
          PROVE  \E j \in DOMAIN sent' :
                   /\ sent'[j].from = sent'[i].from /\ sent'[j].header.dh = sent'[i].header.dh
                   /\ sent'[j].key.root = sent'[i].key.root /\ sent'[j].key.step = k
      <3>1. CASE i = last
        <4>1. k \in 0 .. r.send.key.step - 1
          BY <1>1, <1>2, <3>1
        <4> QED BY <1>1, <1>2, <1>5, <3>1, <4>1
      <3>2. CASE i # last
        <4>1. i \in DOMAIN sent /\ sent'[i] = sent[i]
          BY <1>1, <3>2
        <4>2. PICK j \in DOMAIN sent :
                   /\ sent[j].from = sent[i].from /\ sent[j].header.dh = sent[i].header.dh
                   /\ sent[j].key.root = sent[i].key.root /\ sent[j].key.step = k
          BY <4>1 DEF OrderInv, Ordered
        <4> QED BY <1>1, <4>1, <4>2
      <3> QED BY <3>1, <3>2
    <2> QED BY <2>1, <2>2, <2>3, <2>4 DEF Ordered
  <1>7. ASSUME NEW e \in Device, Sending(e)' PROVE Chained(e, sessions'[e], sent')
    <2>1. CASE e = d
      <3>1. /\ sessions'[e] = t /\ t.own = r.own /\ t.send.key.root = r.send.key.root
            /\ t.send.key.step = r.send.key.step + 1
        BY <2>1 DEF Posted
      <3>2. ASSUME NEW k \in 0 .. t.send.key.step - 1
            PROVE  \E j \in DOMAIN sent' :
                     /\ sent'[j].from = d /\ sent'[j].header.dh = r.own
                     /\ sent'[j].key.root = r.send.key.root /\ sent'[j].key.step = k
        <4>1. CASE k = r.send.key.step
          BY <1>1, <1>2, <4>1
        <4>2. CASE k # r.send.key.step
          <5>1. k \in 0 .. r.send.key.step - 1
            BY <1>2, <3>1, <4>2
          <5> QED BY <1>5, <5>1
        <4> QED BY <4>1, <4>2
      <3> QED BY <1>4, <2>1, <3>1, <3>2 DEF Chained
    <2>2. CASE e # d
      <3>1. Sending(e) /\ sessions'[e] = sessions[e]
        BY <1>7, <2>2 DEF Sending, Posted
      <3>2. Chained(e, sessions[e], sent) /\ r.own # sessions[e].own
        BY <2>2, <3>1 DEF OrderInv, Own
      <3>3. \A i \in DOMAIN sent' : sent'[i].header.dh = sessions[e].own =>
               i \in DOMAIN sent /\ sent'[i] = sent[i]
        BY <1>1, <1>2, <3>2
      <3> QED BY <1>1, <3>1, <3>2, <3>3 DEF Chained
    <2> QED BY <2>1, <2>2
  <1>8. \A i \in DOMAIN verdicts' : Len(verdicts'[i]) <= MaxDeliveries
    <2>1. Len(<<>>) <= MaxDeliveries
      BY ConversationAssumption
    <2> QED BY <1>1, <2>1 DEF Posted, OrderInv
  <1> QED BY <1>3, <1>6, <1>7, <1>8 DEF OrderInv

\* d has handled envelope i in the session s, which becomes out.session.
Handled(d, i, s, out) ==
    /\ ~Refused(d, sent[i]) /\ s = Receiving(d, sent[i])
    /\ out \in Decrypt(s, sent[i])
    /\ DOMAIN sessions' = DOMAIN sessions \cup {d} /\ sessions'[d] = out.session
    /\ \A e \in DOMAIN sessions : e # d => sessions'[e] = sessions[e]
    /\ UNCHANGED sent
    /\ DOMAIN verdicts' = DOMAIN verdicts
    /\ verdicts'[i] = Append(verdicts[i], out.result)
    /\ verdicts'[i] # <<>>
    /\ verdicts'[i][Len(verdicts'[i])] = out.result /\ Len(verdicts'[i]) \in DOMAIN verdicts'[i]
    /\ Len(verdicts'[i]) <= MaxDeliveries
    /\ \A j \in DOMAIN sent : j # i => verdicts'[j] = verdicts[j]

\* Envelope i brought no handshake to a device without a session.
TurnedAway(i) ==
    /\ UNCHANGED <<sessions, sent>>
    /\ DOMAIN verdicts' = DOMAIN verdicts
    /\ Len(verdicts'[i]) <= MaxDeliveries
    /\ \A j \in DOMAIN sent : j # i => verdicts'[j] = verdicts[j]

\* A history with one more verdict.
LEMMA AppendOne ==
    ASSUME NEW q \in Seq(Results), NEW x
    PROVE  /\ Append(q, x) # <<>> /\ Len(Append(q, x)) = Len(q) + 1 /\ Len(q) \in Nat
           /\ Append(q, x)[Len(q) + 1] = x /\ Len(q) + 1 \in DOMAIN Append(q, x)
           /\ \A k \in DOMAIN q : k \in DOMAIN Append(q, x) /\ Append(q, x)[k] = q[k]
  OBVIOUS

\* What HandleInbound does, in the terms of Handled.
LEMMA HandleIs ==
    ASSUME IInv, SecretInv, NEW d \in Device, NEW i \in DOMAIN sent, HandleInbound(d, i)
    PROVE  /\ \/ Refused(d, sent[i]) /\ TurnedAway(i)
              \/ \E s, out : Handled(d, i, s, out)
           /\ \A j \in DOMAIN verdicts : \A k \in DOMAIN verdicts[j] :
                k \in DOMAIN verdicts'[j] /\ verdicts'[j][k] = verdicts[j][k]
  <1>1. /\ verdicts \in Seq(Seq(Results)) /\ i \in DOMAIN verdicts
        /\ DOMAIN verdicts = DOMAIN sent /\ verdicts[i] \in Seq(Results)
        /\ Len(verdicts[i]) < MaxDeliveries /\ MaxDeliveries \in Nat
    <2>1. verdicts \in Seq(Seq(Results)) /\ DOMAIN verdicts = DOMAIN sent
          /\ i \in DOMAIN verdicts
      BY DEF IInv, SecretInv
    <2>2. verdicts[i] \in Seq(Results)
      BY <2>1
    <2>3. Len(verdicts[i]) < MaxDeliveries /\ MaxDeliveries \in Nat
      BY ConversationAssumption DEF HandleInbound
    <2> QED BY <2>1, <2>2, <2>3
  <1>2. ASSUME NEW x, verdicts' = [verdicts EXCEPT ![i] = Append(@, x)]
        PROVE  /\ DOMAIN verdicts' = DOMAIN verdicts
               /\ verdicts'[i] = Append(verdicts[i], x) /\ verdicts'[i] # <<>>
               /\ verdicts'[i][Len(verdicts'[i])] = x
               /\ Len(verdicts'[i]) \in DOMAIN verdicts'[i]
               /\ Len(verdicts'[i]) <= MaxDeliveries
               /\ \A j \in DOMAIN sent : j # i => verdicts'[j] = verdicts[j]
               /\ \A j \in DOMAIN verdicts : \A k \in DOMAIN verdicts[j] :
                    k \in DOMAIN verdicts'[j] /\ verdicts'[j][k] = verdicts[j][k]
    <2>1. /\ DOMAIN verdicts' = DOMAIN verdicts
          /\ verdicts'[i] = Append(verdicts[i], x)
          /\ \A j \in DOMAIN sent : j # i => verdicts'[j] = verdicts[j]
      BY <1>1, <1>2
    <2> PICK q : q = verdicts[i]
      OBVIOUS
    <2>2. q \in Seq(Results) /\ verdicts'[i] = Append(q, x)
      BY <1>1, <2>1
    <2>3. /\ Append(q, x) # <<>> /\ Len(Append(q, x)) = Len(q) + 1 /\ Len(q) \in Nat
          /\ Append(q, x)[Len(q) + 1] = x /\ Len(q) + 1 \in DOMAIN Append(q, x)
          /\ \A k \in DOMAIN q : k \in DOMAIN Append(q, x) /\ Append(q, x)[k] = q[k]
      BY <2>2, AppendOne
    <2>4. \A j \in DOMAIN verdicts : \A k \in DOMAIN verdicts[j] :
             k \in DOMAIN verdicts'[j] /\ verdicts'[j][k] = verdicts[j][k]
      BY <1>1, <2>1, <2>2, <2>3
    <2> QED BY <1>1, <2>1, <2>2, <2>3, <2>4
  <1>3. UNCHANGED sent
    BY DEF HandleInbound
  <1>4. CASE /\ Refused(d, sent[i]) /\ UNCHANGED sessions
             /\ verdicts' = [verdicts EXCEPT ![i] = Append(@, "no handshake")]
    <2> PICK x : x = "no handshake"
      OBVIOUS
    <2>1. verdicts' = [verdicts EXCEPT ![i] = Append(@, x)]
      BY <1>4
    <2> QED BY <1>2, <1>3, <1>4, <2>1 DEF TurnedAway
  <1>5. ASSUME NEW out \in Decrypt(Receiving(d, sent[i]), sent[i]),
               ~Refused(d, sent[i]), StoreSession(d, out.session),
               verdicts' = [verdicts EXCEPT ![i] = Append(@, out.result)]
        PROVE  \E s : Handled(d, i, s, out)
    <2>1. /\ DOMAIN sessions' = DOMAIN sessions \cup {d} /\ sessions'[d] = out.session
          /\ \A e \in DOMAIN sessions : e # d => sessions'[e] = sessions[e]
      BY <1>5 DEF StoreSession
    <2> PICK s : s = Receiving(d, sent[i])
      OBVIOUS
    <2> PICK x : x = out.result
      OBVIOUS
    <2>2. verdicts' = [verdicts EXCEPT ![i] = Append(@, x)]
      BY <1>5
    <2>3. Handled(d, i, s, out)
      BY <1>2, <1>3, <1>5, <2>1, <2>2 DEF Handled
    <2> QED BY <2>3
  <1>6. CASE \E out \in Decrypt(Receiving(d, sent[i]), sent[i]) :
               /\ ~Refused(d, sent[i]) /\ StoreSession(d, out.session)
               /\ verdicts' = [verdicts EXCEPT ![i] = Append(@, out.result)]
    <2> PICK out \in Decrypt(Receiving(d, sent[i]), sent[i]) :
               /\ ~Refused(d, sent[i]) /\ StoreSession(d, out.session)
               /\ verdicts' = [verdicts EXCEPT ![i] = Append(@, out.result)]
      BY <1>6
    <2> PICK x : x = out.result
      OBVIOUS
    <2>1. verdicts' = [verdicts EXCEPT ![i] = Append(@, x)]
      OBVIOUS
    <2> QED BY <1>2, <1>5, <2>1
  <1> QED BY <1>4, <1>6 DEF HandleInbound

\* The session in which d handles an envelope.
LEMMA ReceivingIs ==
    ASSUME IInv, OrderInv, NEW d \in Device, NEW i \in DOMAIN sent
    PROVE  LET s == Receiving(d, sent[i]) IN
           /\ SessionInv(s, nextKey) /\ Tidy(s) /\ Numbered(s)
           /\ HasSession(d) => s = sessions[d]
           /\ ~HasSession(d) => NeedsRotation(s)
  <1> PICK s : s = Receiving(d, sent[i])
    OBVIOUS
  <1>1. CASE HasSession(d)
    BY <1>1 DEF Receiving, IInv, HasSession, OrderInv, SessionInv
  <1>2. CASE ~HasSession(d)
    <2>1. s = AcceptSession(d, sent[i].handshake)
      BY <1>2 DEF Receiving
    <2>2. d \in Nat /\ d < nextKey /\ nextKey \in Nat
      BY DEF Device, IInv
    <2>3. sent[i].handshake \in Nat /\ sent[i].handshake < nextKey
      BY DEF IInv, EnvelopeInv, Envelope
    <2>4. SessionInv(s, nextKey) /\ NeedsRotation(s)
      BY <2>1, <2>2, <2>3, AcceptSessionInv
    <2> QED BY <1>2, <2>1, <2>4, FirstNumbered DEF SessionInv
  <1> QED BY <1>1, <1>2

\* Storing a session that sends as before, or not at all.
LEMMA StoreOrder ==
    ASSUME IInv', OrderInv, NEW d \in Device, NEW t, Numbered(t), UNCHANGED sent,
           DOMAIN sessions' = DOMAIN sessions \cup {d}, sessions'[d] = t,
           \A e \in DOMAIN sessions : e # d => sessions'[e] = sessions[e],
           \/ NeedsRotation(t)
           \/ HasSession(d) /\ t.send = sessions[d].send /\ t.own = sessions[d].own,
           \A j \in DOMAIN verdicts' : Len(verdicts'[j]) <= MaxDeliveries
    PROVE  OrderInv'
  <1>1. \A e \in DOMAIN sessions' : Numbered(sessions'[e])
    BY DEF OrderInv
  <1>2. Ordered(sent')
    BY DEF OrderInv
  <1>3. ASSUME NEW e \in Device, Sending(e)' PROVE Chained(e, sessions'[e], sent')
    <2>1. Sending(e) /\ sessions'[e].send = sessions[e].send /\ sessions'[e].own = sessions[e].own
      BY <1>3 DEF Sending, HasSession, NeedsRotation
    <2>2. Chained(e, sessions[e], sent)
      BY <2>1 DEF OrderInv
    <2> QED BY <2>1, <2>2 DEF Chained
  <1> QED BY <1>1, <1>2, <1>3 DEF OrderInv

\* Receiving posts nothing, and the session it leaves is numbered.
LEMMA HandleOrder ==
    ASSUME IInv, IInv', SecretInv, OrderInv, NEW d \in Device, NEW i \in DOMAIN sent,
           HandleInbound(d, i)
    PROVE  OrderInv'
  <1>1. CASE TurnedAway(i)
    <2>1. \A j \in DOMAIN verdicts' : Len(verdicts'[j]) <= MaxDeliveries
      BY <1>1 DEF TurnedAway, OrderInv, SecretInv
    <2>2. UNCHANGED <<sessions, sent>>
      BY <1>1 DEF TurnedAway
    <2>3. /\ \A e \in DOMAIN sessions' : Numbered(sessions'[e])
          /\ Ordered(sent')
      BY <2>2 DEF OrderInv
    <2>4. \A e \in Device : Sending(e)' => Chained(e, sessions'[e], sent')
      BY <2>2 DEF OrderInv, Sending
    <2> QED BY <2>1, <2>3, <2>4 DEF OrderInv
  <1>2. ASSUME NEW s, NEW out, Handled(d, i, s, out) PROVE OrderInv'
    <2>1. /\ Tidy(s) /\ Numbered(s) /\ (HasSession(d) => s = sessions[d])
          /\ ~HasSession(d) => NeedsRotation(s)
      BY <1>2, ReceivingIs DEF Handled
    <2>2. sent[i].header \in Header
      BY DEF IInv, EnvelopeInv, Envelope
    <2>3. Numbered(out.session) /\ SendsAs(out.session, s)
      BY <1>2, <2>1, <2>2, DecryptNumbered, DecryptSends DEF Handled
    <2>4. \A j \in DOMAIN verdicts' : Len(verdicts'[j]) <= MaxDeliveries
      BY <1>2 DEF Handled, OrderInv, SecretInv
    <2>5. \/ NeedsRotation(out.session)
          \/ /\ HasSession(d)
             /\ out.session.send = sessions[d].send /\ out.session.own = sessions[d].own
      BY <2>1, <2>3 DEF SendsAs, NeedsRotation
    <2> QED BY <1>2, <2>3, <2>4, <2>5, StoreOrder DEF Handled
  <1> QED BY <1>1, <1>2, HandleIs

\* Nor does a reload.
LEMMA ReloadOrder ==
    ASSUME IInv, IInv', OrderInv, NEW d \in Device, Reload(d)
    PROVE  OrderInv'
  <1> PICK t : t = ExportImport(sessions[d])
    OBVIOUS
  <1>1. /\ HasSession(d) /\ StoreSession(d, t) /\ UNCHANGED <<sent, verdicts>>
    BY DEF Reload
  <1>2. Tidy(sessions[d]) /\ Numbered(sessions[d])
    BY <1>1 DEF HasSession, IInv, SessionInv, OrderInv
  <1>3. Numbered(t) /\ SendsAs(t, sessions[d])
    BY <1>2, ExportNumbered, ExportSends
  <1>4. /\ DOMAIN sessions' = DOMAIN sessions \cup {d} /\ sessions'[d] = t
        /\ \A e \in DOMAIN sessions : e # d => sessions'[e] = sessions[e]
    BY <1>1 DEF StoreSession
  <1>5. \A j \in DOMAIN verdicts' : Len(verdicts'[j]) <= MaxDeliveries
    BY <1>1 DEF OrderInv
  <1> QED BY <1>1, <1>3, <1>4, <1>5, StoreOrder DEF SendsAs

\* Nothing was posted at first.
LEMMA InitOrder == Init => OrderInv
  BY DEF Init, OrderInv, Ordered, Sending

\* Every step keeps the histories in order.
LEMMA NextOrder == IInv /\ IInv' /\ SecretInv /\ OrderInv /\ [Next]_vars => OrderInv'
  <1> SUFFICES ASSUME IInv, IInv', SecretInv, OrderInv, [Next]_vars PROVE OrderInv'
    OBVIOUS
  <1>1. ASSUME NEW d \in Device, PrepareFirstSend(d) \/ PrepareSend(d) PROVE OrderInv'
    BY <1>1, SendIs, PostOrder
  <1>2. ASSUME NEW d \in Device, HandleEnvelope(d) PROVE OrderInv'
    BY <1>2, HandleOrder DEF HandleEnvelope, Waiting
  <1>3. ASSUME NEW d \in Device, HandleAgain(d) PROVE OrderInv'
    BY <1>3, HandleOrder DEF HandleAgain, HandedOver
  <1>4. ASSUME NEW d \in Device, Reload(d) PROVE OrderInv'
    BY <1>4, ReloadOrder
  <1>5. CASE UNCHANGED vars
    <2>1. UNCHANGED <<sessions, sent, verdicts>>
      BY <1>5 DEF vars
    <2>2. /\ \A e \in DOMAIN sessions' : Numbered(sessions'[e])
          /\ Ordered(sent')
          /\ \A i \in DOMAIN verdicts' : Len(verdicts'[i]) <= MaxDeliveries
      BY <2>1 DEF OrderInv
    <2>3. \A e \in Device : Sending(e)' => Chained(e, sessions'[e], sent')
      BY <2>1 DEF OrderInv, Sending
    <2> QED BY <2>2, <2>3 DEF OrderInv
  <1> QED BY <1>1, <1>2, <1>3, <1>4, <1>5 DEF Next

-----------------------------------------------------------------------------
(* The two sessions stay linked, whoever sends, receives or reloads.       *)

\* The two sessions of a conversation that both devices have joined.
InStep(s, r) == Turned(s, r) \/ Ahead(s, r) \/ Turned(r, s) \/ Ahead(r, s)

\* t is s after it sent on its chain.
SentOn(t, s) ==
    /\ t.root = s.root /\ t.own = s.own /\ t.remote = s.remote /\ t.recv = s.recv
    /\ t.skipped = s.skipped
    /\ t.send.key.root = s.send.key.root /\ t.send.key.step = s.send.key.step + 1
    /\ ~NeedsRotation(t)

\* S2 and V2 are S and V after new was posted.
Extended(S, V, S2, V2, new) ==
    /\ S \in Seq(Envelope) /\ S2 \in Seq(Envelope) /\ DOMAIN V = DOMAIN S
    /\ DOMAIN S2 = 1 .. Len(S) + 1 /\ S2[Len(S) + 1] = new /\ V2[Len(S) + 1] = <<>>
    /\ \A i \in DOMAIN S : S2[i] = S[i] /\ V2[i] = V[i]

\* An envelope of one device changes nothing about those of the other.
LEMMA OthersStay ==
    ASSUME NEW S, NEW V, NEW S2, NEW V2, NEW new, Extended(S, V, S2, V2, new),
           NEW y, new.from # y
    PROVE  /\ PostedBy(S2, y) = PostedBy(S, y)
           /\ \A i \in PostedBy(S, y) : S2[i] = S[i] /\ V2[i] = V[i]
           /\ \A i \in PostedBy(S, y) : Outrun(S, V, i) => Outrun(S2, V2, i)
  <1>1. /\ Len(S) \in Nat /\ DOMAIN S = 1 .. Len(S) /\ Len(S) + 1 \notin DOMAIN S
        /\ \A i \in DOMAIN S2 : i = Len(S) + 1 \/ i \in DOMAIN S
        /\ DOMAIN S \subseteq DOMAIN S2
    BY DEF Extended
  <1>2. \A i \in DOMAIN S : S2[i] = S[i] /\ V2[i] = V[i]
    BY DEF Extended
  <1>3. S2[Len(S) + 1].from # y
    BY DEF Extended
  <1>4. PostedBy(S2, y) = PostedBy(S, y)
    BY <1>1, <1>2, <1>3 DEF PostedBy
  <1>5. \A i \in PostedBy(S, y) : Outrun(S, V, i) => Outrun(S2, V2, i)
    BY <1>1, <1>2 DEF Outrun, PostedBy
  <1> QED BY <1>2, <1>4, <1>5 DEF PostedBy

\* The types of a tidy session.
LEMMA SessionTypes ==
    ASSUME NEW s, Tidy(s)
    PROVE  /\ s.root \in RootKey /\ s.root # <<>> /\ s.own \in Nat /\ s.remote \in Nat
           /\ s.send.key \in ChainKey /\ s.recv.key \in ChainKey
           /\ s.send.key.step \in Nat /\ s.recv.key.step \in Nat /\ s \in Session
           /\ Behind(s.recv.key, s.root)
  BY DEF Tidy, Session, ChainState, ChainKey, KeyPair

\* x sends on the chain it has.
LEMMA SendOn ==
    ASSUME NEW x, NEW y, x # y, NEW s, NEW r, Tidy(s), Tidy(r), ~NeedsRotation(s),
           NEW t, SentOn(t, s), NEW S, NEW V, NEW S2, NEW V2, NEW new,
           Extended(S, V, S2, V2, new),
           new.from = x, new.header.dh = s.own, new.key = s.send.key,
           InStep(s, r), Link(x, s, r, S, V), Link(y, r, s, S, V)
    PROVE  InStep(t, r) /\ Link(x, t, r, S2, V2) /\ Link(y, r, t, S2, V2)
  <1>1. /\ Ahead(t, r) <=> Ahead(s, r)
        /\ Ahead(r, t) <=> Ahead(r, s)
        /\ Turned(t, r) <=> Turned(s, r)
    BY DEF Ahead, Turned, SentOn, NeedsRotation
  <1>2. CASE Turned(r, s)
    BY <1>2 DEF Turned
  <1>3. CASE Turned(s, r) \/ Ahead(s, r) \/ Ahead(r, s)
    <2>1. InStep(t, r)
      BY <1>1, <1>3 DEF InStep
    <2>2. Link(y, r, t, S2, V2)
      <3>1. \A i \in PostedBy(S, y) : Coming(S[i], r, t) <=> Coming(S[i], r, s)
        BY <1>1 DEF Coming
      <3>2. /\ PostedBy(S2, y) = PostedBy(S, y)
            /\ \A i \in PostedBy(S, y) : S2[i] = S[i] /\ V2[i] = V[i]
            /\ \A i \in PostedBy(S, y) : Outrun(S, V, i) => Outrun(S2, V2, i)
        BY OthersStay
      <3>3. t.root = s.root /\ t.remote = s.remote /\ t.recv = s.recv /\ t.skipped = s.skipped
        BY DEF SentOn
      <3>4. ~NeedsRotation(r) /\ r.send.key.root = s.recv.key.root =>
               s.recv.key.step <= r.send.key.step
        BY DEF Link
      <3>5. S \in Seq(Envelope)
        BY DEF Extended
      <3> QED BY <3>1, <3>2, <3>3, <3>4, <3>5, LinkStays
    <2>3. Fits(new, t, r)
      <3>1. CASE Turned(s, r)
        <4>1. Current(new, r) /\ ~Ahead(s, r)
          BY <3>1 DEF Turned, Current, Ahead
        <4>2. new.key.root = r.root /\ r.root \in RootKey
          BY <3>1, SessionTypes DEF Turned
        <4>3. Behind(new.key, r.root)
          BY <4>2, FirstBehind
        <4>4. ~(new.key.step < r.recv.key.step)
          BY <3>1, SessionTypes DEF Turned, Link
        <4> QED BY <1>1, <4>1, <4>3, <4>4 DEF Fits
      <3>2. CASE Ahead(s, r)
        BY <1>1, <3>2 DEF Fits, Coming, Ahead, SentOn
      <3>3. CASE Ahead(r, s)
        <4>1. Current(new, r) /\ ~Ahead(s, r)
          BY <3>3 DEF Ahead, Current
        <4>2. /\ new.key.root = s.root /\ s.root \in RootKey /\ s.root # <<>>
              /\ new.key \in ChainKey /\ r.root = KdfRoot(s.root, DH(r.own, s.own))
              /\ r.own \in Nat /\ s.own \in Nat
          BY <3>3, SessionTypes DEF Ahead
        <4>3. Behind(new.key, s.root)
          BY <4>2, FirstBehind
        <4>4. Behind(new.key, r.root)
          BY <4>2, <4>3, KdfLonger
        <4>5. ~(new.key.step < r.recv.key.step)
          BY <3>3, SessionTypes DEF Ahead, Link
        <4> QED BY <1>1, <4>1, <4>4, <4>5 DEF Fits
      <3> QED BY <1>3, <3>1, <3>2, <3>3
    <2>4. ~NeedsRotation(t) /\ t.send.key.root = r.recv.key.root =>
              r.recv.key.step <= t.send.key.step
      BY SessionTypes DEF Link, SentOn
    <2>5. \A i \in PostedBy(S, x) : Coming(S[i], t, r) <=> Coming(S[i], s, r)
      BY <1>1 DEF Coming, SentOn
    <2>6. Link(x, t, r, S2, V2)
      <3> PICK last : last = Len(S) + 1
        OBVIOUS
      <3>1. /\ S \in Seq(Envelope) /\ S2 \in Seq(Envelope) /\ DOMAIN V = DOMAIN S
            /\ DOMAIN S2 = 1 .. last /\ S2[last] = new /\ V2[last] = <<>>
            /\ \A i \in DOMAIN S : S2[i] = S[i] /\ V2[i] = V[i]
        BY DEF Extended
      <3> QED BY <2>3, <2>4, <2>5, <3>1, LinkPost
    <2> QED BY <2>1, <2>2, <2>6
  <1> QED BY <1>2, <1>3 DEF InStep

\* y answers with a new ratchet key.
LEMMA SendAnswer ==
    ASSUME NEW x, NEW y, x # y, NEW s, NEW r, Tidy(s), Tidy(r), NeedsRotation(r),
           NEW fresh \in Nat, fresh # r.own,
           NEW t, SentOn(t, RotateRatchetOnSend(r, fresh)),
           NEW S, NEW V, NEW S2, NEW V2, NEW new, Extended(S, V, S2, V2, new),
           \A i \in DOMAIN S : S[i].header.dh # fresh,
           new.from = y, new.header.dh = fresh,
           new.key = RotateRatchetOnSend(r, fresh).send.key,
           InStep(s, r), Link(x, s, r, S, V), Link(y, r, s, S, V)
    PROVE  InStep(t, s) /\ Link(x, s, t, S2, V2) /\ Link(y, t, s, S2, V2)
  <1>1. Turned(s, r)
    BY DEF InStep, Turned, Ahead
  <1> PICK root : root = KdfRoot(r.root, DH(fresh, r.remote))
    OBVIOUS
  <1>2. /\ root \in RootKey /\ root # <<>>
        /\ \A k \in ChainKey : Behind(k, r.root) => Behind(k, root) /\ k.root # root
    BY SessionTypes, KdfLonger
  <1>3. /\ t.root = root /\ t.own = fresh /\ t.remote = r.remote /\ t.recv = r.recv
        /\ t.skipped = r.skipped /\ t.send.key.root = root /\ ~NeedsRotation(t)
        /\ new.key.root = root
    BY SessionTypes DEF SentOn, RotateRatchetOnSend, Session, FirstChainKey
  <1>4. Ahead(t, s) /\ ~Ahead(r, s) /\ ~Ahead(s, r) /\ ~Ahead(s, t)
    BY <1>1, <1>3 DEF Ahead, Turned
  <1>5. InStep(t, s)
    BY <1>4 DEF InStep
  <1>6. Link(y, t, s, S2, V2)
    <2>1. \A i \in PostedBy(S, y) : Coming(S[i], t, s) <=> Coming(S[i], r, s)
      BY <1>3, <1>4 DEF Coming, PostedBy
    <2>2. Fits(new, t, s)
      BY <1>3, <1>4 DEF Coming, Fits
    <2>3. t.send.key.root # s.recv.key.root
      BY <1>1, <1>2, <1>3, SessionTypes DEF Turned
    <2> PICK last : last = Len(S) + 1
      OBVIOUS
    <2>4. /\ S \in Seq(Envelope) /\ S2 \in Seq(Envelope) /\ DOMAIN V = DOMAIN S
          /\ DOMAIN S2 = 1 .. last /\ S2[last] = new /\ V2[last] = <<>>
          /\ \A i \in DOMAIN S : S2[i] = S[i] /\ V2[i] = V[i]
      BY DEF Extended
    <2> QED BY <2>1, <2>2, <2>3, <2>4, LinkPost
  <1>7. Link(x, s, t, S2, V2)
    <2>1. \A i \in PostedBy(S, x) : Coming(S[i], s, t) <=> Coming(S[i], s, r)
      BY <1>4 DEF Coming
    <2>2. /\ PostedBy(S2, x) = PostedBy(S, x)
          /\ \A i \in PostedBy(S, x) : S2[i] = S[i] /\ V2[i] = V[i]
          /\ \A i \in PostedBy(S, x) : Outrun(S, V, i) => Outrun(S2, V2, i)
      BY OthersStay
    <2>3. S \in Seq(Envelope)
      BY DEF Extended
    <2>4. ASSUME NEW i \in PostedBy(S, x), Behind(S[i].key, r.root)
          PROVE  Behind(S[i].key, t.root)
      <3>1. S[i] \in Envelope
        BY <2>3 DEF PostedBy
      <3>2. S[i].key \in ChainKey
        BY <3>1 DEF Envelope
      <3> QED BY <1>2, <1>3, <2>4, <3>2
    <2>5. ~NeedsRotation(s) /\ s.send.key.root = r.recv.key.root =>
             r.recv.key.step <= s.send.key.step
      BY DEF Link
    <2> QED BY <1>3, <2>1, <2>2, <2>3, <2>4, <2>5, LinkStays
  <1> QED BY <1>5, <1>6, <1>7

\* y handles an envelope of x.
LEMMA HandleInStep ==
    ASSUME NEW x, NEW y, NEW s, NEW r, NEW S, NEW V, Ordered(S),
           Tidy(s), Tidy(r), Numbered(r), ~NeedsRotation(s) => ChainInv(s, S),
           ~NeedsRotation(s) => Chained(x, s, S),
           InStep(s, r), Link(x, s, r, S, V), Link(y, r, s, S, V),
           NEW i \in PostedBy(S, x), NEW out \in Decrypt(r, S[i]), out.result # "failed",
           NEW V2, Judged(S, V, V2, i)
    PROVE  LET t == out.session IN
           InStep(t, s) /\ Link(x, s, t, S, V2) /\ Link(y, t, s, S, V2)
  <1> PICK t : t = out.session
    OBVIOUS
  <1>1. S \in Seq(Envelope) /\ s.send.key.step \in Nat
    BY SessionTypes DEF Ordered
  <1>2. /\ \A j \in PostedBy(S, y) : V2[j] = <<>> => V[j] = <<>>
        /\ \A j \in PostedBy(S, y) : Outrun(S, V, j) => Outrun(S, V2, j)
    BY JudgedGrows DEF PostedBy
  <1>3. CASE SkippedFor(r, S[i].header) # {} \/ S[i].header.dh = r.remote
    <2>1. SameChains(t, r) /\ Link(x, s, t, S, V2)
      BY <1>1, <1>3, ReceiveCurrent
    <2>2. /\ Ahead(s, t) <=> Ahead(s, r)
          /\ Ahead(t, s) <=> Ahead(r, s)
          /\ Turned(s, t) <=> Turned(s, r)
          /\ Turned(t, s) <=> Turned(r, s)
      BY <2>1 DEF SameChains, Ahead, Turned, NeedsRotation
    <2>3. InStep(t, s)
      BY <2>2 DEF InStep
    <2>4. \A j \in PostedBy(S, y) : Coming(S[j], t, s) <=> Coming(S[j], r, s)
      BY <2>1, <2>2 DEF Coming, SameChains
    <2>5. ~NeedsRotation(t) /\ t.send.key.root = s.recv.key.root =>
             s.recv.key.step <= t.send.key.step
      BY <2>1 DEF SameChains, Link, NeedsRotation
    <2>6. Link(y, t, s, S, V2)
      BY <1>1, <1>2, <2>4, <2>5, LinkStays
    <2> QED BY <2>1, <2>3, <2>6
  <1>4. CASE SkippedFor(r, S[i].header) = {} /\ S[i].header.dh # r.remote
    <2>1. /\ Coming(S[i], s, r) /\ Turned(s, t) /\ t.own = r.own
          /\ Link(x, s, t, S, V2)
      BY <1>1, <1>4, ReceiveComing DEF Chained
    <2>2. NeedsRotation(t) /\ ~Ahead(t, s) /\ ~Ahead(r, s)
      BY <2>1 DEF Coming, Ahead, Turned
    <2>3. \A j \in PostedBy(S, y) : Coming(S[j], t, s) <=> Coming(S[j], r, s)
      BY <2>2 DEF Coming
    <2>4. Link(y, t, s, S, V2)
      BY <1>1, <1>2, <2>2, <2>3, LinkStays
    <2> QED BY <2>1, <2>4 DEF InStep
  <1> QED BY <1>3, <1>4

\* y loses what it kept.
LEMMA ReloadInStep ==
    ASSUME NEW x, NEW y, NEW s, NEW r, NEW S, NEW V, S \in Seq(Envelope), Tidy(r),
           InStep(s, r), Link(x, s, r, S, V), Link(y, r, s, S, V)
    PROVE  LET t == ExportImport(r) IN
           InStep(t, s) /\ Link(x, s, t, S, V) /\ Link(y, t, s, S, V)
  <1> PICK t : t = ExportImport(r)
    OBVIOUS
  <1> PICK st : st = {[e EXCEPT !.mangled = TRUE] : e \in r.skipped}
    OBVIOUS
  <1>1. /\ t.root = r.root /\ t.own = r.own /\ t.remote = r.remote /\ t.send = r.send
        /\ t.recv = r.recv /\ t.skipped = st
    BY SessionTypes DEF ExportImport, Session
  <1>2. /\ Ahead(s, t) <=> Ahead(s, r)
        /\ Ahead(t, s) <=> Ahead(r, s)
        /\ Turned(s, t) <=> Turned(s, r)
        /\ Turned(t, s) <=> Turned(r, s)
    BY <1>1 DEF Ahead, Turned, NeedsRotation
  <1>3. InStep(t, s)
    BY <1>2 DEF InStep
  <1>4. Link(y, t, s, S, V)
    <2>1. \A j \in PostedBy(S, y) : Coming(S[j], t, s) <=> Coming(S[j], r, s)
      BY <1>1, <1>2 DEF Coming
    <2>2. ~NeedsRotation(t) /\ t.send.key.root = s.recv.key.root =>
             s.recv.key.step <= t.send.key.step
      BY <1>1 DEF Link, NeedsRotation
    <2> QED BY <2>1, <2>2, LinkStays
  <1>5. \A f \in st : \E e \in r.skipped : f.key = e.key /\ f.dh = e.dh /\ f.mangled
    BY SessionTypes DEF Session, SkippedEntry
  <1>6. \A j \in PostedBy(S, x) : Coming(S[j], s, t) <=> Coming(S[j], s, r)
    BY <1>2 DEF Coming
  <1>7. \A j \in PostedBy(S, x) : Current(S[j], t) <=> Current(S[j], r)
    BY <1>1 DEF Current
  <1>8. ASSUME NEW j \in PostedBy(S, x)
        PROVE  /\ Coming(S[j], s, t) \/ Behind(S[j].key, t.root)
               /\ S[j].header.dh = t.remote => S[j].key.root = t.recv.key.root
               /\ Current(S[j], t) \/ Coming(S[j], s, t) \/ Outrun(S, V, j)
    BY <1>1, <1>6, <1>7 DEF Link
  <1>9. \A j, k \in PostedBy(S, x) : Current(S[j], t) /\ Coming(S[k], s, t) => j < k
    BY <1>6, <1>7 DEF Link
  <1>10. Accounted(x, t, S)
    BY <1>1, <1>5 DEF Link, Accounted
  <1>11. ASSUME HasRoom(x, S), Intact(t) PROVE Kept(x, t, S, V)
    <2>1. r.skipped = {} /\ t.skipped = {}
      BY <1>1, <1>5, <1>11 DEF Intact
    <2>2. Kept(x, r, S, V)
      BY <1>11, <2>1 DEF Intact, Link
    <2> QED BY <1>1, <1>7, <2>1, <2>2 DEF Kept
  <1>12. ~NeedsRotation(s) /\ s.send.key.root = t.recv.key.root =>
             t.recv.key.step <= s.send.key.step
    BY <1>1 DEF Link
  <1>13. Link(x, s, t, S, V)
    BY <1>8, <1>9, <1>10, <1>11, <1>12 DEF Link
  <1> QED BY <1>3, <1>4, <1>13

-----------------------------------------------------------------------------
(* How a conversation begins.                                              *)

\* Nothing failed to decrypt so far.
Unspoilt == \A j \in DOMAIN verdicts : \A k \in DOMAIN verdicts[j] : verdicts[j][k] # "failed"

\* s is the session in which x opened the conversation; nothing was received.
Opened(x, s, S) ==
    /\ s.root = <<DH(s.own, Peer(x))>> /\ s.send.key.root = s.root /\ s.own >= 3
    /\ s.remote = Peer(x) /\ s.skipped = {} /\ s.recv.key = ZeroKey
    /\ \A i \in PostedBy(S, x) :
         /\ S[i].key.root = s.root /\ S[i].header.dh = s.own
         /\ S[i].handshake = NoHandshake \/ S[i].handshake = s.own

\* x opened the conversation, and its peer has received nothing it could read.
Alone(x) == DOMAIN sessions = {x} /\ Opened(x, sessions[x], sent)

\* Both devices opened the conversation, and neither can read the other.
Crossed ==
    /\ DOMAIN sessions = Device
    /\ \A x \in Device : /\ Opened(x, sessions[x], sent)
                         /\ Head(sessions[x].root) # Head(sessions[Peer(x)].root)

\* Each device has a session that reads what the other posts.
Joined ==
    /\ DOMAIN sessions = Device
    /\ \A x \in Device : /\ InStep(sessions[x], sessions[Peer(x)])
                         /\ Link(x, sessions[x], sessions[Peer(x)], sent, verdicts)

Phase == DOMAIN sessions = {} \/ (\E x \in Device : Alone(x)) \/ Crossed \/ Joined

\* The third inductive invariant.
PhaseInv == Unspoilt => Phase

\* There are two devices, and the key pairs of their signed prekeys.
LEMMA Peers ==
    ASSUME NEW d \in Device
    PROVE  /\ Peer(d) \in Device /\ Peer(d) # d /\ Peer(Peer(d)) = d
           /\ \A x \in Device : x = d \/ x = Peer(d)
           /\ Device = {d, Peer(d)} /\ d \in Nat /\ d < 3 /\ Peer(d) \in Nat /\ Peer(d) < 3
  BY DEF Device, Peer

\* Whoever opened the conversation has a chain to send on.
LEMMA OpenedSends ==
    ASSUME NEW x, NEW s, NEW S, Opened(x, s, S)
    PROVE  ~NeedsRotation(s)
  <1>1. s.send.key.root = <<DH(s.own, Peer(x))>>
    BY DEF Opened
  <1>2. \A y : <<y>> # <<>>
    OBVIOUS
  <1>3. s.send.key.root # <<>>
    BY <1>1, <1>2
  <1> QED BY <1>3 DEF NeedsRotation, ZeroKey

\* Whoever opened the conversation posts on.
LEMMA OpenedPost ==
    ASSUME NEW x, NEW s, NEW t, SentOn(t, s), NEW S, NEW V, NEW S2, NEW V2, NEW new,
           Extended(S, V, S2, V2, new), new.from = x, new.header.dh = s.own,
           new.key = s.send.key, new.handshake = NoHandshake \/ new.handshake = s.own,
           Opened(x, s, S)
    PROVE  Opened(x, t, S2)
  <1>1. ASSUME NEW i \in PostedBy(S2, x)
        PROVE  /\ S2[i].key.root = s.root /\ S2[i].header.dh = s.own
               /\ S2[i].handshake = NoHandshake \/ S2[i].handshake = s.own
    <2>1. CASE S2[i] = new
      BY <2>1 DEF Opened
    <2>2. CASE i \in PostedBy(S, x) /\ S2[i] = S[i]
      BY <2>2 DEF Opened
    <2>3. S2[i] = new \/ (i \in PostedBy(S, x) /\ S2[i] = S[i])
      BY DEF Extended, PostedBy
    <2> QED BY <2>1, <2>2, <2>3
  <1> QED BY <1>1 DEF Opened, SentOn

\* What the other posts does not matter to it.
LEMMA OpenedStays ==
    ASSUME NEW x, NEW s, NEW S, NEW V, NEW S2, NEW V2, NEW new,
           Extended(S, V, S2, V2, new), new.from # x, Opened(x, s, S)
    PROVE  Opened(x, s, S2)
  BY OthersStay DEF Opened

\* Posting extends the history and changes one session.
LEMMA PostedIs ==
    ASSUME IInv, IInv', NEW d \in Device, NEW r, NEW t, NEW new, NEW last,
           Posted(d, r, t, new, last)
    PROVE  /\ SentOn(t, r) /\ Extended(sent, verdicts, sent', verdicts', new)
           /\ new.from = d /\ new.header.dh = r.own /\ new.key = r.send.key
           /\ DOMAIN sessions' = DOMAIN sessions \cup {d} /\ sessions'[d] = t
           /\ \A e \in DOMAIN sessions : e # d => sessions'[e] = sessions[e]
           /\ Unspoilt' => Unspoilt
  <1>1. sent \in Seq(Envelope) /\ sent' \in Seq(Envelope)
    BY DEF IInv
  <1>2. Unspoilt' => Unspoilt
    BY DEF Unspoilt, Posted
  <1>3. SentOn(t, r) /\ Extended(sent, verdicts, sent', verdicts', new)
    BY <1>1 DEF SentOn, Extended, Posted
  <1> QED BY <1>2, <1>3 DEF Posted

\* Sending: a first envelope begins Alone or Crossed, an answer and the others
\* keep what they find.
LEMMA SendPhase ==
    ASSUME IInv, IInv', SecretInv, OrderInv, PhaseInv, NEW d \in Device,
           PrepareFirstSend(d) \/ PrepareSend(d)
    PROVE  PhaseInv'
  <1> SUFFICES ASSUME Unspoilt' PROVE Phase'
    BY DEF PhaseInv
  <1>1. PICK r, t, new, last :
             /\ Posted(d, r, t, new, last) /\ Own(d, r)
             /\ \/ Begins(d, r, new) \/ Answers(d, r, new) \/ GoesOn(d, r, new)
    BY SendIs
  <1>2. /\ SentOn(t, r) /\ Extended(sent, verdicts, sent', verdicts', new)
        /\ new.from = d /\ new.header.dh = r.own /\ new.key = r.send.key
        /\ DOMAIN sessions' = DOMAIN sessions \cup {d} /\ sessions'[d] = t
        /\ \A e \in DOMAIN sessions : e # d => sessions'[e] = sessions[e]
        /\ Unspoilt
    BY <1>1, PostedIs
  <1> PICK p : p = Peer(d)
    OBVIOUS
  <1>3. /\ p \in Device /\ p # d /\ Peer(p) = d /\ \A x \in Device : x = d \/ x = p
        /\ Device = {d, p} /\ d \in Nat /\ d < 3 /\ p \in Nat /\ p < 3
    BY Peers
  <1>4. Phase
    BY <1>2 DEF PhaseInv
  <1>5. CASE Begins(d, r, new)
    <2>1. /\ ~HasSession(d) /\ r = InitSession(nextKey, p) /\ new.handshake = nextKey
          /\ nextKey \in Nat /\ nextKey >= 3
      BY <1>5 DEF Begins, IInv
    <2>2. PostedBy(sent, d) = {}
      BY <2>1 DEF PostedBy, SecretInv, HasSession
    <2>3. Opened(d, r, sent) /\ r.own = nextKey /\ r.root = <<DH(nextKey, p)>>
      BY <2>1, <2>2 DEF Opened, InitSession, FirstChainKey
    <2>4. Opened(d, t, sent')
      BY <1>2, <2>1, <2>3, OpenedPost
    <2>5. CASE DOMAIN sessions = {}
      <3>1. Alone(d)'
        BY <1>2, <2>4, <2>5 DEF Alone
      <3> QED BY <3>1 DEF Phase
    <2>6. CASE Alone(p)
      <3>1. /\ DOMAIN sessions' = Device /\ sessions'[p] = sessions[p]
            /\ Opened(p, sessions[p], sent)
        BY <1>2, <1>3, <2>6 DEF Alone
      <3>2. Opened(p, sessions[p], sent')
        BY <1>2, <1>3, <3>1, OpenedStays
      <3>3. Head(sessions[p].root) = {sessions[p].own, d}
            /\ Head(t.root) = {nextKey, p}
        BY <1>2, <1>3, <2>3, <3>1 DEF Opened, SentOn, DH
      <3>4. sessions[p].own < nextKey /\ sessions[p].own \in Nat
        BY <2>6 DEF Alone, IInv, SessionInv, Below, Tidy, Session, KeyPair
      <3>5. {sessions[p].own, d} # {nextKey, p}
        BY <1>3, <2>1, <3>4
      <3>6. Crossed'
        BY <1>2, <1>3, <2>4, <3>1, <3>2, <3>3, <3>5 DEF Crossed
      <3> QED BY <3>6 DEF Phase
    <2>7. ~Alone(d) /\ ~Crossed /\ ~Joined
      BY <2>1 DEF HasSession, Alone, Crossed, Joined
    <2> QED BY <1>3, <1>4, <2>5, <2>6, <2>7 DEF Phase
  <1>6. CASE Answers(d, r, new)
    <2>1. /\ d \in DOMAIN sessions /\ NeedsRotation(sessions[d])
          /\ r = RotateRatchetOnSend(sessions[d], nextKey)
      BY <1>6 DEF Answers, HasSession
    <2>2. ~Alone(d) /\ ~Alone(p) /\ ~Crossed /\ DOMAIN sessions # {}
      BY <1>3, <2>1, OpenedSends DEF Alone, Crossed
    <2>3. Joined
      BY <1>3, <1>4, <2>2 DEF Phase
    <2>4. /\ DOMAIN sessions = Device /\ InStep(sessions[p], sessions[d])
          /\ Link(d, sessions[d], sessions[p], sent, verdicts)
          /\ Link(p, sessions[p], sessions[d], sent, verdicts)
      BY <1>3, <2>3 DEF Joined
    <2>5. /\ Tidy(sessions[d]) /\ Tidy(sessions[p]) /\ sessions[d].own < nextKey
          /\ nextKey \in Nat /\ sessions[d].own \in Nat
      BY <1>3, <2>4 DEF IInv, SessionInv, Below, Tidy, Session, KeyPair
    <2>6. \A i \in DOMAIN sent : sent[i].header.dh # nextKey
      BY <2>5 DEF IInv, EnvelopeInv, Envelope, Header, KeyPair
    <2>7. nextKey # sessions[d].own /\ r.own = nextKey
      BY <2>1, <2>5 DEF RotateRatchetOnSend, Tidy, Session
    <2>8. /\ InStep(t, sessions[p])
          /\ Link(p, sessions[p], t, sent', verdicts')
          /\ Link(d, t, sessions[p], sent', verdicts')
      BY <1>2, <1>3, <2>1, <2>4, <2>5, <2>6, <2>7, SendAnswer
    <2>9. Joined'
      BY <1>2, <1>3, <2>4, <2>8 DEF Joined, InStep
    <2> QED BY <2>9 DEF Phase
  <1>7. CASE GoesOn(d, r, new)
    <2>1. /\ d \in DOMAIN sessions /\ ~NeedsRotation(sessions[d]) /\ r = sessions[d]
          /\ new.handshake = NoHandshake /\ DOMAIN sessions' = DOMAIN sessions
      BY <1>2, <1>7 DEF GoesOn, Sending
    <2>2. CASE Alone(d)
      <3>1. Opened(d, t, sent')
        BY <1>2, <2>1, <2>2, OpenedPost DEF Alone
      <3>2. Alone(d)'
        BY <1>2, <2>1, <2>2, <3>1 DEF Alone
      <3> QED BY <3>2 DEF Phase
    <2>3. CASE Crossed
      <3>1. Opened(d, t, sent')
        BY <1>2, <2>1, <2>3, OpenedPost DEF Crossed
      <3>2. Opened(p, sessions[p], sent')
        BY <1>2, <1>3, <2>3, OpenedStays DEF Crossed
      <3>3. t.root = sessions[d].root /\ sessions'[p] = sessions[p]
        BY <1>2, <1>3, <2>1, <2>3 DEF SentOn, Crossed
      <3>4. Crossed'
        BY <1>2, <1>3, <2>1, <2>3, <3>1, <3>2, <3>3 DEF Crossed
      <3> QED BY <3>4 DEF Phase
    <2>4. CASE Joined
      <3>1. /\ DOMAIN sessions = Device /\ InStep(sessions[d], sessions[p])
            /\ Link(d, sessions[d], sessions[p], sent, verdicts)
            /\ Link(p, sessions[p], sessions[d], sent, verdicts)
        BY <1>3, <2>4 DEF Joined
      <3>2. Tidy(sessions[d]) /\ Tidy(sessions[p])
        BY <1>3, <3>1 DEF IInv, SessionInv
      <3>3. /\ InStep(t, sessions[p])
            /\ Link(d, t, sessions[p], sent', verdicts')
            /\ Link(p, sessions[p], t, sent', verdicts')
        BY <1>2, <1>3, <2>1, <3>1, <3>2, SendOn
      <3>4. Joined'
        BY <1>2, <1>3, <3>1, <3>3 DEF Joined, InStep
      <3> QED BY <3>4 DEF Phase
    <2>5. ~Alone(p) /\ DOMAIN sessions # {}
      BY <1>3, <2>1 DEF Alone
    <2> QED BY <1>3, <1>4, <2>2, <2>3, <2>4, <2>5 DEF Phase
  <1> QED BY <1>1, <1>5, <1>6, <1>7

\* The first envelope of x, when its peer has no session.
LEMMA Accepts ==
    ASSUME IInv, OrderInv, NEW d \in Device, Alone(Peer(d)),
           NEW i \in DOMAIN sent, sent[i].from = Peer(d), ~Refused(d, sent[i]),
           NEW r, r = Receiving(d, sent[i])
    PROVE  LET s == sessions[Peer(d)] IN
           /\ Turned(s, r) /\ Link(Peer(d), s, r, sent, verdicts)
           /\ r.skipped = {} /\ r.recv.key.step = 0
           /\ sent[i].header.dh = r.remote /\ sent[i].key.root = r.recv.key.root
  <1> PICK x : x = Peer(d)
    OBVIOUS
  <1> PICK s : s = sessions[x]
    OBVIOUS
  <1>1. /\ x \in Device /\ x # d /\ Peer(x) = d /\ d \in Nat
    BY Peers
  <1>2. DOMAIN sessions = {x} /\ Opened(x, s, sent) /\ ~NeedsRotation(s)
    BY OpenedSends DEF Alone
  <1>3. /\ i \in PostedBy(sent, x) /\ sent[i].handshake = s.own
        /\ r = AcceptSession(d, s.own)
    BY <1>1, <1>2 DEF Refused, Receiving, HasSession, Opened, PostedBy
  <1>4. /\ s.root = <<DH(s.own, d)>> /\ s.send.key.root = s.root /\ s.remote = d
        /\ \A j \in PostedBy(sent, x) : sent[j].key.root = s.root /\ sent[j].header.dh = s.own
    BY <1>1, <1>2 DEF Opened
  <1>5. /\ r.root = s.root /\ r.recv.key.root = s.root /\ r.recv.key.step = 0
        /\ r.own = d /\ r.remote = s.own /\ r.skipped = {} /\ NeedsRotation(r)
    BY <1>3, <1>4 DEF AcceptSession, FirstChainKey, DH, NeedsRotation
  <1>6. Turned(s, r)
    BY <1>2, <1>4, <1>5 DEF Turned
  <1>7. \A j \in PostedBy(sent, x) : Current(sent[j], r) /\ Behind(sent[j].key, r.root)
    <2>1. s.root \in RootKey
      BY <1>2, SessionTypes DEF IInv, SessionInv
    <2> QED BY <1>4, <1>5, <2>1, FirstBehind DEF Current
  <1>8. ~Ahead(s, r)
    BY <1>5 DEF Ahead
  <1>9. /\ \A j \in PostedBy(sent, x) : ~Coming(sent[j], s, r)
        /\ Accounted(x, r, sent)
    BY <1>5, <1>8 DEF Coming, Accounted
  <1>10. Kept(x, r, sent, verdicts)
    <2>1. \A j \in DOMAIN sent : sent[j].key.step \in Nat
      BY OrderedTypes DEF OrderInv
    <2> QED BY <1>5, <2>1 DEF Kept, PostedBy
  <1>11. r.recv.key.step <= s.send.key.step
    BY <1>2, <1>5, SessionTypes DEF IInv, SessionInv
  <1>12. \A j \in PostedBy(sent, x) : sent[j].header.dh = r.remote =>
            sent[j].key.root = r.recv.key.root
    BY <1>4, <1>5
  <1>13. Link(x, s, r, sent, verdicts)
    BY <1>7, <1>9, <1>10, <1>11, <1>12 DEF Link
  <1> QED BY <1>3, <1>4, <1>5, <1>6, <1>13

\* Whoever opened a session of its own fails to read the other's.
LEMMA CrossedFails ==
    ASSUME IInv, OrderInv, Crossed, NEW d \in Device, NEW i \in DOMAIN sent,
           sent[i].from = Peer(d), NEW out \in Decrypt(sessions[d], sent[i])
    PROVE  out.result = "failed"
  <1> PICK x : x = Peer(d)
    OBVIOUS
  <1> PICK s : s = sessions[x]
    OBVIOUS
  <1> PICK r : r = sessions[d]
    OBVIOUS
  <1> PICK m : m = sent[i]
    OBVIOUS
  <1> PICK q : q = RotateRatchetOnRecv(r, m.header)
    OBVIOUS
  <1> PICK root : root = KdfRoot(r.root, DH(r.own, m.header.dh))
    OBVIOUS
  <1>1. /\ x \in Device /\ x # d /\ Peer(x) = d /\ x < 3 /\ x \in Nat
    BY Peers
  <1>2. /\ Opened(x, s, sent) /\ Opened(d, r, sent) /\ Tidy(s) /\ Tidy(r) /\ Numbered(r)
    BY <1>1 DEF Crossed, IInv, SessionInv, OrderInv
  <1>3. /\ m.key.root = s.root /\ m.header.dh = s.own /\ m.header.n \in Nat
        /\ m.key \in ChainKey /\ m.header \in Header
    <2>1. i \in PostedBy(sent, x) /\ Ordered(sent)
      BY DEF PostedBy, OrderInv
    <2> QED BY <1>2, <2>1, OrderedTypes DEF Opened
  <1>4. /\ s.root = <<DH(s.own, Peer(x))>> /\ r.root = <<DH(r.own, Peer(d))>>
        /\ r.remote = x /\ s.own >= 3 /\ r.skipped = {}
    BY <1>2 DEF Opened
  <1>5. r.root \in RootKey /\ r.root # <<>> /\ r.own \in Nat /\ s.own \in Nat /\ r \in Session
    BY <1>2, SessionTypes
  <1>6. m.header.dh # r.remote
    BY <1>1, <1>3, <1>4, <1>5
  <1>7. /\ q.recv.key.root = root /\ q.recv.index = 0 /\ Tidy(q) /\ Numbered(q)
    <2>1. q.recv.key.root = root /\ q.recv.index = 0
      BY <1>5, <1>6 DEF RotateRatchetOnRecv, Session, FirstChainKey
    <2> QED BY <1>2, <1>3, <2>1, RotateDead, RotateNumbered
  <1>8. m.key.root # root
    <2>1. Behind(m.key, r.root)
      <3>1. \A a, b : Len(<<a>>) <= Len(<<b>>)
        OBVIOUS
      <3> QED BY <1>3, <1>4, <3>1 DEF Behind
    <2> QED BY <1>3, <1>5, <2>1, KdfLonger
  <1>9. Jumps(q, m, out)
    <2>1. SkippedFor(r, m.header) = {} /\ ~(m.header.n < q.recv.index)
      BY <1>3, <1>4, <1>7 DEF SkippedFor
    <2>2. ~Consumes(r, m, out) /\ ~Late(r, m, out)
      BY <2>1 DEF Consumes, Late
    <2> QED BY <2>2, DecryptIs
  <1>10. ChainAt(q.recv, m.header.n).key.root = root
    <2>1. q.recv \in ChainState /\ q.recv.index <= m.header.n
      BY <1>3, <1>7 DEF Tidy, Session
    <2> QED BY <1>3, <1>7, <2>1, ChainAtStep
  <1> QED BY <1>8, <1>9, <1>10 DEF Jumps

\* Receiving: a readable first envelope ends Alone, none is read while Crossed.
LEMMA HandlePhase ==
    ASSUME IInv, IInv', SecretInv, OrderInv, PhaseInv, NEW d \in Device,
           NEW i \in DOMAIN sent, sent[i].from = Peer(d), HandleInbound(d, i)
    PROVE  PhaseInv'
  <1> SUFFICES ASSUME Unspoilt' PROVE Phase'
    BY DEF PhaseInv
  <1> PICK p : p = Peer(d)
    OBVIOUS
  <1>1. /\ p \in Device /\ p # d /\ Peer(p) = d /\ \A x \in Device : x = d \/ x = p
        /\ Device = {d, p} /\ d \in Nat /\ d < 3 /\ p \in Nat /\ p < 3
    BY Peers
  <1>2. Unspoilt
    <2>1. \A j \in DOMAIN verdicts : \A k \in DOMAIN verdicts[j] :
            k \in DOMAIN verdicts'[j] /\ verdicts'[j][k] = verdicts[j][k]
      BY HandleIs
    <2>2. DOMAIN verdicts' = DOMAIN verdicts
      BY HandleIs DEF Handled, TurnedAway
    <2> QED BY <2>1, <2>2 DEF Unspoilt
  <1>3. Phase
    BY <1>2 DEF PhaseInv
  <1>4. p \in DOMAIN sessions /\ i \in PostedBy(sent, p)
    BY DEF SecretInv, PostedBy
  <1>5. /\ Ordered(sent) /\ DOMAIN verdicts = DOMAIN sent
        /\ \A x \in Device : Sending(x) =>
             ChainInv(sessions[x], sent) /\ Chained(x, sessions[x], sent)
        /\ \A x \in DOMAIN sessions : Tidy(sessions[x]) /\ Numbered(sessions[x])
    BY DEF OrderInv, SecretInv, IInv, SessionInv
  <1>6. CASE Refused(d, sent[i]) /\ TurnedAway(i)
    <2>1. UNCHANGED <<sessions, sent>> /\ ~HasSession(d)
      BY <1>6 DEF TurnedAway, Refused
    <2>2. ~Alone(d) /\ ~Crossed /\ ~Joined /\ DOMAIN sessions # {}
      BY <1>4, <2>1 DEF HasSession, Alone, Crossed, Joined
    <2>3. Alone(p)
      BY <1>1, <1>3, <2>2 DEF Phase
    <2>4. Alone(p)'
      BY <2>1, <2>3 DEF Alone
    <2> QED BY <1>1, <2>4 DEF Phase
  <1>7. ASSUME NEW s, NEW out, Handled(d, i, s, out) PROVE Phase'
    <2> PICK t : t = out.session
      OBVIOUS
    <2> PICK V2 : V2 = verdicts'
      OBVIOUS
    <2>1. /\ ~Refused(d, sent[i]) /\ s = Receiving(d, sent[i]) /\ out \in Decrypt(s, sent[i])
          /\ DOMAIN sessions' = DOMAIN sessions \cup {d} /\ sessions'[d] = t
          /\ \A e \in DOMAIN sessions : e # d => sessions'[e] = sessions[e]
          /\ sent' = sent /\ DOMAIN verdicts' = DOMAIN verdicts
          /\ Judged(sent, verdicts, V2, i)
      BY <1>7 DEF Handled, Judged
    <2>2. out.result # "failed"
      BY <1>5, <1>7 DEF Handled, Unspoilt
    <2>3. Tidy(s) /\ Numbered(s) /\ (HasSession(d) => s = sessions[d])
      BY <2>1, ReceivingIs
    <2>4. ASSUME Link(p, sessions[p], t, sent, V2), Link(d, t, sessions[p], sent, V2),
                 InStep(t, sessions[p])
          PROVE  Phase'
      <3>1. sessions'[p] = sessions[p] /\ DOMAIN sessions' = Device
        <4>1. DOMAIN sessions \subseteq Device
          BY DEF IInv
        <4> QED BY <1>1, <1>4, <2>1, <4>1
      <3>2. Joined'
        BY <1>1, <2>1, <2>4, <3>1 DEF Joined, InStep
      <3> QED BY <3>2 DEF Phase
    <2>5. CASE Alone(p)
      <3>1. ~HasSession(d) /\ p \in DOMAIN sessions
        BY <1>1, <2>5 DEF Alone, HasSession
      <3>2. /\ Turned(sessions[p], s) /\ Link(p, sessions[p], s, sent, verdicts)
            /\ sent[i].header.dh = s.remote
        BY <2>1, <2>5, Accepts
      <3>3. Sending(p) /\ sessions[p].send.key.step \in Nat
        BY <1>5, <3>1, <3>2, SessionTypes DEF Sending, Turned
      <3>4. SameChains(t, s) /\ Link(p, sessions[p], t, sent, V2)
        BY <1>1, <1>4, <1>5, <2>1, <2>2, <2>3, <3>2, <3>3, ReceiveCurrent
      <3>5. Turned(sessions[p], t)
        BY <3>2, <3>4 DEF Turned, SameChains, NeedsRotation
      <3>6. Link(d, t, sessions[p], sent, V2)
        <4>1. PostedBy(sent, d) = {}
          BY <3>1 DEF PostedBy, SecretInv, HasSession
        <4>2. sessions[p].skipped = {}
          BY <2>5 DEF Alone, Opened
        <4>3. NeedsRotation(t)
          BY <3>5 DEF Turned
        <4> QED BY <4>1, <4>2, <4>3 DEF Link, Accounted, Kept
      <3> QED BY <2>4, <3>4, <3>5, <3>6 DEF InStep
    <2>6. CASE Crossed
      <3>1. s = sessions[d]
        BY <2>3, <2>6 DEF Crossed, HasSession
      <3> QED BY <2>1, <2>2, <2>6, <3>1, CrossedFails
    <2>7. CASE Joined
      <3>1. /\ DOMAIN sessions = Device /\ InStep(sessions[p], sessions[d])
            /\ Link(d, sessions[d], sessions[p], sent, verdicts)
            /\ Link(p, sessions[p], sessions[d], sent, verdicts)
            /\ s = sessions[d]
        BY <1>1, <2>3, <2>7 DEF Joined, HasSession
      <3>2. /\ ~NeedsRotation(sessions[p]) => ChainInv(sessions[p], sent)
            /\ ~NeedsRotation(sessions[p]) => Chained(p, sessions[p], sent)
            /\ Tidy(sessions[p])
        BY <1>1, <1>5, <3>1 DEF Sending
      <3>3. /\ InStep(t, sessions[p])
            /\ Link(p, sessions[p], t, sent, V2) /\ Link(d, t, sessions[p], sent, V2)
        BY <1>4, <1>5, <2>1, <2>2, <2>3, <3>1, <3>2, HandleInStep
      <3> QED BY <2>4, <3>3
    <2>8. ~Alone(d) /\ DOMAIN sessions # {}
      BY <1>1, <1>4 DEF Alone
    <2> QED BY <1>1, <1>3, <2>5, <2>6, <2>7, <2>8 DEF Phase
  <1> QED BY <1>6, <1>7, HandleIs

\* A reload loses kept keys at most.
LEMMA ReloadPhase ==
    ASSUME IInv, OrderInv, PhaseInv, NEW d \in Device, Reload(d)
    PROVE  PhaseInv'
  <1> PICK t : t = ExportImport(sessions[d])
    OBVIOUS
  <1> PICK p : p = Peer(d)
    OBVIOUS
  <1>1. /\ p \in Device /\ p # d /\ Peer(p) = d /\ \A x \in Device : x = d \/ x = p
        /\ Device = {d, p}
    BY Peers
  <1>2. d \in DOMAIN sessions /\ StoreSession(d, t) /\ UNCHANGED <<sent, verdicts>>
    BY DEF Reload, HasSession
  <1>3. /\ DOMAIN sessions' = DOMAIN sessions /\ sessions'[d] = t
        /\ \A e \in DOMAIN sessions : e # d => sessions'[e] = sessions[e]
    BY <1>2 DEF StoreSession
  <1>4. Tidy(sessions[d])
    BY <1>2 DEF IInv, SessionInv
  <1> SUFFICES ASSUME Unspoilt' PROVE Phase'
    BY DEF PhaseInv
  <1>5. Phase
    BY <1>2 DEF PhaseInv, Unspoilt
  <1>6. ASSUME Opened(d, sessions[d], sent) PROVE t = sessions[d]
    <2>1. sessions[d].skipped = {}
      BY <1>6 DEF Opened
    <2>2. {[e EXCEPT !.mangled = TRUE] : e \in {}} = {}
      OBVIOUS
    <2>3. t = [sessions[d] EXCEPT !.skipped = {}]
      BY <2>1, <2>2 DEF ExportImport
    <2> QED BY <1>4, <2>1, <2>3 DEF Tidy, Session
  <1>7. CASE Alone(d)
    <2>1. Alone(d)'
      BY <1>2, <1>3, <1>6, <1>7 DEF Alone
    <2> QED BY <2>1 DEF Phase
  <1>8. CASE Crossed
    <2>1. t = sessions[d]
      BY <1>6, <1>8 DEF Crossed
    <2>2. Crossed'
      BY <1>1, <1>2, <1>3, <1>8, <2>1 DEF Crossed
    <2> QED BY <2>2 DEF Phase
  <1>9. CASE Joined
    <2>1. /\ DOMAIN sessions = Device /\ InStep(sessions[p], sessions[d])
          /\ Link(d, sessions[d], sessions[p], sent, verdicts)
          /\ Link(p, sessions[p], sessions[d], sent, verdicts)
          /\ sent \in Seq(Envelope)
      BY <1>1, <1>9 DEF Joined, IInv
    <2>2. /\ InStep(t, sessions[p])
          /\ Link(p, sessions[p], t, sent, verdicts) /\ Link(d, t, sessions[p], sent, verdicts)
      BY <1>4, <2>1, ReloadInStep
    <2>3. Joined'
      BY <1>1, <1>2, <1>3, <2>1, <2>2 DEF Joined, InStep
    <2> QED BY <2>3 DEF Phase
  <1>10. ~Alone(p) /\ DOMAIN sessions # {}
    BY <1>1, <1>2 DEF Alone
  <1> QED BY <1>1, <1>5, <1>7, <1>8, <1>9, <1>10 DEF Phase

\* Nobody has a session at first.
LEMMA InitPhase == Init => PhaseInv
  BY DEF Init, PhaseInv, Phase

\* All that is invariant of a conversation.
SyncInv == IInv /\ SecretInv /\ OrderInv /\ PhaseInv

\* Every step keeps the four parts.
LEMMA NextSync == SyncInv /\ [Next]_vars => SyncInv'
  <1> SUFFICES ASSUME IInv, SecretInv, OrderInv, PhaseInv, [Next]_vars PROVE SyncInv'
    BY DEF SyncInv
  <1>1. IInv' /\ SecretInv' /\ OrderInv'
    BY NextInv, NextSecret, NextOrder
  <1>2. ASSUME NEW d \in Device, PrepareFirstSend(d) \/ PrepareSend(d) PROVE PhaseInv'
    BY <1>1, <1>2, SendPhase
  <1>3. ASSUME NEW d \in Device, HandleEnvelope(d) PROVE PhaseInv'
    BY <1>1, <1>3, HandlePhase DEF HandleEnvelope, Waiting
  <1>4. ASSUME NEW d \in Device, HandleAgain(d) PROVE PhaseInv'
    BY <1>1, <1>4, HandlePhase DEF HandleAgain, HandedOver
  <1>5. ASSUME NEW d \in Device, Reload(d) PROVE PhaseInv'
    BY <1>5, ReloadPhase
  <1>6. ASSUME UNCHANGED vars PROVE PhaseInv'
    <2>1. UNCHANGED <<sessions, sent, verdicts>>
      BY <1>6 DEF vars
    <2>2. Unspoilt' => Unspoilt
      BY <2>1 DEF Unspoilt
    <2>3. ASSUME Phase PROVE Phase'
      <3>1. CASE DOMAIN sessions = {}
        BY <2>1, <3>1 DEF Phase
      <3>2. ASSUME NEW x \in Device, Alone(x) PROVE Phase'
        <4>1. Alone(x)'
          BY <2>1, <3>2 DEF Alone
        <4> QED BY <4>1 DEF Phase
      <3>3. CASE Crossed
        <4>1. Crossed'
          BY <2>1, <3>3 DEF Crossed
        <4> QED BY <4>1 DEF Phase
      <3>4. CASE Joined
        <4>1. Joined'
          BY <2>1, <3>4 DEF Joined
        <4> QED BY <4>1 DEF Phase
      <3> QED BY <2>3, <3>1, <3>2, <3>3, <3>4 DEF Phase
    <2> QED BY <2>2, <2>3 DEF PhaseInv
  <1>7. PhaseInv'
    BY <1>2, <1>3, <1>4, <1>5, <1>6 DEF Next
  <1> QED BY <1>1, <1>7 DEF SyncInv

\* They hold in every behaviour.
LEMMA SyncInvariance == Spec => []SyncInv
  <1>1. Init => SyncInv
    BY InitInv, InitSecret, InitOrder, InitPhase DEF SyncInv
  <1> QED BY <1>1, NextSync, PTL DEF Spec

-----------------------------------------------------------------------------
(* New envelopes are read.                                                 *)

\* A new envelope that nothing overtook is read in the session it is linked to.
LEMMA LinkedIsRead ==
    ASSUME NEW x, NEW s, NEW r, NEW S, NEW V, Ordered(S), Link(x, s, r, S, V),
           Tidy(r), Numbered(r), HasRoom(x, S), Intact(r),
           NEW i \in PostedBy(S, x), V[i] = <<>>, ~Outrun(S, V, i),
           NEW out \in Decrypt(r, S[i])
    PROVE  out.result = "read"
  <1> PICK m : m = S[i]
    OBVIOUS
  <1> PICK n : n = m.header.n
    OBVIOUS
  <1> PICK q : q = RotateRatchetOnRecv(r, m.header)
    OBVIOUS
  <1>1. /\ i \in DOMAIN S /\ m.from = x /\ m.key.step = n /\ n \in Nat
        /\ m.key \in ChainKey /\ m.header \in Header /\ m.header.dh \in Nat
    BY OrderedTypes DEF PostedBy, Header, KeyPair
  <1>2. /\ r \in Session /\ r.recv \in ChainState /\ r.recv.index \in Nat
        /\ r.recv.index = r.recv.key.step
    BY DEF Tidy, Session, ChainState, Numbered
  <1>3. Accounted(x, r, S) /\ Kept(x, r, S, V) /\ (Current(m, r) \/ Coming(m, s, r))
    BY DEF Link
  <1>4. ASSUME NEW e \in SkippedFor(r, m.header) PROVE e.key = m.key
    <2>1. e \in r.skipped /\ e.dh = m.header.dh /\ e.n = n
      BY DEF SkippedFor, SameSlot
    <2>2. PICK j \in PostedBy(S, x) : S[j].key = e.key /\ S[j].header.dh = e.dh
      BY <1>3, <2>1 DEF Accounted
    <2>3. e.key.root = m.key.root /\ e.key \in ChainKey
      BY <1>1, <2>1, <2>2, OrderedTypes DEF PostedBy, Ordered
    <2>4. e.key.step = n
      BY <2>1 DEF Numbered
    <2> QED BY <1>1, <2>3, <2>4, SameKey
  <1>5. CASE Consumes(r, m, out)
    BY <1>4, <1>5 DEF Consumes
  <1>6. CASE SkippedFor(r, m.header) = {}
    <2>1. Tidy(q) /\ Numbered(q)
      BY <1>1, RotateDead, RotateNumbered
    <2>2. q.recv.key.root = m.key.root /\ q.recv.index <= n /\ q.recv \in ChainState
      <3>1. CASE Current(m, r)
        <4>1. q = r /\ m.key.root = r.recv.key.root
          BY <3>1 DEF Current, RotateRatchetOnRecv
        <4>2. ASSUME n < r.recv.index PROVE FALSE
          <5>1. PICK e \in r.skipped : e.key = m.key /\ e.dh = m.header.dh /\ ~e.mangled
            BY <1>1, <1>2, <1>3, <3>1, <4>2 DEF Kept
          <5>2. e.n = n
            BY <1>1, <5>1 DEF Numbered
          <5>3. e \in SkippedFor(r, m.header)
            BY <5>1, <5>2 DEF SkippedFor, SameSlot
          <5> QED BY <1>6, <5>3
        <4> QED BY <1>1, <1>2, <4>1, <4>2
      <3>2. CASE Coming(m, s, r)
        <4>1. /\ Ahead(s, r) /\ m.key.root = s.root /\ m.header.dh = s.own
          BY <3>2 DEF Coming
        <4>2. /\ m.header.dh # r.remote
              /\ m.key.root = KdfRoot(r.root, DH(r.own, m.header.dh))
          BY <4>1 DEF Ahead, DH
        <4> PICK root : root = KdfRoot(r.root, DH(r.own, m.header.dh))
          OBVIOUS
        <4>3. q.recv = [key |-> FirstChainKey(root), index |-> 0]
          BY <1>2, <4>2 DEF RotateRatchetOnRecv, Session
        <4>4. q.recv.key.root = root /\ q.recv.index = 0
          BY <4>3 DEF FirstChainKey
        <4> QED BY <1>1, <2>1, <4>2, <4>4 DEF Tidy, Session
      <3> QED BY <1>3, <3>1, <3>2
    <2>3. Jumps(q, m, out)
      <3>1. ~(n < q.recv.index)
        BY <1>1, <2>2 DEF ChainState
      <3>2. ~Consumes(r, m, out) /\ ~Late(r, m, out)
        BY <1>6, <3>1 DEF Consumes, Late
      <3> QED BY <3>2, DecryptIs
    <2>4. PICK st \in StoresUpTo(q, n) : out.session = Jumped(q, n, st)
      BY <2>3 DEF Jumps
    <2>5. /\ ChainAt(q.recv, n).key.root = q.recv.key.root
          /\ ChainAt(q.recv, n).key.step = n /\ ChainAt(q.recv, n).key \in ChainKey
      BY <1>1, <2>1, <2>2, <2>4, JumpedIs
    <2>6. ChainAt(q.recv, n).key = m.key
      BY <1>1, <2>2, <2>5, SameKey
    <2> QED BY <2>3, <2>6 DEF Jumps
  <1> QED BY <1>5, <1>6, DecryptIs DEF Late

\* Only a hand-over to its receiver gives an envelope its first verdict.
LEMMA FirstVerdict ==
    ASSUME SyncInv, [Next]_vars, NEW i \in DOMAIN sent,
           verdicts[i] = <<>>, verdicts'[i] # <<>>
    PROVE  \E d \in Device : sent[i].from = Peer(d) /\ HandleInbound(d, i)
  <1>1. /\ IInv /\ SecretInv /\ verdicts \in Seq(Seq(Results)) /\ i \in DOMAIN verdicts
    BY DEF SyncInv, IInv, SecretInv
  <1>2. ASSUME NEW d \in Device, PrepareFirstSend(d) \/ PrepareSend(d) PROVE FALSE
    <2>1. verdicts' = Append(verdicts, <<>>)
      BY <1>2 DEF PrepareFirstSend, PrepareSend, Post
    <2> QED BY <1>1, <2>1
  <1>3. ASSUME NEW d \in Device, NEW j \in DOMAIN sent, sent[j].from = Peer(d),
               HandleInbound(d, j)
        PROVE  sent[i].from = Peer(d) /\ HandleInbound(d, i)
    <2>1. \A k \in DOMAIN sent : k # j => verdicts'[k] = verdicts[k]
      BY <1>1, <1>3, HandleIs DEF Handled, TurnedAway
    <2>2. i = j
      BY <2>1
    <2> QED BY <1>3, <2>2
  <1>4. ASSUME NEW d \in Device, Reload(d) PROVE FALSE
    BY <1>4 DEF Reload
  <1>5. ~UNCHANGED vars
    BY DEF vars
  <1>6. PICK d \in Device : HandleEnvelope(d) \/ HandleAgain(d)
    BY <1>2, <1>4, <1>5 DEF Next
  <1>7. PICK j \in DOMAIN sent : sent[j].from = Peer(d) /\ HandleInbound(d, j)
    BY <1>6 DEF HandleEnvelope, HandleAgain, Waiting, HandedOver
  <1> QED BY <1>3, <1>7

\* The step of ReadUnlessOvertaken.
LEMMA NewIsRead ==
    ASSUME SyncInv, [Next]_vars, NEW i \in DOMAIN sent,
           verdicts[i] = <<>>, verdicts'[i] # <<>>, Unspoilt,
           ~Overtaken(i), ~ForgotKeys(Peer(sent[i].from)), ~MayBeDropped(i),
           ~OtherSession(i), ~Refused(Peer(sent[i].from), sent[i])
    PROVE  verdicts'[i] = <<"read">>
  <1>1. IInv /\ SecretInv /\ OrderInv /\ Phase
    BY DEF SyncInv, PhaseInv
  <1>2. PICK d \in Device : sent[i].from = Peer(d) /\ HandleInbound(d, i)
    BY FirstVerdict
  <1> PICK p : p = Peer(d)
    OBVIOUS
  <1>3. /\ p \in Device /\ p # d /\ Peer(p) = d /\ \A x \in Device : x = d \/ x = p
        /\ Device = {d, p} /\ sent[i].from = p
    BY <1>2, Peers
  <1>4. PICK s, out : Handled(d, i, s, out)
    BY <1>1, <1>2, <1>3, HandleIs
  <1>5. /\ s = Receiving(d, sent[i]) /\ out \in Decrypt(s, sent[i])
        /\ verdicts'[i] = Append(verdicts[i], out.result)
    BY <1>4 DEF Handled
  <1>6. /\ Tidy(s) /\ Numbered(s) /\ (HasSession(d) => s = sessions[d])
        /\ Ordered(sent) /\ p \in DOMAIN sessions /\ i \in PostedBy(sent, p)
    BY <1>1, <1>3, <1>5, ReceivingIs DEF OrderInv, SecretInv, PostedBy
  <1>7. HasRoom(p, sent) /\ ~Outrun(sent, verdicts, i)
    <2>1. ~Outrun(sent, verdicts, i)
      BY DEF Outrun, Overtaken
    <2>2. /\ Cardinality(PostedBy(sent, p)) \in Nat
          /\ ~(Cardinality(PostedBy(sent, p)) > MaxSkipped + 1)
      BY <1>1, <1>3, PostedFinite, ZenonT(60) DEF MayBeDropped, PostedBy, IInv
    <2>3. MaxSkipped \in Nat
      BY MaxSkippedAssumption
    <2> QED BY <2>1, <2>2, <2>3 DEF HasRoom
  <1>8. out.result = "read"
    <2>1. CASE Alone(p)
      <3>1. /\ Link(p, sessions[p], s, sent, verdicts) /\ s.skipped = {}
        BY <1>1, <1>3, <1>5, <2>1, Accepts
      <3>2. Intact(s)
        BY <3>1 DEF Intact
      <3> QED BY <1>5, <1>6, <1>7, <3>1, <3>2, LinkedIsRead
    <2>2. CASE Crossed
      <3>1. sent[i].key.root = sessions[p].root
        BY <1>3, <1>6, <2>2 DEF Crossed, Opened
      <3>2. HasSession(d) /\ Head(sessions[d].root) # Head(sessions[p].root)
        BY <1>3, <2>2 DEF Crossed, HasSession
      <3> QED BY <1>3, <3>1, <3>2 DEF OtherSession
    <2>3. CASE Joined
      <3>1. HasSession(d) /\ Link(p, sessions[p], sessions[d], sent, verdicts)
        BY <1>3, <2>3 DEF Joined, HasSession
      <3>2. Intact(sessions[d])
        BY <1>3, <3>1 DEF Intact, ForgotKeys
      <3> QED BY <1>5, <1>6, <1>7, <3>1, <3>2, LinkedIsRead
    <2>4. ~Alone(d) /\ DOMAIN sessions # {}
      BY <1>3, <1>6 DEF Alone
    <2> QED BY <1>1, <1>3, <2>1, <2>2, <2>3, <2>4 DEF Phase
  <1> QED BY <1>5, <1>8

\* ReadUnlessOvertaken: handleInbound reads an envelope when it is first handed
\* over, in whatever order the service hands envelopes over and however often,
\* as long as nothing failed before and none of the losses that the code knows
\* struck it: a later chain overtook it, a reload or a full store dropped the
\* key kept for it, or the receiver has a session of its own making, or none.
THEOREM NewEnvelopesAreRead == Spec => ReadUnlessOvertaken
  <1> DEFINE Failing(i) ==
         /\ verdicts[i] = <<>> /\ verdicts'[i] # <<>>
         /\ \A j \in DOMAIN verdicts, k \in 1 .. MaxDeliveries :
              k \in DOMAIN verdicts[j] => verdicts[j][k] # "failed"
         /\ ~Overtaken(i)
         /\ ~ForgotKeys(Peer(sent[i].from))
         /\ ~MayBeDropped(i)
         /\ ~OtherSession(i)
         /\ ~Refused(Peer(sent[i].from), sent[i])
  <1>1. SyncInv /\ [Next]_vars => \A i \in DOMAIN sent : Failing(i) => verdicts'[i] = <<"read">>
    <2> SUFFICES ASSUME SyncInv, [Next]_vars, NEW i \in DOMAIN sent, Failing(i)
                 PROVE  verdicts'[i] = <<"read">>
      OBVIOUS
    <2>1. Unspoilt
      <3> SUFFICES ASSUME NEW j \in DOMAIN verdicts, NEW k \in DOMAIN verdicts[j]
                   PROVE  verdicts[j][k] # "failed"
        BY DEF Unspoilt
      <3>1. verdicts \in Seq(Seq(Results)) /\ Len(verdicts[j]) <= MaxDeliveries
        BY DEF SyncInv, IInv, OrderInv
      <3>2. verdicts[j] \in Seq(Results)
        BY <3>1
      <3>3. k \in 1 .. MaxDeliveries
        BY <3>1, <3>2, ConversationAssumption
      <3> QED BY <3>3
    <2> QED BY <2>1, NewIsRead
  <1> QED BY <1>1, SyncInvariance, PTL DEF ReadUnlessOvertaken, Spec
==============================================================================
