--------------------------- MODULE WebClient_proofs ---------------------------
(***************************************************************************)
(* The safety properties of the web client: of its conversations           *)
(* (WebClient) and, at the end, of the vault that its state is sealed with *)
(* (Vault).  The two modules share no variable.                            *)
(***************************************************************************)
EXTENDS WebClient, Vault, Ratchet_proofs

-----------------------------------------------------------------------------
(* Sessions of X3DH with a one-time prekey.                                *)

LEMMA X3DHRoot ==
    ASSUME NEW x \in Nat, NEW y \in Nat, NEW b \in Nat, x < b, y < b,
           NEW k, k = None \/ (k \in Nat /\ k < b)
    PROVE  LET root == X3DH(x, y, k) IN
           /\ root \in RootKey /\ root # <<>> /\ RootBelow(root, b)
           /\ Head(root) = DH(x, y) /\ 1 \in DOMAIN root /\ root[1] = DH(x, y)
  <1>1. DH(x, y) \in Secret /\ \A z \in DH(x, y) : z < b
    BY DEF DH, Secret, KeyPair
  <1>2. CASE k = None
    <2>1. X3DH(x, y, k) = <<DH(x, y)>>
      BY <1>2 DEF X3DH
    <2> QED BY <1>1, <2>1 DEF RootKey, RootBelow
  <1>3. CASE k # None
    <2>1. DH(x, k) \in Secret /\ \A z \in DH(x, k) : z < b
      BY <1>3 DEF DH, Secret, KeyPair
    <2>2. X3DH(x, y, k) = <<DH(x, y)>> \o <<DH(x, k)>>
      BY <1>3 DEF X3DH
    <2> QED BY <1>1, <2>1, <2>2 DEF RootKey, RootBelow
  <1> QED BY <1>2, <1>3

\* A session that was opened with a key pair which did not exist before sends,
\* on a root unlike all others, and opens nothing that was sealed before.
LEMMA InitiatedInv ==
    ASSUME NEW x \in Nat, NEW y \in Nat, NEW b \in Nat, x < b, y < b,
           NEW k, k = None \/ (k \in Nat /\ k < b)
    PROVE  LET s == Initiated(x, y, k) IN
           /\ SessionInv(s, b) /\ ~NeedsRotation(s) /\ ~RootBelow(s.send.key.root, x)
           /\ \A key \in ChainKey : key.root # <<>> /\ RootBelow(key.root, x) => Dead(s, key)
  <1> PICK root : root = X3DH(x, y, k)
    OBVIOUS
  <1> PICK s : s = Initiated(x, y, k)
    OBVIOUS
  <1>1. /\ root \in RootKey /\ root # <<>> /\ RootBelow(root, b)
        /\ Head(root) = DH(x, y) /\ 1 \in DOMAIN root /\ root[1] = DH(x, y)
    BY X3DHRoot
  <1>2. Tidy(InitSession(x, y))
    BY FirstTidy
  <1>3. InitSession(x, y).send = [key |-> FirstChainKey(<<DH(x, y)>>), index |-> 0]
    BY DEF InitSession
  <1>4. /\ s \in Session /\ s.root = root /\ s.send.key = FirstChainKey(root)
        /\ s.recv = InitSession(x, y).recv /\ s.skipped = InitSession(x, y).skipped
        /\ s.own = x /\ s.remote = y
    <2>1. FirstChainKey(root) \in ChainKey
      BY <1>1 DEF FirstChainKey, ChainKey
    <2>2. InitSession(x, y) \in Session /\ InitSession(x, y).own = x /\ InitSession(x, y).remote = y
      BY <1>2 DEF Tidy, InitSession
    <2> PICK o : o = InitSession(x, y)
      OBVIOUS
    <2> PICK key : key = FirstChainKey(root)
      OBVIOUS
    <2> PICK send : send = [o.send EXCEPT !.key = key]
      OBVIOUS
    <2>3. s = [o EXCEPT !.root = root, !.send = send]
      BY DEF Initiated
    <2>4. send \in ChainState /\ send.key = key
      BY <1>3, <2>1, <2>2 DEF Session, ChainState
    <2> QED BY <1>1, <2>2, <2>3, <2>4 DEF Session
  <1>5. s.recv.key = ZeroKey /\ s.skipped = {} /\ s.send.key.root = root
    BY <1>4 DEF InitSession, FirstChainKey
  <1>6. Tidy(s)
    <2>1. Few(s.skipped)
      BY <1>2, <1>4 DEF Tidy
    <2>2. Behind(s.recv.key, s.root)
      BY <1>1, <1>4, <1>5 DEF Behind, ZeroKey, RootKey
    <2> QED BY <1>1, <1>4, <1>5, <2>1, <2>2 DEF Tidy
  <1>7. ~NeedsRotation(s)
    BY <1>1, <1>5 DEF NeedsRotation, ZeroKey
  <1>8. SessionInv(s, b)
    BY <1>1, <1>4, <1>5, <1>6, <1>7 DEF SessionInv, Below
  <1>9. x \in root[1]
    BY <1>1 DEF DH
  <1>10. ~RootBelow(root, x)
    BY <1>1, <1>9 DEF RootBelow
  <1>11. ASSUME NEW key \in ChainKey, key.root # <<>>, RootBelow(key.root, x) PROVE Dead(s, key)
    <2>1. key.root \in RootKey /\ 1 \in DOMAIN key.root /\ Head(key.root) = key.root[1]
      BY <1>11 DEF ChainKey, RootKey
    <2>2. Head(key.root) # Head(root)
      BY <1>1, <1>9, <1>11, <2>1 DEF RootBelow
    <2>3. Passed(s, key)
      BY <1>4, <1>5, <1>11, <2>2 DEF Passed, Behind, ZeroKey
    <2> QED BY <1>5, <2>3 DEF Dead
  <1> QED BY <1>5, <1>7, <1>8, <1>10, <1>11

LEMMA AcceptedInv ==
    ASSUME NEW d \in Nat, NEW b \in Nat, d < b, NEW env,
           env.handshake \in Nat, env.handshake < b,
           env.prekey = None \/ (env.prekey \in Nat /\ env.prekey < b)
    PROVE  SessionInv(Accepted(d, env), b) /\ NeedsRotation(Accepted(d, env))
  <1> PICK x : x = env.handshake
    OBVIOUS
  <1> PICK root : root = X3DH(x, d, env.prekey)
    OBVIOUS
  <1> PICK o : o = AcceptSession(d, x)
    OBVIOUS
  <1> PICK s : s = Accepted(d, env)
    OBVIOUS
  <1>1. /\ root \in RootKey /\ root # <<>> /\ RootBelow(root, b)
    BY X3DHRoot
  <1>2. Tidy(o) /\ SessionInv(o, b)
    BY AcceptSessionInv DEF SessionInv
  <1> PICK key : key = FirstChainKey(root)
    OBVIOUS
  <1> PICK recv : recv = [o.recv EXCEPT !.key = key]
    OBVIOUS
  <1>3. s = [o EXCEPT !.root = root, !.recv = recv]
    BY DEF Accepted
  <1>4. key \in ChainKey /\ key.root = root /\ recv \in ChainState /\ recv.key = key
    <2>1. key \in ChainKey /\ key.root = root
      BY <1>1 DEF FirstChainKey, ChainKey
    <2> QED BY <1>2, <2>1 DEF Tidy, Session, ChainState
  <1>5. /\ s \in Session /\ s.root = root /\ s.recv.key = key
        /\ s.send = o.send /\ s.own = o.own /\ s.remote = o.remote /\ s.skipped = o.skipped
    BY <1>1, <1>2, <1>3, <1>4 DEF Tidy, Session
  <1>6. s.send.key = ZeroKey /\ s.skipped = {}
    BY <1>5 DEF AcceptSession
  <1>7. Behind(s.recv.key, s.root)
    BY <1>1, <1>4, <1>5, FirstBehind
  <1>8. Tidy(s)
    BY <1>1, <1>2, <1>5, <1>6, <1>7 DEF Tidy
  <1>9. RootBelow(s.send.key.root, b)
    BY <1>6 DEF ZeroKey, RootBelow
  <1> QED BY <1>1, <1>2, <1>5, <1>6, <1>8, <1>9 DEF SessionInv, Below, NeedsRotation

\* What Encrypt makes of a session that can send.
LEMMA EncryptInv ==
    ASSUME NEW s, NEW fresh, NEW b \in Nat,
           SessionInv(Sealing(s, fresh), b), ~NeedsRotation(Sealing(s, fresh))
    PROVE  LET e == Encrypt(s, fresh)
               r == Sealing(s, fresh) IN
           /\ SessionInv(e.session, b) /\ ~NeedsRotation(e.session)
           /\ e.session.send.key.root = e.key.root
           /\ e.session.send.key.step = e.key.step + 1
           /\ e.key = r.send.key /\ e.key \in ChainKey /\ e.key.step \in Nat
           /\ e.key.root # <<>> /\ RootBelow(e.key.root, b)
           /\ e.header \in Header /\ e.header.dh < b
  <1> PICK r : r = Sealing(s, fresh)
    OBVIOUS
  <1> PICK e : e = Encrypt(s, fresh)
    OBVIOUS
  <1>1. /\ r.send \in ChainState /\ r.send.key \in ChainKey /\ r.send.key.step \in Nat
        /\ r.own \in Nat /\ r.own < b /\ r.pn \in Nat /\ r.send.index \in Nat
        /\ r.send.key.root # <<>> /\ RootBelow(r.send.key.root, b)
    BY DEF SessionInv, Tidy, Below, Session, ChainState, ChainKey, KeyPair
  <1>2. /\ e.session = [r EXCEPT !.send = Advance(@)] /\ e.key = r.send.key
        /\ e.header = [dh |-> r.own, pn |-> r.pn, n |-> r.send.index]
    BY DEF Encrypt
  <1>3. /\ SessionInv(e.session, b) /\ ~NeedsRotation(e.session)
        /\ e.session.send.key.root = r.send.key.root
        /\ e.session.send.key.step = r.send.key.step + 1
    BY <1>2, SealInv
  <1> QED BY <1>1, <1>2, <1>3 DEF Header, KeyPair

-----------------------------------------------------------------------------
(* Types.                                                                  *)

CallsType == DOMAIN calls = Device /\ \A d \in Device : calls[d] \in [Slots[d] -> Call]

\* The states of d: in memory, in the store, and in calls that save.
Held(d) ==
    {page[d], stored[d]} \cup
    {calls[d][c].copy : c \in {b \in Slots[d] : calls[d][b].stage \in {"saving", "ending"}}}

KeyTypes ==
    /\ page \in [Device -> State] /\ stored \in [Device -> State]
    /\ \A d \in Device : Held(d) \subseteq State
    /\ CallsType
    /\ reloads \in [Device -> Nat]
    /\ nextKey \in Nat /\ nextKey >= FirstKey
    /\ sent \in Seq(Envelope)

BookTypes ==
    /\ history \in [Device -> SUBSET Nat] /\ pushed \in [Device -> SUBSET Nat]
    /\ synced \in [Device -> BOOLEAN]
    /\ \A d \in Device : reloads[d] \in 0 .. MaxReloads[d]
    /\ offered \in [Device -> SUBSET KeyPair] /\ \A d \in Device : offered[d] \subseteq Prekeys[d]
    /\ sends \in 0 .. MaxSends

LEMMA NoneIs ==
    /\ None \notin Session /\ None \notin Nat
    /\ FirstKey \in Nat /\ FirstKey > 2
    /\ \A d \in Device : Prekeys[d] \subseteq Nat /\ \A k \in Prekeys[d] : k < FirstKey
  <1>1. /\ None \notin Session /\ None \notin Nat /\ FirstKey \in Nat /\ FirstKey \notin 0 .. 2
        /\ Prekeys \in [Device -> SUBSET (3 .. FirstKey - 1)]
    BY WebClientAssumption DEF KeyPair
  <1>2. ASSUME NEW d \in Device PROVE Prekeys[d] \subseteq 3 .. FirstKey - 1
    BY <1>1
  <1> QED BY <1>1, <1>2

LEMMA Peers ==
    ASSUME NEW d \in Device
    PROVE  /\ Peer(d) \in Device /\ Peer(d) # d /\ Peer(Peer(d)) = d /\ d \in Nat /\ d < 3
           /\ \A x \in Device : x = d \/ x = Peer(d)
  BY DEF Device, Peer

\* The call in slot c of d is x, and the others go on as they were.
OneCall(d, c, x) ==
    /\ CallsType' /\ calls'[d][c] = x
    /\ \A e \in Device : \A b \in Slots[e] : (e = d /\ b = c) \/ calls'[e][b] = calls[e][b]

LEMMA SetCallIs ==
    ASSUME CallsType, NEW d \in Device, NEW c \in Slots[d], NEW x \in Call, SetCall(d, c, x)
    PROVE  OneCall(d, c, x)
  <1> PICK f : f = [calls[d] EXCEPT ![c] = x]
    OBVIOUS
  <1>1. f \in [Slots[d] -> Call] /\ f[c] = x /\ \A b \in Slots[d] : b # c => f[b] = calls[d][b]
    BY DEF CallsType
  <1>2. calls' = [calls EXCEPT ![d] = f]
    BY DEF SetCall
  <1>3. DOMAIN calls' = Device /\ calls'[d] = f /\ \A e \in Device : e # d => calls'[e] = calls[e]
    BY <1>2 DEF CallsType
  <1>4. CallsType'
    BY <1>1, <1>3 DEF CallsType
  <1> QED BY <1>1, <1>3, <1>4 DEF OneCall

LEMMA NoCallType == NoCall \in Call
  BY DEF NoCall, Call

\* The calls that an action may leave.
LEMMA CallForms ==
    ASSUME NEW x \in Call
    PROVE  /\ x.env \in Envelope \cup {None} /\ x.msg \in Nat /\ x.copy \in State \cup {None}
           /\ x.base \in SUBSET Nat /\ x.rest \in SUBSET Nat
           /\ \A e \in Envelope : [NoCall EXCEPT !.job = "send", !.stage = "posting", !.env = e] \in Call
           /\ \A i \in Nat : [NoCall EXCEPT !.job = "send", !.stage = "posted", !.msg = i] \in Call
           /\ \A st \in State : [x EXCEPT !.stage = "saving", !.copy = st] \in Call
           /\ \A st \in State : [x EXCEPT !.stage = "ending", !.copy = st] \in Call
           /\ \A st \in State : \A i \in Nat :
                [x EXCEPT !.stage = "saving", !.msg = i, !.copy = st] \in Call
           /\ [x EXCEPT !.stage = "appending", !.copy = None] \in Call
           /\ \A h \in SUBSET Nat : [x EXCEPT !.stage = "loaded", !.base = h] \in Call
           /\ \A q \in SUBSET Nat : [NoCall EXCEPT !.job = "sync", !.stage = "handling", !.rest = q] \in Call
           /\ \A q \in SUBSET Nat : [x EXCEPT !.rest = q] \in Call
           /\ \A i \in Nat : [NoCall EXCEPT !.job = "sync", !.stage = "asking", !.msg = i] \in Call
           /\ [NoCall EXCEPT !.job = "socket"] \in Call
           /\ [NoCall EXCEPT !.job = "send", !.stage = "fetching"] \in Call
  BY NoCallType, ZenonT(40) DEF Call

-----------------------------------------------------------------------------
(* What seals: the states that a page may come to have, and the envelopes. *)

\* A state that was in memory: a prekey is missing only where there is a session.
StateInv(d, st, b) ==
    /\ st.prekeys \subseteq Prekeys[d]
    /\ st.session = None => st.prekeys = Prekeys[d]
    /\ st.session # None => SessionInv(st.session, b)

\* An envelope that d sealed in its life l or before.
EnvInv(d, e, b, l) ==
    /\ e \in Envelope /\ e.from = d
    /\ e.key.root # <<>> /\ RootBelow(e.key.root, b)
    /\ e.header.dh < b
    /\ e.handshake # None => e.handshake < b
    /\ e.prekey # None => e.prekey \in Prekeys[Peer(d)]
    /\ e.life <= l

Posting(d, c) == c \in Slots[d] /\ At(d, c, "posting")

\* d sealed e, and it was posted or is about to be.
Sealed(d, e) ==
    \/ \E i \in DOMAIN sent : sent[i].from = d /\ sent[i] = e
    \/ \E c \in Slots[d] : Posting(d, c) /\ calls[d][c].env = e

SendsOn(st, root) ==
    st.session # None /\ ~NeedsRotation(st.session) /\ st.session.send.key.root = root

\* Root r is one that d seals with, or did.
OnRoot(d, r) ==
    \/ \E st \in Held(d) : SendsOn(st, r)
    \/ \E e : Sealed(d, e) /\ e.key.root = r

StatesInv == \A d \in Device : \A st \in Held(d) : StateInv(d, st, nextKey)
SealedInv == \A d \in Device : \A e : Sealed(d, e) => EnvInv(d, e, nextKey, reloads[d])
RootsInv == \A d \in Device : \A r : OnRoot(d, r) => ~OnRoot(Peer(d), r)

\* The session in memory is ahead of every envelope of this life.
AheadInv ==
    \A d \in Device : \A e :
        Sealed(d, e) /\ e.life = reloads[d] /\ SendsOn(page[d], e.key.root) =>
            e.key.step < page[d].session.send.key.step

\* The envelopes under way differ from those of this life, and from one another.
HandsInv ==
    \A d \in Device : \A c \in Slots[d] : Posting(d, c) =>
        /\ calls[d][c].env.life = reloads[d]
        /\ \A i \in DOMAIN sent : sent[i].from = d /\ sent[i].life = reloads[d] =>
              sent[i].key # calls[d][c].env.key
        /\ \A b \in Slots[d] : Posting(d, b) /\ b # c => calls[d][b].env.key # calls[d][c].env.key

KeysInv ==
    KeyTypes /\ StatesInv /\ SealedInv /\ RootsInv /\ AheadInv /\ HandsInv /\ KeyUniqueOnPage

LEMMA EnvMono ==
    ASSUME NEW d, NEW e, NEW b \in Nat, NEW c \in Nat, b <= c, NEW l \in Nat, NEW k \in Nat, l <= k,
           EnvInv(d, e, b, l)
    PROVE  EnvInv(d, e, c, k)
  <1>1. /\ e \in Envelope /\ e.key.root \in RootKey /\ e.header.dh \in Nat /\ e.life \in Nat
        /\ e.handshake \in Nat \cup {None}
    BY DEF EnvInv, Envelope, Header, ChainKey, KeyPair
  <1>2. e.handshake # None => e.handshake < c
    BY <1>1 DEF EnvInv
  <1> QED BY <1>1, <1>2, BelowMono DEF EnvInv

\* Whatever d comes to have is new, or on a root it had.
LEMMA Grows ==
    ASSUME KeyTypes, KeyTypes', StatesInv, SealedInv, RootsInv, NEW d \in Device,
           nextKey <= nextKey', \A e \in Device : reloads[e] <= reloads'[e],
           \A e \in Device : \A st \in Held(e)' :
              \/ st \in Held(e)
              \/ /\ e = d /\ StateInv(d, st, nextKey')
                 /\ \A r : SendsOn(st, r) => OnRoot(d, r) \/ ~RootBelow(r, nextKey),
           \A e \in Device : \A m : Sealed(e, m)' =>
              \/ Sealed(e, m)
              \/ /\ e = d /\ EnvInv(d, m, nextKey', reloads'[d])
                 /\ OnRoot(d, m.key.root) \/ ~RootBelow(m.key.root, nextKey)
    PROVE  StatesInv' /\ SealedInv' /\ RootsInv'
  <1>1. /\ nextKey \in Nat /\ nextKey' \in Nat
        /\ \A e \in Device : reloads[e] \in Nat /\ reloads'[e] \in Nat
    BY DEF KeyTypes
  <1>2. StatesInv'
    <2> SUFFICES ASSUME NEW e \in Device, NEW st \in Held(e)' PROVE StateInv(e, st, nextKey')
      BY DEF StatesInv
    <2>1. CASE st \in Held(e)
      BY <1>1, <2>1, SessionMono DEF StatesInv, StateInv
    <2> QED BY <2>1
  <1>3. SealedInv'
    <2> SUFFICES ASSUME NEW e \in Device, NEW m, Sealed(e, m)'
                 PROVE  EnvInv(e, m, nextKey', reloads'[e])
      BY DEF SealedInv
    <2>1. CASE Sealed(e, m)
      BY <1>1, <2>1, EnvMono DEF SealedInv
    <2> QED BY <2>1
  <1>4. ASSUME NEW e \in Device, NEW r, OnRoot(e, r)'
        PROVE  OnRoot(e, r) \/ (e = d /\ ~RootBelow(r, nextKey))
    <2>1. CASE \E st \in Held(e)' : SendsOn(st, r)
      <3> PICK st \in Held(e)' : SendsOn(st, r)
        BY <2>1
      <3>1. CASE st \in Held(e)
        BY <3>1 DEF OnRoot
      <3> QED BY <3>1
    <2>2. CASE \E m : Sealed(e, m)' /\ m.key.root = r
      <3> PICK m : Sealed(e, m)' /\ m.key.root = r
        BY <2>2
      <3>1. CASE Sealed(e, m)
        BY <3>1 DEF OnRoot
      <3> QED BY <3>1
    <2> QED BY <1>4, <2>1, <2>2 DEF OnRoot
  <1>5. ASSUME NEW e \in Device, NEW r, OnRoot(e, r) PROVE RootBelow(r, nextKey)
    <2>1. CASE \E st \in Held(e) : SendsOn(st, r)
      BY <2>1 DEF StatesInv, StateInv, SendsOn, SessionInv, Below
    <2>2. CASE \E m : Sealed(e, m) /\ m.key.root = r
      BY <2>2 DEF SealedInv, EnvInv
    <2> QED BY <1>5, <2>1, <2>2 DEF OnRoot
  <1>6. RootsInv'
    <2> SUFFICES ASSUME NEW e \in Device, NEW r, OnRoot(e, r)', OnRoot(Peer(e), r)'
                 PROVE  FALSE
      BY DEF RootsInv, Peer
    <2>1. Peer(e) \in Device /\ Peer(e) # e
      BY Peers
    <2>2. OnRoot(e, r) \/ (e = d /\ ~RootBelow(r, nextKey))
      BY <1>4
    <2>3. OnRoot(Peer(e), r) \/ (Peer(e) = d /\ ~RootBelow(r, nextKey))
      BY <1>4, <2>1
    <2>4. ~(OnRoot(e, r) /\ OnRoot(Peer(e), r))
      BY DEF RootsInv
    <2> QED BY <1>5, <2>1, <2>2, <2>3, <2>4
  <1> QED BY <1>2, <1>3, <1>6

\* Nothing is sealed, opened or posted: states change places at most.
Rests ==
    /\ page' = page /\ nextKey' = nextKey /\ reloads' = reloads /\ sent' = sent
    /\ \A e \in Device : \A st \in Held(e)' : st \in Held(e)
    /\ \A e \in Device : \A b \in Slots[e] :
         Posting(e, b)' => Posting(e, b) /\ calls'[e][b] = calls[e][b]

LEMMA RestsKeys ==
    ASSUME KeysInv, KeyTypes', Rests
    PROVE  KeysInv'
  <1>1. ASSUME NEW e \in Device, NEW m, Sealed(e, m)' PROVE Sealed(e, m)
    <2>1. CASE \E i \in DOMAIN sent' : sent'[i].from = e /\ sent'[i] = m
      BY <2>1 DEF Rests, Sealed
    <2>2. CASE \E c \in Slots[e] : Posting(e, c)' /\ calls'[e][c].env = m
      BY <2>2 DEF Rests, Sealed
    <2> QED BY <1>1, <2>1, <2>2 DEF Sealed
  <1>2. StatesInv' /\ SealedInv' /\ RootsInv'
    <2>1. 1 \in Device
      BY DEF Device
    <2>2. nextKey <= nextKey' /\ \A e \in Device : reloads[e] <= reloads'[e]
      BY DEF Rests, KeysInv, KeyTypes
    <2> QED BY <1>1, <2>1, <2>2, Grows DEF Rests, KeysInv
  <1>3. AheadInv'
    <2>1. page' = page /\ reloads' = reloads
      BY DEF Rests
    <2> QED BY <1>1, <2>1 DEF AheadInv, KeysInv
  <1>4. HandsInv'
    <2> SUFFICES ASSUME NEW d \in Device, NEW c \in Slots[d], Posting(d, c)'
                 PROVE  /\ calls'[d][c].env.life = reloads'[d]
                        /\ \A i \in DOMAIN sent' : sent'[i].from = d /\ sent'[i].life = reloads'[d] =>
                              sent'[i].key # calls'[d][c].env.key
                        /\ \A b \in Slots[d] : Posting(d, b)' /\ b # c =>
                              calls'[d][b].env.key # calls'[d][c].env.key
      BY DEF HandsInv
    <2>1. Posting(d, c) /\ calls'[d][c] = calls[d][c]
      BY DEF Rests
    <2> QED BY <2>1 DEF Rests, KeysInv, HandsInv
  <1>5. KeyUniqueOnPage'
    BY DEF KeysInv, KeyUniqueOnPage, Rests
  <1> QED BY <1>2, <1>3, <1>4, <1>5 DEF KeysInv

\* A call goes on, or ends, without an envelope to post.
LEMMA CallRests ==
    ASSUME CallsType, NEW d \in Device, NEW c \in Slots[d], NEW x, OneCall(d, c, x),
           UNCHANGED <<page, nextKey, reloads, sent>>,
           x.stage # "posting",
           x.stage \in {"saving", "ending"} => x.copy \in Held(d),
           \A e \in Device : stored'[e] \in Held(e)
    PROVE  Rests
  <1>1. ASSUME NEW e \in Device, NEW st \in Held(e)' PROVE st \in Held(e)
    <2>1. CASE st = page'[e] \/ st = stored'[e]
      BY <2>1 DEF Held
    <2>2. ASSUME NEW b \in Slots[e], calls'[e][b].stage \in {"saving", "ending"},
                 st = calls'[e][b].copy
          PROVE  st \in Held(e)
      <3>1. CASE e = d /\ b = c
        BY <2>2, <3>1 DEF OneCall
      <3>2. CASE calls'[e][b] = calls[e][b]
        BY <2>2, <3>2 DEF Held
      <3> QED BY <3>1, <3>2 DEF OneCall
    <2>3. \/ st = page'[e] \/ st = stored'[e]
          \/ \E b \in Slots[e] : calls'[e][b].stage \in {"saving", "ending"} /\ st = calls'[e][b].copy
      BY DEF Held
    <2> QED BY <2>1, <2>2, <2>3
  <1>2. ASSUME NEW e \in Device, NEW b \in Slots[e], Posting(e, b)'
        PROVE  Posting(e, b) /\ calls'[e][b] = calls[e][b]
    BY <1>2 DEF Posting, At, OneCall
  <1> QED BY <1>1, <1>2 DEF Rests

\* A call that keeps what it has in memory.
LEMMA CallIs ==
    ASSUME KeyTypes, NEW d \in Device, NEW c \in Slots[d]
    PROVE  /\ calls[d][c] \in Call /\ page[d] \in State /\ stored[d] \in State
           /\ page[d] \in Held(d) /\ \A e \in Device : stored[e] \in Held(e)
           /\ calls[d][c].stage \in {"saving", "ending"} => calls[d][c].copy \in Held(d)
  BY DEF KeyTypes, CallsType, Held

\* The actions that only move states and calls about.
Quiet(d, c) ==
    \/ FetchBundle(d, c) \/ PostFails(d, c) \/ PostAnswered(d, c) \/ Written(d, c)
    \/ LoadHistory(d, c) \/ StoreHistory(d, c) \/ WriteFails(d, c)
    \/ SyncHistory(d, c) \/ AnswerHistory(d, c) \/ EndSync(d, c)

\* The message of x is on its way into the history.
Carries(x) == x.stage \in {"posted", "saving", "appending", "loaded"}

\* What a quiet step that leaves the call x does to the history: nothing, or
\* the message of the call goes into it.
Notes(d, c, x) ==
    LET y == calls[d][c] IN
    /\ x.rest \subseteq y.rest \cup Inbound(d)
    /\ \/ /\ history' = history /\ x.base \subseteq y.base \cup history[d]
          /\ Carries(x) => Carries(y) /\ x.msg = y.msg
       \/ /\ Carries(y) /\ ~Carries(x) /\ x.base = {}
          /\ history' = [history EXCEPT ![d] = y.base \cup {y.msg}]

\* A quiet step leaves the call x, and stored copies of held states.
LEMMA QuietIs ==
    ASSUME KeysInv, BookTypes, NEW d \in Device, NEW c \in Slots[d], Quiet(d, c)
    PROVE  \E x \in Call :
             /\ OneCall(d, c, x) /\ UNCHANGED <<page, nextKey, reloads, sent>>
             /\ x.stage # "posting"
             /\ x.stage \in {"saving", "ending"} => x.copy \in Held(d)
             /\ \A e \in Device : stored'[e] \in Held(e)
             /\ stored' \in [Device -> State]
             /\ Notes(d, c, x) /\ pushed' = pushed
  <1> PICK y : y = calls[d][c]
    OBVIOUS
  <1>1. /\ y \in Call /\ page[d] \in State /\ stored \in [Device -> State]
        /\ page[d] \in Held(d) /\ \A e \in Device : stored[e] \in Held(e)
        /\ y.stage \in {"saving", "ending"} => y.copy \in Held(d)
        /\ Held(d) \subseteq State
        /\ CallsType
    BY CallIs DEF KeysInv, KeyTypes
  <1>2. ASSUME NEW x \in Call, SetCall(d, c, x), UNCHANGED <<page, nextKey, reloads, sent>>,
               x.stage # "posting", x.stage \in {"saving", "ending"} => x.copy \in Held(d),
               stored' = stored, Notes(d, c, x)
        PROVE  \E z \in Call :
                 /\ OneCall(d, c, z) /\ UNCHANGED <<page, nextKey, reloads, sent>>
                 /\ z.stage # "posting"
                 /\ z.stage \in {"saving", "ending"} => z.copy \in Held(d)
                 /\ \A e \in Device : stored'[e] \in Held(e)
                 /\ stored' \in [Device -> State]
                 /\ Notes(d, c, z) /\ pushed' = pushed
    <2>1. OneCall(d, c, x)
      BY <1>1, <1>2, SetCallIs
    <2>2. pushed' = pushed
      BY DEF Quiet, FetchBundle, PostFails, PostAnswered, Written, LoadHistory, StoreHistory,
             WriteFails, SyncHistory, AnswerHistory, EndSync
    <2> QED BY <1>1, <1>2, <2>1, <2>2
  \* A call that ends, or begins with nothing in hand.
  <1>3. ASSUME NEW x, ~Carries(x), x.base = {}, x.rest = {}, history' = history
         PROVE  Notes(d, c, x)
    BY <1>3 DEF Notes
  <1>4. CASE FetchBundle(d, c)
    <2> PICK x : x = [NoCall EXCEPT !.job = "send", !.stage = "fetching"]
      OBVIOUS
    <2>1. x \in Call /\ x.stage = "fetching"
      <3>1. x \in Call
        BY <1>1, CallForms
      <3> QED BY <3>1 DEF NoCall
    <2>2. SetCall(d, c, x) /\ UNCHANGED <<page, nextKey, reloads, sent, stored, history>>
      BY <1>4 DEF FetchBundle
    <2>3. Notes(d, c, x)
      <3>1. x.base = {} /\ x.rest = {}
        BY DEF NoCall
      <3> QED BY <1>3, <2>1, <2>2, <3>1 DEF Carries
    <2> QED BY <1>2, <2>1, <2>2, <2>3
  <1>5. CASE PostFails(d, c) \/ WriteFails(d, c)
    <2>1. NoCall.stage = "idle" /\ NoCall.base = {} /\ NoCall.rest = {}
      BY DEF NoCall
    <2>2. SetCall(d, c, NoCall) /\ UNCHANGED <<page, nextKey, reloads, sent, stored, history>>
      BY <1>5 DEF PostFails, WriteFails
    <2>3. Notes(d, c, NoCall)
      BY <1>3, <2>1, <2>2 DEF Carries
    <2> QED BY <1>2, <2>1, <2>2, <2>3, NoCallType
  <1>6. CASE PostAnswered(d, c)
    <2> PICK x : x = [y EXCEPT !.stage = "saving", !.copy = page[d]]
      OBVIOUS
    <2>1. x \in Call /\ x.stage = "saving" /\ x.copy = page[d]
      <3>1. x \in Call
        BY <1>1, CallForms
      <3> QED BY <1>1, <3>1 DEF Call
    <2>2. SetCall(d, c, x) /\ UNCHANGED <<page, nextKey, reloads, sent, stored, history>>
      BY <1>6 DEF PostAnswered, Snapshot
    <2>3. Notes(d, c, x)
      <3>1. x.base = y.base /\ x.rest = y.rest /\ x.msg = y.msg
        BY <1>1 DEF Call
      <3>2. Carries(y)
        BY <1>6 DEF PostAnswered, At, Carries
      <3> QED BY <2>2, <3>1, <3>2 DEF Notes
    <2> QED BY <1>1, <1>2, <2>1, <2>2, <2>3
  <1>7. CASE EndSync(d, c)
    <2> PICK x : x = [y EXCEPT !.stage = "ending", !.copy = page[d]]
      OBVIOUS
    <2>1. x \in Call /\ x.stage = "ending" /\ x.copy = page[d]
      <3>1. x \in Call
        BY <1>1, CallForms
      <3> QED BY <1>1, <3>1 DEF Call
    <2>2. SetCall(d, c, x) /\ UNCHANGED <<page, nextKey, reloads, sent, stored, history>>
      BY <1>7 DEF EndSync, Snapshot
    <2>3. Notes(d, c, x)
      <3>1. x.base = y.base /\ x.rest = y.rest /\ x.msg = y.msg
        BY <1>1 DEF Call
      <3> QED BY <2>1, <2>2, <3>1 DEF Notes, Carries
    <2> QED BY <1>1, <1>2, <2>1, <2>2, <2>3
  <1>8. CASE LoadHistory(d, c)
    <2> PICK x : x = [y EXCEPT !.stage = "loaded", !.base = history[d]]
      OBVIOUS
    <2>1. history[d] \in SUBSET Nat
      BY DEF BookTypes
    <2>2. x \in Call /\ x.stage = "loaded"
      <3>1. x \in Call
        BY <1>1, <2>1, CallForms
      <3> QED BY <1>1, <3>1 DEF Call
    <2>3. SetCall(d, c, x) /\ UNCHANGED <<page, nextKey, reloads, sent, stored, history>>
      BY <1>8 DEF LoadHistory
    <2>4. Notes(d, c, x)
      <3>1. x.base = history[d] /\ x.rest = y.rest /\ x.msg = y.msg
        BY <1>1 DEF Call
      <3>2. Carries(y)
        BY <1>8 DEF LoadHistory, At, Carries
      <3> QED BY <2>3, <3>1, <3>2 DEF Notes
    <2> QED BY <1>2, <2>2, <2>3, <2>4
  <1>9. CASE StoreHistory(d, c)
    <2> PICK z : z = [NoCall EXCEPT !.job = "sync", !.stage = "handling", !.rest = y.rest]
      OBVIOUS
    <2> PICK x : x = IF y.job # "sync" THEN NoCall ELSE z
      OBVIOUS
    <2>1. z \in Call /\ z.stage = "handling" /\ NoCall.stage = "idle"
      <3>1. z \in Call
        BY <1>1, CallForms
      <3> QED BY <3>1 DEF NoCall
    <2>2. x \in Call /\ x.stage \in {"handling", "idle"}
      BY <2>1, NoCallType
    <2>3. SetCall(d, c, x) /\ UNCHANGED <<page, nextKey, reloads, sent, stored>>
      BY <1>9 DEF StoreHistory
    <2>4. Notes(d, c, x)
      <3>1. x.base = {} /\ x.rest \subseteq y.rest
        BY DEF NoCall
      <3>2. Carries(y) /\ history' = [history EXCEPT ![d] = y.base \cup {y.msg}]
        BY <1>9 DEF StoreHistory, At, Carries
      <3>3. ~Carries(x)
        BY <2>2 DEF Carries
      <3> QED BY <3>1, <3>2, <3>3 DEF Notes
    <2> QED BY <1>2, <2>2, <2>3, <2>4
  <1>10. CASE SyncHistory(d, c)
    <2> PICK since \in 0 .. Len(sent) :
          SetCall(d, c, [NoCall EXCEPT !.job = "sync", !.stage = "asking", !.msg = since])
      BY <1>10 DEF SyncHistory
    <2> PICK x : x = [NoCall EXCEPT !.job = "sync", !.stage = "asking", !.msg = since]
      OBVIOUS
    <2>1. x \in Call /\ x.stage = "asking"
      <3>1. since \in Nat
        BY DEF KeysInv, KeyTypes
      <3>2. x \in Call
        BY <1>1, <3>1, CallForms
      <3> QED BY <3>2 DEF NoCall
    <2>2. SetCall(d, c, x) /\ UNCHANGED <<page, nextKey, reloads, sent, stored, history>>
      BY <1>10 DEF SyncHistory
    <2>3. Notes(d, c, x)
      <3>1. x.base = {} /\ x.rest = {}
        BY DEF NoCall
      <3> QED BY <1>3, <2>1, <2>2, <3>1 DEF Carries
    <2> QED BY <1>2, <2>1, <2>2, <2>3
  <1>11. CASE AnswerHistory(d, c)
    <2> PICK q : q = {i \in Inbound(d) : i > calls[d][c].msg}
      OBVIOUS
    <2> PICK x : x = [NoCall EXCEPT !.job = "sync", !.stage = "handling", !.rest = q]
      OBVIOUS
    <2>1. q \in SUBSET Nat
      BY DEF KeysInv, KeyTypes, Inbound
    <2>2. x \in Call /\ x.stage = "handling"
      <3>1. x \in Call
        BY <1>1, <2>1, CallForms
      <3> QED BY <3>1 DEF NoCall
    <2>3. SetCall(d, c, x) /\ UNCHANGED <<page, nextKey, reloads, sent, stored, history>>
      BY <1>11 DEF AnswerHistory
    <2>4. Notes(d, c, x)
      <3>1. x.base = {} /\ x.rest \subseteq Inbound(d)
        BY DEF NoCall
      <3> QED BY <2>2, <2>3, <3>1 DEF Notes, Carries
    <2> QED BY <1>2, <2>2, <2>3, <2>4
  <1>12. CASE Written(d, c)
    <2> PICK z : z = [y EXCEPT !.stage = "appending", !.copy = None]
      OBVIOUS
    <2> PICK x : x = IF At(d, c, "ending") THEN NoCall ELSE z
      OBVIOUS
    <2>1. z \in Call /\ z.stage = "appending" /\ NoCall.stage = "idle"
      <3>1. z \in Call
        BY <1>1, CallForms
      <3>2. z.stage = "appending"
        BY <1>1 DEF Call
      <3> QED BY <3>1, <3>2 DEF NoCall
    <2>2. x \in Call /\ x.stage \in {"appending", "idle"}
      BY <2>1, NoCallType
    <2>3. SetCall(d, c, x) /\ UNCHANGED <<page, nextKey, reloads, sent>>
      BY <1>12 DEF Written
    <2>4. OneCall(d, c, x)
      BY <1>1, <2>2, <2>3, SetCallIs
    <2>5. y.stage \in {"saving", "ending"} /\ stored' = [stored EXCEPT ![d] = y.copy]
      BY <1>12 DEF Written, At
    <2>6. y.copy \in Held(d)
      BY <1>1, <2>5
    <2>7. y.copy \in State
      BY <1>1, <2>6
    <2>8. stored' \in [Device -> State] /\ \A e \in Device : stored'[e] \in Held(e)
      BY <1>1, <2>5, <2>6, <2>7
    <2>9. Notes(d, c, x)
      <3>1. z.base = y.base /\ z.rest = y.rest /\ z.msg = y.msg
        BY <1>1 DEF Call
      <3>2. history' = history /\ pushed' = pushed
        BY <1>12 DEF Written
      <3>3. CASE At(d, c, "ending")
        <4>1. x = NoCall /\ NoCall.base = {} /\ NoCall.rest = {} /\ NoCall.stage = "idle"
          BY <3>3 DEF NoCall
        <4> QED BY <1>3, <3>2, <4>1 DEF Carries
      <3>4. CASE ~At(d, c, "ending")
        <4>1. Carries(y)
          BY <1>12, <3>4 DEF Written, At, Carries
        <4> QED BY <3>1, <3>2, <3>4, <4>1 DEF Notes
      <3> QED BY <3>3, <3>4
    <2>10. pushed' = pushed
      BY <1>12 DEF Written
    <2> QED BY <2>2, <2>3, <2>4, <2>8, <2>9, <2>10
  <1> QED BY <1>4, <1>5, <1>6, <1>7, <1>8, <1>9, <1>10, <1>11, <1>12 DEF Quiet

LEMMA QuietKeys ==
    ASSUME KeysInv, BookTypes, NEW d \in Device, NEW c \in Slots[d], Quiet(d, c)
    PROVE  KeysInv'
  <1>1. PICK x \in Call :
             /\ OneCall(d, c, x) /\ UNCHANGED <<page, nextKey, reloads, sent>>
             /\ x.stage # "posting"
             /\ x.stage \in {"saving", "ending"} => x.copy \in Held(d)
             /\ \A e \in Device : stored'[e] \in Held(e)
             /\ stored' \in [Device -> State]
    BY QuietIs
  <1>2. Rests
    BY <1>1, CallRests DEF KeysInv, KeyTypes
  <1>3. KeyTypes'
    <2>1. CallsType' /\ stored' \in [Device -> State]
      BY <1>1 DEF OneCall
    <2>2. \A e \in Device : (Held(e))' \subseteq State
      BY <1>2 DEF Rests, KeysInv, KeyTypes
    <2> QED BY <1>1, <2>1, <2>2 DEF KeysInv, KeyTypes
  <1> QED BY <1>2, <1>3, RestsKeys

\* The envelope that is posted was about to be.
LEMMA PostKeys ==
    ASSUME KeysInv, NEW d \in Device, NEW c \in Slots[d], PostStored(d, c)
    PROVE  KeysInv'
  <1> PICK y, n : y = calls[d][c] /\ n = Len(sent) + 1
    OBVIOUS
  <1> PICK x : x = [NoCall EXCEPT !.job = "send", !.stage = "posted", !.msg = n]
    OBVIOUS
  <1>1. Posting(d, c) /\ Sealed(d, y.env)
    BY DEF PostStored, Posting, Sealed
  <1>2. EnvInv(d, y.env, nextKey, reloads[d])
    BY <1>1 DEF KeysInv, SealedInv
  <1>3. sent \in Seq(Envelope) /\ y.env \in Envelope /\ y.env.from = d /\ sent' = Append(sent, y.env)
    BY <1>2 DEF KeysInv, KeyTypes, EnvInv, PostStored
  <1>4. /\ sent' \in Seq(Envelope) /\ n \in Nat /\ DOMAIN sent' = DOMAIN sent \cup {n}
        /\ n \notin DOMAIN sent /\ sent'[n] = y.env
        /\ \A i \in DOMAIN sent : sent'[i] = sent[i]
    BY <1>3
  <1>5. UNCHANGED <<page, stored, history, synced, sends, reloads, offered, nextKey, pushed>>
    BY DEF PostStored
  <1>6. x \in Call /\ x.stage = "posted"
    <2>1. y \in Call
      BY DEF KeysInv, KeyTypes, CallsType
    <2>2. x \in Call
      BY <1>4, <2>1, CallForms
    <2> QED BY <2>2 DEF NoCall
  <1>7. OneCall(d, c, x)
    <2>1. SetCall(d, c, x)
      BY DEF PostStored
    <2> QED BY <1>6, <2>1, SetCallIs DEF KeysInv, KeyTypes
  <1>8. ASSUME NEW e \in Device, NEW b \in Slots[e], Posting(e, b)'
        PROVE  Posting(e, b) /\ calls'[e][b] = calls[e][b] /\ ~(e = d /\ b = c)
    BY <1>6, <1>7, <1>8 DEF Posting, At, OneCall
  <1>9. ASSUME NEW e \in Device, NEW st \in Held(e)' PROVE st \in Held(e)
    <2>1. CASE st = page'[e] \/ st = stored'[e]
      BY <1>5, <2>1 DEF Held
    <2>2. ASSUME NEW b \in Slots[e], calls'[e][b].stage \in {"saving", "ending"},
                 st = calls'[e][b].copy
          PROVE  st \in Held(e)
      <3>1. calls'[e][b] = calls[e][b]
        BY <1>6, <1>7, <2>2 DEF OneCall
      <3> QED BY <2>2, <3>1 DEF Held
    <2>3. \/ st = page'[e] \/ st = stored'[e]
          \/ \E b \in Slots[e] : calls'[e][b].stage \in {"saving", "ending"} /\ st = calls'[e][b].copy
      BY DEF Held
    <2> QED BY <2>1, <2>2, <2>3
  <1>10. ASSUME NEW e \in Device, NEW m, Sealed(e, m)' PROVE Sealed(e, m)
    <2>1. ASSUME NEW i \in DOMAIN sent', sent'[i].from = e, sent'[i] = m PROVE Sealed(e, m)
      <3>1. CASE i = n
        BY <1>1, <1>3, <1>4, <2>1, <3>1
      <3>2. CASE i \in DOMAIN sent
        BY <1>4, <2>1, <3>2 DEF Sealed
      <3> QED BY <1>4, <3>1, <3>2
    <2>2. ASSUME NEW b \in Slots[e], Posting(e, b)', calls'[e][b].env = m PROVE Sealed(e, m)
      BY <1>8, <2>2 DEF Sealed
    <2> QED BY <1>10, <2>1, <2>2 DEF Sealed
  <1>11. KeyTypes'
    <2>1. CallsType'
      BY <1>7 DEF OneCall
    <2>2. \A e \in Device : (Held(e))' \subseteq State
      BY <1>9 DEF KeysInv, KeyTypes
    <2> QED BY <1>4, <1>5, <2>1, <2>2 DEF KeysInv, KeyTypes
  <1>12. StatesInv' /\ SealedInv' /\ RootsInv'
    <2>1. nextKey <= nextKey' /\ \A e \in Device : reloads[e] <= reloads'[e]
      BY <1>5 DEF KeysInv, KeyTypes
    <2> QED BY <1>9, <1>10, <1>11, <2>1, Grows DEF KeysInv
  <1>13. AheadInv'
    BY <1>5, <1>10 DEF AheadInv, KeysInv
  <1>14. HandsInv'
    <2> SUFFICES ASSUME NEW e \in Device, NEW b \in Slots[e], Posting(e, b)'
                 PROVE  /\ calls'[e][b].env.life = reloads'[e]
                        /\ \A i \in DOMAIN sent' : sent'[i].from = e /\ sent'[i].life = reloads'[e] =>
                              sent'[i].key # calls'[e][b].env.key
                        /\ \A a \in Slots[e] : Posting(e, a)' /\ a # b =>
                              calls'[e][a].env.key # calls'[e][b].env.key
      BY DEF HandsInv
    <2>1. Posting(e, b) /\ calls'[e][b] = calls[e][b] /\ ~(e = d /\ b = c)
      BY <1>8
    <2>2. ASSUME NEW i \in DOMAIN sent', sent'[i].from = e, sent'[i].life = reloads'[e]
          PROVE  sent'[i].key # calls'[e][b].env.key
      <3>1. CASE i \in DOMAIN sent
        BY <1>4, <1>5, <2>1, <2>2, <3>1 DEF KeysInv, HandsInv
      <3>2. CASE i = n
        <4>1. e = d /\ c # b /\ sent'[i] = y.env
          BY <1>3, <1>4, <2>1, <2>2, <3>2
        <4> QED BY <1>1, <2>1, <4>1 DEF KeysInv, HandsInv
      <3> QED BY <1>4, <3>1, <3>2
    <2> QED BY <1>5, <1>8, <2>1, <2>2 DEF KeysInv, HandsInv
  <1>15. ASSUME NEW i \in DOMAIN sent, sent[i].key = y.env.key, sent[i].life = y.env.life
         PROVE  FALSE
    <2>1. y.env.life = reloads[d]
      <3>1. calls[d][c].env.life = reloads[d]
        BY <1>1, Zenon DEF KeysInv, HandsInv
      <3> QED BY <3>1
    <2>2. sent[i] \in Envelope /\ sent[i].from \in Device
      <3>1. sent[i] \in Envelope
        BY <1>3
      <3> QED BY <3>1 DEF Envelope
    <2>3. CASE sent[i].from = d
      BY <1>1, <1>15, <2>1, <2>3 DEF KeysInv, HandsInv
    <2>4. CASE sent[i].from = Peer(d)
      <3>1. Sealed(Peer(d), sent[i])
        BY <2>4 DEF Sealed
      <3>2. OnRoot(Peer(d), y.env.key.root) /\ OnRoot(d, y.env.key.root)
        BY <1>1, <1>15, <3>1 DEF OnRoot
      <3> QED BY <3>2 DEF KeysInv, RootsInv
    <2> QED BY <2>2, <2>3, <2>4, Peers
  <1>16. KeyUniqueOnPage'
    <2> SUFFICES ASSUME NEW i \in DOMAIN sent', NEW j \in DOMAIN sent',
                        sent'[i].key = sent'[j].key, sent'[i].life = sent'[j].life
                 PROVE  i = j
      BY DEF KeyUniqueOnPage
    <2>1. CASE i \in DOMAIN sent /\ j \in DOMAIN sent
      BY <1>4, <2>1 DEF KeysInv, KeyUniqueOnPage
    <2>2. CASE i = n /\ j \in DOMAIN sent
      BY <1>4, <1>15, <2>2
    <2>3. CASE i \in DOMAIN sent /\ j = n
      BY <1>4, <1>15, <2>3
    <2> QED BY <1>4, <2>1, <2>2, <2>3
  <1> QED BY <1>11, <1>12, <1>13, <1>14, <1>16 DEF KeysInv

\* Loading the page again begins another life.
LEMMA ReloadKeys ==
    ASSUME KeysInv, NEW d \in Device, Reload(d)
    PROVE  KeysInv'
  <1>1. /\ reloads' = [reloads EXCEPT ![d] = @ + 1] /\ page' = [page EXCEPT ![d] = stored[d]]
        /\ calls' = [calls EXCEPT ![d] = [c \in Slots[d] |-> NoCall]]
        /\ UNCHANGED <<stored, history, sends, offered, nextKey, sent>>
    BY DEF Reload
  <1>2. /\ reloads \in [Device -> Nat] /\ reloads' \in [Device -> Nat] /\ reloads'[d] = reloads[d] + 1
        /\ \A e \in Device : e # d => reloads'[e] = reloads[e]
    BY <1>1 DEF KeysInv, KeyTypes
  <1>3. /\ page' \in [Device -> State] /\ page'[d] = stored[d]
        /\ \A e \in Device : e # d => page'[e] = page[e]
    BY <1>1 DEF KeysInv, KeyTypes
  <1>4. /\ CallsType' /\ \A c \in Slots[d] : calls'[d][c] = NoCall
        /\ \A e \in Device : e # d => calls'[e] = calls[e]
    BY <1>1, NoCallType DEF KeysInv, KeyTypes, CallsType
  <1>5. NoCall.stage = "idle"
    BY DEF NoCall
  <1>6. ASSUME NEW e \in Device, NEW b \in Slots[e], Posting(e, b)'
        PROVE  e # d /\ Posting(e, b) /\ calls'[e][b] = calls[e][b]
    BY <1>4, <1>5, <1>6 DEF Posting, At
  <1>7. ASSUME NEW e \in Device, NEW st \in Held(e)' PROVE st \in Held(e)
    <2>1. CASE st = page'[e] \/ st = stored'[e]
      BY <1>1, <1>3, <2>1 DEF Held
    <2>2. ASSUME NEW b \in Slots[e], calls'[e][b].stage \in {"saving", "ending"},
                 st = calls'[e][b].copy
          PROVE  st \in Held(e)
      <3>1. calls'[e][b] = calls[e][b]
        BY <1>4, <1>5, <2>2
      <3> QED BY <2>2, <3>1 DEF Held
    <2>3. \/ st = page'[e] \/ st = stored'[e]
          \/ \E b \in Slots[e] : calls'[e][b].stage \in {"saving", "ending"} /\ st = calls'[e][b].copy
      BY DEF Held
    <2> QED BY <2>1, <2>2, <2>3
  <1>8. ASSUME NEW e \in Device, NEW m, Sealed(e, m)' PROVE Sealed(e, m)
    <2>1. CASE \E i \in DOMAIN sent' : sent'[i].from = e /\ sent'[i] = m
      BY <1>1, <2>1 DEF Sealed
    <2>2. CASE \E c \in Slots[e] : Posting(e, c)' /\ calls'[e][c].env = m
      BY <1>6, <2>2 DEF Sealed
    <2> QED BY <1>8, <2>1, <2>2 DEF Sealed
  <1>9. KeyTypes'
    <2>1. \A e \in Device : (Held(e))' \subseteq State
      BY <1>7 DEF KeysInv, KeyTypes
    <2> QED BY <1>1, <1>2, <1>3, <1>4, <2>1 DEF KeysInv, KeyTypes
  <1>10. StatesInv' /\ SealedInv' /\ RootsInv'
    <2>1. nextKey <= nextKey' /\ \A e \in Device : reloads[e] <= reloads'[e]
      BY <1>1, <1>2 DEF KeysInv, KeyTypes
    <2> QED BY <1>7, <1>8, <1>9, <2>1, Grows DEF KeysInv
  <1>11. AheadInv'
    <2> SUFFICES ASSUME NEW e \in Device, NEW m, Sealed(e, m)', m.life = reloads'[e],
                        SendsOn(page'[e], m.key.root)
                 PROVE  m.key.step < page'[e].session.send.key.step
      BY DEF AheadInv, SendsOn, NeedsRotation, ZeroKey
    <2>1. Sealed(e, m)
      BY <1>8
    <2>2. m.life <= reloads[e] /\ m.life \in Nat
      BY <2>1 DEF KeysInv, SealedInv, EnvInv, Envelope
    <2>3. e # d
      BY <1>2, <2>2
    <2> QED BY <1>2, <1>3, <2>1, <2>3 DEF KeysInv, AheadInv
  <1>12. HandsInv'
    <2> SUFFICES ASSUME NEW e \in Device, NEW b \in Slots[e], Posting(e, b)'
                 PROVE  /\ calls'[e][b].env.life = reloads'[e]
                        /\ \A i \in DOMAIN sent' : sent'[i].from = e /\ sent'[i].life = reloads'[e] =>
                              sent'[i].key # calls'[e][b].env.key
                        /\ \A a \in Slots[e] : Posting(e, a)' /\ a # b =>
                              calls'[e][a].env.key # calls'[e][b].env.key
      BY DEF HandsInv
    <2>1. e # d /\ Posting(e, b) /\ calls'[e][b] = calls[e][b] /\ reloads'[e] = reloads[e]
      BY <1>2, <1>6
    <2> QED BY <1>1, <1>6, <2>1 DEF KeysInv, HandsInv
  <1>13. KeyUniqueOnPage'
    BY <1>1 DEF KeysInv, KeyUniqueOnPage
  <1> QED BY <1>9, <1>10, <1>11, <1>12, <1>13 DEF KeysInv

-----------------------------------------------------------------------------
(* Opening an envelope.                                                    *)

\* What the next session of d can open: no less is dead than before.
Later(d, st) ==
    /\ st.session # None
    /\ page[d].session # None =>
         \A k \in ChainKey : Dead(page[d].session, k) => Dead(st.session, k)

\* Session t of d was left by Decrypt(s, m), where s is the one of the page if
\* there is one.
LEMMA DecryptState ==
    ASSUME KeysInv, NEW d \in Device, NEW s, SessionInv(s, nextKey),
           page[d].session = None => NeedsRotation(s),
           page[d].session # None => s = page[d].session,
           NEW m, m \in Envelope, m.header.dh < nextKey, NEW out \in Decrypt(s, m),
           NEW st, st.session = out.session, st.prekeys \subseteq Prekeys[d]
    PROVE  /\ st.session \in Session /\ StateInv(d, st, nextKey) /\ Later(d, st)
           /\ \A r : SendsOn(st, r) =>
                SendsOn(page[d], r) /\ st.session.send = page[d].session.send
           /\ out.result = "read" =>
                /\ page[d].session # None => ~Dead(page[d].session, m.key)
                /\ Dead(st.session, m.key)
  <1> PICK t : t = out.session
    OBVIOUS
  <1>1. /\ m.header \in Header /\ nextKey \in Nat
    BY DEF Envelope, KeysInv, KeyTypes
  <1>2. SessionInv(t, nextKey) /\ SendsAs(t, s)
    BY <1>1, DecryptInv
  <1>3. /\ \A k \in ChainKey : Dead(s, k) => Dead(t, k)
        /\ out.result = "read" => ~Dead(s, m.key) /\ Dead(t, m.key)
    BY <1>1, DecryptDead DEF SessionInv
  <1>4. t \in Session /\ t # None
    BY <1>2, NoneIs DEF SessionInv, Tidy
  <1>5. ASSUME NEW r, SendsOn(st, r)
        PROVE  SendsOn(page[d], r) /\ st.session.send = page[d].session.send
    <2>1. ~NeedsRotation(t) /\ t.send.key.root = r
      BY <1>5 DEF SendsOn
    <2>2. t.send = s.send
      BY <1>2, <2>1 DEF SendsAs
    <2>3. ~NeedsRotation(s)
      BY <2>1, <2>2 DEF NeedsRotation
    <2> QED BY <2>1, <2>2, <2>3 DEF SendsOn
  <1>6. StateInv(d, st, nextKey)
    BY <1>2, <1>4 DEF StateInv
  <1>7. Later(d, st)
    BY <1>3, <1>4 DEF Later
  <1> QED BY <1>3, <1>4, <1>5, <1>6, <1>7

LEMMA OpeningIs ==
    ASSUME KeysInv, NEW d \in Device, NEW i \in Inbound(d), NEW o \in Opening(d, sent[i])
    PROVE  /\ o.state \in State /\ StateInv(d, o.state, nextKey)
           /\ \A r : SendsOn(o.state, r) =>
                SendsOn(page[d], r) /\ o.state.session.send = page[d].session.send
           /\ o.state = page[d] \/ Later(d, o.state)
           /\ o.result = "read" =>
                /\ page[d].session # None => ~Dead(page[d].session, sent[i].key)
                /\ o.state.session # None /\ Dead(o.state.session, sent[i].key)
                /\ Later(d, o.state)
  <1> PICK m, s, p : m = sent[i] /\ s = page[d].session /\ p = page[d].prekeys
    OBVIOUS
  <1>1. /\ page[d] \in State /\ page[d] \in Held(d) /\ nextKey \in Nat
        /\ s \in Session \cup {None} /\ p \in SUBSET KeyPair /\ nextKey >= FirstKey
        /\ page[d] = [session |-> s, prekeys |-> p]
    BY CallIs DEF KeysInv, KeyTypes, State, Held
  <1>2. StateInv(d, page[d], nextKey)
    BY <1>1 DEF KeysInv, StatesInv
  <1>3. /\ m \in Envelope /\ m.header.dh < nextKey
        /\ m.handshake # None => m.handshake \in Nat /\ m.handshake < nextKey
        /\ m.prekey # None => m.prekey \in Prekeys[d]
    <2>1. Sealed(Peer(d), m) /\ Peer(d) \in Device
      BY Peers DEF Inbound, Sealed
    <2>2. EnvInv(Peer(d), m, nextKey, reloads[Peer(d)])
      BY <2>1 DEF KeysInv, SealedInv
    <2>3. Peer(Peer(d)) = d
      BY Peers
    <2>4. m.handshake \in Nat \cup {None}
      BY <2>2 DEF EnvInv, Envelope, KeyPair
    <2> QED BY <2>2, <2>3, <2>4 DEF EnvInv
  <1>4. CASE s # None
    <2>1. PICK out \in Decrypt(s, m) :
            o = [state |-> [page[d] EXCEPT !.session = out.session], result |-> out.result]
      BY <1>4 DEF Opening
    <2> PICK st : st = o.state
      OBVIOUS
    <2>2. st.session = out.session /\ st.prekeys = p /\ o.result = out.result
          /\ st = [session |-> out.session, prekeys |-> p]
      BY <1>1, <2>1
    <2>3. SessionInv(s, nextKey) /\ p \subseteq Prekeys[d]
      BY <1>2, <1>4 DEF StateInv
    <2>4. /\ st.session \in Session /\ StateInv(d, st, nextKey) /\ Later(d, st)
          /\ \A r : SendsOn(st, r) =>
                SendsOn(page[d], r) /\ st.session.send = page[d].session.send
          /\ out.result = "read" =>
                /\ page[d].session # None => ~Dead(page[d].session, m.key)
                /\ Dead(st.session, m.key)
      BY <1>3, <1>4, <2>2, <2>3, DecryptState
    <2>5. st \in State
      BY <1>1, <2>2, <2>4 DEF State
    <2> QED BY <2>2, <2>4, <2>5 DEF Later
  <1>5. CASE s = None /\ (m.handshake = None \/ (m.prekey # None /\ m.prekey \notin p))
    <2>1. o.state = page[d] /\ o.result # "read"
      <3>1. CASE m.handshake = None
        <4>1. Opening(d, m) = {[state |-> page[d], result |-> "no handshake"]}
          BY <1>5, <3>1, Zenon DEF Opening
        <4>2. o = [state |-> page[d], result |-> "no handshake"]
          BY <4>1, Zenon
        <4> QED BY <4>2
      <3>2. CASE m.handshake # None
        <4>1. Opening(d, m) = {[state |-> page[d], result |-> "no prekey"]}
          BY <1>5, <3>2, Zenon DEF Opening
        <4>2. o = [state |-> page[d], result |-> "no prekey"]
          BY <4>1, Zenon
        <4> QED BY <4>2
      <3> QED BY <3>1, <3>2
    <2>2. \A r : ~SendsOn(page[d], r)
      BY <1>5 DEF SendsOn
    <2> QED BY <1>1, <1>2, <2>1, <2>2
  <1>6. CASE s = None /\ m.handshake # None /\ (m.prekey = None \/ m.prekey \in p)
    <2>1. PICK out \in Decrypt(Accepted(d, m), m) :
            o = [state |-> [session |-> out.session, prekeys |-> p \ {m.prekey}],
                 result |-> out.result]
      BY <1>6 DEF Opening
    <2> PICK st : st = o.state
      OBVIOUS
    <2>2. st.session = out.session /\ st.prekeys = p \ {m.prekey} /\ o.result = out.result
          /\ st = [session |-> out.session, prekeys |-> p \ {m.prekey}]
      BY <2>1
    <2>3. SessionInv(Accepted(d, m), nextKey) /\ NeedsRotation(Accepted(d, m))
      <3>1. d \in Nat /\ d < nextKey
        BY <1>1, Peers, NoneIs
      <3>2. m.prekey = None \/ (m.prekey \in Nat /\ m.prekey < nextKey)
        <4>1. CASE m.prekey # None
          <5>1. m.prekey \in Nat /\ m.prekey < FirstKey /\ FirstKey \in Nat
            BY <1>3, <4>1, NoneIs
          <5> QED BY <1>1, <5>1
        <4> QED BY <4>1
      <3> QED BY <1>1, <1>3, <1>6, <3>1, <3>2, AcceptedInv
    <2>4. st.prekeys \subseteq Prekeys[d]
      BY <1>2, <2>2 DEF StateInv
    <2>5. /\ st.session \in Session /\ StateInv(d, st, nextKey) /\ Later(d, st)
          /\ \A r : SendsOn(st, r) =>
                SendsOn(page[d], r) /\ st.session.send = page[d].session.send
          /\ out.result = "read" =>
                /\ page[d].session # None => ~Dead(page[d].session, m.key)
                /\ Dead(st.session, m.key)
      <3> PICK a : a = Accepted(d, m)
        OBVIOUS
      <3>1. page[d].session = None
        BY <1>6
      <3> QED BY <1>3, <2>2, <2>3, <2>4, <3>1, DecryptState
    <2>6. st \in State
      BY <1>1, <2>2, <2>5 DEF State
    <2> QED BY <2>2, <2>5, <2>6 DEF Later
  <1> QED BY <1>4, <1>5, <1>6

\* The state of the page after handling envelope i, and the call it leaves.
Handled(d, c, i, call, o, x) ==
    /\ o \in Opening(d, sent[i])
    /\ page' \in [Device -> State] /\ page'[d] = o.state
    /\ \A e \in Device : e # d => page'[e] = page[e]
    /\ OneCall(d, c, x) /\ x \in Call
    /\ x.base = IF o.result = "read" THEN call.base ELSE {}
    /\ x.rest = IF o.result = "read" THEN call.rest ELSE {}
    /\ IF o.result = "read" THEN x.stage = "saving" /\ x.msg = i /\ x.copy = o.state
       ELSE x.stage = "idle"

LEMMA HandleIs ==
    ASSUME KeysInv, NEW d \in Device, NEW c \in Slots[d], NEW i \in Inbound(d),
           NEW call \in Call, Handle(d, c, i, call)
    PROVE  \E o, x : Handled(d, c, i, call, o, x)
  <1>1. PICK o \in Opening(d, sent[i]) :
          /\ page' = [page EXCEPT ![d] = o.state]
          /\ SetCall(d, c, IF o.result = "read"
                           THEN [call EXCEPT !.stage = "saving", !.msg = i, !.copy = o.state]
                           ELSE NoCall)
    BY DEF Handle, Snapshot
  <1>2. o.state \in State
    BY OpeningIs
  <1>3. i \in Nat
    BY DEF Inbound, KeysInv, KeyTypes
  <1> PICK y : y = [call EXCEPT !.stage = "saving", !.msg = i, !.copy = o.state]
    OBVIOUS
  <1> PICK x : x = IF o.result = "read" THEN y ELSE NoCall
    OBVIOUS
  <1>4. y \in Call
    BY <1>2, <1>3, CallForms
  <1>5. /\ y.base = call.base /\ y.rest = call.rest
        /\ y.stage = "saving" /\ y.msg = i /\ y.copy = o.state
    BY DEF Call
  <1>6. NoCall.base = {} /\ NoCall.rest = {} /\ NoCall.stage = "idle"
    BY DEF NoCall
  <1>7. x \in Call
    BY <1>4, NoCallType
  <1>8. OneCall(d, c, x)
    BY <1>1, <1>7, SetCallIs DEF KeysInv, KeyTypes
  <1>9. /\ page' \in [Device -> State] /\ page'[d] = o.state
        /\ \A e \in Device : e # d => page'[e] = page[e]
    BY <1>1, <1>2 DEF KeysInv, KeyTypes
  <1> QED BY <1>5, <1>6, <1>7, <1>8, <1>9 DEF Handled

LEMMA HandleKeys ==
    ASSUME KeysInv, NEW d \in Device, NEW c \in Slots[d], NEW i \in Inbound(d), NEW call,
           NEW o, NEW x, Handled(d, c, i, call, o, x),
           UNCHANGED <<stored, reloads, nextKey, sent>>
    PROVE  KeysInv'
  <1>1. /\ o.state \in State /\ StateInv(d, o.state, nextKey)
        /\ \A r : SendsOn(o.state, r) =>
                SendsOn(page[d], r) /\ o.state.session.send = page[d].session.send
    BY OpeningIs DEF Handled
  <1>2. /\ page' \in [Device -> State] /\ page'[d] = o.state
        /\ \A e \in Device : e # d => page'[e] = page[e]
    BY DEF Handled
  <1>3. OneCall(d, c, x) /\ x \in Call /\ x.stage \in {"saving", "idle"}
        /\ (x.stage = "saving" => x.copy = o.state)
    BY DEF Handled
  <1>4. ASSUME NEW e \in Device, NEW b \in Slots[e], Posting(e, b)'
        PROVE  Posting(e, b) /\ calls'[e][b] = calls[e][b]
    BY <1>3, <1>4 DEF Posting, At, OneCall
  <1>5. ASSUME NEW e \in Device, NEW st \in Held(e)' PROVE st \in Held(e) \/ (e = d /\ st = o.state)
    <2>1. CASE st = page'[e] \/ st = stored'[e]
      BY <1>2, <2>1 DEF Held
    <2>2. ASSUME NEW b \in Slots[e], calls'[e][b].stage \in {"saving", "ending"},
                 st = calls'[e][b].copy
          PROVE  st \in Held(e) \/ (e = d /\ st = o.state)
      <3>1. CASE e = d /\ b = c
        BY <1>3, <2>2, <3>1 DEF OneCall
      <3>2. CASE calls'[e][b] = calls[e][b]
        BY <2>2, <3>2 DEF Held
      <3> QED BY <1>3, <3>1, <3>2 DEF OneCall
    <2>3. \/ st = page'[e] \/ st = stored'[e]
          \/ \E b \in Slots[e] : calls'[e][b].stage \in {"saving", "ending"} /\ st = calls'[e][b].copy
      BY DEF Held
    <2> QED BY <2>1, <2>2, <2>3
  <1>6. ASSUME NEW e \in Device, NEW m, Sealed(e, m)' PROVE Sealed(e, m)
    <2>1. CASE \E j \in DOMAIN sent' : sent'[j].from = e /\ sent'[j] = m
      BY <2>1 DEF Sealed
    <2>2. CASE \E b \in Slots[e] : Posting(e, b)' /\ calls'[e][b].env = m
      BY <1>4, <2>2 DEF Sealed
    <2> QED BY <1>6, <2>1, <2>2 DEF Sealed
  <1>7. KeyTypes'
    <2>1. \A e \in Device : (Held(e))' \subseteq State
      BY <1>1, <1>5 DEF KeysInv, KeyTypes
    <2>2. CallsType'
      BY <1>3 DEF OneCall
    <2> QED BY <1>2, <2>1, <2>2 DEF KeysInv, KeyTypes
  <1>8. page[d] \in Held(d)
    BY DEF Held
  <1>9. StatesInv' /\ SealedInv' /\ RootsInv'
    <2>1. nextKey <= nextKey' /\ \A e \in Device : reloads[e] <= reloads'[e]
      BY DEF KeysInv, KeyTypes
    <2>2. \A r : SendsOn(o.state, r) => OnRoot(d, r)
      BY <1>1, <1>8 DEF OnRoot
    <2>3. \A e \in Device : \A st \in Held(e)' :
              \/ st \in Held(e)
              \/ /\ e = d /\ StateInv(d, st, nextKey')
                 /\ \A r : SendsOn(st, r) => OnRoot(d, r) \/ ~RootBelow(r, nextKey)
      BY <1>1, <1>5, <2>2
    <2> QED BY <1>6, <1>7, <2>1, <2>3, Grows DEF KeysInv
  <1>10. AheadInv'
    <2> SUFFICES ASSUME NEW e \in Device, NEW m, Sealed(e, m)', m.life = reloads'[e],
                        SendsOn(page'[e], m.key.root)
                 PROVE  m.key.step < page'[e].session.send.key.step
      BY DEF AheadInv, SendsOn, NeedsRotation, ZeroKey
    <2>1. Sealed(e, m) /\ m.life = reloads[e]
      BY <1>6
    <2>2. SendsOn(page[e], m.key.root) /\ page'[e].session.send = page[e].session.send
      BY <1>1, <1>2
    <2> QED BY <2>1, <2>2 DEF KeysInv, AheadInv
  <1>11. HandsInv'
    <2> SUFFICES ASSUME NEW e \in Device, NEW b \in Slots[e], Posting(e, b)'
                 PROVE  /\ calls'[e][b].env.life = reloads'[e]
                        /\ \A j \in DOMAIN sent' : sent'[j].from = e /\ sent'[j].life = reloads'[e] =>
                              sent'[j].key # calls'[e][b].env.key
                        /\ \A a \in Slots[e] : Posting(e, a)' /\ a # b =>
                              calls'[e][a].env.key # calls'[e][b].env.key
      BY DEF HandsInv
    <2>1. Posting(e, b) /\ calls'[e][b] = calls[e][b]
      BY <1>4
    <2> QED BY <1>4, <2>1 DEF KeysInv, HandsInv
  <1>12. KeyUniqueOnPage'
    BY DEF KeysInv, KeyUniqueOnPage
  <1> QED BY <1>7, <1>9, <1>10, <1>11, <1>12 DEF KeysInv

-----------------------------------------------------------------------------
(* Sealing an envelope.                                                    *)

\* d begins to post env, which session s has sealed as r.
Seals(d, c, s, fresh, env, x) ==
    /\ page' \in [Device -> State]
    /\ page'[d] = [session |-> Encrypt(s, fresh).session, prekeys |-> page[d].prekeys]
    /\ \A e \in Device : e # d => page'[e] = page[e]
    /\ env \in Envelope /\ env.from = d /\ env.life = reloads[d]
    /\ env.header = Encrypt(s, fresh).header /\ env.key = Encrypt(s, fresh).key
    /\ OneCall(d, c, x) /\ x \in Call
    /\ x.stage = "posting" /\ x.env = env /\ x.base = {} /\ x.rest = {}

LEMMA SealIs ==
    ASSUME KeysInv, NEW d \in Device, NEW c \in Slots[d], NEW s, NEW fresh, NEW b \in Nat,
           SessionInv(Sealing(s, fresh), b), ~NeedsRotation(Sealing(s, fresh)),
           NEW handshake \in KeyPair \cup {None}, NEW prekey \in KeyPair \cup {None},
           Seal(d, c, s, fresh, handshake, prekey)
    PROVE  \E env, x : /\ Seals(d, c, s, fresh, env, x)
                       /\ env.handshake = handshake /\ env.prekey = prekey
  <1> PICK e : e = Encrypt(s, fresh)
    OBVIOUS
  <1>1. /\ e.session \in Session /\ e.header \in Header /\ e.key \in ChainKey
    BY EncryptInv DEF SessionInv, Tidy
  <1> PICK env : env = [from |-> d, header |-> e.header, key |-> e.key,
                        handshake |-> handshake, prekey |-> prekey, life |-> reloads[d]]
    OBVIOUS
  <1>2. page[d] \in State /\ page \in [Device -> State] /\ reloads[d] \in Nat
    BY DEF KeysInv, KeyTypes
  <1>3. env \in Envelope
    BY <1>1, <1>2 DEF Envelope
  <1> PICK x : x = [NoCall EXCEPT !.job = "send", !.stage = "posting", !.env = env]
    OBVIOUS
  <1>4. /\ page' = [page EXCEPT ![d] = [@ EXCEPT !.session = e.session]]
        /\ SetCall(d, c, x)
    BY DEF Seal
  <1>5. x \in Call
    <2>1. NoCall \in Call
      BY NoCallType
    <2> QED BY <1>3, <2>1, CallForms
  <1>6. x.stage = "posting" /\ x.env = env /\ x.base = {} /\ x.rest = {}
    BY DEF NoCall
  <1>7. OneCall(d, c, x)
    BY <1>4, <1>5, SetCallIs DEF KeysInv, KeyTypes
  <1> PICK st : st = [page[d] EXCEPT !.session = e.session]
    OBVIOUS
  <1>8. st = [session |-> e.session, prekeys |-> page[d].prekeys] /\ st \in State
    BY <1>1, <1>2 DEF State
  <1>9. /\ page' \in [Device -> State] /\ page'[d] = st
        /\ \A o \in Device : o # d => page'[o] = page[o]
    BY <1>2, <1>4, <1>8
  <1>10. /\ env.from = d /\ env.life = reloads[d] /\ env.header = e.header /\ env.key = e.key
         /\ env.handshake = handshake /\ env.prekey = prekey
    OBVIOUS
  <1>11. Seals(d, c, s, fresh, env, x)
    BY <1>3, <1>5, <1>6, <1>7, <1>8, <1>9, <1>10 DEF Seals
  <1> QED BY <1>10, <1>11

\* The sealing session is the one in memory, or its chain is a new one.
LEMMA SealKeys ==
    ASSUME KeysInv, NEW d \in Device, NEW c \in Slots[d], NEW s, NEW fresh,
           ~At(d, c, "posting"),
           NEW env, NEW x, Seals(d, c, s, fresh, env, x),
           nextKey' \in {nextKey, nextKey + 1},
           SessionInv(Sealing(s, fresh), nextKey'), ~NeedsRotation(Sealing(s, fresh)),
           \/ Sealing(s, fresh) = page[d].session
           \/ ~RootBelow(Sealing(s, fresh).send.key.root, nextKey),
           env.handshake # None => env.handshake < nextKey',
           env.prekey # None => env.prekey \in Prekeys[Peer(d)],
           UNCHANGED <<stored, reloads, sent>>
    PROVE  KeysInv'
  <1> PICK r, e, b : r = Sealing(s, fresh) /\ e = Encrypt(s, fresh) /\ b = nextKey'
    OBVIOUS
  <1>1. /\ nextKey \in Nat /\ b \in Nat /\ nextKey <= b /\ b >= FirstKey /\ FirstKey \in Nat
        /\ page[d] \in State /\ page[d] \in Held(d) /\ reloads[d] \in Nat
    <2>1. nextKey \in Nat /\ FirstKey \in Nat /\ nextKey >= FirstKey
      BY NoneIs DEF KeysInv, KeyTypes
    <2> QED BY <2>1 DEF KeysInv, KeyTypes, Held
  <1>2. /\ SessionInv(e.session, b) /\ ~NeedsRotation(e.session)
        /\ e.session.send.key.root = e.key.root
        /\ e.session.send.key.step = e.key.step + 1
        /\ e.key = r.send.key /\ e.key \in ChainKey /\ e.key.step \in Nat
        /\ e.key.root # <<>> /\ RootBelow(e.key.root, b)
        /\ e.header \in Header /\ e.header.dh < b
    BY <1>1, EncryptInv
  <1>3. /\ page' \in [Device -> State]
        /\ page'[d] = [session |-> e.session, prekeys |-> page[d].prekeys]
        /\ \A o \in Device : o # d => page'[o] = page[o]
        /\ env \in Envelope /\ env.from = d /\ env.life = reloads[d]
        /\ env.header = e.header /\ env.key = e.key
        /\ OneCall(d, c, x) /\ x \in Call
        /\ x.stage = "posting" /\ x.env = env
    BY DEF Seals
  <1>4. page'[d].session = e.session /\ page'[d].prekeys = page[d].prekeys
    BY <1>3
  <1>5. e.session # None
    BY <1>2, NoneIs DEF SessionInv, Tidy
  <1>6. StateInv(d, page'[d], b)
    <2>1. StateInv(d, page[d], nextKey)
      BY <1>1 DEF KeysInv, StatesInv
    <2>2. page[d].prekeys \subseteq Prekeys[d]
      BY <2>1 DEF StateInv
    <2> QED BY <1>2, <1>4, <1>5, <2>2 DEF StateInv
  <1>7. EnvInv(d, env, b, reloads[d])
    BY <1>1, <1>2, <1>3 DEF EnvInv
  \* The key is on a chain of d, or on a new one.
  <1>8. OnRoot(d, e.key.root) \/ ~RootBelow(e.key.root, nextKey)
    <2>1. CASE r = page[d].session
      <3>1. r # None
        BY <1>1, NoneIs DEF SessionInv, Tidy
      <3>2. SendsOn(page[d], e.key.root)
        BY <1>2, <2>1, <3>1 DEF SendsOn
      <3> QED BY <1>1, <3>2 DEF OnRoot
    <2> QED BY <1>2, <2>1
  \* Whatever d sealed in this life is before it on that chain.
  <1>9. ASSUME NEW m, Sealed(d, m), m.life = reloads[d], m.key.root = e.key.root
        PROVE  m.key.step < e.key.step
    <2>1. EnvInv(d, m, nextKey, reloads[d])
      BY <1>9 DEF KeysInv, SealedInv
    <2>2. RootBelow(e.key.root, nextKey)
      BY <1>9, <2>1 DEF EnvInv
    <2>3. r = page[d].session
      BY <1>2, <2>2
    <2>4. r # None
      BY <1>1, NoneIs DEF SessionInv, Tidy
    <2>5. SendsOn(page[d], m.key.root)
      BY <1>2, <1>9, <2>3, <2>4 DEF SendsOn
    <2>6. m.key.step < page[d].session.send.key.step
      BY <1>9, <2>5 DEF KeysInv, AheadInv
    <2> QED BY <1>2, <2>3, <2>6
  <1>10. ASSUME NEW m, Sealed(d, m), m.life = reloads[d] PROVE m.key # e.key
    <2> SUFFICES ASSUME m.key = e.key PROVE FALSE
      OBVIOUS
    <2>1. m.key.step < e.key.step
      BY <1>9, <1>10
    <2> QED BY <1>2, <2>1
  <1>11. ASSUME NEW o \in Device, NEW a \in Slots[o], Posting(o, a)'
         PROVE  \/ o = d /\ a = c /\ calls'[o][a].env = env
                \/ Posting(o, a) /\ calls'[o][a] = calls[o][a] /\ ~(o = d /\ a = c)
    <2>1. CASE o = d /\ a = c
      BY <1>3, <2>1 DEF OneCall
    <2>2. CASE calls'[o][a] = calls[o][a]
      BY <1>11, <2>2, <2>1 DEF Posting, At
    <2> QED BY <1>3, <2>1, <2>2 DEF OneCall
  <1>12. ASSUME NEW o \in Device, NEW st \in Held(o)' PROVE st \in Held(o) \/ (o = d /\ st = page'[d])
    <2>1. CASE st = page'[o] \/ st = stored'[o]
      BY <1>3, <2>1 DEF Held
    <2>2. ASSUME NEW a \in Slots[o], calls'[o][a].stage \in {"saving", "ending"},
                 st = calls'[o][a].copy
          PROVE  st \in Held(o)
      <3>1. calls'[o][a] = calls[o][a]
        BY <1>3, <2>2 DEF OneCall
      <3> QED BY <2>2, <3>1 DEF Held
    <2>3. \/ st = page'[o] \/ st = stored'[o]
          \/ \E a \in Slots[o] : calls'[o][a].stage \in {"saving", "ending"} /\ st = calls'[o][a].copy
      BY DEF Held
    <2> QED BY <2>1, <2>2, <2>3
  <1>13. ASSUME NEW o \in Device, NEW m, Sealed(o, m)' PROVE Sealed(o, m) \/ (o = d /\ m = env)
    <2>1. CASE \E j \in DOMAIN sent' : sent'[j].from = o /\ sent'[j] = m
      BY <2>1 DEF Sealed
    <2>2. CASE \E a \in Slots[o] : Posting(o, a)' /\ calls'[o][a].env = m
      BY <1>11, <2>2 DEF Sealed
    <2> QED BY <1>13, <2>1, <2>2 DEF Sealed
  <1>14. KeyTypes'
    <2>1. \A o \in Device : (Held(o))' \subseteq State
      BY <1>3, <1>12 DEF KeysInv, KeyTypes
    <2>2. CallsType'
      BY <1>3 DEF OneCall
    <2> QED BY <1>1, <1>3, <2>1, <2>2 DEF KeysInv, KeyTypes
  <1>15. StatesInv' /\ SealedInv' /\ RootsInv'
    <2>1. nextKey <= nextKey' /\ \A o \in Device : reloads[o] <= reloads'[o]
      BY <1>1 DEF KeysInv, KeyTypes
    <2>2. \A q : SendsOn(page'[d], q) => OnRoot(d, q) \/ ~RootBelow(q, nextKey)
      BY <1>2, <1>4, <1>8 DEF SendsOn
    <2>3. \A o \in Device : \A st \in Held(o)' :
              \/ st \in Held(o)
              \/ /\ o = d /\ StateInv(d, st, nextKey')
                 /\ \A q : SendsOn(st, q) => OnRoot(d, q) \/ ~RootBelow(q, nextKey)
      BY <1>6, <1>12, <2>2
    <2>4. \A o \in Device : \A m : Sealed(o, m)' =>
              \/ Sealed(o, m)
              \/ /\ o = d /\ EnvInv(d, m, nextKey', reloads'[d])
                 /\ OnRoot(d, m.key.root) \/ ~RootBelow(m.key.root, nextKey)
      BY <1>3, <1>7, <1>8, <1>13
    <2> QED BY <1>14, <2>1, <2>3, <2>4, Grows DEF KeysInv
  <1>16. AheadInv'
    <2> SUFFICES ASSUME NEW o \in Device, NEW m, Sealed(o, m)', m.life = reloads'[o],
                        SendsOn(page'[o], m.key.root)
                 PROVE  m.key.step < page'[o].session.send.key.step
      BY DEF AheadInv, SendsOn, NeedsRotation, ZeroKey
    <2>1. CASE o # d
      <3>1. Sealed(o, m) /\ page'[o] = page[o]
        BY <1>3, <1>13, <2>1
      <3> QED BY <3>1 DEF KeysInv, AheadInv
    <2>2. CASE o = d
      <3>1. m.key.root = e.key.root
        BY <1>2, <1>4, <2>2 DEF SendsOn
      <3>2. page'[o].session.send.key.step = e.key.step + 1
        BY <1>2, <1>4, <2>2
      <3>3. CASE m = env
        BY <1>2, <1>3, <3>2, <3>3
      <3>4. CASE Sealed(d, m)
        <4>1. m.key.step < e.key.step
          BY <1>9, <2>2, <3>1, <3>4
        <4>2. m.key.step \in Nat
          BY <3>4 DEF KeysInv, SealedInv, EnvInv, Envelope, ChainKey
        <4> QED BY <1>2, <3>2, <4>1, <4>2
      <3> QED BY <1>13, <2>2, <3>3, <3>4
    <2> QED BY <2>1, <2>2
  <1>17. HandsInv'
    <2> SUFFICES ASSUME NEW o \in Device, NEW a \in Slots[o], Posting(o, a)'
                 PROVE  /\ calls'[o][a].env.life = reloads'[o]
                        /\ \A j \in DOMAIN sent' : sent'[j].from = o /\ sent'[j].life = reloads'[o] =>
                              sent'[j].key # calls'[o][a].env.key
                        /\ \A f \in Slots[o] : Posting(o, f)' /\ f # a =>
                              calls'[o][f].env.key # calls'[o][a].env.key
      BY DEF HandsInv
    <2>1. ASSUME NEW f \in Slots[d], Posting(d, f), f # c PROVE calls[d][f].env.key # e.key
      <3>1. Sealed(d, calls[d][f].env) /\ calls[d][f].env.life = reloads[d]
        BY <2>1 DEF Sealed, KeysInv, HandsInv
      <3> QED BY <1>10, <3>1
    <2>2. CASE o = d /\ a = c
      <3>1. calls'[o][a].env = env
        BY <1>11, <2>2
      <3>2. ASSUME NEW j \in DOMAIN sent', sent'[j].from = o, sent'[j].life = reloads'[o]
            PROVE  sent'[j].key # calls'[o][a].env.key
        <4>1. Sealed(d, sent[j])
          BY <2>2, <3>2 DEF Sealed
        <4> QED BY <1>3, <1>10, <2>2, <3>1, <3>2, <4>1
      <3>3. ASSUME NEW f \in Slots[o], Posting(o, f)', f # a
            PROVE  calls'[o][f].env.key # calls'[o][a].env.key
        BY <1>3, <1>11, <2>1, <2>2, <3>1, <3>3
      <3> QED BY <1>3, <2>2, <3>1, <3>2, <3>3
    <2>3. CASE Posting(o, a) /\ calls'[o][a] = calls[o][a] /\ ~(o = d /\ a = c)
      <3>1. /\ calls'[o][a].env.life = reloads'[o]
            /\ \A j \in DOMAIN sent' : sent'[j].from = o /\ sent'[j].life = reloads'[o] =>
                              sent'[j].key # calls'[o][a].env.key
        BY <2>3 DEF KeysInv, HandsInv
      <3>2. ASSUME NEW f \in Slots[o], Posting(o, f)', f # a
            PROVE  calls'[o][f].env.key # calls'[o][a].env.key
        <4>1. CASE o = d /\ f = c /\ calls'[o][f].env = env
          BY <1>3, <2>1, <2>3, <4>1
        <4>2. CASE Posting(o, f) /\ calls'[o][f] = calls[o][f]
          BY <2>3, <3>2, <4>2 DEF KeysInv, HandsInv
        <4> QED BY <1>11, <3>2, <4>1, <4>2
      <3> QED BY <3>1, <3>2
    <2> QED BY <1>11, <2>2, <2>3
  <1>18. KeyUniqueOnPage'
    BY DEF KeysInv, KeyUniqueOnPage
  <1> QED BY <1>14, <1>15, <1>16, <1>17, <1>18 DEF KeysInv

\* A session that is in memory seals, after a turn of the ratchet if need be.
LEMMA InSession ==
    ASSUME KeysInv, NEW d \in Device, NEW c \in Slots[d], SendInSession(d, c)
    PROVE  LET s == page[d].session IN
           /\ SessionInv(s, nextKey) /\ nextKey \in Nat
           /\ nextKey' \in {nextKey, nextKey + 1}
           /\ SessionInv(Sealing(s, nextKey), nextKey') /\ ~NeedsRotation(Sealing(s, nextKey))
           /\ \/ Sealing(s, nextKey) = page[d].session
              \/ ~RootBelow(Sealing(s, nextKey).send.key.root, nextKey)
           /\ \E env, x : /\ Seals(d, c, s, nextKey, env, x)
                          /\ env.handshake = None /\ env.prekey = None
  <1> PICK s : s = page[d].session
    OBVIOUS
  <1>1. s # None /\ Seal(d, c, s, nextKey, None, None)
        /\ nextKey' = IF NeedsRotation(s) THEN nextKey + 1 ELSE nextKey
    BY DEF SendInSession
  <1>2. SessionInv(s, nextKey) /\ nextKey \in Nat
    <2>1. page[d] \in Held(d)
      BY DEF Held
    <2> QED BY <1>1, <2>1 DEF KeysInv, KeyTypes, StatesInv, StateInv
  <1>3. /\ nextKey' \in {nextKey, nextKey + 1} /\ nextKey' \in Nat
        /\ SessionInv(Sealing(s, nextKey), nextKey') /\ ~NeedsRotation(Sealing(s, nextKey))
        /\ \/ Sealing(s, nextKey) = s
           \/ ~RootBelow(Sealing(s, nextKey).send.key.root, nextKey)
    <2>1. CASE NeedsRotation(s)
      BY <1>1, <1>2, <2>1, RotateOnSendInv
    <2>2. CASE ~NeedsRotation(s)
      BY <1>1, <1>2, <2>2 DEF Sealing
    <2> QED BY <2>1, <2>2
  <1>4. \E env, x : /\ Seals(d, c, s, nextKey, env, x)
                    /\ env.handshake = None /\ env.prekey = None
    <2>1. None \in KeyPair \cup {None}
      OBVIOUS
    <2>2. /\ nextKey' \in Nat /\ SessionInv(Sealing(s, nextKey), nextKey')
          /\ ~NeedsRotation(Sealing(s, nextKey))
      BY <1>3
    <2>3. Seal(d, c, s, nextKey, None, None)
      BY <1>1
    <2> QED BY <2>1, <2>2, <2>3, SealIs
  <1> QED BY <1>2, <1>3, <1>4

\* A session that is opened for a first message.
LEMMA FirstSession ==
    ASSUME KeysInv, BookTypes, NEW d \in Device, NEW c \in Slots[d], SendFirst(d, c)
    PROVE  \E k : LET s == Initiated(nextKey, Peer(d), k)
                      f == nextKey + 1 IN
           /\ nextKey \in Nat /\ nextKey' = nextKey + 1
           /\ SessionInv(Sealing(s, f), nextKey') /\ ~NeedsRotation(Sealing(s, f))
           /\ ~RootBelow(Sealing(s, f).send.key.root, nextKey)
           /\ Sealing(s, f) = s
           /\ \A key \in ChainKey : key.root # <<>> /\ RootBelow(key.root, nextKey) => Dead(s, key)
           /\ k # None => k \in Prekeys[Peer(d)]
           /\ offered' = [offered EXCEPT ![Peer(d)] = @ \ {k}]
           /\ \E env, x : /\ Seals(d, c, s, f, env, x)
                          /\ env.handshake = nextKey /\ env.prekey = k
  <1>1. PICK k \in IF offered[Peer(d)] = {} THEN {None} ELSE offered[Peer(d)] :
          /\ offered' = [offered EXCEPT ![Peer(d)] = @ \ {k}]
          /\ Seal(d, c, Initiated(nextKey, Peer(d), k), nextKey + 1, nextKey, k)
    BY DEF SendFirst
  <1> PICK s : s = Initiated(nextKey, Peer(d), k)
    OBVIOUS
  <1>2. nextKey \in Nat /\ FirstKey \in Nat /\ FirstKey > 2 /\ nextKey >= FirstKey /\ nextKey' = nextKey + 1
    BY NoneIs DEF SendFirst, KeysInv, KeyTypes
  <1>3. Peer(d) \in Device /\ Peer(d) \in Nat /\ Peer(d) < nextKey + 1
    BY <1>2 DEF Device, Peer
  <1>4. k # None => k \in Prekeys[Peer(d)] /\ k \in Nat /\ k < nextKey + 1
    <2>1. ASSUME k # None PROVE k \in Prekeys[Peer(d)]
      BY <1>1, <1>3, <2>1 DEF BookTypes
    <2>2. ASSUME k # None PROVE k \in Nat /\ k < FirstKey
      BY <1>3, <2>1, <2>2, NoneIs
    <2> QED BY <1>2, <2>1, <2>2
  <1>5. /\ SessionInv(s, nextKey + 1) /\ ~NeedsRotation(s) /\ ~RootBelow(s.send.key.root, nextKey)
        /\ \A key \in ChainKey : key.root # <<>> /\ RootBelow(key.root, nextKey) => Dead(s, key)
    <2>1. nextKey + 1 \in Nat /\ nextKey < nextKey + 1 /\ (k = None \/ (k \in Nat /\ k < nextKey + 1))
      BY <1>2, <1>4
    <2> QED BY <1>2, <1>3, <2>1, InitiatedInv
  <1>6. Sealing(s, nextKey + 1) = s
    BY <1>5 DEF Sealing
  <1>7. \E env, x : /\ Seals(d, c, s, nextKey + 1, env, x)
                    /\ env.handshake = nextKey /\ env.prekey = k
    <2>1. nextKey \in KeyPair \cup {None} /\ k \in KeyPair \cup {None} /\ nextKey + 1 \in Nat
      BY <1>2, <1>4 DEF KeyPair
    <2> QED BY <1>1, <1>5, <1>6, <2>1, SealIs
  <1> QED BY <1>1, <1>2, <1>4, <1>5, <1>6, <1>7

LEMMA SendKeys ==
    ASSUME KeysInv, BookTypes, NEW d \in Device, NEW c \in Slots[d],
           SendInSession(d, c) \/ SendFirst(d, c)
    PROVE  KeysInv'
  <1>1. ~At(d, c, "posting") /\ UNCHANGED <<stored, reloads, sent>>
    BY DEF SendInSession, SendFirst, At
  <1>2. CASE SendInSession(d, c)
    <2> PICK s : s = page[d].session
      OBVIOUS
    <2>1. /\ nextKey' \in {nextKey, nextKey + 1}
          /\ SessionInv(Sealing(s, nextKey), nextKey') /\ ~NeedsRotation(Sealing(s, nextKey))
          /\ \/ Sealing(s, nextKey) = page[d].session
             \/ ~RootBelow(Sealing(s, nextKey).send.key.root, nextKey)
          /\ \E env, x : /\ Seals(d, c, s, nextKey, env, x)
                         /\ env.handshake = None /\ env.prekey = None
      BY <1>2, InSession
    <2>2. PICK env, x : /\ Seals(d, c, s, nextKey, env, x)
                        /\ env.handshake = None /\ env.prekey = None
      BY <2>1
    <2> QED BY <1>1, <2>1, <2>2, SealKeys
  <1>3. CASE SendFirst(d, c)
    <2> DEFINE S(k) == Initiated(nextKey, Peer(d), k)
               f == nextKey + 1
    <2>1. PICK k :
           /\ nextKey \in Nat /\ nextKey' = nextKey + 1
           /\ SessionInv(Sealing(S(k), f), nextKey') /\ ~NeedsRotation(Sealing(S(k), f))
           /\ ~RootBelow(Sealing(S(k), f).send.key.root, nextKey)
           /\ k # None => k \in Prekeys[Peer(d)]
           /\ \E env, x : /\ Seals(d, c, S(k), f, env, x)
                          /\ env.handshake = nextKey /\ env.prekey = k
      BY <1>3, FirstSession
    <2>2. PICK env, x : /\ Seals(d, c, S(k), f, env, x)
                        /\ env.handshake = nextKey /\ env.prekey = k
      BY <2>1
    <2>3. env.handshake < nextKey'
      BY <2>1, <2>2
    <2>4. nextKey' \in {nextKey, nextKey + 1}
      BY <2>1
    <2> HIDE DEF S, f
    <2> QED BY <1>1, <2>1, <2>2, <2>3, <2>4, SealKeys
  <1> QED BY <1>2, <1>3

-----------------------------------------------------------------------------
(* The local history.                                                      *)

\* What d has in its history, or a call read there.
Noted(d) == history[d] \cup UNION {calls[d][c].base : c \in Slots[d]}

\* Message i is none that the page of d could be made to open.
Spent(d, i) ==
    sent[i].from = d \/ (page[d].session # None /\ Dead(page[d].session, sent[i].key))

\* No call of d but the one in slot c has message i in hand.
Alone(d, c, i) ==
    \A b \in Slots[d] : b # c /\ Carries(calls[d][b]) => calls[d][b].msg # i

\* What calls and histories name has been posted.
CallBook(d, x) ==
    /\ Carries(x) => x.msg \in DOMAIN sent
    /\ x.base \subseteq DOMAIN sent /\ x.rest \subseteq Inbound(d)

BookInv ==
    /\ \A d \in Device : history[d] \subseteq DOMAIN sent /\ pushed[d] \subseteq DOMAIN sent
    /\ \A d \in Device : \A c \in Slots[d] : CallBook(d, calls[d][c])

\* On the first load of a page, what is noted or in hand cannot be opened any
\* more, and no message is in two hands, or in hand and noted.
OneHand(d) ==
    /\ \A i \in Noted(d) : Spent(d, i)
    /\ \A c \in Slots[d] : Carries(calls[d][c]) =>
         /\ Spent(d, calls[d][c].msg)
         /\ calls[d][c].msg \notin Noted(d)
         /\ Alone(d, c, calls[d][c].msg)

HistInv == \A d \in Device : reloads[d] = 0 => OneHand(d)

\* The step of a call of d, which becomes x, with the messages A for the
\* history.
Moves(d, c, x, A) ==
    /\ OneCall(d, c, x) /\ reloads' = reloads
    /\ DOMAIN sent \subseteq DOMAIN sent' /\ \A i \in DOMAIN sent : sent'[i] = sent[i]
    /\ \A e \in Device : \A i \in DOMAIN sent : Spent(e, i) => Spent(e, i)'
    /\ \A e \in Device : e # d => history'[e] = history[e]
    /\ history'[d] \subseteq Noted(d) \cup A /\ x.base \subseteq Noted(d) \cup A
    /\ A \subseteq DOMAIN sent'
    /\ \A e \in Device : pushed'[e] \subseteq DOMAIN sent'
    /\ x.rest \subseteq Inbound(d)
    /\ Carries(x) => x.msg \in DOMAIN sent'
    /\ reloads[d] = 0 /\ Carries(x) =>
         Spent(d, x.msg)' /\ x.msg \notin Noted(d) /\ Alone(d, c, x.msg)
    /\ reloads[d] = 0 => \A i \in A : Spent(d, i)' /\ Alone(d, c, i)
    /\ Carries(x) => A = {}

LEMMA NotedIn ==
    ASSUME BookInv, NEW d \in Device
    PROVE  Noted(d) \subseteq DOMAIN sent
  BY DEF BookInv, CallBook, Noted

LEMMA MovesNoted ==
    ASSUME NEW d \in Device, NEW c \in Slots[d], NEW x, NEW A, Moves(d, c, x, A)
    PROVE  /\ Noted(d)' \subseteq Noted(d) \cup A
           /\ \A e \in Device : e # d => Noted(e)' = Noted(e)
  <1>1. ASSUME NEW i \in Noted(d)' PROVE i \in Noted(d) \cup A
    <2>1. CASE i \in history'[d]
      BY <2>1 DEF Moves
    <2>2. ASSUME NEW b \in Slots[d], i \in calls'[d][b].base PROVE i \in Noted(d) \cup A
      <3>1. CASE b = c
        BY <2>2, <3>1 DEF Moves, OneCall
      <3>2. CASE calls'[d][b] = calls[d][b]
        BY <2>2, <3>2 DEF Noted
      <3> QED BY <3>1, <3>2 DEF Moves, OneCall
    <2> QED BY <2>1, <2>2 DEF Noted
  <1>2. ASSUME NEW e \in Device, e # d PROVE Noted(e)' = Noted(e)
    <2>1. history'[e] = history[e] /\ \A b \in Slots[e] : calls'[e][b] = calls[e][b]
      BY <1>2 DEF Moves, OneCall
    <2> QED BY <2>1 DEF Noted
  <1> QED BY <1>1, <1>2

LEMMA MovesBook ==
    ASSUME BookInv, NEW d \in Device, NEW c \in Slots[d], NEW x, NEW A, Moves(d, c, x, A)
    PROVE  BookInv'
  <1>1. DOMAIN sent \subseteq DOMAIN sent' /\ \A i \in DOMAIN sent : sent'[i] = sent[i]
    BY DEF Moves
  <1>2. \A e \in Device : Inbound(e) \subseteq Inbound(e)'
    BY <1>1 DEF Inbound
  <1>3. A \subseteq DOMAIN sent' /\ Noted(d) \subseteq DOMAIN sent'
    BY <1>1, NotedIn DEF Moves
  <1>4. ASSUME NEW e \in Device
        PROVE  history'[e] \subseteq DOMAIN sent' /\ pushed'[e] \subseteq DOMAIN sent'
    <2>1. CASE e = d
      BY <1>3, <2>1 DEF Moves
    <2>2. CASE e # d
      BY <1>1, <2>2 DEF Moves, BookInv
    <2> QED BY <2>1, <2>2
  <1>5. ASSUME NEW e \in Device, NEW b \in Slots[e] PROVE CallBook(e, calls[e][b])'
    <2>1. CASE e = d /\ b = c
      <3>1. calls'[e][b] = x
        BY <2>1 DEF Moves, OneCall
      <3>2. /\ Carries(x) => x.msg \in DOMAIN sent'
            /\ x.base \subseteq DOMAIN sent' /\ x.rest \subseteq Inbound(d)'
        BY <1>2, <1>3 DEF Moves
      <3> QED BY <2>1, <3>1, <3>2 DEF CallBook, Carries
    <2>2. CASE calls'[e][b] = calls[e][b]
      <3>1. CallBook(e, calls[e][b])
        BY DEF BookInv
      <3> QED BY <1>1, <1>2, <2>2, <3>1 DEF CallBook, Carries
    <2> QED BY <2>1, <2>2 DEF Moves, OneCall
  <1> QED BY <1>4, <1>5 DEF BookInv

LEMMA MovesHist ==
    ASSUME BookInv, HistInv, NEW d \in Device, NEW c \in Slots[d], NEW x, NEW A,
           Moves(d, c, x, A)
    PROVE  HistInv'
  <1> SUFFICES ASSUME NEW e \in Device, reloads[e] = 0 PROVE OneHand(e)'
    BY DEF HistInv, Moves
  <1>1. OneHand(e) /\ Noted(e) \subseteq DOMAIN sent
    BY NotedIn DEF HistInv
  <1>2. \A i \in DOMAIN sent : Spent(e, i) => Spent(e, i)'
    BY DEF Moves
  <1>3. ASSUME NEW b \in Slots[e], Carries(calls[e][b]) PROVE calls[e][b].msg \in DOMAIN sent
    BY <1>3 DEF BookInv, CallBook
  <1>4. CASE e # d
    <2>1. Noted(e)' = Noted(e)
      BY <1>4, MovesNoted
    <2>2. \A b \in Slots[e] : calls'[e][b] = calls[e][b]
      BY <1>4 DEF Moves, OneCall
    <2>3. \A i \in Noted(e)' : Spent(e, i)'
      BY <1>1, <1>2, <2>1 DEF OneHand
    <2>4. ASSUME NEW b \in Slots[e], Carries(calls'[e][b])
          PROVE  /\ Spent(e, calls[e][b].msg)'
                 /\ calls'[e][b].msg \notin Noted(e)'
                 /\ Alone(e, b, calls[e][b].msg)'
      <3>1. Carries(calls[e][b]) /\ calls[e][b].msg \in DOMAIN sent
        BY <1>3, <2>2, <2>4
      <3>2. /\ Spent(e, calls[e][b].msg) /\ calls[e][b].msg \notin Noted(e)
            /\ Alone(e, b, calls[e][b].msg)
        BY <1>1, <3>1 DEF OneHand
      <3>3. Spent(e, calls[e][b].msg)'
        <4> PICK i : i = calls[e][b].msg
          OBVIOUS
        <4>1. Spent(e, i)'
          BY <1>2, <3>1, <3>2
        <4> QED BY <2>2, <4>1 DEF Spent
      <3>4. Alone(e, b, calls[e][b].msg)'
        BY <2>2, <3>2 DEF Alone
      <3> QED BY <2>1, <2>2, <3>2, <3>3, <3>4
    <2> QED BY <2>3, <2>4 DEF OneHand, Carries
  <1>5. CASE e = d
    <2>1. Noted(d)' \subseteq Noted(d) \cup A
      BY MovesNoted
    <2>2. /\ \A i \in A : Spent(d, i)' /\ Alone(d, c, i)
          /\ Carries(x) =>
               Spent(d, x.msg)' /\ x.msg \notin Noted(d) /\ Alone(d, c, x.msg) /\ A = {}
      BY <1>5 DEF Moves
    <2>3. \A i \in Noted(d)' : Spent(d, i)'
      BY <1>1, <1>2, <1>5, <2>1, <2>2 DEF OneHand
    <2>4. calls'[d][c] = x /\ \A b \in Slots[d] : b # c => calls'[d][b] = calls[d][b]
      BY DEF Moves, OneCall
    <2>5. ASSUME NEW b \in Slots[d], Carries(calls'[d][b]), b = c
          PROVE  /\ Spent(d, calls[d][b].msg)'
                 /\ calls'[d][b].msg \notin Noted(d)'
                 /\ Alone(d, b, calls[d][b].msg)'
      <3>1. calls'[d][b] = x /\ Carries(x)
        BY <2>4, <2>5
      <3>2. Spent(d, calls[d][b].msg)'
        BY <2>2, <3>1 DEF Spent
      <3>3. Alone(d, b, calls[d][b].msg)'
        BY <2>2, <2>4, <2>5, <3>1 DEF Alone, Carries
      <3> QED BY <2>1, <2>2, <3>1, <3>2, <3>3
    <2>6. ASSUME NEW b \in Slots[d], Carries(calls'[d][b]), b # c
          PROVE  /\ Spent(d, calls[d][b].msg)'
                 /\ calls'[d][b].msg \notin Noted(d)'
                 /\ Alone(d, b, calls[d][b].msg)'
      <3> PICK i : i = calls[d][b].msg
        OBVIOUS
      <3>1. calls'[d][b] = calls[d][b] /\ Carries(calls[d][b]) /\ i \in DOMAIN sent
        BY <1>3, <1>5, <2>4, <2>6
      <3>2. Spent(d, i) /\ i \notin Noted(d) /\ Alone(d, b, i)
        BY <1>1, <1>5, <3>1 DEF OneHand
      <3>3. Spent(d, i)'
        BY <1>2, <1>5, <3>1, <3>2
      <3>4. Spent(d, calls[d][b].msg)'
        BY <3>1, <3>3 DEF Spent
      <3>5. i \notin A
        BY <2>2, <2>6, <3>1 DEF Alone
      <3>6. Carries(x) => x.msg # i
        BY <2>2, <2>6, <3>1 DEF Alone
      <3>7. Alone(d, b, calls[d][b].msg)'
        <4> SUFFICES ASSUME NEW a \in Slots[d], a # b, Carries(calls'[d][a])
                     PROVE  calls'[d][a].msg # i
          BY <3>1 DEF Alone, Carries
        <4>1. CASE a = c
          BY <2>4, <3>6, <4>1
        <4>2. CASE a # c
          BY <2>4, <3>2, <4>2 DEF Alone
        <4> QED BY <4>1, <4>2
      <3> QED BY <2>1, <3>1, <3>2, <3>4, <3>5, <3>7
    <2> QED BY <1>5, <2>3, <2>5, <2>6 DEF OneHand, Carries
  <1> QED BY <1>4, <1>5

\* What is spent stays so while the session of d goes on, or gives way to one
\* that opens no more.
LEMMA StaysSpent ==
    ASSUME KeysInv, NEW d \in Device, page'[d] = page[d] \/ Later(d, page'[d]),
           \A e \in Device : e # d => page'[e] = page[e],
           DOMAIN sent \subseteq DOMAIN sent', \A i \in DOMAIN sent : sent'[i] = sent[i]
    PROVE  \A e \in Device : \A i \in DOMAIN sent : Spent(e, i) => Spent(e, i)'
  <1> SUFFICES ASSUME NEW e \in Device, NEW i \in DOMAIN sent, Spent(e, i) PROVE Spent(e, i)'
    OBVIOUS
  <1>1. sent[i] \in Envelope
    BY DEF KeysInv, KeyTypes
  <1>2. sent[i].key \in ChainKey /\ sent'[i] = sent[i]
    BY <1>1 DEF Envelope
  <1>3. CASE page'[e] = page[e]
    BY <1>2, <1>3 DEF Spent
  <1>4. CASE e = d /\ Later(d, page'[d])
    <2> PICK k : k = sent[i].key
      OBVIOUS
    <2>1. CASE sent[i].from = e
      BY <1>2, <2>1 DEF Spent
    <2>2. CASE page[d].session # None /\ Dead(page[d].session, k)
      <3>1. page'[d].session # None /\ Dead(page'[d].session, k)
        BY <1>2, <1>4, <2>2 DEF Later
      <3> QED BY <1>2, <1>4, <3>1 DEF Spent
    <2> QED BY <1>4, <2>1, <2>2 DEF Spent
  <1> QED BY <1>3, <1>4

LEMMA QuietMoves ==
    ASSUME KeysInv, BookTypes, BookInv, HistInv, NEW d \in Device, NEW c \in Slots[d], Quiet(d, c)
    PROVE  \E x, A : Moves(d, c, x, A)
  <1>1. PICK x \in Call :
             /\ OneCall(d, c, x) /\ UNCHANGED <<page, nextKey, reloads, sent>>
             /\ Notes(d, c, x) /\ pushed' = pushed
    BY QuietIs
  <1> PICK y : y = calls[d][c]
    OBVIOUS
  <1>2. \A e \in Device : \A i \in DOMAIN sent : Spent(e, i) => Spent(e, i)'
    BY <1>1 DEF Spent
  <1>3. CallBook(d, y) /\ history[d] \subseteq DOMAIN sent
        /\ \A e \in Device : pushed'[e] \subseteq DOMAIN sent'
    BY <1>1 DEF BookInv
  <1>4. y.base \subseteq Noted(d) /\ history[d] \subseteq Noted(d)
    BY DEF Noted
  <1>5. x.rest \subseteq Inbound(d)
    BY <1>1, <1>3 DEF Notes, CallBook
  <1>6. ASSUME reloads[d] = 0, Carries(y)
        PROVE  Spent(d, y.msg) /\ y.msg \notin Noted(d) /\ Alone(d, c, y.msg)
    BY <1>6 DEF HistInv, OneHand
  <1>7. Carries(y) => y.msg \in DOMAIN sent
    BY <1>3 DEF CallBook
  <1>8. CASE /\ history' = history /\ x.base \subseteq y.base \cup history[d]
             /\ Carries(x) => Carries(y) /\ x.msg = y.msg
    <2>1. Carries(x) => x.msg \in DOMAIN sent'
      BY <1>1, <1>7, <1>8
    <2>2. ASSUME reloads[d] = 0, Carries(x)
          PROVE  Spent(d, x.msg)' /\ x.msg \notin Noted(d) /\ Alone(d, c, x.msg)
      <3> PICK i : i = y.msg
        OBVIOUS
      <3>1. Spent(d, i) /\ i \in DOMAIN sent /\ x.msg = i
        BY <1>6, <1>7, <1>8, <2>2
      <3>2. Spent(d, i)'
        BY <1>2, <3>1
      <3> QED BY <1>6, <1>8, <2>2, <3>1, <3>2
    <2>3. Moves(d, c, x, {})
      BY <1>1, <1>2, <1>3, <1>4, <1>5, <1>8, <2>1, <2>2 DEF Moves
    <2> QED BY <2>3
  <1>9. CASE /\ Carries(y) /\ ~Carries(x) /\ x.base = {}
             /\ history' = [history EXCEPT ![d] = y.base \cup {y.msg}]
    <2> PICK A : A = {y.msg}
      OBVIOUS
    <2>1. A \subseteq DOMAIN sent'
      BY <1>1, <1>7, <1>9
    <2>2. history'[d] \subseteq Noted(d) \cup A /\ \A e \in Device : e # d => history'[e] = history[e]
      BY <1>4, <1>9 DEF BookTypes
    <2>3. ASSUME reloads[d] = 0, NEW i \in A PROVE Spent(d, i)' /\ Alone(d, c, i)
      <3>1. i = y.msg /\ Spent(d, i) /\ i \in DOMAIN sent /\ Alone(d, c, i)
        BY <1>6, <1>7, <1>9, <2>3
      <3> QED BY <1>2, <3>1
    <2>4. Moves(d, c, x, A)
      BY <1>1, <1>2, <1>3, <1>5, <1>9, <2>1, <2>2, <2>3 DEF Moves
    <2> QED BY <2>4
  <1> QED BY <1>1, <1>8, <1>9 DEF Notes

LEMMA PostMoves ==
    ASSUME KeysInv, BookTypes, BookInv, NEW d \in Device, NEW c \in Slots[d], PostStored(d, c)
    PROVE  \E x, A : Moves(d, c, x, A)
  <1> PICK y, n : y = calls[d][c] /\ n = Len(sent) + 1
    OBVIOUS
  <1> PICK x : x = [NoCall EXCEPT !.job = "send", !.stage = "posted", !.msg = n]
    OBVIOUS
  <1>1. EnvInv(d, y.env, nextKey, reloads[d])
    <2>1. Sealed(d, y.env)
      BY DEF PostStored, Posting, Sealed
    <2> QED BY <2>1 DEF KeysInv, SealedInv
  <1>2. sent \in Seq(Envelope) /\ y.env \in Envelope /\ y.env.from = d /\ sent' = Append(sent, y.env)
    BY <1>1 DEF KeysInv, KeyTypes, EnvInv, PostStored
  <1>3. /\ n \in Nat /\ DOMAIN sent \subseteq DOMAIN sent' /\ n \in DOMAIN sent'
        /\ n \notin DOMAIN sent /\ sent'[n] = y.env
        /\ \A i \in DOMAIN sent : sent'[i] = sent[i]
    BY <1>2
  <1>4. x \in Call /\ x.stage = "posted" /\ x.base = {} /\ x.rest = {} /\ x.msg = n
    <2>1. y \in Call
      BY DEF KeysInv, KeyTypes, CallsType
    <2>2. x \in Call
      BY <1>3, <2>1, CallForms
    <2> QED BY <2>2 DEF NoCall
  <1>5. OneCall(d, c, x)
    <2>1. SetCall(d, c, x)
      BY DEF PostStored
    <2> QED BY <1>4, <2>1, SetCallIs DEF KeysInv, KeyTypes
  <1>6. page' = page /\ reloads' = reloads /\ history' = history /\ pushed' = pushed
    BY DEF PostStored
  <1>7. \A e \in Device : \A i \in DOMAIN sent : Spent(e, i) => Spent(e, i)'
    BY <1>3, <1>6, StaysSpent
  <1>8. Spent(d, n)'
    BY <1>2, <1>3 DEF Spent
  <1>9. n \notin Noted(d)
    BY <1>3, NotedIn
  <1>10. Alone(d, c, n)
    BY <1>3 DEF Alone, BookInv, CallBook
  <1>11. history[d] \subseteq Noted(d) /\ \A e \in Device : pushed[e] \subseteq DOMAIN sent
    BY DEF Noted, BookInv
  <1>12. Moves(d, c, x, {})
    BY <1>3, <1>4, <1>5, <1>6, <1>7, <1>8, <1>9, <1>10, <1>11 DEF Moves
  <1> QED BY <1>12

LEMMA SealMoves ==
    ASSUME KeysInv, BookTypes, BookInv, NEW d \in Device, NEW c \in Slots[d],
           SendInSession(d, c) \/ SendFirst(d, c)
    PROVE  \E x, A : Moves(d, c, x, A)
  <1>1. UNCHANGED <<reloads, sent, history, pushed>>
    BY DEF SendInSession, SendFirst
  <1>2. ASSUME NEW s, NEW fresh, NEW env, NEW x, Seals(d, c, s, fresh, env, x),
               Encrypt(s, fresh).session # None,
               \A i \in Inbound(d) : page[d].session # None /\
                  Dead(page[d].session, sent[i].key) => Dead(Encrypt(s, fresh).session, sent[i].key)
        PROVE  Moves(d, c, x, {})
    <2>1. ~Carries(x) /\ x.base = {} /\ x.rest = {} /\ OneCall(d, c, x)
      BY <1>2 DEF Seals, Carries
    <2>2. page'[d].session = Encrypt(s, fresh).session /\ \A e \in Device : e # d => page'[e] = page[e]
      BY <1>2 DEF Seals
    <2>3. ASSUME NEW e \in Device, NEW i \in DOMAIN sent, Spent(e, i) PROVE Spent(e, i)'
      <3>1. CASE sent[i].from = e \/ e # d
        BY <1>1, <2>2, <2>3, <3>1 DEF Spent
      <3>2. CASE sent[i].from # e /\ e = d
        <4>1. sent[i] \in Envelope
          BY DEF KeysInv, KeyTypes
        <4>2. i \in Inbound(d)
          BY <3>2, <4>1, Peers DEF Inbound, Envelope
        <4>3. page[d].session # None /\ Dead(page[d].session, sent[i].key)
          BY <2>3, <3>2 DEF Spent
        <4>4. page'[d].session # None /\ Dead(page'[d].session, sent[i].key)
          BY <1>2, <2>2, <4>2, <4>3
        <4> QED BY <1>1, <3>2, <4>4 DEF Spent
      <3> QED BY <3>1, <3>2
    <2>4. history[d] \subseteq Noted(d) /\ \A e \in Device : pushed[e] \subseteq DOMAIN sent
      BY DEF Noted, BookInv
    <2> QED BY <1>1, <2>1, <2>3, <2>4 DEF Moves
  <1>3. ASSUME NEW i \in Inbound(d)
        PROVE  /\ sent[i].key \in ChainKey /\ sent[i].key.root # <<>>
               /\ RootBelow(sent[i].key.root, nextKey)
    <2>1. Sealed(Peer(d), sent[i]) /\ Peer(d) \in Device
      BY Peers DEF Inbound, Sealed
    <2>2. EnvInv(Peer(d), sent[i], nextKey, reloads[Peer(d)])
      BY <2>1 DEF KeysInv, SealedInv
    <2> QED BY <2>2 DEF EnvInv, Envelope
  <1>4. CASE SendInSession(d, c)
    <2> PICK s, e : s = page[d].session /\ e = Encrypt(page[d].session, nextKey)
      OBVIOUS
    <2>1. /\ SessionInv(s, nextKey) /\ nextKey \in Nat
          /\ \E env, x : /\ Seals(d, c, s, nextKey, env, x)
                         /\ env.handshake = None /\ env.prekey = None
      BY <1>4, InSession
    <2>2. Tidy(e.session) /\ \A k \in ChainKey : Dead(s, k) => Dead(e.session, k)
      BY <2>1, EncryptDead DEF SessionInv
    <2>3. e.session # None
      BY <2>2, NoneIs DEF Tidy
    <2>4. PICK env, x : Seals(d, c, s, nextKey, env, x)
      BY <2>1
    <2>5. Moves(d, c, x, {})
      BY <1>2, <1>3, <2>2, <2>3, <2>4
    <2> QED BY <2>5
  <1>5. CASE SendFirst(d, c)
    <2> DEFINE S(k) == Initiated(nextKey, Peer(d), k)
    <2>1. PICK k :
           /\ nextKey \in Nat
           /\ SessionInv(Sealing(S(k), nextKey + 1), nextKey') /\ Sealing(S(k), nextKey + 1) = S(k)
           /\ \A key \in ChainKey : key.root # <<>> /\ RootBelow(key.root, nextKey) => Dead(S(k), key)
           /\ \E env, x : /\ Seals(d, c, S(k), nextKey + 1, env, x)
                          /\ env.handshake = nextKey /\ env.prekey = k
      BY <1>5, FirstSession
    <2> PICK s, e : s = S(k) /\ e = Encrypt(S(k), nextKey + 1)
      OBVIOUS
    <2> HIDE DEF S
    <2>2. nextKey + 1 \in Nat /\ Tidy(s)
      BY <2>1 DEF SessionInv
    <2>3. Tidy(e.session) /\ \A key \in ChainKey : Dead(s, key) => Dead(e.session, key)
      BY <2>2, EncryptDead
    <2>4. e.session # None
      BY <2>3, NoneIs DEF Tidy
    <2>5. PICK env, x : Seals(d, c, s, nextKey + 1, env, x)
      BY <2>1
    <2>6. \A i \in Inbound(d) : Dead(e.session, sent[i].key)
      BY <1>3, <2>1, <2>3
    <2>7. Moves(d, c, x, {})
      BY <1>2, <2>4, <2>5, <2>6
    <2> QED BY <2>7
  <1> QED BY <1>4, <1>5

\* Reading message i: it was none that had been noted.
LEMMA HandledMoves ==
    ASSUME KeysInv, BookTypes, BookInv, HistInv, NEW d \in Device, NEW c \in Slots[d],
           NEW i \in Inbound(d), NEW call, NEW o, NEW x, Handled(d, c, i, call, o, x),
           call.base \subseteq Noted(d), call.rest \subseteq Inbound(d),
           UNCHANGED <<reloads, sent, history>>,
           \A e \in Device : pushed'[e] \subseteq DOMAIN sent
    PROVE  Moves(d, c, x, {})
  <1>1. /\ o.state = page[d] \/ Later(d, o.state)
        /\ o.result = "read" =>
              /\ page[d].session # None => ~Dead(page[d].session, sent[i].key)
              /\ o.state.session # None /\ Dead(o.state.session, sent[i].key)
    BY OpeningIs DEF Handled
  <1>2. page'[d] = o.state /\ \A e \in Device : e # d => page'[e] = page[e]
    BY DEF Handled
  <1>3. \A e \in Device : \A j \in DOMAIN sent : Spent(e, j) => Spent(e, j)'
    BY <1>1, <1>2, StaysSpent
  <1>4. OneCall(d, c, x) /\ x.base \subseteq Noted(d) /\ x.rest \subseteq Inbound(d)
    BY DEF Handled
  <1>5. Carries(x) => o.result = "read" /\ x.msg = i
    BY DEF Handled, Carries
  <1>6. i \in DOMAIN sent /\ sent[i].from # d
    BY Peers DEF Inbound
  <1>7. ASSUME o.result = "read" PROVE ~Spent(d, i) /\ Spent(d, i)'
    <2>1. ~Spent(d, i)
      BY <1>1, <1>6, <1>7 DEF Spent
    <2>2. Spent(d, i)'
      BY <1>1, <1>2, <1>7 DEF Spent
    <2> QED BY <2>1, <2>2
  <1>8. ASSUME reloads[d] = 0, ~Spent(d, i) PROVE i \notin Noted(d) /\ Alone(d, c, i)
    BY <1>8 DEF HistInv, OneHand, Alone
  <1>9. history[d] \subseteq Noted(d)
    BY DEF Noted
  <1> QED BY <1>3, <1>4, <1>5, <1>6, <1>7, <1>8, <1>9 DEF Moves

-----------------------------------------------------------------------------
(* The invariant, step by step.                                            *)

LEMMA OfferedLess ==
    ASSUME BookTypes, NEW d \in Device, NEW k, offered' = [offered EXCEPT ![d] = @ \ {k}]
    PROVE  offered' \in [Device -> SUBSET KeyPair] /\ \A e \in Device : offered'[e] \subseteq Prekeys[e]
  BY DEF BookTypes

LEMMA HistoryMore ==
    ASSUME BookTypes, NEW d \in Device, NEW h \in SUBSET Nat, history' = [history EXCEPT ![d] = h]
    PROVE  history' \in [Device -> SUBSET Nat]
  BY DEF BookTypes

LEMMA PushedMore ==
    ASSUME BookTypes, NEW d \in Device, NEW h \in SUBSET Nat,
           pushed' = [pushed EXCEPT ![d] = @ \cup h]
    PROVE  /\ pushed' \in [Device -> SUBSET Nat] /\ pushed'[d] = pushed[d] \cup h
           /\ \A e \in Device : e # d => pushed'[e] = pushed[e]
  BY DEF BookTypes

\* The actions of one call.
Acts(d, c) ==
    \/ Quiet(d, c) \/ PostStored(d, c) \/ SendInSession(d, c) \/ SendFirst(d, c)
    \/ OnMessage(d, c) \/ HandleNext(d, c)

LEMMA InboundNat ==
    ASSUME KeysInv, NEW d
    PROVE  Inbound(d) \subseteq Nat /\ Inbound(d) \subseteq DOMAIN sent
  BY DEF KeysInv, KeyTypes, Inbound

LEMMA ActsTypes ==
    ASSUME KeysInv, BookTypes, NEW d \in Device, NEW c \in Slots[d], Acts(d, c)
    PROVE  BookTypes'
  <1>1. history' \in [Device -> SUBSET Nat]
    <2>1. CASE StoreHistory(d, c)
      <3>1. calls[d][c].base \cup {calls[d][c].msg} \in SUBSET Nat
        BY DEF KeysInv, KeyTypes, CallsType, Call
      <3> QED BY <2>1, <3>1, HistoryMore DEF StoreHistory
    <2>2. CASE history' = history
      BY <2>2 DEF BookTypes
    <2> QED BY <2>1, <2>2 DEF Acts, Quiet, FetchBundle, PostFails, PostAnswered, Written, LoadHistory,
             WriteFails, SyncHistory, AnswerHistory, EndSync, PostStored, SendInSession, SendFirst,
             OnMessage, HandleNext
  <1>2. pushed' \in [Device -> SUBSET Nat]
    <2>1. CASE OnMessage(d, c)
      <3>1. PICK i \in Inbound(d) : pushed' = [pushed EXCEPT ![d] = @ \cup {i}]
        BY <2>1 DEF OnMessage
      <3>2. {i} \in SUBSET Nat
        BY InboundNat
      <3> QED BY <3>1, <3>2, PushedMore
    <2>2. CASE pushed' = pushed
      BY <2>2 DEF BookTypes
    <2> QED BY <2>1, <2>2 DEF Acts, Quiet, FetchBundle, PostFails, PostAnswered, Written, LoadHistory,
             StoreHistory, WriteFails, SyncHistory, AnswerHistory, EndSync, PostStored,
             SendInSession, SendFirst, HandleNext
  <1>3. synced' \in [Device -> BOOLEAN]
    <2>1. CASE SyncHistory(d, c)
      BY <2>1 DEF BookTypes, SyncHistory
    <2>2. CASE synced' = synced
      BY <2>2 DEF BookTypes
    <2> QED BY <2>1, <2>2 DEF Acts, Quiet, FetchBundle, PostFails, PostAnswered, Written, LoadHistory,
             StoreHistory, WriteFails, AnswerHistory, EndSync, PostStored,
             SendInSession, SendFirst, OnMessage, HandleNext
  <1>4. reloads' = reloads
    BY DEF Acts, Quiet, FetchBundle, PostFails, PostAnswered, Written, LoadHistory,
             StoreHistory, WriteFails, SyncHistory, AnswerHistory, EndSync, PostStored,
             SendInSession, SendFirst, OnMessage, HandleNext
  <1>5. offered' \in [Device -> SUBSET KeyPair] /\ \A e \in Device : offered'[e] \subseteq Prekeys[e]
    <2>1. CASE offered' = offered
      BY <2>1 DEF BookTypes
    <2>2. CASE \E k : offered' = [offered EXCEPT ![Peer(d)] = @ \ {k}]
      BY <2>2, Peers, OfferedLess
    <2> QED BY <2>1, <2>2 DEF Acts, Quiet, FetchBundle, PostFails, PostAnswered, Written, LoadHistory,
             StoreHistory, WriteFails, SyncHistory, AnswerHistory, EndSync, PostStored,
             SendInSession, SendFirst, OnMessage, HandleNext
  <1>6. sends' \in 0 .. MaxSends
    <2>1. CASE sends < MaxSends /\ sends' = sends + 1
      BY <2>1, WebClientAssumption DEF BookTypes
    <2>2. CASE sends' = sends
      BY <2>2 DEF BookTypes
    <2> QED BY <2>1, <2>2 DEF Acts, Quiet, FetchBundle, PostFails, PostAnswered, Written, LoadHistory,
             StoreHistory, WriteFails, SyncHistory, AnswerHistory, EndSync, PostStored,
             SendInSession, SendFirst, OnMessage, HandleNext
  <1> QED BY <1>1, <1>2, <1>3, <1>4, <1>5, <1>6 DEF BookTypes

\* What OnMessage and HandleNext have in common.
LEMMA ReadsMoves ==
    ASSUME KeysInv, BookTypes, BookInv, HistInv, NEW d \in Device, NEW c \in Slots[d],
           OnMessage(d, c) \/ HandleNext(d, c)
    PROVE  KeysInv' /\ \E x, A : Moves(d, c, x, A)
  <1>1. UNCHANGED <<stored, reloads, nextKey, sent, history>>
    BY DEF OnMessage, HandleNext
  <1> PICK y : y = calls[d][c]
    OBVIOUS
  <1>2. /\ y \in Call /\ CallBook(d, y) /\ y.base \subseteq Noted(d)
        /\ \A e \in Device : pushed[e] \subseteq DOMAIN sent
    BY DEF KeysInv, KeyTypes, CallsType, BookInv, Noted
  <1>3. PICK i \in Inbound(d), call \in Call :
          /\ Handle(d, c, i, call)
          /\ call.base \subseteq Noted(d) /\ call.rest \subseteq Inbound(d)
          /\ \A e \in Device : pushed'[e] \subseteq DOMAIN sent
    <2>1. CASE OnMessage(d, c)
      <3>1. PICK i \in Inbound(d) : /\ pushed' = [pushed EXCEPT ![d] = @ \cup {i}]
                                    /\ Handle(d, c, i, [NoCall EXCEPT !.job = "socket"])
        BY <2>1 DEF OnMessage
      <3> PICK call : call = [NoCall EXCEPT !.job = "socket"]
        OBVIOUS
      <3>2. call \in Call
        BY <1>2, CallForms
      <3>3. call.base = {} /\ call.rest = {}
        BY DEF NoCall
      <3>4. {i} \in SUBSET Nat /\ i \in DOMAIN sent
        BY InboundNat
      <3>5. \A e \in Device : pushed'[e] \subseteq DOMAIN sent
        BY <1>2, <3>1, <3>4, PushedMore
      <3>6. Handle(d, c, i, call)
        BY <3>1
      <3> QED BY <3>2, <3>3, <3>5, <3>6
    <2>2. CASE HandleNext(d, c)
      <3>1. PICK i \in y.rest : Handle(d, c, i, [y EXCEPT !.rest = @ \ {i}])
        BY <2>2 DEF HandleNext
      <3>2. y.rest \subseteq Inbound(d)
        BY <1>2 DEF CallBook
      <3> PICK q : q = y.rest \ {i}
        OBVIOUS
      <3> PICK call : call = [y EXCEPT !.rest = q]
        OBVIOUS
      <3>3. q \in SUBSET Nat /\ q \subseteq Inbound(d) /\ i \in Inbound(d)
        BY <3>2, InboundNat
      <3>4. call \in Call
        BY <1>2, <3>3, CallForms
      <3>5. call.base = y.base /\ call.rest = q
        BY <1>2 DEF Call
      <3>6. pushed' = pushed
        BY <2>2 DEF HandleNext
      <3>7. Handle(d, c, i, call)
        BY <3>1
      <3> QED BY <1>2, <3>3, <3>4, <3>5, <3>6, <3>7
    <2> QED BY <2>1, <2>2
  <1>4. PICK o, x : Handled(d, c, i, call, o, x)
    BY <1>3, HandleIs
  <1>5. KeysInv'
    BY <1>1, <1>4, HandleKeys
  <1>6. Moves(d, c, x, {})
    BY <1>1, <1>3, <1>4, HandledMoves
  <1> QED BY <1>5, <1>6

IInv == KeysInv /\ BookTypes /\ BookInv /\ HistInv

LEMMA ActsInv ==
    ASSUME IInv, NEW d \in Device, NEW c \in Slots[d], Acts(d, c)
    PROVE  IInv'
  <1>1. BookTypes'
    BY ActsTypes DEF IInv
  <1>2. KeysInv' /\ \E x, A : Moves(d, c, x, A)
    <2>1. CASE Quiet(d, c)
      BY <2>1, QuietKeys, QuietMoves DEF IInv
    <2>2. CASE PostStored(d, c)
      BY <2>2, PostKeys, PostMoves DEF IInv
    <2>3. CASE SendInSession(d, c) \/ SendFirst(d, c)
      BY <2>3, SendKeys, SealMoves DEF IInv
    <2>4. CASE OnMessage(d, c) \/ HandleNext(d, c)
      BY <2>4, ReadsMoves DEF IInv
    <2> QED BY <2>1, <2>2, <2>3, <2>4 DEF Acts
  <1>3. PICK x, A : Moves(d, c, x, A)
    BY <1>2
  <1> QED BY <1>1, <1>2, <1>3, MovesBook, MovesHist DEF IInv

LEMMA ReloadInv ==
    ASSUME IInv, NEW d \in Device, Reload(d)
    PROVE  IInv'
  <1>1. KeysInv'
    BY ReloadKeys DEF IInv
  <1>2. PICK k \in 0 .. Len(sent) :
          pushed' = [pushed EXCEPT ![d] = @ \cup {i \in Inbound(d) : i <= k}]
    BY DEF Reload
  <1>3. /\ reloads[d] < MaxReloads[d] /\ reloads' = [reloads EXCEPT ![d] = @ + 1]
        /\ page' = [page EXCEPT ![d] = stored[d]]
        /\ calls' = [calls EXCEPT ![d] = [c \in Slots[d] |-> NoCall]]
        /\ synced' = [synced EXCEPT ![d] = FALSE]
        /\ UNCHANGED <<stored, history, sends, offered, nextKey, sent>>
    BY DEF Reload
  <1> PICK h : h = {i \in Inbound(d) : i <= k}
    OBVIOUS
  <1>4. h \in SUBSET Nat /\ h \subseteq DOMAIN sent
    BY InboundNat DEF IInv
  <1>5. /\ pushed' \in [Device -> SUBSET Nat] /\ pushed'[d] = pushed[d] \cup h
        /\ \A e \in Device : e # d => pushed'[e] = pushed[e]
    BY <1>2, <1>4, PushedMore DEF IInv
  <1>6. /\ reloads \in [Device -> Nat] /\ reloads'[d] = reloads[d] + 1
        /\ \A e \in Device : e # d => reloads'[e] = reloads[e]
    BY <1>3 DEF IInv, KeysInv, KeyTypes
  <1>7. BookTypes'
    <2>1. synced' \in [Device -> BOOLEAN]
      BY <1>3 DEF IInv, BookTypes
    <2>2. ASSUME NEW e \in Device PROVE reloads'[e] \in 0 .. MaxReloads[e]
      <3>1. MaxReloads[e] \in Nat /\ reloads[e] \in 0 .. MaxReloads[e]
        BY WebClientAssumption DEF IInv, BookTypes
      <3> QED BY <1>3, <1>6, <3>1
    <2> QED BY <1>3, <1>5, <2>1, <2>2 DEF IInv, BookTypes
  <1>8. /\ \A c \in Slots[d] : calls'[d][c] = NoCall
        /\ \A e \in Device : e # d => calls'[e] = calls[e]
    BY <1>3 DEF IInv, KeysInv, KeyTypes, CallsType
  <1>9. NoCall.stage = "idle" /\ NoCall.base = {} /\ NoCall.rest = {}
    BY DEF NoCall
  <1>10. BookInv'
    <2>1. ASSUME NEW e \in Device
          PROVE  history'[e] \subseteq DOMAIN sent' /\ pushed'[e] \subseteq DOMAIN sent'
      <3>1. history[e] \subseteq DOMAIN sent /\ pushed[e] \subseteq DOMAIN sent
        BY DEF IInv, BookInv
      <3> QED BY <1>3, <1>4, <1>5, <3>1
    <2>2. ASSUME NEW e \in Device, NEW c \in Slots[e] PROVE CallBook(e, calls[e][c])'
      <3>1. CASE e = d
        <4>1. calls'[e][c].stage = "idle" /\ calls'[e][c].base = {} /\ calls'[e][c].rest = {}
          BY <1>8, <1>9, <3>1
        <4> QED BY <4>1 DEF CallBook, Carries
      <3>2. CASE e # d
        <4>1. CallBook(e, calls[e][c]) /\ calls'[e] = calls[e] /\ sent' = sent
          BY <1>3, <1>8, <3>2 DEF IInv, BookInv
        <4> QED BY <4>1 DEF CallBook, Carries, Inbound
      <3> QED BY <3>1, <3>2
    <2> QED BY <2>1, <2>2 DEF BookInv
  <1>11. HistInv'
    <2> SUFFICES ASSUME NEW e \in Device, reloads'[e] = 0 PROVE OneHand(e)'
      BY DEF HistInv
    <2>1. e # d
      BY <1>6
    <2>2. page'[e] = page[e] /\ calls'[e] = calls[e] /\ history' = history /\ sent' = sent
      BY <1>3, <1>8, <2>1 DEF IInv, KeysInv, KeyTypes
    <2>3. OneHand(e)
      BY <1>6, <2>1 DEF IInv, HistInv
    <2> QED BY <2>2, <2>3 DEF OneHand, Noted, Spent, Alone, Carries
  <1> QED BY <1>1, <1>7, <1>10, <1>11 DEF IInv

LEMMA IInvStep == IInv /\ [Next]_vars => IInv'
  <1> SUFFICES ASSUME IInv, [Next]_vars PROVE IInv'
    OBVIOUS
  <1>1. ASSUME NEW d \in Device, Reload(d) PROVE IInv'
    BY <1>1, ReloadInv
  <1>2. ASSUME NEW d \in Device, NEW c \in Slots[d], Acts(d, c) PROVE IInv'
    BY <1>2, ActsInv
  <1>3. CASE UNCHANGED vars
    <2>1. UNCHANGED <<page, stored, history, calls, synced, sends, reloads,
                      offered, nextKey, sent, pushed>>
      BY <1>3 DEF vars
    <2>2. KeysInv'
      <3>1. KeyTypes'
        BY <2>1 DEF IInv, KeysInv, KeyTypes, CallsType, Held
      <3>2. Rests
        BY <2>1 DEF Rests, Held, Posting, At
      <3> QED BY <3>1, <3>2, RestsKeys DEF IInv
    <2>3. BookTypes' /\ BookInv'
      BY <2>1 DEF IInv, BookTypes, BookInv, CallBook, Carries, Inbound
    <2>4. HistInv'
      BY <2>1 DEF IInv, HistInv, OneHand, Noted, Spent, Alone, Carries
    <2> QED BY <2>2, <2>3, <2>4 DEF IInv
  <1>4. CASE Next
    <2> PICK d \in Device :
        \/ Reload(d)
        \/ \E c \in Slots[d] :
             \/ SendInSession(d, c) \/ FetchBundle(d, c) \/ SendFirst(d, c)
             \/ PostStored(d, c) \/ PostFails(d, c)
             \/ PostAnswered(d, c) \/ Written(d, c) \/ LoadHistory(d, c) \/ StoreHistory(d, c)
             \/ WriteFails(d, c)
             \/ OnMessage(d, c)
             \/ SyncHistory(d, c) \/ AnswerHistory(d, c) \/ HandleNext(d, c) \/ EndSync(d, c)
      BY <1>4 DEF Next
    <2>1. Reload(d) \/ \E c \in Slots[d] : Acts(d, c)
      BY DEF Acts, Quiet
    <2> QED BY <1>1, <1>2, <2>1
  <1> QED BY <1>3, <1>4

LEMMA IInvInit == Init => IInv
  <1> SUFFICES ASSUME Init PROVE IInv
    OBVIOUS
  <1>1. /\ page = [d \in Device |-> [session |-> None, prekeys |-> Prekeys[d]]]
        /\ stored = page /\ history = [d \in Device |-> {}]
        /\ calls = [d \in Device |-> [c \in Slots[d] |-> NoCall]]
        /\ synced = [d \in Device |-> FALSE] /\ sends = 0 /\ reloads = [d \in Device |-> 0]
        /\ offered = Prekeys /\ nextKey = FirstKey /\ sent = <<>> /\ pushed = history
    BY DEF Init
  <1>2. \A d \in Device : Prekeys[d] \subseteq KeyPair
    BY NoneIs DEF KeyPair
  <1>3. page \in [Device -> State]
    BY <1>1, <1>2 DEF State
  <1>4. NoCall.stage = "idle" /\ NoCall.base = {} /\ NoCall.rest = {} /\ NoCall \in Call
    BY NoCallType DEF NoCall
  <1>5. \A d \in Device : \A c \in Slots[d] : calls[d][c] = NoCall
    BY <1>1
  <1>6. \A d \in Device : \A c \in Slots[d] : ~Posting(d, c) /\ ~Carries(calls[d][c])
    BY <1>4, <1>5 DEF Posting, At, Carries
  <1>7. CallsType
    BY <1>1, <1>4 DEF CallsType
  <1>8. ASSUME NEW d \in Device, NEW st \in Held(d) PROVE st = page[d]
    BY <1>1, <1>4, <1>5 DEF Held
  <1>9. \A d \in Device : \A e : ~Sealed(d, e)
    BY <1>1, <1>6 DEF Sealed
  <1>10. KeyTypes
    <2>1. \A d \in Device : Held(d) \subseteq State
      BY <1>3, <1>8
    <2>2. sent \in Seq(Envelope) /\ reloads \in [Device -> Nat]
      BY <1>1
    <2> QED BY <1>1, <1>3, <1>7, <2>1, <2>2, NoneIs DEF KeyTypes
  <1>11. \A d \in Device : page[d].session = None /\ page[d].prekeys = Prekeys[d]
    BY <1>1
  <1>12. StatesInv
    BY <1>8, <1>11 DEF StatesInv, StateInv
  <1>13. RootsInv
    BY <1>8, <1>9, <1>11 DEF RootsInv, OnRoot, SendsOn
  <1>14. KeysInv
    BY <1>1, <1>6, <1>9, <1>10, <1>12, <1>13
       DEF KeysInv, SealedInv, AheadInv, HandsInv, KeyUniqueOnPage
  <1>15. BookTypes
    <2>1. Prekeys \in [Device -> SUBSET KeyPair]
      BY <1>2, WebClientAssumption
    <2>2. \A d \in Device : MaxReloads[d] \in Nat
      BY WebClientAssumption
    <2> QED BY <1>1, <2>1, <2>2, WebClientAssumption DEF BookTypes
  <1>16. BookInv
    BY <1>1, <1>4, <1>5, <1>6 DEF BookInv, CallBook
  <1>17. HistInv
    <2>1. \A d \in Device : Noted(d) = {}
      BY <1>1, <1>4, <1>5 DEF Noted
    <2> QED BY <1>6, <2>1 DEF HistInv, OneHand
  <1> QED BY <1>14, <1>15, <1>16, <1>17 DEF IInv

LEMMA IInvHolds == Spec => []IInv
BY IInvInit, IInvStep, PTL DEF Spec

\* Type correctness: prekeys are only ever used up, what is in a local history
\* or was pushed has been posted, and the page and the store hold sessions.
THEOREM StateIsTyped == Spec => []TypeOK
<1>1. IInv => TypeOK
  <2> SUFFICES ASSUME IInv PROVE TypeOK
    OBVIOUS
  <2>1. ASSUME NEW d \in Device, NEW s \in {page[d], stored[d]}
        PROVE  /\ s.prekeys \subseteq Prekeys[d]
               /\ s.session # None => s.session.root \in RootKey /\ s.session.own \in KeyPair
    <3>1. StateInv(d, s, nextKey)
      BY DEF IInv, KeysInv, StatesInv, Held
    <3> QED BY <3>1 DEF StateInv, SessionInv, Tidy, Session
  <2>2. history \in [Device -> SUBSET DOMAIN sent] /\ pushed \in [Device -> SUBSET DOMAIN sent]
    BY DEF IInv, BookTypes, BookInv
  <2> QED BY <2>1, <2>2 DEF TypeOK, IInv, BookTypes, KeysInv, KeyTypes, KeyPair
<1> QED BY <1>1, IInvHolds, PTL

\* However the calls of a page overlap and fail, Encrypt never seals two of its
\* envelopes with one message key between two loads of the page.
THEOREM KeysAreNotRepeated == Spec => []KeyUniqueOnPage
BY IInvHolds, PTL DEF IInv, KeysInv

\* While a handshake has not made a session, the prekey it asks for is there:
\* handleEnvelope drops a prekey only together with the new session.
THEOREM PrekeysAreKept == Spec => []PrekeyForHandshake
<1>1. IInv => PrekeyForHandshake
  <2> SUFFICES ASSUME IInv, NEW i \in DOMAIN sent, page[Peer(sent[i].from)].session = None,
                      sent[i].prekey # None
               PROVE  sent[i].prekey \in page[Peer(sent[i].from)].prekeys
    BY DEF PrekeyForHandshake
  <2> PICK d : d = sent[i].from
    OBVIOUS
  <2>1. sent[i] \in Envelope
    BY DEF IInv, KeysInv, KeyTypes
  <2>2. d \in Device /\ Peer(d) \in Device
    BY <2>1, Peers DEF Envelope
  <2>3. EnvInv(d, sent[i], nextKey, reloads[d])
    BY <2>2 DEF IInv, KeysInv, SealedInv, Sealed
  <2>4. StateInv(Peer(d), page[Peer(d)], nextKey)
    BY <2>2 DEF IInv, KeysInv, StatesInv, Held
  <2> QED BY <2>3, <2>4 DEF EnvInv, StateInv
<1> QED BY <1>1, IInvHolds, PTL

\* Until the page is loaded again appendMessages never adds a message that is
\* in the history, although the socket and the history sync may both bring it.
THEOREM MessagesAreKeptOnce == Spec => []KeptOnce
<1>1. IInv => KeptOnce
  <2> SUFFICES ASSUME IInv, NEW d \in Device, NEW c \in Slots[d], At(d, c, "loaded"),
                      calls[d][c].msg \in calls[d][c].base
               PROVE  reloads[d] > 0
    BY DEF KeptOnce
  <2>1. reloads[d] \in Nat
    BY DEF IInv, KeysInv, KeyTypes
  <2>2. Carries(calls[d][c])
    BY DEF At, Carries
  <2>3. calls[d][c].msg \in Noted(d)
    BY DEF Noted
  <2>4. reloads[d] # 0
    BY <2>2, <2>3 DEF IInv, HistInv, OneHand
  <2> QED BY <2>1, <2>4
<1> QED BY <1>1, IInvHolds, PTL

-----------------------------------------------------------------------------
(* The vault.                                                              *)

(***************************************************************************)
(* That an unlock or a setup is under way says what has been stored and    *)
(* where the page is; the key manager's copy of the attempts is never more *)
(* permissive than what is stored.                                         *)
(***************************************************************************)
VaultInv ==
    /\ VaultTypeOK
    /\ NothingOutlivesKey
    /\ op \notin {"idle", "wrapping"} => wrapped
    /\ cached = "clear" => storedAttempts = "clear"
    /\ op \in {"wrapping", "opening", "refusing", "resetting"} => storedAttempts = "clear"
    /\ ~wrapped => storedAttempts = "clear"
    /\ op = "recording" => cached # "unread"

LEMMA VaultInvInit == VaultInit => VaultInv
BY DEF VaultInit, VaultInv, VaultTypeOK, NothingOutlivesKey, Unlocked, Stage

LEMMA VaultInvStep == VaultInv /\ [VaultNext]_vaultVars => VaultInv'
<1> SUFFICES ASSUME VaultInv, [VaultNext]_vaultVars PROVE VaultInv'
  OBVIOUS
<1> USE DEF VaultInv, VaultTypeOK, NothingOutlivesKey, Unlocked, Stage
<1>1. CASE Inactivity
  BY <1>1 DEF Inactivity, Lock
<1>2. CASE Idle
  BY <1>2 DEF Idle, Lock
<1>3. CASE HandleVisibility
  BY <1>3 DEF HandleVisibility, Lock
<1>4. CASE HandlePageHide
  BY <1>4 DEF HandlePageHide, Lock
<1>5. CASE HandleActivity
  BY <1>5 DEF HandleActivity
<1>6. CASE SetupPin
  BY <1>6 DEF SetupPin
<1>7. CASE StoreWrapped
  BY <1>7 DEF StoreWrapped
<1>8. CASE FinishSetup
  BY <1>8 DEF FinishSetup
<1>9. ASSUME NEW right \in BOOLEAN, TryPin(right) PROVE VaultInv'
  BY <1>9 DEF TryPin, Attempts
<1>10. CASE OpenWrapped
  BY <1>10 DEF OpenWrapped
<1>11. CASE FinishUnlock
  BY <1>11 DEF FinishUnlock
<1>12. CASE RecordFailedAttempt
  BY <1>12 DEF RecordFailedAttempt
<1>13. CASE StoreFailedAttempt
  BY <1>13 DEF StoreFailedAttempt
<1>14. CASE FailWrite
  BY <1>14 DEF FailWrite
<1>15. CASE WaitIsOver
  BY <1>15 DEF WaitIsOver
<1>16. CASE OpenPage
  BY <1>16 DEF OpenPage
<1>17. CASE LeavePage
  BY <1>17 DEF LeavePage
<1>18. CASE Load
  BY <1>18 DEF Load
<1>19. CASE ReloadPage
  BY <1>19 DEF ReloadPage
<1>20. CASE GoAway
  BY <1>20 DEF GoAway
<1>21. CASE UNCHANGED vaultVars
  BY <1>21 DEF vaultVars
<1> QED
  BY <1>1, <1>2, <1>3, <1>4, <1>5, <1>6, <1>7, <1>8, <1>9, <1>10, <1>11,
     <1>12, <1>13, <1>14, <1>15, <1>16, <1>17, <1>18, <1>19, <1>20, <1>21
     DEF VaultNext, Proceed

LEMMA VaultInvHolds == VaultSpec => []VaultInv
BY VaultInvInit, VaultInvStep, PTL DEF VaultSpec

\* Type correctness; the key is in memory only once it has been wrapped.
THEOREM VaultIsTyped == VaultSpec => []VaultTypeOK
BY VaultInvHolds, PTL DEF VaultInv

\* Messages are shown only while the key is in memory (the messages page), and
\* no timer outlives the key it was armed for (lock and resetInactivityTimer).
THEOREM Shown == VaultSpec => []NothingOutlivesKey
BY VaultInvHolds, PTL DEF VaultInv

\* No PIN is tried while the stored attempts say to wait (unlock).
THEOREM Waiting == VaultSpec => NoTryWhileWaiting
<1>1. VaultInv /\ [VaultNext]_vaultVars
        => [op = "idle" /\ op' \in {"opening", "refusing"} => storedAttempts = "clear"]_vaultVars
  <2> SUFFICES ASSUME VaultInv, VaultNext, op = "idle", op' \in {"opening", "refusing"}
               PROVE  storedAttempts = "clear"
    OBVIOUS
  <2>1. \E right \in BOOLEAN : TryPin(right)
    BY DEF VaultNext, Proceed, Inactivity, Idle, HandleVisibility, HandlePageHide, HandleActivity,
           SetupPin, StoreWrapped, FinishSetup, OpenWrapped, FinishUnlock, RecordFailedAttempt,
           StoreFailedAttempt, FailWrite, WaitIsOver, OpenPage, LeavePage, Load, ReloadPage, GoAway
  <2> QED BY <2>1 DEF TryPin, Attempts, VaultInv, VaultTypeOK
<1> QED BY <1>1, VaultInvHolds, PTL DEF VaultSpec, NoTryWhileWaiting
===============================================================================
